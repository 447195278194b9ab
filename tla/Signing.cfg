SPECIFICATION Spec
CONSTANTS
  Word = 2
  Lanes = 13
  BitSizes <- MCBitSizes
  MaxFed = 11
  Requests <- MCRequests
  NonceBytes = 2
  AddressBytes = 1
  KeyBytes = 2
  Curve <- MCCurve
  Characters <- MCCharacters
  NoText = NoText
  MaxDropped = 1
INVARIANTS DigestIsReference SignedAsAsked KeyAsGiven Recoverable HeapRight
