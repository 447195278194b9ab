------------------------------ MODULE Signing ------------------------------
(***************************************************************************)
(* How a request is signed: msgpack/serialize.c packs the action and       *)
(* appends nonce and vault, crypto/eip712.c hashes the result into the     *)
(* message of an agent and signs that.  Every keccak256 really runs on the *)
(* sponge.  While no request is signed, the application may hash by pieces.*)
(*                                                                         *)
(* One write to the MessagePack buffer is a token: the size of a map, an   *)
(* array or a text, the body of a text, a number, a truth value.  So is a  *)
(* byte, and a field of 32 bytes.  Hashes are free of collisions.          *)
(***************************************************************************)
EXTENDS Sponge

CONSTANTS Requests,     \* calls: [action, nonce, vault, source, key], where an action is
                        \* [type, orders, grouping] or [type, cancels], and key is
                        \* what the client was created with
          NonceBytes,   \* bytes of a nonce (8)
          AddressBytes, \* bytes of an address (20)
          KeyBytes,     \* bytes of a key (32)
          Curve,        \* halves of signatures, as bytes
          Characters,   \* what texts are written with
          NoText,       \* NULL
          MaxDropped    \* bound: writes that find no memory in one action

\* The digits as they are written; letters are read in either case.
Digits == <<"0", "1", "2", "3", "4", "5", "6", "7", "8", "9", "a", "b", "c", "d", "e", "f">>
Capitals == <<"0", "1", "2", "3", "4", "5", "6", "7", "8", "9", "A", "B", "C", "D", "E", "F">>

ASSUME SigningAssumption ==
  /\ {NonceBytes, AddressBytes, KeyBytes} \subseteq Nat \ {0} /\ MaxDropped \in Nat
  /\ 4 \in BitSizes
  /\ Curve \subseteq Seq(0 .. 255)
  /\ {Digits[d] : d \in 1 .. 16} \cup {"x", "X"} \subseteq Characters
  /\ NoText \notin Seq(Characters)
  /\ \A r \in Requests :
       r.key \in Seq(Characters) /\ (r.vault = NoText \/ r.vault \in Seq(Characters))

VARIABLES request, \* the arguments of the call
          step,    \* what it is doing
          todo,    \* tokens of the action that are still to be packed
          dropped, \* how many writes found no memory
          packed,  \* the MessagePack buffer, then what is hashed
          block,   \* bytes allocated for what is hashed
          hashes,  \* the hashes of 32 bytes it has
          heap,    \* what it has allocated and not released
          trial,   \* what the curve signed, and the recovery id under trial
          signed   \* the signature it returned

signVars == <<request, step, todo, dropped, packed, block, hashes, heap, trial, signed>>
vars == <<spongeVars, signVars>>

----------------------------------------------------------------------------

IsHex(c) == \E d \in 1 .. 16 : c \in {Digits[d], Capitals[d]}
ValueOf(c) == (CHOOSE d \in 1 .. 16 : c \in {Digits[d], Capitals[d]}) - 1

\* The result -1.
NoBytes == <<-1>>

Unprefixed(text) ==
  IF Len(text) >= 2 /\ text[1] = "0" /\ text[2] \in {"x", "X"} THEN SubSeq(text, 3, Len(text)) ELSE text

\* Mutant: letters in lower case only.
hex_to_bytes_lower(text, max) ==
  LET hex == IF text = NoText THEN <<"none">> ELSE Unprefixed(text)
  IN IF Len(hex) % 2 = 0 /\ Len(hex) \div 2 <= max /\ \A i \in 1 .. Len(hex) : \E d \in 1 .. 16 : hex[i] = Digits[d]
       THEN [i \in 1 .. Len(hex) \div 2 |-> 16 * ValueOf(hex[2 * i - 1]) + ValueOf(hex[2 * i])]
       ELSE NoBytes

\* The bytes that a text of hexadecimal digits states, if it states at most max.
hex_to_bytes(text, max) ==
  LET hex == IF text = NoText THEN <<"none">> ELSE Unprefixed(text)
  IN IF Len(hex) % 2 = 0 /\ Len(hex) \div 2 <= max /\ \A i \in 1 .. Len(hex) : IsHex(hex[i])
       THEN [i \in 1 .. Len(hex) \div 2 |-> 16 * ValueOf(hex[2 * i - 1]) + ValueOf(hex[2 * i])]
       ELSE NoBytes

HexDigit(bytes, i) == Digits[(IF i % 2 = 1 THEN bytes[(i + 1) \div 2] \div 16 ELSE bytes[i \div 2] % 16) + 1]

bytes_to_hex(bytes) == <<"0", "x">> \o [i \in 1 .. 2 * Len(bytes) |-> HexDigit(bytes, i)]

Exactly(bytes, n) == IF Len(bytes) = n THEN bytes ELSE NoBytes
parse_eth_address(text) == Exactly(hex_to_bytes(text, AddressBytes), AddressBytes)

\* A client is created with a key of 64 or 66 characters, and keeps 64 of them,
\* behind the prefix if there is one.
Accepted(text) == Len(text) \in {2 * KeyBytes, 2 * KeyBytes + 2}
Stripped(text) == IF text[1] = "0" /\ text[2] = "x" THEN SubSeq(text, 3, Len(text)) ELSE text
KeptKey(text) ==
  LET key == Stripped(text) IN IF Len(key) > 2 * KeyBytes THEN SubSeq(key, 1, 2 * KeyBytes) ELSE key

PrivateKey(text) == Exactly(hex_to_bytes(KeptKey(text), KeyBytes), KeyBytes)

----------------------------------------------------------------------------

\* A text takes two writes, of its size and of its bytes.
Size(t) == <<"str", Len(t)>>
Body(t) == <<"body", t>>

pack_order(o) ==
  <<<<"map", 6>>, Size("a"), Body("a"), <<"uint", o.a>>, Size("b"), Body("b"), <<"bool", o.b>>,
    Size("p"), Body("p"), Size(o.p), Body(o.p), Size("s"), Body("s"), Size(o.s), Body(o.s),
    Size("r"), Body("r"), <<"bool", o.r>>, Size("t"), Body("t"),
    <<"map", 1>>, Size("limit"), Body("limit"), <<"map", 1>>, Size("tif"), Body("tif"), Size(o.tif), Body(o.tif)>>

pack_cancel(c) ==
  <<<<"map", 2>>, Size("a"), Body("a"), <<"uint", c.a>>, Size("o"), Body("o"), <<"uint", c.o>>>>

\* Items of n tokens each, one behind the other.
Row(items, n) ==
  [k \in 1 .. n * Len(items) |-> items[((k - 1) \div n) + 1][((k - 1) % n) + 1]]

\* What comes before the orders or cancels of an action.
Opening(fields, type, list, n) ==
  <<<<"map", fields>>, Size("type"), Body("type"), Size(type), Body(type), Size(list), Body(list), <<"array", n>>>>

pack_order_action(action) ==
  Opening(3, "order", "orders", Len(action.orders))
    \o Row([i \in 1 .. Len(action.orders) |-> pack_order(action.orders[i])], 28)
    \o <<Size("grouping"), Body("grouping"), Size(action.grouping), Body(action.grouping)>>

pack_cancel_action(action) ==
  Opening(2, "cancel", "cancels", Len(action.cancels))
    \o Row([i \in 1 .. Len(action.cancels) |-> pack_cancel(action.cancels[i])], 7)

Pack(action) ==
  IF action.type = "order" THEN pack_order_action(action) ELSE pack_cancel_action(action)

Bytes(s) == [i \in DOMAIN s |-> <<"byte", s[i]>>]

Power[k \in 0 .. NonceBytes] == IF k = 0 THEN 1 ELSE 256 * Power[k - 1]

\* Most significant byte first.
NonceAt(nonce, i) == (nonce \div Power[NonceBytes - i]) % 256
BigEndian(nonce) == [i \in 1 .. NonceBytes |-> <<"byte", NonceAt(nonce, i)>>]

\* NULL and the empty text mean that there is no vault.
HasVault(r) == r.vault # NoText /\ r.vault # <<>>
\* Mutant: without the address.
MarkerBare(r) == <<<<"byte", IF HasVault(r) THEN 1 ELSE 0>>>>

Marker(r) ==
  IF HasVault(r) THEN <<<<"byte", 1>>>> \o Bytes(parse_eth_address(r.vault)) ELSE <<<<"byte", 0>>>>

\* The structures of hl_msgpack.h.
IsOrder(o) == o = [a |-> o.a, b |-> o.b, p |-> o.p, s |-> o.s, r |-> o.r, tif |-> o.tif]
IsCancel(c) == c = [a |-> c.a, o |-> c.o]
IsAction(x) ==
  \/ /\ x.type = "order" /\ x = [type |-> "order", orders |-> x.orders, grouping |-> x.grouping]
     /\ x.orders \in Seq({x.orders[i] : i \in DOMAIN x.orders})
     /\ \A i \in DOMAIN x.orders : IsOrder(x.orders[i])
  \/ /\ x.type = "cancel" /\ x = [type |-> "cancel", cancels |-> x.cancels]
     /\ x.cancels \in Seq({x.cancels[i] : i \in DOMAIN x.cancels})
     /\ \A i \in DOMAIN x.cancels : IsCancel(x.cancels[i])

ASSUME RequestsAssumption ==
  \A r \in Requests : IsAction(r.action) /\ r.nonce \in 0 .. Power[NonceBytes] - 1

\* The block is allocated before the vault is looked at.
Allocated(r, size) == size + NonceBytes + (IF r.vault # NoText THEN AddressBytes + 1 ELSE 1)

----------------------------------------------------------------------------

NoRequest == [action |-> [type |-> "none"], nonce |-> 0, vault |-> NoText, source |-> "", key |-> NoText]
NoTrial == [half |-> <<>>, keys |-> <<>>, id |-> 0]
NoSignature == [hash |-> <<>>, key |-> <<>>, half |-> <<>>, r |-> <<>>, v |-> 0]

SigningInit ==
  /\ request = NoRequest /\ step = "idle" /\ todo = <<>> /\ dropped = 0 /\ packed = <<>> /\ block = 0
  /\ hashes = [h \in {} |-> <<>>] /\ heap = {}
  /\ trial = NoTrial /\ signed = NoSignature

Init == SpongeInit /\ SigningInit

Goto(s) == step' = s

\* Every path that fails releases what the call holds.
Fails(released) ==
  /\ Goto("failed") /\ heap' = heap \ released
  /\ todo' = <<>> /\ packed' = <<>>
  /\ UNCHANGED <<spongeVars, request, dropped, block, hashes, trial, signed>>

\* hl_build_order_hash or hl_build_cancel_hash, then eip712_sign_agent, as the
\* trading calls do.
Sign(r) ==
  /\ step = "idle" /\ ctx.capacity = 0 /\ ~hash.on
  /\ Accepted(r.key)
  /\ request' = r /\ Goto("pack") /\ todo' = Pack(r.action) /\ hash' = NoHash
  /\ UNCHANGED <<ctx, input, phase, fed, dropped, packed, block, hashes, heap, trial, signed>>

\* The results of the msgpack_pack functions are not looked at: a write that
\* finds no memory is left out.
Write ==
  /\ step = "pack" /\ todo # <<>>
  /\ todo' = Tail(todo)
  /\ packed' = Append(packed, Head(todo)) /\ heap' = heap \cup {"sbuf"}
  /\ UNCHANGED <<spongeVars, request, step, dropped, block, hashes, trial, signed>>

WriteFails ==
  /\ step = "pack" /\ todo # <<>> /\ dropped < MaxDropped
  /\ todo' = Tail(todo) /\ dropped' = dropped + 1
  /\ UNCHANGED <<spongeVars, request, step, packed, block, hashes, heap, trial, signed>>

AllocFails ==
  /\ step = "pack" /\ todo = <<>>
  /\ Fails({"sbuf"})

\* Mutant: the copy is not released.
BadVaultKeeps ==
  /\ step = "pack" /\ todo = <<>>
  /\ HasVault(request) /\ parse_eth_address(request.vault) = NoBytes
  /\ heap' = (heap \cup {"data"}) \ {"sbuf"} /\ Goto("failed")
  /\ packed' = <<>> /\ UNCHANGED <<spongeVars, request, todo, dropped, block, hashes, trial, signed>>

BadVault ==
  /\ step = "pack" /\ todo = <<>>
  /\ HasVault(request) /\ parse_eth_address(request.vault) = NoBytes
  /\ Fails({"sbuf", "data"})

\* Action, nonce, vault.
Assemble ==
  /\ step = "pack" /\ todo = <<>>
  /\ HasVault(request) => parse_eth_address(request.vault) # NoBytes
  /\ block' = Allocated(request, Len(packed))
  /\ packed' = packed \o BigEndian(request.nonce) \o Marker(request)
  /\ heap' = heap \cup {"data"} /\ Goto("connection")
  /\ UNCHANGED <<spongeVars, request, todo, dropped, hashes, trial, signed>>

----------------------------------------------------------------------------

\* What each keccak256 of a signature is given.
HashSteps == {"connection", "name", "version", "domain", "source", "agent", "message"}

Domain(name, version) ==
  <<<<"type", "EIP712Domain">>, <<"hash", name>>, <<"hash", version>>, <<"chainId", 1337>>,
    <<"verifyingContract", 0>>>>
Agent(source, connection) == <<<<"type", "Agent">>, <<"hash", source>>, <<"hash", connection>>>>
Message(domain, agent) == <<<<"byte", 25>>, <<"byte", 1>>, <<"hash", domain>>, <<"hash", agent>>>>

Input(s) ==
  CASE s = "connection" -> packed
    [] s = "name" -> <<<<"text", "Exchange">>>>
    [] s = "version" -> <<<<"text", "1">>>>
    [] s = "domain" -> Domain(hashes["name"], hashes["version"])
    [] s = "source" -> <<<<"text", request.source>>>>
    [] s = "agent" -> Agent(hashes["source"], hashes["connection"])
    [] s = "message" -> Message(hashes["domain"], hashes["agent"])

StepAfter(s) ==
  CASE s = "connection" -> "name"
    [] s = "name" -> "version"
    [] s = "version" -> "domain"
    [] s = "domain" -> "source"
    [] s = "source" -> "agent"
    [] s = "agent" -> "message"
    [] s = "message" -> "key"

Hashing == step \in HashSteps

keccak256 ==
  /\ Hashing
  /\ sha3_HashBuffer(4, 1, Input(step), 4 * Word)
  /\ UNCHANGED signVars

\* The connection id is the result of hl_build_action_hash, which releases its
\* two blocks.
Hashed ==
  /\ Hashing /\ HashReturns
  /\ hashes' = [h \in DOMAIN hashes \cup {step} |-> IF h = step THEN hash'.digest ELSE hashes[h]]
  /\ heap' = IF step = "connection" THEN heap \ {"data", "sbuf"} ELSE heap
  /\ Goto(StepAfter(step))
  /\ UNCHANGED <<request, todo, dropped, packed, block, trial, signed>>

SpongeRuns == SpongeStep /\ ~(hash.on /\ phase = "idle") /\ UNCHANGED signVars

----------------------------------------------------------------------------

ZeroKey == [i \in 1 .. KeyBytes |-> 0]

Address(key) == <<"address", key>>
NoAddress == <<"none">>

BadKey ==
  /\ step = "key" /\ PrivateKey(request.key) = NoBytes
  /\ Fails({})

\* secp256k1_context_create
ContextFails ==
  /\ step = "key" /\ PrivateKey(request.key) # NoBytes
  /\ Fails({})

MakeContext ==
  /\ step = "key" /\ PrivateKey(request.key) # NoBytes
  /\ heap' = heap \cup {"curve"} /\ Goto("sign")
  /\ UNCHANGED <<spongeVars, request, todo, dropped, packed, block, hashes, trial, signed>>

\* The curve refuses the key 0, and may fail to derive the public key.
CurveFails ==
  /\ step = "sign"
  /\ Fails({"curve"})

\* What each recovery id may lead to (external): no key, the own one, another.
Outcomes(key) == [0 .. 3 -> {NoAddress, Address(key), Address(<<>>)}]

\* r and s; the recovery id that the curve returns with them is not used.
CurveSigns ==
  /\ step = "sign"
  /\ PrivateKey(request.key) # ZeroKey
  /\ \E half \in Curve, keys \in Outcomes(PrivateKey(request.key)) :
       trial' = [half |-> half, keys |-> keys, id |-> 0]
  /\ Goto("try")
  /\ UNCHANGED <<spongeVars, request, todo, dropped, packed, block, hashes, heap, signed>>

Trying == step = "try" /\ trial.id < 4
NextId ==
  /\ trial' = [trial EXCEPT !.id = @ + 1]
  /\ UNCHANGED <<spongeVars, request, step, todo, dropped, packed, block, hashes, heap, signed>>

\* No signature for this id, or no key: continue.
TryFails == Trying /\ trial.keys[trial.id] = NoAddress /\ NextId

TryDiffers == Trying /\ trial.keys[trial.id] \notin {NoAddress, Address(PrivateKey(request.key))} /\ NextId

Found ==
  /\ signed' = [hash |-> hashes["message"], key |-> PrivateKey(request.key), half |-> trial.half,
                r |-> bytes_to_hex(trial.half), v |-> trial.id + 27]
  /\ heap' = heap \ {"curve"} /\ Goto("signed")
  /\ UNCHANGED <<spongeVars, request, todo, dropped, packed, block, hashes, trial>>

\* Mutant: the first id that leads to any key.
TryMatchesAny == Trying /\ trial.keys[trial.id] # NoAddress /\ Found

TryMatches == Trying /\ trial.keys[trial.id] = Address(PrivateKey(request.key)) /\ Found

\* The id stays -1.
NoneMatches ==
  /\ step = "try" /\ trial.id = 4
  /\ Fails({"curve"})

\* The call returns, and the application has its result.
Return ==
  /\ step \in {"failed", "signed"}
  /\ request' = NoRequest /\ Goto("idle") /\ dropped' = 0 /\ packed' = <<>> /\ block' = 0
  /\ hashes' = [h \in {} |-> <<>>] /\ trial' = NoTrial /\ signed' = NoSignature /\ hash' = NoHash
  /\ UNCHANGED <<ctx, input, phase, fed, todo, heap>>

----------------------------------------------------------------------------

\* Bytes nobody has fed yet.
Fresh(from, n) == [i \in 1 .. n |-> <<"byte", from + i>>]

\* An application that hashes for itself, by pieces of any length or at once.
Hashes ==
  /\ step = "idle"
  /\ \/ \E bits \in BitSizes : sha3_Init(bits)
     \/ \E flags \in 0 .. 1 : sha3_SetFlags(flags)
     \/ \E n \in 0 .. MaxFed : sha3_Update(Fresh(Len(fed), n))
     \/ sha3_Finalize
     \/ \E bits \in BitSizes, flags \in 0 .. 2, n \in 0 .. MaxFed, out \in {1, Word * Lanes} :
          sha3_HashBuffer(bits, flags, Fresh(0, n), out)
     \/ HashReturns
  /\ UNCHANGED signVars

SignStep ==
  \/ Write \/ WriteFails \/ AllocFails \/ BadVault \/ Assemble
  \/ keccak256 \/ Hashed
  \/ BadKey \/ ContextFails \/ MakeContext \/ CurveFails \/ CurveSigns
  \/ TryFails \/ TryDiffers \/ TryMatches \/ NoneMatches
  \/ Return

Next == Hashes \/ (\E r \in Requests : Sign(r)) \/ SpongeRuns \/ SignStep

Spec == Init /\ [][Next]_vars

----------------------------------------------------------------------------

Steps == {"idle", "pack", "key", "sign", "try", "signed", "failed"} \cup HashSteps

TypeOK ==
  /\ SpongeInBounds
  /\ phase \in {"idle", "short", "complete", "words", "tail"}
  /\ request \in Requests \cup {NoRequest} /\ step \in Steps
  /\ dropped \in 0 .. MaxDropped /\ block \in Nat /\ trial.id \in 0 .. 4
  /\ DOMAIN hashes \subseteq HashSteps
  /\ heap \subseteq {"sbuf", "data", "curve"}

\* The vault that is meant, not how it is written.
VaultOf(r) == IF HasVault(r) THEN parse_eth_address(r.vault) ELSE NoBytes

\* What the exchange hashes for a request.
Asked(r) == Pack(r.action) \o BigEndian(r.nonce) \o Marker(r)

Keccak(m) == <<"digest", Reference(4, TRUE, m), 4 * Word>>

MessageHash(data, source) ==
  Keccak(Message(Keccak(Domain(Keccak(<<<<"text", "Exchange">>>>), Keccak(<<<<"text", "1">>>>))),
                 Keccak(Agent(Keccak(<<<<"text", source>>>>), Keccak(data)))))

\* What is signed is the hash that the exchange computes from the bytes that
\* were packed and the source of the call, each digest being where it belongs
\* (eip712.c:183, 223, 248).
HashOfPacked == step = "signed" => signed.hash = MessageHash(packed, request.source)

\* If memory was short while the action was packed (serialize.c:9, the results
\* of the packer are not looked at), it is that of no request at all, never of a
\* shorter or another one.
PackedAsAsked ==
  step = "signed" =>
    /\ dropped = 0 => packed = Asked(request)
    /\ \A r \in Requests :
         packed = Asked(r) => /\ r.action = request.action /\ r.nonce = request.nonce
                              /\ VaultOf(r) = VaultOf(request)

\* A signature is that of the request of its call.
SignedAsAsked == HashOfPacked /\ PackedAsAsked

\* Who recovers the signer from r, s and v as they are sent finds the address
\* of the caller's key, whatever the other ids lead to, and v is the first that
\* does; and the call gives the search up only when none does (eip712.c:142).
Recoverable ==
  LET own == Address(PrivateKey(request.key))
  IN  /\ step = "signed" =>
           /\ trial.keys[signed.v - 27] = own
           /\ \A i \in 0 .. signed.v - 28 : trial.keys[i] # own
           /\ hex_to_bytes(signed.r, Len(trial.half)) = trial.half
      /\ step = "failed" /\ trial # NoTrial => \A i \in 0 .. 3 : trial.keys[i] # own

\* The texts that the application is told to give for a key: as many digits as
\* the key has, in either case, with 0x before them or without.
IsKey(text) ==
  Len(Stripped(text)) = 2 * KeyBytes /\ \A i \in 1 .. 2 * KeyBytes : IsHex(Stripped(text)[i])

Lower(c) == Digits[ValueOf(c) + 1]

\* Such a key is cut (client.c:61) and parsed (eip712.c:23) without loss: it is
\* never refused, and what signs is that key, digit by digit.  Of other texts the
\* property says nothing; the code signs with the first 64 of 66 digits.
KeyAsGiven ==
  step # "idle" /\ IsKey(request.key) =>
    /\ step = "key" => PrivateKey(request.key) # NoBytes
    /\ step = "signed" =>
         bytes_to_hex(signed.key) =
           <<"0", "x">> \o [i \in 1 .. 2 * KeyBytes |-> Lower(Stripped(request.key)[i])]

\* The action with nonce and vault fits what was allocated for it before the
\* vault was looked at (serialize.c:163).
WithinBlock == step = "connection" => Len(packed) <= block

\* Whatever fails, and wherever, the buffer, the copy and the context of the
\* curve are released before the call returns.
NothingHeld == step \in {"signed", "failed", "idle"} => heap = {}

\* Memory is neither overrun nor lost by a signature.
HeapRight == NothingHeld /\ WithinBlock

=============================================================================
