------------------------------- MODULE Sponge -------------------------------
(***************************************************************************)
(* crypto/keccak.c: hashing by pieces (Init, SetFlags, Update, Finalize)   *)
(* and at once (HashBuffer).  A context gathers bytes into words and words *)
(* into blocks, and permutes its state whenever a block is full.           *)
(*                                                                         *)
(* A byte is a token, and what is stored is a set of tokens: xor is the    *)
(* symmetric difference, or the union.  keccakf is not computed: the       *)
(* blocks that went through it are kept in order in "past" and "lanes"     *)
(* holds what was xored into the state since.                              *)
(***************************************************************************)
EXTENDS Integers, Sequences

CONSTANTS Word,      \* bytes of a word (8)
          Lanes,     \* words of the state (25)
          BitSizes,  \* sizes of a digest, in words (4, 6, 8)
          MaxFed     \* bound: bytes an application feeds to a context

ASSUME SpongeAssumption ==
  /\ Word \in Nat \ {0} /\ Lanes \in Nat /\ MaxFed \in Nat
  /\ BitSizes \subseteq Nat \ {0} /\ \A b \in BitSizes : 2 * b < Lanes

VARIABLES ctx,    \* the context
          input,  \* what is left of the buffer given to Update
          phase,  \* the loop that Update is in, "idle" outside
          hash,   \* the HashBuffer call that runs, and the last digest
          fed     \* every byte given since Init, in order

spongeVars == <<ctx, input, phase, hash, fed>>

----------------------------------------------------------------------------

BytePlaces == 0 .. Word - 1
NoWord == [b \in BytePlaces |-> {}]
Blank == [i \in 0 .. Lanes - 1 |-> NoWord]

Context(bits, keccak) ==
  [lanes |-> Blank, past |-> <<>>, saved |-> NoWord, byteIndex |-> 0, wordIndex |-> 0,
   capacity |-> 2 * bits, keccak |-> keccak]

\* Words of a block.
Rate(c) == Lanes - c.capacity

Xor(v, w) == [b \in BytePlaces |-> (v[b] \ w[b]) \cup (w[b] \ v[b])]
XorAt(lanes, i, w) == [lanes EXCEPT ![i] = Xor(@, w)]
OrAt(word, b, token) == [word EXCEPT ![b] = @ \cup {token}]

keccakf(c) == [c EXCEPT !.past = Append(@, c.lanes), !.lanes = Blank]

\* A word goes into the state, which is permuted when the block is full.
Placed(c, w) == [c EXCEPT !.lanes = XorAt(@, c.wordIndex, w), !.wordIndex = @ + 1]
NextBlock(c) == [keccakf(c) EXCEPT !.wordIndex = 0]
Absorb(c, w) ==
  IF c.wordIndex + 1 = Rate(c) THEN NextBlock(Placed(c, w)) ELSE Placed(c, w)

\* Bytes the word under way still lacks.
OldTail(c) == (Word - c.byteIndex) % Word

\* Mutant: the bytes of a word in the other order.
FullWordReversed == [b \in BytePlaces |-> {input[Word - b]}]

\* The word of the next bytes of the buffer.
FullWord == [b \in BytePlaces |-> {input[b + 1]}]

----------------------------------------------------------------------------

NoHash == [on |-> FALSE, bits |-> 0, out |-> 0, digest |-> <<>>]

SpongeInit ==
  /\ ctx = Context(0, FALSE) /\ input = <<>> /\ phase = "idle" /\ hash = NoHash /\ fed = <<>>

\* A bad size leaves the context as it was.
sha3_Init(bits) ==
  /\ phase = "idle" /\ ~hash.on
  /\ bits \in BitSizes
  /\ ctx' = Context(bits, FALSE) /\ fed' = <<>> /\ hash' = NoHash
  /\ UNCHANGED <<input, phase>>

\* The flag is set beside the capacity, and never cleared.
sha3_SetFlags(flags) ==
  /\ phase = "idle" /\ ~hash.on /\ ctx.capacity > 0
  /\ ctx' = [ctx EXCEPT !.keccak = @ \/ flags % 2 = 1]
  /\ UNCHANGED <<input, phase, hash, fed>>

\* Which loop comes first depends on the word under way.
FirstLoop(c, buf) ==
  IF Len(buf) < OldTail(c) THEN "short" ELSE IF OldTail(c) > 0 THEN "complete" ELSE "words"

Feed(c, buf) ==
  /\ ctx' = c /\ input' = buf /\ phase' = FirstLoop(c, buf)

sha3_Update(buf) ==
  /\ phase = "idle" /\ ~hash.on /\ ctx.capacity > 0
  /\ Len(fed) + Len(buf) <= MaxFed
  /\ Feed(ctx, buf) /\ fed' = fed \o buf
  /\ UNCHANGED hash

\* One byte is or-ed into its place of the word under way.
StoreByte ==
  /\ phase \in {"short", "complete", "tail"} /\ input # <<>>
  /\ phase = "complete" => ctx.byteIndex < Word
  /\ ctx' = [ctx EXCEPT !.saved = OrAt(@, ctx.byteIndex, Head(input)),
                        !.byteIndex = @ + 1]
  /\ input' = Tail(input)
  /\ UNCHANGED <<phase, hash, fed>>

CompleteWord ==
  /\ phase = "complete" /\ ctx.byteIndex = Word
  /\ ctx' = [Absorb(ctx, ctx.saved) EXCEPT !.byteIndex = 0, !.saved = NoWord]
  /\ phase' = "words"
  /\ UNCHANGED <<input, hash, fed>>

TakeWord ==
  /\ phase = "words" /\ Len(input) >= Word
  /\ ctx' = Absorb(ctx, FullWord)
  /\ input' = SubSeq(input, Word + 1, Len(input))
  /\ UNCHANGED <<phase, hash, fed>>

WordsEnd ==
  /\ phase = "words" /\ Len(input) < Word
  /\ phase' = "tail"
  /\ UNCHANGED <<ctx, input, hash, fed>>

UpdateReturns ==
  /\ phase \in {"short", "tail"} /\ input = <<>>
  /\ phase' = "idle"
  /\ UNCHANGED <<ctx, input, hash, fed>>

----------------------------------------------------------------------------

\* The first byte of the padding, and the last one of its block.
Suffix(c) == IF c.keccak THEN <<"pad", 1>> ELSE <<"pad", 6>>
Final == <<"pad", 128>>

At(b, token) == [NoWord EXCEPT ![b] = {token}]

Padded(c) ==
  LET last == XorAt(c.lanes, c.wordIndex, Xor(c.saved, At(c.byteIndex, Suffix(c))))
  IN [c EXCEPT !.lanes = XorAt(last, Rate(c) - 1, At(Word - 1, Final))]

\* The first n bytes of the state: the application's, or those HashBuffer
\* copies.  A context that is finalized is initialised before it is used again.
Finalize(n) ==
  LET d == keccakf(Padded(ctx))
  IN /\ phase = "idle"
     /\ hash' = [on |-> FALSE, bits |-> 0, out |-> 0, digest |-> <<"digest", d.past, n>>]
     /\ ctx' = Context(0, FALSE) /\ fed' = <<>>
     /\ UNCHANGED <<input, phase>>

sha3_Finalize == ~hash.on /\ ctx.capacity > 0 /\ Finalize(Word * Lanes)

\* A bad size or flag is refused.  The context is on the stack of the call.
sha3_HashBuffer(bits, flags, buf, out) ==
  /\ phase = "idle" /\ ~hash.on /\ ctx.capacity = 0
  /\ bits \in BitSizes /\ flags % 2 = flags
  /\ Feed(Context(bits, flags = 1), buf) /\ fed' = buf
  /\ hash' = [on |-> TRUE, bits |-> bits, out |-> out, digest |-> <<>>]

\* No more is copied than the digest has.
Copies(n, bits) == IF n > Word * bits THEN Word * bits ELSE n

HashReturns == hash.on /\ Finalize(Copies(hash.out, hash.bits))

SpongeStep == StoreByte \/ CompleteWord \/ TakeWord \/ WordsEnd \/ UpdateReturns \/ HashReturns

----------------------------------------------------------------------------

\* No byte is or-ed outside the word under way, no word xored outside the
\* block, and no read of the buffer goes past its end (the assertions of
\* sha3_Update, which are compiled to nothing).
SpongeInBounds ==
  /\ ctx.wordIndex \in 0 .. Lanes - 1 /\ ctx.byteIndex \in 0 .. Word
  /\ ctx.capacity > 0 => ctx.wordIndex < Rate(ctx)
  /\ phase # "complete" => ctx.byteIndex < Word
  /\ phase = "words" => ctx.byteIndex = 0
  /\ phase = "complete" => Len(input) >= Word - ctx.byteIndex
  /\ phase \in {"short", "tail"} => Len(input) < Word - ctx.byteIndex

\* What the standard says: the message, a suffix, zeros and a final bit, cut
\* into blocks.
Reference(bits, keccak, m) ==
  LET block == Word * (Lanes - 2 * bits)
      count == Len(m) \div block + 1
      message(n) == IF n < Len(m) THEN {m[n + 1]} ELSE {}
      suffix(n) == IF n = Len(m) THEN {IF keccak THEN <<"pad", 1>> ELSE <<"pad", 6>>} ELSE {}
      final(n) == IF n = count * block - 1 THEN {Final} ELSE {}
      byte(k, i, b) == LET n == (k - 1) * block + i * Word + b
                       IN message(n) \cup suffix(n) \cup final(n)
  IN [k \in 1 .. count |-> [i \in 0 .. Lanes - 1 |->
        [b \in BytePlaces |-> IF i < Lanes - 2 * bits THEN byte(k, i, b) ELSE {}]]]

\* Whenever a context could be finalized, the blocks would be those of the
\* message in one piece, padded (sha3_Finalize).
DigestIsReference ==
  (ctx.capacity > 0 /\ phase = "idle") =>
     keccakf(Padded(ctx)).past = Reference(ctx.capacity \div 2, ctx.keccak, fed)
=============================================================================
