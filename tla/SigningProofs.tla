--------------------------- MODULE SigningProofs ---------------------------
(***************************************************************************)
(* Theorems of Sponge and Signing, for words, blocks, texts and keys of    *)
(* any length, and any requests.                                           *)
(***************************************************************************)
EXTENDS Signing, Numbers, SequenceTheorems, TLAPS

-----------------------------------------------------------------------------
(* The inductive invariant. *)

Elements(s) == {s[i] : i \in DOMAIN s}
IsSeq(s) == s \in Seq(Elements(s))

\* A context is a record of its fields.
Fields == {"lanes", "past", "saved", "byteIndex", "wordIndex", "capacity", "keccak"}
IsContext(c) == c = [f \in Fields |-> c[f]] /\ c.capacity \in Nat /\ c.capacity < Lanes

SpongeInv ==
  /\ IsContext(ctx) /\ IsSeq(input)
  /\ phase \in {"idle", "short", "complete", "words", "tail"}
  /\ phase # "idle" => ctx.capacity > 0
  /\ SpongeInBounds

\* What a call holds at each of its steps.
HeapInv ==
  /\ heap \subseteq {"sbuf", "data", "curve"}
  /\ step \in {"idle", "signed", "failed", "key"} \cup (HashSteps \ {"connection"}) => heap = {}
  /\ step = "pack" => heap \subseteq {"sbuf"}
  /\ step = "connection" => heap \subseteq {"sbuf", "data"}
  /\ step \in {"sign", "try"} => heap \subseteq {"curve"}

SignInv ==
  /\ step \in Steps
  /\ request \in Requests \cup {NoRequest}
  /\ step # "idle" => request \in Requests
  /\ dropped \in 0 .. MaxDropped /\ block \in Nat /\ DOMAIN hashes \subseteq HashSteps
  /\ IsSeq(packed)
  /\ WithinBlock

\* No recovery id below the one under trial leads to the own key; a call that
\* gave up tried them all.
NoneBefore(id) == \A i \in 0 .. id - 1 : trial.keys[i] # Address(PrivateKey(request.key))

TrialInv ==
  /\ trial = [half |-> trial.half, keys |-> trial.keys, id |-> trial.id] /\ trial.id \in 0 .. 4
  /\ step \in {"try", "signed"} => trial.half \in Curve /\ NoneBefore(trial.id)
  /\ step = "failed" => trial = NoTrial \/ NoneBefore(4)
  /\ step \notin {"try", "signed", "failed"} => trial = NoTrial

\* What the signature of a call is made of.
SignedInv ==
  step = "signed" =>
    /\ signed.r = bytes_to_hex(trial.half) /\ signed.v = trial.id + 27
    /\ trial.id < 4 /\ trial.keys[trial.id] = Address(PrivateKey(request.key))
    /\ signed.key = PrivateKey(request.key)

\* The key was accepted when the client was created.
KeyInv == step # "idle" => Accepted(request.key)

IInv == SpongeInv /\ SignInv /\ HeapInv /\ KeyInv /\ TrialInv /\ SignedInv

-----------------------------------------------------------------------------
(* Sequences. *)

LEMMA SeqIsSeq ==
  ASSUME NEW S, NEW s \in Seq(S)
  PROVE  IsSeq(s)
<1>1. \A i \in 1 .. Len(s) : s[i] \in Elements(s)
  BY DEF Elements
<1>2. Len(s) \in Nat /\ DOMAIN s = 1 .. Len(s) /\ s \in [1 .. Len(s) -> S]
  BY LenProperties
<1>3. s \in [1 .. Len(s) -> Elements(s)]
  BY <1>1, <1>2
<1> HIDE DEF Elements
<1> QED BY <1>2, <1>3, SeqDef DEF IsSeq

LEMMA NothingIsSeq == IsSeq(<<>>)
<1>1. <<>> \in Seq({})
  OBVIOUS
<1> QED BY <1>1, SeqIsSeq

LEMMA ListIsSeq ==
  ASSUME NEW n \in Nat, NEW g, g = [i \in 1 .. n |-> g[i]]
  PROVE  IsSeq(g) /\ Len(g) = n
<1> DEFINE S == {g[i] : i \in 1 .. n}
<1>1. g \in [1 .. n -> S]
  OBVIOUS
<1>2. g \in Seq(S) /\ Len(g) = n
  BY <1>1, SeqDef, LenProperties
<1> QED BY <1>2, SeqIsSeq

LEMMA JoinIsSeq ==
  ASSUME NEW s, NEW t, IsSeq(s), IsSeq(t)
  PROVE  IsSeq(s \o t) /\ Len(s \o t) = Len(s) + Len(t) /\ Len(s) \in Nat /\ Len(t) \in Nat
<1> DEFINE S == Elements(s) \cup Elements(t)
<1>1. s \in Seq(S) /\ t \in Seq(S)
  BY DEF IsSeq
<1> HIDE DEF S
<1>2. s \o t \in Seq(S) /\ Len(s \o t) = Len(s) + Len(t)
  BY <1>1
<1>3. Len(s) \in Nat /\ Len(t) \in Nat
  BY <1>1, LenProperties
<1>4. IsSeq(s \o t)
  BY <1>2, SeqIsSeq
<1> QED BY <1>2, <1>3, <1>4

LEMMA AppendIsSeq ==
  ASSUME NEW s, IsSeq(s), NEW e
  PROVE  IsSeq(Append(s, e))
<1> DEFINE S == Elements(s) \cup {e}
<1>1. s \in Seq(S) /\ e \in S
  BY DEF IsSeq
<1> HIDE DEF S
<1>2. Append(s, e) \in Seq(S)
  BY <1>1
<1> QED BY <1>2, SeqIsSeq

LEMMA TailIsSeq ==
  ASSUME NEW s, IsSeq(s), s # <<>>
  PROVE  IsSeq(Tail(s)) /\ Len(Tail(s)) = Len(s) - 1 /\ Len(s) \in Nat \ {0}
<1> DEFINE S == Elements(s)
<1>1. s \in Seq(S)
  BY DEF IsSeq
<1> HIDE DEF S
<1>2. Tail(s) \in Seq(S) /\ Len(Tail(s)) = Len(s) - 1 /\ Len(s) \in Nat \ {0}
  BY <1>1, EmptySeq, HeadTailProperties
<1> QED BY <1>2, SeqIsSeq

LEMMA DropIsSeq ==
  ASSUME NEW s, IsSeq(s), NEW n \in Nat, n <= Len(s)
  PROVE  IsSeq(SubSeq(s, n + 1, Len(s)))
<1> DEFINE S == Elements(s)
<1>1. s \in Seq(S)
  BY DEF IsSeq
<1> HIDE DEF S
<1>2. SubSeq(s, n + 1, Len(s)) \in Seq(S)
  BY <1>1
<1> QED BY <1>2, SeqIsSeq

-----------------------------------------------------------------------------
(* The sponge. *)

LEMMA ConstantFacts ==
  /\ Word \in Nat /\ Word > 0 /\ Lanes \in Nat /\ Lanes > 0
  /\ \A b \in BitSizes : b \in Nat /\ b > 0 /\ 2 * b < Lanes
  /\ 4 \in BitSizes
BY SpongeAssumption, SigningAssumption

LEMMA Remainder ==
  ASSUME NEW n \in Nat, NEW k \in 0 .. n - 1
  PROVE  (n - k) % n = IF k = 0 THEN 0 ELSE n - k
OBVIOUS

\* What the bounds say of a context between two calls, and in a loop.
WithinBounds(c, p, len) ==
  /\ c.wordIndex \in 0 .. Lanes - 1 /\ c.byteIndex \in 0 .. Word
  /\ c.capacity > 0 => c.wordIndex < Rate(c)
  /\ p # "complete" => c.byteIndex < Word
  /\ p = "words" => c.byteIndex = 0
  /\ p = "complete" => len >= Word - c.byteIndex
  /\ p \in {"short", "tail"} => len < Word - c.byteIndex

LEMMA BoundsAre == SpongeInBounds <=> WithinBounds(ctx, phase, Len(input))
BY DEF SpongeInBounds, WithinBounds

\* A context as it is made, at the start of a block.
LEMMA ContextStarts ==
  ASSUME NEW bits \in BitSizes \cup {0}, NEW k
  PROVE  /\ IsContext(Context(bits, k)) /\ Context(bits, k).capacity = 2 * bits
         /\ WithinBounds(Context(bits, k), "idle", 0)
BY ConstantFacts DEF IsContext, Fields, Context, WithinBounds, Rate

\* The loop that Update enters never starts outside its word.
LEMMA LoopStarts ==
  ASSUME NEW c, IsContext(c), c.capacity > 0, NEW l, WithinBounds(c, "idle", l), NEW buf, IsSeq(buf)
  PROVE  /\ FirstLoop(c, buf) \in {"short", "complete", "words"}
         /\ WithinBounds(c, FirstLoop(c, buf), Len(buf))
<1>1. Len(buf) \in Nat
  BY LenProperties DEF IsSeq
<1>2. c.byteIndex \in 0 .. Word - 1
  BY ConstantFacts DEF WithinBounds
<1>3. OldTail(c) = IF c.byteIndex = 0 THEN 0 ELSE Word - c.byteIndex
  BY <1>2, Remainder, ConstantFacts DEF OldTail
<1> QED BY <1>1, <1>2, <1>3, ConstantFacts DEF WithinBounds, FirstLoop

\* A word more leaves the place of the next one inside the block.
LEMMA AbsorbKeeps ==
  ASSUME NEW c, IsContext(c), c.capacity > 0, NEW p, NEW l, WithinBounds(c, p, l), NEW w
  PROVE  /\ IsContext(Absorb(c, w)) /\ Absorb(c, w).capacity = c.capacity
         /\ Absorb(c, w).byteIndex = c.byteIndex
         /\ Absorb(c, w).wordIndex \in 0 .. Lanes - 1 /\ Absorb(c, w).wordIndex < Rate(c)
<1> DEFINE d == Placed(c, w)
           e == NextBlock(d)
<1>1. Absorb(c, w) = IF c.wordIndex + 1 = Rate(c) THEN e ELSE d
  BY DEF Absorb
<1>2. IsContext(d) /\ d.capacity = c.capacity /\ d.byteIndex = c.byteIndex /\ d.wordIndex = c.wordIndex + 1
  BY DEF IsContext, Fields, Placed
<1> HIDE DEF d
<1>3. IsContext(e) /\ e.capacity = c.capacity /\ e.byteIndex = c.byteIndex /\ e.wordIndex = 0
  BY <1>2 DEF IsContext, Fields, keccakf, NextBlock
<1> HIDE DEF e
<1>4. c.wordIndex \in Nat /\ c.wordIndex < Rate(c) /\ Rate(c) = Lanes - c.capacity
      /\ c.capacity \in Nat /\ c.capacity < Lanes /\ Lanes \in Nat
  BY ConstantFacts DEF WithinBounds, IsContext, Rate
<1>5. CASE c.wordIndex + 1 = Rate(c)
  <2>1. Absorb(c, w) = e
    BY <1>1, <1>5
  <2> QED BY <2>1, <1>3, <1>4
<1>6. CASE c.wordIndex + 1 # Rate(c)
  <2>1. Absorb(c, w) = d
    BY <1>1, <1>6
  <2> QED BY <2>1, <1>2, <1>4, <1>6
<1> QED BY <1>5, <1>6

LEMMA InitStep ==
  ASSUME SpongeInv, NEW bits, sha3_Init(bits)
  PROVE  SpongeInv'
<1>1. /\ IsContext(ctx') /\ ctx'.capacity = 2 * bits /\ WithinBounds(ctx', "idle", 0)
      /\ input' = input /\ phase' = "idle"
  BY ContextStarts DEF sha3_Init
<1> QED BY <1>1 DEF SpongeInv, SpongeInBounds, WithinBounds, Rate

LEMMA FlagsStep ==
  ASSUME SpongeInv, NEW flags, sha3_SetFlags(flags)
  PROVE  SpongeInv'
<1>1. /\ IsContext(ctx') /\ ctx'.capacity = ctx.capacity
      /\ ctx'.byteIndex = ctx.byteIndex /\ ctx'.wordIndex = ctx.wordIndex
      /\ input' = input /\ phase' = "idle" /\ phase = "idle"
  BY DEF sha3_SetFlags, SpongeInv, IsContext, Fields
<1> QED BY <1>1 DEF SpongeInv, SpongeInBounds, Rate

LEMMA FeedStep ==
  ASSUME NEW c, IsContext(c), c.capacity > 0, NEW l, WithinBounds(c, "idle", l), NEW buf, IsSeq(buf), Feed(c, buf)
  PROVE  SpongeInv'
<1>1. /\ phase' \in {"short", "complete", "words"}
      /\ WithinBounds(ctx', phase', Len(input')) /\ ctx' = c /\ input' = buf
  BY LoopStarts DEF Feed
<1> QED BY <1>1 DEF SpongeInv, SpongeInBounds, WithinBounds, Rate

LEMMA ByteStep ==
  ASSUME SpongeInv, StoreByte
  PROVE  SpongeInv'
<1> DEFINE c == [ctx EXCEPT !.saved = OrAt(@, ctx.byteIndex, Head(input)), !.byteIndex = @ + 1]
<1>1. /\ IsContext(c) /\ c.capacity = ctx.capacity /\ c.wordIndex = ctx.wordIndex
      /\ c.byteIndex = ctx.byteIndex + 1
  BY DEF SpongeInv, IsContext, Fields
<1>2. ctx' = c /\ input' = Tail(input) /\ phase' = phase /\ phase \in {"short", "complete", "tail"}
      /\ (phase = "complete" => ctx.byteIndex < Word)
  BY DEF StoreByte
<1> HIDE DEF c
<1>3. IsSeq(input') /\ Len(input') = Len(input) - 1 /\ Len(input) \in Nat \ {0}
  BY <1>2, TailIsSeq DEF StoreByte, SpongeInv
<1>4. WithinBounds(ctx, phase, Len(input))
  BY BoundsAre DEF SpongeInv
<1>5. WithinBounds(c, phase, Len(input) - 1)
  BY <1>1, <1>2, <1>3, <1>4, ConstantFacts DEF WithinBounds, Rate
<1>6. SpongeInBounds'
  BY <1>2, <1>3, <1>5 DEF SpongeInBounds, WithinBounds, Rate
<1> QED BY <1>1, <1>2, <1>3, <1>6 DEF SpongeInv

LEMMA CompleteStep ==
  ASSUME SpongeInv, CompleteWord
  PROVE  SpongeInv'
<1> DEFINE a == Absorb(ctx, ctx.saved)
           c == [a EXCEPT !.byteIndex = 0, !.saved = NoWord]
<1>1. /\ IsContext(a) /\ a.capacity = ctx.capacity /\ ctx.capacity > 0
      /\ a.wordIndex \in 0 .. Lanes - 1 /\ a.wordIndex < Rate(ctx)
  BY AbsorbKeeps, BoundsAre DEF CompleteWord, SpongeInv
<1>2. ctx' = c /\ input' = input /\ phase' = "words"
  BY DEF CompleteWord
<1> HIDE DEF a
<1>3. IsContext(c) /\ c.capacity = a.capacity /\ c.wordIndex = a.wordIndex /\ c.byteIndex = 0
  BY <1>1 DEF IsContext, Fields
<1> HIDE DEF c
<1>4. WithinBounds(ctx', "words", Len(input'))
  BY <1>1, <1>2, <1>3, ConstantFacts DEF WithinBounds, Rate
<1>5. SpongeInBounds'
  BY <1>2, <1>4 DEF SpongeInBounds, WithinBounds, Rate
<1> QED BY <1>1, <1>2, <1>3, <1>5 DEF SpongeInv

LEMMA WordStep ==
  ASSUME SpongeInv, TakeWord
  PROVE  SpongeInv'
<1> DEFINE a == Absorb(ctx, FullWord)
<1>1. /\ IsContext(a) /\ a.capacity = ctx.capacity /\ ctx.capacity > 0 /\ a.byteIndex = ctx.byteIndex
      /\ a.wordIndex \in 0 .. Lanes - 1 /\ a.wordIndex < Rate(ctx)
  BY AbsorbKeeps, BoundsAre DEF TakeWord, SpongeInv
<1>2. ctx' = a /\ input' = SubSeq(input, Word + 1, Len(input)) /\ phase' = phase /\ phase = "words"
      /\ Len(input) >= Word
  BY DEF TakeWord
<1> HIDE DEF a
<1>3. IsSeq(input')
  BY <1>2, DropIsSeq, ConstantFacts DEF SpongeInv
<1>4. SpongeInBounds'
  BY <1>1, <1>2, ConstantFacts DEF SpongeInv, SpongeInBounds, Rate
<1> QED BY <1>1, <1>2, <1>3, <1>4 DEF SpongeInv

LEMMA WordsEndStep ==
  ASSUME SpongeInv, WordsEnd
  PROVE  SpongeInv'
BY ConstantFacts DEF WordsEnd, SpongeInv, SpongeInBounds, Rate

LEMMA UpdateReturnsStep ==
  ASSUME SpongeInv, UpdateReturns
  PROVE  SpongeInv'
BY DEF UpdateReturns, SpongeInv, SpongeInBounds, Rate

LEMMA FinalizeStep ==
  ASSUME SpongeInv, NEW n, Finalize(n)
  PROVE  SpongeInv'
<1>0. ctx' = Context(0, FALSE) /\ input' = input /\ phase' = "idle"
  BY DEF Finalize
<1>1. IsContext(ctx') /\ WithinBounds(ctx', "idle", 0) /\ input' = input /\ phase' = "idle"
  BY <1>0, ContextStarts
<1> QED BY <1>1 DEF SpongeInv, SpongeInBounds, WithinBounds, Rate

LEMMA HashBufferStep ==
  ASSUME NEW bits, NEW flags, NEW buf, NEW out, IsSeq(buf), sha3_HashBuffer(bits, flags, buf, out)
  PROVE  SpongeInv'
<1> DEFINE c == Context(bits, flags = 1)
<1>1. bits \in BitSizes /\ Feed(c, buf)
  BY DEF sha3_HashBuffer
<1>2. IsContext(c) /\ c.capacity > 0 /\ WithinBounds(c, "idle", 0)
  BY <1>1, ContextStarts, ConstantFacts
<1> HIDE DEF c
<1> QED BY <1>1, <1>2, FeedStep

LEMMA UpdateStep ==
  ASSUME SpongeInv, NEW buf, IsSeq(buf), sha3_Update(buf)
  PROVE  SpongeInv'
<1>1. Feed(ctx, buf) /\ ctx.capacity > 0 /\ phase = "idle"
  BY DEF sha3_Update
<1>2. IsContext(ctx) /\ WithinBounds(ctx, "idle", Len(input))
  BY <1>1, BoundsAre DEF SpongeInv
<1> QED BY <1>1, <1>2, FeedStep

LEMMA SpongeStepKeeps ==
  ASSUME SpongeInv, SpongeStep
  PROVE  SpongeInv'
<1>1. CASE HashReturns
  <2>1. PICK n : Finalize(n)
    BY <1>1 DEF HashReturns
  <2> QED BY <2>1, FinalizeStep
<1> QED BY <1>1, ByteStep, CompleteStep, WordStep, WordsEndStep, UpdateReturnsStep DEF SpongeStep

\* A step that leaves context, buffer and loop alone.
LEMMA SpongeRests ==
  ASSUME SpongeInv, ctx' = ctx, input' = input, phase' = phase
  PROVE  SpongeInv'
BY DEF SpongeInv, SpongeInBounds, Rate

-----------------------------------------------------------------------------
(* Digests.                                                                *)

\* The word at place w of a message, and n words from place w on, in a state.
WordOf(m, w) == [b \in BytePlaces |-> {m[w * Word + b + 1]}]
LanesOf(m, w, n) == [i \in 0 .. Lanes - 1 |-> IF i < n THEN WordOf(m, w + i) ELSE NoWord]

\* Words that a context has absorbed.
Words(c) == Len(c.past) * Rate(c) + c.wordIndex

Absorbed(c, m) ==
  /\ IsSeq(c.past)
  /\ \A j \in 1 .. Len(c.past) : c.past[j] = LanesOf(m, (j - 1) * Rate(c), Rate(c))
  /\ c.lanes = LanesOf(m, Len(c.past) * Rate(c), c.wordIndex)

\* The first bytes of a word.
StartOf(m, w, n) == [b \in BytePlaces |-> IF b < n THEN {m[w * Word + b + 1]} ELSE {}]

\* A context, the buffer it is fed from and the message make one whole.
Matches(c, buf, m) ==
  /\ Absorbed(c, m)
  /\ Len(m) = Words(c) * Word + c.byteIndex + Len(buf)
  /\ \A i \in 1 .. Len(buf) : buf[i] = m[Words(c) * Word + c.byteIndex + i]
  /\ c.saved = StartOf(m, Words(c), c.byteIndex)

FedInv ==
  /\ SpongeInv /\ IsSeq(fed)
  /\ phase = "idle" => input = <<>>
  /\ ctx.capacity % 2 = 0
  /\ ctx.capacity > 0 => Matches(ctx, input, fed)

-----------------------------------------------------------------------------

LEMMA WordsAre ==
  ASSUME NEW c, IsContext(c), c.wordIndex \in 0 .. Lanes - 1, c.wordIndex < Rate(c), IsSeq(c.past)
  PROVE  /\ Rate(c) \in Nat /\ Rate(c) > 0 /\ Rate(c) <= Lanes /\ Len(c.past) \in Nat
         /\ Len(c.past) * Rate(c) \in Nat /\ Words(c) \in Nat
<1>1. Lanes \in Nat /\ c.capacity \in Nat /\ c.wordIndex \in Nat
  BY ConstantFacts DEF IsContext
<1>2. Rate(c) \in Nat /\ Rate(c) > 0 /\ Rate(c) <= Lanes
  BY <1>1 DEF Rate
<1>3. Len(c.past) \in Nat
  BY LenProperties DEF IsSeq
<1>4. Len(c.past) * Rate(c) \in Nat
  BY <1>2, <1>3, Products
<1> QED BY <1>1, <1>2, <1>3, <1>4 DEF Words

\* One word more in the state.
LEMMA XorLane ==
  ASSUME NEW m, NEW w \in Nat, NEW n \in Nat, n < Lanes
  PROVE  XorAt(LanesOf(m, w, n), n, WordOf(m, w + n)) = LanesOf(m, w, n + 1)
<1> DEFINE l == LanesOf(m, w, n)
           x == XorAt(l, n, WordOf(m, w + n))
<1>0. Lanes \in Nat
  BY ConstantFacts
<1>1. l = [i \in 0 .. Lanes - 1 |-> IF i < n THEN WordOf(m, w + i) ELSE NoWord]
  BY DEF LanesOf
<1>2. l[n] = NoWord /\ n \in 0 .. Lanes - 1
  BY <1>0, <1>1
<1>3. Xor(NoWord, WordOf(m, w + n)) = WordOf(m, w + n)
  BY Zenon DEF Xor, NoWord, WordOf
<1>4. x = [l EXCEPT ![n] = WordOf(m, w + n)]
  BY <1>2, <1>3 DEF XorAt
<1> HIDE DEF l, x
<1>5. \A i \in 0 .. Lanes - 1 : x[i] = IF i < n + 1 THEN WordOf(m, w + i) ELSE NoWord
  BY <1>0, <1>1, <1>2, <1>4
<1>6. x = [i \in 0 .. Lanes - 1 |-> x[i]]
  BY <1>1, <1>4
<1>7. x = [i \in 0 .. Lanes - 1 |-> IF i < n + 1 THEN WordOf(m, w + i) ELSE NoWord]
  BY <1>5, <1>6, Zenon
<1> QED BY <1>7 DEF x, l, LanesOf

LEMMA NoLanes ==
  ASSUME NEW m, NEW w
  PROVE  Blank = LanesOf(m, w, 0)
<1>1. \A i \in 0 .. Lanes - 1 : ~(i < 0)
  BY ConstantFacts
<1> QED BY <1>1, Zenon DEF Blank, LanesOf

\* The next word of the message is absorbed.
LEMMA AbsorbMatches ==
  ASSUME NEW c, IsContext(c), c.capacity > 0, c.wordIndex \in 0 .. Lanes - 1, c.wordIndex < Rate(c),
         NEW m, Absorbed(c, m), NEW w, w = WordOf(m, Words(c))
  PROVE  /\ Absorbed(Absorb(c, w), m) /\ Words(Absorb(c, w)) = Words(c) + 1
         /\ Absorb(c, w).saved = c.saved
<1> DEFINE q == Len(c.past)
           r == Rate(c)
           n == c.wordIndex
           d == Placed(c, w)
           e == NextBlock(d)
<1>0. /\ r \in Nat /\ r > 0 /\ r <= Lanes /\ q \in Nat /\ q * r \in Nat /\ Words(c) = q * r + n
      /\ Lanes \in Nat /\ n \in Nat /\ n < r /\ IsSeq(c.past)
  BY WordsAre, ConstantFacts DEF Absorbed, Words
<1>1. Absorb(c, w) = IF n + 1 = r THEN e ELSE d
  BY DEF Absorb
<1>2. XorAt(c.lanes, n, w) = LanesOf(m, q * r, n + 1)
  BY <1>0, XorLane DEF Absorbed
<1>3. /\ IsContext(d) /\ d.capacity = c.capacity /\ d.wordIndex = n + 1 /\ d.past = c.past /\ d.saved = c.saved
      /\ d.lanes = XorAt(c.lanes, n, w)
  BY DEF IsContext, Fields, Placed
<1>4. CASE n + 1 # r
  <2>1. Absorb(c, w) = d
    BY <1>1, <1>4
  <2>2. Rate(d) = r
    BY <1>3 DEF Rate
  <2> HIDE DEF d
  <2>3. Absorbed(d, m)
    BY <1>2, <1>3, <2>2 DEF Absorbed
  <2>4. Words(d) = Words(c) + 1
    <3>1. Words(d) = q * r + (n + 1)
      BY <1>3, <2>2 DEF Words
    <3> DEFINE u == q * r
    <3>2. u \in Nat /\ n \in Nat /\ Words(c) = u + n
      BY <1>0
    <3> HIDE DEF u, n
    <3>3. u + (n + 1) = (u + n) + 1
      BY <3>2
    <3> QED BY <3>1, <3>2, <3>3 DEF u
  <2> QED BY <1>3, <2>1, <2>3, <2>4
<1>5. CASE n + 1 = r
  <2>1. Absorb(c, w) = e
    BY <1>1, <1>5
  <2>2. /\ e.capacity = d.capacity /\ e.wordIndex = 0 /\ e.past = Append(d.past, d.lanes) /\ e.saved = d.saved
        /\ e.lanes = Blank
    BY <1>3 DEF IsContext, Fields, NextBlock, keccakf
  <2>3. Rate(e) = r
    BY <1>3, <2>2 DEF Rate
  <2> HIDE DEF d, e
  <2>4. /\ IsSeq(e.past) /\ Len(e.past) = q + 1
        /\ \A j \in 1 .. q : e.past[j] = c.past[j]
        /\ e.past[q + 1] = LanesOf(m, q * r, r)
    <3> DEFINE l == LanesOf(m, q * r, r)
               S == Elements(c.past) \cup {l}
    <3>1. e.past = Append(c.past, l)
      BY <1>2, <1>3, <1>5, <2>2
    <3>2. c.past \in Seq(S) /\ l \in S
      BY <1>0 DEF IsSeq
    <3> HIDE DEF l, S
    <3>3. /\ Append(c.past, l) \in Seq(S) /\ Len(Append(c.past, l)) = q + 1
          /\ \A j \in 1 .. q : Append(c.past, l)[j] = c.past[j]
          /\ Append(c.past, l)[q + 1] = l
      BY <3>2, AppendProperties
    <3> QED BY <3>1, <3>3, SeqIsSeq DEF l
  <2>5. (q + 1) * r = q * r + r /\ (q + 1) - 1 = q
    BY <1>0, Products
  <2>6. \A j \in 1 .. q + 1 : e.past[j] = LanesOf(m, (j - 1) * r, r)
    <3> TAKE j \in 1 .. q + 1
    <3>1. CASE j \in 1 .. q
      BY <2>4, <3>1 DEF Absorbed
    <3>2. CASE j = q + 1
      <4>1. j - 1 = q
        BY <1>0, <3>2
      <4> QED BY <2>4, <3>2, <4>1
    <3>3. j \in 1 .. q \/ j = q + 1
      BY <1>0
    <3> QED BY <3>1, <3>2, <3>3
  <2>7. e.lanes = LanesOf(m, Len(e.past) * r, e.wordIndex)
    BY <2>2, NoLanes
  <2>8. Absorbed(e, m)
    BY <2>3, <2>4, <2>6, <2>7 DEF Absorbed
  <2>9. Words(e) = Words(c) + 1
    <3>1. Words(e) = (q + 1) * r + 0
      BY <2>2, <2>3, <2>4 DEF Words
    <3>2. (q + 1) * r + 0 = (q * r + n) + 1
      BY <1>0, <1>5, <2>5
    <3> QED BY <1>0, <3>1, <3>2
  <2> QED BY <1>3, <2>1, <2>2, <2>8, <2>9
<1> QED BY <1>4, <1>5

-----------------------------------------------------------------------------

\* A fresh context has absorbed nothing of any message.
LEMMA FreshMatches ==
  ASSUME NEW bits \in BitSizes \cup {0}, NEW k, NEW m, IsSeq(m)
  PROVE  Matches(Context(bits, k), m, m) /\ Context(bits, k).capacity % 2 = 0
<1> DEFINE c == Context(bits, k)
<1>0. bits \in Nat /\ Lanes \in Nat /\ Word \in Nat /\ Len(m) \in Nat
  BY ConstantFacts, LenProperties DEF IsSeq
<1>1. /\ c.past = <<>> /\ c.lanes = Blank /\ c.wordIndex = 0 /\ c.byteIndex = 0 /\ c.saved = NoWord
      /\ c.capacity = 2 * bits
  BY DEF Context
<1> HIDE DEF c
<1>2. Rate(c) = Lanes - 2 * bits
  BY <1>1 DEF Rate
<1>3. Len(c.past) = 0 /\ IsSeq(c.past) /\ 0 * Rate(c) = 0
  <2>1. c.past \in Seq({}) /\ Len(c.past) = 0
    BY <1>1
  <2> QED BY <1>0, <1>2, <2>1, SeqIsSeq
<1>4. Absorbed(c, m)
  BY <1>1, <1>3, NoLanes DEF Absorbed
<1>5. Words(c) = 0 /\ Words(c) * Word = 0
  BY <1>0, <1>1, <1>3 DEF Words
<1>6. StartOf(m, Words(c), 0) = NoWord
  <2>1. \A b \in BytePlaces : ~(b < 0)
    BY ConstantFacts DEF BytePlaces
  <2> QED BY <2>1, Zenon DEF StartOf, NoWord
<1>7. Len(m) = Words(c) * Word + c.byteIndex + Len(m)
  BY <1>0, <1>1, <1>5
<1>8. \A i \in 1 .. Len(m) : Words(c) * Word + c.byteIndex + i = i
  BY <1>0, <1>1, <1>5
<1>9. Matches(c, m, m)
  BY <1>1, <1>4, <1>6, <1>7, <1>8 DEF Matches
<1>10. c.capacity % 2 = 0
  BY <1>0, <1>1
<1> QED BY <1>9, <1>10 DEF c

\* What FedInv says of the arithmetic of a context in use.
LEMMA FedFacts ==
  ASSUME FedInv, ctx.capacity > 0
  PROVE  /\ IsContext(ctx) /\ ctx.wordIndex \in 0 .. Lanes - 1 /\ ctx.wordIndex < Rate(ctx)
         /\ ctx.byteIndex \in 0 .. Word /\ (phase # "complete" => ctx.byteIndex < Word)
         /\ Matches(ctx, input, fed) /\ Absorbed(ctx, fed)
         /\ Words(ctx) \in Nat /\ Words(ctx) * Word \in Nat /\ Word \in Nat /\ Word > 0
         /\ Len(input) \in Nat /\ Len(fed) \in Nat
<1>1. /\ IsContext(ctx) /\ ctx.wordIndex \in 0 .. Lanes - 1 /\ ctx.wordIndex < Rate(ctx)
      /\ ctx.byteIndex \in 0 .. Word /\ (phase # "complete" => ctx.byteIndex < Word)
      /\ Matches(ctx, input, fed) /\ IsSeq(input) /\ IsSeq(fed)
  BY DEF FedInv, SpongeInv, SpongeInBounds
<1>2. Absorbed(ctx, fed) /\ Len(input) \in Nat /\ Len(fed) \in Nat
  BY <1>1, LenProperties DEF Matches, IsSeq
<1>3. Words(ctx) \in Nat
  BY <1>1, <1>2, WordsAre DEF Absorbed
<1> QED BY <1>1, <1>2, <1>3, ConstantFacts, Products

\* A longer message begins with the same words.
LEMMA WordsStay ==
  ASSUME NEW m, NEW p, IsSeq(m), NEW w \in Nat, NEW n \in Nat, (w + n) * Word <= Len(m),
         \A i \in 1 .. Len(m) : p[i] = m[i]
  PROVE  LanesOf(p, w, n) = LanesOf(m, w, n)
<1>0. Word \in Nat /\ Word > 0 /\ Len(m) \in Nat
  BY ConstantFacts, LenProperties DEF IsSeq
<1>1. \A i \in 0 .. Lanes - 1 : i < n => WordOf(p, w + i) = WordOf(m, w + i)
  <2> TAKE i \in 0 .. Lanes - 1
  <2> HAVE i < n
  <2> DEFINE k == w + i
  <2>1. i \in Nat /\ k \in Nat /\ k + 1 <= w + n
    BY ConstantFacts
  <2> HIDE DEF k
  <2>2. (k + 1) * Word <= (w + n) * Word /\ (k + 1) * Word = k * Word + Word /\ k * Word \in Nat
        /\ (w + n) * Word \in Nat
    BY <1>0, <2>1, Products
  <2>3. \A b \in BytePlaces : k * Word + b + 1 \in 1 .. Len(m)
    BY <1>0, <2>2 DEF BytePlaces
  <2>4. \A b \in BytePlaces : p[k * Word + b + 1] = m[k * Word + b + 1]
    BY <2>3
  <2>5. WordOf(p, k) = WordOf(m, k)
    BY <2>4, Zenon DEF WordOf
  <2> QED BY <2>5 DEF k
<1> QED BY <1>1, Zenon DEF LanesOf

LEMMA AbsorbedStays ==
  ASSUME NEW c, IsContext(c), c.wordIndex \in 0 .. Lanes - 1, c.wordIndex < Rate(c), NEW m, IsSeq(m), Absorbed(c, m),
         Words(c) * Word <= Len(m), NEW p, \A i \in 1 .. Len(m) : p[i] = m[i]
  PROVE  Absorbed(c, p)
<1> DEFINE q == Len(c.past)
           r == Rate(c)
           n == c.wordIndex
<1>0. /\ r \in Nat /\ q \in Nat /\ q * r \in Nat /\ Words(c) = q * r + n /\ n \in Nat /\ Word \in Nat
      /\ Len(m) \in Nat /\ IsSeq(c.past) /\ Words(c) \in Nat /\ Words(c) * Word \in Nat
  BY WordsAre, ConstantFacts, LenProperties, Products DEF Absorbed, Words, IsSeq
<1>a. \A j \in 1 .. q : c.past[j] = LanesOf(m, (j - 1) * r, r)
  BY DEF Absorbed
<1>b. c.lanes = LanesOf(m, q * r, n)
  BY DEF Absorbed
<1>c. (q * r + n) * Word <= Len(m)
  BY <1>0
<1> HIDE DEF q, r, n
<1>1. LanesOf(p, q * r, n) = LanesOf(m, q * r, n)
  <2> DEFINE w == q * r
  <2>1. w \in Nat /\ (w + n) * Word <= Len(m)
    BY <1>0, <1>c
  <2> HIDE DEF w
  <2>2. n \in Nat
    BY <1>0
  <2>3. LanesOf(p, w, n) = LanesOf(m, w, n)
    BY <2>1, <2>2, WordsStay
  <2> QED BY <2>3 DEF w
<1>2. \A j \in 1 .. q : LanesOf(p, (j - 1) * r, r) = LanesOf(m, (j - 1) * r, r)
  <2> TAKE j \in 1 .. q
  <2> DEFINE k == j - 1
  <2>1. k \in Nat /\ k + 1 <= q
    BY <1>0
  <2> HIDE DEF k
  <2>2. k * r \in Nat /\ k * r + r <= q * r
    <3>1. (k + 1) * r <= q * r /\ (k + 1) * r = k * r + r
      BY <1>0, <2>1, Products
    <3>2. k * r \in Nat
      BY <1>0, <2>1, Products
    <3> QED BY <3>1, <3>2
  <2>3. k * r + r \in Nat /\ k * r + r <= Words(c)
    BY <1>0, <2>2
  <2>4. (k * r + r) * Word <= Words(c) * Word /\ (k * r + r) * Word \in Nat
    BY <1>0, <2>3, Products
  <2>5. (k * r + r) * Word <= Len(m)
    BY <1>0, <2>4
  <2>6. LanesOf(p, k * r, r) = LanesOf(m, k * r, r)
    <3> DEFINE w == k * r
    <3>1. w \in Nat /\ (w + r) * Word <= Len(m)
      BY <2>2, <2>5
    <3> HIDE DEF w
    <3>2. r \in Nat
      BY <1>0
    <3>3. LanesOf(p, w, r) = LanesOf(m, w, r)
      BY <3>1, <3>2, WordsStay
    <3> QED BY <3>3 DEF w
  <2> QED BY <2>6 DEF k
<1>3. /\ \A j \in 1 .. q : c.past[j] = LanesOf(p, (j - 1) * r, r)
      /\ c.lanes = LanesOf(p, q * r, n)
  BY <1>a, <1>b, <1>1, <1>2, Zenon
<1> QED BY <1>0, <1>3 DEF Absorbed, q, r, n

-----------------------------------------------------------------------------

LEMMA FedKept ==
  ASSUME SpongeInv', IsSeq(fed'), phase' = "idle" => input' = <<>>, ctx'.capacity % 2 = 0,
         ctx'.capacity > 0 => Matches(ctx', input', fed')
  PROVE  FedInv'
BY DEF FedInv

\* A context with the same state, at the same place.
LEMMA SameState ==
  ASSUME NEW c, NEW d, c.lanes = d.lanes, c.past = d.past, c.wordIndex = d.wordIndex, c.capacity = d.capacity,
         NEW m
  PROVE  Words(c) = Words(d) /\ (Absorbed(d, m) => Absorbed(c, m)) /\ Rate(c) = Rate(d)
BY DEF Words, Absorbed, Rate

LEMMA ByteFed ==
  ASSUME FedInv, StoreByte
  PROVE  FedInv'
<1> DEFINE c == [ctx EXCEPT !.saved = OrAt(@, ctx.byteIndex, Head(input)), !.byteIndex = @ + 1]
           k == Words(ctx) * Word
           n == ctx.byteIndex
<1>0. SpongeInv' /\ ctx.capacity > 0 /\ input # <<>> /\ phase # "idle"
  BY ByteStep DEF FedInv, SpongeInv, StoreByte
<1>1. ctx' = c /\ input' = Tail(input) /\ phase' = phase /\ fed' = fed /\ (phase = "complete" => n < Word)
  BY DEF StoreByte
<1>2. /\ c.saved = OrAt(ctx.saved, n, Head(input)) /\ c.byteIndex = n + 1
      /\ c.lanes = ctx.lanes /\ c.past = ctx.past /\ c.wordIndex = ctx.wordIndex /\ c.capacity = ctx.capacity
  BY DEF FedInv, SpongeInv, IsContext, Fields
<1> HIDE DEF c
<1>3. /\ Matches(ctx, input, fed) /\ Absorbed(ctx, fed) /\ k \in Nat /\ n \in 0 .. Word - 1 /\ Word \in Nat
      /\ Len(input) \in Nat /\ Len(fed) \in Nat
  BY <1>0, <1>1, FedFacts
<1>4. Words(c) = Words(ctx) /\ Absorbed(c, fed)
  BY <1>2, <1>3, SameState
<1>5. /\ Len(Tail(input)) = Len(input) - 1 /\ Head(input) = input[1] /\ Len(input) > 0
      /\ \A i \in 1 .. Len(Tail(input)) : Tail(input)[i] = input[i + 1]
  <2>1. input \in Seq(Elements(input))
    BY DEF FedInv, SpongeInv, IsSeq
  <2>2. Len(Tail(input)) = Len(input) - 1 /\ \A i \in 1 .. Len(Tail(input)) : Tail(input)[i] = input[i + 1]
    BY <1>0, <2>1, HeadTailProperties
  <2>3. Len(input) > 0
    BY <1>0, <1>3, <2>1, EmptySeq
  <2>4. Head(input) = input[1]
    BY <2>1
  <2> QED BY <2>2, <2>3, <2>4
<1>6. /\ Len(fed) = k + n + Len(input)
      /\ \A i \in 1 .. Len(input) : input[i] = fed[k + n + i]
      /\ ctx.saved = StartOf(fed, Words(ctx), n)
  BY <1>3 DEF Matches
<1> HIDE DEF k, n
<1>7. Head(input) = fed[k + n + 1]
  BY <1>5, <1>6, <1>3
<1>8. c.saved = StartOf(fed, Words(ctx), n + 1)
  <2> DEFINE s == ctx.saved
             t == c.saved
  <2>1. s = [b \in BytePlaces |-> IF b < n THEN {fed[k + b + 1]} ELSE {}]
    BY <1>6 DEF StartOf, k
  <2>2. t = [s EXCEPT ![n] = @ \cup {fed[k + n + 1]}] /\ n \in BytePlaces
    BY <1>2, <1>3, <1>7 DEF OrAt, BytePlaces
  <2> HIDE DEF s, t
  <2>3. \A b \in BytePlaces : t[b] = IF b < n + 1 THEN {fed[k + b + 1]} ELSE {}
    <3> TAKE b \in BytePlaces
    <3>0. b \in Int /\ n \in Int
      BY <1>3 DEF BytePlaces
    <3>1. CASE b = n
      <4>1. s[n] = {}
        BY <2>1, <2>2, <3>0
      <4>2. t[n] = {fed[k + n + 1]}
        BY <2>1, <2>2, <4>1
      <4> QED BY <3>0, <3>1, <4>2
    <3>2. CASE b # n
      <4>1. t[b] = s[b]
        BY <2>1, <2>2, <3>2
      <4>2. b < n <=> b < n + 1
        BY <3>0, <3>2
      <4> QED BY <2>1, <4>1, <4>2
    <3> QED BY <3>1, <3>2
  <2>4. t = [b \in BytePlaces |-> t[b]]
    BY <2>1, <2>2
  <2>5. t = [b \in BytePlaces |-> IF b < n + 1 THEN {fed[k + b + 1]} ELSE {}]
    BY <2>3, <2>4, Zenon
  <2> QED BY <2>5 DEF t, StartOf, k
<1>9. Len(fed) = k + (n + 1) + Len(Tail(input))
  <2>1. Len(Tail(input)) = Len(input) - 1 /\ Len(fed) = k + n + Len(input)
    BY <1>5, <1>6
  <2>2. k + n + Len(input) = k + (n + 1) + (Len(input) - 1)
    BY <1>3
  <2> QED BY <2>1, <2>2, Zenon
<1>10. \A i \in 1 .. Len(Tail(input)) : Tail(input)[i] = fed[k + (n + 1) + i]
  <2> TAKE i \in 1 .. Len(Tail(input))
  <2>1. Tail(input)[i] = input[i + 1] /\ i + 1 \in 1 .. Len(input) /\ k + n + (i + 1) = k + (n + 1) + i
    BY <1>3, <1>5
  <2>2. input[i + 1] = fed[k + n + (i + 1)]
    BY <1>6, <2>1
  <2> QED BY <2>1, <2>2
<1>11. Matches(c, Tail(input), fed)
  BY <1>2, <1>4, <1>8, <1>9, <1>10 DEF Matches, k
<1>12. ctx'.capacity % 2 = 0 /\ IsSeq(fed')
  BY <1>1, <1>2 DEF FedInv
<1> QED BY <1>0, <1>1, <1>11, <1>12, FedKept

\* The first bytes of a word are all of it, or none.
LEMMA StartEnds ==
  ASSUME NEW m, NEW w
  PROVE  StartOf(m, w, Word) = WordOf(m, w) /\ StartOf(m, w, 0) = NoWord
<1>1. \A b \in BytePlaces : b < Word /\ ~(b < 0)
  BY ConstantFacts DEF BytePlaces
<1>2. StartOf(m, w, Word) = WordOf(m, w)
  BY <1>1, Zenon DEF StartOf, WordOf
<1>3. StartOf(m, w, 0) = NoWord
  BY <1>1, Zenon DEF StartOf, NoWord
<1> QED BY <1>2, <1>3

LEMMA CompleteFed ==
  ASSUME FedInv, CompleteWord
  PROVE  FedInv'
<1> DEFINE a == Absorb(ctx, ctx.saved)
           c == [a EXCEPT !.byteIndex = 0, !.saved = NoWord]
           w == Words(ctx)
<1>0. SpongeInv' /\ ctx.capacity > 0 /\ phase' = "words" /\ ctx.byteIndex = Word
  BY CompleteStep DEF FedInv, SpongeInv, CompleteWord
<1>1. ctx' = c /\ input' = input /\ fed' = fed
  BY DEF CompleteWord
<1>2. /\ IsContext(ctx) /\ ctx.wordIndex \in 0 .. Lanes - 1 /\ ctx.wordIndex < Rate(ctx)
      /\ Matches(ctx, input, fed) /\ Absorbed(ctx, fed) /\ w \in Nat /\ w * Word \in Nat /\ Word \in Nat
      /\ Len(input) \in Nat
  BY <1>0, FedFacts
<1>3. /\ Len(fed) = w * Word + Word + Len(input)
      /\ \A i \in 1 .. Len(input) : input[i] = fed[w * Word + Word + i]
      /\ ctx.saved = WordOf(fed, w)
  BY <1>0, <1>2, StartEnds DEF Matches
<1>4. Absorbed(a, fed) /\ Words(a) = w + 1
  BY <1>0, <1>2, <1>3, AbsorbMatches
<1>5. IsContext(a) /\ a.capacity = ctx.capacity
  BY <1>0, <1>2, AbsorbKeeps, BoundsAre DEF FedInv, SpongeInv
<1> HIDE DEF a
<1>6. /\ c.byteIndex = 0 /\ c.saved = NoWord /\ c.capacity = ctx.capacity
      /\ c.lanes = a.lanes /\ c.past = a.past /\ c.wordIndex = a.wordIndex /\ c.capacity = a.capacity
  BY <1>5 DEF IsContext, Fields
<1> HIDE DEF c
<1>7. Words(c) = w + 1 /\ Absorbed(c, fed)
  BY <1>4, <1>6, SameState
<1> HIDE DEF w
<1>8. (w + 1) * Word = w * Word + Word
  BY <1>2, Products
<1>9. /\ Len(fed) = Words(c) * Word + c.byteIndex + Len(input)
      /\ \A i \in 1 .. Len(input) : input[i] = fed[Words(c) * Word + c.byteIndex + i]
  <2>1. Words(c) * Word + c.byteIndex = w * Word + Word
    BY <1>2, <1>6, <1>7, <1>8
  <2> QED BY <1>3, <2>1
<1>10. Matches(c, input, fed)
  BY <1>6, <1>7, <1>9, StartEnds DEF Matches
<1>11. ctx'.capacity % 2 = 0 /\ IsSeq(fed')
  BY <1>1, <1>6 DEF FedInv
<1> QED BY <1>0, <1>1, <1>10, <1>11, FedKept

LEMMA WordFed ==
  ASSUME FedInv, TakeWord
  PROVE  FedInv'
<1> DEFINE a == Absorb(ctx, FullWord)
           w == Words(ctx)
           rest == SubSeq(input, Word + 1, Len(input))
<1>0. SpongeInv' /\ ctx.capacity > 0 /\ phase' # "idle" /\ ctx.byteIndex = 0 /\ Len(input) >= Word
  BY WordStep DEF FedInv, SpongeInv, SpongeInBounds, TakeWord
<1>1. ctx' = a /\ input' = rest /\ fed' = fed
  BY DEF TakeWord
<1>2. /\ IsContext(ctx) /\ ctx.wordIndex \in 0 .. Lanes - 1 /\ ctx.wordIndex < Rate(ctx)
      /\ Matches(ctx, input, fed) /\ Absorbed(ctx, fed) /\ w \in Nat /\ w * Word \in Nat /\ Word \in Nat
      /\ Len(input) \in Nat /\ Word > 0
  BY <1>0, FedFacts
<1>3. /\ Len(fed) = w * Word + Len(input)
      /\ \A i \in 1 .. Len(input) : input[i] = fed[w * Word + i]
      /\ ctx.saved = NoWord
  <2>1. /\ Len(fed) = w * Word + 0 + Len(input)
        /\ \A i \in 1 .. Len(input) : input[i] = fed[w * Word + 0 + i]
        /\ ctx.saved = NoWord
    BY <1>0, <1>2, StartEnds DEF Matches
  <2>2. w * Word + 0 = w * Word
    BY <1>2
  <2> QED BY <2>1, <2>2
<1>4. FullWord = WordOf(fed, w)
  <2>1. \A b \in BytePlaces : b + 1 \in 1 .. Len(input) /\ w * Word + (b + 1) = w * Word + b + 1
    BY <1>0, <1>2 DEF BytePlaces
  <2>2. \A b \in BytePlaces : input[b + 1] = fed[w * Word + b + 1]
    BY <1>3, <2>1
  <2> QED BY <2>2, Zenon DEF FullWord, WordOf
<1>5. Absorbed(a, fed) /\ Words(a) = w + 1 /\ a.saved = NoWord
  BY <1>0, <1>2, <1>3, <1>4, AbsorbMatches
<1>6. a.capacity = ctx.capacity /\ a.byteIndex = 0
  BY <1>0, <1>2, AbsorbKeeps, BoundsAre DEF FedInv, SpongeInv
<1> HIDE DEF a
<1>7. /\ Len(rest) = Len(input) - Word
      /\ \A i \in 1 .. Len(rest) : rest[i] = input[Word + i]
  <2>1. \A i \in Word + 1 .. Len(input) : input[i] \in Elements(input)
    <3>1. DOMAIN input = 1 .. Len(input)
      BY LenProperties DEF FedInv, SpongeInv, IsSeq
    <3> QED BY <1>2, <3>1 DEF Elements
  <2>2. /\ Len(rest) = IF Word + 1 <= Len(input) THEN Len(input) - (Word + 1) + 1 ELSE 0
        /\ \A i \in 1 .. Len(input) - (Word + 1) + 1 : rest[i] = input[(Word + 1) + i - 1]
    BY <1>2, <2>1, SubSeqProperties
  <2> HIDE DEF rest
  <2>3. Len(rest) = Len(input) - Word /\ Len(input) - (Word + 1) + 1 = Len(input) - Word
    BY <1>0, <1>2, <2>2
  <2>4. \A i \in 1 .. Len(rest) : (Word + 1) + i - 1 = Word + i
    BY <1>2
  <2> QED BY <2>2, <2>3, <2>4
<1> HIDE DEF rest, w
<1>8. (w + 1) * Word = w * Word + Word
  BY <1>2, Products
<1>9. /\ Len(fed) = Words(a) * Word + a.byteIndex + Len(rest)
      /\ \A i \in 1 .. Len(rest) : rest[i] = fed[Words(a) * Word + a.byteIndex + i]
  <2>1. Words(a) * Word + a.byteIndex = w * Word + Word
    BY <1>2, <1>5, <1>6, <1>8
  <2>2. Len(fed) = w * Word + Word + Len(rest)
    BY <1>2, <1>3, <1>7
  <2>3. \A i \in 1 .. Len(rest) : Word + i \in 1 .. Len(input) /\ w * Word + (Word + i) = w * Word + Word + i
    BY <1>2, <1>7
  <2>4. \A i \in 1 .. Len(rest) : rest[i] = fed[w * Word + Word + i]
    BY <1>3, <1>7, <2>3
  <2> QED BY <2>1, <2>2, <2>4
<1>10. Matches(a, rest, fed)
  BY <1>5, <1>6, <1>9, StartEnds DEF Matches
<1>11. ctx'.capacity % 2 = 0 /\ IsSeq(fed')
  BY <1>1, <1>6 DEF FedInv
<1> QED BY <1>0, <1>1, <1>10, <1>11, FedKept

LEMMA UpdateFed ==
  ASSUME FedInv, NEW buf, IsSeq(buf), sha3_Update(buf)
  PROVE  FedInv'
<1> DEFINE w == Words(ctx)
           n == ctx.byteIndex
           m == fed \o buf
<1>0. SpongeInv' /\ ctx.capacity > 0 /\ phase = "idle" /\ input = <<>>
  BY UpdateStep DEF FedInv, sha3_Update
<1>1. ctx' = ctx /\ input' = buf /\ fed' = m /\ phase' \in {"short", "complete", "words"}
  <2>1. Feed(ctx, buf) /\ fed' = m
    BY DEF sha3_Update
  <2>2. ctx' = ctx /\ input' = buf
    BY <2>1 DEF Feed
  <2>3. phase' = FirstLoop(ctx, buf)
    BY <2>1 DEF Feed
  <2> QED BY <2>1, <2>2, <2>3 DEF FirstLoop
<1>2. /\ IsContext(ctx) /\ ctx.wordIndex \in 0 .. Lanes - 1 /\ ctx.wordIndex < Rate(ctx)
      /\ Matches(ctx, input, fed) /\ Absorbed(ctx, fed) /\ w \in Nat /\ w * Word \in Nat /\ Word \in Nat
      /\ Len(fed) \in Nat /\ n \in Nat /\ n < Word /\ IsSeq(fed)
  BY <1>0, FedFacts DEF FedInv
<1>3. Len(fed) = w * Word + n /\ ctx.saved = StartOf(fed, w, n)
  <2>1. Len(fed) = w * Word + n + Len(input) /\ Len(input) = 0
    BY <1>0, <1>2 DEF Matches
  <2>2. w * Word + n + 0 = w * Word + n
    BY <1>2
  <2> QED BY <1>2, <2>1, <2>2 DEF Matches
<1>4. /\ IsSeq(m) /\ Len(m) = Len(fed) + Len(buf) /\ Len(buf) \in Nat
      /\ \A i \in 1 .. Len(fed) : m[i] = fed[i]
      /\ \A i \in 1 .. Len(buf) : m[Len(fed) + i] = buf[i]
  <2> DEFINE S == Elements(fed) \cup Elements(buf)
  <2>1. fed \in Seq(S) /\ buf \in Seq(S)
    BY <1>2 DEF IsSeq
  <2>2. IsSeq(m) /\ Len(m) = Len(fed) + Len(buf) /\ Len(buf) \in Nat
    BY <1>2, JoinIsSeq
  <2> HIDE DEF S
  <2>3. \A i \in 1 .. Len(fed) + Len(buf) : m[i] = IF i <= Len(fed) THEN fed[i] ELSE buf[i - Len(fed)]
    BY <2>1, ConcatProperties
  <2> HIDE DEF m
  <2>4. \A i \in 1 .. Len(fed) : i \in 1 .. Len(fed) + Len(buf) /\ i <= Len(fed)
    BY <1>2, <2>2
  <2>5. \A i \in 1 .. Len(buf) : /\ Len(fed) + i \in 1 .. Len(fed) + Len(buf) /\ ~(Len(fed) + i <= Len(fed))
                                 /\ (Len(fed) + i) - Len(fed) = i
    BY <1>2, <2>2
  <2> QED BY <2>2, <2>3, <2>4, <2>5
<1> HIDE DEF m
<1>5. Absorbed(ctx, m)
  <2>1. w * Word <= Len(fed)
    BY <1>2, <1>3
  <2> QED BY <1>2, <1>4, <2>1, AbsorbedStays
<1> HIDE DEF w, n
<1>6. StartOf(m, w, n) = StartOf(fed, w, n)
  <2>1. \A b \in BytePlaces : b < n => w * Word + b + 1 \in 1 .. Len(fed)
    BY <1>2, <1>3 DEF BytePlaces
  <2>2. \A b \in BytePlaces : b < n => m[w * Word + b + 1] = fed[w * Word + b + 1]
    BY <1>4, <2>1
  <2> QED BY <2>2, Zenon DEF StartOf
<1>7. Len(m) = w * Word + n + Len(buf) /\ \A i \in 1 .. Len(buf) : buf[i] = m[w * Word + n + i]
  BY <1>3, <1>4
<1>8. Matches(ctx, buf, m)
  BY <1>3, <1>5, <1>6, <1>7 DEF Matches, w, n
<1>9. ctx'.capacity % 2 = 0 /\ IsSeq(fed')
  BY <1>1, <1>4 DEF FedInv
<1> QED BY <1>0, <1>1, <1>8, <1>9, FedKept

LEMMA InitFed ==
  ASSUME FedInv, NEW bits, sha3_Init(bits)
  PROVE  FedInv'
<1>0. SpongeInv' /\ bits \in BitSizes
  BY InitStep DEF FedInv, sha3_Init
<1>1. ctx' = Context(bits, FALSE) /\ fed' = <<>> /\ input' = <<>>
  BY DEF sha3_Init, FedInv
<1>2. Matches(ctx', input', fed') /\ ctx'.capacity % 2 = 0 /\ IsSeq(fed')
  BY <1>0, <1>1, FreshMatches, NothingIsSeq
<1> QED BY <1>0, <1>1, <1>2, FedKept

LEMMA FinalizeFed ==
  ASSUME FedInv, NEW n, Finalize(n)
  PROVE  FedInv'
<1>0. SpongeInv'
  BY FinalizeStep DEF FedInv
<1>1. ctx' = Context(0, FALSE) /\ fed' = <<>> /\ input' = <<>>
  BY DEF Finalize, FedInv
<1>2. Matches(ctx', input', fed') /\ ctx'.capacity % 2 = 0 /\ IsSeq(fed')
  BY <1>1, FreshMatches, NothingIsSeq
<1> QED BY <1>0, <1>1, <1>2, FedKept

LEMMA HashBufferFed ==
  ASSUME NEW bits, NEW flags, NEW buf, NEW out, IsSeq(buf), sha3_HashBuffer(bits, flags, buf, out)
  PROVE  FedInv'
<1>0. SpongeInv' /\ bits \in BitSizes
  BY HashBufferStep DEF sha3_HashBuffer
<1>1. /\ ctx' = Context(bits, flags = 1) /\ fed' = buf /\ input' = buf
      /\ phase' = FirstLoop(Context(bits, flags = 1), buf)
  BY DEF sha3_HashBuffer, Feed
<1>2. phase' # "idle"
  BY <1>1 DEF FirstLoop
<1>3. Matches(ctx', input', fed') /\ ctx'.capacity % 2 = 0 /\ IsSeq(fed')
  BY <1>0, <1>1, FreshMatches
<1> QED BY <1>0, <1>2, <1>3, FedKept

LEMMA FlagsFed ==
  ASSUME FedInv, NEW flags, sha3_SetFlags(flags)
  PROVE  FedInv'
<1>0. SpongeInv'
  BY FlagsStep DEF FedInv
<1>1. /\ ctx'.capacity = ctx.capacity /\ ctx'.byteIndex = ctx.byteIndex /\ ctx'.wordIndex = ctx.wordIndex
      /\ ctx'.lanes = ctx.lanes /\ ctx'.past = ctx.past /\ ctx'.saved = ctx.saved
      /\ input' = input /\ fed' = fed /\ phase' = phase
  BY DEF sha3_SetFlags, FedInv, SpongeInv, IsContext, Fields
<1>2. Words(ctx') = Words(ctx) /\ (Absorbed(ctx, fed) => Absorbed(ctx', fed))
  BY <1>1, SameState
<1>3. ctx'.capacity > 0 => Matches(ctx', input', fed')
  BY <1>1, <1>2 DEF FedInv, Matches
<1> QED BY <1>0, <1>1, <1>3, FedKept DEF FedInv

LEMMA RestFed ==
  ASSUME FedInv, ctx' = ctx, input' = input, fed' = fed, phase' = phase \/ input = <<>> \/ phase' # "idle", SpongeInv'
  PROVE  FedInv'
BY FedKept DEF FedInv

LEMMA SpongeStepFed ==
  ASSUME FedInv, SpongeStep
  PROVE  FedInv'
<1>0. SpongeInv'
  BY SpongeStepKeeps DEF FedInv
<1>1. CASE StoreByte
  BY <1>1, ByteFed
<1>2. CASE CompleteWord
  BY <1>2, CompleteFed
<1>3. CASE TakeWord
  BY <1>3, WordFed
<1>4. CASE WordsEnd
  BY <1>0, <1>4, RestFed DEF WordsEnd
<1>5. CASE UpdateReturns
  BY <1>0, <1>5, RestFed DEF UpdateReturns
<1>6. CASE HashReturns
  <2>1. PICK n : Finalize(n)
    BY <1>6 DEF HashReturns
  <2> QED BY <2>1, FinalizeFed
<1> QED BY <1>1, <1>2, <1>3, <1>4, <1>5, <1>6 DEF SpongeStep

-----------------------------------------------------------------------------
(* The padding. *)

\* Where the byte b of the word i of a block lies, in a message that ends at the
\* byte e of the word n of the block q + 1.
LEMMA LastBlock ==
  ASSUME NEW W \in Nat, NEW r \in Nat, NEW q \in Nat, NEW n \in Nat, NEW e \in Nat, NEW i \in Nat, NEW b \in Nat,
         n < r, e < W, i < r, b < W
  PROVE  LET p == (q * r + i) * W + b
             l == (q * r + n) * W + e
         IN /\ p \in Nat /\ l \in Nat
            /\ i < n => p < l
            /\ i = n => (p < l <=> b < e) /\ (p = l <=> b = e)
            /\ i > n => p > l
            /\ p = (q + 1) * (W * r) - 1 <=> i = r - 1 /\ b = W - 1
<1> DEFINE u == q * r
           pi == (u + i) * W
           pn == (u + n) * W
           pr == (u + r) * W
<1>1. u \in Nat
  BY Products
<1>2. (q + 1) * (W * r) = pr
  <2>1. (q + 1) * r = u + r
    BY Products
  <2>2. W * r = r * W /\ q + 1 \in Nat
    BY Products
  <2>3. (q + 1) * (r * W) = ((q + 1) * r) * W
    BY <2>2, Products
  <2> QED BY <2>1, <2>2, <2>3
<1> HIDE DEF u
<1>3. pi \in Nat /\ pn \in Nat /\ pr \in Nat
  BY <1>1, Products
<1>4. i < n => pi + W <= pn
  <2> HAVE i < n
  <2>1. u + i \in Nat /\ u + n \in Nat /\ (u + i) + 1 <= u + n
    BY <1>1
  <2>2. ((u + i) + 1) * W <= pn /\ ((u + i) + 1) * W = pi + W
    BY <2>1, Products
  <2> QED BY <2>2
<1>5. i > n => pn + W <= pi
  <2> HAVE i > n
  <2>1. u + i \in Nat /\ u + n \in Nat /\ (u + n) + 1 <= u + i
    BY <1>1
  <2>2. ((u + n) + 1) * W <= pi /\ ((u + n) + 1) * W = pn + W
    BY <2>1, Products
  <2> QED BY <2>2
<1>6. pi + W <= pr /\ (i = r - 1 => pi + W = pr)
  <2>1. u + i \in Nat /\ u + r \in Nat /\ (u + i) + 1 <= u + r /\ (i = r - 1 => (u + i) + 1 = u + r)
    BY <1>1
  <2>2. ((u + i) + 1) * W <= pr /\ ((u + i) + 1) * W = pi + W
    BY <2>1, Products
  <2> QED BY <2>1, <2>2
<1>7. i < r - 1 => pi + W + W <= pr
  <2> HAVE i < r - 1
  <2>1. u + i \in Nat /\ u + r \in Nat /\ ((u + i) + 1) + 1 <= u + r /\ (u + i) + 1 \in Nat
    BY <1>1
  <2>2. (((u + i) + 1) + 1) * W <= pr /\ (((u + i) + 1) + 1) * W = ((u + i) + 1) * W + W
        /\ ((u + i) + 1) * W = pi + W
    BY <2>1, Products
  <2> QED BY <2>2
<1>8. i = n => pi = pn
  OBVIOUS
<1> HIDE DEF pi, pn, pr
<1>9. /\ pi + b \in Nat /\ pn + e \in Nat
      /\ i < n => pi + b < pn + e
      /\ i = n => (pi + b < pn + e <=> b < e) /\ (pi + b = pn + e <=> b = e)
      /\ i > n => pi + b > pn + e
  BY <1>3, <1>4, <1>5, <1>8
<1>10. pi + b = pr - 1 <=> i = r - 1 /\ b = W - 1
  BY <1>3, <1>6, <1>7
<1> QED BY <1>2, <1>9, <1>10 DEF pi, pn, pr, u

\* Bytes of an earlier block lie before the end of the message.
LEMMA EarlierBlock ==
  ASSUME NEW W \in Nat, NEW r \in Nat, NEW q \in Nat, NEW n \in Nat, NEW e \in Nat, NEW k \in Nat, NEW i \in Nat,
         NEW b \in Nat, k < q, i < r, b < W
  PROVE  LET p == (k * r + i) * W + b
             l == (q * r + n) * W + e
         IN  p \in Nat /\ p < l /\ p # (q + 1) * (W * r) - 1
<1> DEFINE x == k * r + i
           y == q * r
<1>0. k * r \in Nat /\ y \in Nat /\ x \in Nat
  BY Products
<1>1. x + 1 <= y
  <2>1. (k + 1) * r <= q * r /\ (k + 1) * r = k * r + r
    BY Products
  <2> QED BY <1>0, <2>1
<1>2. x * W + W <= y * W /\ x * W \in Nat /\ y * W \in Nat
  <2>1. (x + 1) * W <= y * W /\ (x + 1) * W = x * W + W /\ x * W \in Nat /\ y * W \in Nat
    <3> HIDE DEF x, y
    <3> QED BY <1>0, <1>1, Products
  <2> QED BY <2>1
<1>3. (y + n) * W = y * W + n * W /\ n * W \in Nat
  <2> HIDE DEF y
  <2> QED BY <1>0, Products
<1>4. (q + 1) * (W * r) = y * W + r * W /\ r * W \in Nat /\ W <= r * W
  <2>1. W * r = r * W /\ r * W \in Nat /\ (q + 1) * (r * W) = q * (r * W) + r * W /\ q * (r * W) = (q * r) * W
    BY Products
  <2>2. 1 * W <= r * W /\ 1 * W = W
    BY Products
  <2> QED BY <2>1, <2>2
<1> DEFINE xw == x * W
           yw == y * W
           nw == n * W
           rw == r * W
<1>5. xw + W <= yw /\ xw \in Nat /\ yw \in Nat /\ nw \in Nat /\ rw \in Nat /\ W <= rw
  BY <1>2, <1>3, <1>4
<1>6. (q * r + n) * W + e = yw + nw + e /\ (q + 1) * (W * r) - 1 = yw + rw - 1
  BY <1>3, <1>4
<1> HIDE DEF xw, yw, nw, rw
<1>7. xw + b \in Nat /\ xw + b < yw + nw + e /\ xw + b # yw + rw - 1
  BY <1>5
<1> QED BY <1>6, <1>7 DEF xw, x

\* One byte of a block of the reference, at place p of the padded message.
SuffixOf(keccak) == IF keccak THEN <<"pad", 1>> ELSE <<"pad", 6>>
PaddedByte(m, keccak, last, p) ==
  (IF p < Len(m) THEN {m[p + 1]} ELSE {}) \cup (IF p = Len(m) THEN {SuffixOf(keccak)} ELSE {})
    \cup (IF p = last THEN {Final} ELSE {})

LEMMA ReferenceIs ==
  ASSUME NEW bits, NEW keccak, NEW m
  PROVE  LET size == Word * (Lanes - 2 * bits)
             count == Len(m) \div size + 1
         IN  Reference(bits, keccak, m) =
               [k \in 1 .. count |-> [i \in 0 .. Lanes - 1 |-> [b \in BytePlaces |->
                  IF i < Lanes - 2 * bits
                    THEN PaddedByte(m, keccak, count * size - 1, (k - 1) * size + i * Word + b) ELSE {}]]]
BY Zenon DEF Reference, PaddedByte, SuffixOf

\* The last word under way, with the suffix behind it.
EndOf(m, w, e, s) ==
  [b \in BytePlaces |-> IF b < e THEN {m[w * Word + b + 1]} ELSE IF b = e THEN {s} ELSE {}]

LEMMA SuffixedWord ==
  ASSUME NEW m, NEW w \in Nat, NEW e \in Nat, e < Word, NEW s
  PROVE  Xor(NoWord, Xor(StartOf(m, w, e), At(e, s))) = EndOf(m, w, e, s)
<1> DEFINE x == StartOf(m, w, e)
           y == At(e, s)
           z == Xor(x, y)
<1>0. Word \in Nat /\ e \in BytePlaces /\ \A b \in BytePlaces : b \in Nat
  BY ConstantFacts DEF BytePlaces
<1>1. \A b \in BytePlaces : x[b] = IF b < e THEN {m[w * Word + b + 1]} ELSE {}
  BY DEF StartOf
<1>2. \A b \in BytePlaces : y[b] = IF b = e THEN {s} ELSE {}
  BY <1>0 DEF At, NoWord
<1>3. \A b \in BytePlaces : z[b] = (x[b] \ y[b]) \cup (y[b] \ x[b])
  BY DEF Xor
<1> HIDE DEF x, y
<1>4. \A b \in BytePlaces : z[b] = IF b < e THEN {m[w * Word + b + 1]} ELSE IF b = e THEN {s} ELSE {}
  <2> TAKE b \in BytePlaces
  <2>1. CASE b < e
    <3>1. b # e
      BY <1>0, <2>1
    <3>2. x[b] = {m[w * Word + b + 1]} /\ y[b] = {}
      BY <1>1, <1>2, <2>1, <3>1
    <3> QED BY <1>3, <2>1, <3>2
  <2>2. CASE b = e
    <3>1. ~(b < e)
      BY <1>0, <2>2
    <3>2. x[b] = {} /\ y[b] = {s}
      BY <1>1, <1>2, <2>2, <3>1
    <3> QED BY <1>3, <2>2, <3>1, <3>2
  <2>3. CASE ~(b < e) /\ b # e
    <3>1. x[b] = {} /\ y[b] = {}
      BY <1>1, <1>2, <2>3
    <3> QED BY <1>3, <2>3, <3>1
  <2> QED BY <2>1, <2>2, <2>3
<1> HIDE DEF z
<1>5. \A b \in BytePlaces : (NoWord[b] \ z[b]) \cup (z[b] \ NoWord[b]) = z[b]
  BY DEF NoWord
<1>6. Xor(NoWord, z) = [b \in BytePlaces |-> z[b]]
  BY <1>5, Zenon DEF Xor
<1>7. Xor(NoWord, z) = [b \in BytePlaces |-> IF b < e THEN {m[w * Word + b + 1]} ELSE IF b = e THEN {s} ELSE {}]
  BY <1>4, <1>6, Zenon
<1> QED BY <1>7 DEF EndOf, x, y, z

\* The last block, byte by byte.
ByteAt(m, w, n, r, e, s, i, b) ==
  IF i < n THEN {m[(w + i) * Word + b + 1]}
  ELSE (IF i = n /\ b < e THEN {m[(w + n) * Word + b + 1]} ELSE {})
         \cup (IF i = n /\ b = e THEN {s} ELSE {})
         \cup (IF i = r - 1 /\ b = Word - 1 THEN {Final} ELSE {})

\* A state of lanes of bytes, and the last block as the context leaves it.
IsState(l) ==
  /\ l = [i \in 0 .. Lanes - 1 |-> l[i]]
  /\ \A i \in 0 .. Lanes - 1 : l[i] = [b \in BytePlaces |-> l[i][b]]

LastLanes(m, w, n, r, e, s) ==
  XorAt(XorAt(LanesOf(m, w, n), n, Xor(StartOf(m, w + n, e), At(e, s))), r - 1, At(Word - 1, Final))

LEMMA PaddedLanes ==
  ASSUME NEW m, NEW w \in Nat, NEW n \in Nat, NEW r \in Nat, NEW e \in Nat, n < r, r <= Lanes, e < Word, NEW s, s # Final
  PROVE  /\ IsState(LastLanes(m, w, n, r, e, s))
         /\ \A i \in 0 .. Lanes - 1, b \in BytePlaces :
              LastLanes(m, w, n, r, e, s)[i][b] = ByteAt(m, w, n, r, e, s, i, b)
<1> DEFINE l == LanesOf(m, w, n)
           x == Xor(StartOf(m, w + n, e), At(e, s))
           last == XorAt(l, n, x)
           f == At(Word - 1, Final)
           all == XorAt(last, r - 1, f)
           Byte(i, b) == ByteAt(m, w, n, r, e, s, i, b)
           Before(i, b) == IF i < n THEN {m[(w + i) * Word + b + 1]}
                           ELSE IF i = n /\ b < e THEN {m[(w + n) * Word + b + 1]}
                           ELSE IF i = n /\ b = e THEN {s} ELSE {}
<1>0. /\ Word \in Nat /\ Word > 0 /\ Lanes \in Nat /\ w + n \in Nat /\ n \in 0 .. Lanes - 1 /\ r - 1 \in 0 .. Lanes - 1
      /\ Word - 1 \in BytePlaces /\ \A b \in BytePlaces : b \in 0 .. Word - 1
  BY ConstantFacts DEF BytePlaces
<1>1. l = [i \in 0 .. Lanes - 1 |-> IF i < n THEN WordOf(m, w + i) ELSE NoWord]
  BY DEF LanesOf
<1>2. last = [l EXCEPT ![n] = Xor(NoWord, x)]
  <2>1. l[n] = NoWord
    BY <1>0, <1>1
  <2> QED BY <2>1 DEF XorAt
<1>3. Xor(NoWord, x) = EndOf(m, w + n, e, s)
  <2>1. w + n \in Nat
    BY <1>0
  <2> QED BY <2>1, SuffixedWord
<1> HIDE DEF l, x
<1>4. \A i \in 0 .. Lanes - 1, b \in BytePlaces : last[i][b] = Before(i, b)
  <2> TAKE i \in 0 .. Lanes - 1, b \in BytePlaces
  <2>1. CASE i < n
    <3>1. i # n
      BY <1>0, <2>1
    <3>2. l[i] = WordOf(m, w + i)
      BY <1>1, <2>1
    <3>3. last[i] = l[i]
      BY <1>2, <3>1
    <3>4. last[i] = WordOf(m, w + i)
      BY <3>2, <3>3
    <3> QED BY <2>1, <3>4 DEF WordOf
  <2>2. CASE i = n
    <3>1. last[i] = Xor(NoWord, x) /\ ~(i < n)
      BY <1>0, <1>1, <1>2, <2>2
    <3> QED BY <1>3, <2>2, <3>1 DEF EndOf
  <2>3. CASE ~(i < n) /\ i # n
    <3>1. last[i] = NoWord
      BY <1>0, <1>1, <1>2, <2>3
    <3> QED BY <2>3, <3>1 DEF NoWord
  <2> QED BY <2>1, <2>2, <2>3
<1>5. DOMAIN last = 0 .. Lanes - 1
  BY <1>1, <1>2
<1> HIDE DEF last
<1>6. \A b \in BytePlaces : f[b] = IF b = Word - 1 THEN {Final} ELSE {}
  BY <1>0 DEF At, NoWord
<1> HIDE DEF f
<1>7. all = [i \in 0 .. Lanes - 1 |-> IF i = r - 1 THEN Xor(last[r - 1], f) ELSE last[i]]
  BY <1>0, <1>5 DEF XorAt
<1>8. \A b \in BytePlaces : Xor(last[r - 1], f)[b] = Byte(r - 1, b)
  <2> TAKE b \in BytePlaces
  <2>0. Xor(last[r - 1], f)[b] = (last[r - 1][b] \ f[b]) \cup (f[b] \ last[r - 1][b])
    BY DEF Xor
  <2>1. last[r - 1][b] = Before(r - 1, b) /\ ~(r - 1 < n)
    <3>1. ~(r - 1 < n)
      OBVIOUS
    <3> HIDE DEF Before
    <3>2. last[r - 1][b] = Before(r - 1, b)
      BY <1>0, <1>4
    <3> QED BY <3>1, <3>2
  <2>2. CASE b = Word - 1
    <3>1. f[b] = {Final} /\ ~(b < e)
      BY <1>0, <1>6, <2>2
    <3>2. last[r - 1][b] = IF r - 1 = n /\ b = e THEN {s} ELSE {}
      BY <2>1, <3>1
    <3>3. Byte(r - 1, b) = (IF r - 1 = n /\ b = e THEN {s} ELSE {}) \cup {Final}
      BY <2>1, <2>2, <3>1 DEF ByteAt
    <3> HIDE DEF Byte
    <3> QED BY <2>0, <3>1, <3>2, <3>3
  <2>3. CASE b # Word - 1
    <3>1. f[b] = {}
      BY <1>6, <2>3
    <3>2. Byte(r - 1, b) = Before(r - 1, b)
      <4>1. ~(b < e /\ b = e)
        BY <1>0
      <4> QED BY <2>1, <2>3, <4>1 DEF ByteAt
    <3> HIDE DEF Byte, Before
    <3> QED BY <2>0, <2>1, <3>1, <3>2
  <2> QED BY <2>2, <2>3
<1>9. \A i \in 0 .. Lanes - 1 : i # r - 1 => \A b \in BytePlaces : last[i][b] = Byte(i, b)
  <2> TAKE i \in 0 .. Lanes - 1
  <2> HAVE i # r - 1
  <2> TAKE b \in BytePlaces
  <2>1. ~(b < e /\ b = e)
    BY <1>0
  <2> QED BY <1>4, <2>1 DEF ByteAt
<1>10. \A i \in 0 .. Lanes - 1 : all[i] = [b \in BytePlaces |-> all[i][b]]
  <2> TAKE i \in 0 .. Lanes - 1
  <2>1. CASE i = r - 1
    <3>1. all[i] = Xor(last[r - 1], f)
      BY <1>7, <2>1
    <3> QED BY <3>1 DEF Xor
  <2>2. CASE i # r - 1
    <3>1. all[i] = last[i]
      BY <1>7, <2>2
    <3>2. last[i] = IF i = n THEN EndOf(m, w + n, e, s) ELSE IF i < n THEN WordOf(m, w + i) ELSE NoWord
      BY <1>0, <1>1, <1>2, <1>3 DEF last
    <3>3. last[i] = [b \in BytePlaces |-> last[i][b]]
      <4>1. CASE i = n
        BY <3>2, <4>1 DEF EndOf
      <4>2. CASE i # n /\ i < n
        BY <3>2, <4>2 DEF WordOf
      <4>3. CASE i # n /\ ~(i < n)
        BY <3>2, <4>3 DEF NoWord
      <4> QED BY <4>1, <4>2, <4>3
    <3> QED BY <3>1, <3>3
  <2> QED BY <2>1, <2>2
<1>11. all = [i \in 0 .. Lanes - 1 |-> all[i]]
  BY <1>7
<1>12. \A i \in 0 .. Lanes - 1, b \in BytePlaces : all[i][b] = Byte(i, b)
  <2> TAKE i \in 0 .. Lanes - 1, b \in BytePlaces
  <2>1. CASE i = r - 1
    BY <1>7, <1>8, <2>1
  <2>2. CASE i # r - 1
    BY <1>7, <1>9, <2>2
  <2> QED BY <2>1, <2>2
<1>13. LastLanes(m, w, n, r, e, s) = all
  BY DEF LastLanes, all, last, l, x, f
<1> HIDE DEF all
<1> QED BY <1>10, <1>11, <1>12, <1>13, Zenon DEF IsState, Byte

LEMMA Place ==
  ASSUME NEW W \in Nat, NEW r \in Nat, NEW k \in Nat, NEW i \in Nat, NEW b \in Nat
  PROVE  k * (W * r) + i * W + b = (k * r + i) * W + b
<1>1. W * r = r * W /\ k * (r * W) = (k * r) * W /\ k * r \in Nat
  BY Products
<1>2. (k * r + i) * W = (k * r) * W + i * W
  <2> DEFINE x == k * r
  <2> HIDE DEF x
  <2>1. x \in Nat
    BY <1>1 DEF x
  <2>2. (x + i) * W = x * W + i * W
    BY <2>1, Products
  <2> QED BY <2>2 DEF x
<1> QED BY <1>1, <1>2

\* A byte of the reference, in the block k + 1 of count blocks.
BlockByte(m, keccak, r, count, k, i, b) ==
  IF i < r THEN PaddedByte(m, keccak, count * (Word * r) - 1, k * (Word * r) + i * Word + b) ELSE {}

EndsAt(m, q, r, n, e) == Len(m) = (q * r + n) * Word + e

LEMMA EarlierBytes ==
  ASSUME NEW m, NEW keccak, NEW q \in Nat, NEW r \in Nat, NEW n \in Nat, NEW e \in Nat, NEW k \in Nat, k < q,
         EndsAt(m, q, r, n, e), NEW i \in 0 .. Lanes - 1, NEW b \in BytePlaces, NEW w, w = k * r
  PROVE  LanesOf(m, w, r)[i][b] = BlockByte(m, keccak, r, q + 1, k, i, b)
<1> DEFINE p == (k * r + i) * Word + b
<1>0. Word \in Nat /\ Lanes \in Nat /\ i \in Nat /\ b \in Nat /\ b < Word
  BY ConstantFacts DEF BytePlaces
<1>1. CASE i < r
  <2>1. p \in Nat /\ p < Len(m) /\ p # (q + 1) * (Word * r) - 1
    BY <1>0, <1>1, EarlierBlock DEF EndsAt
  <2>2. k * (Word * r) + i * Word + b = p
    BY <1>0, Place
  <2>3. LanesOf(m, k * r, r)[i][b] = {m[p + 1]}
    BY <1>1 DEF LanesOf, WordOf
  <2> HIDE DEF p
  <2>4. PaddedByte(m, keccak, (q + 1) * (Word * r) - 1, p) = {m[p + 1]}
    <3> DEFINE l == Len(m)
               x == (q + 1) * (Word * r) - 1
    <3>1. p < l /\ p # l /\ p # x
      <4>1. l \in Int
        <5>1. (q * r + n) * Word \in Nat
          <6>1. q * r \in Nat
            BY Products
          <6> DEFINE y == q * r + n
          <6>2. y \in Nat
            BY <6>1
          <6> HIDE DEF y
          <6>3. y * Word \in Nat
            BY <1>0, <6>2, Products
          <6> QED BY <6>3 DEF y
        <5> QED BY <1>0, <5>1 DEF EndsAt
      <4> HIDE DEF l
      <4>2. p < l => p # l
        BY <2>1, <4>1
      <4> QED BY <2>1, <4>2 DEF l
    <3> HIDE DEF x
    <3>2. PaddedByte(m, keccak, x, p) = {m[p + 1]}
      BY <3>1 DEF PaddedByte
    <3> QED BY <3>2 DEF x
  <2> QED BY <1>1, <2>2, <2>3, <2>4 DEF BlockByte
<1>2. CASE ~(i < r)
  BY <1>2 DEF LanesOf, NoWord, BlockByte
<1> QED BY <1>1, <1>2

LEMMA LastBytes ==
  ASSUME NEW m, NEW keccak, NEW q \in Nat, NEW r \in Nat, NEW n \in Nat, NEW e \in Nat, n < r, e < Word,
         Len(m) = (q * r + n) * Word + e, NEW i \in 0 .. Lanes - 1, NEW b \in BytePlaces
  PROVE  ByteAt(m, q * r, n, r, e, SuffixOf(keccak), i, b) = BlockByte(m, keccak, r, q + 1, q, i, b)
<1> DEFINE p == (q * r + i) * Word + b
           l == Len(m)
           x == (q + 1) * (Word * r) - 1
           s == SuffixOf(keccak)
<1>0. Word \in Nat /\ Lanes \in Nat /\ i \in Nat /\ b \in Nat /\ b < Word
  BY ConstantFacts DEF BytePlaces
<1>1. CASE i < r
  <2>1. /\ p \in Nat /\ l \in Nat
        /\ i < n => p < l
        /\ i = n => (p < l <=> b < e) /\ (p = l <=> b = e)
        /\ i > n => p > l
        /\ p = x <=> i = r - 1 /\ b = Word - 1
    BY <1>0, <1>1, LastBlock
  <2>2. q * (Word * r) + i * Word + b = p
    BY <1>0, Place
  <2>3. BlockByte(m, keccak, r, q + 1, q, i, b) = PaddedByte(m, keccak, x, p)
    BY <1>1, <2>2 DEF BlockByte
  <2>4. ByteAt(m, q * r, n, r, e, s, i, b) =
          IF i < n THEN {m[p + 1]}
          ELSE (IF i = n /\ b < e THEN {m[p + 1]} ELSE {})
                 \cup (IF i = n /\ b = e THEN {s} ELSE {})
                 \cup (IF i = r - 1 /\ b = Word - 1 THEN {Final} ELSE {})
    BY DEF ByteAt
  <2>5. PaddedByte(m, keccak, x, p) =
          (IF p < l THEN {m[p + 1]} ELSE {}) \cup (IF p = l THEN {s} ELSE {}) \cup (IF p = x THEN {Final} ELSE {})
    BY DEF PaddedByte
  <2> HIDE DEF p, l, x, s
  <2>6. CASE i < n
    <3>1. p < l /\ p # l /\ ~(i = r - 1)
      BY <1>0, <2>1, <2>6
    <3>2. p # x
      BY <2>1, <3>1
    <3> QED BY <2>3, <2>4, <2>5, <2>6, <3>1, <3>2 DEF s
  <2>7. CASE i = n
    <3>1. (p < l <=> b < e) /\ (p = l <=> b = e) /\ ~(i < n) /\ (p = x <=> i = r - 1 /\ b = Word - 1)
      BY <1>0, <2>1, <2>7
    <3> QED BY <2>3, <2>4, <2>5, <2>7, <3>1 DEF s
  <2>8. CASE i > n
    <3>1. ~(p < l) /\ p # l /\ ~(i < n) /\ i # n /\ (p = x <=> i = r - 1 /\ b = Word - 1)
      BY <1>0, <2>1, <2>8
    <3> QED BY <2>3, <2>4, <2>5, <3>1 DEF s
  <2> QED BY <1>0, <2>6, <2>7, <2>8
<1>2. CASE ~(i < r)
  <2>1. ~(i < n) /\ i # n /\ i # r - 1
    BY <1>0, <1>2
  <2> QED BY <1>2, <2>1 DEF ByteAt, BlockByte
<1> QED BY <1>1, <1>2

\* The reference, with the size of a block at hand.
Blocks(m, keccak, r, count) ==
  [k \in 1 .. count |-> [i \in 0 .. Lanes - 1 |-> [b \in BytePlaces |->
     BlockByte(m, keccak, r, count, k - 1, i, b)]]]

LEMMA BlocksOfReference ==
  ASSUME NEW bits, NEW keccak, NEW m, NEW r, r = Lanes - 2 * bits, NEW q \in Nat, Len(m) \div (Word * r) = q
  PROVE  Reference(bits, keccak, m) = Blocks(m, keccak, r, q + 1)
BY ReferenceIs, Zenon DEF BlockByte, Blocks

\* How many blocks are full.
LEMMA CountOf ==
  ASSUME NEW q \in Nat, NEW r \in Nat, NEW n \in Nat, NEW e \in Nat, NEW W \in Nat, n < r, e < W
  PROVE  ((q * r + n) * W + e) \div (W * r) = q
<1> DEFINE d == W * r
           u == q * d
           v == n * W
<1>1. d \in Nat /\ v \in Nat /\ d = r * W
  BY Products
<1>2. u \in Nat
  <2> HIDE DEF d
  <2> QED BY <1>1, Products
<1>3. v + e < d
  <2>1. (n + 1) * W <= r * W /\ (n + 1) * W = n * W + W
    BY Products
  <2> QED BY <1>1, <2>1
<1>4. (q * r + n) * W + e = u + v + e
  BY Place
<1> HIDE DEF d, v
<1>5. (q * d + (v + e)) \div d = q
  <2>1. v + e \in Nat
    BY <1>1
  <2> QED BY <1>1, <1>3, <2>1, Quotient
<1>6. u + v + e = q * d + (v + e)
  <2> HIDE DEF u
  <2>1. u + v + e = u + (v + e)
    BY <1>1, <1>2
  <2> QED BY <2>1 DEF u
<1>7. (q * r + n) * W + e = q * d + (v + e)
  BY <1>4, <1>6
<1> QED BY <1>5, <1>7 DEF d

LEMMA DigestFollows ==
  ASSUME FedInv
  PROVE  DigestIsReference
<1> SUFFICES ASSUME ctx.capacity > 0, phase = "idle"
             PROVE  keccakf(Padded(ctx)).past = Reference(ctx.capacity \div 2, ctx.keccak, fed)
  BY DEF DigestIsReference
<1> DEFINE q == Len(ctx.past)
           r == Rate(ctx)
           n == ctx.wordIndex
           e == ctx.byteIndex
           m == fed
           bits == ctx.capacity \div 2
           s == SuffixOf(ctx.keccak)
           last == XorAt(ctx.lanes, n, Xor(ctx.saved, At(e, s)))
           L == XorAt(last, r - 1, At(Word - 1, Final))
           P == Append(ctx.past, L)
<1>0. /\ r \in Nat /\ r <= Lanes /\ n \in Nat /\ n < r /\ e \in Nat /\ e < Word /\ q \in Nat /\ Word \in Nat
      /\ IsSeq(ctx.past) /\ Lanes \in Nat /\ q * r \in Nat
  BY FedFacts, WordsAre, ConstantFacts DEF Absorbed
<1>1. r = Lanes - 2 * bits
  BY FedFacts, ConstantFacts DEF FedInv, Rate, IsContext
<1>2. Len(m) = (q * r + n) * Word + e /\ ctx.saved = StartOf(m, q * r + n, e)
  <2>1. Len(m) = Words(ctx) * Word + e + Len(input) /\ Len(input) = 0 /\ ctx.saved = StartOf(m, Words(ctx), e)
    BY FedFacts DEF FedInv, Matches
  <2>2. Words(ctx) = q * r + n /\ Words(ctx) * Word \in Nat
    BY FedFacts DEF Words
  <2>3. Words(ctx) * Word + e + 0 = Words(ctx) * Word + e
    BY <1>0, <2>2
  <2> QED BY <2>1, <2>2, <2>3
<1>3. /\ \A j \in 1 .. q : ctx.past[j] = LanesOf(m, (j - 1) * r, r)
      /\ ctx.lanes = LanesOf(m, q * r, n)
  BY FedFacts DEF Absorbed
<1>4. keccakf(Padded(ctx)).past = P
  <2>1. Suffix(ctx) = s
    BY DEF Suffix, SuffixOf
  <2>2. Padded(ctx) = [ctx EXCEPT !.lanes = L]
    BY <2>1 DEF Padded
  <2>3. Padded(ctx).past = ctx.past /\ Padded(ctx).lanes = L /\ IsContext(Padded(ctx))
    <3> HIDE DEF L
    <3> QED BY <2>2, FedFacts DEF IsContext, Fields
  <2> HIDE DEF L
  <2>4. keccakf(Padded(ctx)).past = Append(Padded(ctx).past, Padded(ctx).lanes)
    BY <2>3 DEF keccakf, IsContext, Fields
  <2> QED BY <2>3, <2>4
<1>5. Len(m) \div (Word * r) = q
  <2> HIDE DEF q, r, n, e, m
  <2> QED BY <1>0, <1>2, CountOf
<1>6. /\ IsState(L)
      /\ \A i \in 0 .. Lanes - 1, b \in BytePlaces : L[i][b] = ByteAt(m, q * r, n, r, e, s, i, b)
  <2>1. s # Final
    BY DEF SuffixOf, Final
  <2> DEFINE w == q * r
  <2>2. w \in Nat
    BY <1>0
  <2>3. ctx.lanes = LanesOf(m, w, n) /\ ctx.saved = StartOf(m, w + n, e)
    BY <1>2, <1>3
  <2> HIDE DEF w, r, n, e, m, s, q
  <2>4. L = LastLanes(m, w, n, r, e, s)
    BY <2>3 DEF LastLanes
  <2> HIDE DEF L
  <2> QED BY <1>0, <2>1, <2>2, <2>4, PaddedLanes DEF w
<1> HIDE DEF L
<1>7. /\ P = [k \in 1 .. q + 1 |-> P[k]] /\ P[q + 1] = L
      /\ \A k \in 1 .. q : P[k] = ctx.past[k]
  <2> DEFINE S == Elements(ctx.past) \cup {L}
  <2>1. ctx.past \in Seq(S) /\ L \in S
    BY <1>0 DEF IsSeq
  <2> HIDE DEF S
  <2>2. /\ P \in Seq(S) /\ Len(P) = q + 1 /\ P[q + 1] = L
        /\ \A k \in 1 .. q : P[k] = ctx.past[k]
    BY <2>1, AppendProperties
  <2> HIDE DEF P, q
  <2>3. P = [k \in 1 .. Len(P) |-> P[k]]
    BY <2>2, LenProperties
  <2> QED BY <2>2, <2>3
<1> HIDE DEF P
<1>8. \A k \in 1 .. q + 1 :
        /\ P[k] = [i \in 0 .. Lanes - 1 |-> P[k][i]]
        /\ \A i \in 0 .. Lanes - 1 :
             /\ P[k][i] = [b \in BytePlaces |-> P[k][i][b]]
             /\ \A b \in BytePlaces : P[k][i][b] = BlockByte(m, ctx.keccak, r, q + 1, k - 1, i, b)
  <2> TAKE k \in 1 .. q + 1
  <2>1. CASE k = q + 1
    <3>1. k - 1 = q /\ P[k] = L
      BY <1>0, <1>7, <2>1
    <3>2. \A i \in 0 .. Lanes - 1, b \in BytePlaces : L[i][b] = BlockByte(m, ctx.keccak, r, q + 1, q, i, b)
      <4> TAKE i \in 0 .. Lanes - 1, b \in BytePlaces
      <4>1. ByteAt(m, q * r, n, r, e, s, i, b) = BlockByte(m, ctx.keccak, r, q + 1, q, i, b)
        <5> HIDE DEF m, q, r, n, e
        <5> QED BY <1>0, <1>2, LastBytes DEF s
      <4> QED BY <1>6, <4>1
    <3> QED BY <1>6, <3>1, <3>2 DEF IsState
  <2>2. CASE k # q + 1
    <3> DEFINE j == k - 1
    <3>1. k \in 1 .. q /\ j \in Nat /\ j < q
      BY <1>0, <2>2
    <3>2. P[k] = LanesOf(m, j * r, r)
      BY <1>3, <1>7, <3>1
    <3> HIDE DEF j
    <3>3. \A i \in 0 .. Lanes - 1, b \in BytePlaces :
            LanesOf(m, j * r, r)[i][b] = BlockByte(m, ctx.keccak, r, q + 1, j, i, b)
      <4> TAKE i \in 0 .. Lanes - 1, b \in BytePlaces
      <4> HIDE DEF m, q, r, n, e
      <4> DEFINE w == j * r
      <4>1. w = j * r
        OBVIOUS
      <4> HIDE DEF w
      <4>2. EndsAt(m, q, r, n, e)
        BY <1>2 DEF EndsAt
      <4>3. LanesOf(m, w, r)[i][b] = BlockByte(m, ctx.keccak, r, q + 1, j, i, b)
        BY <1>0, <3>1, <4>1, <4>2, EarlierBytes
      <4> QED BY <4>3 DEF w
    <3>4. /\ LanesOf(m, j * r, r) = [i \in 0 .. Lanes - 1 |-> LanesOf(m, j * r, r)[i]]
          /\ \A i \in 0 .. Lanes - 1 :
               LanesOf(m, j * r, r)[i] = [b \in BytePlaces |-> LanesOf(m, j * r, r)[i][b]]
      BY DEF LanesOf, WordOf, NoWord
    <3> QED BY <3>2, <3>3, <3>4 DEF j
  <2> QED BY <2>1, <2>2
<1> DEFINE R == Reference(bits, ctx.keccak, m)
<1>9. R = Blocks(m, ctx.keccak, r, q + 1)
  <2> HIDE DEF m, q, r, bits
  <2> QED BY <1>0, <1>1, <1>5, BlocksOfReference
<1> HIDE DEF m, q, r, bits, R
<1>10. \A k \in 1 .. q + 1 : \A i \in 0 .. Lanes - 1 :
         P[k][i] = [b \in BytePlaces |-> BlockByte(m, ctx.keccak, r, q + 1, k - 1, i, b)]
  BY <1>8, Zenon
<1>11. \A k \in 1 .. q + 1 :
         P[k] = [i \in 0 .. Lanes - 1 |-> [b \in BytePlaces |-> BlockByte(m, ctx.keccak, r, q + 1, k - 1, i, b)]]
  BY <1>8, <1>10, Zenon
<1>12. P = R
  BY <1>7, <1>9, <1>11, Zenon DEF Blocks
<1> QED BY <1>4, <1>12 DEF R, m, bits

-----------------------------------------------------------------------------
(* Texts. *)

LEMMA Halves ==
  ASSUME NEW n \in Nat
  PROVE  /\ (2 * n) % 2 = 0 /\ (2 * n) \div 2 = n
         /\ \A i \in 1 .. n :
              (2 * i - 1) % 2 = 1 /\ (2 * i) % 2 = 0 /\ ((2 * i - 1) + 1) \div 2 = i /\ (2 * i) \div 2 = i
OBVIOUS

LEMMA Nibbles ==
  /\ \A x \in 0 .. 255 : x \div 16 \in 0 .. 15 /\ x % 16 \in 0 .. 15 /\ 16 * (x \div 16) + (x % 16) = x
  /\ \A x, y \in 0 .. 15 : 16 * x + y \in 0 .. 255 /\ (16 * x + y) \div 16 = x /\ (16 * x + y) % 16 = y
OBVIOUS

LEMMA ValueOfDigit ==
  ASSUME NEW c, IsHex(c)
  PROVE  ValueOf(c) \in 0 .. 15 /\ c \in {Digits[ValueOf(c) + 1], Capitals[ValueOf(c) + 1]}
<1> DEFINE d == CHOOSE d \in 1 .. 16 : c \in {Digits[d], Capitals[d]}
<1>1. d \in 1 .. 16 /\ c \in {Digits[d], Capitals[d]}
  BY DEF IsHex
<1>2. ValueOf(c) = d - 1
  BY DEF ValueOf
<1> HIDE DEF d
<1> QED BY <1>1, <1>2

\* No character is a digit of two values, and none is the x of a prefix.
LEMMA DigitsDiffer ==
  /\ \A d, e \in 1 .. 16 : Digits[d] \in {Digits[e], Capitals[e]} => d = e
  /\ \A d \in 1 .. 16 : Digits[d] \notin {"x", "X"} /\ Capitals[d] \notin {"x", "X"}
BY DEF Digits, Capitals

LEMMA DigitOfValue ==
  ASSUME NEW k \in 0 .. 15
  PROVE  Digits[k + 1] \in Characters /\ IsHex(Digits[k + 1]) /\ ValueOf(Digits[k + 1]) = k
<1>0. k + 1 \in 1 .. 16
  OBVIOUS
<1>1. Digits[k + 1] \in Characters
  BY <1>0, SigningAssumption
<1>2. IsHex(Digits[k + 1])
  BY <1>0 DEF IsHex
<1>3. /\ ValueOf(Digits[k + 1]) \in 0 .. 15
      /\ Digits[k + 1] \in {Digits[ValueOf(Digits[k + 1]) + 1], Capitals[ValueOf(Digits[k + 1]) + 1]}
  BY <1>2, ValueOfDigit
<1> QED BY <1>0, <1>1, <1>2, <1>3, DigitsDiffer

LEMMA Without ==
  \A n \in Nat : n >= 2 => (IF 3 <= n THEN n - 3 + 1 ELSE 0) = n - 2
OBVIOUS

LEMMA PrefixCharacters == "0" \in Characters /\ "x" \in Characters
<1>1. Digits[1] = "0"
  BY DEF Digits
<1> QED BY <1>1, SigningAssumption

\* Two characters in front, and off again.
LEMMA PrefixOff ==
  ASSUME NEW h \in Seq(Characters)
  PROVE  LET t == <<"0", "x">> \o h
         IN /\ t \in Seq(Characters) /\ Len(t) = Len(h) + 2 /\ t[1] = "0" /\ t[2] = "x"
            /\ SubSeq(t, 3, Len(t)) = h
<1> DEFINE t == <<"0", "x">> \o h
           u == SubSeq(t, 3, Len(t))
<1>1. t \in Seq(Characters) /\ Len(t) = Len(h) + 2 /\ t[1] = "0" /\ t[2] = "x"
      /\ \A i \in 1 .. Len(h) : t[i + 2] = h[i]
  <2>1. <<"0", "x">> \in Seq(Characters) /\ Len(<<"0", "x">>) = 2
    BY PrefixCharacters
  <2>2. t \in Seq(Characters) /\ Len(t) = Len(h) + 2 /\ Len(h) \in Nat
        /\ \A i \in 1 .. Len(h) + 2 : t[i] = IF i <= 2 THEN <<"0", "x">>[i] ELSE h[i - 2]
    BY <2>1, ConcatProperties, LenProperties
  <2> HIDE DEF t
  <2> QED BY <2>2
<1> HIDE DEF t
<1>2. u \in Seq(Characters) /\ Len(u) = Len(h) /\ \A i \in 1 .. Len(h) : u[i] = t[i + 2]
  BY <1>1
<1> HIDE DEF u
<1>3. u = h
  BY <1>1, <1>2, SeqEqual
<1> QED BY <1>1, <1>3 DEF t, u

LEMMA PrefixOn ==
  ASSUME NEW t \in Seq(Characters), Len(t) >= 2, t[1] = "0", t[2] = "x"
  PROVE  /\ SubSeq(t, 3, Len(t)) \in Seq(Characters) /\ Len(SubSeq(t, 3, Len(t))) = Len(t) - 2
         /\ <<"0", "x">> \o SubSeq(t, 3, Len(t)) = t
<1> DEFINE u == SubSeq(t, 3, Len(t))
           w == <<"0", "x">> \o u
<1>1. u \in Seq(Characters) /\ Len(u) = Len(t) - 2 /\ \A i \in 1 .. Len(u) : u[i] = t[i + 2]
  <2>1. Len(t) \in Nat
    BY LenProperties
  <2>2. \A i \in 3 .. Len(t) : t[i] \in Characters
    BY <2>1, ElementOfSeq
  <2>3. /\ u \in Seq(Characters) /\ Len(u) = IF 3 <= Len(t) THEN Len(t) - 3 + 1 ELSE 0
        /\ \A i \in 1 .. Len(t) - 3 + 1 : u[i] = t[3 + i - 1]
    BY <2>1, <2>2, SubSeqProperties
  <2> HIDE DEF u
  <2>4. Len(u) = Len(t) - 2
    BY <2>1, <2>3, Without, Zenon
  <2>5. \A i \in 1 .. Len(u) : i \in 1 .. Len(t) - 3 + 1 /\ 3 + i - 1 = i + 2
    BY <2>1, <2>4
  <2> QED BY <2>3, <2>4, <2>5
<1> HIDE DEF u
<1>2. w \in Seq(Characters) /\ Len(w) = Len(t) /\ w[1] = "0" /\ w[2] = "x"
      /\ \A i \in 3 .. Len(t) : w[i] = u[i - 2]
  BY <1>1
<1> HIDE DEF w
<1>3. \A i \in 1 .. Len(t) : w[i] = t[i]
  BY <1>1, <1>2
<1>4. w = t
  BY <1>2, <1>3, SeqEqual
<1> QED BY <1>1, <1>4 DEF u, w

\* What hex_to_bytes reads from a text of hexadecimal digits.
Digital(hex) == Len(hex) % 2 = 0 /\ \A i \in 1 .. Len(hex) : IsHex(hex[i])
BytesOf(hex) == [i \in 1 .. Len(hex) \div 2 |-> 16 * ValueOf(hex[2 * i - 1]) + ValueOf(hex[2 * i])]

LEMMA Parsing ==
  ASSUME NEW t \in Seq(Characters), NEW max, hex_to_bytes(t, max) # NoBytes
  PROVE  /\ hex_to_bytes(t, max) = BytesOf(Unprefixed(t))
         /\ Digital(Unprefixed(t)) /\ Len(Unprefixed(t)) \div 2 <= max
<1>1. t # NoText
  BY SigningAssumption
<1> QED BY <1>1, Zenon DEF hex_to_bytes, Digital, BytesOf

LEMMA Parsed ==
  ASSUME NEW t \in Seq(Characters), NEW max, Digital(Unprefixed(t)), Len(Unprefixed(t)) \div 2 <= max
  PROVE  hex_to_bytes(t, max) = BytesOf(Unprefixed(t))
<1>1. t # NoText
  BY SigningAssumption
<1> QED BY <1>1, Zenon DEF hex_to_bytes, Digital, BytesOf

LEMMA Unprefixing ==
  ASSUME NEW t \in Seq(Characters)
  PROVE  /\ Unprefixed(t) \in Seq(Characters)
         /\ Len(t) < 2 => Unprefixed(t) = t
         /\ Unprefixed(t) = t \/ Len(Unprefixed(t)) = Len(t) - 2
<1>1. CASE Len(t) >= 2 /\ t[1] = "0" /\ t[2] \in {"x", "X"}
  <2>1. Unprefixed(t) = SubSeq(t, 3, Len(t))
    BY <1>1 DEF Unprefixed
  <2>2. Len(t) \in Nat /\ \A i \in 3 .. Len(t) : t[i] \in Characters
    BY LenProperties, ElementOfSeq
  <2>3. Unprefixed(t) \in Seq(Characters)
        /\ Len(Unprefixed(t)) = IF 3 <= Len(t) THEN Len(t) - 3 + 1 ELSE 0
    BY <2>1, <2>2, SubSeqProperties
  <2>4. Len(Unprefixed(t)) = Len(t) - 2
    BY <1>1, <2>2, <2>3, Without, Zenon
  <2>5. ~(Len(t) < 2)
    BY <1>1, <2>2
  <2> QED BY <2>3, <2>4, <2>5
<1>2. CASE ~(Len(t) >= 2 /\ t[1] = "0" /\ t[2] \in {"x", "X"})
  <2>1. Unprefixed(t) = t
    BY <1>2 DEF Unprefixed
  <2> QED BY <2>1
<1> QED BY <1>1, <1>2

LEMMA BytesOfIsSeq ==
  ASSUME NEW hex \in Seq(Characters)
  PROVE  /\ IsSeq(BytesOf(hex)) /\ Len(BytesOf(hex)) = Len(hex) \div 2
         /\ Digital(hex) => Len(hex) = 2 * (Len(hex) \div 2)
<1> DEFINE n == Len(hex) \div 2
<1>0. Len(hex) \in Nat
  BY LenProperties
<1>1. n \in Nat /\ (Len(hex) % 2 = 0 => Len(hex) = 2 * n)
  BY <1>0
<1>2. BytesOf(hex) = [i \in 1 .. n |-> BytesOf(hex)[i]]
  BY DEF BytesOf
<1> HIDE DEF n
<1>3. IsSeq(BytesOf(hex)) /\ Len(BytesOf(hex)) = n
  BY <1>1, <1>2, ListIsSeq
<1> QED BY <1>1, <1>3 DEF n, Digital

\* The digits of bytes.
DigitsOf(b) == [i \in 1 .. 2 * Len(b) |-> HexDigit(b, i)]

LEMMA DigitsAreDigits ==
  ASSUME NEW b \in Seq(0 .. 255)
  PROVE  /\ DigitsOf(b) \in Seq(Characters) /\ Len(DigitsOf(b)) = 2 * Len(b) /\ Digital(DigitsOf(b))
         /\ \A i \in 1 .. Len(b) :
              /\ DigitsOf(b)[2 * i - 1] = Digits[(b[i] \div 16) + 1]
              /\ DigitsOf(b)[2 * i] = Digits[(b[i] % 16) + 1]
<1> DEFINE n == Len(b)
           h == DigitsOf(b)
<1>1. n \in Nat /\ \A i \in 1 .. n : b[i] \in 0 .. 255
  BY LenProperties, ElementOfSeq
<1>2. h = [i \in 1 .. 2 * n |-> HexDigit(b, i)]
  BY DEF DigitsOf
<1> HIDE DEF n, h
<1>3. \A i \in 1 .. n :
        /\ 2 * i - 1 \in 1 .. 2 * n /\ 2 * i \in 1 .. 2 * n
        /\ (2 * i - 1) % 2 = 1 /\ (2 * i) % 2 = 0 /\ ((2 * i - 1) + 1) \div 2 = i /\ (2 * i) \div 2 = i
  BY <1>1
<1>4. \A i \in 1 .. n : HexDigit(b, 2 * i - 1) = Digits[(b[i] \div 16) + 1]
                        /\ HexDigit(b, 2 * i) = Digits[(b[i] % 16) + 1]
  <2> TAKE i \in 1 .. n
  <2>1. HexDigit(b, 2 * i - 1) = Digits[(b[((2 * i - 1) + 1) \div 2] \div 16) + 1]
    BY <1>3 DEF HexDigit
  <2>2. HexDigit(b, 2 * i) = Digits[(b[(2 * i) \div 2] % 16) + 1]
    BY <1>3 DEF HexDigit
  <2> QED BY <1>3, <2>1, <2>2
<1>5. \A i \in 1 .. n : h[2 * i - 1] = Digits[(b[i] \div 16) + 1] /\ h[2 * i] = Digits[(b[i] % 16) + 1]
  BY <1>2, <1>3, <1>4
<1>6. \A j \in 1 .. 2 * n : \E i \in 1 .. n : j = 2 * i - 1 \/ j = 2 * i
  <2> TAKE j \in 1 .. 2 * n
  <2>1. (j + 1) \div 2 \in 1 .. n /\ (j = 2 * ((j + 1) \div 2) - 1 \/ j = 2 * ((j + 1) \div 2))
    BY <1>1
  <2> QED BY <2>1
<1>7. \A j \in 1 .. 2 * n : h[j] \in Characters /\ IsHex(h[j])
  <2> TAKE j \in 1 .. 2 * n
  <2>1. PICK i \in 1 .. n : j = 2 * i - 1 \/ j = 2 * i
    BY <1>6
  <2>2. b[i] \div 16 \in 0 .. 15 /\ b[i] % 16 \in 0 .. 15
    BY <1>1, Nibbles
  <2>3. h[j] = Digits[(b[i] \div 16) + 1] \/ h[j] = Digits[(b[i] % 16) + 1]
    BY <1>5, <2>1
  <2> QED BY <2>2, <2>3, DigitOfValue
<1>8. h \in [1 .. 2 * n -> Characters] /\ 2 * n \in Nat
  BY <1>1, <1>2, <1>7
<1>9. h \in Seq(Characters) /\ Len(h) = 2 * n
  BY <1>8, SeqDef, LenProperties
<1>10. Digital(h)
  BY <1>1, <1>7, <1>9, Halves DEF Digital
<1> QED BY <1>5, <1>9, <1>10 DEF n, h

\* Whatever the text that states bytes, the bytes that it states are the same.
LEMMA HexRoundTrip ==
  ASSUME NEW b \in Seq(0 .. 255)
  PROVE  hex_to_bytes(bytes_to_hex(b), Len(b)) = b
<1> DEFINE h == DigitsOf(b)
           t == <<"0", "x">> \o h
<1>1. /\ h \in Seq(Characters) /\ Len(h) = 2 * Len(b) /\ Digital(h)
      /\ \A i \in 1 .. Len(b) : /\ h[2 * i - 1] = Digits[(b[i] \div 16) + 1]
                                /\ h[2 * i] = Digits[(b[i] % 16) + 1]
  BY DigitsAreDigits
<1>2. Len(b) \in Nat /\ Len(h) \div 2 = Len(b) /\ \A i \in 1 .. Len(b) : b[i] \in 0 .. 255
  BY <1>1, LenProperties, ElementOfSeq, Halves
<1>3. bytes_to_hex(b) = t
  BY DEF bytes_to_hex, DigitsOf
<1> HIDE DEF h
<1>4. /\ t \in Seq(Characters) /\ Len(t) >= 2 /\ t[1] = "0" /\ t[2] = "x"
      /\ SubSeq(t, 3, Len(t)) = h
  BY <1>1, <1>2, PrefixOff
<1> HIDE DEF t
<1>5. Unprefixed(t) = h
  BY <1>4 DEF Unprefixed
<1>6. hex_to_bytes(t, Len(b)) = BytesOf(h)
  BY <1>1, <1>2, <1>4, <1>5, Parsed
<1>7. \A i \in 1 .. Len(b) : 16 * ValueOf(h[2 * i - 1]) + ValueOf(h[2 * i]) = b[i]
  <2> TAKE i \in 1 .. Len(b)
  <2>1. b[i] \div 16 \in 0 .. 15 /\ b[i] % 16 \in 0 .. 15 /\ 16 * (b[i] \div 16) + (b[i] % 16) = b[i]
    BY <1>2, Nibbles
  <2>2. ValueOf(h[2 * i - 1]) = b[i] \div 16 /\ ValueOf(h[2 * i]) = b[i] % 16
    BY <1>1, <2>1, DigitOfValue
  <2> QED BY <2>1, <2>2
<1>8. BytesOf(h) = [i \in 1 .. Len(b) |-> b[i]]
  BY <1>2, <1>7, Zenon DEF BytesOf
<1>9. b = [i \in 1 .. Len(b) |-> b[i]]
  BY LenProperties
<1> QED BY <1>3, <1>6, <1>8, <1>9

Lowered(hex) == [i \in 1 .. Len(hex) |-> Lower(hex[i])]

LEMMA DigitsRoundTrip ==
  ASSUME NEW hex \in Seq(Characters), Digital(hex)
  PROVE  bytes_to_hex(BytesOf(hex)) = <<"0", "x">> \o Lowered(hex)
<1> DEFINE n == Len(hex) \div 2
           b == BytesOf(hex)
<1>1. Len(hex) \in Nat /\ n \in Nat /\ Len(hex) = 2 * n /\ Len(b) = n
  BY LenProperties, BytesOfIsSeq DEF Digital
<1>2. \A i \in 1 .. n : b[i] = 16 * ValueOf(hex[2 * i - 1]) + ValueOf(hex[2 * i])
  BY DEF BytesOf
<1>3. \A j \in 1 .. 2 * n : IsHex(hex[j])
  BY <1>1 DEF Digital
<1>d. bytes_to_hex(b) = <<"0", "x">> \o DigitsOf(b)
  BY DEF bytes_to_hex, DigitsOf
<1> HIDE DEF n, b
<1>4. \A i \in 1 .. n :
        /\ 2 * i - 1 \in 1 .. 2 * n /\ 2 * i \in 1 .. 2 * n
        /\ (2 * i - 1) % 2 = 1 /\ (2 * i) % 2 = 0 /\ ((2 * i - 1) + 1) \div 2 = i /\ (2 * i) \div 2 = i
  BY <1>1
<1>5. \A i \in 1 .. n : HexDigit(b, 2 * i - 1) = Lower(hex[2 * i - 1]) /\ HexDigit(b, 2 * i) = Lower(hex[2 * i])
  <2> TAKE i \in 1 .. n
  <2> DEFINE x == ValueOf(hex[2 * i - 1])
             y == ValueOf(hex[2 * i])
  <2>1. x \in 0 .. 15 /\ y \in 0 .. 15 /\ Digits[x + 1] = Lower(hex[2 * i - 1]) /\ Digits[y + 1] = Lower(hex[2 * i])
    BY <1>3, <1>4, ValueOfDigit DEF Lower
  <2>2. b[i] = 16 * x + y
    BY <1>2
  <2> HIDE DEF x, y
  <2>3. b[i] \div 16 = x /\ b[i] % 16 = y
    BY <2>1, <2>2, Nibbles
  <2>4. HexDigit(b, 2 * i - 1) = Digits[(b[((2 * i - 1) + 1) \div 2] \div 16) + 1]
    BY <1>4 DEF HexDigit
  <2>5. HexDigit(b, 2 * i) = Digits[(b[(2 * i) \div 2] % 16) + 1]
    BY <1>4 DEF HexDigit
  <2> QED BY <1>4, <2>1, <2>3, <2>4, <2>5
<1>6. \A j \in 1 .. 2 * n : HexDigit(b, j) = Lower(hex[j])
  <2> TAKE j \in 1 .. 2 * n
  <2>1. (j + 1) \div 2 \in 1 .. n /\ (j = 2 * ((j + 1) \div 2) - 1 \/ j = 2 * ((j + 1) \div 2))
    BY <1>1
  <2> QED BY <1>5, <2>1
<1>7. DigitsOf(b) = [j \in 1 .. 2 * n |-> Lower(hex[j])]
  BY <1>1, <1>6, Zenon DEF DigitsOf
<1>8. DigitsOf(b) = Lowered(hex)
  BY <1>1, <1>7, Zenon DEF Lowered
<1> QED BY <1>d, <1>8 DEF b

-----------------------------------------------------------------------------
(* Keys and signatures. *)

\* A key that states its bytes is kept as it is, and parsed digit by digit.
LEMMA SigningKey ==
  ASSUME NEW key \in Seq(Characters), Accepted(key), IsKey(key)
  PROVE  /\ PrivateKey(key) # NoBytes
         /\ bytes_to_hex(PrivateKey(key)) = <<"0", "x">> \o Lowered(Stripped(key))
<1> DEFINE k == Stripped(key)
           b == BytesOf(k)
<1>0. KeyBytes \in Nat /\ KeyBytes > 0
  BY SigningAssumption
<1>1. Len(key) \in Nat /\ Len(key) >= 2
  BY <1>0 DEF Accepted
<1>2. k \in Seq(Characters)
  <2>1. CASE key[1] = "0" /\ key[2] = "x"
    <3>1. k = SubSeq(key, 3, Len(key))
      BY <2>1 DEF Stripped
    <3> HIDE DEF k
    <3> QED BY <1>1, <2>1, <3>1, PrefixOn
  <2>2. CASE ~(key[1] = "0" /\ key[2] = "x")
    BY <2>2 DEF Stripped
  <2> QED BY <2>1, <2>2
<1>3. Len(k) = 2 * KeyBytes /\ \A i \in 1 .. 2 * KeyBytes : IsHex(k[i])
  BY DEF IsKey
<1>4. KeptKey(key) = k
  BY <1>0, <1>3 DEF KeptKey
<1> HIDE DEF k
<1>5. Digital(k) /\ Len(k) \div 2 = KeyBytes
  BY <1>0, <1>3, Halves DEF Digital
<1>6. k[2] \notin {"x", "X"}
  <2>1. IsHex(k[2])
    BY <1>0, <1>3
  <2> QED BY <2>1, DigitsDiffer DEF IsHex
<1>7. Unprefixed(k) = k
  BY <1>6 DEF Unprefixed
<1>8. hex_to_bytes(k, KeyBytes) = b
  BY <1>0, <1>2, <1>5, <1>7, Parsed
<1>9. Len(b) = KeyBytes
  BY <1>2, <1>5, BytesOfIsSeq
<1>10. b # NoBytes
  <2> DEFINE x == ValueOf(k[1])
             y == ValueOf(k[2])
  <2>1. IsHex(k[1]) /\ IsHex(k[2])
    BY <1>0, <1>3
  <2>2. x \in 0 .. 15 /\ y \in 0 .. 15
    BY <2>1, ValueOfDigit
  <2>3. b[1] = 16 * x + y
    BY <1>0, <1>5 DEF BytesOf
  <2> HIDE DEF b, x, y
  <2>4. b[1] \in 0 .. 255
    BY ONLY <2>2, <2>3
  <2>5. b[1] # -1
    <3>1. \A z \in 0 .. 255 : z >= 0 /\ ~(-1 >= 0)
      BY ONLY TRUE
    <3> QED BY ONLY <2>4, <3>1
  <2>6. NoBytes[1] = -1
    BY DEF NoBytes
  <2> QED BY <2>5, <2>6
<1>11. PrivateKey(key) = b
  BY <1>4, <1>8, <1>9 DEF PrivateKey, Exactly
<1>12. bytes_to_hex(b) = <<"0", "x">> \o Lowered(k)
  BY <1>2, <1>5, DigitsRoundTrip
<1> QED BY <1>10, <1>11, <1>12 DEF k

LEMMA RequestTexts ==
  ASSUME IInv, step # "idle"
  PROVE  request \in Requests /\ request.key \in Seq(Characters) /\ Accepted(request.key)
BY SigningAssumption DEF IInv, SignInv, KeyInv

LEMMA KeyFollows ==
  ASSUME IInv
  PROVE  KeyAsGiven
<1> SUFFICES ASSUME step # "idle", IsKey(request.key) PROVE KeyAsGiven
  BY DEF KeyAsGiven
<1>1. request.key \in Seq(Characters) /\ Accepted(request.key)
  BY RequestTexts
<1>2. PrivateKey(request.key) # NoBytes
      /\ bytes_to_hex(PrivateKey(request.key)) = <<"0", "x">> \o Lowered(Stripped(request.key))
  BY <1>1, SigningKey
<1>3. Lowered(Stripped(request.key)) = [i \in 1 .. 2 * KeyBytes |-> Lower(Stripped(request.key)[i])]
  BY DEF Lowered, IsKey
<1>4. step = "signed" => signed.key = PrivateKey(request.key)
  BY DEF IInv, SignedInv
<1> QED BY <1>2, <1>3, <1>4 DEF KeyAsGiven

LEMMA RecoveryFollows ==
  ASSUME IInv
  PROVE  Recoverable
<1>1. CASE step = "signed"
  <2>1. /\ signed.r = bytes_to_hex(trial.half) /\ signed.v = trial.id + 27 /\ trial.id \in 0 .. 4
        /\ trial.keys[trial.id] = Address(PrivateKey(request.key))
        /\ trial.half \in Curve /\ NoneBefore(trial.id)
    BY <1>1 DEF IInv, SignedInv, TrialInv
  <2>2. signed.v - 27 = trial.id /\ signed.v - 28 = trial.id - 1
    BY <2>1
  <2>3. trial.half \in Seq(0 .. 255)
    BY <2>1, SigningAssumption
  <2>4. hex_to_bytes(signed.r, Len(trial.half)) = trial.half
    BY <2>1, <2>3, HexRoundTrip
  <2> QED BY <1>1, <2>1, <2>2, <2>4 DEF Recoverable, NoneBefore
<1>2. CASE step = "failed" /\ trial # NoTrial
  <2>1. NoneBefore(4)
    BY <1>2 DEF IInv, TrialInv
  <2> QED BY <1>2, <2>1 DEF Recoverable, NoneBefore
<1>3. CASE ~(step = "signed") /\ ~(step = "failed" /\ trial # NoTrial)
  BY <1>3 DEF Recoverable
<1> QED BY <1>1, <1>2, <1>3

LEMMA HeapFollows ==
  ASSUME IInv
  PROVE  HeapRight
BY DEF IInv, HeapInv, SignInv, HeapRight, NothingHeld

-----------------------------------------------------------------------------
(* The steps of a call. *)

LEMMA Start == Init => IInv
<1> SUFFICES ASSUME Init PROVE IInv
  OBVIOUS
<1>1. IsSeq(<<>>)
  BY NothingIsSeq
<1>2. ctx = Context(0, FALSE) /\ input = <<>> /\ phase = "idle"
  BY DEF Init, SpongeInit
<1>3. IsContext(ctx) /\ WithinBounds(ctx, "idle", 0)
  BY <1>2, ContextStarts
<1>4. SpongeInv
  BY <1>1, <1>2, <1>3 DEF SpongeInv, SpongeInBounds, WithinBounds
<1>5. SignInv /\ HeapInv /\ KeyInv /\ TrialInv /\ SignedInv
  BY <1>1, SigningAssumption
     DEF Init, SigningInit, SignInv, HeapInv, KeyInv, TrialInv, NoTrial, SignedInv, Steps, WithinBlock
<1> QED BY <1>4, <1>5 DEF IInv

\* The call waits while the sponge moves.
LEMMA CallRests ==
  ASSUME IInv, SpongeInv', UNCHANGED signVars
  PROVE  IInv'
BY DEF IInv, SignInv, HeapInv, KeyInv, TrialInv, NoneBefore, SignedInv, WithinBlock, signVars

LEMMA SpongeKept ==
  ASSUME IInv, UNCHANGED spongeVars
  PROVE  SpongeInv'
BY SpongeRests DEF IInv, spongeVars

\* A call that fails holds nothing any more.
LEMMA FailsStep ==
  ASSUME IInv, NEW released, Fails(released), step # "idle", heap \subseteq released,
         trial = NoTrial \/ NoneBefore(4)
  PROVE  IInv'
<1>1. SpongeInv'
  BY SpongeKept DEF Fails
<1>2. /\ step' = "failed" /\ heap' = {} /\ packed' = <<>> /\ request' = request /\ dropped' = dropped
      /\ block' = block /\ hashes' = hashes /\ trial' = trial
  BY DEF Fails, Goto
<1>3. IsSeq(packed')
  BY <1>2, NothingIsSeq
<1>4. SignInv'
  BY <1>2, <1>3 DEF IInv, SignInv, WithinBlock, Steps
<1>5. HeapInv' /\ KeyInv' /\ SignedInv'
  BY <1>2 DEF IInv, HeapInv, KeyInv, SignedInv
<1>6. TrialInv'
  BY <1>2 DEF IInv, TrialInv, NoneBefore
<1> QED BY <1>1, <1>4, <1>5, <1>6 DEF IInv

\* Nothing is under trial before the curve has signed.
LEMMA NoTrialYet ==
  ASSUME IInv, step \notin {"try", "signed", "failed"}, trial' = trial, step' \notin {"try", "signed"}
  PROVE  TrialInv' /\ SignedInv'
<1>1. trial' = NoTrial
  BY DEF IInv, TrialInv
<1> QED BY <1>1 DEF TrialInv, SignedInv, NoTrial

LEMMA SignStarts ==
  ASSUME IInv, NEW r \in Requests, Sign(r)
  PROVE  IInv'
<1>1. SpongeInv'
  BY SpongeRests DEF Sign, IInv
<1>2. SignInv'
  BY DEF Sign, Goto, IInv, SignInv, WithinBlock, Steps
<1>3. HeapInv' /\ KeyInv'
  BY DEF Sign, Goto, IInv, HeapInv, KeyInv
<1>4. TrialInv' /\ SignedInv'
  BY NoTrialYet DEF Sign, Goto
<1> QED BY <1>1, <1>2, <1>3, <1>4 DEF IInv

LEMMA WriteStep ==
  ASSUME IInv, Write
  PROVE  IInv'
<1>1. SpongeInv'
  BY SpongeKept DEF Write
<1>2. /\ packed' = Append(packed, Head(todo)) /\ heap' = heap \cup {"sbuf"} /\ step = "pack" /\ step' = step
      /\ request' = request /\ dropped' = dropped /\ block' = block /\ hashes' = hashes
  BY DEF Write
<1>3. IsSeq(packed')
  BY <1>2, AppendIsSeq DEF IInv, SignInv
<1>4. SignInv'
  BY <1>2, <1>3 DEF IInv, SignInv, WithinBlock
<1>5. HeapInv' /\ KeyInv'
  BY <1>2 DEF IInv, HeapInv, KeyInv, HashSteps
<1>6. TrialInv' /\ SignedInv'
  BY <1>2, NoTrialYet DEF Write
<1> QED BY <1>1, <1>4, <1>5, <1>6 DEF IInv

LEMMA WriteFailsStep ==
  ASSUME IInv, WriteFails
  PROVE  IInv'
<1>1. SpongeInv'
  BY SpongeKept DEF WriteFails
<1>2. SignInv'
  BY SigningAssumption DEF WriteFails, IInv, SignInv, WithinBlock
<1>3. HeapInv' /\ KeyInv'
  BY DEF WriteFails, IInv, HeapInv, KeyInv
<1>4. TrialInv' /\ SignedInv'
  BY NoTrialYet DEF WriteFails
<1> QED BY <1>1, <1>2, <1>3, <1>4 DEF IInv

\* The vault of a request that goes on takes the bytes that were counted for it.
LEMMA MarkerFits ==
  ASSUME NEW r \in Requests, HasVault(r) => parse_eth_address(r.vault) # NoBytes
  PROVE  IsSeq(Marker(r)) /\ Len(Marker(r)) <= (IF r.vault # NoText THEN AddressBytes + 1 ELSE 1)
<1>0. AddressBytes \in Nat
  BY SigningAssumption
<1>1. \A x : IsSeq(<<<<"byte", x>>>>) /\ Len(<<<<"byte", x>>>>) = 1
  <2> TAKE x
  <2>1. <<<<"byte", x>>>> \in Seq({<<"byte", x>>})
    OBVIOUS
  <2> QED BY <2>1, SeqIsSeq
<1>2. CASE HasVault(r)
  <2> DEFINE b == parse_eth_address(r.vault)
  <2>1. r.vault # NoText /\ r.vault \in Seq(Characters)
    BY <1>2, SigningAssumption DEF HasVault
  <2>2. b = hex_to_bytes(r.vault, AddressBytes) /\ b # NoBytes /\ Len(b) = AddressBytes
    BY <1>2 DEF parse_eth_address, Exactly
  <2>3. b = BytesOf(Unprefixed(r.vault)) /\ IsSeq(b)
    BY <2>1, <2>2, Parsing, Unprefixing, BytesOfIsSeq
  <2>4. Marker(r) = <<<<"byte", 1>>>> \o Bytes(b)
    BY <1>2 DEF Marker
  <2> HIDE DEF b
  <2>5. DOMAIN b = 1 .. AddressBytes
    BY <2>2, <2>3, LenProperties DEF IsSeq
  <2>6. Bytes(b) = [i \in 1 .. AddressBytes |-> Bytes(b)[i]]
    BY <2>5 DEF Bytes
  <2>7. IsSeq(Bytes(b)) /\ Len(Bytes(b)) = AddressBytes
    BY <1>0, <2>6, ListIsSeq
  <2>8. IsSeq(Marker(r)) /\ Len(Marker(r)) = 1 + AddressBytes
    BY <1>1, <2>4, <2>7, JoinIsSeq
  <2> QED BY <1>0, <2>1, <2>8
<1>3. CASE ~HasVault(r)
  <2>1. Marker(r) = <<<<"byte", 0>>>>
    BY <1>3 DEF Marker
  <2> QED BY <1>0, <1>1, <2>1
<1> QED BY <1>2, <1>3

LEMMA AssembleStep ==
  ASSUME IInv, Assemble
  PROVE  IInv'
<1> DEFINE n == BigEndian(request.nonce)
           m == Marker(request)
<1>1. SpongeInv'
  BY SpongeKept DEF Assemble
<1>2. /\ packed' = packed \o n \o m /\ block' = Allocated(request, Len(packed)) /\ step = "pack"
      /\ step' = "connection" /\ heap' = heap \cup {"data"} /\ request' = request /\ dropped' = dropped
      /\ hashes' = hashes /\ (HasVault(request) => parse_eth_address(request.vault) # NoBytes)
  BY DEF Assemble, Goto
<1>3. request \in Requests /\ NonceBytes \in Nat /\ AddressBytes \in Nat
  BY <1>2, SigningAssumption DEF IInv, SignInv
<1>4. IsSeq(n) /\ Len(n) = NonceBytes
  <2>1. n = [i \in 1 .. NonceBytes |-> n[i]]
    BY DEF BigEndian
  <2> HIDE DEF n
  <2> QED BY <1>3, <2>1, ListIsSeq
<1>5. IsSeq(m) /\ Len(m) <= (IF request.vault # NoText THEN AddressBytes + 1 ELSE 1)
  BY <1>2, <1>3, MarkerFits
<1> HIDE DEF n, m
<1>6. /\ IsSeq(packed \o n) /\ Len(packed \o n) = Len(packed) + NonceBytes /\ Len(packed) \in Nat
  BY <1>4, JoinIsSeq DEF IInv, SignInv
<1>7. /\ IsSeq((packed \o n) \o m) /\ Len((packed \o n) \o m) = Len(packed \o n) + Len(m)
      /\ Len(m) \in Nat
  BY <1>5, <1>6, JoinIsSeq
<1>8. Allocated(request, Len(packed)) =
        Len(packed) + NonceBytes + (IF request.vault # NoText THEN AddressBytes + 1 ELSE 1)
  BY DEF Allocated
<1>9. Len(packed') <= block' /\ block' \in Nat
  BY <1>2, <1>3, <1>5, <1>6, <1>7, <1>8
<1>10. SignInv'
  BY <1>2, <1>7, <1>9 DEF IInv, SignInv, WithinBlock, Steps, HashSteps
<1>11. HeapInv' /\ KeyInv'
  BY <1>2 DEF IInv, HeapInv, KeyInv, HashSteps
<1>12. TrialInv' /\ SignedInv'
  BY <1>2, NoTrialYet DEF Assemble
<1> QED BY <1>1, <1>10, <1>11, <1>12 DEF IInv

LEMMA Lists ==
  \A a, b, c, d, e : IsSeq(<<a>>) /\ IsSeq(<<a, b, c>>) /\ IsSeq(<<a, b, c, d>>) /\ IsSeq(<<a, b, c, d, e>>)
<1> TAKE a, b, c, d, e
<1>1. /\ <<a>> \in Seq({a}) /\ <<a, b, c>> \in Seq({a, b, c}) /\ <<a, b, c, d>> \in Seq({a, b, c, d})
      /\ <<a, b, c, d, e>> \in Seq({a, b, c, d, e})
  OBVIOUS
<1> QED BY <1>1, SeqIsSeq

\* What is hashed is a sequence.
LEMMA InputIsSeq ==
  ASSUME IInv, step \in HashSteps
  PROVE  IsSeq(Input(step))
<1>0. IsSeq(packed)
  BY DEF IInv, SignInv
<1>1. CASE step = "connection"
  BY <1>0, <1>1 DEF Input
<1>2. CASE step \in {"name", "version", "source"}
  BY <1>2, Lists DEF Input
<1>3. CASE step = "domain"
  <2> DEFINE a == <<"type", "EIP712Domain">>
             b == <<"hash", hashes["name"]>>
             c == <<"hash", hashes["version"]>>
             d == <<"chainId", 1337>>
             e == <<"verifyingContract", 0>>
  <2>1. Domain(hashes["name"], hashes["version"]) = <<a, b, c, d, e>>
    BY DEF Domain
  <2>2. Input(step) = Domain(hashes["name"], hashes["version"])
    BY <1>3 DEF Input
  <2> HIDE DEF a, b, c, d, e
  <2> QED BY <2>1, <2>2, Lists
<1>4. CASE step = "agent"
  BY <1>4, Lists DEF Input, Agent
<1>5. CASE step = "message"
  BY <1>5, Lists DEF Input, Message
<1> QED BY <1>0, <1>1, <1>2, <1>3, <1>4, <1>5 DEF HashSteps

LEMMA HashBegins ==
  ASSUME IInv, keccak256
  PROVE  IInv'
<1>1. Hashing /\ sha3_HashBuffer(4, 1, Input(step), 4 * Word) /\ UNCHANGED signVars
  BY DEF keccak256
<1>2. step \in HashSteps /\ IsSeq(packed)
  BY <1>1 DEF Hashing, IInv, SignInv
<1>3. IsSeq(Input(step))
  BY <1>2, InputIsSeq
<1>4. SpongeInv'
  BY <1>1, <1>3, HashBufferStep
<1> QED BY <1>1, <1>4, CallRests

LEMMA AfterHash ==
  \A s \in HashSteps : StepAfter(s) \in (HashSteps \ {"connection"}) \cup {"key"}
<1> TAKE s \in HashSteps
<1>1. \/ s = "connection" /\ StepAfter(s) = "name"
      \/ s = "name" /\ StepAfter(s) = "version"
      \/ s = "version" /\ StepAfter(s) = "domain"
      \/ s = "domain" /\ StepAfter(s) = "source"
      \/ s = "source" /\ StepAfter(s) = "agent"
      \/ s = "agent" /\ StepAfter(s) = "message"
      \/ s = "message" /\ StepAfter(s) = "key"
  BY DEF HashSteps, StepAfter
<1> QED BY <1>1 DEF HashSteps

LEMMA HashEnds ==
  ASSUME IInv, Hashed
  PROVE  IInv'
<1>1. SpongeInv'
  <2>1. PICK n : Finalize(n)
    BY DEF Hashed, HashReturns
  <2> QED BY <2>1, FinalizeStep DEF IInv
<1>2. /\ step \in HashSteps /\ step' = StepAfter(step) /\ DOMAIN hashes' = DOMAIN hashes \cup {step}
      /\ heap' = IF step = "connection" THEN heap \ {"data", "sbuf"} ELSE heap
      /\ request' = request /\ dropped' = dropped /\ packed' = packed /\ block' = block /\ trial' = trial
  BY DEF Hashed, Hashing, Goto
<1>3. step' \in (HashSteps \ {"connection"}) \cup {"key"}
  BY <1>2, AfterHash
<1>4. step' \in Steps /\ step' \notin {"connection", "signed", "sign", "try", "pack", "idle", "failed"}
      /\ step \notin {"idle", "try", "signed", "failed"}
  BY <1>2, <1>3 DEF HashSteps, Steps
<1>5. SignInv'
  BY <1>2, <1>4 DEF IInv, SignInv, WithinBlock
<1>6. heap' = {}
  BY <1>2 DEF IInv, HeapInv
<1>7. HeapInv' /\ KeyInv'
  BY <1>2, <1>4, <1>6 DEF IInv, HeapInv, KeyInv
<1>8. TrialInv' /\ SignedInv'
  BY <1>2, <1>4, NoTrialYet
<1> QED BY <1>1, <1>5, <1>7, <1>8 DEF IInv

LEMMA MakeContextStep ==
  ASSUME IInv, MakeContext
  PROVE  IInv'
<1>1. SpongeInv'
  BY SpongeKept DEF MakeContext
<1>2. /\ step = "key" /\ step' = "sign" /\ heap' = heap \cup {"curve"}
      /\ request' = request /\ dropped' = dropped /\ packed' = packed /\ block' = block /\ hashes' = hashes
      /\ trial' = trial
  BY DEF MakeContext, Goto
<1>3. SignInv'
  BY <1>2 DEF IInv, SignInv, WithinBlock, Steps
<1>4. HeapInv' /\ KeyInv'
  BY <1>2 DEF IInv, HeapInv, KeyInv, HashSteps
<1>5. TrialInv' /\ SignedInv'
  BY <1>2, NoTrialYet
<1> QED BY <1>1, <1>3, <1>4, <1>5 DEF IInv

LEMMA CurveSignsStep ==
  ASSUME IInv, CurveSigns
  PROVE  IInv'
<1>1. SpongeInv'
  BY SpongeKept DEF CurveSigns
<1>2. /\ step = "sign" /\ step' = "try" /\ heap' = heap
      /\ request' = request /\ dropped' = dropped /\ packed' = packed /\ block' = block /\ hashes' = hashes
  BY DEF CurveSigns, Goto
<1>3. trial'.half \in Curve /\ trial'.id = 0
      /\ trial' = [half |-> trial'.half, keys |-> trial'.keys, id |-> trial'.id]
  <2>1. PICK half \in Curve, keys \in Outcomes(PrivateKey(request.key)) :
          trial' = [half |-> half, keys |-> keys, id |-> 0]
    BY DEF CurveSigns
  <2> QED BY <2>1
<1>4. SignInv'
  BY <1>2 DEF IInv, SignInv, WithinBlock, Steps
<1>5. HeapInv' /\ KeyInv'
  BY <1>2 DEF IInv, HeapInv, KeyInv, HashSteps
<1>6. TrialInv' /\ SignedInv'
  BY <1>2, <1>3 DEF TrialInv, NoneBefore, SignedInv
<1> QED BY <1>1, <1>4, <1>5, <1>6 DEF IInv

\* An id that does not lead to the own key is passed over.
LEMMA NextIdStep ==
  ASSUME IInv, TryFails \/ TryDiffers
  PROVE  IInv'
<1> DEFINE own == Address(PrivateKey(request.key))
<1>1. SpongeInv'
  BY SpongeKept DEF TryFails, TryDiffers, NextId
<1>2. /\ step = "try" /\ trial.id < 4 /\ trial' = [trial EXCEPT !.id = trial.id + 1]
      /\ step' = step /\ heap' = heap /\ request' = request /\ dropped' = dropped /\ packed' = packed
      /\ block' = block /\ hashes' = hashes
  BY DEF TryFails, TryDiffers, Trying, NextId
<1>3. trial.keys[trial.id] # own
  BY DEF TryFails, TryDiffers, NoAddress, Address
<1>4. SignInv'
  BY <1>2 DEF IInv, SignInv, WithinBlock
<1>5. HeapInv' /\ KeyInv'
  BY <1>2 DEF IInv, HeapInv, KeyInv
<1>6. trial.id \in 0 .. 4 /\ trial.half \in Curve /\ NoneBefore(trial.id)
  BY <1>2 DEF IInv, TrialInv
<1>7. trial'.id = trial.id + 1 /\ trial'.half = trial.half /\ trial'.keys = trial.keys
      /\ trial' = [half |-> trial'.half, keys |-> trial'.keys, id |-> trial'.id]
  <2>1. trial = [half |-> trial.half, keys |-> trial.keys, id |-> trial.id]
    BY DEF IInv, TrialInv
  <2> QED BY <1>2, <2>1
<1>8. \A i \in 0 .. trial'.id - 1 : trial'.keys[i] # own
  <2> TAKE i \in 0 .. trial'.id - 1
  <2>1. i \in 0 .. trial.id - 1 \/ i = trial.id
    BY <1>6, <1>7
  <2> QED BY <1>3, <1>6, <1>7, <2>1 DEF NoneBefore
<1> HIDE DEF own
<1>9. TrialInv' /\ SignedInv'
  BY <1>2, <1>6, <1>7, <1>8 DEF TrialInv, NoneBefore, SignedInv, own
<1> QED BY <1>1, <1>4, <1>5, <1>9 DEF IInv

LEMMA TryMatchesStep ==
  ASSUME IInv, TryMatches
  PROVE  IInv'
<1>1. SpongeInv'
  BY SpongeKept DEF TryMatches, Found
<1>2. /\ step = "try" /\ trial.id < 4 /\ trial' = trial /\ heap' = heap \ {"curve"} /\ step' = "signed"
      /\ request' = request /\ dropped' = dropped /\ packed' = packed /\ block' = block /\ hashes' = hashes
      /\ trial.keys[trial.id] = Address(PrivateKey(request.key))
      /\ signed' = [hash |-> hashes["message"], key |-> PrivateKey(request.key), half |-> trial.half,
                    r |-> bytes_to_hex(trial.half), v |-> trial.id + 27]
  BY DEF TryMatches, Trying, Found, Goto
<1>3. SignInv'
  BY <1>2 DEF IInv, SignInv, WithinBlock, Steps
<1>4. HeapInv' /\ KeyInv'
  BY <1>2 DEF IInv, HeapInv, KeyInv
<1>5. TrialInv'
  BY <1>2 DEF IInv, TrialInv, NoneBefore
<1>6. SignedInv'
  BY <1>2 DEF SignedInv
<1> QED BY <1>1, <1>3, <1>4, <1>5, <1>6 DEF IInv

LEMMA ReturnStep ==
  ASSUME IInv, Return
  PROVE  IInv'
<1>1. SpongeInv'
  BY SpongeRests DEF Return, IInv
<1>2. /\ step \in {"failed", "signed"} /\ step' = "idle" /\ heap' = heap /\ request' = NoRequest
      /\ dropped' = 0 /\ packed' = <<>> /\ block' = 0 /\ DOMAIN hashes' = {}
      /\ trial' = NoTrial
  BY DEF Return, Goto
<1>3. IsSeq(packed')
  BY <1>2, NothingIsSeq
<1>4. SignInv'
  BY <1>2, <1>3, SigningAssumption DEF SignInv, WithinBlock, Steps
<1>5. HeapInv' /\ KeyInv' /\ TrialInv' /\ SignedInv'
  BY <1>2 DEF IInv, HeapInv, KeyInv, TrialInv, NoTrial, SignedInv
<1> QED BY <1>1, <1>4, <1>5 DEF IInv

LEMMA FreshIsSeq ==
  ASSUME NEW from, NEW n \in Nat
  PROVE  IsSeq(Fresh(from, n))
<1>1. Fresh(from, n) = [i \in 1 .. n |-> Fresh(from, n)[i]]
  BY DEF Fresh
<1> QED BY <1>1, ListIsSeq

LEMMA HashesStep ==
  ASSUME IInv, Hashes
  PROVE  IInv'
<1>0. SpongeInv /\ UNCHANGED signVars /\ MaxFed \in Nat
  BY SpongeAssumption DEF IInv, Hashes
<1>1. CASE \E bits \in BitSizes : sha3_Init(bits)
  BY <1>0, <1>1, InitStep, CallRests
<1>2. CASE \E flags \in 0 .. 1 : sha3_SetFlags(flags)
  BY <1>0, <1>2, FlagsStep, CallRests
<1>3. CASE \E n \in 0 .. MaxFed : sha3_Update(Fresh(Len(fed), n))
  <2>1. PICK n \in 0 .. MaxFed : sha3_Update(Fresh(Len(fed), n))
    BY <1>3
  <2>2. IsSeq(Fresh(Len(fed), n))
    BY <1>0, FreshIsSeq
  <2> QED BY <1>0, <2>1, <2>2, UpdateStep, CallRests
<1>4. CASE sha3_Finalize \/ HashReturns
  <2>1. PICK n : Finalize(n)
    BY <1>4 DEF sha3_Finalize, HashReturns
  <2> QED BY <1>0, <2>1, FinalizeStep, CallRests
<1>5. CASE \E bits \in BitSizes, flags \in 0 .. 2, n \in 0 .. MaxFed, out \in {1, Word * Lanes} :
             sha3_HashBuffer(bits, flags, Fresh(0, n), out)
  <2>1. PICK bits \in BitSizes, flags \in 0 .. 2, n \in 0 .. MaxFed, out \in {1, Word * Lanes} :
          sha3_HashBuffer(bits, flags, Fresh(0, n), out)
    BY <1>5
  <2>2. IsSeq(Fresh(0, n))
    BY <1>0, FreshIsSeq
  <2> QED BY <1>0, <2>1, <2>2, HashBufferStep, CallRests
<1> QED BY <1>1, <1>2, <1>3, <1>4, <1>5 DEF Hashes

LEMMA EveryStep == IInv /\ [Next]_vars => IInv'
<1> SUFFICES ASSUME IInv, [Next]_vars PROVE IInv'
  OBVIOUS
<1>1. CASE UNCHANGED vars
  <2>1. UNCHANGED spongeVars /\ UNCHANGED signVars
    BY <1>1 DEF vars
  <2> QED BY <2>1, SpongeKept, CallRests
<1>2. CASE Hashes
  BY <1>2, HashesStep
<1>3. CASE \E r \in Requests : Sign(r)
  BY <1>3, SignStarts
<1>4. CASE SpongeRuns
  BY <1>4, SpongeStepKeeps, CallRests DEF SpongeRuns, IInv
<1>5. CASE AllocFails \/ BadVault
  <2>1. step = "pack" /\ heap \subseteq {"sbuf"} /\ (Fails({"sbuf"}) \/ Fails({"sbuf", "data"}))
        /\ trial = NoTrial
    BY <1>5 DEF AllocFails, BadVault, IInv, HeapInv, TrialInv
  <2> QED BY <2>1, FailsStep
<1>6. CASE BadKey \/ ContextFails
  <2>1. step = "key" /\ heap = {} /\ Fails({}) /\ trial = NoTrial
    BY <1>6 DEF BadKey, ContextFails, IInv, HeapInv, TrialInv
  <2> QED BY <2>1, FailsStep
<1>7. CASE CurveFails \/ NoneMatches
  <2>1. step \in {"sign", "try"} /\ heap \subseteq {"curve"} /\ Fails({"curve"})
        /\ (trial = NoTrial \/ NoneBefore(4))
    BY <1>7 DEF CurveFails, NoneMatches, IInv, HeapInv, TrialInv
  <2> QED BY <2>1, FailsStep
<1> QED BY <1>1, <1>2, <1>3, <1>4, <1>5, <1>6, <1>7, WriteStep, WriteFailsStep, AssembleStep, HashBegins,
           HashEnds, MakeContextStep, CurveSignsStep, NextIdStep, TryMatchesStep, ReturnStep DEF Next, SignStep

THEOREM Invariant == Spec => []IInv
<1>1. Init => IInv
  BY Start
<1>2. IInv /\ [Next]_vars => IInv'
  BY EveryStep
<1> QED BY <1>1, <1>2, PTL DEF Spec

-----------------------------------------------------------------------------
(* What the contexts hold, at every step. *)

LEMMA StartFed == Init => FedInv
<1> SUFFICES ASSUME Init PROVE FedInv
  OBVIOUS
<1>1. SpongeInv
  BY Start DEF IInv
<1>2. ctx.capacity = 0 /\ input = <<>> /\ fed = <<>>
  <2>1. ctx = Context(0, FALSE) /\ input = <<>> /\ fed = <<>>
    BY DEF Init, SpongeInit
  <2> QED BY <2>1 DEF Context
<1> QED BY <1>1, <1>2, NothingIsSeq DEF FedInv

LEMMA HashesFed ==
  ASSUME FedInv, Hashes
  PROVE  FedInv'
<1>0. MaxFed \in Nat
  BY SpongeAssumption
<1>1. CASE \E bits \in BitSizes : sha3_Init(bits)
  BY <1>1, InitFed
<1>2. CASE \E flags \in 0 .. 1 : sha3_SetFlags(flags)
  BY <1>2, FlagsFed
<1>3. CASE \E n \in 0 .. MaxFed : sha3_Update(Fresh(Len(fed), n))
  <2>1. PICK n \in 0 .. MaxFed : sha3_Update(Fresh(Len(fed), n))
    BY <1>3
  <2>2. IsSeq(Fresh(Len(fed), n))
    BY <1>0, FreshIsSeq
  <2> QED BY <2>1, <2>2, UpdateFed
<1>4. CASE sha3_Finalize \/ HashReturns
  <2>1. PICK n : Finalize(n)
    BY <1>4 DEF sha3_Finalize, HashReturns
  <2> QED BY <2>1, FinalizeFed
<1>5. CASE \E bits \in BitSizes, flags \in 0 .. 2, n \in 0 .. MaxFed, out \in {1, Word * Lanes} :
             sha3_HashBuffer(bits, flags, Fresh(0, n), out)
  <2>1. PICK bits \in BitSizes, flags \in 0 .. 2, n \in 0 .. MaxFed, out \in {1, Word * Lanes} :
          sha3_HashBuffer(bits, flags, Fresh(0, n), out)
    BY <1>5
  <2>2. IsSeq(Fresh(0, n))
    BY <1>0, FreshIsSeq
  <2> QED BY <2>1, <2>2, HashBufferFed
<1> QED BY <1>1, <1>2, <1>3, <1>4, <1>5 DEF Hashes

LEMMA EveryStepFed == IInv /\ FedInv /\ [Next]_vars => FedInv'
<1> SUFFICES ASSUME IInv, FedInv, [Next]_vars PROVE FedInv'
  OBVIOUS
<1>0. SpongeInv'
  BY EveryStep DEF IInv
<1>1. CASE Hashes
  BY <1>1, HashesFed
<1>2. CASE SpongeRuns
  BY <1>2, SpongeStepFed DEF SpongeRuns
<1>3. CASE keccak256
  <2>1. sha3_HashBuffer(4, 1, Input(step), 4 * Word) /\ IsSeq(Input(step))
    BY <1>3, InputIsSeq DEF keccak256, Hashing
  <2> QED BY <2>1, HashBufferFed
<1>4. CASE Hashed
  <2>1. PICK n : Finalize(n)
    BY <1>4 DEF Hashed, HashReturns
  <2> QED BY <2>1, FinalizeFed
<1>5. CASE ctx' = ctx /\ input' = input /\ fed' = fed /\ phase' = phase
  BY <1>0, <1>5, RestFed
<1>6. CASE UNCHANGED vars
  BY <1>5, <1>6 DEF vars, spongeVars
<1>7. CASE \E r \in Requests : Sign(r)
  BY <1>5, <1>7 DEF Sign
<1>8. CASE Write \/ WriteFails \/ AllocFails \/ BadVault \/ Assemble
  BY <1>5, <1>8 DEF Write, WriteFails, AllocFails, BadVault, Assemble, Fails, spongeVars
<1>9. CASE BadKey \/ ContextFails \/ MakeContext \/ CurveFails \/ CurveSigns
  BY <1>5, <1>9 DEF BadKey, ContextFails, MakeContext, CurveFails, CurveSigns, Fails, spongeVars
<1>11. CASE TryFails \/ TryDiffers \/ TryMatches \/ NoneMatches
  BY <1>5, <1>11 DEF TryFails, TryDiffers, NextId, TryMatches, Found, NoneMatches, Fails, spongeVars
<1>10. CASE Return
  BY <1>5, <1>10 DEF Return
<1> QED BY <1>1, <1>2, <1>3, <1>4, <1>6, <1>7, <1>8, <1>9, <1>10, <1>11 DEF Next, SignStep

THEOREM FedInvariant == Spec => []FedInv
<1>1. Init => FedInv
  BY StartFed
<1>2. IInv /\ FedInv /\ [Next]_vars => FedInv'
  BY EveryStepFed
<1> QED BY <1>1, <1>2, Invariant, PTL DEF Spec

-----------------------------------------------------------------------------
(* The chain of digests of a signature. *)

\* The digest that each step makes, and the digests a step finds made.
Link(s) ==
  CASE s = "connection" -> Keccak(packed)
    [] s = "name" -> Keccak(<<<<"text", "Exchange">>>>)
    [] s = "version" -> Keccak(<<<<"text", "1">>>>)
    [] s = "domain" -> Keccak(Domain(Keccak(<<<<"text", "Exchange">>>>), Keccak(<<<<"text", "1">>>>)))
    [] s = "source" -> Keccak(<<<<"text", request.source>>>>)
    [] s = "agent" -> Keccak(Agent(Keccak(<<<<"text", request.source>>>>), Keccak(packed)))
    [] s = "message" -> MessageHash(packed, request.source)

Made(s) ==
  CASE s = "connection" -> {}
    [] s = "name" -> {"connection"}
    [] s = "version" -> {"connection", "name"}
    [] s = "domain" -> {"connection", "name", "version"}
    [] s = "source" -> {"connection", "name", "version", "domain"}
    [] s = "agent" -> {"connection", "name", "version", "domain", "source"}
    [] s = "message" -> {"connection", "name", "version", "domain", "source", "agent"}
    [] s \in {"key", "sign", "try", "signed"} -> HashSteps

AfterPacking == HashSteps \cup {"key", "sign", "try", "signed"}

\* While a call is hashing, the context is fed the input of its step.
HashingInv ==
  hash.on /\ step # "idle" =>
    /\ step \in HashSteps /\ fed = Input(step)
    /\ ctx.capacity = 8 /\ ctx.keccak = TRUE /\ hash.bits = 4 /\ hash.out = 4 * Word

LinksInv == step \in AfterPacking => \A h \in Made(step) : h \in DOMAIN hashes /\ hashes[h] = Link(h)

LastLink == step = "signed" => signed.hash = Link("message")

ChainInv == HashingInv /\ LinksInv /\ LastLink

LEMMA LinkOfInput ==
  ASSUME LinksInv, step \in HashSteps
  PROVE  Keccak(Input(step)) = Link(step)
<1>0. \A h \in Made(step) : hashes[h] = Link(h)
  BY DEF LinksInv, AfterPacking
<1>1. CASE step \in {"connection", "name", "version", "source"}
  BY <1>1 DEF Input, Link
<1>2. CASE step = "domain"
  <2>1. "name" \in Made(step) /\ "version" \in Made(step)
    BY <1>2 DEF Made
  <2>2. hashes["name"] = Keccak(<<<<"text", "Exchange">>>>) /\ hashes["version"] = Keccak(<<<<"text", "1">>>>)
    BY <1>0, <2>1 DEF Link
  <2>3. Input(step) = Domain(hashes["name"], hashes["version"])
    BY <1>2 DEF Input
  <2>4. Link(step) = Keccak(Domain(Keccak(<<<<"text", "Exchange">>>>), Keccak(<<<<"text", "1">>>>)))
    BY <1>2 DEF Link
  <2> QED BY <2>2, <2>3, <2>4
<1>3. CASE step = "agent"
  <2>1. "source" \in Made(step) /\ "connection" \in Made(step)
    BY <1>3 DEF Made
  <2>2. hashes["source"] = Keccak(<<<<"text", request.source>>>>) /\ hashes["connection"] = Keccak(packed)
    BY <1>0, <2>1 DEF Link
  <2>3. Input(step) = Agent(hashes["source"], hashes["connection"])
    BY <1>3 DEF Input
  <2>4. Link(step) = Keccak(Agent(Keccak(<<<<"text", request.source>>>>), Keccak(packed)))
    BY <1>3 DEF Link
  <2> QED BY <2>2, <2>3, <2>4
<1>4. CASE step = "message"
  <2>1. "domain" \in Made(step) /\ "agent" \in Made(step)
    BY <1>4 DEF Made
  <2>2. /\ hashes["domain"] = Keccak(Domain(Keccak(<<<<"text", "Exchange">>>>), Keccak(<<<<"text", "1">>>>)))
        /\ hashes["agent"] = Keccak(Agent(Keccak(<<<<"text", request.source>>>>), Keccak(packed)))
    BY <1>0, <2>1 DEF Link
  <2>3. Input(step) = Message(hashes["domain"], hashes["agent"])
    BY <1>4 DEF Input
  <2>4. Link(step) = MessageHash(packed, request.source)
    BY <1>4 DEF Link
  <2> QED BY <2>2, <2>3, <2>4 DEF MessageHash
<1> QED BY <1>1, <1>2, <1>3, <1>4 DEF HashSteps

\* Neither the size nor the padding of a context changes while it is fed.
LEMMA SizeKept ==
  ASSUME SpongeInv, SpongeStep, ~HashReturns
  PROVE  ctx'.capacity = ctx.capacity /\ ctx'.keccak = ctx.keccak /\ fed' = fed /\ hash' = hash
<1>0. IsContext(ctx)
  BY DEF SpongeInv
<1>1. \A w : /\ IsContext(Absorb(ctx, w)) /\ Absorb(ctx, w).capacity = ctx.capacity
             /\ Absorb(ctx, w).keccak = ctx.keccak
  <2> TAKE w
  <2>1. IsContext(Placed(ctx, w)) /\ Placed(ctx, w).capacity = ctx.capacity /\ Placed(ctx, w).keccak = ctx.keccak
    BY <1>0 DEF IsContext, Fields, Placed
  <2> DEFINE d == Placed(ctx, w)
  <2> HIDE DEF d
  <2>2. IsContext(d) /\ d.capacity = ctx.capacity /\ d.keccak = ctx.keccak
    BY <2>1 DEF d
  <2>3. IsContext(NextBlock(d)) /\ NextBlock(d).capacity = d.capacity /\ NextBlock(d).keccak = d.keccak
    <3> DEFINE k == keccakf(d)
    <3>1. IsContext(k) /\ k.capacity = d.capacity /\ k.keccak = d.keccak
      BY <2>2 DEF IsContext, Fields, keccakf
    <3> HIDE DEF k
    <3>2. NextBlock(d) = [k EXCEPT !.wordIndex = 0]
      BY DEF NextBlock, k
    <3> QED BY <3>1, <3>2 DEF IsContext, Fields
  <2>4. Absorb(ctx, w) = d \/ Absorb(ctx, w) = NextBlock(d)
    BY DEF Absorb, d
  <2> QED BY <2>2, <2>3, <2>4
<1>2. CASE StoreByte
  BY <1>0, <1>2 DEF StoreByte, IsContext, Fields
<1>3. CASE CompleteWord
  <2> DEFINE a == Absorb(ctx, ctx.saved)
  <2>1. IsContext(a) /\ a.capacity = ctx.capacity /\ a.keccak = ctx.keccak
    BY <1>1
  <2>2. ctx' = [a EXCEPT !.byteIndex = 0, !.saved = NoWord] /\ fed' = fed /\ hash' = hash
    BY <1>3 DEF CompleteWord
  <2> HIDE DEF a
  <2> QED BY <2>1, <2>2 DEF IsContext, Fields
<1>4. CASE TakeWord
  BY <1>1, <1>4 DEF TakeWord
<1>5. CASE WordsEnd \/ UpdateReturns
  BY <1>5 DEF WordsEnd, UpdateReturns
<1> QED BY <1>2, <1>3, <1>4, <1>5 DEF SpongeStep

\* The digest of the call is that of what the step feeds.
LEMMA DigestOfStep ==
  ASSUME FedInv, ChainInv, Hashed
  PROVE  step \in HashSteps /\ hash'.digest = Link(step) /\ hash'.on = FALSE
<1>1. step \in HashSteps /\ hash.on /\ phase = "idle" /\ Finalize(Copies(hash.out, hash.bits))
  BY DEF Hashed, Hashing, HashReturns, Finalize
<1>2. /\ fed = Input(step) /\ ctx.capacity = 8 /\ ctx.keccak = TRUE /\ hash.bits = 4 /\ hash.out = 4 * Word
      /\ step # "idle"
  BY <1>1 DEF ChainInv, HashingInv, HashSteps
<1>3. keccakf(Padded(ctx)).past = Reference(4, TRUE, Input(step))
  <2>1. ctx.capacity > 0 /\ 8 \div 2 = 4
    BY <1>2
  <2>2. DigestIsReference
    BY DigestFollows
  <2> QED BY <1>1, <1>2, <2>1, <2>2 DEF DigestIsReference
<1>4. Copies(hash.out, hash.bits) = 4 * Word
  BY <1>2, ConstantFacts DEF Copies
<1>5. hash'.digest = <<"digest", keccakf(Padded(ctx)).past, 4 * Word>> /\ hash'.on = FALSE
  BY <1>1, <1>4 DEF Finalize
<1>6. hash'.digest = Keccak(Input(step))
  BY <1>3, <1>5 DEF Keccak
<1> QED BY <1>1, <1>5, <1>6, LinkOfInput DEF ChainInv

LEMMA StartChain == Init => ChainInv
BY DEF Init, SpongeInit, SigningInit, NoHash, ChainInv, HashingInv, LinksInv, LastLink, AfterPacking, HashSteps

\* Steps of the sponge leave the call where it is.
LEMMA ChainRests ==
  ASSUME ChainInv, UNCHANGED signVars, HashingInv'
  PROVE  ChainInv'
<1>1. step' = step /\ hashes' = hashes /\ signed' = signed /\ packed' = packed /\ request' = request
  BY DEF signVars
<1>2. \A h : Link(h)' = Link(h)
  BY <1>1 DEF Link
<1>3. LinksInv'
  BY <1>1, <1>2 DEF ChainInv, LinksInv
<1>4. LastLink'
  BY <1>1, <1>2 DEF ChainInv, LastLink
<1> QED BY <1>3, <1>4 DEF ChainInv

LEMMA MadeAfter ==
  ASSUME step \in HashSteps
  PROVE  StepAfter(step) \in AfterPacking \ {"signed"} /\ Made(StepAfter(step)) = Made(step) \cup {step}
<1>1. CASE step \in {"connection", "name", "version"}
  BY <1>1 DEF StepAfter, Made, AfterPacking, HashSteps
<1>2. CASE step \in {"domain", "source"}
  BY <1>2 DEF StepAfter, Made, AfterPacking, HashSteps
<1>3. CASE step \in {"agent", "message"}
  BY <1>3 DEF StepAfter, Made, AfterPacking, HashSteps
<1> QED BY <1>1, <1>2, <1>3 DEF HashSteps

LEMMA HashedChain ==
  ASSUME FedInv, ChainInv, Hashed
  PROVE  ChainInv'
<1>1. step \in HashSteps /\ hash'.digest = Link(step) /\ hash'.on = FALSE
  BY DigestOfStep
<1>2. /\ hashes' = [h \in DOMAIN hashes \cup {step} |-> IF h = step THEN hash'.digest ELSE hashes[h]]
      /\ step' = StepAfter(step) /\ packed' = packed /\ request' = request
  BY DEF Hashed, Goto
<1>3. \A h : Link(h)' = Link(h)
  BY <1>2 DEF Link
<1>4. step \in AfterPacking
  BY <1>1 DEF AfterPacking
<1>5. step' \in AfterPacking \ {"signed"} /\ Made(step)' = Made(step) \cup {step}
  <2>1. Made(step)' = Made(StepAfter(step))
    BY <1>2 DEF Made
  <2> QED BY <1>1, <1>2, <2>1, MadeAfter
<1>6. LinksInv'
  <2>1. \A h \in Made(step) \cup {step} : h \in DOMAIN hashes' /\ hashes'[h] = Link(h)
    BY <1>1, <1>2, <1>4 DEF ChainInv, LinksInv
  <2> QED BY <1>3, <1>5, <2>1 DEF LinksInv
<1>7. HashingInv' /\ LastLink'
  BY <1>1, <1>5 DEF HashingInv, LastLink
<1> QED BY <1>6, <1>7 DEF ChainInv

\* A step that goes on from a digest, or from the key, to the next one.
LEMMA OnwardChain ==
  ASSUME ChainInv, step \in {"key", "sign", "try"}, step' \in {"sign", "try", "signed"},
         UNCHANGED <<hash, hashes, packed, request>>,
         step' = "signed" => signed'.hash = hashes["message"]
  PROVE  ChainInv'
<1>1. \A h : Link(h)' = Link(h)
  BY DEF Link
<1>2. \A h \in HashSteps : h \in DOMAIN hashes /\ hashes[h] = Link(h)
  <2>1. Made(step) = HashSteps
    BY DEF Made, HashSteps
  <2> QED BY <2>1 DEF ChainInv, LinksInv, AfterPacking
<1>3. Made(step)' = HashSteps
  BY DEF Made, HashSteps
<1>4. LinksInv'
  BY <1>1, <1>2, <1>3 DEF LinksInv
<1>5. LastLink'
  BY <1>1, <1>2 DEF LastLink, HashSteps
<1>6. hash'.on = FALSE \/ ~hash'.on
  BY DEF ChainInv, HashingInv, HashSteps
<1>7. HashingInv'
  BY <1>6 DEF HashingInv
<1> QED BY <1>4, <1>5, <1>7 DEF ChainInv

\* A step to where no digest is expected.
LEMMA OtherChain ==
  ASSUME step' \notin AfterPacking \ {"connection"}, ~hash'.on
  PROVE  ChainInv'
<1>1. step' # "signed"
  BY DEF AfterPacking
<1>2. LinksInv'
  <2>1. CASE step' = "connection"
    <3>1. Made(step)' = {}
      BY <2>1 DEF Made
    <3> QED BY <3>1 DEF LinksInv
  <2>2. CASE step' # "connection"
    BY <2>2 DEF LinksInv
  <2> QED BY <2>1, <2>2
<1> QED BY <1>1, <1>2 DEF ChainInv, HashingInv, LastLink

LEMMA EveryStepChain == IInv /\ FedInv /\ ChainInv /\ [Next]_vars => ChainInv'
<1> SUFFICES ASSUME IInv, FedInv, ChainInv, [Next]_vars PROVE ChainInv'
  OBVIOUS
<1>1. CASE UNCHANGED vars
  <2>1. UNCHANGED signVars /\ hash' = hash /\ fed' = fed /\ ctx' = ctx
    BY <1>1 DEF vars, spongeVars
  <2>2. HashingInv'
    BY <2>1 DEF ChainInv, HashingInv, Input, signVars
  <2> QED BY <2>1, <2>2, ChainRests
<1>2. CASE Hashes
  <2>1. UNCHANGED signVars /\ step = "idle"
    BY <1>2 DEF Hashes
  <2>2. HashingInv'
    BY <2>1 DEF HashingInv, signVars
  <2> QED BY <2>1, <2>2, ChainRests
<1>3. CASE SpongeRuns
  <2>1. UNCHANGED signVars /\ SpongeStep /\ ~HashReturns /\ SpongeInv
    BY <1>3 DEF SpongeRuns, HashReturns, Finalize, FedInv
  <2>2. ctx'.capacity = ctx.capacity /\ ctx'.keccak = ctx.keccak /\ fed' = fed /\ hash' = hash
    BY <2>1, SizeKept
  <2>3. Input(step)' = Input(step) /\ step' = step
    BY <2>1 DEF signVars, Input
  <2>4. HashingInv'
    BY <2>2, <2>3 DEF ChainInv, HashingInv
  <2> QED BY <2>1, <2>4, ChainRests
<1>4. CASE keccak256
  <2>1. UNCHANGED signVars /\ sha3_HashBuffer(4, 1, Input(step), 4 * Word) /\ step \in HashSteps
    BY <1>4 DEF keccak256, Hashing
  <2>2. fed' = Input(step) /\ ctx' = Context(4, TRUE) /\ hash'.bits = 4 /\ hash'.out = 4 * Word
    BY <2>1 DEF sha3_HashBuffer, Feed
  <2>3. ctx'.capacity = 8 /\ ctx'.keccak = TRUE
    BY <2>2 DEF Context
  <2>4. Input(step)' = Input(step) /\ step' = step
    BY <2>1 DEF signVars, Input
  <2>5. HashingInv'
    BY <2>1, <2>2, <2>3, <2>4 DEF HashingInv
  <2> QED BY <2>1, <2>5, ChainRests
<1>5. CASE Hashed
  BY <1>5, HashedChain
<1>6. CASE \E r \in Requests : Sign(r)
  <2>1. step' = "pack" /\ hash' = NoHash
    BY <1>6 DEF Sign, Goto
  <2> QED BY <2>1, OtherChain DEF AfterPacking, HashSteps, NoHash
<1>7. CASE Write \/ WriteFails
  <2>1. step' = "pack" /\ step = "pack" /\ hash' = hash
    BY <1>7 DEF Write, WriteFails, spongeVars
  <2>2. ~hash.on
    BY <2>1 DEF ChainInv, HashingInv, HashSteps
  <2> QED BY <2>1, <2>2, OtherChain DEF AfterPacking, HashSteps
<1>8. CASE Assemble
  <2>1. step' = "connection" /\ step = "pack" /\ hash' = hash
    BY <1>8 DEF Assemble, spongeVars, Goto
  <2>2. ~hash.on
    BY <2>1 DEF ChainInv, HashingInv, HashSteps
  <2> QED BY <2>1, <2>2, OtherChain
<1>9. CASE AllocFails \/ BadVault \/ BadKey \/ ContextFails \/ CurveFails \/ NoneMatches
  <2>1. step' = "failed" /\ step \in {"pack", "key", "sign", "try"} /\ hash' = hash
    BY <1>9 DEF AllocFails, BadVault, BadKey, ContextFails, CurveFails, NoneMatches, Fails, Goto, spongeVars
  <2>2. ~hash.on
    BY <2>1 DEF ChainInv, HashingInv, HashSteps
  <2> QED BY <2>1, <2>2, OtherChain DEF AfterPacking, HashSteps
<1>10. CASE MakeContext
  <2>1. step = "key" /\ step' = "sign" /\ UNCHANGED <<hash, hashes, packed, request>>
    BY <1>10 DEF MakeContext, Goto, spongeVars
  <2> QED BY <2>1, OnwardChain
<1>11. CASE CurveSigns
  <2>1. step = "sign" /\ step' = "try" /\ UNCHANGED <<hash, hashes, packed, request>>
    BY <1>11 DEF CurveSigns, Goto, spongeVars
  <2> QED BY <2>1, OnwardChain
<1>13. CASE TryFails \/ TryDiffers
  <2>1. step = "try" /\ step' = "try" /\ UNCHANGED <<hash, hashes, packed, request>>
    BY <1>13 DEF TryFails, TryDiffers, Trying, NextId, spongeVars
  <2> QED BY <2>1, OnwardChain
<1>14. CASE TryMatches
  <2>1. /\ step = "try" /\ step' = "signed" /\ UNCHANGED <<hash, hashes, packed, request>>
        /\ signed'.hash = hashes["message"]
    BY <1>14 DEF TryMatches, Trying, Found, Goto, spongeVars
  <2> QED BY <2>1, OnwardChain
<1>12. CASE Return
  <2>1. step' = "idle" /\ hash' = NoHash
    BY <1>12 DEF Return, Goto
  <2> QED BY <2>1, OtherChain DEF AfterPacking, HashSteps, NoHash
<1> QED BY <1>1, <1>2, <1>3, <1>4, <1>5, <1>6, <1>7, <1>8, <1>9, <1>10, <1>11, <1>12, <1>13, <1>14
   DEF Next, SignStep

-----------------------------------------------------------------------------
(* What the packer writes for an action. *)

LEMMA JoinLeft ==
  ASSUME NEW s, NEW t, IsSeq(s), IsSeq(t), NEW i \in 1 .. Len(s)
  PROVE  (s \o t)[i] = s[i]
<1> DEFINE S == Elements(s) \cup Elements(t)
<1>1. s \in Seq(S) /\ t \in Seq(S)
  BY DEF IsSeq
<1> HIDE DEF S
<1> QED BY <1>1, ConcatProperties

LEMMA JoinRight ==
  ASSUME NEW s, NEW t, IsSeq(s), IsSeq(t), NEW k \in 1 .. Len(s \o t), k \notin 1 .. Len(s)
  PROVE  (s \o t)[k] = t[k - Len(s)]
<1> DEFINE S == Elements(s) \cup Elements(t)
<1>1. s \in Seq(S) /\ t \in Seq(S)
  BY DEF IsSeq
<1> HIDE DEF S
<1> QED BY <1>1, ConcatProperties

LEMMA SameSeq ==
  ASSUME NEW s, NEW t, IsSeq(s), IsSeq(t), Len(s) = Len(t), \A i \in 1 .. Len(s) : s[i] = t[i]
  PROVE  s = t
<1> DEFINE S == Elements(s) \cup Elements(t)
<1>1. s \in Seq(S) /\ t \in Seq(S)
  BY DEF IsSeq
<1> HIDE DEF S
<1> QED BY <1>1, SeqEqual

LEMMA ThreeIs ==
  ASSUME NEW a, NEW b, NEW c
  PROVE  /\ IsSeq(<<a, b, c>>) /\ Len(<<a, b, c>>) = 3
         /\ <<a, b, c>>[1] = a /\ <<a, b, c>>[2] = b /\ <<a, b, c>>[3] = c
BY Lists

\* s is made of three parts.
Consists(s, a, b, c) ==
  /\ Len(a) \in Nat /\ Len(b) \in Nat /\ Len(c) \in Nat
  /\ Len(s) = Len(a) + Len(b) + Len(c)
  /\ \A i \in 1 .. Len(a) : s[i] = a[i]
  /\ \A i \in 1 .. Len(b) : s[Len(a) + i] = b[i]
  /\ \A i \in 1 .. Len(c) : s[(Len(a) + Len(b)) + i] = c[i]

LEMMA Thirds ==
  ASSUME NEW a, NEW b, NEW c, IsSeq(a), IsSeq(b), IsSeq(c)
  PROVE  Consists((a \o b) \o c, a, b, c)
<1> DEFINE h == a \o b
           s == h \o c
<1>1. IsSeq(h) /\ Len(h) = Len(a) + Len(b) /\ Len(a) \in Nat /\ Len(b) \in Nat
  BY JoinIsSeq
<1>2. \A i \in 1 .. Len(a) : h[i] = a[i]
  BY JoinLeft
<1>3. ASSUME NEW i \in 1 .. Len(b) PROVE h[Len(a) + i] = b[i]
  <2> DEFINE k == Len(a) + i
  <2>1. k \in 1 .. Len(h) /\ k \notin 1 .. Len(a) /\ k - Len(a) = i
    BY <1>1
  <2> HIDE DEF k
  <2>2. h[k] = b[k - Len(a)]
    BY <2>1, JoinRight
  <2> QED BY <2>1, <2>2 DEF k
<1> HIDE DEF h
<1>4. IsSeq(s) /\ Len(s) = Len(h) + Len(c) /\ Len(c) \in Nat
  BY <1>1, JoinIsSeq
<1>5. \A i \in 1 .. Len(h) : s[i] = h[i]
  BY <1>1, JoinLeft
<1>6. ASSUME NEW i \in 1 .. Len(c) PROVE s[Len(h) + i] = c[i]
  <2> DEFINE k == Len(h) + i
  <2>1. k \in 1 .. Len(s) /\ k \notin 1 .. Len(h) /\ k - Len(h) = i
    BY <1>1, <1>4
  <2> HIDE DEF k
  <2>2. s[k] = c[k - Len(h)]
    BY <1>1, <2>1, JoinRight
  <2> QED BY <2>1, <2>2 DEF k
<1> HIDE DEF s
<1>7. \A i \in 1 .. Len(a) : s[i] = a[i]
  BY <1>1, <1>2, <1>5
<1>8. \A i \in 1 .. Len(b) : s[Len(a) + i] = b[i]
  BY <1>1, <1>3, <1>5
<1>9. Len(s) = Len(a) + Len(b) + Len(c)
  BY <1>1, <1>4
<1>10. \A i \in 1 .. Len(c) : s[(Len(a) + Len(b)) + i] = c[i]
  BY <1>1, <1>6
<1>11. Consists(s, a, b, c)
  BY <1>1, <1>4, <1>7, <1>8, <1>9, <1>10 DEF Consists
<1> QED BY <1>11 DEF s, h

LEMMA RowIsSeq ==
  ASSUME NEW items, NEW n \in Nat \ {0}, Len(items) \in Nat
  PROVE  IsSeq(Row(items, n)) /\ Len(Row(items, n)) = n * Len(items)
<1> DEFINE R == Row(items, n)
           len == Len(items)
<1>1. n * len \in Nat
  BY Products
<1>2. R = [k \in 1 .. n * len |-> items[((k - 1) \div n) + 1][((k - 1) % n) + 1]]
  BY DEF Row
<1> HIDE DEF len
<1>3. R = [k \in 1 .. n * len |-> R[k]]
  BY <1>2
<1> HIDE DEF R
<1>4. IsSeq(R) /\ Len(R) = n * len
  BY <1>1, <1>3, ListIsSeq
<1> QED BY <1>4 DEF R, len

\* The token j of item i, and where each place of a row comes from.
LEMMA RowAt ==
  ASSUME NEW items, Len(items) \in Nat, NEW m \in Nat \ {0}, NEW i \in 1 .. Len(items), NEW j \in 1 .. m
  PROVE  m * (i - 1) + j \in 1 .. m * Len(items) /\ Row(items, m)[m * (i - 1) + j] = items[i][j]
<1> DEFINE n == Len(items)
           q == i - 1
           d == j - 1
           at == m * q + j
<1>1. n \in Nat /\ q \in Nat /\ d \in Nat /\ d < m /\ q + 1 <= n /\ i = q + 1 /\ j = d + 1
  OBVIOUS
<1>r. Row(items, m) = [k \in 1 .. m * n |-> items[((k - 1) \div m) + 1][((k - 1) % m) + 1]]
  BY DEF Row
<1> HIDE DEF n, q, d
<1>2. q * m \in Nat /\ n * m \in Nat /\ (q + 1) * m = q * m + m /\ (q + 1) * m <= n * m
      /\ m * q = q * m /\ m * n = n * m
  BY <1>1, Products
<1>3. at - 1 = q * m + d /\ at \in 1 .. m * n
  <2>1. at = q * m + d + 1
    BY <1>1, <1>2
  <2> HIDE DEF at
  <2> DEFINE qm == q * m
             nm == n * m
  <2>2. qm \in Nat /\ nm \in Nat /\ qm + m <= nm /\ m * n = nm /\ at = qm + d + 1 /\ d \in Nat /\ d < m /\ m \in Nat
    BY <1>1, <1>2, <2>1
  <2> HIDE DEF qm, nm
  <2>3. at - 1 = qm + d /\ at \in 1 .. nm
    BY ONLY <2>2
  <2> QED BY <2>2, <2>3 DEF qm
<1>4. (at - 1) \div m = q /\ (at - 1) % m = d
  BY <1>1, <1>3, Quotient, SmallRest
<1> HIDE DEF at
<1>5. Row(items, m)[at] = items[q + 1][d + 1]
  BY <1>r, <1>3, <1>4
<1> QED BY <1>1, <1>3, <1>5 DEF at, n, q

LEMMA RowFrom ==
  ASSUME NEW n \in Nat, NEW m \in Nat \ {0}, NEW k \in 1 .. m * n
  PROVE  \E i \in 1 .. n, j \in 1 .. m : k = m * (i - 1) + j
<1> DEFINE q == (k - 1) \div m
           d == (k - 1) % m
<1>0. m * n \in Nat
  BY Products
<1>1. k - 1 \in Nat /\ k \in Nat /\ k <= m * n
  BY <1>0
<1>2. q \in Nat /\ d \in 0 .. m - 1 /\ k - 1 = q * m + d
  BY <1>1, Division
<1> HIDE DEF q, d
<1>3. q < n
  <2> SUFFICES ASSUME n <= q PROVE FALSE
    BY <1>2
  <2>1. n * m <= q * m /\ n * m = m * n /\ q * m \in Nat
    BY <1>2, Products
  <2> DEFINE qm == q * m
             mn == m * n
  <2>2. mn <= qm /\ k - 1 = qm + d /\ k <= mn /\ qm \in Nat /\ mn \in Nat /\ d \in Nat /\ k \in Nat
    BY <1>0, <1>1, <1>2, <2>1
  <2> HIDE DEF qm, mn
  <2> QED BY ONLY <2>2
<1>4. q + 1 \in 1 .. n /\ d + 1 \in 1 .. m /\ (q + 1) - 1 = q
  BY <1>2, <1>3
<1>5. k = m * ((q + 1) - 1) + (d + 1)
  <2>1. m * q = q * m /\ q * m \in Nat
    BY <1>2, Products
  <2> DEFINE qm == q * m
  <2>2. k - 1 = qm + d /\ m * ((q + 1) - 1) = qm /\ k \in Nat /\ qm \in Nat /\ d \in Nat
    BY <1>1, <1>2, <1>4, <2>1
  <2> HIDE DEF qm
  <2>3. k = qm + (d + 1)
    BY ONLY <2>2
  <2> QED BY <2>2, <2>3
<1> QED BY <1>4, <1>5

\* A head of eight tokens, then items of m tokens each, then a tail.
Made8(all, head, items, m, last) ==
  /\ IsSeq(all) /\ Len(all) = 8 + m * Len(items) + Len(last)
  /\ \A k \in 1 .. 8 : all[k] = head[k]
  /\ \A i \in 1 .. Len(items), j \in 1 .. m : all[8 + (m * (i - 1) + j)] = items[i][j]
  /\ \A k \in 1 .. Len(last) : all[(8 + m * Len(items)) + k] = last[k]

LEMMA RowBetween ==
  ASSUME NEW head, NEW items, NEW last, NEW m \in Nat \ {0},
         IsSeq(head), Len(head) = 8, Len(items) \in Nat, IsSeq(last)
  PROVE  Made8((head \o Row(items, m)) \o last, head, items, m, last)
<1> DEFINE row == Row(items, m)
           all == (head \o row) \o last
<1>1. IsSeq(row) /\ Len(row) = m * Len(items)
  BY RowIsSeq
<1>2. \A i \in 1 .. Len(items), j \in 1 .. m :
        m * (i - 1) + j \in 1 .. m * Len(items) /\ row[m * (i - 1) + j] = items[i][j]
  BY RowAt
<1> HIDE DEF row
<1>3. Consists(all, head, row, last)
  BY <1>1, Thirds
<1>4. IsSeq(all)
  BY <1>1, JoinIsSeq
<1> HIDE DEF all
<1>5. /\ Len(all) = 8 + m * Len(items) + Len(last)
      /\ \A k \in 1 .. 8 : all[k] = head[k]
      /\ \A k \in 1 .. m * Len(items) : all[8 + k] = row[k]
      /\ \A k \in 1 .. Len(last) : all[(8 + m * Len(items)) + k] = last[k]
  BY <1>1, <1>3 DEF Consists
<1>6. Made8(all, head, items, m, last)
  BY <1>2, <1>4, <1>5 DEF Made8
<1> QED BY <1>6 DEF all, row

\* Every token comes from one of the three.
LEMMA TokenFrom ==
  ASSUME NEW all, NEW head, NEW items, NEW last, NEW m \in Nat \ {0}, Len(items) \in Nat, Len(last) \in Nat,
         Made8(all, head, items, m, last), NEW k \in 1 .. Len(all)
  PROVE  \/ k \in 1 .. 8 /\ all[k] = head[k]
         \/ \E i \in 1 .. Len(items), j \in 1 .. m : all[k] = items[i][j]
         \/ \E j \in 1 .. Len(last) : all[k] = last[j]
<1> DEFINE mn == m * Len(items)
<1>0. mn \in Nat
  BY Products
<1>1. Len(all) = 8 + mn + Len(last)
  BY DEF Made8
<1> HIDE DEF mn
<1>2. CASE k \in 1 .. 8
  BY <1>2 DEF Made8
<1>3. CASE k \in 9 .. 8 + mn
  <2> DEFINE z == k - 8
  <2>1. z \in 1 .. mn /\ k = 8 + z
    BY <1>0, <1>3
  <2> HIDE DEF z
  <2>2. PICK i \in 1 .. Len(items), j \in 1 .. m : z = m * (i - 1) + j
    BY <2>1, RowFrom DEF mn
  <2>3. all[8 + (m * (i - 1) + j)] = items[i][j]
    BY DEF Made8
  <2> QED BY <2>1, <2>2, <2>3
<1>4. CASE k \in 9 + mn .. Len(all)
  <2> DEFINE z == k - (8 + mn)
  <2>1. z \in 1 .. Len(last) /\ k = (8 + mn) + z
    BY <1>0, <1>1, <1>4
  <2> HIDE DEF z
  <2>2. all[(8 + mn) + z] = last[z]
    BY <2>1 DEF Made8, mn
  <2> QED BY <2>1, <2>2
<1>5. k \in 1 .. 8 \/ k \in 9 .. 8 + mn \/ k \in 9 + mn .. Len(all)
  BY <1>0, <1>1
<1> QED BY <1>2, <1>3, <1>4, <1>5

\* What pack_order_action and pack_cancel_action write, token by token.
Grouping(g) == <<Size("grouping"), Body("grouping"), Size(g), Body(g)>>
OrderItems(x) == [i \in 1 .. Len(x.orders) |-> pack_order(x.orders[i])]
CancelItems(x) == [i \in 1 .. Len(x.cancels) |-> pack_cancel(x.cancels[i])]

LEMMA EightIs ==
  ASSUME NEW fields, NEW type, NEW list, NEW n
  PROVE  LET head == Opening(fields, type, list, n)
         IN  /\ IsSeq(head) /\ Len(head) = 8 /\ head[1] = <<"map", fields>> /\ head[8] = <<"array", n>>
             /\ \A k \in 2 .. 7 : head[k][1] \in {"str", "body"}
<1> DEFINE a == <<"map", fields>>
           b == Size("type")
           c == Body("type")
           d == Size(type)
           e == Body(type)
           f == Size(list)
           g == Body(list)
           h == <<"array", n>>
           t == <<a, b, c, d, e, f, g, h>>
<1>1. Opening(fields, type, list, n) = t
  BY DEF Opening
<1>2. b[1] = "str" /\ c[1] = "body" /\ d[1] = "str" /\ e[1] = "body" /\ f[1] = "str" /\ g[1] = "body"
  BY DEF Size, Body
<1> HIDE DEF a, b, c, d, e, f, g, h
<1>3. t \in Seq({a, b, c, d, e, f, g, h}) /\ Len(t) = 8
      /\ t[1] = a /\ t[2] = b /\ t[3] = c /\ t[4] = d /\ t[5] = e /\ t[6] = f /\ t[7] = g /\ t[8] = h
  OBVIOUS
<1> HIDE DEF t
<1>4. IsSeq(t)
  BY <1>3, SeqIsSeq
<1>5. \A k \in 2 .. 7 : k = 2 \/ k = 3 \/ k = 4 \/ k = 5 \/ k = 6 \/ k = 7
  OBVIOUS
<1>6. \A k \in 2 .. 7 : t[k][1] \in {"str", "body"}
  BY <1>2, <1>3, <1>5
<1> QED BY <1>1, <1>3, <1>4, <1>6 DEF a, h

LEMMA OrderTokens ==
  ASSUME NEW x, IsAction(x), x.type = "order"
  PROVE  /\ Len(x.orders) \in Nat /\ Len(OrderItems(x)) = Len(x.orders)
         /\ Len(Grouping(x.grouping)) = 4
         /\ Made8(Pack(x), Opening(3, "order", "orders", Len(x.orders)), OrderItems(x), 28, Grouping(x.grouping))
<1> DEFINE n == Len(x.orders)
           items == OrderItems(x)
           last == Grouping(x.grouping)
<1>1. n \in Nat
  <2>1. x.orders \in Seq({x.orders[i] : i \in DOMAIN x.orders})
    BY DEF IsAction
  <2> QED BY <2>1, LenProperties
<1>2. Len(items) = n
  <2>1. items = [i \in 1 .. n |-> items[i]]
    BY DEF OrderItems
  <2> HIDE DEF items, n
  <2> QED BY <1>1, <2>1, ListIsSeq
<1>3. IsSeq(last) /\ Len(last) = 4
  BY Lists DEF Grouping
<1>4. Pack(x) = (Opening(3, "order", "orders", n) \o Row(items, 28)) \o last
  BY DEF Pack, pack_order_action, OrderItems, Grouping
<1> HIDE DEF n, items, last
<1>5. Made8(Pack(x), Opening(3, "order", "orders", n), items, 28, last)
  BY <1>1, <1>2, <1>3, <1>4, EightIs, RowBetween
<1> QED BY <1>1, <1>2, <1>3, <1>5 DEF n, items, last

LEMMA CancelTokens ==
  ASSUME NEW x, IsAction(x), x.type = "cancel"
  PROVE  /\ Len(x.cancels) \in Nat /\ Len(CancelItems(x)) = Len(x.cancels)
         /\ Made8(Pack(x), Opening(2, "cancel", "cancels", Len(x.cancels)), CancelItems(x), 7, <<>>)
<1> DEFINE n == Len(x.cancels)
           items == CancelItems(x)
           head == Opening(2, "cancel", "cancels", n)
<1>1. n \in Nat
  <2>1. x.cancels \in Seq({x.cancels[i] : i \in DOMAIN x.cancels})
    BY DEF IsAction
  <2> QED BY <2>1, LenProperties
<1>2. Len(items) = n
  <2>1. items = [i \in 1 .. n |-> items[i]]
    BY DEF CancelItems
  <2> HIDE DEF items, n
  <2> QED BY <1>1, <2>1, ListIsSeq
<1>3. Pack(x) = head \o Row(items, 7)
  BY DEF Pack, pack_cancel_action, CancelItems
<1>4. IsSeq(head) /\ Len(head) = 8
  BY EightIs
<1> HIDE DEF n, items, head
<1>5. IsSeq(head \o Row(items, 7))
  BY <1>1, <1>2, <1>4, RowIsSeq, JoinIsSeq
<1> DEFINE none == <<>>
<1>6. Pack(x) = (head \o Row(items, 7)) \o none /\ IsSeq(none)
  BY <1>3, <1>5, ConcatEmptySeq, NothingIsSeq DEF IsSeq
<1> HIDE DEF none
<1>7. Made8(Pack(x), head, items, 7, none)
  BY <1>1, <1>2, <1>4, <1>6, RowBetween
<1> QED BY <1>1, <1>2, <1>7 DEF n, items, head, none

-----------------------------------------------------------------------------
(* What was packed of the action of the call. *)

\* pre was packed, rest is still to be packed, and the writes between found no
\* memory.
Partial(pre, rest) ==
  LET all == Pack(request.action)
  IN  /\ Len(pre) + dropped + Len(rest) = Len(all)
      /\ \A i \in 1 .. Len(rest) : rest[i] = all[(Len(all) - Len(rest)) + i]
      /\ \A i \in 1 .. Len(pre) : \E j \in 1 .. Len(all) : pre[i] = all[j]
      /\ dropped = 0 => \A i \in 1 .. Len(pre) : pre[i] = all[i]

Packed(pre) ==
  IsSeq(pre) /\ Partial(pre, <<>>) /\ packed = (pre \o BigEndian(request.nonce)) \o Marker(request)

PackInv ==
  /\ step = "idle" => dropped = 0 /\ packed = <<>>
  /\ step = "pack" => IsSeq(todo) /\ Partial(packed, todo)
  /\ step \in AfterPacking => \E pre : Packed(pre)

LEMMA PackIsSeq ==
  ASSUME NEW x, IsAction(x)
  PROVE  IsSeq(Pack(x)) /\ Len(Pack(x)) \in Nat
<1>1. IsSeq(Pack(x))
  <2>1. CASE x.type = "order"
    BY <2>1, OrderTokens DEF Made8
  <2>2. CASE x.type = "cancel"
    BY <2>2, CancelTokens DEF Made8
  <2> QED BY <2>1, <2>2 DEF IsAction
<1> QED BY <1>1, LenProperties DEF IsSeq

LEMMA RequestAction ==
  ASSUME IInv, step # "idle"
  PROVE  request \in Requests /\ IsAction(request.action) /\ request.nonce \in 0 .. Power[NonceBytes] - 1
BY RequestsAssumption DEF IInv, SignInv

LEMMA PackRests ==
  ASSUME PackInv, UNCHANGED <<request, dropped, packed, todo>>,
         step' = step \/ (step \in AfterPacking /\ step' \in AfterPacking)
  PROVE  PackInv'
<1>1. \A pre, rest : Partial(pre, rest)' <=> Partial(pre, rest)
  BY DEF Partial
<1>2. \A pre : Packed(pre)' <=> Packed(pre)
  BY <1>1 DEF Packed
<1>3. step' \in AfterPacking => step \in AfterPacking
  OBVIOUS
<1>4. step' \in {"idle", "pack"} => step' = step
  BY DEF AfterPacking, HashSteps
<1> QED BY <1>1, <1>2, <1>3, <1>4 DEF PackInv

LEMMA SignPack ==
  ASSUME PackInv, NEW r \in Requests, Sign(r)
  PROVE  PackInv'
<1> DEFINE all == Pack(r.action)
<1>1. /\ step' = "pack" /\ packed' = <<>> /\ dropped' = 0 /\ todo' = all /\ request' = r
  BY DEF Sign, Goto, PackInv
<1>2. IsSeq(all) /\ Len(all) \in Nat
  BY RequestsAssumption, PackIsSeq
<1> HIDE DEF all
<1>3. Len(packed') = 0 /\ Pack(request.action)' = all
  BY <1>1 DEF all
<1>4. Partial(packed, todo)'
  BY <1>1, <1>2, <1>3 DEF Partial
<1> QED BY <1>1, <1>2, <1>4 DEF PackInv, AfterPacking, HashSteps

LEMMA WritePack ==
  ASSUME IInv, PackInv, Write \/ WriteFails
  PROVE  PackInv'
<1> DEFINE all == Pack(request.action)
<1>1. /\ step = "pack" /\ step' = "pack" /\ todo # <<>> /\ todo' = Tail(todo) /\ request' = request
  BY DEF Write, WriteFails
<1>2. IsSeq(todo) /\ Partial(packed, todo) /\ IsSeq(packed) /\ dropped \in Nat
  BY <1>1 DEF PackInv, IInv, SignInv
<1>3. IsSeq(all) /\ Len(all) \in Nat
  BY <1>1, RequestAction, PackIsSeq
<1>4. IsSeq(Tail(todo)) /\ Len(Tail(todo)) = Len(todo) - 1 /\ Len(todo) \in Nat \ {0}
  BY <1>1, <1>2, TailIsSeq
<1>5. Head(todo) = todo[1] /\ \A i \in 1 .. Len(todo) - 1 : Tail(todo)[i] = todo[i + 1]
  BY <1>1, <1>2, HeadTailProperties, EmptySeq DEF IsSeq
<1>6. Len(packed) \in Nat
  BY <1>2, LenProperties DEF IsSeq
<1>7. /\ Len(packed) + dropped + Len(todo) = Len(all)
      /\ \A i \in 1 .. Len(todo) : todo[i] = all[(Len(all) - Len(todo)) + i]
      /\ \A i \in 1 .. Len(packed) : \E j \in 1 .. Len(all) : packed[i] = all[j]
      /\ dropped = 0 => \A i \in 1 .. Len(packed) : packed[i] = all[i]
  BY <1>2 DEF Partial
<1>8. Pack(request.action)' = all
  BY <1>1
<1> HIDE DEF all
<1>9. \A i \in 1 .. Len(Tail(todo)) : Tail(todo)[i] = all[(Len(all) - Len(Tail(todo))) + i]
  <2> TAKE i \in 1 .. Len(Tail(todo))
  <2>1. i \in 1 .. Len(todo) - 1 /\ i + 1 \in 1 .. Len(todo)
    BY <1>4
  <2>2. Tail(todo)[i] = todo[i + 1] /\ todo[i + 1] = all[(Len(all) - Len(todo)) + (i + 1)]
    BY <1>5, <1>7, <2>1
  <2>3. (Len(all) - Len(todo)) + (i + 1) = (Len(all) - Len(Tail(todo))) + i
    BY <1>3, <1>4, <2>1
  <2> QED BY <2>2, <2>3
<1>10. Partial(packed, todo)'
  <2>1. CASE Write
    <3>1. packed' = Append(packed, Head(todo)) /\ dropped' = dropped
      BY <2>1 DEF Write
    <3>2. /\ Len(packed') = Len(packed) + 1 /\ packed'[Len(packed) + 1] = Head(todo)
          /\ \A i \in 1 .. Len(packed) : packed'[i] = packed[i]
      BY <1>2, <3>1, AppendProperties DEF IsSeq
    <3>3. (Len(all) - Len(todo)) + 1 \in 1 .. Len(all) /\ Head(todo) = all[(Len(all) - Len(todo)) + 1]
      BY <1>2, <1>3, <1>4, <1>5, <1>6, <1>7
    <3>4. ASSUME NEW i \in 1 .. Len(packed')
          PROVE  (\E j \in 1 .. Len(all) : packed'[i] = all[j]) /\ (dropped = 0 => packed'[i] = all[i])
      <4>1. CASE i = Len(packed) + 1
        <5>1. dropped = 0 => (Len(all) - Len(todo)) + 1 = i
          <6>1. Len(packed) + dropped + Len(todo) = Len(all) /\ dropped \in Nat
            BY <1>2, <1>7
          <6> QED BY <1>4, <1>6, <4>1, <6>1
        <5> QED BY <3>2, <3>3, <4>1, <5>1
      <4>2. CASE i # Len(packed) + 1
        <5>1. i \in 1 .. Len(packed)
          BY <1>6, <3>2, <4>2
        <5> QED BY <1>7, <3>2, <5>1
      <4> QED BY <4>1, <4>2
    <3>5. Len(packed') + dropped + Len(Tail(todo)) = Len(all)
      BY <1>2, <1>3, <1>4, <1>6, <1>7, <3>2
    <3> QED BY <1>1, <1>8, <1>9, <3>1, <3>4, <3>5 DEF Partial
  <2>2. CASE WriteFails
    <3>1. packed' = packed /\ dropped' = dropped + 1 /\ dropped' # 0
      BY <1>2, <2>2 DEF WriteFails
    <3>2. Len(packed) + (dropped + 1) + Len(Tail(todo)) = Len(all)
      BY <1>2, <1>3, <1>4, <1>6, <1>7
    <3> QED BY <1>1, <1>7, <1>8, <1>9, <3>1, <3>2 DEF Partial
  <2> QED BY <2>1, <2>2
<1> QED BY <1>1, <1>4, <1>10 DEF PackInv, AfterPacking, HashSteps

LEMMA AssemblePack ==
  ASSUME IInv, PackInv, Assemble
  PROVE  PackInv'
<1>1. /\ step = "pack" /\ step' = "connection" /\ todo = <<>> /\ request' = request /\ dropped' = dropped
      /\ packed' = (packed \o BigEndian(request.nonce)) \o Marker(request)
  BY DEF Assemble, Goto
<1>2. IsSeq(packed) /\ Partial(packed, <<>>)
  BY <1>1 DEF PackInv, IInv, SignInv
<1>3. \A pre : Partial(pre, <<>>)' <=> Partial(pre, <<>>)
  BY <1>1 DEF Partial
<1>4. (\E pre : Packed(pre))'
  <2>1. \A pre : Packed(pre)' <=> IsSeq(pre) /\ Partial(pre, <<>>) /\ packed' = (pre \o BigEndian(request.nonce)) \o Marker(request)
    BY <1>1, <1>3 DEF Packed
  <2> QED BY <1>1, <1>2, <2>1
<1> QED BY <1>1, <1>4 DEF PackInv

LEMMA EveryStepPack == IInv /\ PackInv /\ [Next]_vars => PackInv'
<1> SUFFICES ASSUME IInv, PackInv, [Next]_vars PROVE PackInv'
  OBVIOUS
<1>1. CASE UNCHANGED signVars
  BY <1>1, PackRests DEF signVars
<1>2. CASE UNCHANGED vars \/ Hashes \/ SpongeRuns \/ keccak256
  BY <1>1, <1>2 DEF vars, Hashes, SpongeRuns, keccak256
<1>3. CASE \E r \in Requests : Sign(r)
  BY <1>3, SignPack
<1>4. CASE Write \/ WriteFails
  BY <1>4, WritePack
<1>5. CASE Assemble
  BY <1>5, AssemblePack
<1>6. CASE Hashed
  <2>1. step \in HashSteps /\ step' = StepAfter(step) /\ UNCHANGED <<request, dropped, packed, todo>>
    BY <1>6 DEF Hashed, Hashing, Goto
  <2>2. StepAfter(step) \in AfterPacking /\ step \in AfterPacking
    BY <2>1 DEF StepAfter, AfterPacking, HashSteps
  <2> QED BY <2>1, <2>2, PackRests
<1>7. CASE MakeContext \/ CurveSigns \/ TryFails \/ TryDiffers \/ TryMatches
  <2>1. step \in {"key", "sign", "try"} /\ step' \in {"sign", "try", "signed"}
        /\ UNCHANGED <<request, dropped, packed, todo>>
    BY <1>7 DEF MakeContext, CurveSigns, TryFails, TryDiffers, Trying, NextId, TryMatches, Found, Goto
  <2> QED BY <2>1, PackRests DEF AfterPacking
<1>8. CASE AllocFails \/ BadVault \/ BadKey \/ ContextFails \/ CurveFails \/ NoneMatches
  <2>1. step' = "failed"
    BY <1>8 DEF AllocFails, BadVault, BadKey, ContextFails, CurveFails, NoneMatches, Fails, Goto
  <2> QED BY <2>1 DEF PackInv, AfterPacking, HashSteps
<1>9. CASE Return
  <2>1. step' = "idle" /\ dropped' = 0 /\ packed' = <<>>
    BY <1>9 DEF Return, Goto
  <2> QED BY <2>1 DEF PackInv, AfterPacking, HashSteps
<1> QED BY <1>2, <1>3, <1>4, <1>5, <1>6, <1>7, <1>8, <1>9 DEF Next, SignStep

-----------------------------------------------------------------------------
(* The bytes of a nonce. *)

LEMMA PowerIs ==
  /\ Power[0] = 1 /\ \A k \in 0 .. NonceBytes : Power[k] \in Nat \ {0}
  /\ \A k \in 1 .. NonceBytes : Power[k] = 256 * Power[k - 1]
<1> DEFINE n == NonceBytes
           S == Nat \ {0}
           next == [p \in (1 .. n) \X S |-> 256 * p[2]]
<1>1. n \in Nat
  BY SigningAssumption
<1>2. next \in [(1 .. n) \X S -> S] /\ 1 \in S
  OBVIOUS
<1>3. \A i \in 1 .. n, s \in S : next[<<i, s>>] = 256 * s
  OBVIOUS
<1>4. PICK f \in [0 .. n -> S] : f[0] = 1 /\ \A i \in 1 .. n : f[i] = next[<<i, f[i - 1]>>]
  <2> DEFINE base == 1
  <2>1. base \in S
    OBVIOUS
  <2> HIDE DEF n, S, next, base
  <2>2. \E f : Climbs(f, n, S, base, next)
    BY <1>1, <1>2, <2>1, Recursion
  <2> QED BY <2>2 DEF base, Climbs
<1> HIDE DEF next
<1>5. ASSUME NEW i \in 1 .. n PROVE i - 1 \in 0 .. n /\ f[i] = 256 * f[i - 1]
  <2>1. i - 1 \in 0 .. n
    BY <1>1
  <2>2. f[i - 1] \in S /\ f[i] = next[<<i, f[i - 1]>>]
    BY <1>4, <2>1
  <2> HIDE DEF S
  <2> QED BY <1>3, <2>1, <2>2, Zenon
<1>6. f = [k \in 0 .. n |-> IF k = 0 THEN 1 ELSE 256 * f[k - 1]]
  <2> DEFINE g == [k \in 0 .. n |-> IF k = 0 THEN 1 ELSE 256 * f[k - 1]]
  <2>1. \A k \in 0 .. n : f[k] = g[k]
    BY <1>1, <1>4, <1>5
  <2> HIDE DEF g
  <2>2. f = g
    BY <1>4, <2>1 DEF g
  <2> QED BY <2>2 DEF g
<1>7. Power = [k \in 0 .. n |-> IF k = 0 THEN 1 ELSE 256 * Power[k - 1]]
  BY <1>6 DEF Power
<1> DEFINE T == {k \in 0 .. n : Power[k] \in S}
<1>8. 0 \in T
  BY <1>1, <1>7
<1>9. ASSUME NEW m \in 0 .. n - 1, m \in T PROVE m + 1 \in T
  <2>1. m + 1 \in 0 .. n /\ m + 1 # 0 /\ (m + 1) - 1 = m
    BY <1>1
  <2>2. Power[m + 1] = 256 * Power[m]
    BY <1>7, <2>1
  <2> QED BY <1>9, <2>1, <2>2
<1>10. 0 .. n \subseteq T
  <2> HIDE DEF T
  <2> QED BY <1>1, <1>8, <1>9, Climb
<1>11. \A k \in 1 .. n : Power[k] = 256 * Power[k - 1]
  BY <1>1, <1>7
<1>12. Power[0] = 1
  BY <1>1, <1>7
<1> QED BY <1>10, <1>11, <1>12

LEMMA QuotientOf ==
  ASSUME NEW m \in Nat, NEW p \in Nat \ {0},
         NEW d, d = 256 * p
  PROVE  m \div d = (m \div p) \div 256
<1> DEFINE a == m \div p
           x == m % p
           b == a \div 256
           y == a % 256
<1>1. a \in Nat /\ x \in 0 .. p - 1 /\ m = a * p + x
  BY Division
<1>2. b \in Nat /\ y \in 0 .. 255 /\ a = b * 256 + y
  BY <1>1
<1> HIDE DEF a, x, b, y
<1>3. a * p = b * (256 * p) + y * p /\ y * p \in Nat /\ b * (256 * p) \in Nat /\ 256 * p \in Nat
  <2>1. a * p = (b * 256) * p + y * p
    BY <1>2, Products
  <2>2. (b * 256) * p = b * (256 * p)
    BY <1>2, Products
  <2>3. y * p \in Nat /\ 256 * p \in Nat
    BY <1>2, Products
  <2>4. b * (256 * p) \in Nat
    BY <1>2, <2>3, Products
  <2> QED BY <2>1, <2>2, <2>3, <2>4
<1>4. y * p <= 255 * p
  BY <1>2, Products
<1>5. y * p + x \in Nat /\ y * p + x < 256 * p /\ m = b * (256 * p) + (y * p + x)
  BY <1>1, <1>3, <1>4
<1> DEFINE z == y * p + x
<1>6. d \in Nat /\ z \in Nat /\ z < d /\ m = b * d + z
  BY <1>3, <1>5
<1> HIDE DEF z
<1>7. m \div d = b
  BY <1>2, <1>6, Quotient
<1> QED BY <1>7 DEF b, a

LEMMA NoncesDiffer ==
  ASSUME NEW m \in 0 .. Power[NonceBytes] - 1, NEW n \in 0 .. Power[NonceBytes] - 1,
         \A i \in 1 .. NonceBytes : NonceAt(m, i) = NonceAt(n, i)
  PROVE  m = n
<1> DEFINE N == NonceBytes
           P(k) == Power[N - k]
           T == {k \in 0 .. N : m \div P(k) = n \div P(k)}
<1>1. N \in Nat /\ m \in Nat /\ n \in Nat /\ N \in 0 .. N /\ 0 \in 0 .. N /\ N - 0 = N /\ N - N = 0
  BY SigningAssumption, PowerIs
<1>2. \A k \in 0 .. N : P(k) \in Nat \ {0}
  BY <1>1, PowerIs
<1>3. 0 \in T
  <2> DEFINE p == Power[N]
  <2>1. p \in Nat \ {0} /\ m < p /\ n < p
    BY <1>1, PowerIs
  <2> HIDE DEF p
  <2>2. 0 * p + m = m /\ 0 * p + n = n
    BY <1>1, <2>1
  <2>3. m \div p = 0 /\ n \div p = 0
    BY <1>1, <2>1, <2>2, Quotient
  <2> QED BY <1>1, <2>3 DEF p
<1>4. ASSUME NEW k \in 0 .. N - 1, k \in T PROVE k + 1 \in T
  <2> DEFINE p == P(k + 1)
             a == m \div p
             b == n \div p
  <2>1. k + 1 \in 0 .. N /\ k + 1 \in 1 .. N /\ N - k \in 1 .. N /\ (N - k) - 1 = N - (k + 1)
    BY <1>1
  <2>2. p \in Nat \ {0} /\ P(k) = 256 * p
    BY <1>2, <2>1, PowerIs
  <2>3. a % 256 = b % 256
    BY <2>1 DEF NonceAt
  <2>4. m \div P(k) = n \div P(k)
    BY <1>4
  <2> HIDE DEF p, P
  <2>5. a \div 256 = b \div 256
    <3>1. m \div P(k) = (m \div p) \div 256 /\ n \div P(k) = (n \div p) \div 256
      BY <1>1, <2>2, QuotientOf
    <3> QED BY <2>2, <2>4, <3>1 DEF a, b
  <2>6. a \in Nat /\ b \in Nat
    BY <1>1, <2>2, Division
  <2> HIDE DEF a, b
  <2>7. a = b
    BY <2>3, <2>5, <2>6
  <2> QED BY <2>1, <2>7 DEF a, b, p
<1>5. N \in T
  <2> HIDE DEF T
  <2> QED BY <1>1, <1>3, <1>4, Climb
<1>6. m \div 1 = n \div 1
  BY <1>1, <1>5, PowerIs
<1> QED BY <1>1, <1>6

-----------------------------------------------------------------------------
(* No two requests are packed alike. *)

\* Where the first part holds no byte and the second is all bytes, the parts can
\* be told apart.
NoBytesIn(s) == IsSeq(s) /\ \A i \in 1 .. Len(s) : s[i][1] # "byte"
AllBytes(s) == IsSeq(s) /\ Len(s) = NonceBytes /\ \A i \in 1 .. NonceBytes : s[i][1] = "byte"

LEMMA Cut ==
  ASSUME NEW a, NEW b, NEW c, NEW d, NEW e, NEW f,
         NoBytesIn(a), NoBytesIn(d), AllBytes(b), AllBytes(e), IsSeq(c), IsSeq(f),
         (a \o b) \o c = (d \o e) \o f
  PROVE  a = d /\ b = e /\ c = f
<1> DEFINE n == NonceBytes
<1>0. /\ n \in Nat \ {0} /\ IsSeq(a) /\ IsSeq(b) /\ IsSeq(d) /\ IsSeq(e) /\ Len(b) = n /\ Len(e) = n
      /\ \A i \in 1 .. Len(a) : a[i][1] # "byte"
      /\ \A i \in 1 .. Len(d) : d[i][1] # "byte"
      /\ \A i \in 1 .. n : b[i][1] = "byte" /\ e[i][1] = "byte"
  BY SigningAssumption DEF NoBytesIn, AllBytes
<1> DEFINE s == (a \o b) \o c
           t == (d \o e) \o f
<1> HIDE DEF n
<1>1. /\ Len(a) \in Nat /\ Len(c) \in Nat /\ Len(s) = Len(a) + n + Len(c)
      /\ \A i \in 1 .. Len(a) : s[i] = a[i]
      /\ \A i \in 1 .. n : s[Len(a) + i] = b[i]
      /\ \A i \in 1 .. Len(c) : s[(Len(a) + n) + i] = c[i]
  <2>1. Consists(s, a, b, c)
    BY <1>0, Thirds
  <2> HIDE DEF s
  <2> QED BY <1>0, <2>1 DEF Consists
<1>2. /\ Len(d) \in Nat /\ Len(f) \in Nat /\ Len(t) = Len(d) + n + Len(f)
      /\ \A i \in 1 .. Len(d) : t[i] = d[i]
      /\ \A i \in 1 .. n : t[Len(d) + i] = e[i]
      /\ \A i \in 1 .. Len(f) : t[(Len(d) + n) + i] = f[i]
  <2>1. Consists(t, d, e, f)
    BY <1>0, Thirds
  <2> HIDE DEF t
  <2> QED BY <1>0, <2>1 DEF Consists
<1>3. s = t
  OBVIOUS
<1> HIDE DEF s, t
<1>4. ~(Len(a) < Len(d))
  <2> SUFFICES ASSUME Len(a) < Len(d) PROVE FALSE
    OBVIOUS
  <2>1. s[Len(a) + 1] = b[1] /\ 1 \in 1 .. n
    BY <1>0, <1>1
  <2>2. Len(a) + 1 \in 1 .. Len(d)
    BY <1>0, <1>1, <1>2
  <2> DEFINE k == Len(a) + 1
  <2>3. k \in 1 .. Len(d) /\ s[k] = b[1] /\ b[1][1] = "byte"
    BY <1>0, <2>1, <2>2
  <2> HIDE DEF k
  <2>4. t[k] = d[k] /\ d[k][1] # "byte"
    BY <1>0, <1>2, <2>3
  <2> QED BY <1>3, <2>3, <2>4
<1>5. ~(Len(d) < Len(a))
  <2> SUFFICES ASSUME Len(d) < Len(a) PROVE FALSE
    OBVIOUS
  <2>1. t[Len(d) + 1] = e[1] /\ 1 \in 1 .. n
    BY <1>0, <1>2
  <2>2. Len(d) + 1 \in 1 .. Len(a)
    BY <1>0, <1>1, <1>2
  <2> DEFINE k == Len(d) + 1
  <2>3. k \in 1 .. Len(a) /\ t[k] = e[1] /\ e[1][1] = "byte"
    BY <1>0, <2>1, <2>2
  <2> HIDE DEF k
  <2>4. s[k] = a[k] /\ a[k][1] # "byte"
    BY <1>0, <1>1, <2>3
  <2> QED BY <1>3, <2>3, <2>4
<1>6. Len(a) = Len(d) /\ Len(c) = Len(f)
  BY <1>0, <1>1, <1>2, <1>3, <1>4, <1>5
<1>7. a = d
  BY <1>0, <1>1, <1>2, <1>3, <1>6, SameSeq
<1>8. b = e
  <2>1. ASSUME NEW i \in 1 .. n PROVE b[i] = e[i]
    <3>1. b[i] = s[Len(a) + i] /\ e[i] = t[Len(d) + i]
      BY <1>0, <1>1, <1>2
    <3> QED BY <1>0, <1>3, <1>6, <3>1
  <2> QED BY <1>0, <2>1, SameSeq
<1>9. c = f
  <2>1. \A i \in 1 .. Len(c) : c[i] = f[i]
    BY <1>0, <1>1, <1>2, <1>3, <1>6
  <2> QED BY <1>0, <1>6, <2>1, SameSeq
<1> QED BY <1>7, <1>8, <1>9

\* What the tokens of an order and of a cancel are.
LEMMA ItemTags ==
  /\ \A o : \A j \in 1 .. 28 : /\ pack_order(o)[j][1] \in {"map", "str", "body", "uint", "bool"}
                               /\ pack_order(o)[j] # <<"map", 2>>
  /\ \A c : \A j \in 1 .. 7 : /\ pack_cancel(c)[j][1] \in {"map", "str", "body", "uint", "bool"}
                              /\ pack_cancel(c)[j] # <<"map", 3>>
<1>1. ASSUME NEW o, NEW j \in 1 .. 28
      PROVE  /\ pack_order(o)[j][1] \in {"map", "str", "body", "uint", "bool"}
             /\ pack_order(o)[j] # <<"map", 2>>
  <2> DEFINE t == pack_order(o)
             Fine == t[j][1] \in {"map", "str", "body", "uint", "bool"} /\ t[j] # <<"map", 2>>
  <2> SUFFICES Fine
    OBVIOUS
  <2>1. t[1] = <<"map", 6>> /\ t[21] = <<"map", 1>> /\ t[24] = <<"map", 1>>
    BY DEF pack_order
  <2>2. /\ t[2][1] = "str" /\ t[5][1] = "str" /\ t[8][1] = "str" /\ t[10][1] = "str" /\ t[12][1] = "str" /\ t[14][1] = "str"
        /\ t[16][1] = "str" /\ t[19][1] = "str" /\ t[22][1] = "str" /\ t[25][1] = "str" /\ t[27][1] = "str"
    BY DEF pack_order, Size
  <2>3. /\ t[3][1] = "body" /\ t[6][1] = "body" /\ t[9][1] = "body" /\ t[11][1] = "body" /\ t[13][1] = "body" /\ t[15][1] = "body"
        /\ t[17][1] = "body" /\ t[20][1] = "body" /\ t[23][1] = "body" /\ t[26][1] = "body" /\ t[28][1] = "body"
    BY DEF pack_order, Body
  <2>4. t[4][1] = "uint" /\ t[7][1] = "bool" /\ t[18][1] = "bool"
    BY DEF pack_order
  <2> HIDE DEF t
  <2>5. CASE j \in {1, 21, 24}
    BY <2>1, <2>5
  <2>6. CASE j \in {2, 5, 8, 10, 12, 14, 16, 19, 22, 25, 27}
    <3>1. t[j][1] = "str"
      BY <2>2, <2>6
    <3> QED BY <3>1
  <2>7. CASE j \in {3, 6, 9, 11, 13, 15, 17, 20, 23, 26, 28}
    <3>1. t[j][1] = "body"
      BY <2>3, <2>7
    <3> QED BY <3>1
  <2>8. CASE j \in {4, 7, 18}
    <3>1. t[j][1] \in {"uint", "bool"}
      BY <2>4, <2>8
    <3> QED BY <3>1
  <2>9. j \in {1, 21, 24} \cup {2, 5, 8, 10, 12, 14, 16, 19, 22, 25, 27}
              \cup {3, 6, 9, 11, 13, 15, 17, 20, 23, 26, 28} \cup {4, 7, 18}
    OBVIOUS
  <2> HIDE DEF Fine
  <2> QED BY <2>5, <2>6, <2>7, <2>8, <2>9
<1>2. ASSUME NEW c, NEW j \in 1 .. 7
      PROVE  /\ pack_cancel(c)[j][1] \in {"map", "str", "body", "uint", "bool"}
             /\ pack_cancel(c)[j] # <<"map", 3>>
  BY DEF pack_cancel, Size, Body
<1> QED BY <1>1, <1>2

\* What tells the tokens of an action from one another.
LEMMA Tags ==
  ASSUME NEW x, IsAction(x), NEW j \in 1 .. Len(Pack(x))
  PROVE  LET token == Pack(x)[j]
         IN  /\ token[1] # "byte" /\ (token[1] = "array" => j = 8)
             /\ token # <<"map", IF x.type = "order" THEN 2 ELSE 3>>
<1> DEFINE all == Pack(x)
           token == all[j]
<1>1. CASE x.type = "order"
  <2> DEFINE head == Opening(3, "order", "orders", Len(x.orders))
             items == OrderItems(x)
             last == Grouping(x.grouping)
  <2>1. /\ Len(items) \in Nat /\ Len(last) = 4 /\ Made8(all, head, items, 28, last)
        /\ j \in 1 .. Len(all)
    BY <1>1, OrderTokens
  <2>2. /\ head[1] = <<"map", 3>> /\ head[8] = <<"array", Len(x.orders)>>
        /\ \A k \in 2 .. 7 : head[k][1] \in {"str", "body"}
    BY EightIs
  <2>3. \A i \in 1 .. Len(items) : items[i] = pack_order(x.orders[i])
    BY OrderTokens, <1>1 DEF OrderItems
  <2>4. \A k \in 1 .. 4 : last[k][1] \in {"str", "body"}
    BY DEF Grouping, Size, Body
  <2> HIDE DEF head, items, last, all
  <2>5. \/ j \in 1 .. 8 /\ token = head[j]
        \/ \E i \in 1 .. Len(items), k \in 1 .. 28 : token = items[i][k]
        \/ \E k \in 1 .. Len(last) : token = last[k]
    <3> DEFINE m == 28
    <3>1. m \in Nat \ {0} /\ Len(last) \in Nat /\ Len(items) \in Nat
      BY <2>1
    <3>2. Made8(all, head, items, m, last) /\ j \in 1 .. Len(all)
      BY <2>1
    <3> HIDE DEF m
    <3>3. \/ j \in 1 .. 8 /\ all[j] = head[j]
          \/ \E i \in 1 .. Len(items), k \in 1 .. m : all[j] = items[i][k]
          \/ \E k \in 1 .. Len(last) : all[j] = last[k]
      BY <3>1, <3>2, TokenFrom
    <3> QED BY <3>3 DEF m
  <2> HIDE DEF token
  <2>6. CASE j \in 1 .. 8 /\ token = head[j]
    <3>1. j = 1 \/ j = 8 \/ j \in 2 .. 7
      BY <2>6
    <3>2. token[1] # "byte" /\ (token[1] = "array" => j = 8) /\ token # <<"map", 2>>
      BY <2>2, <2>6, <3>1
    <3> QED BY <1>1, <3>2 DEF token, all
  <2>7. CASE \E i \in 1 .. Len(items), k \in 1 .. 28 : token = items[i][k]
    <3>1. token[1] \in {"map", "str", "body", "uint", "bool"} /\ token # <<"map", 2>>
      BY <2>3, <2>7, ItemTags
    <3> QED BY <1>1, <3>1 DEF token, all
  <2>8. CASE \E k \in 1 .. Len(last) : token = last[k]
    <3>1. token[1] \in {"str", "body"}
      BY <2>1, <2>4, <2>8
    <3> QED BY <1>1, <3>1 DEF token, all
  <2> QED BY <2>5, <2>6, <2>7, <2>8
<1>2. CASE x.type = "cancel"
  <2> DEFINE head == Opening(2, "cancel", "cancels", Len(x.cancels))
             items == CancelItems(x)
             last == <<>>
  <2>1. /\ Len(items) \in Nat /\ Len(last) = 0 /\ Made8(all, head, items, 7, last)
    BY <1>2, CancelTokens
  <2>2. /\ head[1] = <<"map", 2>> /\ head[8] = <<"array", Len(x.cancels)>>
        /\ \A k \in 2 .. 7 : head[k][1] \in {"str", "body"}
    BY EightIs
  <2>3. \A i \in 1 .. Len(items) : items[i] = pack_cancel(x.cancels[i])
    BY CancelTokens, <1>2 DEF CancelItems
  <2> HIDE DEF head, items, last, all
  <2>5. \/ j \in 1 .. 8 /\ token = head[j]
        \/ \E i \in 1 .. Len(items), k \in 1 .. 7 : token = items[i][k]
    <3> DEFINE m == 7
    <3>1. m \in Nat \ {0} /\ Len(last) \in Nat /\ Len(items) \in Nat
      BY <2>1
    <3>2. Made8(all, head, items, m, last) /\ j \in 1 .. Len(all)
      BY <2>1 DEF all
    <3> HIDE DEF m
    <3>3. \/ j \in 1 .. 8 /\ all[j] = head[j]
          \/ \E i \in 1 .. Len(items), k \in 1 .. m : all[j] = items[i][k]
          \/ \E k \in 1 .. Len(last) : all[j] = last[k]
      BY <3>1, <3>2, TokenFrom
    <3>4. ~\E k \in 1 .. Len(last) : all[j] = last[k]
      BY <2>1
    <3> QED BY <3>3, <3>4 DEF m
  <2> HIDE DEF token
  <2>6. CASE j \in 1 .. 8 /\ token = head[j]
    <3>1. j = 1 \/ j = 8 \/ j \in 2 .. 7
      BY <2>6
    <3>2. token[1] # "byte" /\ (token[1] = "array" => j = 8) /\ token # <<"map", 3>>
      BY <2>2, <2>6, <3>1
    <3> QED BY <1>2, <3>2 DEF token, all
  <2>7. CASE \E i \in 1 .. Len(items), k \in 1 .. 7 : token = items[i][k]
    <3>1. token[1] \in {"map", "str", "body", "uint", "bool"} /\ token # <<"map", 3>>
      BY <2>3, <2>7, ItemTags
    <3> QED BY <1>2, <3>1 DEF token, all
  <2> QED BY <2>5, <2>6, <2>7
<1> QED BY <1>1, <1>2 DEF IsAction

\* How long an action is, and what its first and its eighth token are.
LEMMA Frame ==
  ASSUME NEW x, IsAction(x)
  PROVE  /\ x.type \in {"order", "cancel"} /\ Len(Pack(x)) \in Nat /\ Len(Pack(x)) >= 8
         /\ Pack(x)[1] = <<"map", IF x.type = "order" THEN 3 ELSE 2>>
         /\ x.type = "order" =>
              /\ Len(x.orders) \in Nat /\ Len(Pack(x)) = 28 * Len(x.orders) + 12
              /\ Pack(x)[8] = <<"array", Len(x.orders)>>
         /\ x.type = "cancel" =>
              /\ Len(x.cancels) \in Nat /\ Len(Pack(x)) = 7 * Len(x.cancels) + 8
              /\ Pack(x)[8] = <<"array", Len(x.cancels)>>
<1> DEFINE all == Pack(x)
<1>1. CASE x.type = "order"
  <2>1. /\ Len(x.orders) \in Nat
        /\ Len(all) = 8 + 28 * Len(x.orders) + 4
        /\ \A k \in 1 .. 8 : all[k] = Opening(3, "order", "orders", Len(x.orders))[k]
    BY <1>1, OrderTokens DEF Made8
  <2> HIDE DEF all
  <2>2. Len(all) = 28 * Len(x.orders) + 12 /\ Len(all) \in Nat /\ Len(all) >= 8
    BY <2>1
  <2>3. all[1] = <<"map", 3>> /\ all[8] = <<"array", Len(x.orders)>>
    BY <2>1, EightIs
  <2> QED BY <1>1, <2>1, <2>2, <2>3 DEF all
<1>2. CASE x.type = "cancel"
  <2>1. /\ Len(x.cancels) \in Nat
        /\ Len(all) = 8 + 7 * Len(x.cancels) + Len(<<>>)
        /\ \A k \in 1 .. 8 : all[k] = Opening(2, "cancel", "cancels", Len(x.cancels))[k]
    BY <1>2, CancelTokens DEF Made8
  <2> HIDE DEF all
  <2>2. Len(all) = 7 * Len(x.cancels) + 8 /\ Len(all) \in Nat /\ Len(all) >= 8
    BY <2>1
  <2>3. all[1] = <<"map", 2>> /\ all[8] = <<"array", Len(x.cancels)>>
    BY <2>1, EightIs
  <2> QED BY <1>2, <2>1, <2>2, <2>3 DEF all
<1> QED BY <1>1, <1>2 DEF IsAction

\* Every token of x is one of y.
Within(s, t) == \A i \in 1 .. Len(s) : \E j \in 1 .. Len(t) : s[i] = t[j]

LEMMA SameLength ==
  ASSUME NEW x, NEW y, IsAction(x), IsAction(y), Within(Pack(x), Pack(y))
  PROVE  Len(Pack(x)) = Len(Pack(y)) /\ x.type = y.type
<1> DEFINE s == Pack(x)
           t == Pack(y)
<1>1. x.type = y.type
  <2>1. s[1] = <<"map", IF x.type = "order" THEN 3 ELSE 2>> /\ 1 \in 1 .. Len(s)
        /\ x.type \in {"order", "cancel"} /\ y.type \in {"order", "cancel"}
    BY Frame
  <2>2. PICK j \in 1 .. Len(t) : s[1] = t[j]
    BY <2>1 DEF Within
  <2>3. t[j] # <<"map", IF y.type = "order" THEN 2 ELSE 3>>
    BY Tags
  <2> HIDE DEF s, t
  <2> QED BY <2>1, <2>2, <2>3
<1>2. s[8] = t[8]
  <2>1. s[8][1] = "array" /\ 8 \in 1 .. Len(s)
    BY Frame
  <2>2. PICK j \in 1 .. Len(t) : s[8] = t[j]
    BY <2>1 DEF Within
  <2>3. t[j][1] = "array" => j = 8
    BY Tags
  <2> HIDE DEF s, t
  <2> QED BY <2>1, <2>2, <2>3
<1>3. CASE x.type = "order"
  <2>1. /\ Len(s) = 28 * Len(x.orders) + 12 /\ s[8] = <<"array", Len(x.orders)>>
        /\ Len(t) = 28 * Len(y.orders) + 12 /\ t[8] = <<"array", Len(y.orders)>>
    BY <1>1, <1>3, Frame
  <2> HIDE DEF s, t
  <2>2. <<"array", Len(x.orders)>> = <<"array", Len(y.orders)>>
    BY <1>2, <2>1
  <2>3. Len(x.orders) = Len(y.orders)
    BY <2>2
  <2>4. Len(s) = Len(t)
    BY <2>1, <2>3
  <2> QED BY <1>1, <2>4 DEF s, t
<1>4. CASE x.type = "cancel"
  <2>1. /\ Len(s) = 7 * Len(x.cancels) + 8 /\ s[8] = <<"array", Len(x.cancels)>>
        /\ Len(t) = 7 * Len(y.cancels) + 8 /\ t[8] = <<"array", Len(y.cancels)>>
    BY <1>1, <1>4, Frame
  <2> HIDE DEF s, t
  <2>2. <<"array", Len(x.cancels)>> = <<"array", Len(y.cancels)>>
    BY <1>2, <2>1
  <2>3. Len(x.cancels) = Len(y.cancels)
    BY <2>2
  <2>4. Len(s) = Len(t)
    BY <2>1, <2>3
  <2> QED BY <1>1, <2>4 DEF s, t
<1> QED BY <1>3, <1>4 DEF IsAction

\* The fields of an order and of a cancel, where they are packed.
LEMMA FieldsOf ==
  /\ \A o : LET t == pack_order(o)
            IN  /\ t[4] = <<"uint", o.a>> /\ t[7] = <<"bool", o.b>> /\ t[11] = <<"body", o.p>>
                /\ t[15] = <<"body", o.s>> /\ t[18] = <<"bool", o.r>> /\ t[28] = <<"body", o.tif>>
  /\ \A c : pack_cancel(c)[4] = <<"uint", c.a>> /\ pack_cancel(c)[7] = <<"uint", c.o>>
BY DEF pack_order, pack_cancel, Body

LEMMA PackInjective ==
  ASSUME NEW x, NEW y, IsAction(x), IsAction(y), Pack(x) = Pack(y)
  PROVE  x = y
<1>0. Within(Pack(x), Pack(y))
  <2>1. \A i \in 1 .. Len(Pack(x)) : Pack(x)[i] = Pack(y)[i] /\ i \in 1 .. Len(Pack(y))
    OBVIOUS
  <2> QED BY <2>1 DEF Within
<1>1. x.type = y.type
  BY <1>0, SameLength
<1>2. CASE x.type = "order"
  <2> DEFINE n == Len(x.orders)
             all == Pack(x)
  <2>0. y.type = "order" /\ Pack(y) = all
    BY <1>1, <1>2
  <2>3. Len(y.orders) = n /\ n \in Nat
    <3>1. all[8] = <<"array", n>> /\ n \in Nat
      BY <1>2, Frame
    <3>2. Pack(y)[8] = <<"array", Len(y.orders)>>
      BY <2>0, Frame
    <3>3. <<"array", n>> = <<"array", Len(y.orders)>>
      BY <2>0, <3>1, <3>2
    <3> QED BY <3>1, <3>3
  <2>1. /\ \A i \in 1 .. n, j \in 1 .. 28 : all[8 + (28 * (i - 1) + j)] = pack_order(x.orders[i])[j]
        /\ all[(8 + 28 * n) + 4] = Grouping(x.grouping)[4]
    <3>1. Len(OrderItems(x)) = n /\ Len(Grouping(x.grouping)) = 4
          /\ Made8(all, Opening(3, "order", "orders", n), OrderItems(x), 28, Grouping(x.grouping))
      BY <1>2, OrderTokens
    <3>2. \A i \in 1 .. n : OrderItems(x)[i] = pack_order(x.orders[i])
      BY DEF OrderItems
    <3> HIDE DEF n, all
    <3>3. \A i \in 1 .. n, j \in 1 .. 28 : all[8 + (28 * (i - 1) + j)] = OrderItems(x)[i][j]
      BY <3>1 DEF Made8
    <3>4. \A k \in 1 .. 4 : all[(8 + 28 * n) + k] = Grouping(x.grouping)[k]
      BY <3>1 DEF Made8
    <3> QED BY <3>2, <3>3, <3>4
  <2>2. /\ \A i \in 1 .. n, j \in 1 .. 28 : all[8 + (28 * (i - 1) + j)] = pack_order(y.orders[i])[j]
        /\ all[(8 + 28 * n) + 4] = Grouping(y.grouping)[4]
    <3>1. Len(OrderItems(y)) = n /\ Len(Grouping(y.grouping)) = 4
          /\ Made8(all, Opening(3, "order", "orders", n), OrderItems(y), 28, Grouping(y.grouping))
      BY <2>0, <2>3, OrderTokens
    <3>2. \A i \in 1 .. n : OrderItems(y)[i] = pack_order(y.orders[i])
      BY <2>3 DEF OrderItems
    <3> HIDE DEF n, all
    <3>3. \A i \in 1 .. n, j \in 1 .. 28 : all[8 + (28 * (i - 1) + j)] = OrderItems(y)[i][j]
      BY <3>1 DEF Made8
    <3>4. \A k \in 1 .. 4 : all[(8 + 28 * n) + k] = Grouping(y.grouping)[k]
      BY <3>1 DEF Made8
    <3> QED BY <3>2, <3>3, <3>4
  <2> HIDE DEF n, all
  <2>4. x.grouping = y.grouping
    <3>1. Grouping(x.grouping)[4] = <<"body", x.grouping>> /\ Grouping(y.grouping)[4] = <<"body", y.grouping>>
      BY DEF Grouping, Body
    <3>2. <<"body", x.grouping>> = <<"body", y.grouping>>
      BY <2>1, <2>2, <3>1
    <3> QED BY <3>2
  <2>5. /\ IsSeq(x.orders) /\ IsSeq(y.orders) /\ (\A i \in 1 .. n : IsOrder(x.orders[i]) /\ IsOrder(y.orders[i]))
        /\ x = [type |-> "order", orders |-> x.orders, grouping |-> x.grouping]
        /\ y = [type |-> "order", orders |-> y.orders, grouping |-> y.grouping]
    <3>1. /\ IsSeq(x.orders) /\ IsSeq(y.orders) /\ x = [type |-> "order", orders |-> x.orders, grouping |-> x.grouping]
          /\ y = [type |-> "order", orders |-> y.orders, grouping |-> y.grouping]
          /\ (\A i \in DOMAIN x.orders : IsOrder(x.orders[i])) /\ \A i \in DOMAIN y.orders : IsOrder(y.orders[i])
      BY <1>1, <1>2 DEF IsAction, IsSeq, Elements
    <3>2. DOMAIN x.orders = 1 .. n /\ DOMAIN y.orders = 1 .. n
      BY <2>3, <3>1, LenProperties DEF n, IsSeq
    <3> QED BY <3>1, <3>2
  <2>6. ASSUME NEW i \in 1 .. n PROVE x.orders[i] = y.orders[i]
    <3> DEFINE o == x.orders[i]
               p == y.orders[i]
    <3>1. ASSUME NEW j \in 1 .. 28 PROVE pack_order(o)[j] = pack_order(p)[j]
      <4> HIDE DEF o, p
      <4>1. all[8 + (28 * (i - 1) + j)] = pack_order(o)[j]
        BY <2>1 DEF o
      <4>2. all[8 + (28 * (i - 1) + j)] = pack_order(p)[j]
        BY <2>2 DEF p
      <4> QED BY <4>1, <4>2
    <3>2. IsOrder(o) /\ IsOrder(p)
      BY <2>5
    <3> HIDE DEF o, p
    <3>3. o.a = p.a /\ o.b = p.b /\ o.p = p.p /\ o.s = p.s /\ o.r = p.r /\ o.tif = p.tif
      <4>1. /\ pack_order(o)[4] = pack_order(p)[4] /\ pack_order(o)[7] = pack_order(p)[7]
            /\ pack_order(o)[11] = pack_order(p)[11] /\ pack_order(o)[15] = pack_order(p)[15]
            /\ pack_order(o)[18] = pack_order(p)[18] /\ pack_order(o)[28] = pack_order(p)[28]
        BY <3>1
      <4>2. /\ <<"uint", o.a>> = <<"uint", p.a>> /\ <<"bool", o.b>> = <<"bool", p.b>>
            /\ <<"body", o.p>> = <<"body", p.p>> /\ <<"body", o.s>> = <<"body", p.s>>
            /\ <<"bool", o.r>> = <<"bool", p.r>> /\ <<"body", o.tif>> = <<"body", p.tif>>
        BY <4>1, FieldsOf
      <4> QED BY <4>2
    <3>4. o = p
      BY <3>2, <3>3 DEF IsOrder
    <3> QED BY <3>4 DEF o, p
  <2>7. x.orders = y.orders
    BY <2>3, <2>5, <2>6, SameSeq DEF n
  <2> QED BY <2>4, <2>5, <2>7
<1>3. CASE x.type = "cancel"
  <2> DEFINE n == Len(x.cancels)
             all == Pack(x)
  <2>0. y.type = "cancel" /\ Pack(y) = all
    BY <1>1, <1>3
  <2>3. Len(y.cancels) = n /\ n \in Nat
    <3>1. all[8] = <<"array", n>> /\ n \in Nat
      BY <1>3, Frame
    <3>2. Pack(y)[8] = <<"array", Len(y.cancels)>>
      BY <2>0, Frame
    <3>3. <<"array", n>> = <<"array", Len(y.cancels)>>
      BY <2>0, <3>1, <3>2
    <3> QED BY <3>1, <3>3
  <2>1. \A i \in 1 .. n, j \in 1 .. 7 : all[8 + (7 * (i - 1) + j)] = pack_cancel(x.cancels[i])[j]
    <3>1. Len(CancelItems(x)) = n /\ Made8(all, Opening(2, "cancel", "cancels", n), CancelItems(x), 7, <<>>)
      BY <1>3, CancelTokens
    <3>2. \A i \in 1 .. n : CancelItems(x)[i] = pack_cancel(x.cancels[i])
      BY DEF CancelItems
    <3> HIDE DEF n, all
    <3> QED BY <3>1, <3>2 DEF Made8
  <2>2. \A i \in 1 .. n, j \in 1 .. 7 : all[8 + (7 * (i - 1) + j)] = pack_cancel(y.cancels[i])[j]
    <3>1. Len(CancelItems(y)) = n /\ Made8(all, Opening(2, "cancel", "cancels", n), CancelItems(y), 7, <<>>)
      BY <2>0, <2>3, CancelTokens
    <3>2. \A i \in 1 .. n : CancelItems(y)[i] = pack_cancel(y.cancels[i])
      BY <2>3 DEF CancelItems
    <3> HIDE DEF n, all
    <3> QED BY <3>1, <3>2 DEF Made8
  <2> HIDE DEF n, all
  <2>5. /\ IsSeq(x.cancels) /\ IsSeq(y.cancels)
        /\ (\A i \in 1 .. n : IsCancel(x.cancels[i]) /\ IsCancel(y.cancels[i]))
        /\ x = [type |-> "cancel", cancels |-> x.cancels] /\ y = [type |-> "cancel", cancels |-> y.cancels]
    <3>1. /\ IsSeq(x.cancels) /\ IsSeq(y.cancels)
          /\ x = [type |-> "cancel", cancels |-> x.cancels] /\ y = [type |-> "cancel", cancels |-> y.cancels]
          /\ (\A i \in DOMAIN x.cancels : IsCancel(x.cancels[i])) /\ \A i \in DOMAIN y.cancels : IsCancel(y.cancels[i])
      BY <1>1, <1>3 DEF IsAction, IsSeq, Elements
    <3>2. DOMAIN x.cancels = 1 .. n /\ DOMAIN y.cancels = 1 .. n
      BY <2>3, <3>1, LenProperties DEF n, IsSeq
    <3> QED BY <3>1, <3>2
  <2>6. ASSUME NEW i \in 1 .. n PROVE x.cancels[i] = y.cancels[i]
    <3> DEFINE o == x.cancels[i]
               p == y.cancels[i]
    <3>1. ASSUME NEW j \in 1 .. 7 PROVE pack_cancel(o)[j] = pack_cancel(p)[j]
      <4> HIDE DEF o, p
      <4>1. all[8 + (7 * (i - 1) + j)] = pack_cancel(o)[j]
        BY <2>1 DEF o
      <4>2. all[8 + (7 * (i - 1) + j)] = pack_cancel(p)[j]
        BY <2>2 DEF p
      <4> QED BY <4>1, <4>2
    <3>2. IsCancel(o) /\ IsCancel(p)
      BY <2>5
    <3> HIDE DEF o, p
    <3>3. o.a = p.a /\ o.o = p.o
      <4>1. pack_cancel(o)[4] = pack_cancel(p)[4] /\ pack_cancel(o)[7] = pack_cancel(p)[7]
        BY <3>1
      <4>2. <<"uint", o.a>> = <<"uint", p.a>> /\ <<"uint", o.o>> = <<"uint", p.o>>
        BY <4>1, FieldsOf
      <4> QED BY <4>2
    <3>4. o = p
      BY <3>2, <3>3 DEF IsCancel
    <3> QED BY <3>4 DEF o, p
  <2>7. x.cancels = y.cancels
    BY <2>3, <2>5, <2>6, SameSeq DEF n
  <2> QED BY <2>5, <2>7
<1> QED BY <1>2, <1>3 DEF IsAction

LEMMA ParsedIsSeq ==
  ASSUME NEW r \in Requests, HasVault(r)
  PROVE  IsSeq(parse_eth_address(r.vault))
<1> DEFINE b == parse_eth_address(r.vault)
<1>1. CASE b = NoBytes
  BY <1>1, Lists DEF NoBytes
<1>2. CASE b # NoBytes
  <2>1. r.vault \in Seq(Characters)
    BY SigningAssumption DEF HasVault
  <2>2. b = hex_to_bytes(r.vault, AddressBytes)
    BY <1>2 DEF parse_eth_address, Exactly
  <2> QED BY <1>2, <2>1, <2>2, Parsing, Unprefixing, BytesOfIsSeq
<1> QED BY <1>1, <1>2

\* The marker of a vault is 1 and its bytes, or the byte 0.
LEMMA MarkerIs ==
  ASSUME NEW r \in Requests
  PROVE  /\ IsSeq(Marker(r)) /\ Marker(r)[1] = <<"byte", IF HasVault(r) THEN 1 ELSE 0>>
         /\ HasVault(r) => LET b == parse_eth_address(r.vault)
                           IN  Len(Marker(r)) = 1 + Len(b) /\ \A i \in 1 .. Len(b) : Marker(r)[1 + i] = <<"byte", b[i]>>
<1>1. \A x : IsSeq(<<<<"byte", x>>>>) /\ Len(<<<<"byte", x>>>>) = 1 /\ <<<<"byte", x>>>>[1] = <<"byte", x>>
  BY Lists
<1>2. CASE HasVault(r)
  <2> DEFINE b == parse_eth_address(r.vault)
             s == Bytes(b)
             one == <<<<"byte", 1>>>>
  <2>1. IsSeq(b)
    BY <1>2, ParsedIsSeq
  <2>2. Marker(r) = one \o s
    BY <1>2 DEF Marker
  <2>3. IsSeq(one) /\ Len(one) = 1 /\ one[1] = <<"byte", 1>>
    BY <1>1
  <2> HIDE DEF b, one
  <2>4. Len(b) \in Nat /\ DOMAIN b = 1 .. Len(b)
    BY <2>1, LenProperties DEF IsSeq
  <2>5. s = [i \in 1 .. Len(b) |-> <<"byte", b[i]>>]
    BY <2>4 DEF Bytes
  <2>6. IsSeq(s) /\ Len(s) = Len(b)
    <3>1. s = [i \in 1 .. Len(b) |-> s[i]]
      BY <2>5
    <3> HIDE DEF s
    <3> QED BY <2>4, <3>1, ListIsSeq
  <2> HIDE DEF s
  <2>7. IsSeq(one \o s) /\ Len(one \o s) = 1 + Len(b)
    BY <2>3, <2>6, JoinIsSeq
  <2>8. (one \o s)[1] = <<"byte", 1>>
    <3>1. 1 \in 1 .. Len(one)
      BY <2>3
    <3> QED BY <2>3, <2>6, <3>1, JoinLeft
  <2>9. ASSUME NEW i \in 1 .. Len(b) PROVE (one \o s)[1 + i] = <<"byte", b[i]>>
    <3> DEFINE k == 1 + i
    <3>1. k \in 1 .. Len(one \o s) /\ k \notin 1 .. Len(one) /\ k - Len(one) = i
      BY <2>3, <2>4, <2>7
    <3> HIDE DEF k
    <3>2. (one \o s)[k] = s[k - Len(one)]
      BY <2>3, <2>6, <3>1, JoinRight
    <3> QED BY <2>5, <3>1, <3>2 DEF k
  <2>10. /\ IsSeq(Marker(r)) /\ Marker(r)[1] = <<"byte", 1>> /\ Len(Marker(r)) = 1 + Len(b)
         /\ \A i \in 1 .. Len(b) : Marker(r)[1 + i] = <<"byte", b[i]>>
    BY <2>2, <2>7, <2>8, <2>9
  <2> QED BY <1>2, <2>10 DEF b
<1>3. CASE ~HasVault(r)
  <2>1. Marker(r) = <<<<"byte", 0>>>>
    BY <1>3 DEF Marker
  <2> QED BY <1>1, <1>3, <2>1
<1> QED BY <1>2, <1>3

LEMMA VaultsDiffer ==
  ASSUME NEW r \in Requests, NEW q \in Requests, Marker(r) = Marker(q)
  PROVE  VaultOf(r) = VaultOf(q)
<1> DEFINE m == Marker(r)
           b == parse_eth_address(r.vault)
           c == parse_eth_address(q.vault)
<1>1. /\ m[1] = <<"byte", IF HasVault(r) THEN 1 ELSE 0>>
      /\ HasVault(r) => Len(m) = 1 + Len(b) /\ \A i \in 1 .. Len(b) : m[1 + i] = <<"byte", b[i]>>
  BY MarkerIs
<1>2. /\ m[1] = <<"byte", IF HasVault(q) THEN 1 ELSE 0>>
      /\ HasVault(q) => Len(m) = 1 + Len(c) /\ \A i \in 1 .. Len(c) : m[1 + i] = <<"byte", c[i]>>
  <2>1. m = Marker(q)
    OBVIOUS
  <2> HIDE DEF m
  <2> QED BY <2>1, MarkerIs
<1> HIDE DEF m
<1>3. HasVault(r) <=> HasVault(q)
  <2>1. m[1][2] = (IF HasVault(r) THEN 1 ELSE 0) /\ m[1][2] = (IF HasVault(q) THEN 1 ELSE 0)
    BY <1>1, <1>2
  <2> QED BY <2>1
<1>4. CASE HasVault(r)
  <2>1. IsSeq(b) /\ IsSeq(c)
    BY <1>3, <1>4, ParsedIsSeq
  <2> HIDE DEF b, c
  <2>2. Len(b) \in Nat /\ Len(c) \in Nat
    BY <2>1, LenProperties DEF IsSeq
  <2>3. Len(b) = Len(c)
    BY <1>1, <1>2, <1>3, <1>4, <2>2
  <2>4. ASSUME NEW i \in 1 .. Len(b) PROVE b[i] = c[i]
    <3>1. <<"byte", b[i]>> = <<"byte", c[i]>>
      BY <1>1, <1>2, <1>3, <1>4, <2>3
    <3> QED BY <3>1
  <2>5. b = c
    BY <2>1, <2>3, <2>4, SameSeq
  <2> QED BY <1>3, <1>4, <2>5 DEF VaultOf, b, c
<1>5. CASE ~HasVault(r)
  BY <1>3, <1>5 DEF VaultOf
<1> QED BY <1>4, <1>5

LEMMA PackedFollows ==
  ASSUME IInv, PackInv
  PROVE  PackedAsAsked
<1> SUFFICES ASSUME step = "signed" PROVE PackedAsAsked!2
  BY DEF PackedAsAsked
<1> DEFINE all == Pack(request.action)
<1>1. /\ request \in Requests /\ IsAction(request.action)
      /\ request.nonce \in 0 .. Power[NonceBytes] - 1
  BY RequestAction
<1>2. PICK pre : Packed(pre)
  BY DEF PackInv, AfterPacking
<1>3. /\ IsSeq(pre) /\ packed = (pre \o BigEndian(request.nonce)) \o Marker(request)
      /\ Len(pre) + dropped = Len(all) /\ dropped \in Nat
      /\ \A i \in 1 .. Len(pre) : \E j \in 1 .. Len(all) : pre[i] = all[j]
      /\ dropped = 0 => \A i \in 1 .. Len(pre) : pre[i] = all[i]
  <2>1. Len(pre) \in Nat /\ dropped \in Nat
    BY <1>2, LenProperties DEF Packed, IsSeq, IInv, SignInv
  <2> QED BY <1>2, <2>1 DEF Packed, Partial
<1>4. IsSeq(all) /\ Len(all) \in Nat /\ Len(pre) \in Nat
  BY <1>1, <1>3, PackIsSeq, LenProperties DEF IsSeq
<1>5. dropped = 0 => pre = all
  <2> SUFFICES ASSUME dropped = 0 PROVE pre = all
    OBVIOUS
  <2> HIDE DEF all
  <2>1. Len(pre) = Len(all)
    BY <1>3, <1>4
  <2> QED BY <1>3, <1>4, <2>1, SameSeq
<1>6. dropped = 0 => packed = Asked(request)
  BY <1>3, <1>5 DEF Asked
<1>7. ASSUME NEW r \in Requests, packed = Asked(r)
      PROVE  r.action = request.action /\ r.nonce = request.nonce /\ VaultOf(r) = VaultOf(request)
  <2> DEFINE a == Pack(r.action)
             m == BigEndian(r.nonce)
             n == BigEndian(request.nonce)
  <2>0. IsAction(r.action) /\ r.nonce \in 0 .. Power[NonceBytes] - 1 /\ NonceBytes \in Nat \ {0}
    BY RequestsAssumption, SigningAssumption
  <2>1. IsSeq(a) /\ \A i \in 1 .. Len(a) : a[i][1] # "byte"
    BY <2>0, PackIsSeq, Tags
  <2>2. \A i \in 1 .. Len(pre) : pre[i][1] # "byte"
    <3>1. \A i \in 1 .. Len(all) : all[i][1] # "byte"
      BY <1>1, Tags
    <3> HIDE DEF all
    <3> QED BY <1>3, <3>1
  <2>3. /\ m = [i \in 1 .. NonceBytes |-> <<"byte", NonceAt(r.nonce, i)>>]
        /\ n = [i \in 1 .. NonceBytes |-> <<"byte", NonceAt(request.nonce, i)>>]
    BY DEF BigEndian
  <2> HIDE DEF m, n
  <2>4. IsSeq(m) /\ Len(m) = NonceBytes /\ IsSeq(n) /\ Len(n) = NonceBytes
    <3>1. m = [i \in 1 .. NonceBytes |-> m[i]] /\ n = [i \in 1 .. NonceBytes |-> n[i]]
      BY <2>3
    <3> QED BY <2>0, <3>1, ListIsSeq
  <2>5. IsSeq(Marker(r)) /\ IsSeq(Marker(request))
    BY <1>1, MarkerIs
  <2>6. \A i \in 1 .. NonceBytes : m[i][1] = "byte" /\ n[i][1] = "byte"
    BY <2>3
  <2>7. (a \o m) \o Marker(r) = (pre \o n) \o Marker(request)
    BY <1>3, <1>7 DEF Asked, m, n
  <2> HIDE DEF a
  <2>8. a = pre /\ m = n /\ Marker(r) = Marker(request)
    <3>1. NoBytesIn(pre) /\ NoBytesIn(a) /\ AllBytes(m) /\ AllBytes(n)
      BY <1>3, <2>1, <2>2, <2>4, <2>6 DEF NoBytesIn, AllBytes
    <3> QED BY <2>5, <2>7, <3>1, Cut
  <2>9. r.nonce = request.nonce
    <3>1. ASSUME NEW i \in 1 .. NonceBytes PROVE NonceAt(r.nonce, i) = NonceAt(request.nonce, i)
      <4>1. <<"byte", NonceAt(r.nonce, i)>> = <<"byte", NonceAt(request.nonce, i)>>
        BY <2>3, <2>8
      <4> QED BY <4>1
    <3> QED BY <1>1, <2>0, <3>1, NoncesDiffer
  <2>10. r.action = request.action
    <3>1. Within(a, all)
      BY <1>3, <2>8 DEF Within
    <3>2. Len(a) = Len(all)
      BY <1>1, <2>0, <3>1, SameLength DEF a
    <3>3. dropped = 0
      BY <1>3, <1>4, <2>8, <3>2
    <3>4. a = all
      BY <1>5, <2>8, <3>3
    <3> QED BY <1>1, <2>0, <3>4, PackInjective DEF a
  <2> QED BY <1>1, <2>8, <2>9, <2>10, VaultsDiffer
<1> QED BY <1>6, <1>7

-----------------------------------------------------------------------------
(* The theorems. *)

\* The type invariant, with the assertions of sha3_Update: however a message is
\* cut into pieces, no byte lands outside its word, no word outside the block,
\* and nothing is read past the end of a piece (keccak.c:157).
THEOREM SigningTypes == Spec => []TypeOK
<1>1. IInv => TypeOK
  BY DEF IInv, SpongeInv, SignInv, HeapInv, TrialInv, TypeOK
<1> QED BY <1>1, Invariant, PTL

\* Whichever write, allocation, text or curve operation fails, a call releases
\* all it holds before it returns, and the action with nonce and vault fits the
\* bytes allocated before the vault was parsed (serialize.c:163).
THEOREM NothingLost == Spec => []HeapRight
<1>1. IInv => HeapRight
  BY HeapFollows
<1> QED BY <1>1, Invariant, PTL

\* Who reads r, s and v as they are sent recovers the caller's key from them,
\* with the first id that leads to it, and the search is given up only if none
\* does: for bytes of any number and any outcome of the four trials, those
\* included in which the own key is not found (eip712.c:142).
THEOREM SignerFound == Spec => []Recoverable
<1>1. IInv => Recoverable
  BY RecoveryFollows
<1> QED BY <1>1, Invariant, PTL

\* A key written as the application is told to is never refused by the parser,
\* and the key that signs has its digits, for keys of any size and letters in
\* either case (client.c:51, eip712.c:49).  Of longer texts nothing is said.
THEOREM KeyKept == Spec => []KeyAsGiven
<1>1. IInv => KeyAsGiven
  BY KeyFollows
<1> QED BY <1>1, Invariant, PTL

\* However a message is cut into pieces, and whatever was hashed before, the
\* blocks that are permuted are those of the whole message with its padding, for
\* words and blocks of any size and messages of any length (keccak.c:283).
THEOREM DigestRight == Spec => []DigestIsReference
<1>1. FedInv => DigestIsReference
  BY DigestFollows
<1> QED BY <1>1, FedInvariant, PTL

\* What is signed is the hash the exchange computes, for every request, every
\* size of words, blocks and keys, and whichever writes found no memory: the
\* seven digests are taken in order, each over what the one before left
\* (eip712.c:261).
THEOREM HashRight == Spec => []HashOfPacked
<1>1. Init => ChainInv
  BY StartChain
<1>2. IInv /\ FedInv /\ ChainInv /\ [Next]_vars => ChainInv'
  BY EveryStepChain
<1>3. ChainInv => HashOfPacked
  BY DEF ChainInv, LastLink, Link, HashOfPacked
<1> QED BY <1>1, <1>2, <1>3, Invariant, FedInvariant, PTL DEF Spec

\* A signature is that of the request of its call: what was packed is the action,
\* nonce and vault of the call if no write failed, and if memory was short it is
\* that of no request there is, for orders, cancels, nonces and addresses of any
\* number and size (serialize.c:9, 163).
THEOREM RequestSigned == Spec => []SignedAsAsked
<1>1. Init => PackInv
  BY DEF Init, SigningInit, PackInv, AfterPacking, HashSteps
<1>2. IInv /\ PackInv => PackedAsAsked
  BY PackedFollows
<1> QED BY <1>1, <1>2, EveryStepPack, Invariant, HashRight, PTL DEF Spec, SignedAsAsked

=============================================================================
