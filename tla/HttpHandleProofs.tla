-------------------------- MODULE HttpHandleProofs --------------------------
(***************************************************************************)
(* The curl handle serves a request that overlaps none made without the    *)
(* mutex as if it were alone: the theorems hold for any number of threads, *)
(* of requests and of pieces of a response, whatever the threads call.     *)
(*                                                                         *)
(* The argument: two requests in progress are both exposed, as otherwise   *)
(* both threads would own the mutex.  So a request that is not exposed is  *)
(* the only one in progress; the options it has set so far, which its      *)
(* program counter tells, all name it; and a request that is begun once it *)
(* has returned takes the handle's pointer to its response away before it  *)
(* receives anything.                                                      *)
(***************************************************************************)
EXTENDS HttpHandle, TLAPS

\* The program counters from which an option has been set.
AfterPerform == {"transfer", "succeeded", "failed", "status", "clear"}
AfterList == AfterPerform \cup {"perform"}
AfterSize == AfterList \cup {"list"}
AfterBody == AfterSize \cup {"size"}
AfterSink == AfterBody \cup {"body"}
AfterVerb == AfterSink \cup {"sink"}
AfterUrl == AfterVerb \cup {"verb"}
Inside == Busy \cup {"return"}

\* A call that locks owns the mutex from its first request to its last.
OwnerInv ==
  \A t \in Threads :
    Locks(t) /\ pc[t] \in Inside \cup {"enter"} => mutex = t

\* No two threads are inside the same request.
NumberInv ==
  \A t \in Threads :
    /\ mine[t] <= requests
    /\ \A u \in Threads : pc[t] \in Inside /\ pc[u] \in Inside /\ t # u
         => mine[t] # mine[u]

\* A request that is not exposed is the only one in progress.
Sole(t) ==
  pc[t] \in Busy /\ mine[t] \notin exposed =>
    \A u \in Threads : pc[u] \in Busy => u = t

SoleInv == \A t \in Threads : Sole(t)

\* What it has set on the handle is its own.
HandleOf(t) ==
  mine[t] \notin exposed =>
    /\ pc[t] \in AfterUrl => handle["url"] = mine[t]
    /\ pc[t] \in AfterVerb => handle["verb"] = mine[t]
    /\ pc[t] \in AfterSink => handle["sink"] = mine[t]
    /\ pc[t] \in AfterBody /\ Posts(t) => handle["body"] = mine[t]
    /\ pc[t] \in AfterSize /\ Posts(t) => handle["size"] = mine[t]
    /\ pc[t] \in AfterList /\ Posts(t) => handle["list"] = mine[t]
    /\ pc[t] \in {"succeeded", "status"} => handle["status"] = mine[t]

HandleInv == \A t \in Threads : HandleOf(t)

\* Nobody receives into the response of a request that has returned unexposed.
SinkInv ==
  \A t, u \in Threads :
    pc[t] = "return" /\ mine[t] \notin exposed /\ pc[u] \in AfterSink
      => handle["sink"] # mine[t]

\* Its response holds the pieces of its answer received so far, until an error
\* empties it.
ResponseOf(t) ==
  mine[t] \notin exposed =>
    /\ pc[t] \in Busy \ AfterPerform => got[t] = 0
    /\ pc[t] \in Busy \ {"failed", "clear"} => body[mine[t]] = Pieces(t)
    /\ pc[t] = "return" =>
         \/ body[mine[t]] = <<>> /\ code[mine[t]] = 0
         \/ body[mine[t]] = Pieces(t) /\ code[mine[t]] = mine[t]

ResponseInv == \A t \in Threads : ResponseOf(t)

\* A header list is allocated from the moment the handle names it until the
\* request has been sent.
ListInv == \A t \in Threads : pc[t] = "perform" /\ Posts(t) => mine[t] \in lists

IInv ==
  /\ TypeOK /\ OwnerInv /\ NumberInv /\ SoleInv
  /\ HandleInv /\ SinkInv /\ ResponseInv /\ ListInv

-----------------------------------------------------------------------------

\* One more piece.
LEMMA OneMorePiece ==
  ASSUME NEW n \in Nat, NEW k \in Nat
  PROVE  Append([i \in 1..n |-> k], k) = [i \in 1..(n + 1) |-> k]
OBVIOUS

LEMMA TypeInit == Init => TypeOK
BY BoundAssumption DEF Init, TypeOK, Numbers, Options, Pcs, AllCalls

LEMMA InitInv == Init => IInv
BY TypeInit, BoundAssumption
DEF Init, IInv, OwnerInv, NumberInv, SoleInv, Sole, HandleInv, HandleOf,
    SinkInv, ResponseInv, ResponseOf, ListInv, Pieces, Inside, Busy, AfterUrl,
    AfterVerb, AfterSink, AfterBody, AfterSize, AfterList, AfterPerform,
    Numbers

\* Updating a function keeps its type.
LEMMA Update ==
  ASSUME NEW S, NEW R, NEW f \in [S -> R], NEW x \in S, NEW y \in R
  PROVE  [f EXCEPT ![x] = y] \in [S -> R]
OBVIOUS

LEMMA Increment ==
  ASSUME NEW S, NEW f \in [S -> Nat], NEW x \in S
  PROVE  [f EXCEPT ![x] = @ + 1] \in [S -> Nat]
<1>1. f[x] + 1 \in Nat
  OBVIOUS
<1> QED
  BY <1>1, Update, Zenon

\* Types are kept by every step.
LEMMA TypeStep == TypeOK /\ [Next]_vars => TypeOK'
<1> SUFFICES ASSUME TypeOK, [Next]_vars PROVE TypeOK'
  OBVIOUS
<1> DEFINE Others ==
      /\ mutex \in Threads \cup {None}
      /\ pc \in [Threads -> Pcs]
      /\ mine \in [Threads -> Numbers]
      /\ call \in [Threads -> AllCalls]
      /\ handle \in [Options -> Numbers]
      /\ lists \subseteq Numbers
      /\ requests \in Numbers
      /\ wire \subseteq [posts : BOOLEAN, by : Numbers, url : Numbers,
                         verb : Numbers, body : Numbers, size : Numbers,
                         list : Numbers, live : BOOLEAN]
      /\ got \in [Threads -> Nat]
      /\ code \in [Numbers -> Numbers]
      /\ exposed \subseteq Numbers
<1>0. MaxRequests \in Nat
  BY BoundAssumption
<1> USE <1>0, CallsAssumption DEF TypeOK, Numbers, Options, Pcs, Busy, Goto, Set,
    responses
<1>1. ASSUME NEW t \in Threads, Begin(t)
      PROVE  TypeOK'
  BY <1>1 DEF Begin
<1>2. ASSUME NEW t \in Threads, Lock(t)
      PROVE  TypeOK'
  BY <1>2 DEF Lock
<1>3. ASSUME NEW t \in Threads, Enter(t)
      PROVE  TypeOK'
  <2>1. <<>> \in Seq(Numbers)
    OBVIOUS
  <2>2. body' \in [Numbers -> Seq(Numbers)]
    BY <1>3, <2>1 DEF Enter
  <2>3. /\ pc' = [pc EXCEPT ![t] = "url"]
        /\ requests < MaxRequests /\ requests' = requests + 1
        /\ mine' = [mine EXCEPT ![t] = requests + 1]
        /\ got' = [got EXCEPT ![t] = 0]
        /\ code' = [code EXCEPT ![requests + 1] = 0]
        /\ UNCHANGED <<mutex, call, handle, lists, wire>>
    BY <1>3, Zenon DEF Enter
  <2>4. 0 \in Nat /\ 0 \in Numbers /\ requests + 1 \in Numbers
    BY <2>3
  <2>5. got' \in [Threads -> Nat] /\ mine' \in [Threads -> Numbers]
    BY <2>3, <2>4, Update, Zenon
  <2>6. code' \in [Numbers -> Numbers]
    BY <2>3, <2>4, Update, Zenon
  <2>7. exposed' \subseteq Numbers
    <3>1. {mine[u] : u \in Rivals(t)} \subseteq Numbers
      BY DEF Rivals
    <3>2. exposed' \subseteq exposed \cup {mine[u] : u \in Rivals(t)}
                              \cup {requests + 1}
      BY <1>3 DEF Enter
    <3> QED
      BY <2>4, <3>1, <3>2
  <2>8. Others'
    BY <2>3, <2>4, <2>5, <2>6, <2>7
  <2> QED
    BY <2>2, <2>8
<1>4. ASSUME NEW t \in Threads, Return(t)
      PROVE  TypeOK'
  <2>1. <<>> \in Seq(Numbers)
    OBVIOUS
  <2>2. body' \in [Numbers -> Seq(Numbers)]
    BY <1>4, <2>1 DEF Return
  <2>3. /\ code' = [code EXCEPT ![mine[t]] = 0]
        /\ UNCHANGED <<mine, call, handle, lists, requests, wire, got, exposed>>
    BY <1>4, Zenon DEF Return
  <2>4. pc' \in [Threads -> Pcs] /\ mutex' \in Threads \cup {None}
    BY <1>4 DEF Return
  <2>5. 0 \in Numbers
    OBVIOUS
  <2>6. code' \in [Numbers -> Numbers]
    BY <2>3, <2>5, Update, Zenon
  <2>7. Others'
    BY <2>3, <2>4, <2>6
  <2> QED
    BY <2>2, <2>7
<1>5. ASSUME NEW t \in Threads, SetUrl(t)
      PROVE  TypeOK'
  BY <1>5 DEF SetUrl
<1>18. ASSUME NEW t \in Threads, SetVerb(t)
      PROVE  TypeOK'
  BY <1>18 DEF SetVerb
<1>6. ASSUME NEW t \in Threads, SetSink(t)
      PROVE  TypeOK'
  BY <1>6 DEF SetSink
<1>7. ASSUME NEW t \in Threads, SetBody(t)
      PROVE  TypeOK'
  BY <1>7 DEF SetBody
<1>8. ASSUME NEW t \in Threads, SetSize(t)
      PROVE  TypeOK'
  BY <1>8 DEF SetSize
<1>9. ASSUME NEW t \in Threads, SetList(t)
      PROVE  TypeOK'
  BY <1>9 DEF SetList
<1>10. ASSUME NEW t \in Threads, Perform(t)
      PROVE  TypeOK'
  <2>1. /\ \A o \in Options : handle[o] \in Numbers
        /\ mine[t] \in Numbers
        /\ 0 \in Numbers
    OBVIOUS
  <2>2. Request(t) \in [posts : BOOLEAN, by : Numbers, url : Numbers,
                        verb : Numbers, body : Numbers, size : Numbers,
                        list : Numbers, live : BOOLEAN]
    BY <2>1 DEF Request, Posts
  <2>3. wire' \subseteq [posts : BOOLEAN, by : Numbers, url : Numbers,
                         verb : Numbers, body : Numbers, size : Numbers,
                         list : Numbers, live : BOOLEAN]
    BY <1>10, <2>2 DEF Perform
  <2> QED
    BY <1>10, <2>3 DEF Perform
<1>11. ASSUME NEW t \in Threads, Receive(t)
      PROVE  TypeOK'
  <2>1. body' \in [Numbers -> Seq(Numbers)]
    BY <1>11 DEF Receive
  <2>2. /\ got' = [got EXCEPT ![t] = @ + 1]
        /\ UNCHANGED <<mutex, pc, mine, call, handle, lists, requests, wire, code,
                       exposed>>
    BY <1>11, Zenon DEF Receive
  <2>3. got' \in [Threads -> Nat]
    BY <2>2, Increment, Zenon
  <2>4. Others'
    BY <2>2, <2>3
  <2> QED
    BY <2>1, <2>4
<1>12. ASSUME NEW t \in Threads, Complete(t)
      PROVE  TypeOK'
  BY <1>12 DEF Complete
<1>13. ASSUME NEW t \in Threads, Break(t)
      PROVE  TypeOK'
  BY <1>13 DEF Break
<1>14. ASSUME NEW t \in Threads, FreeList(t)
      PROVE  TypeOK'
  BY <1>14 DEF FreeList
<1>15. ASSUME NEW t \in Threads, GetStatus(t)
      PROVE  TypeOK'
  BY <1>15 DEF GetStatus
<1>16. ASSUME NEW t \in Threads, Clear(t)
      PROVE  TypeOK'
  <2>1. <<>> \in Seq(Numbers)
    OBVIOUS
  <2>2. body' \in [Numbers -> Seq(Numbers)]
    BY <1>16, <2>1 DEF Clear
  <2>3. /\ pc' = [pc EXCEPT ![t] = "return"]
        /\ code' = [code EXCEPT ![mine[t]] = 0]
        /\ UNCHANGED <<mutex, mine, call, handle, lists, requests, wire, got, exposed>>
    BY <1>16, Zenon DEF Clear
  <2>4. 0 \in Numbers /\ mine[t] \in Numbers
    OBVIOUS
  <2>5. code' \in [Numbers -> Numbers]
    BY <2>3, <2>4, Update, Zenon
  <2>6. Others'
    BY <2>3, <2>5
  <2> QED
    BY <2>2, <2>6
<1>17. CASE UNCHANGED vars
  BY <1>17 DEF vars
<1> QED
  BY <1>1, <1>2, <1>3, <1>4, <1>5, <1>6, <1>7, <1>8, <1>9, <1>10, <1>11,
     <1>12, <1>13, <1>14, <1>15, <1>16, <1>17, <1>18 DEF Next, Step


\* A call that locks keeps the mutex until it is idle.
LEMMA OwnerStep ==
  ASSUME TypeOK, OwnerInv, [Next]_vars
  PROVE  OwnerInv'
<1> USE DEF TypeOK, OwnerInv, Locks, Numbers, Pcs, Goto, Set, Inside, Busy,
            responses
<1>1. ASSUME NEW t \in Threads, Begin(t)
      PROVE  OwnerInv'
  BY <1>1 DEF Begin
<1>2. ASSUME NEW t \in Threads, Lock(t)
      PROVE  OwnerInv'
  BY <1>2, NoneAssumption DEF Lock
<1>3. ASSUME NEW t \in Threads, Enter(t)
      PROVE  OwnerInv'
  BY <1>3 DEF Enter
<1>4. ASSUME NEW t \in Threads, Return(t)
      PROVE  OwnerInv'
  <2>1. pc[t] = "return" /\ UNCHANGED call
    BY <1>4 DEF Return
  <2>2. CASE pc' = [pc EXCEPT ![t] = "enter"] /\ UNCHANGED mutex
    BY <2>1, <2>2
  <2>3. CASE /\ pc' = [pc EXCEPT ![t] = "idle"]
             /\ mutex' = IF mutex = t THEN None ELSE mutex
    <3>1. ASSUME NEW u \in Threads, (Locks(u) /\ pc[u] \in Inside \cup {"enter"})'
          PROVE  mutex' = u
      <4>1. u # t /\ pc'[u] = pc[u]
        BY <2>3, <3>1
      <4>2. mutex = u
        BY <2>1, <3>1, <4>1
      <4> QED
        BY <2>3, <4>1, <4>2
    <3> QED
      BY <3>1
  <2> QED
    BY <1>4, <2>2, <2>3 DEF Return
<1>5. ASSUME NEW t \in Threads, SetUrl(t) \/ SetVerb(t) \/ SetSink(t) \/ SetBody(t)
      PROVE  OwnerInv'
  BY <1>5 DEF SetUrl, SetVerb, SetSink, SetBody
<1>6. ASSUME NEW t \in Threads, SetSize(t) \/ SetList(t) \/ Complete(t)
      PROVE  OwnerInv'
  BY <1>6 DEF SetSize, SetList, Complete
<1>7. ASSUME NEW t \in Threads, Perform(t) \/ Receive(t) \/ Break(t)
      PROVE  OwnerInv'
  BY <1>7 DEF Perform, Receive, Break
<1>8. ASSUME NEW t \in Threads, FreeList(t) \/ GetStatus(t) \/ Clear(t)
      PROVE  OwnerInv'
  BY <1>8 DEF FreeList, GetStatus, Clear
<1>9. CASE UNCHANGED vars
  BY <1>9 DEF vars
<1> QED
  BY <1>1, <1>2, <1>3, <1>4, <1>5, <1>6, <1>7, <1>8, <1>9 DEF Next, Step

\* What the steps inside a request have in common.
Advances(t) ==
  /\ pc[t] \in Busy
  /\ pc' = pc \/ \E to \in Inside : pc' = [pc EXCEPT ![t] = to]
  /\ UNCHANGED <<mutex, mine, call, requests, exposed>>

\* The other steps, but for the beginning of a request.
Waits(t) ==
  /\ pc[t] \notin Busy
  /\ \E to \in Pcs \ Inside : pc' = [pc EXCEPT ![t] = to]
  /\ \A u \in Threads \ {t} : call'[u] = call[u]
  /\ call'[t] # call[t] => pc[t] = "idle"
  /\ UNCHANGED <<mine, handle, lists, requests, wire, got, exposed>>

LEMMA StepKinds ==
  ASSUME TypeOK, NEW t \in Threads, Step(t)
  PROVE  Enter(t) \/ Advances(t) \/ Waits(t)
<1> USE DEF TypeOK, Goto, Set, Inside, Busy, Pcs, responses
<1>1. CASE Begin(t)
  BY <1>1 DEF Begin, Waits
<1>2. CASE Lock(t)
  BY <1>2 DEF Lock, Waits
<1>3. CASE Return(t)
  BY <1>3 DEF Return, Waits
<1>4. CASE SetUrl(t) \/ SetVerb(t) \/ SetSink(t) \/ SetBody(t)
  BY <1>4 DEF SetUrl, SetVerb, SetSink, SetBody, Advances
<1>5. CASE SetSize(t) \/ SetList(t) \/ Complete(t)
  BY <1>5 DEF SetSize, SetList, Complete, Advances
<1>6. CASE Perform(t) \/ Receive(t) \/ Break(t)
  BY <1>6 DEF Perform, Receive, Break, Advances
<1>7. CASE FreeList(t) \/ GetStatus(t) \/ Clear(t)
  BY <1>7 DEF FreeList, GetStatus, Clear, Advances
<1> QED
  BY <1>1, <1>2, <1>3, <1>4, <1>5, <1>6, <1>7 DEF Step

\* Every request gets a number of its own.
LEMMA NumberStep ==
  ASSUME TypeOK, NumberInv, [Next]_vars
  PROVE  NumberInv'
<1> USE DEF NumberInv
<1>0. /\ requests \in Nat /\ \A t \in Threads : mine[t] \in Nat
      /\ pc \in [Threads -> Pcs] /\ mine \in [Threads -> Numbers]
  BY BoundAssumption DEF TypeOK, Numbers
<1>1. ASSUME NEW t \in Threads, Enter(t)
      PROVE  NumberInv'
  <2>1. /\ requests' = requests + 1 /\ mine' = [mine EXCEPT ![t] = requests + 1]
        /\ pc' = [pc EXCEPT ![t] = "url"]
    BY <1>1 DEF Enter, Goto
  <2> QED
    BY <1>0, <2>1
<1>2. ASSUME NEW t \in Threads, Advances(t)
      PROVE  NumberInv'
  <2>1. \A u \in Threads : pc'[u] \in Inside => pc[u] \in Inside
    BY <1>0, <1>2 DEF Advances, Inside
  <2> QED
    BY <1>2, <2>1 DEF Advances
<1>3. ASSUME NEW t \in Threads, Waits(t)
      PROVE  NumberInv'
  <2>1. \A u \in Threads : pc'[u] \in Inside => pc[u] \in Inside
    BY <1>0, <1>3 DEF Waits
  <2> QED
    BY <1>3, <2>1 DEF Waits
<1>4. CASE UNCHANGED vars
  BY <1>4 DEF vars
<1> QED
  BY <1>1, <1>2, <1>3, <1>4, StepKinds DEF Next

\* Two requests in progress have been exposed when the later one began, unless
\* both threads held the mutex.
LEMMA SoleStep ==
  ASSUME TypeOK, OwnerInv, NumberInv, SoleInv, [Next]_vars
  PROVE  SoleInv'
<1> SUFFICES ASSUME NEW v \in Threads, (pc[v] \in Busy /\ mine[v] \notin exposed)',
                    NEW u \in Threads, (pc[u] \in Busy)'
             PROVE  u = v
  BY DEF SoleInv, Sole
<1>0. pc \in [Threads -> Pcs] /\ mine \in [Threads -> Numbers] /\ Sole(v)
  BY DEF TypeOK, SoleInv
<1>1. ASSUME NEW t \in Threads, Enter(t)
      PROVE  u = v
  <2> SUFFICES ASSUME u # v PROVE FALSE
    OBVIOUS
  <2>1. /\ pc[t] = "enter" /\ pc' = [pc EXCEPT ![t] = "url"]
        /\ mine' = [mine EXCEPT ![t] = requests + 1]
        /\ exposed' = exposed \cup {mine[w] : w \in Rivals(t)}
                      \cup (IF Rivals(t) = {} THEN {} ELSE {requests + 1})
    BY <1>1 DEF Enter, Goto
  <2>2. ASSUME NEW w \in Threads, w # t, pc[w] \in Busy, w \notin Rivals(t)
        PROVE  FALSE
    <3>1. Locks(w) /\ Locks(t)
      BY <2>2 DEF Rivals
    <3>2. mutex = w /\ mutex = t
      BY <2>1, <2>2, <3>1 DEF OwnerInv, Inside
    <3> QED
      BY <2>2, <3>2
  <2>3. CASE v = t
    <3>1. pc[u] \in Busy
      BY <1>0, <2>1, <2>3
    <3>2. u \in Rivals(t)
      BY <2>2, <2>3, <3>1
    <3>3. mine'[v] = requests + 1
      BY <1>0, <2>1, <2>3
    <3> QED
      BY <2>1, <3>2, <3>3
  <2>4. CASE v # t
    <3>1. pc[v] \in Busy /\ mine'[v] = mine[v]
      BY <1>0, <2>1, <2>4
    <3>2. CASE u = t
      BY <2>1, <2>2, <2>4, <3>1
    <3>3. CASE u # t
      BY <1>0, <2>1, <3>1, <3>3 DEF Sole
    <3> QED
      BY <3>2, <3>3
  <2> QED
    BY <2>3, <2>4
<1>2. ASSUME NEW t \in Threads, Advances(t)
      PROVE  u = v
  BY <1>0, <1>2 DEF Advances, Sole
<1>3. ASSUME NEW t \in Threads, Waits(t)
      PROVE  u = v
  BY <1>0, <1>3 DEF Waits, Sole, Inside
<1>4. CASE UNCHANGED vars
  BY <1>0, <1>4 DEF vars, Sole
<1> QED
  BY <1>1, <1>2, <1>3, <1>4, StepKinds DEF Next

\* What a thread inside an unexposed request has set stays set: nobody else is
\* inside.
LEMMA HandleStep ==
  ASSUME TypeOK, SoleInv, HandleInv, [Next]_vars
  PROVE  HandleInv'
<1> SUFFICES ASSUME NEW u \in Threads, mine'[u] \notin exposed'
             PROVE  HandleOf(u)'
  BY DEF HandleInv, HandleOf
<1>0. HandleOf(u) /\ Sole(u)
  BY DEF HandleInv, SoleInv
<1>1. ASSUME pc'[u] \notin Busy
      PROVE  HandleOf(u)'
  BY <1>1 DEF HandleOf, Busy, AfterUrl, AfterVerb, AfterSink, AfterBody, AfterSize,
              AfterList, AfterPerform
<1>2. ASSUME UNCHANGED <<handle, mine>>, exposed \subseteq exposed',
             pc'[u] = pc[u], call'[u] = call[u]
      PROVE  HandleOf(u)'
  BY <1>0, <1>2 DEF HandleOf, Posts
<1>3. ASSUME NEW t \in Threads, t # u, Step(t)
      PROVE  HandleOf(u)'
  <2>1. CASE Enter(t)
    <3>1. /\ pc'[u] = pc[u] /\ call'[u] = call[u] /\ mine'[u] = mine[u]
          /\ handle' = handle /\ exposed \subseteq exposed'
      BY <1>3, <2>1 DEF Enter, Goto, TypeOK
    <3> QED
      BY <1>0, <3>1 DEF HandleOf, Posts
  <2>2. CASE Advances(t)
    <3>1. pc[t] \in Busy /\ pc'[u] = pc[u] /\ UNCHANGED <<mine, exposed>>
      BY <1>3, <2>2 DEF Advances, TypeOK
    <3>2. pc'[u] \notin Busy
      BY <1>0, <1>3, <3>1 DEF Sole
    <3> QED
      BY <1>1, <3>2
  <2>3. CASE Waits(t)
    BY <1>2, <1>3, <2>3 DEF Waits, TypeOK
  <2> QED
    BY <1>3, <2>1, <2>2, <2>3, StepKinds
<1> USE DEF Goto, Set, TypeOK, Pcs, Busy, AfterUrl, AfterVerb, AfterSink, AfterBody,
            AfterSize, AfterList, AfterPerform
<1>4. CASE Enter(u)
  BY <1>4 DEF Enter, HandleOf
<1>5. CASE SetUrl(u) \/ SetVerb(u) \/ SetSink(u)
  BY <1>0, <1>5 DEF SetUrl, SetVerb, SetSink, Options, HandleOf, Posts
<1>6. CASE SetBody(u) \/ SetSize(u) \/ SetList(u)
  BY <1>0, <1>6 DEF SetBody, SetSize, SetList, Options, HandleOf, Posts
<1>7. CASE Complete(u)
  BY <1>0, <1>7 DEF Complete, Options, HandleOf, Posts
<1>8. CASE Perform(u) \/ Receive(u) \/ Break(u) \/ FreeList(u) \/ GetStatus(u) \/ Clear(u)
  BY <1>0, <1>8 DEF Perform, Receive, Break, FreeList, GetStatus, Clear, HandleOf,
                    Posts
<1>9. CASE Begin(u) \/ Lock(u) \/ Return(u)
  BY <1>1, <1>9 DEF Begin, Lock, Return
<1>10. CASE UNCHANGED vars
  BY <1>2, <1>10 DEF vars
<1> QED
  BY <1>3, <1>4, <1>5, <1>6, <1>7, <1>8, <1>9, <1>10 DEF Next, Step

\* Whoever receives has pointed the handle at its own response, or somebody who
\* began after it has.
LEMMA SinkStep ==
  ASSUME TypeOK, NumberInv, SoleInv, SinkInv, [Next]_vars
  PROVE  SinkInv'
<1> SUFFICES ASSUME NEW v \in Threads, NEW u \in Threads,
                    (pc[v] = "return" /\ mine[v] \notin exposed)',
                    (pc[u] \in AfterSink)'
             PROVE  (handle["sink"] # mine[v])'
  BY DEF SinkInv
<1>0. pc \in [Threads -> Pcs] /\ u # v /\ handle \in [Options -> Numbers]
  BY DEF TypeOK, AfterSink, AfterBody, AfterSize, AfterList, AfterPerform
<1>1. AfterSink \subseteq Busy /\ "return" \notin Busy
  BY DEF AfterSink, AfterBody, AfterSize, AfterList, AfterPerform, Busy
<1>2. ASSUME NEW t \in Threads, Enter(t)
      PROVE  (handle["sink"] # mine[v])'
  <2>1. t # v /\ t # u /\ pc'[u] = pc[u] /\ pc'[v] = pc[v] /\ mine'[v] = mine[v]
        /\ handle' = handle /\ exposed \subseteq exposed'
    BY <1>0, <1>2 DEF Enter, Goto, TypeOK, AfterSink, AfterBody, AfterSize, AfterList,
                      AfterPerform
  <2> QED
    BY <2>1 DEF SinkInv
<1>3. ASSUME NEW t \in Threads, Step(t), Advances(t)
      PROVE  (handle["sink"] # mine[v])'
  <2>1. pc[t] \in Busy /\ UNCHANGED <<mine, exposed>>
        /\ \A w \in Threads \ {t} : pc'[w] = pc[w]
    BY <1>0, <1>3 DEF Advances
  <2>2. CASE t = v
    <3>1. pc[u] \in Busy
      BY <1>0, <1>1, <2>1, <2>2
    <3> QED
      BY <1>0, <2>1, <2>2, <3>1 DEF SoleInv, Sole
  <2>3. CASE t # v /\ pc[u] \in AfterSink /\ handle'["sink"] = handle["sink"]
    BY <2>1, <2>3 DEF SinkInv
  <2>4. CASE t # v /\ SetSink(t)
    <3>1. handle'["sink"] = mine[t]
      BY <1>0, <2>4 DEF SetSink, Set, Options
    <3>2. mine[t] # mine[v]
      BY <2>1, <2>4 DEF NumberInv, Inside
    <3> QED
      BY <2>1, <3>1, <3>2
  <2>5. SetSink(t) \/ (pc[u] \in AfterSink /\ handle'["sink"] = handle["sink"])
    BY <1>0, <1>3, <1>1, <2>1
    DEF Step, Begin, Lock, Enter, Return, SetUrl, SetVerb, SetBody, SetSize, SetList,
        Perform, Receive, Complete, Break, FreeList, GetStatus, Clear, Goto, Set,
        Options, AfterSink, AfterBody, AfterSize, AfterList, AfterPerform
  <2> QED
    BY <2>2, <2>3, <2>4, <2>5
<1>4. ASSUME NEW t \in Threads, Waits(t)
      PROVE  (handle["sink"] # mine[v])'
  <2>1. /\ pc'[u] \in Inside /\ pc'[v] \in Inside
        /\ UNCHANGED <<mine, handle, exposed>>
    BY <1>1, <1>4 DEF Waits, Inside
  <2>2. pc'[u] = pc[u] /\ pc'[v] = pc[v]
    BY <1>0, <1>4, <2>1 DEF Waits
  <2> QED
    BY <2>1, <2>2 DEF SinkInv
<1>5. CASE UNCHANGED vars
  BY <1>5 DEF vars, SinkInv
<1> QED
  BY <1>2, <1>3, <1>4, <1>5, StepKinds DEF Next

\* A header list is freed by the request that allocated it and by no other.
LEMMA ListStep ==
  ASSUME TypeOK, NumberInv, ListInv, [Next]_vars
  PROVE  ListInv'
<1> SUFFICES ASSUME NEW u \in Threads, (pc[u] = "perform" /\ Posts(u))'
             PROVE  (mine[u] \in lists)'
  BY DEF ListInv
<1> USE DEF TypeOK, Goto, Set, Posts
<1>1. ASSUME NEW t \in Threads, SetList(t)
      PROVE  (mine[u] \in lists)'
  BY <1>1 DEF SetList, ListInv
<1>2. ASSUME NEW t \in Threads, FreeList(t)
      PROVE  (mine[u] \in lists)'
  <2>1. t # u /\ pc[u] = "perform" /\ pc[t] \in {"succeeded", "failed"}
        /\ UNCHANGED <<mine, call>>
    BY <1>2 DEF FreeList
  <2>2. mine[t] # mine[u]
    BY <2>1 DEF NumberInv, Inside, Busy
  <2> QED
    BY <1>2, <2>1, <2>2 DEF FreeList, ListInv
<1>3. ASSUME NEW t \in Threads, Enter(t)
      PROVE  (mine[u] \in lists)'
  BY <1>3 DEF Enter, ListInv
<1>4. ASSUME NEW t \in Threads, SetSink(t)
      PROVE  (mine[u] \in lists)'
  BY <1>4 DEF SetSink, ListInv
<1>5. ASSUME NEW t \in Threads,
             \/ Begin(t) \/ Lock(t) \/ Return(t) \/ SetUrl(t) \/ SetVerb(t)
             \/ SetBody(t) \/ SetSize(t)
      PROVE  (mine[u] \in lists)'
  BY <1>5 DEF Begin, Lock, Return, SetUrl, SetVerb, SetBody, SetSize, ListInv
<1>6. ASSUME NEW t \in Threads,
             \/ Perform(t) \/ Receive(t) \/ Complete(t) \/ Break(t)
             \/ GetStatus(t) \/ Clear(t)
      PROVE  (mine[u] \in lists)'
  BY <1>6 DEF Perform, Receive, Complete, Break, GetStatus, Clear, ListInv
<1>7. CASE UNCHANGED vars
  BY <1>7 DEF vars, ListInv
<1> QED
  BY <1>1, <1>2, <1>3, <1>4, <1>5, <1>6, <1>7 DEF Next, Step

\* The response of another thread is left alone.
LEMMA OthersResponse ==
  ASSUME TypeOK, NumberInv, SoleInv, SinkInv, ResponseInv,
         NEW u \in Threads, NEW t \in Threads, t # u, Step(t),
         mine'[u] \notin exposed'
  PROVE  ResponseOf(u)'
<1>0. /\ pc \in [Threads -> Pcs] /\ mine \in [Threads -> Numbers]
      /\ body \in [Numbers -> Seq(Numbers)] /\ code \in [Numbers -> Numbers]
      /\ got \in [Threads -> Nat]
      /\ ResponseOf(u)
  BY DEF TypeOK, ResponseInv
<1>1. ASSUME mine'[u] = mine[u], got'[u] = got[u], pc'[u] = pc[u],
             exposed \subseteq exposed',
             pc[u] \in Inside =>
               body'[mine[u]] = body[mine[u]] /\ code'[mine[u]] = code[mine[u]]
      PROVE  ResponseOf(u)'
  <2>1. Pieces(u)' = Pieces(u)
    BY <1>1 DEF Pieces
  <2> QED
    BY <1>0, <1>1, <2>1 DEF ResponseOf, Inside
<1>2. ASSUME pc'[u] \notin Inside
      PROVE  ResponseOf(u)'
  BY <1>2 DEF ResponseOf, Inside
<1>3. CASE Enter(t)
  <2>1. /\ pc'[u] = pc[u] /\ mine'[u] = mine[u] /\ got'[u] = got[u]
        /\ exposed \subseteq exposed'
    BY <1>0, <1>3 DEF Enter, Goto
  <2>2. mine[u] # requests + 1
    <3>1. mine[u] <= requests /\ mine[u] \in Nat /\ requests \in Nat
      BY <1>0, BoundAssumption DEF NumberInv, TypeOK, Numbers
    <3> QED
      BY ONLY <3>1
  <2>3. body'[mine[u]] = body[mine[u]] /\ code'[mine[u]] = code[mine[u]]
    BY <1>0, <1>3, <2>2 DEF Enter
  <2> QED
    BY <1>1, <2>1, <2>3
<1>4. CASE Advances(t)
  <2>1. /\ pc[t] \in Busy /\ pc'[u] = pc[u] /\ UNCHANGED <<mine, exposed>>
    BY <1>0, <1>4 DEF Advances
  <2>2. CASE pc[u] # "return"
    BY <1>2, <2>1, <2>2 DEF SoleInv, Sole, Inside
  <2>3. CASE pc[u] = "return"
    <3>1. mine[t] # mine[u]
      BY <2>1, <2>3 DEF NumberInv, Inside
    <3>2. pc[t] = "transfer" => handle["sink"] # mine[u]
      BY <2>1, <2>3 DEF SinkInv, AfterSink, AfterBody, AfterSize, AfterList,
                        AfterPerform
    <3> USE DEF Goto, Set, responses
    <3>3. CASE Receive(t)
      BY <1>0, <1>1, <2>1, <3>2, <3>3 DEF Receive
    <3>4. CASE Clear(t)
      <4>1. /\ body' = [body EXCEPT ![mine[t]] = <<>>]
            /\ code' = [code EXCEPT ![mine[t]] = 0] /\ got' = got
        BY <3>4, Zenon DEF Clear
      <4>2. body'[mine[u]] = body[mine[u]] /\ code'[mine[u]] = code[mine[u]]
        BY <1>0, <3>1, <4>1
      <4> QED
        BY <1>1, <2>1, <4>1, <4>2
    <3>5. CASE GetStatus(t)
      BY <1>0, <1>1, <2>1, <3>1, <3>5 DEF GetStatus
    <3>6. CASE UNCHANGED <<got, body, code>>
      BY <1>1, <2>1, <3>6
    <3>7. Step(t) => \/ Receive(t) \/ Clear(t) \/ GetStatus(t)
                     \/ UNCHANGED <<got, body, code>> \/ Return(t) \/ Enter(t)
      BY DEF Step, Begin, Lock, SetUrl, SetVerb, SetSink, SetBody, SetSize, SetList,
             Perform, Complete, Break, FreeList
    <3>8. ~Return(t) /\ ~Enter(t)
      BY <2>1 DEF Return, Enter, Busy
    <3> QED
      BY <3>3, <3>4, <3>5, <3>6, <3>7, <3>8
  <2> QED
    BY <2>2, <2>3
<1>5. CASE Waits(t)
  <2>1. pc'[u] = pc[u] /\ UNCHANGED <<mine, got, exposed>>
    BY <1>0, <1>5 DEF Waits
  <2>2. CASE Return(t)
    <3>1. /\ body' = [body EXCEPT ![mine[t]] = <<>>]
          /\ code' = [code EXCEPT ![mine[t]] = 0]
          /\ pc[t] = "return"
      BY <2>2, Zenon DEF Return, Goto
    <3>2. pc[u] \in Inside => mine[t] # mine[u]
      BY <3>1 DEF NumberInv, Inside
    <3>3. pc[u] \in Inside =>
            body'[mine[u]] = body[mine[u]] /\ code'[mine[u]] = code[mine[u]]
      BY <1>0, <3>1, <3>2
    <3> QED
      BY <1>1, <2>1, <3>3
  <2>3. CASE UNCHANGED <<body, code>>
    BY <1>1, <2>1, <2>3
  <2>4. Begin(t) \/ Lock(t) => UNCHANGED <<body, code>>
    BY DEF Begin, Lock, responses
  <2>5. Begin(t) \/ Lock(t) \/ Return(t) \/ Enter(t)
    BY <1>5 DEF Waits, Step, SetUrl, SetVerb, SetSink, SetBody, SetSize, SetList,
                Perform, Receive, Complete, Break, FreeList, GetStatus, Clear, Goto,
                Busy
  <2>6. ~Enter(t)
    <3>1. Enter(t) => pc'[t] = "url"
      BY <1>0 DEF Enter, Goto
    <3>2. pc'[t] # "url"
      BY <1>0, <1>5 DEF Waits, Inside, Busy
    <3> QED
      BY <3>1, <3>2
  <2> QED
    BY <2>2, <2>3, <2>4, <2>5, <2>6
<1> QED
  BY <1>3, <1>4, <1>5, StepKinds

\* The response of the thread itself is its answer so far.
LEMMA OwnResponseStep ==
  ASSUME TypeOK, HandleInv, ResponseInv, NEW u \in Threads, Step(u),
         mine'[u] \notin exposed'
  PROVE  ResponseOf(u)'
<1>0. /\ pc \in [Threads -> Pcs] /\ mine \in [Threads -> Numbers]
      /\ body \in [Numbers -> Seq(Numbers)] /\ code \in [Numbers -> Numbers]
      /\ got \in [Threads -> Nat]
      /\ ResponseOf(u) /\ HandleOf(u)
  BY DEF TypeOK, ResponseInv, HandleInv
<1>1. CASE Begin(u) \/ Lock(u) \/ Return(u)
  BY <1>0, <1>1 DEF Begin, Lock, Return, Goto, ResponseOf, Busy
<1>2. CASE Enter(u)
  <2>1. /\ pc' = [pc EXCEPT ![u] = "url"]
        /\ got' = [got EXCEPT ![u] = 0]
        /\ mine' = [mine EXCEPT ![u] = requests + 1]
        /\ body' = [body EXCEPT ![requests + 1] = <<>>]
    BY <1>2, Zenon DEF Enter, Goto
  <2>2. requests + 1 \in Numbers
    BY <1>2, BoundAssumption DEF Enter, TypeOK, Numbers
  <2>3. pc'[u] = "url" /\ got'[u] = 0 /\ mine'[u] = requests + 1
    BY <1>0, <2>1
  <2>4. body'[mine'[u]] = <<>>
    BY <1>0, <2>1, <2>2, <2>3, Zenon
  <2>5. Pieces(u)' = <<>>
    BY <2>3 DEF Pieces
  <2> QED
    BY <2>3, <2>4, <2>5 DEF ResponseOf, AfterPerform
<1>3. ASSUME pc[u] \in Busy, pc'[u] \in Busy, UNCHANGED <<mine, got, body, code, exposed>>,
             pc'[u] \in AfterPerform \/ pc[u] \notin AfterPerform,
             pc'[u] \in {"failed", "clear"} \/ pc[u] \notin {"failed", "clear"}
      PROVE  ResponseOf(u)'
  <2>1. Pieces(u)' = Pieces(u)
    BY <1>3 DEF Pieces
  <2> QED
    BY <1>0, <1>3, <2>1 DEF ResponseOf, Busy
<1>4. CASE SetUrl(u) \/ SetVerb(u) \/ SetSink(u) \/ SetBody(u) \/ SetSize(u)
           \/ SetList(u)
  BY <1>0, <1>3, <1>4 DEF SetUrl, SetVerb, SetSink, SetBody, SetSize, SetList, Goto,
                          Set, Busy, AfterPerform, responses
<1>5. CASE Perform(u) \/ Complete(u) \/ Break(u) \/ FreeList(u)
  BY <1>0, <1>3, <1>5 DEF Perform, Complete, Break, FreeList, Goto, Set, Busy,
                          AfterPerform, responses
<1>6. CASE Receive(u)
  <2>1. /\ pc[u] = "transfer"
        /\ got' = [got EXCEPT ![u] = @ + 1]
        /\ body' = [body EXCEPT ![handle["sink"]] = Append(@, mine[u])]
        /\ UNCHANGED <<pc, mine, exposed>>
    BY <1>6, Zenon DEF Receive
  <2>2. handle["sink"] = mine[u] /\ body[mine[u]] = Pieces(u)
    BY <1>0, <2>1 DEF HandleOf, ResponseOf, Busy, AfterSink, AfterBody, AfterSize,
                      AfterList, AfterPerform
  <2>3. got'[u] = got[u] + 1 /\ got[u] \in Nat /\ mine[u] \in Nat
    BY <1>0, <2>1 DEF Numbers
  <2>4. body'[mine[u]] = Append(Pieces(u), mine[u])
    BY <1>0, <2>1, <2>2, Zenon
  <2>5. Append(Pieces(u), mine[u]) = [i \in 1..(got[u] + 1) |-> mine[u]]
    BY <2>3, OneMorePiece DEF Pieces
  <2>6. Pieces(u)' = [i \in 1..(got[u] + 1) |-> mine[u]]
    BY <2>1, <2>3 DEF Pieces
  <2>7. body'[mine'[u]] = Pieces(u)' /\ pc'[u] = "transfer"
    BY <2>1, <2>4, <2>5, <2>6
  <2> QED
    BY <2>7 DEF ResponseOf, AfterPerform
<1>7. CASE GetStatus(u)
  <2>1. pc[u] = "status" /\ handle["status"] = mine[u] /\ body[mine[u]] = Pieces(u)
    BY <1>0, <1>7 DEF GetStatus, Goto, HandleOf, ResponseOf, Busy
  <2>2. /\ code' = [code EXCEPT ![mine[u]] = mine[u]]
        /\ pc'[u] = "return"
        /\ UNCHANGED <<mine, got, body>>
    BY <1>0, <1>7, <2>1 DEF GetStatus, Goto
  <2>3. code'[mine'[u]] = mine'[u] /\ Pieces(u)' = Pieces(u)
    BY <1>0, <2>2 DEF Pieces
  <2> QED
    BY <2>1, <2>2, <2>3 DEF ResponseOf, Busy
<1>8. CASE Clear(u)
  <2>1. /\ body' = [body EXCEPT ![mine[u]] = <<>>]
        /\ code' = [code EXCEPT ![mine[u]] = 0]
        /\ UNCHANGED mine
    BY <1>8, Zenon DEF Clear
  <2>2. pc'[u] = "return"
    BY <1>0, <1>8 DEF Clear, Goto
  <2>3. body'[mine'[u]] = <<>> /\ code'[mine'[u]] = 0
    BY <1>0, <2>1, Zenon
  <2> QED
    BY <2>2, <2>3 DEF ResponseOf, Busy
<1> QED
  BY <1>1, <1>2, <1>4, <1>5, <1>6, <1>7, <1>8 DEF Step

LEMMA ResponseStep ==
  ASSUME TypeOK, NumberInv, SoleInv, HandleInv, SinkInv, ResponseInv, [Next]_vars
  PROVE  ResponseInv'
<1> SUFFICES ASSUME NEW u \in Threads, mine'[u] \notin exposed'
             PROVE  ResponseOf(u)'
  BY DEF ResponseInv, ResponseOf
<1>1. ASSUME NEW t \in Threads, Step(t)
      PROVE  ResponseOf(u)'
  BY <1>1, OthersResponse, OwnResponseStep
<1>2. CASE UNCHANGED vars
  BY <1>2 DEF vars, ResponseInv, ResponseOf, Pieces
<1> QED
  BY <1>1, <1>2 DEF Next

\* What is sent: a thread that performs has set every option.
LEMMA Sends ==
  ASSUME TypeOK, HandleInv, ListInv, NEW t \in Threads, Perform(t)
  PROVE  /\ wire' = {Request(t)} /\ exposed' = exposed
         /\ Request(t).by = mine[t]
         /\ mine[t] \notin exposed => Own(Request(t))
         /\ Request(t).posts /\ mine[t] \notin exposed => Request(t).live
<1>1. pc[t] = "perform" /\ HandleOf(t) /\ (Posts(t) => mine[t] \in lists)
  BY DEF Perform, Goto, HandleInv, ListInv
<1>2. mine[t] \notin exposed =>
        /\ handle["url"] = mine[t] /\ handle["verb"] = mine[t]
        /\ Posts(t) => /\ handle["body"] = mine[t] /\ handle["size"] = mine[t]
                       /\ handle["list"] = mine[t]
  BY <1>1 DEF HandleOf, AfterUrl, AfterVerb, AfterSink, AfterBody, AfterSize,
              AfterList
<1>3. /\ Request(t).by = mine[t] /\ Request(t).posts = Posts(t)
      /\ Request(t).url = handle["url"] /\ Request(t).verb = handle["verb"]
      /\ Posts(t) => /\ Request(t).body = handle["body"]
                     /\ Request(t).size = handle["size"]
      /\ Request(t).list = handle["list"]
      /\ Request(t).live = (handle["list"] \in lists \cup {0})
  BY DEF Request
<1> QED
  BY <1>1, <1>2, <1>3 DEF Perform, Own

LEMMA WireStays ==
  ASSUME [Next]_vars, ~\E t \in Threads : Perform(t)
  PROVE  wire' = wire /\ exposed \subseteq exposed'
BY DEF Next, Step, vars, responses, Set, Begin, Lock, Enter, Return, SetUrl,
       SetVerb, SetSink, SetBody, SetSize, SetList, Receive, Complete, Break,
       FreeList, GetStatus, Clear

-----------------------------------------------------------------------------
(* The theorems. *)

\* The invariant is inductive, whatever the threads call.
THEOREM HttpInductive == Spec => []IInv
<1>1. Init => IInv
  BY InitInv
<1>2. IInv /\ [Next]_vars => IInv'
  BY TypeStep, OwnerStep, NumberStep, SoleStep, HandleStep, SinkStep, ResponseStep,
     ListStep DEF IInv
<1> QED
  BY <1>1, <1>2, PTL DEF Spec

\* Every state of the handle is well typed, whoever locks.
THEOREM HttpTypes == Spec => []TypeOK
  BY TypeInit, TypeStep, PTL DEF Spec

\* A request that overlapped none made without the mutex leaves with the url, the
\* method, the body, its length and the headers of its own caller, whatever the
\* other threads call and whatever was on the handle before.
THEOREM WholeRequests == Spec => []OwnRequest
<1>1. Init => OwnRequest
  BY DEF Init, OwnRequest
<1>2. IInv /\ OwnRequest /\ [Next]_vars => OwnRequest'
  <2> SUFFICES ASSUME IInv, OwnRequest, [Next]_vars PROVE OwnRequest'
    OBVIOUS
  <2>1. ASSUME NEW t \in Threads, Perform(t) PROVE OwnRequest'
    BY <2>1, Sends DEF IInv, OwnRequest
  <2> QED
    BY <2>1, WireStays DEF OwnRequest
<1> QED
  BY <1>1, <1>2, HttpInductive, PTL DEF Spec

\* What a caller reads when a request returns that overlapped none made without
\* the mutex is its own whole answer and status, or nothing, even if others
\* receive at that moment.
THEOREM WholeResponses == Spec => []OwnResponse
<1>1. IInv => OwnResponse
  BY DEF IInv, ResponseInv, ResponseOf, OwnResponse
<1> QED
  BY <1>1, HttpInductive, PTL

\* curl never reads a freed header list for a POST that overlapped no request made
\* without the mutex, although every POST leaves the handle pointing at its own.
THEOREM LiveLists == Spec => []NoFreedList
<1>1. Init => NoFreedList
  BY DEF Init, NoFreedList
<1>2. IInv /\ NoFreedList /\ [Next]_vars => NoFreedList'
  <2> SUFFICES ASSUME IInv, NoFreedList, [Next]_vars PROVE NoFreedList'
    OBVIOUS
  <2>1. ASSUME NEW t \in Threads, Perform(t) PROVE NoFreedList'
    BY <2>1, Sends DEF IInv, NoFreedList
  <2> QED
    BY <2>1, WireStays DEF NoFreedList
<1> QED
  BY <1>1, <1>2, HttpInductive, PTL DEF Spec

\* A client that only trades exposes no request: each is whole, for any number of
\* threads. This is what the mutex is worth where every call takes it.
THEOREM TradingAlone ==
  ASSUME Calls \subseteq {"trade"}
  PROVE  Spec => []EveryRequestOwn
<1> DEFINE Inv == exposed = {} /\ \A t \in Threads : Locks(t)
<1>1. Init => Inv
  BY DEF Init, Locks
<1>2. TypeOK /\ Inv /\ [Next]_vars => Inv'
  <2> SUFFICES ASSUME TypeOK, Inv, [Next]_vars PROVE Inv'
    OBVIOUS
  <2>1. ASSUME NEW t \in Threads, Enter(t) PROVE Inv'
    BY <2>1 DEF Enter, Rivals, Locks
  <2>2. ASSUME NEW t \in Threads, Begin(t) PROVE Inv'
    BY <2>2, Calls \subseteq {"trade"} DEF Begin, Locks, TypeOK
  <2>3. CASE UNCHANGED <<call, exposed>>
    BY <2>3 DEF Locks
  <2> QED
    BY <2>1, <2>2, <2>3
    DEF Next, Step, vars, responses, Set, Lock, Return, SetUrl, SetVerb, SetSink,
        SetBody, SetSize, SetList, Perform, Receive, Complete, Break, FreeList,
        GetStatus, Clear
<1>3. Inv /\ OwnRequest => EveryRequestOwn
  BY DEF OwnRequest, EveryRequestOwn
<1> HIDE DEF Inv
<1> QED
  BY <1>1, <1>2, <1>3, HttpTypes, WholeRequests, PTL DEF Spec
=============================================================================
