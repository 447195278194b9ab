-------------------------- MODULE TradingApiProofs --------------------------
(***************************************************************************)
(* The safety properties of TradingApi, for any number of threads, coins,  *)
(* calls and requests, and any network.                                    *)
(***************************************************************************)
EXTENDS TradingApi, Numbers, FiniteSetTheorems, SequenceTheorems, TLAPS

InCall == Pcs \ {"idle", "lock"}

\* The mutex is held exactly from lock to return, and a thread waits for the
\* request it has posted.
ThreadOK(t) ==
  /\ lock = t <=> pc[t] \in InCall
  /\ pc[t] = "idle" => job[t] = NoJob
  /\ pc[t] # "idle" => job[t].todo # <<>>
  /\ pc[t] = "wait" => req[t].id \in 1..posts
  /\ pc[t] # "wait" => req[t].id = 0

ThreadInv == \A t \in Threads : ThreadOK(t)

\* A call that has met no error has only successful results.
Clean(j) ==
  j.err = "success" => \A i \in DOMAIN j.done : j.done[i].err = "success"

CleanInv ==
  /\ \A j \in returned : Clean(j)
  /\ \A t \in Threads : Clean(job[t])

\* A request is in flight or has been dealt with, and makes at most one order;
\* an answer with an order id comes from the request of that order.
WireInv ==
  /\ IsFiniteSet(flight)
  /\ Len(orders) + Cardinality(flight) <= posts
  /\ \A r \in flight : r.id \in 1..posts
  /\ \A q, r \in flight : q.id = r.id => q = r
  /\ \A o \in DOMAIN orders : orders[o].by \in 1..posts
  /\ \A o \in DOMAIN orders : \A r \in flight : orders[o].by # r.id
  /\ \A o, p \in DOMAIN orders : orders[o].by = orders[p].by => o = p
  /\ \A a \in answers : a.id \in 1..posts
  /\ \A a \in answers :
       a.oid # None => a.oid \in DOMAIN orders /\ orders[a.oid].by = a.id

\* What callers read is the id of the order of their request, as "%d" has it.
ReadOids ==
  \A r \in Placed :
    \E o \in DOMAIN orders : orders[o].by = r.post /\ r.oid = ParseOid(o)

\* Results belong to requests nobody waits for any more.
ReportInv ==
  /\ \A r \in AllResults :
       /\ r.post \in 0..posts
       /\ \A t \in Threads : pc[t] = "wait" => r.post # req[t].id
  /\ ReadOids

\* Calls name no order that does not exist yet.
IdKnown(n) == n = None \/ n <= Len(orders)
TasksKnown(todo) == \A i \in DOMAIN todo : IdKnown(todo[i].oid)

KnownInv ==
  /\ \A r \in AllResults : IdKnown(r.oid) /\ IdKnown(r.task.oid)
  /\ \A t \in Threads : TasksKnown(job[t].todo)

\* A thread waits for the request it made of its task.
Matches(t, r) ==
  r.id = req[t].id =>
    r.op = Task(t).op /\ r.oid = Task(t).oid /\ r.asset = req[t].asset

\* An answer that confirms a cancel comes after the order left the book.
Confirms(t, a) ==
  a.id = req[t].id /\ a.ok /\ Task(t).op = "cancel"
    => OffBook(Task(t).oid, req[t].asset)

WaitInv ==
  \A t \in Threads : pc[t] = "wait" =>
    /\ \A r \in flight : Matches(t, r)
    /\ \A a \in answers : Confirms(t, a)

\* A success is settled at the exchange, or was not confirmed.
Honest(r) == r.err = "success" => Settled(r) \/ Unconfirmed(r)

SettleInv == \A r \in AllResults : Honest(r)

\* No request carries a nonce from the future, and nothing is posted between
\* the stamp and the POST of another thread.
StampInv ==
  /\ \A r \in flight : r.nonce <= clock
  /\ \A t \in Threads : pc[t] = "sign" =>
       /\ req[t].nonce <= clock
       /\ \A r \in flight : r.nonce <= req[t].nonce
  /\ NoncesInOrder

\* The asset id of a coin, or the id the code lets pass for Sol.
Named(s, asset) == asset = listing[s] \/ (s = Sol /\ asset = 0)

\* A lookup nobody disturbed has its own coin in the buffer.
AssetInv ==
  /\ \A r \in flight : r.torn \/ Named(r.sym, r.asset)
  /\ \A t \in Threads :
       /\ pc[t] = "find" => req[t].torn \/ coinBuf = Task(t).sym
       /\ pc[t] \in {"stamp", "sign"} =>
            req[t].torn \/ Named(Task(t).sym, req[t].asset)

IInv ==
  /\ TypeOK
  /\ ThreadInv
  /\ CleanInv
  /\ WireInv
  /\ ReportInv
  /\ KnownInv
  /\ WaitInv
  /\ SettleInv
  /\ StampInv
  /\ AssetInv

-----------------------------------------------------------------------------
(* Results and jobs. *)

\* The results of a set of calls are those in their done lists.
LEMMA InResults ==
  ASSUME NEW J
  PROVE  \A x : x \in ResultsOf(J) <=>
           \E j \in J : \E i \in DOMAIN j.done : x = j.done[i]
BY DEF ResultsOf

\* What Append adds to a sequence, and what it keeps.
LEMMA AppendSeq ==
  ASSUME NEW S, NEW s \in Seq(S), NEW e \in S
  PROVE  /\ Append(s, e) \in Seq(S)
         /\ DOMAIN Append(s, e) = DOMAIN s \cup {Len(s) + 1}
         /\ Len(s) + 1 \notin DOMAIN s
         /\ Append(s, e)[Len(s) + 1] = e
         /\ \A i \in DOMAIN s : Append(s, e)[i] = s[i]
BY AppendProperties, LenProperties

\* Recording a result keeps a job well formed, and clean if it was clean.
LEMMA AdvanceJob ==
  ASSUME NEW j \in Jobs, j.todo # <<>>, NEW r \in Results
  PROVE  /\ Advance(j, r) \in Jobs
         /\ Advance(j, r).done = Append(j.done, r)
         /\ Advance(j, r).todo = Tail(j.todo)
         /\ [Advance(j, r) EXCEPT !.todo = <<>>] \in Jobs
         /\ [Advance(j, r) EXCEPT !.todo = <<>>].done = Append(j.done, r)
         /\ Clean(j) => Clean(Advance(j, r))
         /\ Clean(j) => Clean([Advance(j, r) EXCEPT !.todo = <<>>])
<1>1. j.todo \in Seq(Tasks) /\ j.done \in Seq(Results) /\ j.err \in Errors
  BY DEF Jobs
<1>2. Tail(j.todo) \in Seq(Tasks) /\ <<>> \in Seq(Tasks)
  BY <1>1, HeadTailProperties, EmptySeq
<1>3. Append(j.done, r) \in Seq(Results)
  BY <1>1, AppendSeq
<1>4. r.err \in Errors
  BY DEF Results
<1>5. Advance(j, r) \in Jobs /\ [Advance(j, r) EXCEPT !.todo = <<>>] \in Jobs
  BY <1>1, <1>2, <1>3, <1>4 DEF Jobs, Advance
<1>6. /\ Advance(j, r).done = Append(j.done, r)
      /\ Advance(j, r).todo = Tail(j.todo)
      /\ [Advance(j, r) EXCEPT !.todo = <<>>].done = Append(j.done, r)
  BY DEF Advance, Jobs
<1>7. /\ Advance(j, r).err = IF r.err = "success" THEN j.err ELSE r.err
      /\ [Advance(j, r) EXCEPT !.todo = <<>>].err = Advance(j, r).err
  BY DEF Advance, Jobs
<1>8. ASSUME Clean(j), Advance(j, r).err = "success",
             NEW i \in DOMAIN Append(j.done, r)
      PROVE  Append(j.done, r)[i].err = "success"
  <2>1. r.err = "success" /\ j.err = "success"
    BY <1>7, <1>8
  <2>2. CASE i = Len(j.done) + 1
    BY <2>1, <2>2, <1>1, AppendSeq
  <2>3. CASE i \in DOMAIN j.done
    BY <2>1, <2>3, <1>1, <1>8, AppendSeq DEF Clean
  <2>4. QED
    BY <2>2, <2>3, <1>1, <1>8, AppendSeq
<1>9. QED
  BY <1>5, <1>6, <1>7, <1>8 DEF Clean

\* The empty job is a job without results.
LEMMA NoJobFacts == NoJob \in Jobs /\ Clean(NoJob) /\ NoJob.done = <<>>
<1>1. <<>> \in Seq(Tasks) /\ <<>> \in Seq(Results)
  BY EmptySeq
<1>2. QED
  BY <1>1 DEF NoJob, Jobs, Errors, Clean

\* A job that has ended an order or cancel shows its result, and no other.
LEMMA ShownResults ==
  ASSUME NEW J, NEW K, NEW s \in Seq(Results), NEW r \in Results,
         \E j \in J : j.done = s,
         \E k \in K : k.done = Append(s, r),
         \A i \in J : i \in K \/ i.done = s,
         \A i \in K : i \in J \/ i.done = Append(s, r) \/ i.done = <<>>
  PROVE  ResultsOf(K) = ResultsOf(J) \cup {r}
<1>1. PICK j \in J : j.done = s
  OBVIOUS
<1>2. PICK k \in K : k.done = Append(s, r)
  OBVIOUS
<1>3. ASSUME NEW x \in ResultsOf(K)
      PROVE  x \in ResultsOf(J) \cup {r}
  <2>1. PICK i \in K : \E n \in DOMAIN i.done : x = i.done[n]
    BY <1>3, InResults
  <2>2. CASE i.done = Append(s, r)
    BY <1>1, <2>1, <2>2, AppendSeq, InResults
  <2>3. CASE i \in J
    BY <2>1, <2>3, InResults
  <2>4. i.done # <<>>
    BY <2>1, EmptySeq, LenProperties
  <2>5. QED
    BY <2>2, <2>3, <2>4
<1>4. ASSUME NEW x \in ResultsOf(J)
      PROVE  x \in ResultsOf(K)
  <2>1. PICK i \in J : \E n \in DOMAIN i.done : x = i.done[n]
    BY <1>4, InResults
  <2>2. CASE i.done = s
    BY <1>2, <2>1, <2>2, AppendSeq, InResults
  <2>3. QED
    BY <2>1, <2>2, InResults
<1>5. r \in ResultsOf(K)
  BY <1>2, AppendSeq, InResults
<1>6. QED
  BY <1>3, <1>4, <1>5

\* The effect of ending one order or cancel: the mutex is free, the thread
\* is idle or at the next order, and exactly one result is new.
LEMMA FinishEffect ==
  ASSUME TypeOK, ThreadInv, CleanInv,
         NEW t \in Threads, pc[t] \in InCall,
         NEW r \in Results, Finish(t, r)
  PROVE  /\ lock' = None
         /\ req' = [req EXCEPT ![t] = NoReq]
         /\ pc' \in [Threads -> Pcs]
         /\ pc'[t] \in {"idle", "lock"}
         /\ \A u \in Threads \ {t} : pc'[u] = pc[u] /\ job'[u] = job[u]
         /\ job' \in [Threads -> Jobs]
         /\ pc'[t] = "idle" => job'[t] = NoJob
         /\ pc'[t] = "lock" => /\ job'[t].todo # <<>>
                               /\ job'[t].todo = Tail(job[t].todo)
         /\ returned' \subseteq Jobs
         /\ CleanInv'
         /\ AllResults' = AllResults \cup {r}
<1> DEFINE j == Advance(job[t], r)
           e == [j EXCEPT !.todo = <<>>]
<1>1. /\ job[t] \in Jobs /\ job \in [Threads -> Jobs] /\ pc \in [Threads -> Pcs]
      /\ returned \subseteq Jobs
      /\ job[t].todo # <<>> /\ Clean(job[t])
      /\ job[t].done \in Seq(Results)
  BY DEF TypeOK, ThreadInv, ThreadOK, CleanInv, InCall, Jobs
<1>2. /\ j \in Jobs /\ e \in Jobs /\ Clean(j) /\ Clean(e)
      /\ j.done = Append(job[t].done, r) /\ e.done = Append(job[t].done, r)
      /\ j.todo = Tail(job[t].todo)
  BY <1>1, AdvanceJob
<1> HIDE DEF j, e
<1>3. CASE /\ lock' = None
           /\ req' = [req EXCEPT ![t] = NoReq]
           /\ pc' = [pc EXCEPT ![t] = "idle"]
           /\ job' = [job EXCEPT ![t] = NoJob]
           /\ returned' = returned \cup {e}
  <2>1. AllResults' = AllResults \cup {r}
    <3> DEFINE J == returned \cup {job[u] : u \in Threads}
               K == returned \cup {e} \cup {job'[u] : u \in Threads}
               s == job[t].done
    <3>1. /\ \E i \in J : i.done = s
          /\ \E i \in K : i.done = Append(s, r)
      BY <1>2
    <3>2. \A i \in K : i \in J \/ i.done = Append(s, r) \/ i.done = <<>>
      BY <1>1, <1>2, <1>3, NoJobFacts
    <3>3. \A i \in J : i \in K \/ i.done = s
      BY <1>1, <1>3
    <3>4. AllResults' = ResultsOf(K) /\ AllResults = ResultsOf(J)
      BY <1>3 DEF AllResults, ResultsOf
    <3>5. s \in Seq(Results)
      BY <1>1
    <3> HIDE DEF J, K, s
    <3>6. ResultsOf(K) = ResultsOf(J) \cup {r}
      BY <3>1, <3>2, <3>3, <3>5, ShownResults
    <3>7. QED
      BY <3>4, <3>6
  <2>2. CleanInv'
    BY <1>1, <1>2, <1>3, NoJobFacts DEF CleanInv, Clean
  <2>3. QED
    BY <1>1, <1>2, <1>3, <2>1, <2>2, NoJobFacts DEF Pcs
<1>4. CASE /\ lock' = None
           /\ req' = [req EXCEPT ![t] = NoReq]
           /\ pc' = [pc EXCEPT ![t] = "lock"]
           /\ job' = [job EXCEPT ![t] = j]
           /\ returned' = returned
           /\ j.todo # <<>>
  <2>1. AllResults' = AllResults \cup {r}
    <3> DEFINE J == returned \cup {job[u] : u \in Threads}
               K == returned \cup {job'[u] : u \in Threads}
               s == job[t].done
    <3>1. /\ \E i \in J : i.done = s
          /\ \E i \in K : i.done = Append(s, r)
      BY <1>1, <1>2, <1>4
    <3>2. \A i \in K : i \in J \/ i.done = Append(s, r) \/ i.done = <<>>
      BY <1>1, <1>2, <1>4
    <3>3. \A i \in J : i \in K \/ i.done = s
      BY <1>1, <1>4
    <3>4. AllResults' = ResultsOf(K) /\ AllResults = ResultsOf(J)
      BY <1>4 DEF AllResults, ResultsOf
    <3>5. s \in Seq(Results)
      BY <1>1
    <3> HIDE DEF J, K, s
    <3>6. ResultsOf(K) = ResultsOf(J) \cup {r}
      BY <3>1, <3>2, <3>3, <3>5, ShownResults
    <3>7. QED
      BY <3>4, <3>6
  <2>2. CleanInv'
    BY <1>1, <1>2, <1>4 DEF CleanInv, Clean
  <2>3. QED
    BY <1>1, <1>2, <1>4, <2>1, <2>2 DEF Pcs
<1>5. QED
  BY <1>3, <1>4 DEF Finish, j, e

-----------------------------------------------------------------------------
(* The kinds of steps a thread takes. *)

\* A call begins; it names only orders its caller was told of.
Begins(t) ==
  /\ \E mode \in {"batch", "edit"}, todo \in Seq(Tasks) :
       todo # <<>> /\ TasksKnown(todo) /\ Begin(t, mode, todo)
  /\ asked' \in 0..MaxAsked

\* The coin is in the buffer.
Copied(t) ==
  /\ pc[t] = "fetch"
  /\ coinBuf' = Task(t).sym
  /\ pc' = [pc EXCEPT ![t] = "find"]
  /\ UNCHANGED <<listing, asked, clock, lock, job, req, posts, flight, answers,
                 exchangeVars, returned>>

\* The asset id is known.
Found(t) ==
  /\ pc[t] \in {"fetch", "find"}
  /\ \E asset \in AssetIds :
       /\ pc[t] = "fetch" \/ coinBuf = Task(t).sym
            => Named(Task(t).sym, asset)
       /\ req' = [req EXCEPT ![t].asset = asset]
  /\ coinBuf' \in {coinBuf, None}
  /\ pc' = [pc EXCEPT ![t] = "stamp"]
  /\ UNCHANGED <<listing, asked, clock, lock, job, posts, flight, answers,
                 exchangeVars, returned>>

\* What a result tells is true.
TellsTrue(t, r) ==
  /\ r.post = req[t].id
  /\ r.task = Task(t)
  /\ r.oid # None =>
       /\ pc[t] = "wait"
       /\ \E o \in DOMAIN orders :
            orders[o].by = r.post /\ r.oid = ParseOid(o)
  /\ Honest(r)

\* An order or cancel returns.
Finishes(t) ==
  /\ pc[t] \in InCall
  /\ \E r \in Results : Finish(t, r) /\ TellsTrue(t, r)
  /\ answers' \subseteq answers
  /\ coinBuf' \in {coinBuf, None}
  /\ UNCHANGED <<listing, asked, clock, posts, flight, exchangeVars>>

\* Everything handed to the application is a result.
LEMMA ResultTypes == TypeOK => AllResults \subseteq Results
<1> SUFFICES ASSUME TypeOK, NEW x \in AllResults
             PROVE  x \in Results
  OBVIOUS
<1> DEFINE J == returned \cup {job[t] : t \in Threads}
<1>1. J \subseteq Jobs
  BY DEF TypeOK
<1>2. PICK j \in J : \E i \in DOMAIN j.done : x = j.done[i]
  <2>1. x \in ResultsOf(J)
    BY DEF AllResults
  <2> HIDE DEF J
  <2>2. QED
    BY <2>1, InResults
<1>3. j.done \in Seq(Results)
  BY <1>1, <1>2 DEF Jobs
<1>4. QED
  BY <1>2, <1>3, LenProperties

\* Calls without results do not matter to the results.
LEMMA SameResults ==
  ASSUME NEW J, NEW K,
         \A i \in J : i \in K \/ i.done = <<>>,
         \A i \in K : i \in J \/ i.done = <<>>
  PROVE  ResultsOf(K) = ResultsOf(J)
<1>1. \A i : i.done = <<>> => DOMAIN i.done = {}
  BY EmptySeq, LenProperties
<1>2. ASSUME NEW x \in ResultsOf(J)
      PROVE  x \in ResultsOf(K)
  <2>1. PICK i \in J : \E n \in DOMAIN i.done : x = i.done[n]
    BY <1>2, InResults
  <2>2. QED
    BY <1>1, <2>1, InResults
<1>3. ASSUME NEW x \in ResultsOf(K)
      PROVE  x \in ResultsOf(J)
  <2>1. PICK i \in K : \E n \in DOMAIN i.done : x = i.done[n]
    BY <1>3, InResults
  <2>2. QED
    BY <1>1, <2>1, InResults
<1>4. QED
  BY <1>2, <1>3

\* The effect of entering the library: a job without results.
LEMMA BeginEffect ==
  ASSUME TypeOK, ThreadInv, CleanInv, NEW t \in Threads, Begins(t)
  PROVE  /\ pc[t] = "idle"
         /\ pc' = [pc EXCEPT ![t] = "lock"]
         /\ job' \in [Threads -> Jobs]
         /\ job'[t].todo # <<>> /\ TasksKnown(job'[t].todo)
         /\ \A u \in Threads \ {t} : job'[u] = job[u]
         /\ CleanInv'
         /\ AllResults' = AllResults
<1>1. PICK mode \in {"batch", "edit"}, todo \in Seq(Tasks) :
         todo # <<>> /\ TasksKnown(todo) /\ Begin(t, mode, todo)
  BY DEF Begins
<1> DEFINE j == [mode |-> mode, todo |-> todo, err |-> "success",
                 done |-> <<>>]
<1>2. /\ j \in Jobs /\ Clean(j) /\ j.done = <<>>
      /\ j.todo # <<>> /\ TasksKnown(j.todo)
  <2>1. <<>> \in Seq(Results)
    BY EmptySeq
  <2>2. QED
    BY <1>1, <2>1 DEF Jobs, Errors, Clean
<1>3. /\ job \in [Threads -> Jobs] /\ job[t] = NoJob /\ pc[t] = "idle"
      /\ job' = [job EXCEPT ![t] = j]
      /\ pc' = [pc EXCEPT ![t] = "lock"]
      /\ returned' = returned
  BY <1>1 DEF Begin, TypeOK, ThreadInv, ThreadOK
<1> HIDE DEF j
<1>4. AllResults' = AllResults
  <2> DEFINE J == returned \cup {job[u] : u \in Threads}
             K == returned \cup {job'[u] : u \in Threads}
  <2>1. \A i \in J : i \in K \/ i.done = <<>>
    BY <1>3, NoJobFacts
  <2>2. \A i \in K : i \in J \/ i.done = <<>>
    BY <1>2, <1>3
  <2>3. AllResults' = ResultsOf(K) /\ AllResults = ResultsOf(J)
    BY <1>3 DEF AllResults, ResultsOf
  <2> HIDE DEF J, K
  <2>4. QED
    BY <2>1, <2>2, <2>3, SameResults
<1>5. CleanInv'
  BY <1>2, <1>3 DEF CleanInv, Clean
<1>6. QED
  BY <1>2, <1>3, <1>4, <1>5

\* "%d" reads the ids below the limit, and never reads more than the id.
LEMMA ParseOidFacts ==
  ASSUME NEW n \in Nat
  PROVE  /\ ParseOid(n) \in Int
         /\ ParseOid(n) <= n
         /\ n < IntLimit => ParseOid(n) = n
<1> DEFINE d == 2 * IntLimit
           y == n + IntLimit
           q == y \div d
           x == y % d
<1>1. IntLimit \in Nat \ {0} /\ d \in Nat \ {0} /\ y \in Nat
  BY LimitAssumption
<1>2. ParseOid(n) = x - IntLimit
  BY DEF ParseOid
<1> HIDE DEF d, q, x
<1>3. q \in Nat /\ x \in 0 .. d - 1 /\ y = q * d + x
  BY <1>1, Division DEF q, x
<1> HIDE DEF y
<1>4. q * d \in Nat
  BY <1>1, <1>3
<1>5. x <= y
  <2> DEFINE z == q * d
  <2>1. z \in Nat /\ y = z + x
    BY <1>3, <1>4
  <2> HIDE DEF z
  <2>2. QED
    BY <1>1, <1>3, <2>1
<1>6. y < d => x = y
  <2>1. ASSUME y < d PROVE x = y
    <3>1. (0 * d + y) % d = y
      BY <1>1, <2>1, SmallRest
    <3>2. 0 * d + y = y
      BY <1>1
    <3>3. QED
      BY <3>1, <3>2 DEF x
  <2>2. QED
    BY <2>1
<1>7. y = n + IntLimit /\ d = 2 * IntLimit
  BY DEF y, d
<1>8. QED
  BY <1>1, <1>2, <1>3, <1>5, <1>6, <1>7

\* Every call of the application is a Begins step.
LEMMA StartCases ==
  ASSUME TypeOK, ThreadInv, KnownInv, NEW t \in Threads, StartCall(t)
  PROVE  Begins(t)
<1>1. asked \in 0..MaxAsked /\ MaxAsked \in Nat
  BY BoundAssumption DEF TypeOK
<1>2. \A s \in Symbols : PlaceTask(s) \in Tasks /\ IdKnown(PlaceTask(s).oid)
  BY DEF PlaceTask, Tasks, IdKnown
<1>3. \A r \in Placed : /\ CancelTask(r) \in Tasks /\ r.task.sym \in Symbols
                       /\ IdKnown(CancelTask(r).oid)
  BY ResultTypes DEF Placed, CancelTask, Results, Tasks, KnownInv
<1>4. ASSUME NEW n \in 1..MaxAsked, NEW mode \in {"batch", "edit"},
             NEW todo \in Seq(Tasks), todo # <<>>, TasksKnown(todo),
             NewCall(t, n, mode, todo)
      PROVE  Begins(t)
  BY <1>1, <1>4 DEF NewCall, Begins
<1>5. CASE CreateOrders(t)
  <2>1. PICK n \in 1..MaxAsked : \E syms \in [1..n -> Symbols] :
          NewCall(t, n, "batch", [i \in 1..n |-> PlaceTask(syms[i])])
    BY <1>5 DEF CreateOrders
  <2>2. PICK syms \in [1..n -> Symbols] :
          NewCall(t, n, "batch", [i \in 1..n |-> PlaceTask(syms[i])])
    BY <2>1
  <2> DEFINE todo == [i \in 1..n |-> PlaceTask(syms[i])]
  <2>3. todo \in Seq(Tasks)
    BY <1>1, <1>2
  <2>4. todo # <<>>
    BY <1>1, EmptySeq, LenProperties, <2>3
  <2>5. TasksKnown(todo)
    BY <1>2 DEF TasksKnown
  <2> HIDE DEF todo
  <2>6. NewCall(t, n, "batch", todo)
    BY <2>2 DEF todo
  <2>7. QED
    BY <1>4, <2>3, <2>4, <2>5, <2>6
<1>6. CASE CancelOrders(t)
  <2>1. PICK n \in 1..MaxAsked : \E rs \in [1..n -> Placed] :
          NewCall(t, n, "batch", [i \in 1..n |-> CancelTask(rs[i])])
    BY <1>6 DEF CancelOrders
  <2>2. PICK rs \in [1..n -> Placed] :
          NewCall(t, n, "batch", [i \in 1..n |-> CancelTask(rs[i])])
    BY <2>1
  <2> DEFINE todo == [i \in 1..n |-> CancelTask(rs[i])]
  <2>3. todo \in Seq(Tasks)
    BY <1>1, <1>3
  <2>4. todo # <<>>
    BY <1>1, EmptySeq, LenProperties, <2>3
  <2>5. TasksKnown(todo)
    BY <1>3 DEF TasksKnown
  <2> HIDE DEF todo
  <2>6. NewCall(t, n, "batch", todo)
    BY <2>2 DEF todo
  <2>7. QED
    BY <1>4, <2>3, <2>4, <2>5, <2>6
<1>7. CASE EditOrder(t)
  <2>1. PICK r \in Placed :
          NewCall(t, 1, "edit", <<CancelTask(r), PlaceTask(r.task.sym)>>)
    BY <1>7 DEF EditOrder
  <2> DEFINE c == CancelTask(r)
             p == PlaceTask(r.task.sym)
  <2>2. c \in Tasks /\ p \in Tasks /\ IdKnown(c.oid) /\ IdKnown(p.oid)
    BY <1>2, <1>3
  <2>3. NewCall(t, 1, "edit", <<c, p>>)
    BY <2>1
  <2> HIDE DEF c, p
  <2>4. <<c, p>> \in Seq(Tasks) /\ <<c, p>> # <<>> /\ TasksKnown(<<c, p>>)
    BY <2>2 DEF TasksKnown
  <2>5. 1 \in 1..MaxAsked
    BY <1>1, <2>3 DEF NewCall
  <2>6. QED
    BY <1>4, <2>3, <2>4, <2>5
<1>8. QED
  BY <1>5, <1>6, <1>7 DEF StartCall

\* There are no more orders than requests.
LEMMA OrderIdsBounded ==
  ASSUME TypeOK, WireInv
  PROVE  /\ Len(orders) \in Nat /\ Len(orders) <= posts
         /\ DOMAIN orders = 1..Len(orders)
         /\ DOMAIN orders \subseteq 1..MaxPosts
<1>1. Cardinality(flight) \in Nat
  BY FS_CardinalityType DEF WireInv
<1>2. /\ Len(orders) \in Nat /\ DOMAIN orders = 1..Len(orders)
      /\ posts \in 0..MaxPosts /\ MaxPosts \in Nat
  BY LenProperties, BoundAssumption DEF TypeOK
<1>3. QED
  BY <1>1, <1>2 DEF WireInv

\* A lookup that gave an asset ends the call or goes on with that asset.
LEMMA ResolveCases ==
  ASSUME TypeOK, NEW t \in Threads, NEW asset, Resolve(t, asset)
  PROVE  \/ /\ asset # 0 \/ Task(t).sym = Sol
            /\ req' = [req EXCEPT ![t].asset = asset]
            /\ pc' = [pc EXCEPT ![t] = "stamp"]
            /\ UNCHANGED <<lock, job, returned>>
         \/ Finish(t, Result(t, "symbol", None, FALSE))
BY DEF Resolve

\* Every step of a call is one of six kinds.
LEMMA CallCases ==
  ASSUME TypeOK, ThreadInv, WireInv, WaitInv, NEW t \in Threads, CallStep(t)
  PROVE  \/ Lock(t) \/ Copied(t) \/ Found(t) \/ Stamp(t) \/ Post(t)
         \/ Finishes(t)
<1>1. pc[t] # "idle" => Task(t) \in Tasks
  <2>1. job[t].todo \in Seq(Tasks)
    BY DEF TypeOK, Jobs
  <2>2. QED
    BY <2>1, HeadTailProperties DEF Task, ThreadInv, ThreadOK
<1>2. req[t].id \in Nat /\ req[t].asset \in AssetIds
  BY DEF TypeOK, Drafts
<1>3. \A err \in Errors, oid \in Int \cup {None}, c \in BOOLEAN :
        pc[t] # "idle" => Result(t, err, oid, c) \in Results
  BY <1>1, <1>2 DEF Result, Results
<1>4. \A err, oid, c :
        /\ Result(t, err, oid, c).post = req[t].id
        /\ Result(t, err, oid, c).asset = req[t].asset
        /\ Result(t, err, oid, c).oid = oid
        /\ Result(t, err, oid, c).err = err
        /\ Result(t, err, oid, c).cancelled = c
        /\ Result(t, err, oid, c).task = Task(t)
  BY DEF Result
<1>5. ASSUME NEW err \in Errors, pc[t] \in InCall,
             Finish(t, Result(t, err, None, FALSE)),
             answers' \subseteq answers, coinBuf' \in {coinBuf, None},
             UNCHANGED <<listing, asked, clock, posts, flight, exchangeVars>>
      PROVE  Finishes(t)
  <2> DEFINE r == Result(t, err, None, FALSE)
  <2>1. r \in Results
    BY <1>3, <1>5 DEF InCall
  <2>2. /\ r.post = req[t].id /\ r.task = Task(t) /\ r.oid = None
        /\ r.cancelled = FALSE
    BY DEF Result
  <2> HIDE DEF r
  <2>3. TellsTrue(t, r)
    BY <2>2 DEF TellsTrue, Honest, Unconfirmed
  <2>4. QED
    BY <1>5, <2>1, <2>3 DEF Finishes, r
<1>6. Hangup(t) => answers' \subseteq answers
  BY DEF Hangup
<1>7. CASE FetchMarkets(t)
  <2>1. /\ pc[t] = "fetch"
        /\ UNCHANGED <<listing, asked, clock, posts, flight, answers,
                       exchangeVars>>
    BY <1>7 DEF FetchMarkets
  <2>2. CASE Resolve(t, 0) /\ UNCHANGED coinBuf
    <3>1. CASE Finish(t, Result(t, "symbol", None, FALSE))
      BY <1>5, <2>1, <2>2, <3>1 DEF InCall, Pcs, Errors
    <3>2. CASE /\ Task(t).sym = Sol
               /\ req' = [req EXCEPT ![t].asset = 0]
               /\ pc' = [pc EXCEPT ![t] = "stamp"]
               /\ UNCHANGED <<lock, job, returned>>
      BY <2>1, <2>2, <3>2, AssetAssumption DEF Found, Named
    <3>3. QED
      BY <2>2, <3>1, <3>2, ResolveCases
  <2>3. CASE /\ coinBuf' = Task(t).sym
             /\ pc' = [pc EXCEPT ![t] = "find"]
             /\ UNCHANGED <<lock, job, req, returned>>
    BY <2>1, <2>3 DEF Copied
  <2>4. QED
    BY <1>7, <2>2, <2>3 DEF FetchMarkets
<1>8. CASE FindAsset(t)
  <2> DEFINE asset == IF Listed(coinBuf) THEN listing[coinBuf] ELSE 0
  <2>1. /\ pc[t] = "find" /\ Resolve(t, asset)
        /\ coinBuf' \in {coinBuf, None}
        /\ UNCHANGED <<listing, asked, clock, posts, flight, answers,
                       exchangeVars>>
    BY <1>8 DEF FindAsset
  <2>2. asset \in AssetIds
    BY AssetAssumption DEF Listed, TypeOK
  <2>3. coinBuf = Task(t).sym /\ (asset # 0 \/ Task(t).sym = Sol)
          => Named(Task(t).sym, asset)
    BY DEF Listed, Named
  <2> HIDE DEF asset
  <2>4. CASE Finish(t, Result(t, "symbol", None, FALSE))
    BY <1>5, <2>1, <2>4 DEF InCall, Pcs, Errors
  <2>5. CASE /\ asset # 0 \/ Task(t).sym = Sol
             /\ req' = [req EXCEPT ![t].asset = asset]
             /\ pc' = [pc EXCEPT ![t] = "stamp"]
             /\ UNCHANGED <<lock, job, returned>>
    BY <2>1, <2>2, <2>3, <2>5 DEF Found
  <2>6. QED
    BY <2>1, <2>4, <2>5, ResolveCases
<1>9. CASE SignFails(t)
  BY <1>9, <1>5 DEF SignFails, InCall, Pcs, Errors
<1>10. CASE PostFails(t)
  BY <1>10, <1>5, <1>6 DEF PostFails, InCall, Pcs, Errors
<1>11. CASE BadStatus(t)
  BY <1>11, <1>5, <1>6 DEF BadStatus, InCall, Pcs, Errors
<1>12. CASE EmptyBody(t)
  BY <1>12, <1>5, <1>6 DEF EmptyBody, InCall, Pcs, Errors
<1>13. CASE Receive(t)
  <2> DEFINE placed(a) == Task(t).op = "place" /\ a.oid # None
             cancelled(a) == Task(t).op = "cancel" /\ a.ok
             result(a) ==
               Result(t,
                      IF placed(a) \/ cancelled(a) THEN "success" ELSE "api",
                      IF placed(a) THEN ParseOid(a.oid) ELSE None,
                      cancelled(a))
  <2>1. PICK a \in Answered(t) : Finish(t, result(a))
    BY <1>13 DEF Receive
  <2>2. /\ pc[t] = "wait" /\ coinBuf' = coinBuf
        /\ answers' \subseteq answers
        /\ UNCHANGED <<listing, asked, clock, posts, flight, exchangeVars>>
    BY <1>13, <1>6 DEF Receive
  <2>3. /\ a \in answers /\ a.id = req[t].id
        /\ a.oid \in Nat \cup {None} /\ a.ok \in BOOLEAN
    BY <2>1 DEF Answered, TypeOK
  <2>4. placed(a) => /\ a.oid \in DOMAIN orders
                     /\ orders[a.oid].by = req[t].id
                     /\ ParseOid(a.oid) \in Int
    BY <2>3, ParseOidFacts DEF WireInv
  <2>5. cancelled(a) => OffBook(Task(t).oid, req[t].asset)
    BY <2>2, <2>3 DEF WaitInv, Confirms
  <2>6. result(a) \in Results
    <3>1. (IF placed(a) THEN ParseOid(a.oid) ELSE None) \in Int \cup {None}
      BY <2>3, <2>4
    <3>2. (IF placed(a) \/ cancelled(a) THEN "success" ELSE "api") \in Errors
      BY DEF Errors
    <3>3. cancelled(a) \in BOOLEAN
      BY <2>3
    <3>4. pc[t] # "idle"
      BY <2>2
    <3> HIDE DEF placed, cancelled
    <3>5. QED
      BY <1>3, <3>1, <3>2, <3>3, <3>4
  <2>7. /\ result(a).post = req[t].id /\ result(a).task = Task(t)
        /\ result(a).asset = req[t].asset
        /\ result(a).oid # None => placed(a) /\ result(a).oid = ParseOid(a.oid)
        /\ result(a).err = "success" => placed(a) \/ cancelled(a)
    BY <1>4, <2>4
  <2>8. Honest(result(a))
    <3>1. placed(a) => Task(t).op = "place"
      OBVIOUS
    <3>2. cancelled(a) => Task(t).op = "cancel"
      OBVIOUS
    <3> HIDE DEF result, placed, cancelled
    <3>3. QED
      BY <2>4, <2>5, <2>7, <3>1, <3>2 DEF Honest, Settled
  <2> HIDE DEF result, placed, cancelled
  <2>9. TellsTrue(t, result(a))
    BY <2>2, <2>4, <2>7, <2>8 DEF TellsTrue
  <2>10. pc[t] \in InCall
    BY <2>2 DEF InCall, Pcs
  <2>11. QED
    BY <2>1, <2>2, <2>6, <2>9, <2>10 DEF Finishes
<1>14. QED
  BY <1>7, <1>8, <1>9, <1>10, <1>11, <1>12, <1>13 DEF CallStep

\* Every step of the system is one of thirteen kinds.
LEMMA StepCases ==
  ASSUME TypeOK, ThreadInv, WireInv, KnownInv, WaitInv, [Next]_vars
  PROVE  \/ \E t \in Threads : Begins(t)
         \/ \E t \in Threads : Lock(t)
         \/ \E t \in Threads : Copied(t)
         \/ \E t \in Threads : Found(t)
         \/ \E t \in Threads : Stamp(t)
         \/ \E t \in Threads : Post(t)
         \/ \E t \in Threads : Finishes(t)
         \/ \E s \in Symbols \cup {None} : Intrude(s)
         \/ \E r \in flight : Execute(r)
         \/ \E r \in flight : Lose(r)
         \/ \E o \in DOMAIN orders : Fill(o)
         \/ Tick
         \/ UNCHANGED vars
<1>1. ASSUME NEW t \in Threads, StartCall(t) PROVE Begins(t)
  BY <1>1, StartCases
<1>2. ASSUME NEW t \in Threads, CallStep(t)
      PROVE  \/ Lock(t) \/ Copied(t) \/ Found(t) \/ Stamp(t) \/ Post(t)
             \/ Finishes(t)
  BY <1>2, CallCases
<1>3. QED
  BY <1>1, <1>2 DEF Next

\* A thread inside the library has a task.
LEMMA CurrentTask ==
  ASSUME TypeOK, ThreadInv, NEW t \in Threads, pc[t] # "idle"
  PROVE  Task(t) \in Tasks
<1>1. job[t].todo \in Seq(Tasks) /\ job[t].todo # <<>>
  BY DEF TypeOK, Jobs, ThreadInv, ThreadOK
<1>2. QED
  BY <1>1, HeadTailProperties DEF Task

-----------------------------------------------------------------------------
(* The invariant is inductive. *)

\* Every step keeps the types.
LEMMA TypeStep ==
  ASSUME IInv, [Next]_vars
  PROVE  TypeOK'
<1> USE DEF IInv
<1>1. ASSUME NEW t \in Threads, Begins(t)
      PROVE  TypeOK'
  <2>1. pc' \in [Threads -> Pcs] /\ job' \in [Threads -> Jobs]
    BY <1>1, BeginEffect DEF TypeOK, Pcs
  <2>2. asked' \in 0..MaxAsked
        /\ UNCHANGED <<listing, clock, lock, coinBuf, req, posts, flight,
                       answers, exchangeVars, returned>>
    BY <1>1 DEF Begins, Begin
  <2>3. QED
    BY <2>1, <2>2 DEF TypeOK, exchangeVars
<1>2. ASSUME NEW t \in Threads, Lock(t)
      PROVE  TypeOK'
  BY <1>2 DEF Lock, TypeOK, Pcs, exchangeVars
<1>3. ASSUME NEW t \in Threads, Found(t)
      PROVE  TypeOK'
  <2>1. PICK asset \in AssetIds : req' = [req EXCEPT ![t].asset = asset]
    BY <1>3 DEF Found
  <2>2. req' \in [Threads -> Drafts]
    BY <2>1 DEF TypeOK, Drafts
  <2>3. pc' \in [Threads -> Pcs] /\ coinBuf' \in Symbols \cup {None}
    BY <1>3 DEF Found, TypeOK, Pcs
  <2>4. QED
    BY <1>3, <2>2, <2>3 DEF Found, TypeOK, exchangeVars
<1>3a. ASSUME NEW t \in Threads, Copied(t)
       PROVE  TypeOK'
  <2>1. pc' \in [Threads -> Pcs] /\ coinBuf' \in Symbols
    BY <1>3a, CurrentTask DEF Copied, TypeOK, Pcs, Tasks
  <2>2. QED
    BY <1>3a, <2>1 DEF Copied, TypeOK, exchangeVars
<1>3b. ASSUME NEW s \in Symbols \cup {None}, Intrude(s)
       PROVE  TypeOK'
  <2>1. req' \in [Threads -> Drafts]
    <3>1. \A t \in Threads : /\ req[t] \in Drafts
                             /\ [req[t] EXCEPT !.torn = TRUE] \in Drafts
      BY DEF TypeOK, Drafts
    <3>2. QED
      BY <1>3b, <3>1 DEF Intrude
  <2>2. QED
    BY <1>3b, <2>1 DEF Intrude, TypeOK, exchangeVars
<1>4. ASSUME NEW t \in Threads, Stamp(t)
      PROVE  TypeOK'
  <2>1. req' \in [Threads -> Drafts]
    <3>1. req \in [Threads -> Drafts]
          /\ clock \in Nat
      BY BoundAssumption DEF TypeOK
    <3>2. req' = [req EXCEPT ![t].nonce = clock]
      BY <1>4 DEF Stamp
    <3>3. QED
      BY <3>1, <3>2 DEF Drafts
  <2>2. pc' \in [Threads -> Pcs]
    BY <1>4 DEF Stamp, TypeOK, Pcs
  <2>3. QED
    BY <1>4, <2>1, <2>2 DEF Stamp, TypeOK, exchangeVars
<1>5. ASSUME NEW t \in Threads, Post(t)
      PROVE  TypeOK'
  <2>1. Task(t) \in Tasks
    BY <1>5, CurrentTask DEF Post
  <2>2. posts \in Nat /\ posts' = posts + 1 /\ posts' \in 0..MaxPosts
    BY <1>5, BoundAssumption DEF Post, TypeOK
  <2>3. req[t] \in Drafts
    BY DEF TypeOK
  <2>4. Request(t) \in Requests
    BY <2>1, <2>2, <2>3 DEF Request, Requests, Tasks, Drafts
  <2>5. flight' \subseteq Requests
    BY <1>5, <2>4 DEF Post, TypeOK
  <2>6. req' \in [Threads -> Drafts]
    <3>1. req \in [Threads -> Drafts]
          /\ posts + 1 \in Nat
      BY <2>2 DEF TypeOK
    <3>2. req' = [req EXCEPT ![t].id = posts + 1]
      BY <1>5 DEF Post
    <3>3. QED
      BY <3>1, <3>2 DEF Drafts
  <2>7. pc' \in [Threads -> Pcs]
    BY <1>5 DEF Post, TypeOK, Pcs
  <2>8. QED
    BY <1>5, <2>2, <2>5, <2>6, <2>7 DEF Post, TypeOK, exchangeVars
<1>6. ASSUME NEW t \in Threads, Finishes(t)
      PROVE  TypeOK'
  <2>1. PICK r \in Results : Finish(t, r)
    BY <1>6 DEF Finishes
  <2>2. /\ lock' = None
        /\ req' = [req EXCEPT ![t] = NoReq]
        /\ pc' \in [Threads -> Pcs]
        /\ job' \in [Threads -> Jobs]
        /\ returned' \subseteq Jobs
    BY <1>6, <2>1, FinishEffect DEF Finishes
  <2>3. NoReq \in Drafts
    BY AssetAssumption DEF NoReq, Drafts
  <2>4. req' \in [Threads -> Drafts]
    BY <2>2, <2>3 DEF TypeOK
  <2>5. coinBuf' \in Symbols \cup {None}
    BY <1>6 DEF Finishes, TypeOK
  <2>6. QED
    BY <1>6, <2>2, <2>4, <2>5 DEF Finishes, TypeOK, exchangeVars
<1>7. ASSUME NEW r \in flight, Execute(r)
      PROVE  TypeOK'
  <2>1. r \in Requests /\ r.id \in Nat /\ r.nonce \in Nat
    BY DEF TypeOK, Requests
  <2>2. Len(orders) + 1 \in Nat
    BY LenProperties DEF TypeOK
  <2>3. \A ok \in BOOLEAN, oid \in Nat \cup {None} : Answer(r, ok, oid) =>
          answers' \subseteq [id : Nat, ok : BOOLEAN, oid : Nat \cup {None}]
    BY <2>1 DEF Answer, TypeOK
  <2>4. answers' \subseteq [id : Nat, ok : BOOLEAN, oid : Nat \cup {None}]
    BY <1>7, <2>2, <2>3
    DEF Execute, RefuseNonce, AcceptOrder, RefuseOrder, HandleCancel
  <2>5. orders' \in Seq(Orders)
    <3>1. CASE AcceptOrder(r)
      <4>1. PICK s \in {"resting", "filled"} :
              orders' = Append(orders, [asset |-> r.asset, by |-> r.id,
                                        status |-> s])
        BY <3>1 DEF AcceptOrder
      <4>2. [asset |-> r.asset, by |-> r.id, status |-> s] \in Orders
        BY <2>1 DEF Requests, Orders
      <4>3. orders \in Seq(Orders)
        BY DEF TypeOK
      <4>4. QED
        BY <4>1, <4>2, <4>3, AppendSeq
    <3>2. CASE orders' = [orders EXCEPT ![r.oid].status = "cancelled"]
               /\ Cancellable(r)
      <4>1. r.oid \in DOMAIN orders /\ orders \in Seq(Orders)
        BY <3>2 DEF Cancellable, TypeOK
      <4>2. orders[r.oid] \in Orders /\ r.oid \in 1..Len(orders)
        BY <4>1, LenProperties
      <4>3. [orders[r.oid] EXCEPT !.status = "cancelled"] \in Orders
        BY <4>2 DEF Orders
      <4>4. QED
        BY <3>2, <4>1, <4>2, <4>3, ExceptSeq
    <3>3. QED
      BY <1>7, <3>1, <3>2 DEF Execute, RefuseNonce, RefuseOrder, HandleCancel,
                              TypeOK, exchangeVars
  <2>6. nonces' \subseteq Nat
    BY <1>7, <2>1 DEF Execute, RefuseNonce, AcceptOrder, RefuseOrder,
                      HandleCancel, TypeOK, exchangeVars
  <2>7. flight' \subseteq flight
        /\ UNCHANGED <<listing, asked, clock, posts, clientVars>>
    BY <1>7 DEF Execute
  <2>8. QED
    BY <2>4, <2>5, <2>6, <2>7 DEF TypeOK, clientVars
<1>8. ASSUME NEW r \in flight, Lose(r)
      PROVE  TypeOK'
  BY <1>8 DEF Lose, TypeOK, clientVars, exchangeVars
<1>9. ASSUME NEW o \in DOMAIN orders, Fill(o)
      PROVE  TypeOK'
  <2>1. orders \in Seq(Orders) /\ o \in 1..Len(orders)
    BY LenProperties DEF TypeOK
  <2>2. [orders[o] EXCEPT !.status = "filled"] \in Orders
    <3>1. orders[o] \in Orders
      BY <2>1, ElementOfSeq
    <3>2. QED
      BY <3>1 DEF Orders
  <2>3. orders' \in Seq(Orders)
    BY <1>9, <2>1, <2>2, ExceptSeq DEF Fill
  <2>4. QED
    BY <1>9, <2>3 DEF Fill, TypeOK, clientVars
<1>10. CASE Tick
  <2>1. clock' \in 0..MaxClock
    BY <1>10, BoundAssumption DEF Tick, TypeOK
  <2>2. QED
    BY <1>10, <2>1 DEF Tick, TypeOK, clientVars, exchangeVars
<1>11. CASE UNCHANGED vars
  BY <1>11 DEF vars, TypeOK
<1>12. QED
  BY <1>1, <1>2, <1>3, <1>3a, <1>3b, <1>4, <1>5, <1>6, <1>7, <1>8, <1>9,
     <1>10, <1>11, StepCases

\* The mutex is taken only when free and released on every way out.
LEMMA ThreadStep ==
  ASSUME IInv, [Next]_vars
  PROVE  ThreadInv'
<1> USE DEF IInv
<1> SUFFICES ASSUME NEW u \in Threads
             PROVE  ThreadOK(u)'
  BY DEF ThreadInv
<1>1. /\ pc \in [Threads -> Pcs]
      /\ req \in [Threads -> Drafts]
      /\ posts \in Nat /\ None \notin Threads
  BY BoundAssumption, NoneAssumption DEF TypeOK
<1>2. ASSUME NEW t \in Threads, Begins(t)
      PROVE  ThreadOK(u)'
  <2>1. lock' = lock /\ req' = req /\ posts' = posts
    BY <1>2 DEF Begins, Begin
  <2>2. QED
    BY <1>1, <1>2, <2>1, BeginEffect DEF ThreadInv, ThreadOK, InCall, Pcs
<1>3. ASSUME NEW t \in Threads, Lock(t)
      PROVE  ThreadOK(u)'
  BY <1>1, <1>3 DEF Lock, ThreadInv, ThreadOK, InCall, Pcs
<1>4. ASSUME NEW t \in Threads, Found(t) \/ Copied(t)
      PROVE  ThreadOK(u)'
  <2>1. req'[u].id = req[u].id
    BY <1>1, <1>4 DEF Found, Copied, Drafts
  <2>2. pc[t] \in {"fetch", "find"} /\ pc' \in {[pc EXCEPT ![t] = "find"],
                                               [pc EXCEPT ![t] = "stamp"]}
        /\ UNCHANGED <<lock, job, posts>>
    BY <1>4 DEF Found, Copied
  <2>3. QED
    BY <1>1, <2>1, <2>2 DEF ThreadInv, ThreadOK, InCall, Pcs
<1>5. ASSUME NEW t \in Threads, Stamp(t)
      PROVE  ThreadOK(u)'
  BY <1>1, <1>5 DEF Stamp, ThreadInv, ThreadOK, InCall, Pcs, Drafts
<1>6. ASSUME NEW t \in Threads, Post(t)
      PROVE  ThreadOK(u)'
  BY <1>1, <1>6 DEF Post, ThreadInv, ThreadOK, InCall, Pcs, Drafts
<1>7. ASSUME NEW t \in Threads, Finishes(t)
      PROVE  ThreadOK(u)'
  <2>1. PICK r \in Results : Finish(t, r)
    BY <1>7 DEF Finishes
  <2>2. pc[t] \in InCall /\ posts' = posts
    BY <1>7 DEF Finishes
  <2>3. NoReq.id = 0
    BY DEF NoReq
  <2>4. QED
    BY <1>1, <2>1, <2>2, <2>3, FinishEffect DEF ThreadInv, ThreadOK, InCall, Pcs
<1>8. CASE UNCHANGED <<lock, pc, job, req, posts>>
  BY <1>8 DEF ThreadInv, ThreadOK
<1>8a. ASSUME NEW s \in Symbols \cup {None}, Intrude(s)
       PROVE  ThreadOK(u)'
  <2>1. req'[u].id = req[u].id
    BY <1>1, <1>8a DEF Intrude, Drafts
  <2>2. UNCHANGED <<lock, pc, job, posts>>
    BY <1>8a DEF Intrude
  <2>3. QED
    BY <2>1, <2>2 DEF ThreadInv, ThreadOK
<1>9. QED
  BY <1>2, <1>3, <1>4, <1>5, <1>6, <1>7, <1>8, <1>8a, StepCases
  DEF Execute, Lose, Fill, Tick, vars, clientVars

\* An error of one order is not forgotten by the calls after it.
LEMMA CleanStep ==
  ASSUME IInv, [Next]_vars
  PROVE  CleanInv'
<1> USE DEF IInv
<1>1. ASSUME NEW t \in Threads, Begins(t)
      PROVE  CleanInv'
  BY <1>1, BeginEffect
<1>2. ASSUME NEW t \in Threads, Finishes(t)
      PROVE  CleanInv'
  BY <1>2, FinishEffect DEF Finishes
<1>3. CASE UNCHANGED <<job, returned>>
  BY <1>3 DEF CleanInv
<1>4. QED
  BY <1>1, <1>2, <1>3, StepCases
  DEF Lock, Copied, Found, Stamp, Post, Intrude, Execute, Lose, Fill, Tick,
      vars, clientVars

\* No order appears, and the old ones keep their asset and their request, and
\* do not come back to the book.
SameBook ==
  /\ Len(orders') = Len(orders)
  /\ DOMAIN orders' = DOMAIN orders
  /\ \A i \in DOMAIN orders :
       /\ orders'[i].by = orders[i].by
       /\ orders'[i].asset = orders[i].asset
       /\ orders'[i].status = "resting" => orders[i].status = "resting"

\* One order appears, made of request r.
Booked(r) ==
  /\ r.op = "place"
  /\ Len(orders') = Len(orders) + 1
  /\ DOMAIN orders' = DOMAIN orders \cup {Len(orders) + 1}
  /\ Len(orders) + 1 \notin DOMAIN orders
  /\ orders'[Len(orders) + 1].by = r.id
  /\ \A i \in DOMAIN orders : orders'[i] = orders[i]

\* A change of status leaves the book as it is otherwise.
LEMMA StatusChange ==
  ASSUME TypeOK, NEW o \in DOMAIN orders, NEW s, s # "resting",
         orders' = [orders EXCEPT ![o].status = s]
  PROVE  SameBook /\ orders'[o].status = s
<1>1. /\ orders \in Seq(Orders) /\ DOMAIN orders = 1..Len(orders)
      /\ Len(orders) \in Nat
  BY LenProperties DEF TypeOK
<1>2. \A i \in DOMAIN orders : orders[i] \in Orders
  BY <1>1, ElementOfSeq
<1>3. orders' \in [1..Len(orders) -> {orders'[i] : i \in DOMAIN orders}]
  BY <1>1
<1>4. Len(orders') = Len(orders)
  BY <1>1, <1>3
<1>5. \A i \in DOMAIN orders :
        /\ orders'[i].by = orders[i].by
        /\ orders'[i].asset = orders[i].asset
        /\ orders'[i].status = IF i = o THEN s ELSE orders[i].status
  BY <1>1, <1>2 DEF Orders
<1>6. QED
  BY <1>1, <1>3, <1>4, <1>5 DEF SameBook

\* Accepting a request adds its order at the end of the book.
LEMMA AcceptBooks ==
  ASSUME TypeOK, NEW r \in flight, AcceptOrder(r)
  PROVE  Booked(r)
<1>1. r \in Requests /\ orders \in Seq(Orders)
  BY DEF TypeOK
<1>2. PICK s \in {"resting", "filled"} :
        orders' = Append(orders, [asset |-> r.asset, by |-> r.id, status |-> s])
  BY DEF AcceptOrder
<1> DEFINE e == [asset |-> r.asset, by |-> r.id, status |-> s]
<1>3. e \in Orders /\ e.by = r.id /\ e.asset = r.asset
  BY <1>1 DEF Requests, Orders
<1> HIDE DEF e
<1>4. orders' = Append(orders, e)
  BY <1>2 DEF e
<1>5. Len(orders') = Len(orders) + 1
  BY <1>1, <1>3, <1>4, AppendProperties
<1>6. r.op = "place"
  BY DEF AcceptOrder
<1>7. QED
  BY <1>1, <1>3, <1>4, <1>5, <1>6, AppendSeq DEF Booked

\* A cancel that was handled leaves no such order on the book.
LEMMA CancelledOff ==
  ASSUME TypeOK, NEW r \in flight, HandleCancel(r)
  PROVE  SameBook /\ OffBook(r.oid, r.asset)'
<1>1. CASE Cancellable(r)
  <2>1. /\ r.oid \in DOMAIN orders
        /\ orders' = [orders EXCEPT ![r.oid].status = "cancelled"]
    BY <1>1 DEF Cancellable, HandleCancel
  <2>2. SameBook /\ orders'[r.oid].status = "cancelled"
    BY <2>1, StatusChange
  <2>3. QED
    BY <2>2 DEF OffBook
<1>2. CASE ~Cancellable(r)
  <2>1. orders' = orders
    BY <1>2 DEF HandleCancel
  <2>2. QED
    BY <1>2, <2>1 DEF Cancellable, SameBook, OffBook
<1>3. QED
  BY <1>1, <1>2

\* What an answer without an order id says of a cancel.
Heeded(r, ok) == ok /\ r.op = "cancel" => OffBook(r.oid, r.asset)'

\* Executing a request books one order or none; only an order has an id to
\* answer with.
LEMMA ExecuteCases ==
  ASSUME TypeOK, NEW r \in flight, Execute(r)
  PROVE  \/ Booked(r) /\ Answer(r, TRUE, Len(orders) + 1)
         \/ /\ SameBook
            /\ \E ok \in BOOLEAN : Answer(r, ok, None) /\ Heeded(r, ok)
<1>1. CASE AcceptOrder(r)
  BY <1>1, AcceptBooks DEF AcceptOrder
<1>2. orders' = orders => SameBook
  BY DEF SameBook
<1>3. CASE RefuseNonce(r)
  BY <1>2, <1>3 DEF RefuseNonce, exchangeVars, Heeded
<1>4. CASE RefuseOrder(r)
  BY <1>2, <1>4 DEF RefuseOrder, Heeded
<1>5. CASE HandleCancel(r)
  BY <1>5, CancelledOff DEF HandleCancel, Heeded
<1>6. QED
  BY <1>1, <1>3, <1>4, <1>5 DEF Execute

\* No request is executed twice, and answers tell the truth.
LEMMA WireStep ==
  ASSUME IInv, [Next]_vars
  PROVE  WireInv'
<1> USE DEF IInv
<1>1. /\ posts \in Nat /\ Len(orders) \in Nat /\ DOMAIN orders = 1..Len(orders)
      /\ IsFiniteSet(flight) /\ Cardinality(flight) \in Nat
  BY BoundAssumption, LenProperties, FS_CardinalityType DEF TypeOK, WireInv
<1>2. ASSUME NEW t \in Threads, Post(t)
      PROVE  WireInv'
  <2> DEFINE r == Request(t)
  <2>1. flight' = flight \cup {r} /\ r.id = posts + 1
    BY <1>2 DEF Post, Request
  <2>2. posts' = posts + 1 /\ orders' = orders /\ answers' = answers
    BY <1>2 DEF Post, exchangeVars
  <2>3. IsFiniteSet(flight') /\ Cardinality(flight') = Cardinality(flight) + 1
    <3> HIDE DEF r
    <3>1. r \notin flight
      BY <1>1, <2>1 DEF WireInv
    <3>2. QED
      BY <1>1, <2>1, <3>1, FS_AddElement
  <2> HIDE DEF r
  <2>4. QED
    BY <1>1, <2>1, <2>2, <2>3 DEF WireInv
<1>3. ASSUME NEW r \in flight, Execute(r)
      PROVE  WireInv'
  <2>1. flight' = flight \ {r} /\ posts' = posts
    BY <1>3 DEF Execute
  <2>2. IsFiniteSet(flight') /\ Cardinality(flight') = Cardinality(flight) - 1
    BY <1>1, <2>1, FS_RemoveElement
  <2>3. CASE Booked(r) /\ Answer(r, TRUE, Len(orders) + 1)
    <3>1. answers' \subseteq
            answers \cup {[id |-> r.id, ok |-> TRUE, oid |-> Len(orders) + 1]}
      BY <2>3 DEF Answer
    <3>2. \A a \in answers' : a.oid # None =>
            a.oid \in DOMAIN orders' /\ orders'[a.oid].by = a.id
      BY <2>3, <3>1 DEF WireInv, Booked
    <3>3. Len(orders') + Cardinality(flight') <= posts'
      BY <1>1, <2>1, <2>2, <2>3 DEF WireInv, Booked
    <3>4. \A o \in DOMAIN orders' :
            /\ orders'[o].by \in 1..posts'
            /\ \A q \in flight' : orders'[o].by # q.id
      BY <2>1, <2>3 DEF WireInv, Booked
    <3>5. \A o, p \in DOMAIN orders' : orders'[o].by = orders'[p].by => o = p
      BY <2>1, <2>3 DEF WireInv, Booked
    <3>6. \A a \in answers' : a.id \in 1..posts'
      BY <2>1, <3>1 DEF WireInv
    <3>7. QED
      BY <2>1, <2>2, <3>2, <3>3, <3>4, <3>5, <3>6 DEF WireInv
  <2>4. CASE /\ SameBook
             /\ \E ok \in BOOLEAN : Answer(r, ok, None) /\ Heeded(r, ok)
    <3>1. \A a \in answers' : a.oid # None => a \in answers
      BY <2>4 DEF Answer
    <3>2. Len(orders') + Cardinality(flight') <= posts'
      BY <1>1, <2>1, <2>2, <2>4 DEF WireInv, SameBook
    <3>3. \A a \in answers' : a.id \in 1..posts'
      BY <2>1, <2>4 DEF WireInv, Answer
    <3>4. QED
      BY <2>1, <2>2, <2>4, <3>1, <3>2, <3>3 DEF WireInv, SameBook
  <2>5. QED
    BY <1>3, <2>3, <2>4, ExecuteCases
<1>4. ASSUME NEW r \in flight, Lose(r)
      PROVE  WireInv'
  <2>1. flight' = flight \ {r} /\ posts' = posts /\ answers' = answers
        /\ orders' = orders
    BY <1>4 DEF Lose, exchangeVars
  <2>2. IsFiniteSet(flight') /\ Cardinality(flight') = Cardinality(flight) - 1
    BY <1>1, <2>1, FS_RemoveElement
  <2>3. QED
    BY <1>1, <2>1, <2>2 DEF WireInv
<1>5. ASSUME NEW o \in DOMAIN orders, Fill(o)
      PROVE  WireInv'
  <2>1. SameBook
    BY <1>5, StatusChange DEF Fill
  <2>2. flight' = flight /\ posts' = posts /\ answers' = answers
    BY <1>5 DEF Fill
  <2>3. QED
    BY <2>1, <2>2 DEF WireInv, SameBook
<1>6. CASE answers' \subseteq answers /\ UNCHANGED <<flight, posts, orders>>
  BY <1>6 DEF WireInv
<1>7. QED
  BY <1>2, <1>3, <1>4, <1>5, <1>6, StepCases
  DEF Begins, Begin, Lock, Copied, Found, Stamp, Finishes, Intrude, Tick, vars,
      exchangeVars

\* Results change only with the jobs.
LEMMA ResultsKept ==
  ASSUME UNCHANGED <<job, returned>>
  PROVE  AllResults' = AllResults
BY DEF AllResults, ResultsOf

\* Orders are never taken away or given to another request.
LEMMA ReportsKept ==
  ASSUME ReadOids, AllResults' = AllResults, NEW r, SameBook \/ Booked(r)
  PROVE  ReadOids'
BY DEF ReadOids, Placed, SameBook, Booked, ParseOid

\* An id is reported once, by the thread that waited for it.
LEMMA ReportStep ==
  ASSUME IInv, [Next]_vars
  PROVE  ReportInv'
<1> USE DEF IInv
<1>1. /\ posts \in Nat /\ pc \in [Threads -> Pcs]
      /\ req \in [Threads -> Drafts]
  BY BoundAssumption DEF TypeOK
<1>2. UNCHANGED orders => SameBook
  BY DEF SameBook
<1>3. ASSUME NEW t \in Threads, Begins(t)
      PROVE  ReportInv'
  <2>1. /\ AllResults' = AllResults /\ pc' = [pc EXCEPT ![t] = "lock"]
        /\ UNCHANGED <<req, posts, orders>>
    BY <1>3, BeginEffect DEF Begins, Begin, exchangeVars
  <2>2. QED
    BY <1>1, <1>2, <2>1, ReportsKept DEF ReportInv
<1>4. ASSUME NEW t \in Threads, Post(t)
      PROVE  ReportInv'
  <2>1. /\ AllResults' = AllResults
        /\ posts' = posts + 1
        /\ req' = [req EXCEPT ![t].id = posts + 1]
        /\ pc' = [pc EXCEPT ![t] = "wait"]
        /\ orders' = orders
    BY <1>4, ResultsKept DEF Post, exchangeVars
  <2>2. \A r \in AllResults :
          /\ r.post \in 0..posts'
          /\ \A u \in Threads : pc'[u] = "wait" => r.post # req'[u].id
    BY <1>1, <2>1 DEF ReportInv
  <2>3. QED
    BY <1>2, <2>1, <2>2, ReportsKept DEF ReportInv
<1>5. ASSUME NEW t \in Threads, Finishes(t)
      PROVE  ReportInv'
  <2>1. PICK r \in Results :
          /\ Finish(t, r)
          /\ r.post = req[t].id
          /\ r.oid # None =>
               \E o \in DOMAIN orders :
                 orders[o].by = r.post /\ r.oid = ParseOid(o)
    BY <1>5 DEF Finishes, TellsTrue
  <2>2. pc[t] \in InCall /\ posts' = posts /\ orders' = orders
    BY <1>5 DEF Finishes, exchangeVars
  <2>3. /\ AllResults' = AllResults \cup {r}
        /\ req' = [req EXCEPT ![t] = NoReq]
        /\ pc'[t] \in {"idle", "lock"}
        /\ \A u \in Threads \ {t} : pc'[u] = pc[u]
    BY <2>1, <2>2, FinishEffect
  <2>4. \A u \in Threads \ {t} : pc[u] # "wait"
    BY <2>2 DEF ThreadInv, ThreadOK, InCall, Pcs
  <2>5. r.post \in 0..posts
    BY <1>1, <2>1 DEF ThreadInv, ThreadOK
  <2>6. ReadOids'
    BY <2>1, <2>2, <2>3 DEF ReportInv, ReadOids, Placed, ParseOid
  <2>7. QED
    BY <2>2, <2>3, <2>4, <2>5, <2>6 DEF ReportInv
<1>6. ASSUME NEW t \in Threads,
             Lock(t) \/ Copied(t) \/ Found(t) \/ Stamp(t)
      PROVE  ReportInv'
  <2>1. /\ AllResults' = AllResults /\ UNCHANGED <<posts, orders>>
        /\ pc[t] # "wait" /\ pc'[t] # "wait"
        /\ \A u \in Threads \ {t} : pc'[u] = pc[u] /\ req'[u] = req[u]
    BY <1>1, <1>6, ResultsKept DEF Lock, Copied, Found, Stamp, exchangeVars
  <2>2. QED
    BY <1>2, <2>1, ReportsKept DEF ReportInv
<1>7. ASSUME SameBook \/ \E r : Booked(r),
             UNCHANGED <<pc, job, req, posts, returned>>
      PROVE  ReportInv'
  BY <1>7, ResultsKept, ReportsKept DEF ReportInv
<1>8. ASSUME NEW r \in flight, Execute(r)
      PROVE  ReportInv'
  BY <1>7, <1>8, ExecuteCases DEF Execute, clientVars
<1>9. ASSUME NEW o \in DOMAIN orders, Fill(o)
      PROVE  ReportInv'
  BY <1>7, <1>9, StatusChange DEF Fill, clientVars
<1>9a. ASSUME NEW s \in Symbols \cup {None}, Intrude(s)
       PROVE  ReportInv'
  <2>1. UNCHANGED <<pc, job, returned, posts, orders>>
        /\ \A u \in Threads : req'[u].id = req[u].id
    BY <1>1, <1>9a DEF Intrude, exchangeVars, Drafts
  <2>2. QED
    BY <1>2, <2>1, ResultsKept, ReportsKept DEF ReportInv
<1>10. QED
  BY <1>2, <1>3, <1>4, <1>5, <1>6, <1>7, <1>8, <1>9, <1>9a, StepCases
  DEF Lose, Tick, vars, clientVars, exchangeVars

\* Nobody posts between the stamp and the POST of another thread.
LEMMA StampStep ==
  ASSUME IInv, [Next]_vars
  PROVE  StampInv'
<1> USE DEF IInv
<1>1. /\ pc \in [Threads -> Pcs] /\ clock \in Nat /\ posts \in Nat
      /\ req \in [Threads -> Drafts]
      /\ \A r \in flight : r.nonce \in Nat /\ r.id \in Nat
  BY BoundAssumption DEF TypeOK, Requests
<1>2. ASSUME NEW t \in Threads, Stamp(t)
      PROVE  StampInv'
  BY <1>1, <1>2 DEF Stamp, StampInv, NoncesInOrder, Drafts
<1>3. ASSUME NEW t \in Threads, Post(t)
      PROVE  StampInv'
  <2> DEFINE n == Request(t)
  <2>1. n.id = posts + 1 /\ n.nonce = req[t].nonce /\ flight' = flight \cup {n}
    BY <1>3 DEF Post, Request
  <2> HIDE DEF n
  <2>2. /\ clock' = clock /\ pc[t] = "sign"
        /\ \A u \in Threads \ {t} : pc'[u] # "sign"
        /\ pc'[t] = "wait"
    BY <1>1, <1>3 DEF Post, ThreadInv, ThreadOK, InCall, Pcs
  <2>3. \A r \in flight : r.id <= posts
    BY <1>1 DEF WireInv
  <2>4. NoncesInOrder'
    BY <1>1, <2>1, <2>2, <2>3 DEF StampInv, NoncesInOrder
  <2>5. QED
    BY <1>1, <2>1, <2>2, <2>4 DEF StampInv
<1>4. ASSUME NEW t \in Threads,
             Begins(t) \/ Lock(t) \/ Copied(t) \/ Found(t) \/ Finishes(t)
      PROVE  StampInv'
  <2>1. flight' = flight /\ clock' = clock
    BY <1>4 DEF Begins, Begin, Lock, Copied, Found, Finishes
  <2>2. /\ pc'[t] # "sign"
        /\ \A u \in Threads \ {t} : pc'[u] = pc[u] /\ req'[u] = req[u]
    <3>1. CASE Begins(t)
      BY <1>1, <3>1, BeginEffect DEF Begins, Begin
    <3>2. CASE Lock(t) \/ Copied(t) \/ Found(t)
      BY <1>1, <3>2 DEF Lock, Copied, Found
    <3>3. CASE Finishes(t)
      <4>1. PICK r \in Results : Finish(t, r)
        BY <3>3 DEF Finishes
      <4>2. QED
        BY <1>1, <3>3, <4>1, FinishEffect DEF Finishes
    <3>4. QED
      BY <1>4, <3>1, <3>2, <3>3
  <2>3. QED
    BY <2>1, <2>2 DEF StampInv, NoncesInOrder
<1>5. CASE Tick
  BY <1>1, <1>5 DEF Tick, StampInv, NoncesInOrder, clientVars, Drafts
<1>6. CASE flight' \subseteq flight /\ UNCHANGED <<clock, pc, req>>
  BY <1>6 DEF StampInv, NoncesInOrder
<1>6a. ASSUME NEW s \in Symbols \cup {None}, Intrude(s)
       PROVE  StampInv'
  <2>1. UNCHANGED <<flight, clock, pc>>
        /\ \A u \in Threads : pc[u] = "sign" => req'[u] = req[u]
    BY <1>1, <1>6a DEF Intrude
  <2>2. QED
    BY <2>1 DEF StampInv, NoncesInOrder
<1>7. QED
  BY <1>2, <1>3, <1>4, <1>5, <1>6, <1>6a, StepCases
  DEF Execute, Lose, Fill, vars, clientVars

\* The buffer holds the coin of the thread that looks it up, or is torn; no
\* step but the lookup decides on an asset id.
LEMMA AssetStep ==
  ASSUME IInv, [Next]_vars
  PROVE  AssetInv'
<1> USE DEF IInv
<1> DEFINE looks(u) == pc[u] = "find" => req[u].torn \/ coinBuf = Task(u).sym
           meant(u) == pc[u] \in {"stamp", "sign"} =>
                         req[u].torn \/ Named(Task(u).sym, req[u].asset)
<1>1. /\ pc \in [Threads -> Pcs] /\ job \in [Threads -> Jobs]
      /\ req \in [Threads -> Drafts]
  BY DEF TypeOK
<1>2. listing' = listing
  BY StepCases DEF Begins, Begin, Lock, Copied, Found, Stamp, Post, Finishes,
                   Intrude, Execute, Lose, Fill, Tick, vars
<1>3. \A s, a : Named(s, a)' <=> Named(s, a)
  BY <1>2 DEF Named
<1>4. \A u \in Threads : looks(u) /\ meant(u)
  BY DEF AssetInv
<1>5. ASSUME \A r \in flight' : r \in flight \/ r.torn \/ Named(r.sym, r.asset),
             \A u \in Threads : looks(u)' /\ meant(u)'
      PROVE  AssetInv'
  BY <1>3, <1>5 DEF AssetInv
<1>6. \A t, u \in Threads : pc[t] \in InCall /\ pc[u] \in InCall => t = u
  BY DEF ThreadInv, ThreadOK
<1>7. ASSUME NEW t \in Threads, flight' = flight,
             pc[t] \in InCall \/ coinBuf' = coinBuf,
             \A u \in Threads \ {t} :
               pc'[u] = pc[u] /\ req'[u] = req[u] /\ job'[u] = job[u],
             looks(t)' /\ meant(t)'
      PROVE  AssetInv'
  <2>1. ASSUME NEW u \in Threads \ {t}
        PROVE  looks(u)' /\ meant(u)'
    <3>1. Task(u)' = Task(u) /\ pc'[u] = pc[u] /\ req'[u] = req[u]
      BY <1>7 DEF Task
    <3>2. pc[u] = "find" => coinBuf' = coinBuf
      BY <1>6, <1>7 DEF InCall, Pcs
    <3>3. QED
      BY <1>3, <1>4, <3>1, <3>2
  <2>2. \A u \in Threads : looks(u)' /\ meant(u)'
    BY <1>7, <2>1
  <2> HIDE DEF looks, meant
  <2>3. QED
    BY <1>5, <1>7, <2>2
<1>8. ASSUME NEW t \in Threads, Copied(t)
      PROVE  AssetInv'
  <2>1. /\ flight' = flight /\ job' = job /\ req' = req /\ pc[t] \in InCall
        /\ pc' = [pc EXCEPT ![t] = "find"] /\ coinBuf' = Task(t).sym
    BY <1>8 DEF Copied, InCall, Pcs
  <2>2. Task(t)' = Task(t) /\ pc'[t] = "find"
    BY <1>1, <2>1 DEF Task
  <2>3. looks(t)' /\ meant(t)'
    BY <2>1, <2>2
  <2> HIDE DEF looks, meant
  <2>4. QED
    BY <1>1, <1>7, <2>1, <2>3
<1>9. ASSUME NEW t \in Threads, Found(t)
      PROVE  AssetInv'
  <2>1. PICK asset \in AssetIds :
          /\ pc[t] = "fetch" \/ coinBuf = Task(t).sym
               => Named(Task(t).sym, asset)
          /\ req' = [req EXCEPT ![t].asset = asset]
    BY <1>9 DEF Found
  <2>2. /\ flight' = flight /\ job' = job /\ pc[t] \in {"fetch", "find"}
        /\ pc' = [pc EXCEPT ![t] = "stamp"]
    BY <1>9 DEF Found
  <2>3. /\ Task(t)' = Task(t) /\ pc'[t] = "stamp"
        /\ req'[t].torn = req[t].torn /\ req'[t].asset = asset
    BY <1>1, <2>1, <2>2 DEF Task, Drafts
  <2>4. req[t].torn \/ Named(Task(t).sym, asset)
    BY <1>4, <2>1, <2>2
  <2>5. looks(t)' /\ meant(t)'
    BY <1>3, <2>3, <2>4
  <2>6. pc[t] \in InCall
    BY <2>2 DEF InCall, Pcs
  <2> HIDE DEF looks, meant
  <2>7. QED
    BY <1>1, <1>7, <2>1, <2>2, <2>5, <2>6
<1>10. ASSUME NEW t \in Threads, Stamp(t)
       PROVE  AssetInv'
  <2>1. /\ job' = job /\ flight' = flight /\ coinBuf' = coinBuf
        /\ pc[t] = "stamp" /\ pc' = [pc EXCEPT ![t] = "sign"]
        /\ req' = [req EXCEPT ![t].nonce = clock]
    BY <1>10 DEF Stamp
  <2>2. /\ Task(t)' = Task(t) /\ pc'[t] = "sign"
        /\ req'[t].asset = req[t].asset /\ req'[t].torn = req[t].torn
    BY <1>1, <2>1 DEF Task, Drafts
  <2>3. looks(t)' /\ meant(t)'
    BY <1>3, <1>4, <2>1, <2>2
  <2> HIDE DEF looks, meant
  <2>4. QED
    BY <1>1, <1>7, <2>1, <2>3
<1>11. ASSUME NEW t \in Threads, Post(t)
       PROVE  AssetInv'
  <2> DEFINE n == Request(t)
  <2>1. /\ n.sym = Task(t).sym /\ n.asset = req[t].asset /\ n.torn = req[t].torn
        /\ flight' = flight \cup {n}
    BY <1>11 DEF Post, Request
  <2> HIDE DEF n
  <2>2. /\ job' = job /\ coinBuf' = coinBuf /\ pc[t] = "sign"
        /\ pc' = [pc EXCEPT ![t] = "wait"]
        /\ req' = [req EXCEPT ![t].id = posts + 1]
    BY <1>11 DEF Post
  <2>3. n.torn \/ Named(n.sym, n.asset)
    BY <1>4, <2>1, <2>2
  <2>4. ASSUME NEW u \in Threads
        PROVE  looks(u)' /\ meant(u)'
    <3>1. CASE u = t
      BY <1>1, <2>2, <3>1
    <3>2. CASE u # t
      <4>1. Task(u)' = Task(u) /\ pc'[u] = pc[u] /\ req'[u] = req[u]
        BY <1>1, <2>2, <3>2 DEF Task
      <4>2. QED
        BY <1>3, <1>4, <2>2, <4>1
    <3>3. QED
      BY <3>1, <3>2
  <2> HIDE DEF looks, meant
  <2>5. QED
    BY <1>5, <2>1, <2>3, <2>4
<1>12. ASSUME NEW t \in Threads, Begins(t) \/ Lock(t) \/ Finishes(t)
       PROVE  AssetInv'
  <2>1. flight' = flight /\ (pc[t] \in InCall \/ coinBuf' = coinBuf)
    BY <1>12 DEF Begins, Begin, Lock, Finishes
  <2>2. /\ pc'[t] \notin {"find", "stamp", "sign"}
        /\ \A u \in Threads \ {t} :
             pc'[u] = pc[u] /\ req'[u] = req[u] /\ job'[u] = job[u]
    <3>1. CASE Begins(t)
      BY <1>1, <3>1, BeginEffect DEF Begins, Begin
    <3>2. CASE Lock(t)
      BY <1>1, <3>2 DEF Lock
    <3>3. CASE Finishes(t)
      <4>1. PICK r \in Results : Finish(t, r)
        BY <3>3 DEF Finishes
      <4>2. QED
        BY <1>1, <3>3, <4>1, FinishEffect DEF Finishes
    <3>4. QED
      BY <1>12, <3>1, <3>2, <3>3
  <2>3. looks(t)' /\ meant(t)'
    BY <2>2
  <2> HIDE DEF looks, meant
  <2>4. QED
    BY <1>7, <2>1, <2>2, <2>3
<1>13. ASSUME NEW s \in Symbols \cup {None}, Intrude(s)
       PROVE  AssetInv'
  <2>1. UNCHANGED <<pc, job, flight>>
        /\ \A u \in Threads :
             req'[u] = IF pc[u] = "find" THEN [req[u] EXCEPT !.torn = TRUE]
                                         ELSE req[u]
    BY <1>13 DEF Intrude
  <2>2. ASSUME NEW u \in Threads
        PROVE  looks(u)' /\ meant(u)'
    <3>1. Task(u)' = Task(u) /\ pc'[u] = pc[u]
      BY <2>1 DEF Task
    <3>2. pc[u] = "find" => req'[u].torn
      BY <1>1, <2>1 DEF Drafts
    <3>3. pc[u] # "find" => req'[u] = req[u]
      BY <2>1
    <3>4. QED
      BY <1>3, <1>4, <3>1, <3>2, <3>3
  <2> HIDE DEF looks, meant
  <2>3. QED
    BY <1>5, <2>1, <2>2
<1>14. ASSUME flight' \subseteq flight, UNCHANGED <<coinBuf, pc, job, req>>
       PROVE  AssetInv'
  <2>1. \A u \in Threads : Task(u)' = Task(u)
    BY <1>14 DEF Task
  <2>2. \A u \in Threads : looks(u)' /\ meant(u)'
    BY <1>3, <1>4, <1>14, <2>1
  <2> HIDE DEF looks, meant
  <2>3. QED
    BY <1>5, <1>14, <2>2
<1> HIDE DEF looks, meant
<1>15. QED
  BY <1>8, <1>9, <1>10, <1>11, <1>12, <1>13, <1>14, StepCases
  DEF Execute, Lose, Fill, Tick, vars, clientVars

-----------------------------------------------------------------------------
(* Ids, answers and results. *)

\* Orders come one at a time and never leave the book's list.
LEMMA BookCases ==
  ASSUME IInv, [Next]_vars
  PROVE  /\ SameBook \/ \E r \in flight : Booked(r)
         /\ Len(orders) \in Nat /\ Len(orders') \in Nat
         /\ Len(orders) <= Len(orders')
<1> USE DEF IInv
<1>1. UNCHANGED orders => SameBook
  BY DEF SameBook
<1>2. SameBook \/ \E r \in flight : Booked(r)
  <2>1. ASSUME NEW o \in DOMAIN orders, Fill(o)
        PROVE  SameBook
    BY <2>1, StatusChange DEF Fill
  <2>2. ASSUME NEW r \in flight, Execute(r)
        PROVE  SameBook \/ Booked(r)
    BY <2>2, ExecuteCases
  <2>3. QED
    BY <1>1, <2>1, <2>2, StepCases
    DEF Begins, Begin, Lock, Copied, Found, Stamp, Post, Finishes, Intrude,
        Lose, Tick, vars, exchangeVars
<1>3. Len(orders) \in Nat
  BY LenProperties DEF TypeOK
<1>4. CASE SameBook
  BY <1>3, <1>4 DEF SameBook
<1>5. ASSUME NEW r \in flight, Booked(r)
      PROVE  Len(orders') = Len(orders) + 1
  BY <1>5 DEF Booked
<1>6. QED
  BY <1>2, <1>3, <1>4, <1>5

\* Results come from threads that finish.
LEMMA ResultCases ==
  ASSUME IInv, [Next]_vars
  PROVE  AllResults' = AllResults \/ \E t \in Threads : Finishes(t)
<1> USE DEF IInv
<1>1. ASSUME NEW t \in Threads, Begins(t)
      PROVE  AllResults' = AllResults
  BY <1>1, BeginEffect
<1>2. QED
  BY <1>1, ResultsKept, StepCases
  DEF Lock, Copied, Found, Stamp, Post, Intrude, Execute, Lose, Fill, Tick,
      vars, clientVars

\* An order that is known stays known.
LEMMA KnownStays ==
  ASSUME IInv, [Next]_vars, NEW n \in Int \cup {None}, IdKnown(n)
  PROVE  IdKnown(n)'
BY BookCases DEF IdKnown

\* The first task and the tasks after it are known.
LEMMA KnownParts ==
  ASSUME NEW todo \in Seq(Tasks), todo # <<>>, TasksKnown(todo)
  PROVE  /\ IdKnown(Head(todo).oid)
         /\ TasksKnown(Tail(todo))
<1>1. /\ Head(todo) = todo[1] /\ 1 \in DOMAIN todo
      /\ \A i \in DOMAIN Tail(todo) :
           i + 1 \in DOMAIN todo /\ Tail(todo)[i] = todo[i + 1]
  BY HeadTailProperties, LenProperties
<1>2. QED
  BY <1>1 DEF TasksKnown

\* Callers are told ids of orders that exist, or numbers below them.
LEMMA KnownStep ==
  ASSUME IInv, [Next]_vars
  PROVE  KnownInv'
<1> USE DEF IInv
<1>1. \A r \in AllResults : r \in Results
  BY ResultTypes
<1>2. \A r \in Results : /\ r.oid \in Int \cup {None}
                         /\ r.task.oid \in Int \cup {None}
  BY DEF Results, Tasks
<1>3. \A r \in AllResults : IdKnown(r.oid)' /\ IdKnown(r.task.oid)'
  BY <1>1, <1>2, KnownStays DEF KnownInv
<1>4. ASSUME NEW todo \in Seq(Tasks), TasksKnown(todo)
      PROVE  TasksKnown(todo)'
  <2>1. \A i \in DOMAIN todo : todo[i] \in Tasks
    BY ElementOfSeq, LenProperties
  <2>2. QED
    BY <1>4, <2>1, KnownStays DEF TasksKnown, Tasks
<1>5. \A t \in Threads : job[t].todo \in Seq(Tasks)
  BY DEF TypeOK, Jobs
<1>6. \A t \in Threads : job'[t].todo = job[t].todo => TasksKnown(job[t].todo)'
  BY <1>4, <1>5 DEF KnownInv, TasksKnown
<1>7. ASSUME NEW t \in Threads, Begins(t)
      PROVE  KnownInv'
  <2>1. orders' = orders
    BY <1>7 DEF Begins, Begin, exchangeVars
  <2>2. /\ AllResults' = AllResults /\ TasksKnown(job'[t].todo)
        /\ \A u \in Threads \ {t} : job'[u] = job[u]
    BY <1>7, BeginEffect
  <2>3. TasksKnown(job[t].todo)'
    BY <2>1, <2>2 DEF TasksKnown, IdKnown
  <2>4. QED
    BY <1>3, <1>6, <2>2, <2>3 DEF KnownInv
<1>8. ASSUME NEW t \in Threads, Finishes(t)
      PROVE  KnownInv'
  <2>1. PICK r \in Results : Finish(t, r) /\ TellsTrue(t, r)
    BY <1>8 DEF Finishes
  <2>2. /\ AllResults' = AllResults \cup {r}
        /\ \A u \in Threads \ {t} : job'[u] = job[u]
        /\ pc'[t] \in {"idle", "lock"}
        /\ pc'[t] = "idle" => job'[t] = NoJob
        /\ pc'[t] = "lock" => job'[t].todo = Tail(job[t].todo)
    BY <1>8, <2>1, FinishEffect DEF Finishes
  <2>3. orders' = orders
    BY <1>8 DEF Finishes, exchangeVars
  <2>4. job[t].todo # <<>>
    BY <1>8 DEF Finishes, ThreadInv, ThreadOK, InCall
  <2>5. IdKnown(Task(t).oid) /\ TasksKnown(Tail(job[t].todo))
    BY <1>5, <2>4, KnownParts DEF Task, KnownInv
  <2>6. IdKnown(r.oid)
    <3>1. ASSUME r.oid # None
          PROVE  r.oid <= Len(orders)
      <4>1. PICK o \in DOMAIN orders : r.oid = ParseOid(o)
        BY <2>1, <3>1 DEF TellsTrue
      <4>2. o \in Nat /\ o <= Len(orders) /\ Len(orders) \in Nat
        BY <4>1, LenProperties DEF TypeOK
      <4>3. ParseOid(o) \in Int /\ ParseOid(o) <= o
        BY <4>2, ParseOidFacts
      <4>4. QED
        BY <4>1, <4>2, <4>3
    <3>2. QED
      BY <3>1 DEF IdKnown
  <2>7. IdKnown(r.oid)' /\ IdKnown(r.task.oid)'
    BY <2>1, <2>3, <2>5, <2>6 DEF TellsTrue, IdKnown
  <2>8. TasksKnown(job[t].todo)'
    <3>1. CASE pc'[t] = "idle"
      <4>1. job'[t].todo = <<>> /\ DOMAIN <<>> = {}
        BY <2>2, <3>1, EmptySeq, LenProperties DEF NoJob
      <4>2. QED
        BY <4>1 DEF TasksKnown
    <3>2. CASE pc'[t] = "lock"
      BY <2>2, <2>3, <2>5, <3>2 DEF TasksKnown, IdKnown
    <3>3. QED
      BY <2>2, <3>1, <3>2
  <2>9. QED
    BY <1>3, <1>6, <2>2, <2>7, <2>8 DEF KnownInv
<1>9. CASE UNCHANGED <<job, returned>>
  BY <1>3, <1>6, <1>9, ResultsKept DEF KnownInv
<1>10. QED
  BY <1>7, <1>8, <1>9, StepCases
  DEF Lock, Copied, Found, Stamp, Post, Intrude, Execute, Lose, Fill, Tick,
      vars, clientVars

\* An order that has left the book stays off it, and no later order takes the
\* place of one that is known.
LEMMA OffBookStays ==
  ASSUME IInv, [Next]_vars, NEW n \in Int \cup {None}, IdKnown(n), NEW a,
         OffBook(n, a)
  PROVE  OffBook(n, a)'
<1>1. Len(orders) \in Nat /\ None \notin Int
  BY BookCases, NoneAssumption
<1>2. CASE SameBook
  BY <1>2 DEF SameBook, OffBook
<1>3. ASSUME NEW r \in flight, Booked(r)
      PROVE  OffBook(n, a)'
  <2>1. Len(orders) + 1 # n
    BY <1>1 DEF IdKnown
  <2>2. QED
    BY <1>3, <2>1 DEF Booked, OffBook
<1>4. QED
  BY <1>2, <1>3, BookCases

\* What a thread waits for is what it asked, and a confirmed cancel is true.
LEMMA WaitStep ==
  ASSUME IInv, [Next]_vars
  PROVE  WaitInv'
<1> USE DEF IInv
<1>1. /\ pc \in [Threads -> Pcs] /\ job \in [Threads -> Jobs]
      /\ req \in [Threads -> Drafts] /\ posts \in Nat
  BY BoundAssumption DEF TypeOK
<1> SUFFICES ASSUME NEW u \in Threads, pc'[u] = "wait"
             PROVE  /\ \A r \in flight' : Matches(u, r)'
                    /\ \A a \in answers' : Confirms(u, a)'
  BY DEF WaitInv
<1>2. ASSUME pc[u] = "wait", req'[u] = req[u], job'[u] = job[u]
      PROVE  /\ \A r \in flight : Matches(u, r)'
             /\ \A a \in answers : Confirms(u, a)'
  <2>1. Task(u)' = Task(u)
    BY <1>2 DEF Task
  <2>2. Task(u) \in Tasks /\ IdKnown(Task(u).oid)
    <3>1. job[u].todo \in Seq(Tasks) /\ job[u].todo # <<>>
      BY <1>2 DEF TypeOK, Jobs, ThreadInv, ThreadOK
    <3>2. QED
      BY <1>2, <3>1, CurrentTask, KnownParts DEF Task, KnownInv
  <2>3. \A a : OffBook(Task(u).oid, a) => OffBook(Task(u).oid, a)'
    <3> DEFINE n == Task(u).oid
    <3>1. n \in Int \cup {None} /\ IdKnown(n)
      BY <2>2 DEF Tasks
    <3>2. ASSUME NEW m \in Int \cup {None}, IdKnown(m), m = n,
                 NEW a, OffBook(n, a)
          PROVE  OffBook(m, a)'
      BY <3>2, OffBookStays
    <3>3. n' = n
      BY <2>1
    <3>4. QED
      BY <3>1, <3>2, <3>3 DEF OffBook
  <2>4. \A r \in flight : Matches(u, r)'
    BY <1>2, <2>1 DEF Matches, WaitInv
  <2>5. \A a \in answers : Confirms(u, a)'
    BY <1>2, <2>1, <2>3 DEF Confirms, WaitInv
  <2>6. QED
    BY <2>4, <2>5
<1>3. ASSUME pc[u] = "wait", req'[u] = req[u], job'[u] = job[u],
             flight' \subseteq flight, answers' \subseteq answers
      PROVE  /\ \A r \in flight' : Matches(u, r)'
             /\ \A a \in answers' : Confirms(u, a)'
  BY <1>2, <1>3
<1>4. ASSUME NEW t \in Threads,
             \/ Begins(t) \/ Lock(t) \/ Copied(t) \/ Found(t) \/ Stamp(t)
             \/ Finishes(t)
      PROVE  /\ \A r \in flight' : Matches(u, r)'
             /\ \A a \in answers' : Confirms(u, a)'
  <2>1. /\ pc'[t] # "wait" /\ flight' = flight /\ answers' \subseteq answers
        /\ \A v \in Threads \ {t} :
             pc'[v] = pc[v] /\ req'[v] = req[v] /\ job'[v] = job[v]
    <3>1. CASE Begins(t)
      BY <1>1, <3>1, BeginEffect DEF Begins, Begin
    <3>2. CASE Lock(t) \/ Copied(t) \/ Found(t) \/ Stamp(t)
      BY <1>1, <3>2 DEF Lock, Copied, Found, Stamp
    <3>3. CASE Finishes(t)
      <4>1. PICK r \in Results : Finish(t, r)
        BY <3>3 DEF Finishes
      <4>2. QED
        BY <1>1, <3>3, <4>1, FinishEffect DEF Finishes
    <3>4. QED
      BY <1>4, <3>1, <3>2, <3>3
  <2>2. QED
    BY <1>3, <2>1
<1>5. ASSUME NEW t \in Threads, Post(t)
      PROVE  /\ \A r \in flight' : Matches(u, r)'
             /\ \A a \in answers' : Confirms(u, a)'
  <2> DEFINE n == Request(t)
  <2>1. /\ job' = job /\ answers' = answers /\ pc[t] \in InCall
        /\ flight' = flight \cup {n}
        /\ pc' = [pc EXCEPT ![t] = "wait"]
        /\ req' = [req EXCEPT ![t].id = posts + 1]
    BY <1>5 DEF Post, InCall, Pcs
  <2>2. u = t
    BY <1>1, <2>1 DEF ThreadInv, ThreadOK, InCall, Pcs
  <2>3. /\ n.op = Task(t).op /\ n.oid = Task(t).oid /\ n.asset = req[t].asset
    BY DEF Request
  <2> HIDE DEF n
  <2>4. /\ Task(t)' = Task(t) /\ req'[t].id = posts + 1
        /\ req'[t].asset = req[t].asset
    BY <1>1, <2>1 DEF Task, Drafts
  <2>5. /\ \A r \in flight : r.id # posts + 1
        /\ \A a \in answers : a.id # posts + 1
    BY <1>1 DEF WireInv
  <2>6. QED
    BY <2>1, <2>2, <2>3, <2>4, <2>5 DEF Matches, Confirms
<1>6. ASSUME NEW q \in flight, Execute(q)
      PROVE  /\ \A r \in flight' : Matches(u, r)'
             /\ \A a \in answers' : Confirms(u, a)'
  <2>1. /\ flight' = flight \ {q}
        /\ pc[u] = "wait" /\ req' = req /\ job' = job
    BY <1>6 DEF Execute, clientVars
  <2>2. Task(u)' = Task(u) /\ Matches(u, q)
    BY <2>1 DEF Task, WaitInv
  <2>3. /\ \A r \in flight : Matches(u, r)'
        /\ \A a \in answers : Confirms(u, a)'
    BY <1>2, <2>1
  <2>4. ASSUME NEW a \in answers', a \notin answers
        PROVE  Confirms(u, a)'
    <3>1. CASE Booked(q) /\ Answer(q, TRUE, Len(orders) + 1)
      <4>1. a.id = q.id /\ q.op = "place"
        BY <2>4, <3>1 DEF Answer, Booked
      <4>2. QED
        BY <2>1, <2>2, <4>1 DEF Matches, Confirms
    <3>2. CASE /\ SameBook
               /\ \E ok \in BOOLEAN : Answer(q, ok, None) /\ Heeded(q, ok)
      <4>1. PICK ok \in BOOLEAN : Answer(q, ok, None) /\ Heeded(q, ok)
        BY <3>2
      <4>2. a.id = q.id /\ a.ok = ok
        BY <2>4, <4>1 DEF Answer
      <4>3. ASSUME a.id = req[u].id, a.ok, Task(u).op = "cancel"
            PROVE  OffBook(Task(u).oid, req[u].asset)'
        <5>1. /\ q.op = "cancel" /\ q.oid = Task(u).oid
              /\ q.asset = req[u].asset
          BY <2>2, <4>2, <4>3 DEF Matches
        <5>2. OffBook(q.oid, q.asset)'
          BY <4>1, <4>2, <4>3, <5>1 DEF Heeded
        <5>3. QED
          BY <2>1, <2>2, <5>1, <5>2 DEF OffBook
      <4>4. QED
        BY <2>1, <2>2, <4>3 DEF Confirms
    <3>3. QED
      BY <1>6, <3>1, <3>2, ExecuteCases
  <2>5. QED
    BY <2>1, <2>3, <2>4
<1>7. ASSUME NEW s \in Symbols \cup {None}, Intrude(s)
      PROVE  /\ \A r \in flight' : Matches(u, r)'
             /\ \A a \in answers' : Confirms(u, a)'
  <2>1. /\ UNCHANGED <<pc, job, flight, answers>>
        /\ req'[u] = IF pc[u] = "find" THEN [req[u] EXCEPT !.torn = TRUE]
                                       ELSE req[u]
    BY <1>7 DEF Intrude
  <2>2. QED
    BY <1>3, <2>1
<1>8. CASE UNCHANGED <<pc, job, req, answers>> /\ flight' \subseteq flight
  BY <1>3, <1>8
<1>9. QED
  BY <1>4, <1>5, <1>6, <1>7, <1>8, StepCases
  DEF Lose, Fill, Tick, vars, clientVars

\* A success that was settled stays settled.
LEMMA SettleStep ==
  ASSUME IInv, [Next]_vars
  PROVE  SettleInv'
<1> USE DEF IInv
<1>1. ASSUME NEW r \in AllResults
      PROVE  Honest(r)'
  <2>1. /\ r \in Results /\ r.task.oid \in Int \cup {None}
        /\ IdKnown(r.task.oid) /\ Honest(r)
    BY ResultTypes DEF Results, Tasks, KnownInv, SettleInv
  <2>2. OffBook(r.task.oid, r.asset) => OffBook(r.task.oid, r.asset)'
    BY <2>1, OffBookStays
  <2>3. (\E o \in DOMAIN orders : orders[o].by = r.post)
          => \E o \in DOMAIN orders' : orders'[o].by = r.post
    BY BookCases DEF SameBook, Booked
  <2>4. Settled(r) => Settled(r)'
    BY <2>2, <2>3 DEF Settled
  <2>5. QED
    BY <2>1, <2>4 DEF Honest, Unconfirmed
<1>2. ASSUME NEW t \in Threads, Finishes(t)
      PROVE  SettleInv'
  <2>1. PICK r \in Results : Finish(t, r) /\ TellsTrue(t, r)
    BY <1>2 DEF Finishes
  <2>2. AllResults' = AllResults \cup {r} /\ orders' = orders
    BY <1>2, <2>1, FinishEffect DEF Finishes, exchangeVars
  <2>3. Honest(r)'
    BY <2>1, <2>2 DEF TellsTrue, Honest, Settled, OffBook, Unconfirmed
  <2>4. QED
    BY <1>1, <2>2, <2>3 DEF SettleInv
<1>3. QED
  BY <1>1, <1>2, ResultCases DEF SettleInv

\* The initial states satisfy the invariant.
LEMMA InitInv == Init => IInv
<1> SUFFICES ASSUME Init
             PROVE  IInv
  OBVIOUS
<1> USE DEF Init
<1>1. <<>> \in Seq(Orders) /\ DOMAIN <<>> = {} /\ Len(<<>>) = 0
  BY EmptySeq, LenProperties
<1>2. AllResults = {}
  <2> DEFINE J == returned \cup {job[t] : t \in Threads}
  <2>1. \A j \in J : j.done = <<>>
    BY NoJobFacts
  <2>2. AllResults = ResultsOf(J)
    BY DEF AllResults
  <2> HIDE DEF J
  <2>3. QED
    BY <1>1, <2>1, <2>2, InResults
<1>3. TypeOK
  BY <1>1, BoundAssumption, AssetAssumption, NoJobFacts
  DEF TypeOK, Pcs, NoReq, Drafts
<1>4. ThreadInv
  BY NoneAssumption DEF ThreadInv, ThreadOK, InCall, NoReq
<1>5. CleanInv
  BY NoJobFacts DEF CleanInv
<1>6. WireInv
  BY <1>1, FS_EmptySet DEF WireInv
<1>7. ReportInv
  BY <1>2 DEF ReportInv, ReadOids, Placed
<1>7a. KnownInv
  <2>1. \A t \in Threads : job[t].todo = <<>>
    BY DEF NoJob
  <2>2. QED
    BY <1>1, <1>2, <2>1 DEF KnownInv, TasksKnown
<1>7b. WaitInv /\ SettleInv
  BY <1>2 DEF WaitInv, SettleInv
<1>8. StampInv
  BY DEF StampInv, NoncesInOrder
<1>9. AssetInv
  BY DEF AssetInv
<1>10. QED
  BY <1>3, <1>4, <1>5, <1>6, <1>7, <1>7a, <1>7b, <1>8, <1>9 DEF IInv

\* The invariant is inductive for any number of threads, coins and requests,
\* any limit of "%d", and lookups outside the mutex.
THEOREM TradeInductive == Spec => []IInv
<1>1. Init => IInv
  BY InitInv
<1>2. IInv /\ [Next]_vars => IInv'
  BY TypeStep, ThreadStep, CleanStep, WireStep, ReportStep, KnownStep, WaitStep,
     SettleStep, StampStep, AssetStep
  DEF IInv
<1>3. QED
  BY <1>1, <1>2, PTL DEF Spec

-----------------------------------------------------------------------------
(* What it gives. *)

\* Every variable of the client, the network and the exchange keeps its type.
THEOREM TradeTypes == Spec => []TypeOK
<1>1. IInv => TypeOK
  BY DEF IInv
<1>2. QED
  BY <1>1, TradeInductive, PTL

\* Who is told an order id has an order made of the very request, and was told
\* that order's id, unless the id does not fit into the int it is read with.
THEOREM TrueReports == Spec => []ReportedOrderExists
<1>1. ASSUME IInv
      PROVE  ReportedOrderExists
  <2>1. DOMAIN orders \subseteq Nat
    BY <1>1, LenProperties DEF IInv, TypeOK
  <2>2. \A o \in DOMAIN orders : o < IntLimit => ParseOid(o) = o
    BY <2>1, ParseOidFacts
  <2>3. QED
    BY <1>1, <2>2 DEF IInv, ReportInv, ReadOids, ReportedOrderExists
<1>2. QED
  BY <1>1, TradeInductive, PTL

\* A batch or an edit that returns success has made its orders and taken the
\* cancelled ones off the book, except where the status was not 200.
THEOREM HonestBatches == Spec => []BatchSettles
<1>1. ASSUME IInv, NEW j \in returned, j.err = "success", NEW i \in DOMAIN j.done
      PROVE  Settled(j.done[i]) \/ Unconfirmed(j.done[i])
  <2>1. j.done[i].err = "success"
    BY <1>1 DEF IInv, CleanInv, Clean
  <2>2. j.done[i] \in AllResults
    <3> DEFINE J == returned \cup {job[t] : t \in Threads}
    <3>1. j \in J /\ AllResults = ResultsOf(J)
      BY <1>1 DEF AllResults
    <3> HIDE DEF J
    <3>2. QED
      BY <1>1, <3>1, InResults
  <2>3. QED
    BY <1>1, <2>1, <2>2 DEF IInv, SettleInv, Honest
<1>2. IInv => BatchSettles
  BY <1>1 DEF BatchSettles
<1>3. QED
  BY <1>2, TradeInductive, PTL

\* Any number of threads sharing the client never let a nonce fall behind an
\* earlier one, nor send an asset of another coin unless a lookup outside the
\* mutex wrote the coin buffer.
THEOREM RightRequests == Spec => []RequestsRight
<1>1. IInv => RequestsRight
  BY DEF IInv, StampInv, AssetInv, RequestsRight, AssetResolved, Named
<1>2. QED
  BY <1>1, TradeInductive, PTL

-----------------------------------------------------------------------------
(* TradingApi implements OrderDesk. *)

\* Changes of status do not show on the desk.
LEMMA BookKept ==
  ASSUME SameBook
  PROVE  Book' = Book
BY DEF SameBook, Book

\* An accepted request shows on the desk as one more order.
LEMMA BookGrows ==
  ASSUME TypeOK, NEW r \in flight, Booked(r)
  PROVE  Book' = Append(Book, r.id)
<1>1. /\ DOMAIN orders = 1..Len(orders) /\ Len(orders) \in Nat
  BY LenProperties DEF TypeOK
<1>2. Book \in Seq({orders[i].by : i \in DOMAIN orders} \cup {r.id})
      /\ Len(Book) = Len(orders)
  BY <1>1 DEF Book
<1>3. Append(Book, r.id) = [i \in 1..(Len(orders) + 1) |->
                              IF i = Len(orders) + 1 THEN r.id ELSE Book[i]]
  BY <1>1, <1>2
<1>4. Book' = [i \in 1..(Len(orders) + 1) |->
                 IF i = Len(orders) + 1 THEN r.id ELSE Book[i]]
  BY <1>1 DEF Book, Booked
<1>5. QED
  BY <1>3, <1>4

\* The desk tells something only when a result appears.
LEMMA ToldKept ==
  ASSUME AllResults' = AllResults
  PROVE  Told' = Told
BY DEF Told, Placed

\* Initial states are initial states of the desk.
LEMMA DeskInit == Init => Desk!Init
<1> SUFFICES ASSUME Init
             PROVE  Desk!Init
  OBVIOUS
<1>1. posts = 0 /\ orders = <<>>
  BY DEF Init
<1>2. Book = <<>>
  BY <1>1 DEF Book
<1>3. Told = {}
  <2> DEFINE J == returned \cup {job[t] : t \in Threads}
  <2>1. \A j \in J : DOMAIN j.done = {}
    BY NoJobFacts, EmptySeq, LenProperties DEF Init
  <2>2. AllResults = ResultsOf(J)
    BY DEF AllResults
  <2> HIDE DEF J
  <2>3. AllResults = {}
    BY <2>1, <2>2, InResults
  <2>4. QED
    BY <2>3 DEF Told, Placed
<1>4. QED
  BY <1>1, <1>2, <1>3 DEF Desk!Init

\* Every step is a step of the desk or shows nothing there.
LEMMA DeskStep ==
  ASSUME IInv, [Next]_vars
  PROVE  [Desk!Next]_(Desk!deskVars)
<1> USE DEF IInv
<1> DEFINE still == posts' = posts /\ Book' = Book /\ Told' = Told
<1>1. UNCHANGED orders => Book' = Book
  BY DEF Book
<1>2. still => UNCHANGED Desk!deskVars
  BY DEF Desk!deskVars
<1>3. ASSUME NEW t \in Threads, Post(t)
      PROVE  Desk!Send
  BY <1>1, <1>3, ResultsKept, ToldKept DEF Post, exchangeVars, Desk!Send
<1>4. ASSUME NEW t \in Threads, Finishes(t)
      PROVE  \/ still
             \/ \E o \in DOMAIN Book : \E n \in {p[2] : p \in Told'} :
                  Desk!Tell(o, n)
  <2>1. PICK r \in Results : Finish(t, r) /\ TellsTrue(t, r)
    BY <1>4 DEF Finishes
  <2>2. pc[t] \in InCall /\ posts' = posts /\ Book' = Book
    BY <1>1, <1>4 DEF Finishes, exchangeVars
  <2>3. AllResults' = AllResults \cup {r}
    BY <2>1, <2>2, FinishEffect
  <2>4. CASE r.task.op = "place" /\ r.oid # None
    <3>1. PICK o \in DOMAIN orders :
            orders[o].by = r.post /\ r.oid = ParseOid(o)
      BY <2>1, <2>4 DEF TellsTrue
    <3>2. o \in DOMAIN Book /\ Book[o] = r.post
      BY <3>1 DEF Book
    <3>3. Placed' = Placed \cup {r}
      BY <2>3, <2>4 DEF Placed
    <3>4. Told' = Told \cup {<<Book[o], r.oid>>}
      BY <3>2, <3>3 DEF Told
    <3>5. \A p \in Told : p[1] # Book[o]
      <4>1. pc[t] = "wait" /\ r.post = req[t].id
        BY <2>1, <2>4 DEF TellsTrue
      <4>2. \A x \in Placed : x.post # r.post
        BY <4>1 DEF Placed, ReportInv
      <4>3. QED
        BY <3>2, <4>2 DEF Told
    <3>6. o < IntLimit => r.oid = o
      BY <3>1, ParseOidFacts, LenProperties DEF TypeOK
    <3>7. Desk!Tell(o, r.oid)
      BY <2>2, <3>4, <3>5, <3>6 DEF Desk!Tell
    <3>8. r.oid \in {p[2] : p \in Told'}
      <4>1. <<Book[o], r.oid>> \in Told' /\ <<Book[o], r.oid>>[2] = r.oid
        BY <3>4
      <4>2. QED
        BY <4>1
    <3>9. QED
      BY <3>2, <3>7, <3>8
  <2>5. CASE ~(r.task.op = "place" /\ r.oid # None)
    <3>1. Placed' = Placed
      BY <2>3, <2>5 DEF Placed
    <3>2. QED
      BY <2>2, <3>1 DEF Told
  <2>6. QED
    BY <2>4, <2>5
<1>5. ASSUME NEW r \in flight, Execute(r)
      PROVE  still \/ \E n \in 1..posts : Desk!Place(n)
  <2>1. Told' = Told /\ posts' = posts
    BY <1>5, ResultsKept, ToldKept DEF Execute, clientVars
  <2>2. CASE SameBook
    BY <2>1, <2>2, BookKept
  <2>3. CASE Booked(r)
    <3>1. Book' = Append(Book, r.id)
      BY <2>3, BookGrows
    <3>2. \A o \in DOMAIN Book : Book[o] # r.id
      BY DEF Book, WireInv
    <3>3. r.id \in 1..posts
      BY DEF WireInv
    <3>4. Desk!Place(r.id)
      BY <2>1, <3>1, <3>2 DEF Desk!Place
    <3>5. QED
      BY <3>3, <3>4
  <2>4. QED
    BY <1>5, <2>2, <2>3, ExecuteCases
<1>6. ASSUME NEW o \in DOMAIN orders, Fill(o)
      PROVE  still
  BY <1>6, StatusChange, BookKept, ResultsKept, ToldKept DEF Fill, clientVars
<1>7. ASSUME NEW t \in Threads, Begins(t)
      PROVE  still
  BY <1>1, <1>7, BeginEffect, ToldKept DEF Begins, Begin, exchangeVars
<1>8. CASE UNCHANGED <<posts, job, returned, orders>>
  BY <1>1, <1>2, <1>8, ResultsKept, ToldKept
<1> HIDE DEF still
<1>9. QED
  BY <1>2, <1>3, <1>4, <1>5, <1>6, <1>7, <1>8, StepCases
  DEF Lock, Copied, Found, Stamp, Intrude, Lose, Tick, vars, clientVars,
      exchangeVars, Desk!Next

\* Whatever the threads, the network and the exchange do, callers see an
\* OrderDesk: one order at most per request, its id told once, to its caller.
THEOREM Refinement == Spec => ImplementsDesk
<1>1. Init => Desk!Init
  BY DeskInit
<1>2. IInv /\ [Next]_vars => [Desk!Next]_(Desk!deskVars)
  BY DeskStep
<1>3. Spec => []IInv
  BY TradeInductive
<1>4. QED
  BY <1>1, <1>2, <1>3, PTL DEF Spec, ImplementsDesk, Desk!Spec
=============================================================================
