----------------------------- MODULE TradingApi -----------------------------
(***************************************************************************)
(* hl_place_order and hl_cancel_order of src/src/trading_api.c, and the    *)
(* calls orders.c builds from them (create_orders, cancel_orders and       *)
(* edit_order), used by several threads that share one client.  A call     *)
(* holds the client's mutex from the market lookup to the end of the POST. *)
(* The lookup compares a coin kept in a static buffer of markets.c, which  *)
(* fetches that take no mutex (ohlcv.c:161, orderbook.c:119) and calls on  *)
(* other clients write too.                                                *)
(*                                                                         *)
(* The exchange and the network are external: a request may be lost, be    *)
(* executed after the caller gave up, or be executed while its answer is   *)
(* lost or replaced by a non-200 status of a gateway.                      *)
(***************************************************************************)
EXTENDS Integers, Sequences, FiniteSets

CONSTANTS
  Threads,     \* application threads sharing the client
  Symbols,     \* coins the application trades
  Sol,         \* the coin whose asset id may be 0 according to the code
  AssetIds,    \* asset ids the exchange can give a coin
  IntLimit,    \* 2^31 in the build: order ids are read with "%d"
  MaxPosts,    \* bound: requests sent to the exchange
  MaxClock,    \* bound: milliseconds
  MaxAsked,    \* bound: orders, cancels and edits asked for
  Intruded,    \* whether coins are looked up outside the mutex meanwhile
  None         \* NULL, nobody, not listed

ASSUME SolAssumption == Sol \in Symbols
ASSUME AssetAssumption == AssetIds \subseteq Nat /\ 0 \in AssetIds
ASSUME LimitAssumption == IntLimit \in Nat \ {0}
ASSUME BoundAssumption == {MaxPosts, MaxClock, MaxAsked} \subseteq Nat
ASSUME IntrudedAssumption == Intruded \in BOOLEAN
ASSUME NoneAssumption == None \notin Threads \cup Symbols /\ None \notin Int

VARIABLES
  listing,   \* coin -> asset id on the exchange
  asked,     \* orders, cancels and edits asked for so far
  clock,     \* gettimeofday in milliseconds
  lock,      \* owner of the client's mutex
  coinBuf,   \* static buffer of hl_get_asset_id; None: not in use, or a mixture
  pc,        \* program counter of every thread
  job,       \* the library call every thread is in
  req,       \* the request its current order or cancel has made
  posts,     \* requests posted so far; numbers the requests
  flight,    \* requests the exchange has not seen yet
  answers,   \* answers on their way back
  orders,    \* the exchange's orders; the position is the order id
  nonces,    \* nonces the exchange has accepted
  returned   \* calls that returned to the application

clientVars == <<lock, coinBuf, pc, job, req, returned>>
exchangeVars == <<orders, nonces>>
vars == <<listing, asked, clock, lock, coinBuf, pc, job, req, posts, flight,
          answers, orders, nonces, returned>>

Errors == {"success", "network", "api", "symbol", "signature"}
Pcs == {"idle", "lock", "fetch", "find", "stamp", "sign", "wait"}

Tasks == [op : {"place", "cancel"}, sym : Symbols, oid : Int \cup {None}]
\* Besides what the caller is given, the request made and its asset id.
Results == [task : Tasks, post : Nat, asset : AssetIds, err : Errors,
            oid : Int \cup {None}, cancelled : BOOLEAN]
Jobs == [mode : {"batch", "edit"}, todo : Seq(Tasks), err : Errors,
         done : Seq(Results)]
\* torn: coin_buf was written by others during the lookup of the asset.
Requests == [id : Nat, op : {"place", "cancel"}, sym : Symbols,
             asset : AssetIds, torn : BOOLEAN, oid : Int \cup {None},
             nonce : Nat]
Drafts == [id : Nat, asset : AssetIds, torn : BOOLEAN, nonce : Nat]
Orders == [asset : AssetIds, by : Nat,
           status : {"resting", "filled", "cancelled"}]

NoJob == [mode |-> "batch", todo |-> <<>>, err |-> "success", done |-> <<>>]
NoReq == [id |-> 0, asset |-> 0, torn |-> FALSE, nonce |-> 0]

TypeOK ==
  /\ listing \in [Symbols -> AssetIds \cup {None}]
  /\ asked \in 0..MaxAsked
  /\ clock \in 0..MaxClock
  /\ lock \in Threads \cup {None}
  /\ coinBuf \in Symbols \cup {None}
  /\ pc \in [Threads -> Pcs]
  /\ job \in [Threads -> Jobs]
  /\ req \in [Threads -> Drafts]
  /\ posts \in 0..MaxPosts
  /\ flight \subseteq Requests
  /\ answers \subseteq [id : Nat, ok : BOOLEAN, oid : Nat \cup {None}]
  /\ orders \in Seq(Orders)
  /\ nonces \subseteq Nat
  /\ returned \subseteq Jobs

\* The exchange lists different coins under different ids.
Injective(f) ==
  \A s, u \in DOMAIN f : f[s] = f[u] /\ f[s] # None => s = u

Init ==
  /\ listing \in {f \in [Symbols -> AssetIds \cup {None}] : Injective(f)}
  /\ asked = 0
  /\ clock = 0
  /\ lock = None
  /\ coinBuf = None
  /\ pc = [t \in Threads |-> "idle"]
  /\ job = [t \in Threads |-> NoJob]
  /\ req = [t \in Threads |-> NoReq]
  /\ posts = 0
  /\ flight = {}
  /\ answers = {}
  /\ orders = <<>>
  /\ nonces = {}
  /\ returned = {}

-----------------------------------------------------------------------------
(* Calls of the application. *)

\* Results the application has in hand.
ResultsOf(jobs) == UNION {{j.done[i] : i \in DOMAIN j.done} : j \in jobs}
AllResults == ResultsOf(returned \cup {job[t] : t \in Threads})

PlaceTask(s) == [op |-> "place", sym |-> s, oid |-> None]
CancelTask(r) == [op |-> "cancel", sym |-> r.task.sym, oid |-> r.oid]

Placed == {r \in AllResults : r.task.op = "place" /\ r.oid # None}

Begin(t, mode, todo) ==
  /\ pc[t] = "idle"
  /\ posts < MaxPosts
  /\ pc' = [pc EXCEPT ![t] = "lock"]
  /\ job' = [job EXCEPT ![t] = [mode |-> mode, todo |-> todo, err |-> "success",
                                done |-> <<>>]]
  /\ UNCHANGED <<listing, clock, lock, coinBuf, req, posts, flight, answers,
                 exchangeVars, returned>>

\* A call that costs the application n of its budget.
NewCall(t, n, mode, todo) ==
  /\ asked + n <= MaxAsked
  /\ asked' = asked + n
  /\ Begin(t, mode, todo)

\* hl_place_order is a create_orders of one order, made again by those who
\* repeat an order that failed.
CreateOrders(t) ==
  \E n \in 1..MaxAsked : \E syms \in [1..n -> Symbols] :
    NewCall(t, n, "batch", [i \in 1..n |-> PlaceTask(syms[i])])

CancelOrders(t) ==
  \E n \in 1..MaxAsked : \E rs \in [1..n -> Placed] :
    NewCall(t, n, "batch", [i \in 1..n |-> CancelTask(rs[i])])

EditOrder(t) ==
  \E r \in Placed :
    NewCall(t, 1, "edit", <<CancelTask(r), PlaceTask(r.task.sym)>>)

-----------------------------------------------------------------------------
(* hl_place_order and hl_cancel_order. *)

Task(t) == Head(job[t].todo)

Result(t, err, oid, cancelled) ==
  [task |-> Task(t), post |-> req[t].id, asset |-> req[t].asset,
   err |-> err, oid |-> oid, cancelled |-> cancelled]

\* Mutant: the error of the last order is that of the batch.
AdvanceForgets(j, r) ==
  [j EXCEPT !.todo = Tail(@), !.err = r.err, !.done = Append(@, r)]

\* A batch goes on after a failure and remembers the last error.
Advance(j, r) ==
  [j EXCEPT !.todo = Tail(@),
            !.err = IF r.err = "success" THEN @ ELSE r.err,
            !.done = Append(@, r)]

\* An edit gives up when its cancel failed.
GivesUp(j, r) == j.mode = "edit" /\ r.err # "success"

\* The mutex is released and the order or cancel returns r: to the application
\* or to the loop over the batch.
Finish(t, r) ==
  LET j == Advance(job[t], r)
  IN  /\ lock' = None
      /\ req' = [req EXCEPT ![t] = NoReq]
      /\ IF j.todo = <<>> \/ GivesUp(j, r)
         THEN /\ pc' = [pc EXCEPT ![t] = "idle"]
              /\ job' = [job EXCEPT ![t] = NoJob]
              /\ returned' = returned \cup {[j EXCEPT !.todo = <<>>]}
         ELSE /\ pc' = [pc EXCEPT ![t] = "lock"]
              /\ job' = [job EXCEPT ![t] = j]
              /\ UNCHANGED returned

\* Mutant: the mutex keeps nobody out.
LockOpen(t) ==
  /\ pc[t] = "lock"
  /\ lock' = t
  /\ pc' = [pc EXCEPT ![t] = "fetch"]
  /\ UNCHANGED <<listing, asked, clock, coinBuf, job, req, posts, flight,
                 answers, exchangeVars, returned>>

Lock(t) ==
  /\ pc[t] = "lock"
  /\ lock = None
  /\ lock' = t
  /\ pc' = [pc EXCEPT ![t] = "fetch"]
  /\ UNCHANGED <<listing, asked, clock, coinBuf, job, req, posts, flight,
                 answers, exchangeVars, returned>>

\* The lookup gave asset; 0 also says that it failed, except for Sol.
Resolve(t, asset) ==
  IF asset = 0 /\ Task(t).sym # Sol
  THEN Finish(t, Result(t, "symbol", None, FALSE))
  ELSE /\ req' = [req EXCEPT ![t].asset = asset]
       /\ pc' = [pc EXCEPT ![t] = "stamp"]
       /\ UNCHANGED <<lock, job, returned>>

\* get_asset_id fetches the markets; hl_get_asset_id copies the coin.
FetchMarkets(t) ==
  /\ pc[t] = "fetch"
  /\ \/ Resolve(t, 0) /\ UNCHANGED coinBuf
     \/ /\ coinBuf' = Task(t).sym
        /\ pc' = [pc EXCEPT ![t] = "find"]
        /\ UNCHANGED <<lock, job, req, returned>>
  /\ UNCHANGED <<listing, asked, clock, posts, flight, answers, exchangeVars>>

Listed(s) == s # None /\ listing[s] # None

\* The markets are searched for the coin in the buffer, which nobody reads
\* again before writing it.
FindAsset(t) ==
  /\ pc[t] = "find"
  /\ Resolve(t, IF Listed(coinBuf) THEN listing[coinBuf] ELSE 0)
  /\ coinBuf' = IF \E u \in Threads \ {t} : pc[u] = "find" THEN coinBuf ELSE None
  /\ UNCHANGED <<listing, asked, clock, posts, flight, answers, exchangeVars>>

\* A thread that does not take this client's mutex looks up a coin. Writing
\* while others compare leaves that coin or a mixture in the buffer.
Intrude(s) ==
  /\ Intruded
  /\ \E t \in Threads : pc[t] = "find"
  /\ coinBuf' = s
  /\ req' = [t \in Threads |-> IF pc[t] = "find"
                               THEN [req[t] EXCEPT !.torn = TRUE]
                               ELSE req[t]]
  /\ UNCHANGED <<listing, asked, clock, lock, pc, job, posts, flight, answers,
                 exchangeVars, returned>>

\* The nonce is the time of day in milliseconds.
Stamp(t) ==
  /\ pc[t] = "stamp"
  /\ req' = [req EXCEPT ![t].nonce = clock]
  /\ pc' = [pc EXCEPT ![t] = "sign"]
  /\ UNCHANGED <<listing, asked, clock, lock, coinBuf, job, posts, flight,
                 answers, exchangeVars, returned>>

\* Mutant: the failure path forgets to unlock.
SignFailsLocked(t) ==
  /\ pc[t] = "sign"
  /\ pc' = [pc EXCEPT ![t] = "idle"]
  /\ UNCHANGED <<listing, asked, clock, lock, coinBuf, job, req, posts, flight,
                 answers, exchangeVars, returned>>

SignFails(t) ==
  /\ pc[t] = "sign"
  /\ Finish(t, Result(t, "signature", None, FALSE))
  /\ UNCHANGED <<listing, asked, clock, coinBuf, posts, flight, answers,
                 exchangeVars>>

Request(t) ==
  [id |-> posts + 1, op |-> Task(t).op, sym |-> Task(t).sym,
   asset |-> req[t].asset, torn |-> req[t].torn, oid |-> Task(t).oid,
   nonce |-> req[t].nonce]

Post(t) ==
  /\ pc[t] = "sign"
  /\ posts < MaxPosts
  /\ posts' = posts + 1
  /\ flight' = flight \cup {Request(t)}
  /\ req' = [req EXCEPT ![t].id = posts + 1]
  /\ pc' = [pc EXCEPT ![t] = "wait"]
  /\ UNCHANGED <<listing, asked, clock, lock, coinBuf, job, answers,
                 exchangeVars, returned>>

\* The answer on the connection of t; the connection is closed after the wait.
Answered(t) == {a \in answers : a.id = req[t].id}
Hangup(t) == answers' = answers \ Answered(t)

\* Mutant: the digits are looked for one character too late.
ParseOidLate(n) == n \div 10

\* sscanf("%d"): the low 32 bits, as a signed number.
ParseOid(n) == ((n + IntLimit) % (2 * IntLimit)) - IntLimit

\* curl failed: no connection, or no answer within the timeout.
PostFails(t) ==
  /\ pc[t] = "wait"
  /\ Finish(t, Result(t, "network", None, FALSE))
  /\ Hangup(t)
  /\ UNCHANGED <<listing, asked, clock, coinBuf, posts, flight, exchangeVars>>

\* Mutant: the result keeps the order id its caller last had in it.
BadStatusStale(t) ==
  /\ pc[t] = "wait"
  /\ \E oid \in {None} \cup {r.oid : r \in Placed} :
       Finish(t, Result(t, "success", oid, FALSE))
  /\ Hangup(t)
  /\ UNCHANGED <<listing, asked, clock, coinBuf, posts, flight, exchangeVars>>

\* A status other than 200 returns lv3_to_hl_error(LV3_SUCCESS).
BadStatus(t) ==
  /\ pc[t] = "wait"
  /\ Finish(t, Result(t, "success", None, FALSE))
  /\ Hangup(t)
  /\ UNCHANGED <<listing, asked, clock, coinBuf, posts, flight, exchangeVars>>

\* 200: an order needs an order id in the body, a cancel "status":"ok".
Receive(t) ==
  /\ pc[t] = "wait"
  /\ \E a \in Answered(t) :
       LET placed == Task(t).op = "place" /\ a.oid # None
           cancelled == Task(t).op = "cancel" /\ a.ok
       IN  Finish(t, Result(t, IF placed \/ cancelled THEN "success" ELSE "api",
                            IF placed THEN ParseOid(a.oid) ELSE None,
                            cancelled))
  /\ Hangup(t)
  /\ UNCHANGED <<listing, asked, clock, coinBuf, posts, flight, exchangeVars>>

\* 200 without a body, or with one that is not an answer.
EmptyBody(t) ==
  /\ pc[t] = "wait"
  /\ Finish(t, Result(t, "api", None, FALSE))
  /\ Hangup(t)
  /\ UNCHANGED <<listing, asked, clock, coinBuf, posts, flight, exchangeVars>>

-----------------------------------------------------------------------------
(* The exchange and the network (external). *)

\* An answer reaches its caller only while the caller still waits for it.
Answer(r, ok, oid) ==
  answers' = IF \E t \in Threads : pc[t] = "wait" /\ req[t].id = r.id
             THEN answers \cup {[id |-> r.id, ok |-> ok, oid |-> oid]}
             ELSE answers

\* A nonce is accepted once per account.
RefuseNonce(r) ==
  /\ r.nonce \in nonces
  /\ Answer(r, FALSE, None)
  /\ UNCHANGED exchangeVars

AcceptOrder(r) ==
  /\ r.op = "place" /\ r.nonce \notin nonces
  /\ nonces' = nonces \cup {r.nonce}
  /\ \E s \in {"resting", "filled"} :
       orders' = Append(orders, [asset |-> r.asset, by |-> r.id, status |-> s])
  /\ Answer(r, TRUE, Len(orders) + 1)

\* No such market or margin: status ok, an error inside, no order id.
RefuseOrder(r) ==
  /\ r.op = "place" /\ r.nonce \notin nonces
  /\ nonces' = nonces \cup {r.nonce}
  /\ Answer(r, TRUE, None)
  /\ UNCHANGED orders

Cancellable(r) ==
  /\ r.oid \in DOMAIN orders
  /\ orders[r.oid].asset = r.asset
  /\ orders[r.oid].status = "resting"

\* A cancel that cannot be done is also answered with status ok.
HandleCancel(r) ==
  /\ r.op = "cancel" /\ r.nonce \notin nonces
  /\ nonces' = nonces \cup {r.nonce}
  /\ IF Cancellable(r)
     THEN orders' = [orders EXCEPT ![r.oid].status = "cancelled"]
     ELSE UNCHANGED orders
  /\ Answer(r, TRUE, None)

Execute(r) ==
  /\ flight' = flight \ {r}
  /\ RefuseNonce(r) \/ AcceptOrder(r) \/ RefuseOrder(r) \/ HandleCancel(r)
  /\ UNCHANGED <<listing, asked, clock, posts, clientVars>>

\* The request never arrives.
Lose(r) ==
  /\ flight' = flight \ {r}
  /\ UNCHANGED <<listing, asked, clock, posts, clientVars, answers,
                 exchangeVars>>

Fill(o) ==
  /\ orders[o].status = "resting"
  /\ orders' = [orders EXCEPT ![o].status = "filled"]
  /\ UNCHANGED <<listing, asked, clock, posts, clientVars, flight, answers,
                 nonces>>

Tick ==
  /\ clock < MaxClock
  /\ clock' = clock + 1
  /\ UNCHANGED <<listing, asked, posts, clientVars, flight, answers,
                 exchangeVars>>

-----------------------------------------------------------------------------

StartCall(t) ==
  CreateOrders(t) \/ CancelOrders(t) \/ EditOrder(t)

CallStep(t) ==
  \/ Lock(t) \/ FetchMarkets(t) \/ FindAsset(t) \/ Stamp(t) \/ SignFails(t)
  \/ Post(t) \/ PostFails(t) \/ BadStatus(t) \/ Receive(t) \/ EmptyBody(t)

Next ==
  \/ \E t \in Threads : StartCall(t) \/ CallStep(t)
  \/ \E s \in Symbols \cup {None} : Intrude(s)
  \/ \E r \in flight : Execute(r) \/ Lose(r)
  \/ \E o \in DOMAIN orders : Fill(o)
  \/ Tick

Spec == Init /\ [][Next]_vars

\* A running call goes on; curl gives up after its timeout, so a wait ends.
FairSpec == Spec /\ \A t \in Threads : WF_vars(CallStep(t))

-----------------------------------------------------------------------------
(* Properties. *)

\* A caller that is told an order id had its own request made into an order,
\* and was told that order's id, however late, lost or mixed the answers are.
\* Ids from IntLimit on come out of "%d" as other numbers.
ReportedOrderExists ==
  \A r \in Placed :
    \E o \in DOMAIN orders :
      orders[o].by = r.post /\ (o < IntLimit => r.oid = o)

\* OrderDesk is implemented: every step of the threads, the network and the
\* exchange is a step of the desk or changes nothing the desk shows.
Book == [i \in DOMAIN orders |-> orders[i].by]
Told == {<<r.post, r.oid>> : r \in Placed}

Desk == INSTANCE OrderDesk WITH sent <- posts, book <- Book, told <- Told

ImplementsDesk == Desk!Spec

\* The mutex is held from the stamp to the end of the POST: nonces never fall
\* from one request to the next. Two requests of one millisecond carry the
\* same nonce, and the exchange refuses the second.
NoncesInOrder ==
  \A q, r \in flight : q.id < r.id => q.nonce <= r.nonce

\* A request names the asset of the coin asked for, or 0 for Sol, unless a
\* thread outside the mutex wrote coin_buf during the lookup: no other call on
\* the same client can do that.
AssetResolved ==
  \A q \in flight :
    q.torn \/ q.asset = listing[q.sym] \/ (q.sym = Sol /\ q.asset = 0)

\* What the exchange gets from threads that share one client: nonces that do
\* not fall, and the assets that were meant, save for intruded lookups.
RequestsRight == NoncesInOrder /\ AssetResolved

\* A result that says success without an order id or a cancel: the answer had
\* a status other than 200.
Unconfirmed(r) ==
  /\ r.err = "success"
  /\ IF r.task.op = "place" THEN r.oid = None ELSE ~r.cancelled

\* No order of this id and asset is on the book.
OffBook(oid, asset) ==
  \A o \in DOMAIN orders :
    o = oid /\ orders[o].asset = asset => orders[o].status # "resting"

\* The exchange made an order of the request, or no longer has the order to be
\* cancelled on its book, if the cancel named the order's own asset.
Settled(r) ==
  IF r.task.op = "place"
  THEN \E o \in DOMAIN orders : orders[o].by = r.post
  ELSE OffBook(r.task.oid, r.asset)

\* When create_orders, cancel_orders or edit_order return success, every order
\* of theirs was made and every order they cancel is off the book, except
\* those answered with a status other than 200, which count as successes.
BatchSettles ==
  \A j \in returned :
    j.err = "success" =>
      \A i \in DOMAIN j.done : Settled(j.done[i]) \/ Unconfirmed(j.done[i])

\* Every path out of a call releases the mutex.
MutexFreed == []<>(lock = None)

\* An edit that hands out a new order has taken the old one off the book.
EditReplaces ==
  \A j \in returned :
    j.mode = "edit" /\ Len(j.done) = 2 /\ j.done[2].oid # None
      => \A i \in DOMAIN orders :
           i = j.done[1].task.oid => orders[i].status # "resting"
=============================================================================
