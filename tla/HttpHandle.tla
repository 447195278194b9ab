----------------------------- MODULE HttpHandle -----------------------------
(***************************************************************************)
(* http_client_post and http_client_get of src/src/http/client.c, called   *)
(* by several threads through the one curl handle of their hl_client_t.    *)
(* The options of a request are set on the handle one by one and stay      *)
(* there; the handle holds pointers into the caller's request, which ends  *)
(* before the handle does.  The calls that trade hold the client's mutex   *)
(* over their requests, the calls that fetch do not.                       *)
(*                                                                         *)
(* Requests are numbered; url, verb, sink, body, size and list say whose   *)
(* url, method, response, body, body length and header list the handle     *)
(* has, 0 for none.  libcurl is external: it reads the options when a      *)
(* transfer starts and the sink for every piece of the response.           *)
(***************************************************************************)
EXTENDS Naturals, Sequences

CONSTANTS
  Threads,      \* application threads sharing the client
  Calls,        \* what the application calls: "trade", "fetch", "probe"
  MaxRequests,  \* bound: requests
  MaxChunks,    \* bound: pieces of one response
  None          \* nobody

\* hl_place_order, hl_cancel_order and hl_test_connection lock the client's mutex
\* and post; the calls that fetch markets, balances, positions, orders, candles,
\* books and tickers post without it; http_client_test_connection gets, without
\* it.
AllCalls == {"trade", "fetch", "probe"}

ASSUME CallsAssumption == Calls \subseteq AllCalls
ASSUME BoundAssumption == {MaxRequests, MaxChunks} \subseteq Nat
ASSUME NoneAssumption == None \notin Threads

VARIABLES
  mutex,      \* owner of client->mutex
  pc,         \* program counter of every thread
  mine,       \* the request every thread is in, 0 before its first
  call,       \* the call every thread is in, or was in last
  handle,     \* options and last status of the curl handle
  lists,      \* requests whose header list is allocated
  requests,   \* requests begun so far
  wire,       \* what the last transfer sent
  got,        \* pieces received by the transfer of every thread
  body,       \* request -> its response buffer: whose answer each piece is of
  code,       \* request -> status code in its response
  exposed     \* history: requests that overlapped one without the mutex

responses == <<body, code>>
vars == <<mutex, pc, mine, call, handle, lists, requests, wire, got, body, code,
          exposed>>

Numbers == 0..MaxRequests
Options == {"url", "verb", "sink", "body", "size", "list", "status"}
Busy == {"url", "verb", "sink", "body", "size", "list", "perform", "transfer",
         "succeeded", "failed", "status", "clear"}
Pcs == Busy \cup {"idle", "lock", "enter", "return"}

TypeOK ==
  /\ mutex \in Threads \cup {None}
  /\ pc \in [Threads -> Pcs]
  /\ mine \in [Threads -> Numbers]
  /\ call \in [Threads -> AllCalls]
  /\ handle \in [Options -> Numbers]
  /\ lists \subseteq Numbers
  /\ requests \in Numbers
  /\ wire \subseteq [posts : BOOLEAN, by : Numbers, url : Numbers,
                     verb : Numbers, body : Numbers, size : Numbers,
                     list : Numbers, live : BOOLEAN]
  /\ got \in [Threads -> Nat]
  /\ body \in [Numbers -> Seq(Numbers)]
  /\ code \in [Numbers -> Numbers]
  /\ exposed \subseteq Numbers

Init ==
  /\ mutex = None
  /\ pc = [t \in Threads |-> "idle"]
  /\ mine = [t \in Threads |-> 0]
  /\ call = [t \in Threads |-> "trade"]
  /\ handle = [o \in Options |-> 0]
  /\ lists = {}
  /\ requests = 0
  /\ wire = {}
  /\ got = [t \in Threads |-> 0]
  /\ body = [k \in Numbers |-> <<>>]
  /\ code = [k \in Numbers |-> 0]
  /\ exposed = {}

Goto(t, from, to) ==
  /\ pc[t] = from
  /\ pc' = [pc EXCEPT ![t] = to]

-----------------------------------------------------------------------------
(* The calls around a request. *)

Locks(t) == call[t] = "trade"
Posts(t) == call[t] # "probe"

Begin(t) ==
  /\ requests < MaxRequests
  /\ \E c \in Calls :
       /\ call' = [call EXCEPT ![t] = c]
       /\ Goto(t, "idle", IF c = "trade" THEN "lock" ELSE "enter")
  /\ UNCHANGED <<mutex, mine, handle, lists, requests, wire, got, responses,
                 exposed>>

\* Mutant: the mutex keeps nobody out.
LockOpen(t) ==
  /\ Goto(t, "lock", "enter")
  /\ mutex' = t
  /\ UNCHANGED <<mine, call, handle, lists, requests, wire, got, responses, exposed>>

Lock(t) ==
  /\ Goto(t, "lock", "enter")
  /\ mutex = None
  /\ mutex' = t
  /\ UNCHANGED <<mine, call, handle, lists, requests, wire, got, responses, exposed>>

\* The threads inside a request that the mutex does not keep from t's.
Rivals(t) ==
  {u \in Threads \ {t} : pc[u] \in Busy /\ ~(Locks(u) /\ Locks(t))}

\* The response is zeroed.
Enter(t) ==
  /\ Goto(t, "enter", "url")
  /\ requests < MaxRequests
  /\ requests' = requests + 1
  /\ mine' = [mine EXCEPT ![t] = requests + 1]
  /\ got' = [got EXCEPT ![t] = 0]
  /\ body' = [body EXCEPT ![requests + 1] = <<>>]
  /\ code' = [code EXCEPT ![requests + 1] = 0]
  /\ exposed' = exposed \cup {mine[u] : u \in Rivals(t)}
                         \cup (IF Rivals(t) = {} THEN {} ELSE {requests + 1})
  /\ UNCHANGED <<mutex, call, handle, lists, wire>>

\* The caller reads its response and frees it; hl_place_order posts three times:
\* for the swap markets, for the spot markets and to the exchange.
Return(t) ==
  /\ \/ /\ Posts(t) /\ requests < MaxRequests
        /\ Goto(t, "return", "enter")
        /\ UNCHANGED mutex
     \/ /\ Goto(t, "return", "idle")
        /\ mutex' = IF mutex = t THEN None ELSE mutex
  /\ body' = [body EXCEPT ![mine[t]] = <<>>]
  /\ code' = [code EXCEPT ![mine[t]] = 0]
  /\ UNCHANGED <<mine, call, handle, lists, requests, wire, got, exposed>>

-----------------------------------------------------------------------------
(* http_client_post and http_client_get. *)

Set(t, option) ==
  /\ handle' = [handle EXCEPT ![option] = mine[t]]
  /\ UNCHANGED <<mutex, mine, call, requests, wire, got, responses, exposed>>

SetUrl(t) == Goto(t, "url", "verb") /\ Set(t, "url") /\ UNCHANGED lists
SetVerb(t) == Goto(t, "verb", "sink") /\ Set(t, "verb") /\ UNCHANGED lists

SetSink(t) ==
  /\ Goto(t, "sink", IF Posts(t) THEN "body" ELSE "perform")
  /\ Set(t, "sink")
  /\ UNCHANGED lists

SetBody(t) == Goto(t, "body", "size") /\ Set(t, "body") /\ UNCHANGED lists
SetSize(t) == Goto(t, "size", "list") /\ Set(t, "size") /\ UNCHANGED lists

\* Mutant: the header list is freed as soon as the handle has it.
SetListFreed(t) ==
  /\ Goto(t, "list", "perform")
  /\ Set(t, "list")
  /\ UNCHANGED lists

SetList(t) ==
  /\ Goto(t, "list", "perform")
  /\ lists' = lists \cup {mine[t]}
  /\ Set(t, "list")

\* What curl_easy_perform sends: what the handle has now; a GET has no body.
Request(t) ==
  [posts |-> Posts(t), by |-> mine[t], url |-> handle["url"],
   verb |-> handle["verb"],
   body |-> IF Posts(t) THEN handle["body"] ELSE 0,
   size |-> IF Posts(t) THEN handle["size"] ELSE 0,
   list |-> handle["list"],
   live |-> handle["list"] \in lists \cup {0}]

Perform(t) ==
  /\ Goto(t, "perform", "transfer")
  /\ wire' = {Request(t)}
  /\ UNCHANGED <<mutex, mine, call, handle, lists, requests, got, responses,
                 exposed>>

\* write_callback appends a piece to the response the handle names.
Receive(t) ==
  /\ pc[t] = "transfer"
  /\ got[t] < MaxChunks
  /\ got' = [got EXCEPT ![t] = @ + 1]
  /\ body' = [body EXCEPT ![handle["sink"]] = Append(@, mine[t])]
  /\ UNCHANGED <<mutex, pc, mine, call, handle, lists, requests, wire, code,
                 exposed>>

Complete(t) ==
  /\ Goto(t, "transfer", "succeeded")
  /\ Set(t, "status")
  /\ UNCHANGED lists

\* No connection, a timeout, or write_callback found no memory for a piece.
Break(t) ==
  /\ Goto(t, "transfer", "failed")
  /\ UNCHANGED <<mutex, mine, call, handle, lists, requests, wire, got, responses,
                 exposed>>

\* The list is freed; the handle still points at it.
FreeList(t) ==
  /\ Goto(t, "succeeded", "status") \/ Goto(t, "failed", "clear")
  /\ lists' = lists \ {mine[t]}
  /\ UNCHANGED <<mutex, mine, call, handle, requests, wire, got, responses, exposed>>

GetStatus(t) ==
  /\ Goto(t, "status", "return")
  /\ code' = [code EXCEPT ![mine[t]] = handle["status"]]
  /\ UNCHANGED <<mutex, mine, call, handle, lists, requests, wire, got, body,
                 exposed>>

\* Mutant: the pieces of a broken transfer are kept.
ClearNothing(t) ==
  /\ Goto(t, "clear", "return")
  /\ UNCHANGED <<mutex, mine, call, handle, lists, requests, wire, got, responses,
                 exposed>>

\* http_response_free after an error of curl.
Clear(t) ==
  /\ Goto(t, "clear", "return")
  /\ body' = [body EXCEPT ![mine[t]] = <<>>]
  /\ code' = [code EXCEPT ![mine[t]] = 0]
  /\ UNCHANGED <<mutex, mine, call, handle, lists, requests, wire, got, exposed>>

-----------------------------------------------------------------------------

Step(t) ==
  \/ Begin(t) \/ Lock(t) \/ Enter(t) \/ Return(t)
  \/ SetUrl(t) \/ SetVerb(t) \/ SetSink(t)
  \/ SetBody(t) \/ SetSize(t) \/ SetList(t)
  \/ Perform(t) \/ Receive(t) \/ Complete(t) \/ Break(t)
  \/ FreeList(t) \/ GetStatus(t) \/ Clear(t)

Next == \E t \in Threads : Step(t)

Spec == Init /\ [][Next]_vars

-----------------------------------------------------------------------------
(* Properties. *)

Own(r) ==
  /\ r.url = r.by /\ r.verb = r.by
  /\ r.posts => r.body = r.by /\ r.size = r.by /\ r.list = r.by

\* A request on the wire is that of one caller, url, method, body, body length
\* and headers, beside any number of calls that hold the mutex: one that never
\* overlapped a request made without the mutex is whole, whatever such requests
\* left on the handle before it.
OwnRequest == \A r \in wire : r.by \in exposed \/ Own(r)

\* No thread sends parts of another's request, whatever the two call.
EveryRequestOwn == \A r \in wire : Own(r)

\* The whole answer received by the transfer of a thread.
Pieces(t) == [i \in 1..got[t] |-> mine[t]]

\* When a request returns that overlapped none without the mutex, its response
\* is the whole answer to it with its status, or is empty: never pieces of two
\* answers, nor half of one.
OwnResponse ==
  \A t \in Threads : pc[t] = "return" /\ mine[t] \notin exposed =>
    \/ body[mine[t]] = <<>> /\ code[mine[t]] = 0
    \/ body[mine[t]] = Pieces(t) /\ code[mine[t]] = mine[t]

\* curl never reads a freed header list for a POST that overlapped no request
\* without the mutex, although every POST frees its list and leaves the handle
\* pointing at it. (A GET sets no list: it reads the one the last POST freed.)
NoFreedList ==
  \A r \in wire : r.posts /\ r.by \notin exposed => r.live
=============================================================================
