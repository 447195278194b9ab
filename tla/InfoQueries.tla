---------------------------- MODULE InfoQueries ----------------------------
(***************************************************************************)
(* The calls that read the exchange's /info endpoint: the order fetchers   *)
(* of orders.c, the trades of trades.c, funding.c, the open interests of   *)
(* markets.c, the tickers of market_extended.c, currencies.c, the          *)
(* positions and the ledger of account.c.  They share one shape, which the *)
(* actions below follow; a record per function says where it departs from  *)
(* the others.  hl_fetch_orders makes two such calls, and the exchange     *)
(* goes on trading between them.                                           *)
(*                                                                         *)
(* The exchange and http_client_post_old are external.  Members of Ids are *)
(* the orders of the account; for the other endpoints they stand for the   *)
(* fills, payments, ledger entries or markets that are listed.             *)
(***************************************************************************)
EXTENDS Naturals, Sequences, FiniteSets

CONSTANTS
  Ids,    \* orders of the account, or whatever else an endpoint lists
  None    \* nobody, NULL

ASSUME NoneAssumption == None \notin Ids
ASSUME IdsAssumption == IsFiniteSet(Ids)

VARIABLES
  book,      \* status of every order on the exchange
  wallet,    \* whether the client has a wallet address
  pc,        \* step of the running call
  api,       \* the call the application made last
  todo,      \* fetchers the call has still to run, the running one first
  reply,     \* entries of the response not read yet
  rows,      \* entries parsed so far, in the order of the response
  kept,      \* those a filtering fetcher has copied to its result
  slot,      \* array element the next entry is parsed into
  heap,      \* blocks the call allocated and nobody has released
  parts,     \* what every fetcher of this call returned
  result,    \* what the call returned to the application
  seen,      \* (history) statuses every order has had during the call
  misread    \* (history) orders the parser refused, or takes for open wrongly

\* What only the application and the exchange change, and what a fetcher is at.
world == <<book, wallet, api, seen>>
reading == <<todo, reply, rows, kept, slot>>
callVars == <<pc, api, todo, reply, rows, kept, slot, heap, parts, result, misread>>
vars == <<book, wallet, pc, api, todo, reply, rows, kept, slot, heap, parts,
          result, seen, misread>>

Listed == {"open", "filled", "canceled"}
Statuses == Listed \cup {"none"}
Errors == {"success", "params", "auth", "network", "api", "json", "memory",
           "notfound"}

\* The usual fetcher: an array of the user's entries, all of them returned in
\* one array, released as a whole.
Usual == [user |-> TRUE, noWallet |-> "auth", lists |-> Listed, filter |-> "no",
          keeps |-> Listed, badStatus |-> "network", notArray |-> "json", early |-> FALSE,
          emptyArray |-> FALSE, frees |-> "whole"]

OpenOrders == [Usual EXCEPT !.lists = {"open"}, !.frees = "each"]

\* The filtering order fetchers parse into a temporary array and copy from it.
ClosedOrders ==
  [Usual EXCEPT !.filter = "copy", !.keeps = Listed \ {"open"}, !.frees = "each"]
CanceledOrders ==
  [Usual EXCEPT !.filter = "copy", !.keeps = {"canceled"}, !.frees = "each"]
CanceledAndClosed ==
  [Usual EXCEPT !.filter = "copy", !.keeps = Listed \ {"open"}, !.frees = "each"]

\* One object, parsed into the caller's structure.
OneOrder == [Usual EXCEPT !.filter = "one"]

MyTrades == [Usual EXCEPT !.lists = {"filled"}, !.frees = "each"]
PublicTrades ==
  [Usual EXCEPT !.user = FALSE, !.lists = {"filled"}, !.frees = "each"]

\* Meta and contexts: the array is allocated even when it has no element.
FundingRates == [Usual EXCEPT !.user = FALSE, !.emptyArray = TRUE]
OpenInterests ==
  [Usual EXCEPT !.user = FALSE, !.emptyArray = TRUE, !.filter = "before"]

FundingRateHistory == [Usual EXCEPT !.user = FALSE]

\* All mids, of which the symbols asked for are kept; hl_tickers_free is only
\* declared (hl_ticker.h:95) and taken to be like the others.
Tickers == [Usual EXCEPT !.user = FALSE, !.filter = "before"]
Currencies == [Usual EXCEPT !.user = FALSE]

\* The filter on symbol or currency runs when the element is already filled.
FundingHistory == [Usual EXCEPT !.filter = "after"]
Ledger == [Usual EXCEPT !.filter = "after"]

\* The response is released once parsed; positions that are missing are none.
Positions ==
  [Usual EXCEPT !.noWallet = "params", !.badStatus = "api",
                !.notArray = "success", !.early = TRUE]

Fetchers ==
  [open |-> OpenOrders, closed |-> ClosedOrders, canceled |-> CanceledOrders,
   history |-> CanceledAndClosed, order |-> OneOrder, fills |-> MyTrades,
   trades |-> PublicTrades, rates |-> FundingRates,
   interests |-> OpenInterests, rateHistory |-> FundingRateHistory,
   payments |-> FundingHistory, ledger |-> Ledger, positions |-> Positions,
   tickers |-> Tickers, currencies |-> Currencies]

Names == DOMAIN Fetchers

\* The ones that read each entry with parse_order_from_json.
OrderFetchers == {"open", "closed", "canceled", "history", "order"}
Apis == Names \cup {"orders", "interest"}

Rows == [id : Ids, status : Listed, from : Ids \cup {None}]
Entries == [id : Ids, status : Listed, ok : BOOLEAN, full : BOOLEAN,
            says : BOOLEAN, match : BOOLEAN]
\* Blocks: the response, its JSON tree, the arrays of the fetchers and of
\* hl_fetch_orders.
Response == <<"response">>
Json == <<"json">>
Temp == <<"temp">>
Combined == <<"combined">>
Array(n) == <<"array", n>>
Blocks == {Response, Json, Temp, Combined} \cup {Array(n) : n \in Names}
Parts == [err : Errors, rows : Seq(Rows)]

Blank == None
NoPart == [err |-> "success", rows |-> <<>>]
NoResult == [err |-> "success", rows |-> <<>>, block |-> None]

TypeOK ==
  /\ book \in [Ids -> Statuses]
  /\ wallet \in BOOLEAN
  /\ pc \in {"idle", "post", "refused", "parse", "shape", "alloc", "read",
             "count", "copy", "combine", "pick", "corrupt"}
  /\ api \in Apis
  /\ todo \in Seq(Names)
  /\ reply \in Seq(Entries)
  /\ rows \in Seq(Rows)
  /\ kept \in Seq(Rows)
  /\ slot \in Ids \cup {None}
  /\ heap \subseteq Blocks
  /\ parts \in [Names -> Parts]
  /\ result \in [err : Errors, rows : Seq(Rows), block : Blocks \cup {None}]
  /\ seen \in [Ids -> SUBSET Statuses]
  /\ misread \subseteq Ids

Init ==
  /\ book \in [Ids -> {"none", "open"}]
  /\ wallet \in BOOLEAN
  /\ pc = "idle"
  /\ api = "open"
  /\ todo = <<>>
  /\ reply = <<>>
  /\ rows = <<>>
  /\ kept = <<>>
  /\ slot = Blank
  /\ heap = {}
  /\ parts = [n \in Names |-> NoPart]
  /\ result = NoResult
  /\ seen = [i \in Ids |-> {book[i]}]
  /\ misread = {}

Running == Head(todo)
Fetcher == Fetchers[Running]

-----------------------------------------------------------------------------
(* Entering a call and leaving a fetcher. *)

\* Mutant: the history is asked for first.
TodoHistoryFirst(a) ==
  CASE a = "orders" -> <<"history", "open">>
    [] a = "interest" -> <<"interests">>
    [] a \in Names -> <<a>>

Todo(a) ==
  CASE a = "orders" -> <<"open", "history">>
    [] a = "interest" -> <<"interests">>
    [] a \in Names -> <<a>>

Call(a) ==
  /\ pc = "idle"
  /\ pc' = "post"
  /\ api' = a
  /\ todo' = Todo(a)
  /\ heap' = {}
  /\ parts' = [n \in Names |-> NoPart]
  /\ result' = NoResult
  /\ seen' = [i \in Ids |-> {book[i]}]
  /\ misread' = {}
  /\ UNCHANGED <<book, wallet, reply, rows, kept, slot>>

\* The application gets err and rs, and owns block.
Return(err, rs, block) ==
  /\ pc' = "idle"
  /\ result' = [err |-> err, rows |-> rs, block |-> block]

\* The running fetcher returns err and rs; blocks are the ones still allocated.
Finish(err, rs, blocks) ==
  /\ parts' = [parts EXCEPT ![Running] = [err |-> err, rows |-> rs]]
  /\ todo' = Tail(todo)
  /\ rows' = <<>>
  /\ kept' = <<>>
  /\ slot' = Blank
  /\ reply' = <<>>
  /\ heap' = blocks
  /\ \/ Tail(todo) # <<>> /\ pc' = "post" /\ UNCHANGED result
     \/ Tail(todo) = <<>> /\ api = "orders" /\ pc' = "combine" /\ UNCHANGED result
     \/ api = "interest" /\ err = "success" /\ pc' = "pick" /\ UNCHANGED result
     \/ /\ api # "orders"
        /\ api = "interest" => err # "success"
        /\ Return(err, rs, IF Array(Running) \in blocks THEN Array(Running) ELSE None)
  /\ UNCHANGED world

\* Every path that has parsed the response ends by releasing both.
Released == heap \ {Json, Response}

-----------------------------------------------------------------------------
(* The request. *)

NoWallet ==
  /\ pc = "post" /\ Fetcher.user /\ ~wallet
  /\ Finish(Fetcher.noWallet, <<>>, heap)
  /\ UNCHANGED misread

MayPost == pc = "post" /\ (Fetcher.user => wallet)

\* No response at all.
PostFails ==
  /\ MayPost
  /\ Finish("network", <<>>, heap)
  /\ UNCHANGED misread

\* A response that is an error or has a status other than 200.
PostRefused ==
  /\ MayPost
  /\ pc' = "refused"
  /\ heap' = heap \cup {Response}
  /\ UNCHANGED <<world, reading, parts, result, misread>>

ReleaseRefused ==
  /\ pc = "refused"
  /\ Finish(Fetcher.badStatus, <<>>, heap \ {Response})
  /\ UNCHANGED misread

\* What the endpoint lists, in some order (external).
Listing == {i \in Ids : book[i] \in Fetcher.lists}
Orderings(S) ==
  {s \in [1..Cardinality(S) -> S] : \A x \in S : \E k \in DOMAIN s : s[k] = x}
Asked == IF Fetcher.filter = "one" THEN {<<i>> : i \in Listing} ELSE Orderings(Listing)

Matches == IF Fetcher.filter \in {"before", "after"} THEN SUBSET Ids ELSE {Ids}

\* The entries of the open orders need not say so, and nothing makes the others
\* say theirs.
Tells == IF Running \in OrderFetchers THEN SUBSET Ids ELSE {Ids}

\* The exchange answers 200 (external): ok are the entries that have the fields
\* the parser insists on, full those that have the other ones too, says those
\* with a status and match those of the symbol or currency asked for.
Answer ==
  /\ MayPost
  /\ \E s \in Asked, match \in Matches, says \in Tells : \E ok, full \in SUBSET Ids :
       /\ reply' = [k \in DOMAIN s |->
                      [id |-> s[k], status |-> book[s[k]], ok |-> s[k] \in ok,
                       full |-> s[k] \in full, says |-> s[k] \in says,
                       match |-> s[k] \in match]]
       /\ misread' = misread \cup
            {i \in {s[k] : k \in DOMAIN s} :
               i \notin ok \/ (i \notin says /\ book[i] # "open")}
  /\ pc' = "parse"
  /\ heap' = heap \cup {Response}
  /\ UNCHANGED <<world, todo, rows, kept, slot, parts, result>>

-----------------------------------------------------------------------------
(* The response. *)

NotJson ==
  /\ pc = "parse"
  /\ Finish("json", <<>>, heap \ {Response})
  /\ UNCHANGED misread

ParseJson ==
  /\ pc = "parse"
  /\ pc' = "shape"
  /\ heap' = (heap \ (IF Fetcher.early THEN {Response} ELSE {})) \cup {Json}
  /\ UNCHANGED <<world, reading, parts, result, misread>>

\* Not an array (for one order, not an object).
WrongShape ==
  /\ pc = "shape"
  /\ Finish(Fetcher.notArray, <<>>, Released)
  /\ UNCHANGED misread

EmptyArray ==
  /\ pc = "shape" /\ reply = <<>> /\ ~Fetcher.emptyArray
  /\ Finish("success", <<>>, Released)
  /\ UNCHANGED misread

RightShape ==
  /\ pc = "shape" /\ (reply # <<>> \/ Fetcher.emptyArray)
  /\ pc' = IF Fetcher.filter = "one" THEN "read" ELSE "alloc"
  /\ UNCHANGED <<world, reading, heap, parts, result, misread>>

AllocFails ==
  /\ pc = "alloc"
  /\ Finish("memory", <<>>, Released)
  /\ UNCHANGED misread

Alloc ==
  /\ pc = "alloc"
  /\ pc' = "read"
  /\ heap' = heap \cup {IF Fetcher.filter = "copy" THEN Temp ELSE Array(Running)}
  /\ UNCHANGED <<world, reading, parts, result, misread>>

\* Mutant: an order is open whatever its entry says.
ToldOpen(e) == "open"

\* The status the parser finds: without one, the order is taken to be open.
Told(e) == IF e.says THEN e.status ELSE "open"

\* The element after parsing e: the optional fields e does not have keep what
\* the element held.
Parsed(e) ==
  [id |-> e.id, status |-> Told(e), from |-> IF e.full THEN e.id ELSE slot]

\* Mutant: the parser fills the element before it finds the entry wanting.
SkipEntryFilled ==
  /\ pc = "read" /\ reply # <<>> /\ Fetcher.filter # "one"
  /\ LET e == Head(reply)
     IN  \/ ~e.ok /\ slot' = Parsed(e).from
         \/ e.ok /\ ~e.match /\ Fetcher.filter = "before" /\ UNCHANGED slot
         \/ e.ok /\ ~e.match /\ Fetcher.filter = "after" /\ slot' = Parsed(e).from
  /\ reply' = Tail(reply)
  /\ UNCHANGED <<pc, world, todo, rows, kept, heap, parts, result, misread>>

\* An entry the parser refuses leaves the element as it was; so does one of
\* another symbol, unless the filter runs after the parser.
SkipEntry ==
  /\ pc = "read" /\ reply # <<>> /\ Fetcher.filter # "one"
  /\ LET e == Head(reply)
     IN  \/ ~e.ok /\ UNCHANGED slot
         \/ e.ok /\ ~e.match /\ Fetcher.filter = "before" /\ UNCHANGED slot
         \/ e.ok /\ ~e.match /\ Fetcher.filter = "after" /\ slot' = Parsed(e).from
  /\ reply' = Tail(reply)
  /\ UNCHANGED <<pc, world, todo, rows, kept, heap, parts, result, misread>>

TakeEntry ==
  /\ pc = "read" /\ reply # <<>>
  /\ Head(reply).ok /\ Head(reply).match
  /\ rows' = Append(rows, Parsed(Head(reply)))
  /\ reply' = Tail(reply)
  /\ slot' = Blank
  /\ UNCHANGED <<pc, world, todo, kept, heap, parts, result, misread>>

\* hl_fetch_order returns the parser's error.
RefuseOrder ==
  /\ pc = "read" /\ Fetcher.filter = "one"
  /\ reply # <<>> /\ ~Head(reply).ok
  /\ Finish("json", <<>>, Released)
  /\ UNCHANGED misread

AllRead ==
  /\ pc = "read" /\ reply = <<>>
  /\ IF Fetcher.filter = "copy"
     THEN pc' = "count" /\ UNCHANGED <<world, reading, heap, parts, result>>
     ELSE Finish("success", rows, Released)
  /\ UNCHANGED misread

Keeps(r) == r.status \in Fetcher.keeps

AnyKept == \E k \in DOMAIN rows : Keeps(rows[k])

\* The second array is allocated only for orders to put in it.
CountNone ==
  /\ pc = "count" /\ ~AnyKept
  /\ Finish("success", <<>>, Released \ {Temp})
  /\ UNCHANGED misread

CountSome ==
  /\ pc = "count" /\ AnyKept
  /\ pc' = "copy"
  /\ heap' = heap \cup {Array(Running)}
  /\ UNCHANGED <<world, reading, parts, result, misread>>

\* Mutant: the temporary array is forgotten on the error path.
CountFailsLeaks ==
  /\ pc = "count" /\ AnyKept
  /\ Finish("memory", <<>>, Released)
  /\ UNCHANGED misread

CountFails ==
  /\ pc = "count" /\ AnyKept
  /\ Finish("memory", <<>>, Released \ {Temp})
  /\ UNCHANGED misread

CopyRow ==
  /\ pc = "copy" /\ rows # <<>>
  /\ kept' = IF Keeps(Head(rows)) THEN Append(kept, Head(rows)) ELSE kept
  /\ rows' = Tail(rows)
  /\ UNCHANGED <<world, pc, todo, reply, slot, heap, parts, result, misread>>

Copied ==
  /\ pc = "copy" /\ rows = <<>>
  /\ Finish("success", kept, Released \ {Temp})
  /\ UNCHANGED misread

-----------------------------------------------------------------------------
(* hl_fetch_orders and hl_fetch_open_interest. *)

Total == Len(parts.open.rows) + Len(parts.history.rows)
BothFailed == parts.open.err # "success" /\ parts.history.err # "success"

\* Nothing to return; the parts' arrays, if they have any, stay allocated.
CombineNothing ==
  /\ pc = "combine" /\ (BothFailed \/ Total = 0)
  /\ Return(IF BothFailed THEN parts.open.err ELSE "success", <<>>, None)
  /\ UNCHANGED <<world, reading, heap, parts, misread>>

\* Mutant: the history goes in front.
CombineHistoryFirst ==
  /\ pc = "combine" /\ Total > 0
  /\ heap' = (heap \ {Array("open"), Array("history")}) \cup {Combined}
  /\ Return("success", parts.history.rows \o parts.open.rows, Combined)
  /\ UNCHANGED <<world, reading, parts, misread>>

Combine ==
  /\ pc = "combine" /\ Total > 0
  /\ heap' = (heap \ {Array("open"), Array("history")}) \cup {Combined}
  /\ Return("success", parts.open.rows \o parts.history.rows, Combined)
  /\ UNCHANGED <<world, reading, parts, misread>>

\* No memory: hl_free_orders of two parts, one of which has an element.
CombineFails ==
  /\ pc = "combine" /\ Total > 0
  /\ pc' = "corrupt"
  /\ UNCHANGED <<world, reading, heap, parts, result, misread>>

\* No element: the array is not released.
PickNone ==
  /\ pc = "pick" /\ parts.interests.rows = <<>>
  /\ Return("notfound", <<>>, None)
  /\ UNCHANGED <<world, reading, heap, parts, misread>>

Pick ==
  /\ pc = "pick" /\ parts.interests.rows # <<>>
  /\ heap' = heap \ {Array("interests")}
  /\ Return("success", <<Head(parts.interests.rows)>>, None)
  /\ UNCHANGED <<world, reading, parts, misread>>

-----------------------------------------------------------------------------
(* The application releases what it got, and the exchange (external). *)

ByElement == api \in Names => Fetchers[api].frees = "each"

\* hl_free_orders and hl_free_trades pass every element to free() before the
\* array: the first is the array itself, the others were never allocated.
FreeElements ==
  /\ pc = "idle" /\ result.block # None /\ ByElement
  /\ IF result.rows # <<>>
     THEN pc' = "corrupt" /\ UNCHANGED <<heap, result>>
     ELSE /\ heap' = heap \ {result.block}
          /\ result' = [result EXCEPT !.block = None]
          /\ UNCHANGED pc
  /\ UNCHANGED <<world, reading, parts, misread>>

\* The other hl_free_ functions release the array.  (hl_free_positions is passed
\* the pointer by value; its caller forgets it.)
FreeWhole ==
  /\ pc = "idle" /\ result.block # None /\ ~ByElement
  /\ heap' = heap \ {result.block}
  /\ result' = [result EXCEPT !.rows = <<>>, !.block = None]
  /\ UNCHANGED <<pc, world, reading, parts, misread>>

Become(i, s) ==
  /\ book' = [book EXCEPT ![i] = s]
  /\ seen' = [seen EXCEPT ![i] = @ \cup {s}]
  /\ UNCHANGED <<wallet, callVars>>

Trade(i) ==
  \/ book[i] = "none" /\ Become(i, "open")
  \/ book[i] = "open" /\ (Become(i, "filled") \/ Become(i, "canceled"))

-----------------------------------------------------------------------------

Step ==
  \/ NoWallet \/ PostFails \/ PostRefused \/ ReleaseRefused \/ Answer
  \/ NotJson \/ ParseJson \/ WrongShape \/ EmptyArray \/ RightShape
  \/ AllocFails \/ Alloc \/ SkipEntry \/ TakeEntry \/ RefuseOrder \/ AllRead
  \/ CountNone \/ CountSome \/ CountFails \/ CopyRow \/ Copied
  \/ CombineNothing \/ Combine \/ CombineFails \/ PickNone \/ Pick

Next ==
  \/ \E a \in Apis : Call(a)
  \/ Step
  \/ FreeElements \/ FreeWhole
  \/ \E i \in Ids : Trade(i)

Spec == Init /\ [][Next]_vars

-----------------------------------------------------------------------------
(* Properties. *)

\* hl_fetch_orders asks for the open orders before the history, so an order
\* that is filled or cancelled between the two requests is in the second: when
\* both requests succeed, every order there was at the start of the call is
\* in the result, unless an entry of it could not be parsed or came without the
\* status that says it is not open any more, which drops it from the history.
NothingMissed ==
  (pc = "idle" /\ api = "orders" /\ result.err = "success"
     /\ parts.open.err = "success" /\ parts.history.err = "success")
    => \A i \in Ids \ misread :
         "none" \notin seen[i] => \E k \in DOMAIN result.rows : result.rows[k].id = i

\* An entry without a status is read as an open order.  That default misleads
\* no fetcher of a list: the open orders are open, and the filters drop what is
\* called open.  So every order of a list is reported with a status it had while
\* the call ran; hl_fetch_order alone can report as open an order that was
\* closed throughout, and only when the entry did not say so.
StatusWasTrue ==
  \A k \in DOMAIN result.rows :
    LET row == result.rows[k]
    IN  \/ row.status \in seen[row.id]
        \/ api = "order" /\ row.status = "open" /\ row.id \in misread

\* An order that changes between the two requests of hl_fetch_orders can be in
\* its result twice: then the later row is the later status, so that a reader who
\* keeps the last row of each order never has a closed one as open.
ToldInOrder ==
  \A j, k \in DOMAIN result.rows :
    j < k /\ result.rows[j].id = result.rows[k].id
      => result.rows[j].status = "open" /\ result.rows[k].status # "open"

\* A fetcher that filters by status returns only orders of that status.
StatusAsAsked ==
  api \in Names =>
    \A k \in DOMAIN result.rows :
      result.rows[k].status \in Fetchers[api].lists \cap Fetchers[api].keeps

\* Whatever way a call ends, responses, JSON trees and temporary arrays are
\* released; all that can stay behind are arrays without an element.
OnlyEmptyArraysLeak ==
  pc = "idle" =>
    \A b \in heap :
      b = result.block \/ \E n \in Names : b = Array(n) /\ parts[n].rows = <<>>

\* What the application gets is alive and only there on success.
ResultOwned ==
  pc = "idle" =>
    /\ result.block # None => result.err = "success" /\ result.block \in heap
    /\ result.rows # <<>> => result.err = "success"

\* The fields of an element come from its own entry of the response, in every
\* fetcher whose filter runs before the element is filled.
OwnFields ==
  (api \notin Names \/ Fetchers[api].filter # "after") =>
    \A k \in DOMAIN result.rows :
      result.rows[k].from \in {None, result.rows[k].id}

\* An application that frees what it fetched with the functions it is told to
\* use keeps its heap intact.
HeapIntact == pc # "corrupt"
=============================================================================
