------------------------- MODULE InfoQueriesProofs -------------------------
(***************************************************************************)
(* What the queries promise, for any number of orders, any answers and any *)
(* trading while a call runs.                                              *)
(***************************************************************************)
EXTENDS InfoQueries, FiniteSetTheorems, TLAPS

FetcherType ==
  [user : BOOLEAN, noWallet : Errors \ {"success"}, lists : SUBSET Listed,
   filter : {"no", "copy", "one", "before", "after"}, keeps : SUBSET Listed,
   badStatus : Errors \ {"success"}, notArray : Errors, early : BOOLEAN,
   emptyArray : BOOLEAN, frees : {"whole", "each"}]

\* The steps of a fetcher.
Steps == {"post", "refused", "parse", "shape", "alloc", "read", "count", "copy"}

\* Which fetchers a call has still to run.
ControlInv ==
  /\ pc \in Steps /\ api = "orders" => todo = <<"open", "history">> \/ todo = <<"history">>
  /\ pc \in Steps /\ api = "interest" => todo = <<"interests">>
  /\ pc \in Steps /\ api \in Names => todo = <<api>>
  /\ pc \notin Steps => todo = <<>>
  /\ pc = "combine" => api = "orders"
  /\ pc = "pick" => api = "interest"

\* What hl_fetch_orders has from its first request while it runs the second.
Prior == IF api = "orders" /\ Running = "history" THEN {Array("open")} ELSE {}

\* What a fetcher holds at each of its steps, so that every early return
\* releases all of it; and a part that failed has no entries.
HeapInv ==
  /\ pc \in Steps =>
       /\ heap \subseteq Prior \cup {Response, Json, Temp, Array(Running)}
       /\ Response \in heap => pc # "post"
       /\ Json \in heap => pc \notin {"post", "refused", "parse"}
       /\ Temp \in heap => pc \in {"read", "count", "copy"} /\ Fetcher.filter = "copy"
       /\ Array(Running) \in heap =>
            \/ pc = "read" /\ Fetcher.filter \notin {"copy", "one"}
            \/ pc = "copy"
       /\ pc = "alloc" => Fetcher.filter # "one"
       /\ pc \in {"count", "copy"} => Fetcher.filter = "copy"
  /\ pc = "combine" => heap \subseteq {Array("open"), Array("history")}
  /\ pc = "pick" => heap \subseteq {Array("interests")}
  /\ \A n \in Names : parts[n].err # "success" => parts[n].rows = <<>>
  /\ pc \notin {"idle", "corrupt"} => result.block = None

\* The ways a fetcher succeeds with rs.
Success(rs) ==
  \/ pc = "shape" /\ reply = <<>> /\ rs = <<>>
  \/ pc = "shape" /\ Fetcher.notArray = "success" /\ rs = <<>>
  \/ pc = "read" /\ reply = <<>> /\ Fetcher.filter # "copy" /\ rs = rows
  \/ pc = "count" /\ ~AnyKept /\ rs = <<>>
  \/ pc = "copy" /\ rows = <<>> /\ rs = kept

\* The end of a fetcher, however it comes about.
Ending(err, rs, blocks) ==
  /\ pc \in Steps
  /\ Finish(err, rs, blocks)
  /\ misread' = misread
  /\ blocks \subseteq Prior \cup {Array(Running)}
  /\ Array(Running) \in blocks => err = "success"
  /\ IF err = "success" THEN Success(rs) ELSE rs = <<>>

Ends == \E err \in Errors, rs \in Seq(Rows), blocks \in SUBSET Blocks :
          Ending(err, rs, blocks)

-----------------------------------------------------------------------------
(* The constants of the module. *)

LEMMA NamesAre ==
  Names = {"open", "closed", "canceled", "history", "order", "fills", "trades",
           "rates", "interests", "rateHistory", "payments", "ledger", "positions",
           "tickers", "currencies"}
BY DEF Names, Fetchers

LEMMA UsualType == Usual \in FetcherType
BY DEF Usual, FetcherType, Errors, Listed

LEMMA FetcherTypes == \A n \in Names : Fetchers[n] \in FetcherType
<1>1. /\ OpenOrders \in FetcherType /\ ClosedOrders \in FetcherType
      /\ CanceledOrders \in FetcherType /\ CanceledAndClosed \in FetcherType
  BY DEF OpenOrders, ClosedOrders, CanceledOrders, CanceledAndClosed, Usual,
         FetcherType, Errors, Listed
<1>2. /\ OneOrder \in FetcherType /\ MyTrades \in FetcherType
      /\ PublicTrades \in FetcherType /\ FundingRates \in FetcherType
      /\ OpenInterests \in FetcherType
  BY DEF OneOrder, MyTrades, PublicTrades, FundingRates, OpenInterests, Usual,
         FetcherType, Errors, Listed
<1>3. /\ FundingRateHistory \in FetcherType /\ FundingHistory \in FetcherType
      /\ Ledger \in FetcherType /\ Positions \in FetcherType
  BY DEF FundingRateHistory, FundingHistory, Ledger, Positions, Usual,
         FetcherType, Errors, Listed
<1>4. Tickers \in FetcherType /\ Currencies \in FetcherType
  BY DEF Tickers, Currencies, Usual, FetcherType, Errors, Listed
<1> QED
  BY <1>1, <1>2, <1>3, <1>4, NamesAre DEF Fetchers

\* A list of entries of an answer.
LEMMA AskedSequence ==
  ASSUME NEW s \in Asked
  PROVE  \E n \in Nat : DOMAIN s = 1..n /\ \A k \in 1..n : s[k] \in Listing
<1>1. CASE Fetcher.filter = "one"
  <2>1. PICK i \in Listing : s = <<i>>
    BY <1>1 DEF Asked
  <2>2. DOMAIN s = 1..1 /\ \A k \in 1..1 : s[k] \in Listing
    BY <2>1
  <2> QED
    BY <2>2
<1>2. CASE Fetcher.filter # "one"
  <2>1. Cardinality(Listing) \in Nat
    <3>1. IsFiniteSet(Listing)
      BY IdsAssumption, FS_Subset DEF Listing
    <3> QED
      BY <3>1, FS_CardinalityType
  <2> QED
    BY <1>2, <2>1 DEF Asked, Orderings
<1> QED
  BY <1>1, <1>2

-----------------------------------------------------------------------------
(* Types and control. *)

LEMMA OneElement ==
  ASSUME NEW x
  PROVE  <<x>> # <<>> /\ Head(<<x>>) = x /\ Tail(<<x>>) = <<>>
OBVIOUS

LEMMA PlanSteps ==
  ASSUME TypeOK, ControlInv, pc \in Steps
  PROVE  /\ todo # <<>> /\ Running \in Names /\ Tail(todo) \in Seq(Names)
         /\ Tail(todo) # <<>> => api = "orders" /\ Tail(todo) = <<"history">>
<1>1. api \in Names => api # "orders" /\ api # "interest"
  BY NamesAre
<1>2. CASE todo = <<"open", "history">> /\ api = "orders"
  <2>1. Tail(todo) = <<"history">> /\ Head(todo) = "open" /\ todo # <<>>
    BY <1>2
  <2>2. Tail(todo) \in Seq(Names)
    <3>1. "history" \in Names
      BY NamesAre
    <3>2. <<"history">> \in Seq(Names)
      BY <3>1
    <3> QED
      BY <2>1, <3>2
  <2> QED
    BY <1>2, <2>1, <2>2, NamesAre, Zenon DEF Running
<1>3. ASSUME NEW n \in Names, todo = <<n>>
      PROVE  todo # <<>> /\ Running \in Names /\ Tail(todo) = <<>>
  BY <1>3, OneElement DEF Running
<1>4. <<>> \in Seq(Names)
  OBVIOUS
<1>5. \/ todo = <<"open", "history">> /\ api = "orders"
      \/ \E n \in Names : todo = <<n>>
  <2>1. api \in Names \cup {"orders", "interest"}
    BY DEF TypeOK, Apis
  <2>2. "history" \in Names /\ "interests" \in Names
    BY NamesAre
  <2> QED
    BY <1>1, <2>1, <2>2 DEF ControlInv
<1> QED
  BY <1>2, <1>3, <1>4, <1>5

LEMMA ArrayBlock ==
  /\ \A n \in Names : Array(n) \in Blocks
  /\ {Response, Json, Temp, Combined} \subseteq Blocks
BY DEF Blocks

LEMMA FinishTypes ==
  ASSUME TypeOK, ControlInv, pc \in Steps, NEW err \in Errors,
         NEW rs \in Seq(Rows), NEW blocks \in SUBSET Blocks,
         Finish(err, rs, blocks), misread' \in SUBSET Ids
  PROVE  TypeOK' /\ ControlInv'
<1>0. /\ todo # <<>> /\ Running \in Names /\ Tail(todo) \in Seq(Names)
      /\ Tail(todo) # <<>> => api = "orders" /\ Tail(todo) = <<"history">>
  BY PlanSteps
<1>1. /\ parts' = [parts EXCEPT ![Running] = [err |-> err, rows |-> rs]]
      /\ todo' = Tail(todo)
      /\ rows' = <<>> /\ kept' = <<>> /\ slot' = Blank /\ reply' = <<>>
      /\ heap' = blocks
      /\ book' = book /\ wallet' = wallet /\ api' = api /\ seen' = seen
  BY DEF Finish, world
<1>2. /\ \/ pc' = "post" /\ todo' # <<>>
         \/ pc' = "combine" /\ todo' = <<>> /\ api = "orders"
         \/ pc' = "pick" /\ api = "interest"
         \/ pc' = "idle" /\ api # "orders"
      /\ \/ result' = result
         \/ result' = [err |-> err, rows |-> rs, block |-> None]
         \/ result' = [err |-> err, rows |-> rs, block |-> Array(Running)]
  BY <1>1 DEF Finish, Return
<1>3. parts' \in [Names -> Parts]
  <2>1. [err |-> err, rows |-> rs] \in Parts
    BY DEF Parts
  <2> QED
    BY <1>0, <1>1, <2>1 DEF TypeOK
<1>4. result' \in [err : Errors, rows : Seq(Rows), block : Blocks \cup {None}]
  BY <1>0, <1>2, ArrayBlock DEF TypeOK
<1>5. TypeOK'
  <2>1. <<>> \in Seq(Rows) /\ <<>> \in Seq(Entries)
    OBVIOUS
  <2> QED
    BY <1>0, <1>1, <1>2, <1>3, <1>4, <2>1 DEF TypeOK, Blank
<1>6. ControlInv'
  BY <1>0, <1>1, <1>2 DEF ControlInv, Steps
<1> QED
  BY <1>5, <1>6

\* A step that moves the call on and allocates or releases.
LEMMA MoveTypes ==
  ASSUME TypeOK, ControlInv, pc \in Steps, pc' \in Steps,
         heap' \in SUBSET Blocks,
         UNCHANGED <<world, reading, parts, result, misread>>
  PROVE  TypeOK' /\ ControlInv'
BY DEF TypeOK, ControlInv, world, reading, Steps

\* A step outside the fetchers.
LEMMA OuterTypes ==
  ASSUME TypeOK, ControlInv, pc \notin Steps,
         pc' \in {"idle", "corrupt"} \/ pc' = pc,
         heap' \in SUBSET Blocks,
         result' \in [err : Errors, rows : Seq(Rows), block : Blocks \cup {None}],
         UNCHANGED <<world, reading, parts, misread>>
  PROVE  TypeOK' /\ ControlInv'
BY DEF TypeOK, ControlInv, world, reading, Steps

LEMMA InitTypes == Init => TypeOK /\ ControlInv
<1> SUFFICES ASSUME Init PROVE TypeOK /\ ControlInv
  OBVIOUS
<1>1. /\ <<>> \in Seq(Rows) /\ <<>> \in Seq(Entries) /\ <<>> \in Seq(Names)
      /\ "open" \in Names
  BY NamesAre
<1>2. NoPart \in Parts
  BY <1>1 DEF NoPart, Parts, Errors
<1>3. NoResult \in [err : Errors, rows : Seq(Rows), block : Blocks \cup {None}]
  BY <1>1 DEF NoResult, Errors
<1>4. parts \in [Names -> Parts]
  BY <1>2 DEF Init
<1>5. book \in [Ids -> Statuses] /\ seen \in [Ids -> SUBSET Statuses]
  BY DEF Init, Statuses, Listed
<1>6. TypeOK
  BY <1>1, <1>3, <1>4, <1>5 DEF Init, TypeOK, Blank, Apis
<1> QED
  BY <1>6 DEF Init, ControlInv, Steps

LEMMA CallTypes ==
  ASSUME TypeOK, ControlInv, NEW a \in Apis, Call(a)
  PROVE  TypeOK' /\ ControlInv'
<1>1. a \in Names \/ a = "orders" \/ a = "interest"
  BY DEF Apis
<1>2. {"orders", "interest"} \cap Names = {}
  BY NamesAre
<1>3. /\ a = "orders" => todo' = <<"open", "history">>
      /\ a = "interest" => todo' = <<"interests">>
      /\ a \in Names => todo' = <<a>>
  BY <1>2 DEF Call, Todo
<1>4. todo' \in Seq(Names)
  <2>1. "open" \in Names /\ "history" \in Names /\ "interests" \in Names
    BY NamesAre
  <2>2. /\ <<"open", "history">> \in Seq(Names) /\ <<"interests">> \in Seq(Names)
        /\ a \in Names => <<a>> \in Seq(Names)
    BY <2>1
  <2> QED
    BY <1>1, <1>3, <2>2, Zenon
<1>5. NoPart \in Parts /\ <<>> \in Seq(Rows)
  BY DEF NoPart, Parts, Errors
<1>6. NoResult \in [err : Errors, rows : Seq(Rows), block : Blocks \cup {None}]
  BY <1>5 DEF NoResult, Errors
<1>7. seen' \in [Ids -> SUBSET Statuses] /\ parts' \in [Names -> Parts]
  BY <1>5 DEF Call, TypeOK
<1>8. /\ pc' = "post" /\ api' = a /\ heap' = {} /\ result' = NoResult
      /\ misread' = {} /\ UNCHANGED <<book, wallet, reply, rows, kept, slot>>
  BY DEF Call
<1>9. TypeOK'
  BY <1>4, <1>6, <1>7, <1>8 DEF TypeOK
<1> QED
  BY <1>1, <1>2, <1>3, <1>8, <1>9 DEF ControlInv, Steps

LEMMA AnswerTypes ==
  ASSUME TypeOK, ControlInv, Answer
  PROVE  TypeOK' /\ ControlInv'
<1>1. PICK s \in Asked, match \in Matches, says \in Tells,
           ok \in SUBSET Ids, full \in SUBSET Ids :
        /\ reply' = [k \in DOMAIN s |->
                       [id |-> s[k], status |-> book[s[k]], ok |-> s[k] \in ok,
                        full |-> s[k] \in full, says |-> s[k] \in says,
                        match |-> s[k] \in match]]
        /\ misread' = misread \cup
             {i \in {s[k] : k \in DOMAIN s} :
                i \notin ok \/ (i \notin says /\ book[i] # "open")}
  BY DEF Answer
<1>2. PICK n \in Nat : DOMAIN s = 1..n /\ \A k \in 1..n : s[k] \in Listing
  BY AskedSequence
<1>3. pc = "post" /\ pc \in Steps
  BY DEF Answer, MayPost, Steps
<1>4. Running \in Names /\ Fetcher \in FetcherType
  BY <1>3, PlanSteps, FetcherTypes DEF Fetcher
<1>5. \A i \in Listing : i \in Ids /\ book[i] \in Listed
  BY <1>4 DEF Listing, FetcherType
<1>6. reply' \in Seq(Entries)
  <2>1. \A k \in 1..n :
          [id |-> s[k], status |-> book[s[k]], ok |-> s[k] \in ok,
           full |-> s[k] \in full, says |-> s[k] \in says,
           match |-> s[k] \in match] \in Entries
    BY <1>2, <1>5 DEF Entries
  <2> QED
    BY <1>1, <1>2, <2>1
<1>7. misread' \in SUBSET Ids
  BY <1>1, <1>2, <1>5 DEF TypeOK
<1>8. /\ pc' = "parse" /\ heap' = heap \cup {Response}
      /\ UNCHANGED <<book, wallet, api, seen, todo, rows, kept, slot, parts, result>>
  BY DEF Answer, world
<1>9. TypeOK'
  BY <1>6, <1>7, <1>8, ArrayBlock DEF TypeOK
<1> QED
  BY <1>3, <1>8, <1>9 DEF ControlInv, Steps

\* Entries and rows of well-typed sequences.
LEMMA HeadTail ==
  ASSUME NEW S, NEW s \in Seq(S), s # <<>>
  PROVE  Head(s) \in S /\ Tail(s) \in Seq(S)
OBVIOUS

LEMMA ParsedType ==
  ASSUME TypeOK, NEW e \in Entries
  PROVE  Parsed(e) \in Rows /\ Parsed(e).from \in Ids \cup {None}
BY DEF TypeOK, Parsed, Told, Rows, Entries, Listed

LEMMA ReadTypes ==
  ASSUME TypeOK, ControlInv, SkipEntry \/ TakeEntry \/ CopyRow
  PROVE  TypeOK' /\ ControlInv'
<1>1. CASE SkipEntry
  <2>1. Head(reply) \in Entries /\ Tail(reply) \in Seq(Entries)
    BY <1>1, HeadTail DEF SkipEntry, TypeOK
  <2>2. slot' \in Ids \cup {None}
    BY <1>1, <2>1, ParsedType DEF SkipEntry, TypeOK
  <2>3. /\ reply' = Tail(reply)
        /\ UNCHANGED <<pc, book, wallet, api, seen, todo, rows, kept, heap, parts,
                       result, misread>>
    BY <1>1 DEF SkipEntry, world
  <2> QED
    BY <2>1, <2>2, <2>3 DEF TypeOK, ControlInv
<1>2. CASE TakeEntry
  <2>1. Head(reply) \in Entries /\ Tail(reply) \in Seq(Entries)
    BY <1>2, HeadTail DEF TakeEntry, TypeOK
  <2>2. Append(rows, Parsed(Head(reply))) \in Seq(Rows)
    BY <2>1, ParsedType DEF TypeOK
  <2>3. /\ reply' = Tail(reply) /\ rows' = Append(rows, Parsed(Head(reply)))
        /\ slot' = None
        /\ UNCHANGED <<pc, book, wallet, api, seen, todo, kept, heap, parts,
                       result, misread>>
    BY <1>2 DEF TakeEntry, world, Blank
  <2> QED
    BY <2>1, <2>2, <2>3 DEF TypeOK, ControlInv
<1>3. CASE CopyRow
  <2>1. Head(rows) \in Rows /\ Tail(rows) \in Seq(Rows)
    BY <1>3, HeadTail DEF CopyRow, TypeOK
  <2>2. Append(kept, Head(rows)) \in Seq(Rows)
    BY <2>1 DEF TypeOK
  <2>3. /\ rows' = Tail(rows) /\ kept' \in Seq(Rows)
        /\ UNCHANGED <<pc, book, wallet, api, seen, todo, reply, slot, heap, parts,
                       result, misread>>
    BY <1>3, <2>2 DEF CopyRow, world, TypeOK
  <2> QED
    BY <2>1, <2>3 DEF TypeOK, ControlInv
<1> QED
  BY <1>1, <1>2, <1>3

LEMMA BlocksDiffer ==
  /\ \A n, m \in Names : Array(n) = Array(m) => n = m
  /\ \A n \in Names : Array(n) \notin {Response, Json, Temp, Combined}
  /\ Response \notin {Json, Temp, Combined} /\ Json \notin {Temp, Combined}
  /\ Temp # Combined
BY DEF Array, Response, Json, Temp, Combined

\* Every action that ends a fetcher is an Ending.
LEMMA EndsStep ==
  ASSUME TypeOK, ControlInv, HeapInv,
         \/ NoWallet \/ PostFails \/ ReleaseRefused \/ NotJson \/ WrongShape
         \/ EmptyArray \/ AllocFails \/ RefuseOrder \/ CountNone \/ CountFails
         \/ Copied \/ (AllRead /\ Fetcher.filter # "copy")
  PROVE  Ends
<1>0. pc \in Steps
  BY DEF NoWallet, PostFails, MayPost, ReleaseRefused, NotJson, WrongShape,
         EmptyArray, AllocFails, RefuseOrder, CountNone, CountFails, Copied,
         AllRead, Steps
<1>1. Running \in Names /\ Fetcher \in FetcherType
  BY <1>0, PlanSteps, FetcherTypes DEF Fetcher
<1>2. /\ heap \in SUBSET Blocks /\ Released \in SUBSET Blocks
      /\ heap \ {Response} \in SUBSET Blocks /\ Released \ {Temp} \in SUBSET Blocks
      /\ <<>> \in Seq(Rows) /\ rows \in Seq(Rows) /\ kept \in Seq(Rows)
  BY DEF TypeOK, Released
<1>3. /\ {"success", "network", "json", "memory"} \subseteq Errors
      /\ Fetcher.noWallet \in Errors \ {"success"}
      /\ Fetcher.badStatus \in Errors \ {"success"}
      /\ Fetcher.notArray \in Errors
  BY <1>1 DEF Errors, FetcherType
<1> DEFINE Clean(blocks) ==
      /\ blocks \subseteq Prior \cup {Array(Running)}
      /\ Array(Running) \in blocks =>
           \/ pc = "read" /\ Fetcher.filter \notin {"copy", "one"}
           \/ pc = "copy"
<1>4. /\ pc = "post" => Clean(heap)
      /\ pc \in {"refused", "parse"} => Clean(heap \ {Response})
      /\ pc \in {"shape", "alloc"} => Clean(Released)
      /\ pc = "read" /\ Fetcher.filter # "copy" => Clean(Released)
      /\ pc \in {"count", "copy"} => Clean(Released \ {Temp})
  BY <1>0, <1>1, BlocksDiffer DEF HeapInv, Released
<1>5. CASE NoWallet
  BY <1>0, <1>2, <1>3, <1>4, <1>5 DEF NoWallet, Ends, Ending
<1>6. CASE PostFails
  BY <1>0, <1>2, <1>3, <1>4, <1>6 DEF PostFails, MayPost, Ends, Ending
<1>7. CASE ReleaseRefused
  BY <1>0, <1>2, <1>3, <1>4, <1>7 DEF ReleaseRefused, Ends, Ending
<1>8. CASE NotJson
  BY <1>0, <1>2, <1>3, <1>4, <1>8 DEF NotJson, Ends, Ending
<1>9. CASE WrongShape
  BY <1>0, <1>2, <1>3, <1>4, <1>9 DEF WrongShape, Ends, Ending, Success
<1>10. CASE EmptyArray
  BY <1>0, <1>2, <1>3, <1>4, <1>10 DEF EmptyArray, Ends, Ending, Success
<1>11. CASE AllocFails
  BY <1>0, <1>2, <1>3, <1>4, <1>11 DEF AllocFails, Ends, Ending
<1>12. CASE RefuseOrder
  BY <1>0, <1>2, <1>3, <1>4, <1>12 DEF RefuseOrder, Ends, Ending
<1>13. CASE CountNone
  BY <1>0, <1>2, <1>3, <1>4, <1>13 DEF CountNone, Ends, Ending, Success
<1>14. CASE CountFails
  BY <1>0, <1>2, <1>3, <1>4, <1>14 DEF CountFails, Ends, Ending
<1>15. CASE Copied
  BY <1>0, <1>2, <1>3, <1>4, <1>15 DEF Copied, Ends, Ending, Success
<1>16. CASE AllRead /\ Fetcher.filter # "copy"
  BY <1>0, <1>2, <1>3, <1>4, <1>16 DEF AllRead, Ends, Ending, Success
<1> QED
  BY <1>5, <1>6, <1>7, <1>8, <1>9, <1>10, <1>11, <1>12, <1>13, <1>14, <1>15,
     <1>16

\* Where a fetcher returns to, and with what.
LEMMA EndingEffect ==
  ASSUME TypeOK, ControlInv, NEW err \in Errors, NEW rs \in Seq(Rows),
         NEW blocks \in SUBSET Blocks, Ending(err, rs, blocks)
  PROVE  /\ pc \in Steps /\ Running \in Names
         /\ parts' = [parts EXCEPT ![Running] = [err |-> err, rows |-> rs]]
         /\ rows' = <<>> /\ kept' = <<>> /\ reply' = <<>> /\ slot' = None
         /\ heap' = blocks /\ misread' = misread
         /\ book' = book /\ wallet' = wallet /\ api' = api /\ seen' = seen
         /\ \/ /\ pc' = "post" /\ api = "orders" /\ Running = "open"
               /\ todo' = <<"history">> /\ result' = result
            \/ /\ pc' = "combine" /\ api = "orders" /\ Running = "history"
               /\ todo' = <<>> /\ result' = result
            \/ /\ pc' = "pick" /\ api = "interest" /\ Running = "interests"
               /\ todo' = <<>> /\ result' = result /\ err = "success"
            \/ /\ pc' = "idle" /\ api # "orders" /\ todo' = <<>>
               /\ api = "interest" => err # "success"
               /\ api \in Names => Running = api
               /\ result' = [err |-> err, rows |-> rs,
                             block |-> IF Array(Running) \in blocks
                                       THEN Array(Running) ELSE None]
<1>1. pc \in Steps /\ Finish(err, rs, blocks) /\ misread' = misread
  BY DEF Ending
<1>2. Running \in Names
  BY <1>1, PlanSteps
<1>3. /\ parts' = [parts EXCEPT ![Running] = [err |-> err, rows |-> rs]]
      /\ todo' = Tail(todo)
      /\ rows' = <<>> /\ kept' = <<>> /\ slot' = Blank /\ reply' = <<>>
      /\ heap' = blocks
      /\ book' = book /\ wallet' = wallet /\ api' = api /\ seen' = seen
  BY <1>1 DEF Finish, world
<1>4. /\ <<"open", "history">> # <<>>
      /\ Head(<<"open", "history">>) = "open"
      /\ Tail(<<"open", "history">>) = <<"history">> /\ <<"history">> # <<>>
  OBVIOUS
<1>5. \/ api = "orders" /\ Running = "open" /\ Tail(todo) = <<"history">>
      \/ api = "orders" /\ Running = "history" /\ Tail(todo) = <<>>
      \/ api = "interest" /\ Running = "interests" /\ Tail(todo) = <<>>
      \/ api \in Names /\ Running = api /\ Tail(todo) = <<>>
  <2>1. api \in Names \cup {"orders", "interest"}
    BY DEF TypeOK, Apis
  <2>2. CASE api = "orders"
    BY <1>1, <1>4, <2>2, OneElement DEF ControlInv, Running
  <2>3. CASE api = "interest"
    BY <1>1, <2>3, OneElement DEF ControlInv, Running
  <2>4. CASE api \in Names
    BY <1>1, <2>4, OneElement DEF ControlInv, Running
  <2> QED
    BY <2>1, <2>2, <2>3, <2>4
<1>6. api \in Names => api # "orders" /\ api # "interest"
  BY NamesAre
<1>7. \/ Tail(todo) # <<>> /\ pc' = "post" /\ result' = result
      \/ Tail(todo) = <<>> /\ api = "orders" /\ pc' = "combine" /\ result' = result
      \/ api = "interest" /\ err = "success" /\ pc' = "pick" /\ result' = result
      \/ /\ api # "orders"
         /\ api = "interest" => err # "success"
         /\ pc' = "idle"
         /\ result' = [err |-> err, rows |-> rs,
                       block |-> IF Array(Running) \in blocks
                                 THEN Array(Running) ELSE None]
  BY <1>1 DEF Finish, Return
<1> QED
  BY <1>1, <1>2, <1>3, <1>4, <1>5, <1>6, <1>7 DEF Blank

-----------------------------------------------------------------------------
(* What is allocated. *)

OwnedInv == HeapInv /\ OnlyEmptyArraysLeak /\ ResultOwned

LEMMA EndingHeap ==
  ASSUME TypeOK, ControlInv, HeapInv, NEW err \in Errors, NEW rs \in Seq(Rows),
         NEW blocks \in SUBSET Blocks, Ending(err, rs, blocks)
  PROVE  OwnedInv'
<1> DEFINE n == Running
<1>1. /\ pc \in Steps /\ n \in Names
      /\ parts' = [parts EXCEPT ![n] = [err |-> err, rows |-> rs]]
      /\ heap' = blocks /\ api' = api
  BY EndingEffect
<1>2. /\ blocks \subseteq Prior \cup {Array(n)}
      /\ Array(n) \in blocks => err = "success"
      /\ err # "success" => rs = <<>>
  BY DEF Ending
<1>3. \A m \in Names : parts'[m].err # "success" => parts'[m].rows = <<>>
  BY <1>1, <1>2 DEF HeapInv, TypeOK
<1>4. result.block = None
  BY <1>1 DEF HeapInv, Steps
<1>5. CASE /\ pc' = "post" /\ api = "orders" /\ Running = "open"
           /\ todo' = <<"history">> /\ result' = result
  <2>1. Running' = "history" /\ Prior = {}
    BY <1>5, OneElement DEF Running, Prior
  <2>2. Prior' = {Array("open")}
    BY <1>1, <1>5, <2>1 DEF Prior
  <2>3. heap' \subseteq {Array("open")} /\ "open" \in Names /\ "history" \in Names
    BY <1>1, <1>2, <1>5, <2>1, NamesAre
  <2>4. HeapInv'
    BY <1>3, <1>4, <1>5, <2>1, <2>2, <2>3, BlocksDiffer DEF HeapInv
  <2> QED
    BY <1>5, <2>4 DEF OwnedInv, OnlyEmptyArraysLeak, ResultOwned
<1>6. CASE /\ pc' = "combine" /\ api = "orders" /\ Running = "history"
           /\ todo' = <<>> /\ result' = result
  <2>1. heap' \subseteq {Array("open"), Array("history")}
    BY <1>1, <1>2, <1>6 DEF Prior
  <2> QED
    BY <1>3, <1>4, <1>6, <2>1
    DEF OwnedInv, HeapInv, Steps, OnlyEmptyArraysLeak, ResultOwned
<1>7. CASE /\ pc' = "pick" /\ api = "interest" /\ Running = "interests"
           /\ todo' = <<>> /\ result' = result /\ err = "success"
  <2>1. heap' \subseteq {Array("interests")}
    BY <1>1, <1>2, <1>7 DEF Prior
  <2> QED
    BY <1>3, <1>4, <1>7, <2>1
    DEF OwnedInv, HeapInv, Steps, OnlyEmptyArraysLeak, ResultOwned
<1>8. CASE /\ pc' = "idle" /\ api # "orders"
           /\ result' = [err |-> err, rows |-> rs,
                         block |-> IF Array(n) \in blocks THEN Array(n) ELSE None]
  <2>1. heap' \subseteq {Array(n)}
    BY <1>1, <1>2, <1>8 DEF Prior
  <2>2. /\ result'.err = err /\ result'.rows = rs
        /\ result'.block = IF Array(n) \in blocks THEN Array(n) ELSE None
    BY <1>8
  <2>3. OnlyEmptyArraysLeak'
    BY <1>1, <2>1, <2>2 DEF OnlyEmptyArraysLeak
  <2>4. ResultOwned'
    BY <1>1, <1>2, <2>2 DEF ResultOwned
  <2>5. HeapInv'
    BY <1>3, <1>8 DEF HeapInv, Steps
  <2> QED
    BY <2>3, <2>4, <2>5 DEF OwnedInv
<1> QED
  BY <1>5, <1>6, <1>7, <1>8, EndingEffect

\* The steps inside a fetcher.
LEMMA MoveHeap ==
  ASSUME TypeOK, ControlInv, HeapInv,
         \/ PostRefused \/ Answer \/ ParseJson \/ RightShape \/ Alloc
         \/ SkipEntry \/ TakeEntry \/ (AllRead /\ Fetcher.filter = "copy")
         \/ CountSome \/ CopyRow
  PROVE  OwnedInv' /\ pc \in Steps /\ pc' \in Steps
<1>0. pc \in Steps /\ pc' \in Steps
  BY DEF PostRefused, Answer, MayPost, ParseJson, RightShape, Alloc, SkipEntry,
         TakeEntry, AllRead, CountSome, CopyRow, Steps
<1>1. /\ UNCHANGED <<api, todo, parts, result>>
      /\ Running' = Running /\ Fetcher' = Fetcher /\ Prior' = Prior
  BY DEF PostRefused, Answer, ParseJson, RightShape, Alloc, SkipEntry,
         TakeEntry, AllRead, CountSome, CopyRow, world, reading, Running,
         Fetcher, Prior
<1>2. Running \in Names
  BY <1>0, PlanSteps
<1>3. /\ \A m \in Names : parts'[m].err # "success" => parts'[m].rows = <<>>
      /\ result'.block = None
  BY <1>0, <1>1 DEF HeapInv, Steps
<1>4. ASSUME /\ heap' \subseteq Prior \cup {Response, Json, Temp, Array(Running)}
             /\ Response \in heap' => pc' # "post"
             /\ Json \in heap' => pc' \notin {"post", "refused", "parse"}
             /\ Temp \in heap' =>
                  pc' \in {"read", "count", "copy"} /\ Fetcher.filter = "copy"
             /\ Array(Running) \in heap' =>
                  \/ pc' = "read" /\ Fetcher.filter \notin {"copy", "one"}
                  \/ pc' = "copy"
             /\ pc' = "alloc" => Fetcher.filter # "one"
             /\ pc' \in {"count", "copy"} => Fetcher.filter = "copy"
      PROVE  OwnedInv'
  <2>1. HeapInv'
    BY <1>0, <1>1, <1>3, <1>4 DEF HeapInv, Steps
  <2> QED
    BY <1>0, <2>1 DEF OwnedInv, OnlyEmptyArraysLeak, ResultOwned, Steps
<1>5. CASE PostRefused \/ Answer
  BY <1>0, <1>2, <1>4, <1>5, BlocksDiffer DEF PostRefused, Answer, MayPost, HeapInv
<1>6. CASE ParseJson
  BY <1>0, <1>2, <1>4, <1>6, BlocksDiffer DEF ParseJson, HeapInv
<1>7. CASE RightShape
  BY <1>0, <1>4, <1>7 DEF RightShape, HeapInv
<1>8. CASE Alloc
  <2>1. /\ pc = "alloc" /\ pc' = "read"
        /\ heap' = heap \cup {IF Fetcher.filter = "copy" THEN Temp ELSE Array(Running)}
    BY <1>8 DEF Alloc
  <2>2. Temp \notin heap /\ Array(Running) \notin heap
    BY <1>0, <2>1 DEF HeapInv
  <2> QED
    BY <1>0, <1>2, <1>4, <2>1, <2>2, BlocksDiffer DEF HeapInv
<1>9. CASE SkipEntry \/ TakeEntry \/ CopyRow
  BY <1>0, <1>4, <1>9 DEF SkipEntry, TakeEntry, CopyRow, HeapInv
<1>10. CASE AllRead /\ Fetcher.filter = "copy"
  BY <1>0, <1>4, <1>10 DEF AllRead, HeapInv
<1>11. CASE CountSome
  BY <1>0, <1>2, <1>4, <1>11, BlocksDiffer DEF CountSome, HeapInv
<1> QED
  BY <1>0, <1>5, <1>6, <1>7, <1>8, <1>9, <1>10, <1>11

LEMMA InitHeap == Init => OwnedInv
BY DEF Init, OwnedInv, HeapInv, OnlyEmptyArraysLeak, ResultOwned, NoPart,
       NoResult, Steps

LEMMA CallHeap ==
  ASSUME NEW a \in Apis, Call(a)
  PROVE  OwnedInv'
<1>1. /\ pc' = "post" /\ heap' = {} /\ result' = NoResult
      /\ parts' = [n \in Names |-> NoPart]
  BY DEF Call
<1> QED
  BY <1>1 DEF OwnedInv, HeapInv, OnlyEmptyArraysLeak, ResultOwned, NoPart, NoResult

\* The two calls that combine and pick.
LEMMA CombineHeap ==
  ASSUME TypeOK, ControlInv, HeapInv,
         \/ CombineNothing \/ Combine \/ CombineFails \/ PickNone \/ Pick
  PROVE  TypeOK' /\ ControlInv' /\ OwnedInv'
<1>0. /\ pc \in {"combine", "pick"} /\ pc \notin Steps /\ pc # "idle"
      /\ pc' \in {"idle", "corrupt"} /\ pc' \notin Steps
      /\ UNCHANGED <<world, reading, parts, misread>>
  BY DEF CombineNothing, Combine, CombineFails, PickNone, Pick, Return, Steps
<1>1. /\ "open" \in Names /\ "history" \in Names /\ "interests" \in Names
      /\ parts' = parts
  BY <1>0, NamesAre
<1>2. /\ \A n \in Names : /\ parts[n].err \in Errors /\ parts[n].rows \in Seq(Rows)
                          /\ parts[n].err # "success" => parts[n].rows = <<>>
      /\ <<>> \in Seq(Rows) /\ "success" \in Errors /\ "notfound" \in Errors
  BY DEF TypeOK, HeapInv, Parts, Errors
<1>3. ASSUME NEW err \in Errors, NEW rs \in Seq(Rows), NEW block \in Blocks \cup {None},
             Return(err, rs, block), heap' \in SUBSET Blocks,
             \A b \in heap' : b = block \/ \E n \in Names : b = Array(n) /\ parts[n].rows = <<>>,
             block # None => err = "success" /\ block \in heap',
             rs # <<>> => err = "success"
      PROVE  TypeOK' /\ ControlInv' /\ OwnedInv'
  <2>1. /\ result' = [err |-> err, rows |-> rs, block |-> block] /\ pc' = "idle"
        /\ result'.err = err /\ result'.rows = rs /\ result'.block = block
    BY <1>3 DEF Return
  <2>2. result' \in [err : Errors, rows : Seq(Rows), block : Blocks \cup {None}]
    BY <2>1
  <2>3. TypeOK' /\ ControlInv'
    BY <1>0, <1>3, <2>2, OuterTypes
  <2>4. OnlyEmptyArraysLeak' /\ ResultOwned'
    BY <1>1, <1>3, <2>1 DEF OnlyEmptyArraysLeak, ResultOwned
  <2>5. HeapInv'
    BY <1>0, <1>1, <1>2, <2>1 DEF HeapInv, Steps
  <2> QED
    BY <2>3, <2>4, <2>5 DEF OwnedInv
<1>4. CASE CombineNothing
  <2>1. parts.open = parts["open"] /\ parts.history = parts["history"]
    OBVIOUS
  <2>2. parts["open"].rows = <<>> /\ parts["history"].rows = <<>>
    <3>1. CASE BothFailed
      BY <1>1, <1>2, <3>1 DEF BothFailed
    <3>2. CASE Total = 0
      <4>0. Len(parts["open"].rows) \in Nat /\ Len(parts["history"].rows) \in Nat
        BY <1>1, <1>2
      <4>1. Len(parts["open"].rows) + Len(parts["history"].rows) = 0
        BY <2>1, <3>2, Zenon DEF Total
      <4>2. \A q \in Seq(Rows) : Len(q) = 0 => q = <<>>
        OBVIOUS
      <4>3. \A a, b \in Nat : a + b = 0 => a = 0 /\ b = 0
        OBVIOUS
      <4>4. Len(parts["open"].rows) = 0 /\ Len(parts["history"].rows) = 0
        BY <4>0, <4>1, <4>3, Zenon
      <4>5. parts["open"].rows \in Seq(Rows) /\ parts["history"].rows \in Seq(Rows)
        BY <1>1, <1>2
      <4> QED
        BY <4>2, <4>4, <4>5, Zenon
    <3> QED
      BY <1>4, <3>1, <3>2 DEF CombineNothing
  <2>3. heap' = heap /\ heap \subseteq {Array("open"), Array("history")}
    BY <1>0, <1>4 DEF CombineNothing, HeapInv
  <2>4. PICK err \in Errors : Return(err, <<>>, None)
    BY <1>1, <1>2, <1>4 DEF CombineNothing
  <2>5. heap' \in SUBSET Blocks
    BY <2>3 DEF TypeOK
  <2> QED
    BY <1>1, <1>2, <1>3, <2>2, <2>3, <2>4, <2>5
<1>5. CASE Combine
  <2>1. /\ Return("success", parts["open"].rows \o parts["history"].rows, Combined)
        /\ heap' = (heap \ {Array("open"), Array("history")}) \cup {Combined}
        /\ heap \subseteq {Array("open"), Array("history")}
    BY <1>0, <1>5 DEF Combine, HeapInv
  <2>2. parts["open"].rows \o parts["history"].rows \in Seq(Rows)
    BY <1>1, <1>2
  <2>3. heap' = {Combined} /\ Combined \in Blocks
    BY <2>1, ArrayBlock
  <2> QED
    BY <1>2, <1>3, <2>1, <2>2, <2>3
<1>6. CASE CombineFails
  <2>1. pc' = "corrupt" /\ heap' = heap /\ result' = result
    BY <1>6 DEF CombineFails
  <2>2. TypeOK' /\ ControlInv'
    BY <1>0, <2>1, OuterTypes DEF TypeOK
  <2> QED
    BY <1>0, <1>1, <1>2, <2>1, <2>2
    DEF OwnedInv, HeapInv, OnlyEmptyArraysLeak, ResultOwned, Steps
<1>7. CASE PickNone
  <2>1. /\ Return("notfound", <<>>, None) /\ heap' = heap
        /\ heap \subseteq {Array("interests")} /\ parts["interests"].rows = <<>>
    BY <1>0, <1>7 DEF PickNone, HeapInv
  <2>2. heap' \in SUBSET Blocks
    BY <2>1 DEF TypeOK
  <2> QED
    BY <1>1, <1>2, <1>3, <2>1, <2>2
<1>8. CASE Pick
  <2>1. /\ Return("success", <<Head(parts["interests"].rows)>>, None)
        /\ parts["interests"].rows # <<>>
        /\ heap' = heap \ {Array("interests")} /\ heap \subseteq {Array("interests")}
    BY <1>0, <1>8 DEF Pick, HeapInv
  <2>2. Head(parts["interests"].rows) \in Rows
    BY <1>1, <1>2, <2>1, HeadTail
  <2>3. <<Head(parts["interests"].rows)>> \in Seq(Rows) /\ heap' = {}
    BY <2>1, <2>2
  <2> QED
    BY <1>2, <1>3, <2>1, <2>3
<1> QED
  BY <1>4, <1>5, <1>6, <1>7, <1>8

LEMMA FreeHeap ==
  ASSUME TypeOK, ControlInv, OwnedInv, FreeElements \/ FreeWhole
  PROVE  TypeOK' /\ ControlInv' /\ OwnedInv'
<1>0. /\ pc = "idle" /\ pc \notin Steps /\ result.block # None
      /\ UNCHANGED <<world, reading, parts, misread>>
      /\ parts' = parts
  BY DEF FreeElements, FreeWhole, Steps
<1>1. /\ \A n \in Names : parts[n].err # "success" => parts[n].rows = <<>>
      /\ <<>> \in Seq(Rows)
  BY DEF OwnedInv, HeapInv
<1>2. CASE pc' = "corrupt" /\ heap' = heap /\ result' = result
  <2>1. TypeOK' /\ ControlInv'
    BY <1>0, <1>2, OuterTypes DEF TypeOK
  <2> QED
    BY <1>0, <1>1, <1>2, <2>1
    DEF OwnedInv, HeapInv, OnlyEmptyArraysLeak, ResultOwned, Steps
<1>3. CASE /\ pc' = "idle" /\ heap' = heap \ {result.block}
           /\ result' \in [err : Errors, rows : Seq(Rows), block : Blocks \cup {None}]
           /\ result'.block = None /\ result'.err = result.err
           /\ result'.rows # <<>> => result.rows # <<>>
  <2>1. TypeOK' /\ ControlInv'
    <3>1. heap' \in SUBSET Blocks
      BY <1>3 DEF TypeOK
    <3> QED
      BY <1>0, <1>3, <3>1, OuterTypes
  <2>2. OnlyEmptyArraysLeak' /\ ResultOwned'
    BY <1>0, <1>3 DEF OwnedInv, OnlyEmptyArraysLeak, ResultOwned
  <2>3. HeapInv'
    BY <1>0, <1>1, <1>3 DEF HeapInv, Steps
  <2> QED
    BY <2>1, <2>2, <2>3 DEF OwnedInv
<1>4. result \in [err : Errors, rows : Seq(Rows), block : Blocks \cup {None}]
  BY DEF TypeOK
<1>5. CASE FreeElements
  <2>1. CASE result.rows # <<>>
    BY <1>2, <1>5, <2>1 DEF FreeElements
  <2>2. CASE result.rows = <<>>
    <3>1. /\ pc' = "idle" /\ heap' = heap \ {result.block}
          /\ result' = [result EXCEPT !.block = None]
      BY <1>0, <1>5, <2>2 DEF FreeElements
    <3> QED
      BY <1>3, <1>4, <3>1
  <2> QED
    BY <2>1, <2>2
<1>6. CASE FreeWhole
  <2>1. /\ pc' = "idle" /\ heap' = heap \ {result.block}
        /\ result' = [result EXCEPT !.rows = <<>>, !.block = None]
    BY <1>0, <1>6 DEF FreeWhole
  <2> QED
    BY <1>1, <1>3, <1>4, <2>1
<1> QED
  BY <1>5, <1>6

LEMMA TradeTypes ==
  ASSUME TypeOK, ControlInv, OwnedInv, NEW i \in Ids, Trade(i)
  PROVE  TypeOK' /\ ControlInv' /\ OwnedInv'
<1>1. PICK st \in Statuses : Become(i, st)
  BY DEF Trade, Statuses, Listed
<1>2. /\ book' = [book EXCEPT ![i] = st]
      /\ seen' = [seen EXCEPT ![i] = @ \cup {st}]
      /\ UNCHANGED <<wallet, pc, api, todo, reply, rows, kept, slot, heap, parts,
                     result, misread>>
  BY <1>1 DEF Become, callVars
<1>3. book' \in [Ids -> Statuses] /\ seen' \in [Ids -> SUBSET Statuses]
  BY <1>2 DEF TypeOK
<1>4. TypeOK' /\ ControlInv'
  BY <1>2, <1>3 DEF TypeOK, ControlInv
<1> QED
  BY <1>2, <1>4 DEF OwnedInv, HeapInv, OnlyEmptyArraysLeak, ResultOwned, Prior,
                    Running, Fetcher

-----------------------------------------------------------------------------

\* Every step of a fetcher moves it on inside or ends it.
MoveAction ==
  \/ PostRefused \/ Answer \/ ParseJson \/ RightShape \/ Alloc
  \/ SkipEntry \/ TakeEntry \/ (AllRead /\ Fetcher.filter = "copy")
  \/ CountSome \/ CopyRow

OuterAction == CombineNothing \/ Combine \/ CombineFails \/ PickNone \/ Pick

LEMMA StepKinds ==
  ASSUME TypeOK, ControlInv, HeapInv, Step
  PROVE  Ends \/ MoveAction \/ OuterAction
BY EndsStep DEF Step, MoveAction, OuterAction

LEMMA MoveActionTypes ==
  ASSUME TypeOK, ControlInv, HeapInv, MoveAction
  PROVE  TypeOK' /\ ControlInv'
<1>1. pc \in Steps /\ pc' \in Steps
  BY MoveHeap DEF MoveAction
<1>2. CASE Answer
  BY <1>2, AnswerTypes
<1>3. CASE SkipEntry \/ TakeEntry \/ CopyRow
  BY <1>3, ReadTypes
<1>4. CASE \/ PostRefused \/ ParseJson \/ RightShape \/ Alloc
           \/ (AllRead /\ Fetcher.filter = "copy") \/ CountSome
  <2>1. UNCHANGED <<world, reading, parts, result, misread>>
    BY <1>4 DEF PostRefused, ParseJson, RightShape, Alloc, AllRead, CountSome
  <2>2. Running \in Names
    BY <1>1, PlanSteps
  <2>3. heap' \in SUBSET Blocks
    BY <1>4, <2>2, ArrayBlock
    DEF PostRefused, ParseJson, RightShape, Alloc, AllRead, CountSome, TypeOK
  <2> QED
    BY <1>1, <2>1, <2>3, MoveTypes
<1> QED
  BY <1>2, <1>3, <1>4 DEF MoveAction

LEMMA OwnedStep ==
  ASSUME TypeOK, ControlInv, OwnedInv, [Next]_vars
  PROVE  TypeOK' /\ ControlInv' /\ OwnedInv'
<1>0. HeapInv
  BY DEF OwnedInv
<1>1. ASSUME NEW a \in Apis, Call(a)
      PROVE  TypeOK' /\ ControlInv' /\ OwnedInv'
  BY <1>1, CallTypes, CallHeap
<1>2. CASE Ends
  <2>1. PICK err \in Errors, rs \in Seq(Rows), blocks \in SUBSET Blocks :
          Ending(err, rs, blocks)
    BY <1>2 DEF Ends
  <2>2. OwnedInv'
    BY <1>0, <2>1, EndingHeap
  <2>3. pc \in Steps /\ Finish(err, rs, blocks) /\ misread' \in SUBSET Ids
    BY <2>1 DEF Ending, TypeOK
  <2> QED
    BY <2>2, <2>3, FinishTypes
<1>3. CASE MoveAction
  <2>1. TypeOK' /\ ControlInv'
    BY <1>0, <1>3, MoveActionTypes
  <2> QED
    BY <1>0, <1>3, <2>1, MoveHeap DEF MoveAction
<1>4. CASE OuterAction
  BY <1>0, <1>4, CombineHeap DEF OuterAction
<1>5. CASE FreeElements \/ FreeWhole
  BY <1>5, FreeHeap
<1>6. ASSUME NEW i \in Ids, Trade(i)
      PROVE  TypeOK' /\ ControlInv' /\ OwnedInv'
  BY <1>6, TradeTypes
<1>7. CASE UNCHANGED vars
  BY <1>7 DEF vars, TypeOK, ControlInv, OwnedInv, HeapInv, OnlyEmptyArraysLeak,
              ResultOwned, Prior, Running, Fetcher
<1> QED
  BY <1>0, <1>1, <1>2, <1>3, <1>4, <1>5, <1>6, <1>7, StepKinds DEF Next

\* Every state of a query is well typed, whatever the exchange answers.
THEOREM QueryTypes == Spec => []TypeOK
<1> DEFINE Inv == TypeOK /\ ControlInv /\ OwnedInv
<1>1. Init => Inv
  BY InitTypes, InitHeap
<1>2. Inv /\ [Next]_vars => Inv'
  BY OwnedStep
<1> QED
  BY <1>1, <1>2, PTL DEF Spec

\* However a query ends, what the application gets is alive and only there on
\* success, and of all the responses, JSON trees and arrays only arrays without
\* an element stay behind.
THEOREM NothingLost == Spec => [](OnlyEmptyArraysLeak /\ ResultOwned)
<1> DEFINE Inv == TypeOK /\ ControlInv /\ OwnedInv
<1>1. Init => Inv
  BY InitTypes, InitHeap
<1>2. Inv /\ [Next]_vars => Inv'
  BY OwnedStep
<1>3. Inv => OnlyEmptyArraysLeak /\ ResultOwned
  BY DEF OwnedInv
<1> QED
  BY <1>1, <1>2, <1>3, PTL DEF Spec

-----------------------------------------------------------------------------
(* What a call reports. *)

Elements(s) == {s[k] : k \in DOMAIN s}

LEMMA ElementsEmpty == Elements(<<>>) = {}
BY DEF Elements

LEMMA ElementsType ==
  ASSUME NEW S, NEW s \in Seq(S)
  PROVE  Elements(s) \subseteq S
<1>1. \A k \in DOMAIN s : s[k] \in S
  OBVIOUS
<1> QED
  BY <1>1 DEF Elements

LEMMA ElementsAppend ==
  ASSUME NEW S, NEW s \in Seq(S), NEW x \in S
  PROVE  Elements(Append(s, x)) = Elements(s) \cup {x}
<1>1. /\ DOMAIN Append(s, x) = 1..(Len(s) + 1) /\ DOMAIN s = 1..Len(s)
      /\ Len(s) \in Nat
      /\ \A k \in 1..Len(s) : Append(s, x)[k] = s[k]
      /\ Append(s, x)[Len(s) + 1] = x
  OBVIOUS
<1> QED
  BY <1>1 DEF Elements

LEMMA ElementsTail ==
  ASSUME NEW S, NEW s \in Seq(S), s # <<>>
  PROVE  Elements(s) = Elements(Tail(s)) \cup {Head(s)}
<1>1. /\ DOMAIN Tail(s) = 1..(Len(s) - 1) /\ DOMAIN s = 1..Len(s)
      /\ Len(s) \in Nat \ {0} /\ Head(s) = s[1]
      /\ \A k \in 1..(Len(s) - 1) : Tail(s)[k] = s[k + 1]
  OBVIOUS
<1>2. \A k \in 1..Len(s) : k = 1 \/ (k - 1 \in 1..(Len(s) - 1) /\ (k - 1) + 1 = k)
  BY <1>1
<1>3. ASSUME NEW k \in DOMAIN s
      PROVE  s[k] \in Elements(Tail(s)) \cup {Head(s)}
  <2>1. CASE k = 1
    BY <1>1, <2>1
  <2>2. CASE k # 1
    <3>1. k - 1 \in 1..(Len(s) - 1) /\ (k - 1) + 1 = k
      BY <1>1, <1>2, <2>2
    <3>2. Tail(s)[k - 1] = s[k] /\ k - 1 \in DOMAIN Tail(s)
      BY <1>1, <3>1
    <3> QED
      BY <3>2 DEF Elements
  <2> QED
    BY <2>1, <2>2
<1>4. ASSUME NEW k \in DOMAIN Tail(s)
      PROVE  Tail(s)[k] \in Elements(s)
  <2>1. k + 1 \in DOMAIN s /\ Tail(s)[k] = s[k + 1]
    BY <1>1
  <2> QED
    BY <2>1 DEF Elements
<1>5. Head(s) \in Elements(s)
  BY <1>1 DEF Elements
<1> QED
  BY <1>3, <1>4, <1>5 DEF Elements

LEMMA ElementsConcat ==
  ASSUME NEW S, NEW s \in Seq(S), NEW t \in Seq(S)
  PROVE  Elements(s \o t) = Elements(s) \cup Elements(t)
<1>1. /\ DOMAIN (s \o t) = 1..(Len(s) + Len(t))
      /\ DOMAIN s = 1..Len(s) /\ DOMAIN t = 1..Len(t)
      /\ Len(s) \in Nat /\ Len(t) \in Nat
      /\ \A k \in 1..Len(s) : (s \o t)[k] = s[k]
      /\ \A k \in 1..Len(t) : (s \o t)[Len(s) + k] = t[k]
  OBVIOUS
<1>2. ASSUME NEW k \in DOMAIN (s \o t)
      PROVE  (s \o t)[k] \in Elements(s) \cup Elements(t)
  <2>1. CASE k <= Len(s)
    BY <1>1, <2>1 DEF Elements
  <2>2. CASE k > Len(s)
    <3>1. k - Len(s) \in 1..Len(t) /\ Len(s) + (k - Len(s)) = k
      BY <1>1, <2>2
    <3>2. (s \o t)[k] = t[k - Len(s)]
      BY <1>1, <3>1
    <3> QED
      BY <1>1, <3>1, <3>2 DEF Elements
  <2> QED
    BY <1>1, <2>1, <2>2
<1>3. ASSUME NEW k \in DOMAIN s
      PROVE  s[k] \in Elements(s \o t)
  BY <1>1 DEF Elements
<1>4. ASSUME NEW k \in DOMAIN t
      PROVE  t[k] \in Elements(s \o t)
  <2>1. Len(s) + k \in DOMAIN (s \o t) /\ (s \o t)[Len(s) + k] = t[k]
    BY <1>1
  <2> QED
    BY <2>1 DEF Elements
<1> QED
  BY <1>2, <1>3, <1>4 DEF Elements

\* What was so at some moment of the call, and what the default makes of an
\* entry that does not say that its order is closed.
Exact(r) == r.status \in seen[r.id]
TrueOf(s) == \A r \in Elements(s) : Exact(r)
Guess(r) == r.status = "open" /\ r.id \in misread

\* The fetchers where an entry can be taken for an open order wrongly.
Guessing == Fetcher.filter \in {"copy", "one"}

\* A fetcher has entries and rows only at the steps that need them.
PhaseInv ==
  /\ pc \notin {"parse", "shape", "alloc", "read"} => reply = <<>>
  /\ pc \notin {"read", "count", "copy"} => rows = <<>>
  /\ pc # "copy" => kept = <<>>

TrueInv ==
  /\ \A i \in Ids : book[i] \in seen[i]
  /\ \A e \in Elements(reply) :
       Exact(e) /\ (e.says \/ e.status = "open" \/ (e.id \in misread /\ Guessing))
  /\ \A r \in Elements(rows) : Exact(r) \/ (Guess(r) /\ Guessing)
  /\ TrueOf(kept)
  /\ \A r \in Elements(result.rows) : Exact(r) \/ (Guess(r) /\ api = "order")
  /\ \A n \in Names \ {"order"} : TrueOf(parts[n].rows)

\* Only the order fetchers meet entries that do not say their status, and what
\* they can guess wrongly is filtered out or a single order.
LEMMA GuessFetchers ==
  /\ \A n \in OrderFetchers : n = "open" \/ Fetchers[n].filter \in {"copy", "one"}
  /\ \A n \in OrderFetchers : "open" \in Fetchers[n].lists
  /\ \A n \in Names : Fetchers[n].filter = "copy" => "open" \notin Fetchers[n].keeps
  /\ \A n \in Names : Fetchers[n].filter = "one" => n = "order"
  /\ Fetchers["open"].lists = {"open"}
<1>1. /\ OpenOrders.lists = {"open"} /\ OpenOrders.filter = "no"
      /\ ClosedOrders.filter = "copy" /\ "open" \notin ClosedOrders.keeps
      /\ CanceledOrders.filter = "copy" /\ "open" \notin CanceledOrders.keeps
      /\ CanceledAndClosed.filter = "copy" /\ "open" \notin CanceledAndClosed.keeps
      /\ OneOrder.filter = "one"
      /\ "open" \in ClosedOrders.lists /\ "open" \in CanceledOrders.lists
      /\ "open" \in CanceledAndClosed.lists /\ "open" \in OneOrder.lists
  BY DEF OpenOrders, ClosedOrders, CanceledOrders, CanceledAndClosed, OneOrder, Usual,
         Listed
<1>2. /\ MyTrades.filter = "no" /\ PublicTrades.filter = "no"
      /\ FundingRates.filter = "no" /\ OpenInterests.filter = "before"
      /\ FundingRateHistory.filter = "no" /\ FundingHistory.filter = "after"
      /\ Ledger.filter = "after" /\ Positions.filter = "no"
      /\ Tickers.filter = "before" /\ Currencies.filter = "no"
  BY DEF MyTrades, PublicTrades, FundingRates, OpenInterests, FundingRateHistory,
         FundingHistory, Ledger, Positions, Tickers, Currencies, Usual
<1>3. \A n \in Names : n \notin OrderFetchers => Fetchers[n].filter \notin {"copy", "one"}
  BY <1>2, NamesAre DEF OrderFetchers, Fetchers
<1>4. /\ Fetchers["open"] = OpenOrders /\ Fetchers["closed"] = ClosedOrders
      /\ Fetchers["canceled"] = CanceledOrders
      /\ Fetchers["history"] = CanceledAndClosed /\ Fetchers["order"] = OneOrder
  BY DEF Fetchers
<1> QED
  BY <1>1, <1>3, <1>4 DEF OrderFetchers

\* The moves that change no data.
QuietMove ==
  \/ PostRefused \/ ParseJson \/ RightShape \/ Alloc
  \/ (AllRead /\ Fetcher.filter = "copy") \/ CountSome

LEMMA QuietEffect ==
  ASSUME PhaseInv, QuietMove
  PROVE  /\ UNCHANGED <<book, wallet, api, seen, todo, reply, rows, kept, slot,
                        parts, result, misread>>
         /\ PhaseInv'
<1>1. UNCHANGED <<book, wallet, api, seen, todo, reply, rows, kept, slot, parts,
                  result, misread>>
  BY DEF QuietMove, PostRefused, ParseJson, RightShape, Alloc, AllRead, CountSome,
         world, reading
<1> QED
  BY <1>1 DEF QuietMove, PostRefused, MayPost, ParseJson, RightShape, Alloc,
              AllRead, CountSome, PhaseInv

\* What the other moves do to the data.
LEMMA AnswerEffect ==
  ASSUME TypeOK, ControlInv, PhaseInv, Answer
  PROVE  /\ pc = "post" /\ pc' = "parse" /\ PhaseInv'
         /\ UNCHANGED <<book, wallet, api, seen, todo, rows, kept, parts, result>>
         /\ \E s \in Asked, match \in Matches, says \in Tells, ok \in SUBSET Ids :
              /\ \A i \in Elements(s) : i \in Listing
              /\ misread' = misread \cup
                   {i \in Elements(s) : i \notin ok \/ (i \notin says /\ book[i] # "open")}
              /\ \A r \in Elements(reply') :
                   /\ r.id \in Elements(s) /\ r.status = book[r.id]
                   /\ r.ok <=> r.id \in ok
                   /\ r.says <=> r.id \in says
                   /\ r.match <=> r.id \in match
              /\ \A i \in Elements(s) : \E r \in Elements(reply') : r.id = i
<1>1. PICK s \in Asked, match \in Matches, says \in Tells,
           ok \in SUBSET Ids, full \in SUBSET Ids :
        /\ reply' = [k \in DOMAIN s |->
                       [id |-> s[k], status |-> book[s[k]], ok |-> s[k] \in ok,
                        full |-> s[k] \in full, says |-> s[k] \in says,
                        match |-> s[k] \in match]]
        /\ misread' = misread \cup
             {i \in {s[k] : k \in DOMAIN s} :
                i \notin ok \/ (i \notin says /\ book[i] # "open")}
  BY DEF Answer
<1>2. PICK n \in Nat : DOMAIN s = 1..n /\ \A k \in 1..n : s[k] \in Listing
  BY AskedSequence
<1>3. /\ DOMAIN reply' = DOMAIN s
      /\ \A k \in DOMAIN s : /\ reply'[k].id = s[k] /\ reply'[k].status = book[s[k]]
                             /\ reply'[k].ok <=> s[k] \in ok
                             /\ reply'[k].says <=> s[k] \in says
                             /\ reply'[k].match <=> s[k] \in match
  BY <1>1
<1>4. /\ pc = "post" /\ pc' = "parse"
      /\ UNCHANGED <<book, wallet, api, seen, todo, rows, kept, parts, result>>
  BY DEF Answer, MayPost, world
<1>5. PhaseInv'
  BY <1>4 DEF PhaseInv
<1>6. \A i \in Elements(s) : i \in Listing
  BY <1>2 DEF Elements
<1>7. misread' = misread \cup
        {i \in Elements(s) : i \notin ok \/ (i \notin says /\ book[i] # "open")}
  BY <1>1 DEF Elements
<1>8. \A r \in Elements(reply') : /\ r.id \in Elements(s) /\ r.status = book[r.id]
                                  /\ r.ok <=> r.id \in ok
                                  /\ r.says <=> r.id \in says
                                  /\ r.match <=> r.id \in match
  BY <1>3 DEF Elements
<1>9. \A i \in Elements(s) : \E r \in Elements(reply') : r.id = i
  BY <1>3 DEF Elements
<1> QED
  BY <1>4, <1>5, <1>6, <1>7, <1>8, <1>9

LEMMA ReadEffect ==
  ASSUME TypeOK, ControlInv, PhaseInv, SkipEntry \/ TakeEntry
  PROVE  /\ pc = "read" /\ reply # <<>> /\ PhaseInv'
         /\ UNCHANGED <<pc, book, api, seen, todo, kept, parts, result, misread>>
         /\ Elements(reply) = Elements(reply') \cup {Head(reply)}
         /\ Head(reply) \in Entries
         /\ \/ /\ rows' = rows
               /\ ~(Head(reply).ok /\ Head(reply).match)
            \/ \E row \in Rows : /\ Elements(rows') = Elements(rows) \cup {row}
                                 /\ row.id = Head(reply).id
                                 /\ row.status = Told(Head(reply))
<1>1. /\ pc = "read" /\ reply # <<>> /\ reply' = Tail(reply)
      /\ UNCHANGED <<pc, book, api, seen, todo, kept, parts, result, misread>>
  BY DEF SkipEntry, TakeEntry, world
<1>2. Elements(reply) = Elements(reply') \cup {Head(reply)}
  BY <1>1, ElementsTail DEF TypeOK
<1>3. Head(reply) \in Entries
  BY <1>1, HeadTail DEF TypeOK
<1>4. CASE SkipEntry
  <2>1. rows' = rows /\ ~(Head(reply).ok /\ Head(reply).match)
    BY <1>4 DEF SkipEntry
  <2> QED
    BY <1>1, <1>2, <1>3, <2>1 DEF PhaseInv
<1>5. CASE TakeEntry
  <2>1. rows' = Append(rows, Parsed(Head(reply))) /\ Parsed(Head(reply)) \in Rows
    BY <1>3, <1>5, ParsedType DEF TakeEntry
  <2>2. Elements(rows') = Elements(rows) \cup {Parsed(Head(reply))}
    BY <2>1, ElementsAppend DEF TypeOK
  <2>3. /\ Parsed(Head(reply)).id = Head(reply).id
        /\ Parsed(Head(reply)).status = Told(Head(reply))
    BY DEF Parsed
  <2> QED
    BY <1>1, <1>2, <1>3, <2>1, <2>2, <2>3 DEF PhaseInv
<1> QED
  BY <1>4, <1>5

LEMMA CopyEffect ==
  ASSUME TypeOK, ControlInv, PhaseInv, CopyRow
  PROVE  /\ pc = "copy" /\ rows # <<>> /\ PhaseInv'
         /\ UNCHANGED <<pc, book, api, seen, todo, reply, parts, result, misread>>
         /\ Elements(rows) = Elements(rows') \cup {Head(rows)}
         /\ Head(rows) \in Rows
         /\ Elements(kept') = Elements(kept) \cup
                                (IF Keeps(Head(rows)) THEN {Head(rows)} ELSE {})
<1>1. /\ pc = "copy" /\ rows # <<>> /\ rows' = Tail(rows)
      /\ kept' = IF Keeps(Head(rows)) THEN Append(kept, Head(rows)) ELSE kept
      /\ UNCHANGED <<pc, book, api, seen, todo, reply, parts, result, misread>>
  BY DEF CopyRow, world
<1>2. Elements(rows) = Elements(rows') \cup {Head(rows)} /\ Head(rows) \in Rows
  BY <1>1, ElementsTail, HeadTail DEF TypeOK
<1>3. Elements(Append(kept, Head(rows))) = Elements(kept) \cup {Head(rows)}
  BY <1>2, ElementsAppend DEF TypeOK
<1> QED
  BY <1>1, <1>2, <1>3 DEF PhaseInv

\* What holds between the requests of a call and around it.
LEMMA OuterEffect ==
  ASSUME TypeOK, PhaseInv, OuterAction
  PROVE  /\ UNCHANGED <<book, wallet, api, seen, todo, reply, rows, kept, parts,
                        misread>>
         /\ pc \in {"combine", "pick"} /\ PhaseInv'
         /\ \/ result' = result /\ pc' = "corrupt"
            \/ result'.rows = <<>> /\ (Total = 0 \/ BothFailed \/ pc = "pick")
            \/ pc = "combine" /\ result'.rows = parts.open.rows \o parts.history.rows
            \/ /\ pc = "pick"
               /\ Elements(result'.rows) \subseteq Elements(parts.interests.rows)
<1>1. /\ pc \in {"combine", "pick"} /\ pc' \in {"idle", "corrupt"}
      /\ UNCHANGED <<book, wallet, api, seen, todo, reply, rows, kept, parts, misread>>
  BY DEF OuterAction, CombineNothing, Combine, CombineFails, PickNone, Pick, Return,
         world, reading
<1>2. PhaseInv'
  BY <1>1 DEF PhaseInv
<1>3. CASE CombineNothing \/ PickNone
  <2>1. result'.rows = <<>>
    BY <1>3 DEF CombineNothing, PickNone, Return
  <2>2. Total = 0 \/ BothFailed \/ pc = "pick"
    BY <1>3 DEF CombineNothing, PickNone
  <2> QED
    BY <1>1, <1>2, <2>1, <2>2
<1>4. CASE Combine
  BY <1>1, <1>2, <1>4 DEF Combine, Return
<1>5. CASE CombineFails
  BY <1>1, <1>2, <1>5 DEF CombineFails
<1>6. CASE Pick
  <2>1. pc = "pick" /\ parts.interests.rows # <<>>
    BY <1>6 DEF Pick
  <2>2. parts.interests.rows \in Seq(Rows)
    BY NamesAre DEF TypeOK, Parts
  <2>3. Head(parts.interests.rows) \in Elements(parts.interests.rows)
    BY <2>1, <2>2, ElementsTail
  <2>4. result'.rows = <<Head(parts.interests.rows)>>
    BY <1>6 DEF Pick, Return
  <2>5. Elements(result'.rows) = {Head(parts.interests.rows)}
    BY <2>4 DEF Elements
  <2> QED
    BY <1>1, <1>2, <2>1, <2>3, <2>5
<1> QED
  BY <1>3, <1>4, <1>5, <1>6 DEF OuterAction

\* What a fetcher that succeeds returns.
LEMMA SuccessRows ==
  ASSUME NEW rs, Success(rs)
  PROVE  rs = <<>> \/ rs = rows \/ rs = kept
BY DEF Success

LEMMA TrueEnd ==
  ASSUME TypeOK, ControlInv, PhaseInv, TrueInv, Ends
  PROVE  PhaseInv' /\ TrueInv'
<1>1. PICK err \in Errors, rs \in Seq(Rows), blocks \in SUBSET Blocks :
        Ending(err, rs, blocks)
  BY DEF Ends
<1>2. /\ Running \in Names
      /\ parts' = [parts EXCEPT ![Running] = [err |-> err, rows |-> rs]]
      /\ rows' = <<>> /\ kept' = <<>> /\ reply' = <<>>
      /\ book' = book /\ seen' = seen /\ api' = api /\ misread' = misread
      /\ \/ result' = result
         \/ /\ result'.rows = rs /\ api # "orders"
            /\ api \in Names => Running = api
            /\ api = "interest" => err # "success"
  BY <1>1, EndingEffect
<1>3. IF err = "success" THEN Success(rs) ELSE rs = <<>>
  BY <1>1 DEF Ending
<1>4. \A r \in Elements(rs) : Exact(r) \/ (Guess(r) /\ Running = "order")
  <2>1. CASE rs = rows /\ Fetcher.filter # "copy"
    <3>1. Guessing => Running = "order"
      BY <1>2, <2>1, GuessFetchers DEF Guessing, Fetcher
    <3> QED
      BY <2>1, <3>1 DEF TrueInv
  <2>2. CASE rs = <<>>
    BY <2>2, ElementsEmpty
  <2>3. CASE rs = kept
    BY <2>3 DEF TrueInv, TrueOf
  <2> QED
    BY <1>3, <2>1, <2>2, <2>3 DEF Success
<1>5. ASSUME NEW m \in Names \ {"order"}
      PROVE  TrueOf(parts'[m].rows)
  <2>1. CASE m = Running
    <3>1. parts'[m].rows = rs
      BY <1>2, <2>1 DEF TypeOK
    <3> QED
      BY <1>4, <2>1, <3>1 DEF TrueOf
  <2>2. CASE m # Running
    <3>1. parts'[m] = parts[m]
      BY <1>2, <2>2 DEF TypeOK
    <3> QED
      BY <3>1 DEF TrueInv
  <2> QED
    BY <2>1, <2>2
<1>6. PhaseInv'
  BY <1>2 DEF PhaseInv
<1>7. \A r \in Elements(result'.rows) : Exact(r) \/ (Guess(r) /\ api = "order")
  <2>1. CASE result' = result
    BY <2>1 DEF TrueInv
  <2>2. CASE /\ result'.rows = rs /\ api # "orders"
             /\ api \in Names => Running = api
             /\ api = "interest" => err # "success"
    <3>1. api \in Names \/ rs = <<>>
      BY <1>3, <2>2 DEF TypeOK, Apis
    <3> QED
      BY <1>4, <2>2, <3>1, ElementsEmpty
  <2> QED
    BY <1>2, <2>1, <2>2
<1>8. \A r : Exact(r)' = Exact(r) /\ Guess(r)' = Guess(r)
  BY <1>2 DEF Exact, Guess
<1>9. /\ \A m \in Names \ {"order"} : \A r \in Elements(parts'[m].rows) : Exact(r)'
      /\ \A r \in Elements(result'.rows) : Exact(r)' \/ (Guess(r)' /\ api' = "order")
  BY <1>2, <1>5, <1>7, <1>8 DEF TrueOf
<1> QED
  BY <1>2, <1>6, <1>9, ElementsEmpty DEF TrueInv, TrueOf

\* What an answer of the exchange lists, and what its entries leave unsaid.
LEMMA TrueAnswer ==
  ASSUME TypeOK, ControlInv, PhaseInv, TrueInv, Answer
  PROVE  PhaseInv' /\ TrueInv'
<1>1. /\ PhaseInv' /\ pc = "post"
      /\ UNCHANGED <<book, wallet, api, seen, todo, rows, kept, parts, result>>
  BY AnswerEffect
<1>2. PICK s \in Asked, match \in Matches, says \in Tells, ok \in SUBSET Ids :
        /\ \A i \in Elements(s) : i \in Listing
        /\ misread' = misread \cup
             {i \in Elements(s) : i \notin ok \/ (i \notin says /\ book[i] # "open")}
        /\ \A r \in Elements(reply') :
             /\ r.id \in Elements(s) /\ r.status = book[r.id]
             /\ r.says <=> r.id \in says
  BY AnswerEffect
<1>3. Running \in Names /\ rows = <<>> /\ kept = <<>>
  BY <1>1, PlanSteps DEF PhaseInv, Steps
<1>4. ASSUME NEW e \in Elements(reply')
      PROVE  /\ e.status \in seen[e.id]
             /\ e.says \/ e.status = "open" \/ (e.id \in misread' /\ Guessing)
  <2>1. e.id \in Listing /\ e.status = book[e.id] /\ (e.says <=> e.id \in says)
    BY <1>2
  <2>2. e.id \in Ids /\ e.status \in Fetcher.lists
    BY <2>1 DEF Listing
  <2>3. e.status \in seen[e.id]
    BY <2>1, <2>2 DEF TrueInv
  <2>4. CASE Running \notin OrderFetchers
    BY <2>1, <2>2, <2>3, <2>4 DEF Tells
  <2>5. CASE Running = "open"
    BY <2>2, <2>3, <2>5, GuessFetchers DEF Fetcher
  <2>6. CASE Running \in OrderFetchers /\ Running # "open"
    <3>1. Guessing
      BY <2>6, GuessFetchers DEF Guessing, Fetcher
    <3>2. e.id \notin says /\ book[e.id] # "open" => e.id \in misread'
      BY <1>2
    <3> QED
      BY <2>1, <2>3, <3>1, <3>2
  <2> QED
    BY <2>4, <2>5, <2>6
<1>5. Guessing' = Guessing
  BY <1>1 DEF Guessing, Fetcher, Running
<1>6. /\ \A r : Exact(r)' = (r.status \in seen[r.id])
      /\ \A r : Exact(r) = (r.status \in seen[r.id])
  BY <1>1 DEF Exact
<1>7. misread \subseteq misread'
  BY <1>2
<1>8. \A e \in Elements(reply') :
        Exact(e)' /\ (e.says \/ e.status = "open" \/ (e.id \in misread' /\ Guessing'))
  BY <1>4, <1>5, <1>6
<1>9. \A r \in Elements(result'.rows) : Exact(r)' \/ (Guess(r)' /\ api' = "order")
  BY <1>1, <1>6, <1>7 DEF TrueInv, Guess
<1>10. \A n \in Names \ {"order"} : \A r \in Elements(parts'[n].rows) : Exact(r)'
  BY <1>1, <1>6 DEF TrueInv, TrueOf
<1>11. rows' = <<>> /\ kept' = <<>> /\ \A i \in Ids : book'[i] \in seen'[i]
  BY <1>1, <1>3 DEF TrueInv
<1> QED
  BY <1>1, <1>8, <1>9, <1>10, <1>11, ElementsEmpty DEF TrueInv, TrueOf

LEMMA TrueMove ==
  ASSUME TypeOK, ControlInv, HeapInv, PhaseInv, TrueInv, MoveAction
  PROVE  PhaseInv' /\ TrueInv'
<1>1. CASE QuietMove
  BY <1>1, QuietEffect
  DEF TrueInv, TrueOf, Exact, Guess, Guessing, Fetcher, Running
<1>2. CASE SkipEntry \/ TakeEntry
  <2>1. /\ PhaseInv'
        /\ UNCHANGED <<pc, book, api, seen, todo, kept, parts, result, misread>>
        /\ Elements(reply) = Elements(reply') \cup {Head(reply)}
        /\ \/ rows' = rows
           \/ \E row \in Rows : /\ Elements(rows') = Elements(rows) \cup {row}
                                /\ row.id = Head(reply).id
                                /\ row.status = Told(Head(reply))
    BY <1>2, ReadEffect
  <2>2. /\ \A r : Exact(r)' = Exact(r) /\ Guess(r)' = Guess(r)
        /\ Guessing' = Guessing
    BY <2>1 DEF Exact, Guess, Guessing, Fetcher, Running
  <2>3. \A r \in Elements(rows') : Exact(r) \/ (Guess(r) /\ Guessing)
    <3>1. ASSUME NEW row, row.id = Head(reply).id, row.status = Told(Head(reply))
          PROVE  Exact(row) \/ (Guess(row) /\ Guessing)
      <4>1. /\ Exact(Head(reply))
            /\ \/ Head(reply).says \/ Head(reply).status = "open"
               \/ Head(reply).id \in misread /\ Guessing
        BY <2>1 DEF TrueInv
      <4> QED
        BY <3>1, <4>1 DEF Exact, Guess, Told
    <3> QED
      BY <2>1, <3>1 DEF TrueInv
  <2>4. \A r \in Elements(rows') : Exact(r)' \/ (Guess(r)' /\ Guessing')
    BY <2>2, <2>3
  <2>5. \A e \in Elements(reply') :
          Exact(e)' /\ (e.says \/ e.status = "open" \/ (e.id \in misread' /\ Guessing'))
    BY <2>1, <2>2 DEF TrueInv
  <2>6. /\ \A r \in Elements(kept') : Exact(r)'
        /\ \A r \in Elements(result'.rows) : Exact(r)' \/ (Guess(r)' /\ api' = "order")
        /\ \A n \in Names \ {"order"} : \A r \in Elements(parts'[n].rows) : Exact(r)'
        /\ \A i \in Ids : book'[i] \in seen'[i]
    BY <2>1, <2>2 DEF TrueInv, TrueOf
  <2> QED
    BY <2>1, <2>4, <2>5, <2>6 DEF TrueInv, TrueOf
<1>3. CASE CopyRow
  <2>1. /\ pc = "copy" /\ PhaseInv'
        /\ UNCHANGED <<pc, book, api, seen, todo, reply, parts, result, misread>>
        /\ Elements(rows) = Elements(rows') \cup {Head(rows)}
        /\ Elements(kept') = Elements(kept) \cup
                               (IF Keeps(Head(rows)) THEN {Head(rows)} ELSE {})
    BY <1>3, CopyEffect
  <2>2. /\ \A r : Exact(r)' = Exact(r) /\ Guess(r)' = Guess(r)
        /\ Guessing' = Guessing
    BY <2>1 DEF Exact, Guess, Guessing, Fetcher, Running
  <2>3. Keeps(Head(rows)) => Exact(Head(rows))
    <3>1. Fetcher.filter = "copy" /\ Running \in Names
      BY <2>1, PlanSteps DEF HeapInv, Steps
    <3>2. "open" \notin Fetcher.keeps
      BY <3>1, GuessFetchers DEF Fetcher
    <3>3. Exact(Head(rows)) \/ Head(rows).status = "open"
      BY <2>1 DEF TrueInv, Guess
    <3> QED
      BY <3>2, <3>3 DEF Keeps
  <2>4. \A r \in Elements(kept') : Exact(r)'
    BY <2>1, <2>2, <2>3 DEF TrueInv, TrueOf
  <2>5. /\ \A e \in Elements(reply') :
             Exact(e)' /\ (e.says \/ e.status = "open" \/ (e.id \in misread' /\ Guessing'))
        /\ \A r \in Elements(rows') : Exact(r)' \/ (Guess(r)' /\ Guessing')
    BY <2>1, <2>2 DEF TrueInv
  <2>6. /\ \A r \in Elements(result'.rows) : Exact(r)' \/ (Guess(r)' /\ api' = "order")
        /\ \A n \in Names \ {"order"} : \A r \in Elements(parts'[n].rows) : Exact(r)'
        /\ \A i \in Ids : book'[i] \in seen'[i]
    BY <2>1, <2>2 DEF TrueInv, TrueOf
  <2> QED
    BY <2>1, <2>4, <2>5, <2>6 DEF TrueInv, TrueOf
<1> QED
  BY <1>1, <1>2, <1>3, TrueAnswer DEF MoveAction, QuietMove

LEMMA TrueOuter ==
  ASSUME TypeOK, ControlInv, PhaseInv, TrueInv, OuterAction
  PROVE  PhaseInv' /\ TrueInv'
<1>1. /\ parts["open"].rows = parts.open.rows
      /\ parts["history"].rows = parts.history.rows
      /\ parts["interests"].rows = parts.interests.rows
  OBVIOUS
<1>2. "open" \in Names /\ "history" \in Names /\ "interests" \in Names
  BY NamesAre
<1>3. /\ parts.open.rows \in Seq(Rows) /\ parts.history.rows \in Seq(Rows)
      /\ TrueOf(parts.open.rows) /\ TrueOf(parts.history.rows)
      /\ TrueOf(parts.interests.rows)
  BY <1>1, <1>2 DEF TypeOK, Parts, TrueInv
<1>4. /\ TrueOf(parts.open.rows \o parts.history.rows) /\ TrueOf(<<>>)
  BY <1>3, ElementsConcat, ElementsEmpty DEF TrueOf
<1>5. /\ UNCHANGED <<book, wallet, api, seen, todo, reply, rows, kept, parts, misread>>
      /\ PhaseInv' /\ pc \in {"combine", "pick"}
  BY OuterEffect
<1>6. /\ \A r : Exact(r)' = Exact(r) /\ Guess(r)' = Guess(r)
      /\ reply = <<>> /\ rows = <<>>
  BY <1>5 DEF Exact, Guess, PhaseInv
<1>7. \A r \in Elements(result'.rows) : Exact(r) \/ (Guess(r) /\ api = "order")
  BY <1>3, <1>4, OuterEffect DEF TrueInv, TrueOf
<1>8. /\ \A r \in Elements(result'.rows) : Exact(r)' \/ (Guess(r)' /\ api' = "order")
      /\ \A n \in Names \ {"order"} : \A r \in Elements(parts'[n].rows) : Exact(r)'
      /\ \A r \in Elements(kept') : Exact(r)'
      /\ \A i \in Ids : book'[i] \in seen'[i]
  BY <1>5, <1>6, <1>7 DEF TrueInv, TrueOf
<1> QED
  BY <1>5, <1>6, <1>8, ElementsEmpty DEF TrueInv, TrueOf

\* The exchange only adds to what was so.
LEMMA TradeTrue ==
  ASSUME TypeOK, PhaseInv, TrueInv, NEW i \in Ids, Trade(i)
  PROVE  PhaseInv' /\ TrueInv'
<1>1. PICK st \in Statuses : Become(i, st)
  BY DEF Trade, Statuses, Listed
<1>2. /\ book' = [book EXCEPT ![i] = st]
      /\ seen' = [seen EXCEPT ![i] = @ \cup {st}]
      /\ UNCHANGED <<wallet, pc, api, todo, reply, rows, kept, slot, heap, parts,
                     result, misread>>
  BY <1>1 DEF Become, callVars
<1>3. \A j \in Ids : seen[j] \subseteq seen'[j] /\ book'[j] \in seen'[j]
  BY <1>2 DEF TypeOK, TrueInv
<1>4. /\ \A r \in Elements(reply) : r.id \in Ids
      /\ \A r \in Elements(rows) : r.id \in Ids
      /\ \A r \in Elements(kept) : r.id \in Ids
      /\ \A r \in Elements(result.rows) : r.id \in Ids
      /\ \A n \in Names : \A r \in Elements(parts[n].rows) : r.id \in Ids
  <2>1. ASSUME NEW s \in Seq(Rows) PROVE \A r \in Elements(s) : r.id \in Ids
    BY ElementsType DEF Rows
  <2>2. \A r \in Elements(reply) : r.id \in Ids
    <3>1. Elements(reply) \subseteq Entries
      BY ElementsType DEF TypeOK
    <3> QED
      BY <3>1 DEF Entries
  <2> QED
    BY <2>1, <2>2 DEF TypeOK, Parts
<1>5. PhaseInv'
  BY <1>2 DEF PhaseInv
<1>6. /\ \A r : r.id \in Ids /\ Exact(r) => Exact(r)'
      /\ \A r : Guess(r)' = Guess(r)
      /\ Guessing' = Guessing
  BY <1>2, <1>3 DEF Exact, Guess, Guessing, Fetcher, Running
<1>7. /\ \A e \in Elements(reply') :
           Exact(e)' /\ (e.says \/ e.status = "open" \/ (e.id \in misread' /\ Guessing'))
      /\ \A r \in Elements(rows') : Exact(r)' \/ (Guess(r)' /\ Guessing')
      /\ \A r \in Elements(kept') : Exact(r)'
  BY <1>2, <1>4, <1>6 DEF TrueInv, TrueOf
<1>8. /\ \A r \in Elements(result'.rows) : Exact(r)' \/ (Guess(r)' /\ api' = "order")
      /\ \A n \in Names \ {"order"} : \A r \in Elements(parts'[n].rows) : Exact(r)'
  BY <1>2, <1>4, <1>6 DEF TrueInv, TrueOf
<1> QED
  BY <1>3, <1>5, <1>7, <1>8 DEF TrueInv, TrueOf

LEMMA TrueStep ==
  ASSUME TypeOK, ControlInv, OwnedInv, PhaseInv, TrueInv, [Next]_vars
  PROVE  PhaseInv' /\ TrueInv'
<1>1. ASSUME NEW a \in Apis, Call(a)
      PROVE  PhaseInv' /\ TrueInv'
  <2>1. /\ pc = "idle" /\ pc' = "post" /\ result' = NoResult
        /\ parts' = [n \in Names |-> NoPart]
        /\ seen' = [i \in Ids |-> {book[i]}]
        /\ UNCHANGED <<book, reply, rows, kept>>
    BY <1>1 DEF Call
  <2>2. reply = <<>> /\ rows = <<>> /\ kept = <<>>
    BY <2>1 DEF PhaseInv
  <2>3. PhaseInv'
    BY <2>1, <2>2 DEF PhaseInv
  <2> QED
    BY <2>1, <2>2, <2>3, ElementsEmpty DEF TrueInv, TrueOf, NoResult, NoPart
<1>2. CASE FreeElements \/ FreeWhole
  <2>1. UNCHANGED <<book, seen, api, todo, reply, rows, kept, parts, misread>>
    BY <1>2 DEF FreeElements, FreeWhole, world, reading
  <2>2. pc = "idle" /\ pc' \in {"idle", "corrupt"}
    BY <1>2 DEF FreeElements, FreeWhole
  <2>3. result'.rows = result.rows \/ result'.rows = <<>>
    BY <1>2 DEF FreeElements, FreeWhole, TypeOK
  <2>4. PhaseInv'
    BY <2>1, <2>2 DEF PhaseInv
  <2>5. /\ \A r : Exact(r)' = Exact(r) /\ Guess(r)' = Guess(r)
        /\ Guessing' = Guessing
    BY <2>1 DEF Exact, Guess, Guessing, Fetcher, Running
  <2> QED
    BY <2>1, <2>3, <2>4, <2>5, ElementsEmpty DEF TrueInv, TrueOf
<1>3. CASE UNCHANGED vars
  BY <1>3 DEF vars, PhaseInv, TrueInv, TrueOf, Exact, Guess, Guessing, Fetcher, Running
<1>4. CASE Step
  BY <1>4, StepKinds, TrueEnd, TrueMove, TrueOuter DEF OwnedInv
<1> QED
  BY <1>1, <1>2, <1>3, <1>4, TradeTrue DEF Next

\* Every order a call returns is reported with a status it had while the call
\* ran, however the exchange traded between and during the requests and whichever
\* entries came without a status; only hl_fetch_order can take a closed order for
\* an open one, when its entry did not say.
THEOREM TrueStatuses == Spec => []StatusWasTrue
<1> DEFINE Inv == TypeOK /\ ControlInv /\ OwnedInv /\ PhaseInv /\ TrueInv
<1>1. Init => Inv
  <2>1. Init => PhaseInv
    BY DEF Init, PhaseInv
  <2>2. Init => TrueInv
    BY ElementsEmpty DEF Init, TrueInv, TrueOf, NoResult, NoPart
  <2> QED
    BY <2>1, <2>2, InitTypes, InitHeap
<1>2. Inv /\ [Next]_vars => Inv'
  BY OwnedStep, TrueStep
<1>3. Inv => StatusWasTrue
  BY DEF TrueInv, Exact, Guess, Elements, StatusWasTrue
<1> QED
  BY <1>1, <1>2, <1>3, PTL DEF Spec

-----------------------------------------------------------------------------
(* What hl_fetch_orders finds.  An order that is closed when the open orders *)
(* are listed stays so, and the history, which is asked for later, has it.  *)

\* The orders NothingMissed speaks of: there throughout, and never misread.
Watched == {i \in Ids \ misread : "none" \notin seen[i]}

Closed(i) == book[i] \in {"filled", "canceled"}

Has(s, i) == \E r \in Elements(s) : r.id = i

OpenPhases == {"parse", "shape", "alloc", "read"}
HistoryPhases == OpenPhases \cup {"count", "copy"}

InOpen == pc \in Steps /\ api = "orders" /\ Running = "open"
InHistory ==
  pc \in Steps /\ api = "orders" /\ Running = "history" /\ parts["open"].err = "success"

\* While the list of open orders is read.
CoverOpen(i) ==
  InOpen /\ pc \in OpenPhases =>
    \/ Closed(i)
    \/ \E e \in Elements(reply) : e.id = i /\ e.ok /\ e.match
    \/ Has(rows, i)

\* Between the two requests.
CoverBetween(i) == InHistory => Closed(i) \/ Has(parts["open"].rows, i)

\* While the history is read.
CoverHistory(i) ==
  InHistory /\ pc \in HistoryPhases =>
    \/ Has(parts["open"].rows, i)
    \/ \E e \in Elements(reply) :
         e.id = i /\ e.ok /\ e.match /\ e.says /\ e.status # "open"
    \/ \E r \in Elements(rows) : r.id = i /\ r.status # "open"
    \/ Has(kept, i)

CoverBoth(i) ==
  pc = "combine" /\ parts["open"].err = "success" /\ parts["history"].err = "success" =>
    Has(parts["open"].rows, i) \/ Has(parts["history"].rows, i)

CoverResult(i) ==
  (pc = "idle" /\ api = "orders" /\ result.err = "success"
     /\ parts["open"].err = "success" /\ parts["history"].err = "success")
    => Has(result.rows, i)

CoverInv ==
  \A i \in Watched : CoverOpen(i) /\ CoverBetween(i) /\ CoverHistory(i) /\ CoverBoth(i)
                       /\ CoverResult(i)

LEMMA OrdersFetchers ==
  /\ Fetchers["open"].lists = {"open"} /\ Fetchers["open"].filter = "no"
  /\ Fetchers["open"].notArray = "json"
  /\ Fetchers["history"].lists = Listed /\ Fetchers["history"].filter = "copy"
  /\ Fetchers["history"].keeps = Listed \ {"open"}
  /\ Fetchers["history"].notArray = "json"
BY DEF Fetchers, OpenOrders, CanceledAndClosed, Usual

\* A watched order is open or closed.
LEMMA WatchedStatus ==
  ASSUME TypeOK, TrueInv, NEW i \in Watched
  PROVE  i \in Ids /\ i \notin misread /\ (book[i] = "open" \/ Closed(i))
<1>1. i \in Ids /\ i \notin misread /\ "none" \notin seen[i]
  BY DEF Watched
<1>2. book[i] \in Statuses /\ book[i] \in seen[i]
  BY <1>1 DEF TypeOK, TrueInv
<1> QED
  BY <1>1, <1>2 DEF Statuses, Listed, Closed

LEMMA HasEmpty ==
  ASSUME NEW i
  PROVE  ~Has(<<>>, i)
BY ElementsEmpty DEF Has

\* A fetcher of hl_fetch_orders that succeeds returns what was covered.
LEMMA CoverEnd ==
  ASSUME TypeOK, ControlInv, HeapInv, PhaseInv, TrueInv, CoverInv, Ends
  PROVE  CoverInv'
<1>1. PICK err \in Errors, rs \in Seq(Rows), blocks \in SUBSET Blocks :
        Ending(err, rs, blocks)
  BY DEF Ends
<1>2. /\ pc \in Steps /\ Running \in Names
      /\ parts' = [parts EXCEPT ![Running] = [err |-> err, rows |-> rs]]
      /\ misread' = misread /\ book' = book /\ seen' = seen /\ api' = api
      /\ \/ /\ pc' = "post" /\ api = "orders" /\ Running = "open"
            /\ todo' = <<"history">>
         \/ pc' = "combine" /\ api = "orders" /\ Running = "history"
         \/ pc' = "pick"
         \/ pc' = "idle" /\ api # "orders"
  BY <1>1, EndingEffect
<1>3. SUFFICES ASSUME NEW i \in Watched
               PROVE  /\ CoverOpen(i)' /\ CoverBetween(i)' /\ CoverHistory(i)'
                      /\ CoverBoth(i)' /\ CoverResult(i)'
  <2>1. Watched' = Watched
    BY <1>2 DEF Watched
  <2> QED
    BY <2>1 DEF CoverInv
<1>4. CoverOpen(i) /\ CoverBetween(i) /\ CoverHistory(i)
  BY DEF CoverInv
<1>5. err = "success" => Success(rs)
  BY <1>1 DEF Ending
<1>6. "open" \in Names /\ "history" \in Names
  BY NamesAre
<1>7. CASE /\ pc' = "post" /\ api = "orders" /\ Running = "open"
           /\ todo' = <<"history">>
  <2>1. Running' = "history" /\ "post" \notin HistoryPhases /\ "post" \notin OpenPhases
    BY <1>7, OneElement DEF Running, HistoryPhases, OpenPhases
  <2>2. parts'["open"] = [err |-> err, rows |-> rs]
    BY <1>2, <1>6, <1>7 DEF TypeOK
  <2>3. ASSUME err = "success"
        PROVE  Closed(i) \/ Has(rs, i)
    <3>1. Fetcher.filter = "no" /\ Fetcher.notArray = "json"
      BY <1>7, OrdersFetchers DEF Fetcher
    <3>2. \/ pc = "shape" /\ reply = <<>> /\ rs = <<>>
          \/ pc = "read" /\ reply = <<>> /\ rs = rows
      BY <1>2, <1>5, <2>3, <3>1 DEF Success, HeapInv
    <3>3. Closed(i) \/ Has(rows, i)
      BY <1>2, <1>4, <1>7, <3>2, ElementsEmpty DEF CoverOpen, InOpen, OpenPhases
    <3>4. pc = "shape" => rows = <<>>
      BY DEF PhaseInv
    <3> QED
      BY <3>2, <3>3, <3>4
  <2>4. CoverBetween(i)'
    BY <1>2, <2>2, <2>3 DEF CoverBetween, InHistory, Closed, Has
  <2> QED
    BY <1>7, <2>1, <2>4 DEF CoverOpen, CoverHistory, CoverBoth, CoverResult
<1>8. CASE pc' = "combine" /\ api = "orders" /\ Running = "history"
  <2>1. parts'["history"] = [err |-> err, rows |-> rs] /\ parts'["open"] = parts["open"]
    BY <1>2, <1>6, <1>8 DEF TypeOK
  <2>2. ASSUME err = "success", parts["open"].err = "success"
        PROVE  Has(parts["open"].rows, i) \/ Has(rs, i)
    <3>1. Fetcher.filter = "copy" /\ Fetcher.notArray = "json"
          /\ Fetcher.keeps = Listed \ {"open"}
      BY <1>8, OrdersFetchers DEF Fetcher
    <3>2. \/ pc = "shape" /\ reply = <<>> /\ rs = <<>>
          \/ pc = "count" /\ ~AnyKept /\ rs = <<>>
          \/ pc = "copy" /\ rows = <<>> /\ rs = kept
      BY <1>5, <2>2, <3>1 DEF Success
    <3>3. reply = <<>> /\ (pc = "shape" => rows = <<>>) /\ (pc # "copy" => kept = <<>>)
      BY <3>2 DEF PhaseInv
    <3>4. \/ Has(parts["open"].rows, i)
          \/ \E r \in Elements(rows) : r.id = i /\ r.status # "open"
          \/ Has(kept, i)
      BY <1>2, <1>4, <1>8, <2>2, <3>2, <3>3, ElementsEmpty
      DEF CoverHistory, InHistory, HistoryPhases, OpenPhases
    <3>5. CASE \E r \in Elements(rows) : r.id = i /\ r.status # "open"
      <4>1. PICK r \in Elements(rows) : r.status # "open"
        BY <3>5
      <4>2. r \in Rows
        BY ElementsType DEF TypeOK
      <4>3. AnyKept
        BY <3>1, <4>1, <4>2 DEF AnyKept, Keeps, Elements, Rows
      <4>4. rows # <<>>
        BY <4>1, ElementsEmpty
      <4> QED
        BY <3>2, <3>3, <4>3, <4>4
    <3> QED
      BY <3>2, <3>3, <3>4, <3>5, HasEmpty
  <2>3. CoverBoth(i)'
    BY <2>1, <2>2 DEF CoverBoth, Has
  <2> QED
    BY <1>8, <2>3
    DEF CoverOpen, CoverBetween, CoverHistory, CoverResult, InOpen, InHistory, Steps
<1>9. CASE pc' = "pick" \/ (pc' = "idle" /\ api # "orders")
  BY <1>2, <1>9
  DEF CoverOpen, CoverBetween, CoverHistory, CoverBoth, CoverResult, InOpen, InHistory,
      Steps
<1> QED
  BY <1>2, <1>7, <1>8, <1>9

LEMMA CoverAnswer ==
  ASSUME TypeOK, ControlInv, PhaseInv, TrueInv, CoverInv, Answer
  PROVE  CoverInv'
<1>1. /\ pc = "post" /\ pc' = "parse"
      /\ UNCHANGED <<book, wallet, api, seen, todo, rows, kept, parts, result>>
  BY AnswerEffect
<1>2. PICK s \in Asked, match \in Matches, says \in Tells, ok \in SUBSET Ids :
        /\ \A i \in Elements(s) : i \in Listing
        /\ misread' = misread \cup
             {i \in Elements(s) : i \notin ok \/ (i \notin says /\ book[i] # "open")}
        /\ \A r \in Elements(reply') :
             /\ r.id \in Elements(s) /\ r.status = book[r.id]
             /\ r.ok <=> r.id \in ok
             /\ r.says <=> r.id \in says
             /\ r.match <=> r.id \in match
        /\ \A i \in Elements(s) : \E r \in Elements(reply') : r.id = i
  BY AnswerEffect
<1>3. SUFFICES ASSUME NEW i \in Watched, i \in Watched'
               PROVE  /\ CoverOpen(i)' /\ CoverBetween(i)' /\ CoverHistory(i)'
                      /\ CoverBoth(i)' /\ CoverResult(i)'
  <2>1. Watched' \subseteq Watched
    BY <1>1, <1>2 DEF Watched
  <2> QED
    BY <2>1 DEF CoverInv
<1>4. i \in Ids /\ (book[i] = "open" \/ Closed(i)) /\ i \notin misread'
  BY <1>3, WatchedStatus DEF Watched
<1>5. Running' = Running
  BY <1>1 DEF Running
<1>6. ASSUME Fetcher.filter \notin {"one", "before", "after"}, book[i] \in Fetcher.lists
      PROVE  \E e \in Elements(reply') :
               /\ e.id = i /\ e.ok /\ e.match /\ e.status = book[i]
               /\ Closed(i) => e.says
  <2>1. i \in Elements(s)
    <3>1. i \in Listing /\ s \in Orderings(Listing)
      BY <1>2, <1>4, <1>6 DEF Listing, Asked
    <3> QED
      BY <3>1 DEF Orderings, Elements
  <2>2. /\ i \in ok /\ i \in match
        /\ Closed(i) => i \in says
    BY <1>2, <1>4, <1>6, <2>1 DEF Matches, Closed
  <2> QED
    BY <1>2, <2>1, <2>2
<1>7. CoverOpen(i)'
  <2>1. CASE Running = "open"
    <3>1. Fetcher.filter = "no" /\ Fetcher.lists = {"open"}
      BY <2>1, OrdersFetchers DEF Fetcher
    <3> QED
      BY <1>1, <1>4, <1>6, <3>1 DEF CoverOpen, Closed
  <2> QED
    BY <1>5, <2>1 DEF CoverOpen, InOpen
<1>8. CoverBetween(i)'
  BY <1>1, <1>5 DEF CoverInv, CoverBetween, InHistory, Closed, Has, Steps
<1>9. CoverHistory(i)'
  <2>1. CASE InHistory
    <3>1. Fetcher.filter = "copy" /\ Fetcher.lists = Listed
      BY <2>1, OrdersFetchers DEF Fetcher, InHistory
    <3>2. Closed(i) => book[i] \in Listed /\ book[i] # "open"
      BY DEF Closed, Listed
    <3>3. Closed(i) \/ Has(parts["open"].rows, i)
      BY <2>1 DEF CoverInv, CoverBetween
    <3> QED
      BY <1>1, <1>6, <3>1, <3>2, <3>3 DEF CoverHistory, Has
  <2>2. InHistory' => InHistory
    BY <1>1, <1>5 DEF InHistory, Steps
  <2> QED
    BY <2>1, <2>2 DEF CoverHistory
<1> QED
  BY <1>1, <1>7, <1>8, <1>9 DEF CoverBoth, CoverResult

\* Reading the response covers what the response covered.
LEMMA CoverMove ==
  ASSUME TypeOK, ControlInv, HeapInv, PhaseInv, TrueInv, CoverInv, MoveAction
  PROVE  CoverInv'
<1>1. CASE QuietMove
  <2>1. UNCHANGED <<book, wallet, api, seen, todo, reply, rows, kept, slot, parts,
                    result, misread>>
    BY <1>1, QuietEffect
  <2>2. /\ pc \in Steps /\ pc' \in Steps
        /\ pc' \in OpenPhases => pc \in OpenPhases
        /\ pc' \in HistoryPhases => pc \in HistoryPhases
    BY <1>1
    DEF QuietMove, PostRefused, MayPost, ParseJson, RightShape, Alloc, AllRead,
        CountSome, Steps, OpenPhases, HistoryPhases
  <2>3. ASSUME NEW i \in Watched
        PROVE  /\ CoverOpen(i)' /\ CoverBetween(i)' /\ CoverHistory(i)'
               /\ CoverBoth(i)' /\ CoverResult(i)'
    BY <2>1, <2>2
    DEF CoverInv, CoverOpen, CoverBetween, CoverHistory, CoverBoth, CoverResult,
        InOpen, InHistory, Closed, Has, Running, Steps
  <2> QED
    BY <2>1, <2>3 DEF CoverInv, Watched
<1>2. CASE SkipEntry \/ TakeEntry
  <2>1. /\ pc = "read" /\ UNCHANGED <<pc, book, api, seen, todo, kept, parts, result,
                                      misread>>
        /\ Elements(reply) = Elements(reply') \cup {Head(reply)}
        /\ \/ /\ rows' = rows
              /\ ~(Head(reply).ok /\ Head(reply).match)
           \/ \E row \in Rows : /\ Elements(rows') = Elements(rows) \cup {row}
                                /\ row.id = Head(reply).id
                                /\ row.status = Told(Head(reply))
    BY <1>2, ReadEffect
  <2>2. ASSUME NEW i \in Watched
        PROVE  CoverOpen(i)' /\ CoverHistory(i)'
    <3>1. CoverOpen(i) /\ CoverHistory(i)
      BY <2>2 DEF CoverInv
    <3>2. CASE rows' = rows /\ ~(Head(reply).ok /\ Head(reply).match)
      BY <2>1, <3>1, <3>2
      DEF CoverOpen, CoverHistory, InOpen, InHistory, Closed, Has, Running
    <3>3. CASE \E row \in Rows : /\ Elements(rows') = Elements(rows) \cup {row}
                                 /\ row.id = Head(reply).id
                                 /\ row.status = Told(Head(reply))
      BY <2>1, <3>1, <3>3
      DEF CoverOpen, CoverHistory, InOpen, InHistory, Closed, Has, Running, Told
    <3> QED
      BY <2>1, <3>2, <3>3
  <2>3. ASSUME NEW i \in Watched
        PROVE  CoverBetween(i)' /\ CoverBoth(i)' /\ CoverResult(i)'
    BY <2>1
    DEF CoverInv, CoverBetween, CoverBoth, CoverResult, InHistory, Closed, Has, Running
  <2> QED
    BY <2>1, <2>2, <2>3 DEF CoverInv, Watched
<1>3. CASE CopyRow
  <2>1. /\ pc = "copy"
        /\ UNCHANGED <<pc, book, api, seen, todo, reply, parts, result, misread>>
        /\ Elements(rows) = Elements(rows') \cup {Head(rows)}
        /\ Head(rows) \in Rows
        /\ Elements(kept') = Elements(kept) \cup
                               (IF Keeps(Head(rows)) THEN {Head(rows)} ELSE {})
    BY <1>3, CopyEffect
  <2>2. ASSUME NEW i \in Watched
        PROVE  CoverHistory(i)'
    <3>1. CASE InHistory
      <4>1. Fetcher.keeps = Listed \ {"open"}
        BY <3>1, OrdersFetchers DEF Fetcher, InHistory
      <4>2. Head(rows).status # "open" => Keeps(Head(rows))
        BY <2>1, <4>1 DEF Keeps, Rows
      <4>3. CoverHistory(i)
        BY <2>2 DEF CoverInv
      <4> QED
        BY <2>1, <3>1, <4>2, <4>3
        DEF CoverHistory, InHistory, Has, Running, HistoryPhases
    <3> QED
      BY <2>1, <3>1 DEF CoverHistory, InHistory, Running
  <2>3. ASSUME NEW i \in Watched
        PROVE  CoverOpen(i)' /\ CoverBetween(i)' /\ CoverBoth(i)' /\ CoverResult(i)'
    BY <2>1
    DEF CoverInv, CoverOpen, CoverBetween, CoverBoth, CoverResult, InOpen, InHistory,
        Closed, Has, Running, OpenPhases
  <2> QED
    BY <2>1, <2>2, <2>3 DEF CoverInv, Watched
<1> QED
  BY <1>1, <1>2, <1>3, CoverAnswer DEF MoveAction, QuietMove

LEMMA PositiveSum ==
  \A m, n \in Nat : m \in Nat \ {0} \/ n \in Nat \ {0} => m + n # 0
OBVIOUS

LEMMA CoverOuter ==
  ASSUME TypeOK, ControlInv, PhaseInv, CoverInv, OuterAction
  PROVE  CoverInv'
<1>1. /\ UNCHANGED <<book, api, seen, parts, misread>>
      /\ pc \in {"combine", "pick"} /\ (pc = "pick" => api # "orders")
      /\ \/ result' = result /\ pc' = "corrupt"
         \/ result'.rows = <<>> /\ (Total = 0 \/ BothFailed \/ pc = "pick")
         \/ pc = "combine" /\ result'.rows = parts.open.rows \o parts.history.rows
         \/ pc = "pick"
  BY OuterEffect DEF ControlInv
<1>2. pc' \in {"idle", "corrupt"}
  BY DEF OuterAction, CombineNothing, Combine, CombineFails, PickNone, Pick, Return
<1>3. /\ parts["open"].rows = parts.open.rows
      /\ parts["history"].rows = parts.history.rows
      /\ parts["open"].err = parts.open.err
      /\ parts["history"].err = parts.history.err
  OBVIOUS
<1>4. parts.open.rows \in Seq(Rows) /\ parts.history.rows \in Seq(Rows)
  BY <1>3, NamesAre DEF TypeOK, Parts
<1>5. ASSUME NEW i \in Watched
      PROVE  CoverResult(i)'
  <2>1. CASE /\ pc = "combine" /\ pc' = "idle"
             /\ parts["open"].err = "success" /\ parts["history"].err = "success"
    <3>1. Has(parts.open.rows, i) \/ Has(parts.history.rows, i)
      BY <1>3, <1>5, <2>1 DEF CoverInv, CoverBoth
    <3>2. parts.open.rows # <<>> \/ parts.history.rows # <<>>
      BY <3>1, HasEmpty
    <3>3. Len(parts.open.rows) + Len(parts.history.rows) # 0
      <4>1. ASSUME NEW s \in Seq(Rows), s # <<>> PROVE Len(s) \in Nat \ {0}
        BY <4>1
      <4>2. Len(parts.open.rows) \in Nat /\ Len(parts.history.rows) \in Nat
        BY <1>4
      <4> QED
        <5>1. \/ Len(parts.open.rows) \in Nat \ {0}
              \/ Len(parts.history.rows) \in Nat \ {0}
          BY <1>4, <3>2, <4>1, Zenon
        <5> QED
          BY <4>2, <5>1, PositiveSum, Zenon
    <3>4. result'.rows = parts.open.rows \o parts.history.rows
      BY <1>1, <1>3, <2>1, <3>3 DEF Total, BothFailed
    <3>5. Has(parts.open.rows \o parts.history.rows, i)
      BY <1>4, <3>1, ElementsConcat DEF Has
    <3> QED
      BY <3>4, <3>5 DEF CoverResult, Has
  <2> QED
    BY <1>1, <2>1 DEF CoverResult
<1>6. ASSUME NEW i \in Watched
      PROVE  CoverOpen(i)' /\ CoverBetween(i)' /\ CoverHistory(i)' /\ CoverBoth(i)'
  BY <1>2 DEF CoverOpen, CoverBetween, CoverHistory, CoverBoth, InOpen, InHistory, Steps
<1> QED
  BY <1>1, <1>5, <1>6 DEF CoverInv, Watched

\* An order that is open may be closed meanwhile, never the other way round.
LEMMA CoverTrade ==
  ASSUME TypeOK, TrueInv, CoverInv, NEW j \in Ids, Trade(j)
  PROVE  CoverInv'
<1>1. PICK st \in {"open", "filled", "canceled"} :
        /\ Become(j, st)
        /\ (book[j] = "none" /\ st = "open") \/ (book[j] = "open" /\ st # "open")
  BY DEF Trade
<1>2. /\ book' = [book EXCEPT ![j] = st]
      /\ seen' = [seen EXCEPT ![j] = @ \cup {st}]
      /\ UNCHANGED <<wallet, pc, api, todo, reply, rows, kept, slot, heap, parts,
                     result, misread>>
  BY <1>1 DEF Become, callVars
<1>3. Watched' \subseteq Watched
  BY <1>2 DEF Watched, TypeOK
<1>4. ASSUME NEW i \in Watched
      PROVE  Closed(i) => Closed(i)'
  <2>1. i \in Ids
    BY DEF Watched
  <2> QED
    BY <1>1, <1>2, <2>1 DEF Closed, TypeOK
<1>5. ASSUME NEW i \in Watched
      PROVE  /\ CoverOpen(i)' /\ CoverBetween(i)' /\ CoverHistory(i)'
             /\ CoverBoth(i)' /\ CoverResult(i)'
  BY <1>2, <1>4
  DEF CoverInv, CoverOpen, CoverBetween, CoverHistory, CoverBoth, CoverResult, InOpen,
      InHistory, Has, Running
<1> QED
  BY <1>3, <1>5 DEF CoverInv

LEMMA CoverStep ==
  ASSUME TypeOK, ControlInv, OwnedInv, PhaseInv, TrueInv, CoverInv, [Next]_vars
  PROVE  CoverInv'
<1>1. ASSUME NEW a \in Apis, Call(a)
      PROVE  CoverInv'
  <2>1. pc' = "post" /\ todo' = Todo(a) /\ api' = a
    BY <1>1 DEF Call
  <2>2. a = "orders" => Running' = "open"
    <3>1. Head(<<"open", "history">>) = "open"
      OBVIOUS
    <3>2. {"orders", "interest"} \cap Names = {}
      BY NamesAre
    <3>3. a = "orders" => todo' = <<"open", "history">>
      BY <1>1, <3>2 DEF Call, Todo
    <3> QED
      BY <3>1, <3>3 DEF Running
  <2> QED
    BY <2>1, <2>2
    DEF CoverInv, CoverOpen, CoverBetween, CoverHistory, CoverBoth, CoverResult, InOpen,
        InHistory, OpenPhases
<1>2. CASE FreeElements \/ FreeWhole
  <2>1. UNCHANGED <<book, api, seen, misread, parts>>
    BY <1>2 DEF FreeElements, FreeWhole, world
  <2>2. pc = "idle" /\ pc' \in {"idle", "corrupt"}
    BY <1>2 DEF FreeElements, FreeWhole
  <2>3. pc' = "idle" /\ api = "orders" =>
          result'.rows = result.rows /\ result'.err = result.err
    BY <1>2, NamesAre DEF FreeElements, FreeWhole, ByElement, TypeOK
  <2>4. ASSUME NEW i \in Watched
        PROVE  /\ CoverOpen(i)' /\ CoverBetween(i)' /\ CoverHistory(i)'
               /\ CoverBoth(i)' /\ CoverResult(i)'
    BY <2>1, <2>2, <2>3
    DEF CoverInv, CoverOpen, CoverBetween, CoverHistory, CoverBoth, CoverResult, InOpen,
        InHistory, Steps, Has
  <2> QED
    BY <2>1, <2>4 DEF CoverInv, Watched
<1>3. CASE UNCHANGED vars
  BY <1>3
  DEF vars, CoverInv, CoverOpen, CoverBetween, CoverHistory, CoverBoth, CoverResult,
      InOpen, InHistory, Has, Closed, Running, Watched
<1>4. CASE Step
  BY <1>4, StepKinds, CoverEnd, CoverMove, CoverOuter DEF OwnedInv
<1> QED
  BY <1>1, <1>2, <1>3, <1>4, CoverTrade DEF Next

\* hl_fetch_orders misses no order, however many there are and whatever becomes
\* of them while it runs: each is in the result if both requests succeed, the
\* order was there throughout and no entry of it was refused or hid that the order
\* was closed.
THEOREM NoneMissed == Spec => []NothingMissed
<1> DEFINE Inv == TypeOK /\ ControlInv /\ OwnedInv /\ PhaseInv /\ TrueInv /\ CoverInv
<1>1. Init => Inv
  <2>1. Init => PhaseInv
    BY DEF Init, PhaseInv
  <2>2. Init => TrueInv
    BY ElementsEmpty DEF Init, TrueInv, TrueOf, NoResult, NoPart
  <2>3. Init => CoverInv
    BY DEF Init, CoverInv, CoverOpen, CoverBetween, CoverHistory, CoverBoth,
           CoverResult, InOpen, InHistory, Steps
  <2> QED
    BY <2>1, <2>2, <2>3, InitTypes, InitHeap
<1>2. Inv /\ [Next]_vars => Inv'
  BY OwnedStep, TrueStep, CoverStep
<1>3. Inv => NothingMissed
  <2> SUFFICES ASSUME CoverInv, pc = "idle", api = "orders", result.err = "success",
                      parts.open.err = "success", parts.history.err = "success",
                      NEW i \in Ids \ misread, "none" \notin seen[i]
               PROVE  \E k \in DOMAIN result.rows : result.rows[k].id = i
    BY DEF NothingMissed
  <2>1. parts["open"].err = parts.open.err /\ parts["history"].err = parts.history.err
    OBVIOUS
  <2>2. Has(result.rows, i)
    BY <2>1 DEF CoverInv, CoverResult, Watched
  <2> QED
    BY <2>2 DEF Has, Elements
<1> QED
  BY <1>1, <1>2, <1>3, PTL DEF Spec

-----------------------------------------------------------------------------
(* What is in the rows. *)

Own(r) == r.from \in {None, r.id}

Fits(r) ==
  r.status \in Fetcher.lists /\ (Fetcher.filter # "after" => Own(r))

RowsInv ==
  /\ pc \in Steps =>
       /\ \A e \in Elements(reply) : e.status \in Fetcher.lists
       /\ \A r \in Elements(rows) : Fits(r)
       /\ \A r \in Elements(kept) : Fits(r) /\ Keeps(r)
       /\ Fetcher.filter # "after" => slot = None
  /\ pc \notin Steps => slot = None
  /\ \A n \in Names : Fetchers[n].filter # "after" =>
       \A r \in Elements(parts[n].rows) : Own(r)

LEMMA ListsOpen ==
  \A n \in Names : Fetchers[n].filter \in {"copy", "one"} => "open" \in Fetchers[n].lists
<1>1. /\ MyTrades.filter = "no" /\ PublicTrades.filter = "no"
      /\ FundingRates.filter = "no" /\ OpenInterests.filter = "before"
      /\ FundingRateHistory.filter = "no" /\ FundingHistory.filter = "after"
      /\ Ledger.filter = "after" /\ Positions.filter = "no"
      /\ Tickers.filter = "before" /\ Currencies.filter = "no"
  BY DEF MyTrades, PublicTrades, FundingRates, OpenInterests, FundingRateHistory,
         FundingHistory, Ledger, Positions, Tickers, Currencies, Usual
<1> QED
  BY <1>1, NamesAre, GuessFetchers DEF OrderFetchers, Fetchers

\* The fetchers that do not copy list nothing they would not keep.
LEMMA ListsKept ==
  \A n \in Names : Fetchers[n].filter # "copy" => Fetchers[n].lists \subseteq Fetchers[n].keeps
<1>1. /\ OpenOrders.lists \subseteq OpenOrders.keeps
      /\ OneOrder.lists \subseteq OneOrder.keeps
      /\ MyTrades.lists \subseteq MyTrades.keeps
      /\ PublicTrades.lists \subseteq PublicTrades.keeps
      /\ FundingRates.lists \subseteq FundingRates.keeps
      /\ OpenInterests.lists \subseteq OpenInterests.keeps
      /\ FundingRateHistory.lists \subseteq FundingRateHistory.keeps
      /\ FundingHistory.lists \subseteq FundingHistory.keeps
      /\ Ledger.lists \subseteq Ledger.keeps
      /\ Positions.lists \subseteq Positions.keeps
      /\ Tickers.lists \subseteq Tickers.keeps
      /\ Currencies.lists \subseteq Currencies.keeps
  BY DEF Tickers, Currencies, OpenOrders, OneOrder, MyTrades, PublicTrades, FundingRates, OpenInterests,
         FundingRateHistory, FundingHistory, Ledger, Positions, Usual, Listed
<1>2. /\ ClosedOrders.filter = "copy" /\ CanceledOrders.filter = "copy"
      /\ CanceledAndClosed.filter = "copy"
  BY DEF ClosedOrders, CanceledOrders, CanceledAndClosed, Usual
<1> QED
  BY <1>1, <1>2, NamesAre DEF Fetchers

LEMMA RowsEnd ==
  ASSUME TypeOK, ControlInv, HeapInv, PhaseInv, RowsInv, StatusAsAsked, OwnFields, Ends
  PROVE  RowsInv' /\ StatusAsAsked' /\ OwnFields'
<1>1. PICK err \in Errors, rs \in Seq(Rows), blocks \in SUBSET Blocks :
        Ending(err, rs, blocks)
  BY DEF Ends
<1>2. /\ pc \in Steps /\ Running \in Names
      /\ parts' = [parts EXCEPT ![Running] = [err |-> err, rows |-> rs]]
      /\ rows' = <<>> /\ kept' = <<>> /\ reply' = <<>> /\ slot' = None /\ api' = api
      /\ \/ result' = result
         \/ /\ result'.rows = rs /\ api # "orders"
            /\ api \in Names => Running = api
            /\ api = "interest" => err # "success"
  BY <1>1, EndingEffect
<1>3. IF err = "success" THEN Success(rs) ELSE rs = <<>>
  BY <1>1 DEF Ending
<1>4. /\ \A r \in Elements(rs) : Fits(r)
      /\ \A r \in Elements(rs) : r.status \in Fetcher.keeps
  <2>1. Fetcher.filter # "copy" => Fetcher.lists \subseteq Fetcher.keeps
    BY <1>2, ListsKept DEF Fetcher
  <2>2. \/ rs = <<>>
        \/ rs = rows /\ Fetcher.filter # "copy"
        \/ rs = kept
    BY <1>3 DEF Success
  <2> QED
    BY <1>2, <2>1, <2>2, ElementsEmpty DEF RowsInv, Fits, Keeps
<1>5. \A n \in Names : Fetchers[n].filter # "after" =>
        \A r \in Elements(parts'[n].rows) : Own(r)
  <2> SUFFICES ASSUME NEW n \in Names, Fetchers[n].filter # "after"
               PROVE  \A r \in Elements(parts'[n].rows) : Own(r)
    OBVIOUS
  <2>1. CASE n = Running
    <3>1. parts'[n].rows = rs
      BY <1>2, <2>1 DEF TypeOK
    <3> QED
      BY <1>4, <2>1, <3>1 DEF Fits, Fetcher
  <2>2. CASE n # Running
    BY <1>2, <2>2 DEF TypeOK, RowsInv
  <2> QED
    BY <2>1, <2>2
<1>6. RowsInv'
  BY <1>2, <1>5, ElementsEmpty DEF RowsInv, Own
<1>7. CASE result' = result
  BY <1>2, <1>6, <1>7 DEF StatusAsAsked, OwnFields
<1>8. CASE /\ result'.rows = rs /\ api # "orders"
           /\ api \in Names => Running = api
           /\ api = "interest" => err # "success"
  <2>1. api \in Names \/ rs = <<>>
    BY <1>3, <1>8 DEF TypeOK, Apis
  <2>2. CASE api \in Names
    <3>1. Fetchers[api] = Fetcher
      BY <1>8, <2>2 DEF Fetcher
    <3>2. \A k \in DOMAIN rs : Fits(rs[k]) /\ rs[k].status \in Fetcher.keeps
      BY <1>4 DEF Elements
    <3> QED
      BY <1>2, <1>6, <1>8, <2>2, <3>1, <3>2 DEF StatusAsAsked, OwnFields, Fits, Own
  <2>3. CASE rs = <<>>
    <3>1. DOMAIN rs = {}
      BY <2>3
    <3> QED
      BY <1>6, <1>8, <3>1 DEF StatusAsAsked, OwnFields
  <2> QED
    BY <2>1, <2>2, <2>3
<1> QED
  BY <1>2, <1>7, <1>8

\* What the parser makes of an entry.
LEMMA TakeEffect ==
  ASSUME TypeOK, ControlInv, PhaseInv, TakeEntry
  PROVE  LET row == Parsed(Head(reply))
         IN  /\ Elements(rows') = Elements(rows) \cup {row}
             /\ row.status = Told(Head(reply))
             /\ slot = None => Own(row)
             /\ slot' = None
<1>1. rows' = Append(rows, Parsed(Head(reply))) /\ reply # <<>> /\ slot' = None
  BY DEF TakeEntry, Blank
<1>2. Head(reply) \in Entries /\ Parsed(Head(reply)) \in Rows
  BY <1>1, HeadTail, ParsedType DEF TypeOK
<1>3. Elements(rows') = Elements(rows) \cup {Parsed(Head(reply))}
  BY <1>1, <1>2, ElementsAppend DEF TypeOK
<1> QED
  BY <1>1, <1>3 DEF Parsed, Own

LEMMA RowsMove ==
  ASSUME TypeOK, ControlInv, HeapInv, PhaseInv, TrueInv, RowsInv, StatusAsAsked,
         OwnFields, MoveAction
  PROVE  RowsInv' /\ StatusAsAsked' /\ OwnFields'
<1>1. pc \in Steps /\ pc' \in Steps
  BY MoveHeap DEF MoveAction
<1>2. UNCHANGED <<todo, api, parts, result>>
  BY DEF MoveAction, PostRefused, Answer, ParseJson, RightShape, Alloc, SkipEntry,
         TakeEntry, AllRead, CountSome, CopyRow, world, reading
<1>3. StatusAsAsked' /\ OwnFields'
  BY <1>2 DEF StatusAsAsked, OwnFields
<1>4. CASE QuietMove
  BY <1>1, <1>2, <1>3, <1>4, QuietEffect
  DEF RowsInv, Fits, Own, Keeps, Fetcher, Running
<1>5. CASE Answer
  <2>1. UNCHANGED <<rows, kept, slot>>
    BY <1>5 DEF Answer
  <2>2. \A e \in Elements(reply') : e.status \in Fetcher.lists
    BY <1>5, AnswerEffect DEF Listing
  <2> QED
    BY <1>1, <1>2, <1>3, <2>1, <2>2 DEF RowsInv, Fits, Own, Keeps, Fetcher, Running
<1>6. CASE SkipEntry
  <2>1. /\ Elements(reply') \subseteq Elements(reply) /\ rows' = rows /\ kept' = kept
    BY <1>6, ReadEffect DEF SkipEntry
  <2>2. Fetcher.filter # "after" => slot' = slot
    BY <1>6 DEF SkipEntry
  <2> QED
    BY <1>1, <1>2, <1>3, <2>1, <2>2 DEF RowsInv, Fits, Own, Keeps, Fetcher, Running
<1>7. CASE TakeEntry
  <2>1. Elements(reply) = Elements(reply') \cup {Head(reply)} /\ kept' = kept
    BY <1>7, ReadEffect
  <2>2. PICK row : /\ Elements(rows') = Elements(rows) \cup {row}
                   /\ row.status = Told(Head(reply))
                   /\ slot = None => Own(row)
                   /\ slot' = None
    BY <1>7, TakeEffect
  <2>3. Fits(row)
    <3>1. Head(reply).status \in Fetcher.lists
      BY <1>1, <2>1 DEF RowsInv
    <3>2. Head(reply).says \/ Head(reply).status = "open" \/ Guessing
      BY <2>1 DEF TrueInv
    <3>3. Guessing => "open" \in Fetcher.lists
      BY <1>1, PlanSteps, ListsOpen DEF Guessing, Fetcher
    <3>4. row.status \in Fetcher.lists
      BY <2>2, <3>1, <3>2, <3>3 DEF Told
    <3> QED
      BY <1>1, <2>2, <3>4 DEF RowsInv, Fits
  <2> QED
    BY <1>1, <1>2, <1>3, <2>1, <2>2, <2>3
    DEF RowsInv, Fits, Own, Keeps, Fetcher, Running
<1>8. CASE CopyRow
  <2>1. /\ Elements(rows) = Elements(rows') \cup {Head(rows)} /\ reply' = reply
        /\ Elements(kept') = Elements(kept) \cup
                               (IF Keeps(Head(rows)) THEN {Head(rows)} ELSE {})
    BY <1>8, CopyEffect
  <2>2. slot' = slot
    BY <1>8 DEF CopyRow
  <2> QED
    BY <1>1, <1>2, <1>3, <2>1, <2>2 DEF RowsInv, Fits, Own, Keeps, Fetcher, Running
<1> QED
  BY <1>4, <1>5, <1>6, <1>7, <1>8 DEF MoveAction, QuietMove

LEMMA RowsOuter ==
  ASSUME TypeOK, ControlInv, PhaseInv, RowsInv, StatusAsAsked, OwnFields, OuterAction
  PROVE  RowsInv' /\ StatusAsAsked' /\ OwnFields'
<1>1. /\ UNCHANGED <<api, parts>> /\ pc' \notin Steps /\ slot' = None
  BY OuterEffect
  DEF OuterAction, CombineNothing, Combine, CombineFails, PickNone, Pick, Return,
      reading, RowsInv, Steps
<1>2. api \notin Names
  BY OuterEffect, NamesAre DEF ControlInv
<1>3. RowsInv'
  BY <1>1 DEF RowsInv, Own
<1>4. \A r \in Elements(result'.rows) : Own(r)
  <2>1. /\ parts["open"].rows = parts.open.rows
        /\ parts["history"].rows = parts.history.rows
        /\ parts["interests"].rows = parts.interests.rows
    OBVIOUS
  <2>2. /\ "open" \in Names /\ "history" \in Names /\ "interests" \in Names
        /\ Fetchers["interests"].filter # "after"
    BY NamesAre DEF Fetchers, OpenInterests, Usual
  <2>3. /\ parts.open.rows \in Seq(Rows) /\ parts.history.rows \in Seq(Rows)
    BY <2>1, <2>2 DEF TypeOK, Parts
  <2>4. /\ \A r \in Elements(parts.open.rows) : Own(r)
        /\ \A r \in Elements(parts.history.rows) : Own(r)
        /\ \A r \in Elements(parts.interests.rows) : Own(r)
    BY <2>1, <2>2, OrdersFetchers DEF RowsInv
  <2>5. \A r \in Elements(parts.open.rows \o parts.history.rows) : Own(r)
    BY <2>3, <2>4, ElementsConcat
  <2>6. \A r \in Elements(result.rows) : Own(r)
    BY <1>2 DEF OwnFields, Own, Elements
  <2> QED
    BY <2>4, <2>5, <2>6, ElementsEmpty, OuterEffect
<1>5. OwnFields'
  BY <1>4 DEF OwnFields, Own, Elements
<1> QED
  BY <1>1, <1>2, <1>3, <1>5 DEF StatusAsAsked

LEMMA RowsStep ==
  ASSUME TypeOK, ControlInv, OwnedInv, PhaseInv, TrueInv, RowsInv,
         StatusAsAsked, OwnFields, [Next]_vars
  PROVE  RowsInv' /\ StatusAsAsked' /\ OwnFields'
<1>1. ASSUME NEW a \in Apis, Call(a)
      PROVE  RowsInv' /\ StatusAsAsked' /\ OwnFields'
  <2>1. /\ pc = "idle" /\ pc' = "post" /\ result' = NoResult
        /\ parts' = [n \in Names |-> NoPart]
        /\ UNCHANGED <<reply, rows, kept, slot>>
    BY <1>1 DEF Call
  <2>2. reply = <<>> /\ rows = <<>> /\ kept = <<>> /\ slot = None
    BY <2>1 DEF PhaseInv, RowsInv, Steps
  <2>3. result'.rows = <<>> /\ DOMAIN (<<>>) = {}
    BY <2>1 DEF NoResult
  <2>4. \A n \in Names : parts'[n].rows = <<>>
    BY <2>1 DEF NoPart
  <2>5. RowsInv'
    BY <2>1, <2>2, <2>4, ElementsEmpty DEF RowsInv
  <2> QED
    BY <2>3, <2>5 DEF StatusAsAsked, OwnFields
<1>2. CASE FreeElements \/ FreeWhole
  <2>1. UNCHANGED <<api, parts, slot>>
    BY <1>2 DEF FreeElements, FreeWhole, world, reading
  <2>2. pc = "idle" /\ pc' \in {"idle", "corrupt"}
    BY <1>2 DEF FreeElements, FreeWhole
  <2>3. result'.rows = result.rows \/ DOMAIN result'.rows = {}
    <3>1. result'.rows = result.rows \/ result'.rows = <<>>
      BY <1>2 DEF FreeElements, FreeWhole, TypeOK
    <3> QED
      BY <3>1
  <2>4. RowsInv'
    BY <2>1, <2>2 DEF RowsInv, Steps, Own
  <2> QED
    BY <2>1, <2>3, <2>4 DEF StatusAsAsked, OwnFields
<1>3. ASSUME \/ UNCHANGED vars
             \/ \E i \in Ids : Trade(i)
      PROVE  RowsInv' /\ StatusAsAsked' /\ OwnFields'
  <2>1. UNCHANGED <<pc, api, todo, reply, rows, kept, slot, parts, result>>
    BY <1>3 DEF Trade, Become, vars, callVars
  <2> QED
    BY <2>1 DEF RowsInv, Fits, Own, Keeps, Fetcher, Running, StatusAsAsked, OwnFields
<1>4. CASE Step
  BY <1>4, StepKinds, RowsEnd, RowsMove, RowsOuter DEF OwnedInv
<1> QED
  BY <1>1, <1>2, <1>3, <1>4 DEF Next

\* A call returns only orders of the statuses it is for, and in every fetcher that
\* filters before it fills an element, each with the fields of its own entry.
THEOREM OwnRows == Spec => [](StatusAsAsked /\ OwnFields)
<1> DEFINE Inv == /\ TypeOK /\ ControlInv /\ OwnedInv /\ PhaseInv /\ TrueInv
                  /\ RowsInv /\ StatusAsAsked /\ OwnFields
<1>1. Init => Inv
  <2>1. Init => PhaseInv
    BY DEF Init, PhaseInv
  <2>2. Init => RowsInv
    BY ElementsEmpty DEF Init, RowsInv, NoPart, Steps, Blank
  <2>3. Init => StatusAsAsked /\ OwnFields
    <3>1. DOMAIN (<<>>) = {}
      OBVIOUS
    <3> QED
      BY <3>1 DEF Init, NoResult, StatusAsAsked, OwnFields
  <2>4. Init => TrueInv
    BY ElementsEmpty DEF Init, TrueInv, TrueOf, NoResult, NoPart
  <2> QED
    BY <2>1, <2>2, <2>3, <2>4, InitTypes, InitHeap
<1>2. Inv /\ [Next]_vars => Inv'
  BY OwnedStep, TrueStep, RowsStep
<1> QED
  BY <1>1, <1>2, PTL DEF Spec
=============================================================================
