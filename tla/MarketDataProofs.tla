-------------------------- MODULE MarketDataProofs --------------------------
(***************************************************************************)
(* The rows of the market list, the memory of its callers, which market a  *)
(* request names, and what books, candles and the figures computed from    *)
(* them show: for any coins, spots, tables, timeframes and bounds.         *)
(***************************************************************************)
EXTENDS MarketData, Numbers, SequenceTheorems, FiniteSetTheorems, TLAPS

-----------------------------------------------------------------------------
(* The inductive invariant. *)

\* The arguments of a call.
NamedCalls == [op : {"none", "fetch", "load"}]
BookCalls == [op : {"book"}, sym : Symbols, limit : Nat]
CandleCalls == [op : {"candles"}, sym : Symbols, limit : Nat \cup {None},
                since : Nat \cup {None}, until : Nat, frame : DOMAIN Frames \cup {None}]
TickerCalls == [op : {"ticker"}, sym : Symbols]
LeverageCalls == [op : {"leverage"}, coin : Coins \cup {None}]
MarginCalls == [op : {"margin"}, coin : Coins]

CallShape ==
  \/ call \in NamedCalls
  \/ call \in BookCalls
  \/ call \in CandleCalls
  \/ call \in TickerCalls
  \/ call \in LeverageCalls
  \/ call \in MarginCalls

FetchSteps == {"swapPost", "swapRead", "spotPost", "spotRead"}
LookSteps == {"copy", "scan", "match", "post"}
WaitSteps == {"bookWait", "bids", "asks", "candleWait", "updateWait"}

\* Which call is at which step.
CallInv ==
  /\ CallShape
  /\ pc = "none" => call.op = "none"
  /\ pc \in FetchSteps => call.op # "none"
  /\ pc \in {"spotPost", "spotRead"} => call.op # "ticker"
  /\ pc = "hand" => call.op = "fetch"
  /\ pc = "keep" => call.op = "load"
  /\ pc \in LookSteps => call.op \in {"book", "candles"}
  /\ pc \in {"bookWait", "bids", "asks"} => call.op = "book"
  /\ pc = "candleWait" => call.op = "candles"
  /\ pc = "ticker" => call.op = "ticker"
  /\ pc \in {"pick", "sign", "updateWait"} => call.op \in Shrugs

\* What a call holds at its steps; rows stand in an array of their own.
HeapInv ==
  /\ pc \in {"none", "idle", "swapPost", "sign", "updateWait"} => heap = {}
  /\ pc # "asks" => heap \subseteq {"array"}
  /\ pc = "asks" => heap \subseteq {"array", "bids"}
  /\ pc \in {"swapRead", "spotRead"} => "array" \in heap
  /\ (pc \in {"spotPost", "keep"} /\ markets # <<>>) => "array" \in heap

\* Nothing is lost before a call returns, and a load has released its cache.
LeakInv ==
  /\ pc \notin {"none", "idle"} => leaked = {}
  /\ LeaksOnlyThere
  /\ (pc # "idle" /\ call.op = "load") => cache = None

\* The swaps of rows come first, in the order of their ids, and are in lst.
Sound(rows, lst) ==
  \A i \in DOMAIN rows : rows[i].type = "swap" =>
    /\ rows[i].id + 1 \in DOMAIN lst
    /\ lst[rows[i].id + 1] = rows[i].base
    /\ rows[i].ctx = rows[i].base
    /\ \A j \in DOMAIN rows : j < i => rows[j].type = "swap" /\ rows[j].id < rows[i].id

\* The spots of rows are listed.
SpotsListed(rows) == \A i \in DOMAIN rows : rows[i].type = "spot" => Spot(rows[i].id, rows[i].base)

OnlySwaps(rows) == \A i \in DOMAIN rows : rows[i].type = "swap"

Below(rows, bound) == \A i \in DOMAIN rows : rows[i].id < bound

Prefix(seq, lst) == \A i \in DOMAIN seq : i \in DOMAIN lst /\ seq[i] = lst[i]

Distinct(lst) == \A i, j \in DOMAIN lst : lst[i] = lst[j] => i = j

\* While the swaps are read, the rows are those of earlier positions.
RowsInv ==
  /\ Distinct(listing)
  /\ Sound(markets, listing)
  /\ SpotsListed(markets)
  /\ Sound(CachedRows, listing)
  /\ pc = "swapPost" => markets = <<>>
  /\ pc \in {"swapRead", "ticker"} => OnlySwaps(markets)
  /\ pc = "swapRead" => Prefix(reply, listing) /\ Below(markets, at - 1)

\* id is the position of the coin's swap.
Lists(lst, id, coin) == id + 1 \in DOMAIN lst /\ lst[id + 1] = coin

\* What the look-ups have found.
LookInv ==
  /\ pc = "post" => info.base = call.sym.base /\ info.type = call.sym.type
  /\ (pc \in FetchSteps /\ call.op \in Shrugs) => ~Unfetched(call)
  /\ (pc \in {"pick", "sign"} /\ Unfetched(call)) => markets = <<>>
  /\ (pc = "sign" /\ \E i \in DOMAIN markets : markets[i].base = call.coin /\
                                              markets[i].type = "swap")
       => Lists(listing, asset, call.coin)
  /\ (pc = "sign" /\ ~Resolved(call.op, call.coin)) =>
       \/ asset = 0 /\ call.op = "leverage"
       \/ asset # 0 /\ (Swap(asset, call.coin) \/ Spot(asset, call.coin))

\* A request stands only while its answer is awaited.
RequestInv ==
  /\ pc \notin WaitSteps => request = None
  /\ RightMarket

IInv == TypeOK /\ CallInv /\ HeapInv /\ LeakInv /\ ClientOwned /\ RowsInv /\ LookInv /\ RequestInv

-----------------------------------------------------------------------------
(* Rows. *)

\* Rows that were right stay right when the exchange lists another coin.
LEMMA SoundGrows ==
  ASSUME NEW rows \in Seq(Rows), NEW lst \in Seq(Coins), NEW c \in Coins, Sound(rows, lst)
  PROVE  Sound(rows, Append(lst, c))
<1>1. \A k \in DOMAIN lst : k \in DOMAIN Append(lst, c) /\ Append(lst, c)[k] = lst[k]
  BY AppendProperties
<1> QED BY <1>1 DEF Sound

\* A listing stays without duplicates.
LEMMA DistinctGrows ==
  ASSUME NEW lst \in Seq(Coins), NEW c \in Coins, Distinct(lst),
         \A i \in DOMAIN lst : lst[i] # c
  PROVE  Distinct(Append(lst, c))
<1>1. /\ Len(lst) \in Nat /\ DOMAIN lst = 1..Len(lst)
      /\ DOMAIN Append(lst, c) = 1..(Len(lst) + 1)
      /\ \A k \in DOMAIN lst : Append(lst, c)[k] = lst[k]
      /\ Append(lst, c)[Len(lst) + 1] = c
  BY AppendProperties, LenProperties
<1> QED BY <1>1 DEF Distinct

\* What a position listed before listed, it lists.
LEMMA ListsGrows ==
  ASSUME NEW lst \in Seq(Coins), NEW c \in Coins, NEW id \in Nat, NEW coin, Lists(lst, id, coin)
  PROVE  Lists(Append(lst, c), id, coin)
<1>1. \A k \in DOMAIN lst : k \in DOMAIN Append(lst, c) /\ Append(lst, c)[k] = lst[k]
  BY AppendProperties
<1> QED BY <1>1 DEF Lists

\* The row after the rows of earlier positions.
LEMMA SoundSwap ==
  ASSUME NEW rows \in Seq(Rows), NEW lst \in Seq(Coins), NEW r \in Rows,
         Sound(rows, lst), OnlySwaps(rows), Below(rows, r.id),
         r.type = "swap", r.ctx = r.base, Lists(lst, r.id, r.base)
  PROVE  Sound(Append(rows, r), lst) /\ OnlySwaps(Append(rows, r))
<1>1. /\ Len(rows) \in Nat /\ DOMAIN rows = 1..Len(rows)
      /\ DOMAIN Append(rows, r) = 1..(Len(rows) + 1)
      /\ \A k \in DOMAIN rows : Append(rows, r)[k] = rows[k]
      /\ Append(rows, r)[Len(rows) + 1] = r
  BY AppendProperties, LenProperties
<1>2. OnlySwaps(Append(rows, r))
  BY <1>1 DEF OnlySwaps
<1>3. ASSUME NEW i \in DOMAIN Append(rows, r), NEW j \in DOMAIN Append(rows, r), j < i
      PROVE  j \in DOMAIN rows /\ Append(rows, r)[j].id < Append(rows, r)[i].id
  <2>1. j \in DOMAIN rows /\ Append(rows, r)[j] = rows[j]
    BY <1>1, <1>3
  <2>2. CASE i = Len(rows) + 1
    BY <2>1, <2>2, <1>1 DEF Below
  <2>3. CASE i # Len(rows) + 1
    BY <2>1, <2>3, <1>1, <1>3 DEF Sound, OnlySwaps
  <2> QED BY <2>1, <2>2, <2>3
<1>4. ASSUME NEW i \in DOMAIN Append(rows, r)
      PROVE  /\ Append(rows, r)[i].id + 1 \in DOMAIN lst
             /\ lst[Append(rows, r)[i].id + 1] = Append(rows, r)[i].base
             /\ Append(rows, r)[i].ctx = Append(rows, r)[i].base
  <2>1. CASE i = Len(rows) + 1
    BY <2>1, <1>1 DEF Lists
  <2>2. CASE i # Len(rows) + 1
    BY <2>2, <1>1 DEF Sound, OnlySwaps
  <2> QED BY <2>1, <2>2
<1> QED BY <1>2, <1>3, <1>4 DEF Sound, OnlySwaps

\* A spot after whatever there is.
LEMMA SoundSpot ==
  ASSUME NEW rows \in Seq(Rows), NEW lst \in Seq(Coins), NEW r \in Rows,
         Sound(rows, lst), r.type = "spot"
  PROVE  Sound(Append(rows, r), lst)
<1>1. /\ Len(rows) \in Nat /\ DOMAIN rows = 1..Len(rows)
      /\ DOMAIN Append(rows, r) = 1..(Len(rows) + 1)
      /\ \A k \in DOMAIN rows : Append(rows, r)[k] = rows[k]
      /\ Append(rows, r)[Len(rows) + 1] = r
  BY AppendProperties, LenProperties
<1>2. ASSUME NEW i \in DOMAIN Append(rows, r), Append(rows, r)[i].type = "swap"
      PROVE  /\ i \in DOMAIN rows /\ Append(rows, r)[i] = rows[i]
             /\ \A j \in DOMAIN Append(rows, r) : j < i =>
                  j \in DOMAIN rows /\ Append(rows, r)[j] = rows[j]
  <2>1. i # Len(rows) + 1
    BY <1>1, <1>2
  <2> QED BY <2>1, <1>1
<1> QED BY <1>2 DEF Sound

\* One more listed row.
LEMMA ListedGrows ==
  ASSUME NEW rows \in Seq(Rows), NEW r \in Rows, SpotsListed(rows), Spot(r.id, r.base)
  PROVE  SpotsListed(Append(rows, r))
<1>1. /\ Len(rows) \in Nat /\ DOMAIN rows = 1..Len(rows)
      /\ DOMAIN Append(rows, r) = 1..(Len(rows) + 1)
      /\ \A k \in DOMAIN rows : Append(rows, r)[k] = rows[k]
      /\ Append(rows, r)[Len(rows) + 1] = r
  BY AppendProperties, LenProperties
<1>2. \A i \in DOMAIN Append(rows, r) : i \in DOMAIN rows \/ i = Len(rows) + 1
  BY <1>1
<1> QED BY <1>1, <1>2 DEF SpotsListed

\* A swap is the only one of its coin.
LEMMA OneSwap ==
  ASSUME NEW rows \in Seq(Rows), NEW lst \in Seq(Coins), Distinct(lst), Sound(rows, lst),
         NEW i \in DOMAIN rows, rows[i].type = "swap",
         NEW j \in DOMAIN rows, rows[j].base = rows[i].base
  PROVE  i <= j /\ (rows[j].type = "swap" => i = j)
<1>1. i \in Nat /\ j \in Nat /\ rows[i] \in Rows /\ rows[j] \in Rows
  BY LenProperties, ElementOfSeq
<1>2. rows[i].id \in Nat /\ rows[j].id \in Nat
  BY <1>1 DEF Rows
<1>3. rows[j].type = "swap" => rows[j].id = rows[i].id
  BY <1>2 DEF Sound, Distinct
<1>4. ~(j < i)
  BY <1>1, <1>2, <1>3 DEF Sound
<1>5. rows[j].type = "swap" => ~(i < j)
  BY <1>1, <1>2, <1>3 DEF Sound
<1> QED BY <1>1, <1>4, <1>5

\* The first row with the id of a swap is that swap.
LEMMA OwnId ==
  ASSUME NEW rows \in Seq(Rows), NEW lst \in Seq(Coins), Sound(rows, lst),
         NEW i \in DOMAIN rows, rows[i].type = "swap",
         NEW j \in DOMAIN rows, rows[j].id = rows[i].id
  PROVE  i <= j
<1>1. i \in Nat /\ j \in Nat /\ rows[i] \in Rows /\ rows[j] \in Rows
  BY LenProperties, ElementOfSeq
<1>2. rows[i].id \in Nat /\ rows[j].id \in Nat
  BY <1>1 DEF Rows
<1> QED BY <1>1, <1>2 DEF Sound

\* The least of S when one is known.
LEMMA LeastIs ==
  ASSUME NEW S \in SUBSET Nat, NEW i \in S, \A j \in S : i <= j
  PROVE  Least(S) = {i}
<1>1. i \in Least(S)
  BY DEF Least
<1>2. ASSUME NEW k \in Least(S)
      PROVE  k = i
  <2>1. k \in S /\ k <= i /\ i <= k
    BY DEF Least
  <2> QED BY <2>1
<1> QED BY <1>1, <1>2

\* Sound rows of a listing without duplicates are found by id and by symbol.
LEMMA SoundFound ==
  ASSUME NEW rows \in Seq(Rows), NEW lst \in Seq(Coins), Distinct(lst), Sound(rows, lst),
         NEW r \in Swaps(rows)
  PROVE  /\ hl_get_market_by_id(rows, r.id) = {r}
         /\ hl_get_market(rows, [base |-> r.base, type |-> "swap"]) = {r}
<1>1. PICK i \in DOMAIN rows : rows[i] = r /\ rows[i].type = "swap"
  BY DEF Swaps
<1>2. DOMAIN rows \subseteq Nat
  BY LenProperties
<1> DEFINE ById == {j \in DOMAIN rows : rows[j].id = r.id}
           BySymbol == {j \in DOMAIN rows : rows[j].base = r.base /\ rows[j].type = "swap"}
<1>3. Least(ById) = {i}
  <2>1. i \in ById /\ ById \in SUBSET Nat
    BY <1>1, <1>2
  <2>2. \A j \in ById : i <= j
    BY <1>1, OwnId
  <2> HIDE DEF ById
  <2> QED BY <2>1, <2>2, LeastIs
<1>4. Least(BySymbol) = {i}
  <2>1. i \in BySymbol /\ BySymbol \in SUBSET Nat
    BY <1>1, <1>2
  <2>2. \A j \in BySymbol : i <= j
    BY <1>1, OneSwap
  <2> HIDE DEF BySymbol
  <2> QED BY <2>1, <2>2, LeastIs
<1>5. hl_get_market_by_id(rows, r.id) = {rows[k] : k \in Least(ById)}
  BY DEF hl_get_market_by_id
<1>6. hl_get_market(rows, [base |-> r.base, type |-> "swap"]) = {rows[k] : k \in Least(BySymbol)}
  BY DEF hl_get_market
<1> HIDE DEF ById, BySymbol
<1> QED BY <1>1, <1>3, <1>4, <1>5, <1>6

\* What hl_get_market returns is a row of the symbol.
LEMMA MarketFits ==
  ASSUME NEW rows \in Seq(Rows), NEW s, NEW r \in hl_get_market(rows, s)
  PROVE  \E i \in DOMAIN rows : r = rows[i] /\ r.base = s.base /\ r.type = s.type
BY DEF hl_get_market, Least

-----------------------------------------------------------------------------
(* The calls that resolve a symbol. *)

SymbolCalls == BookCalls \cup CandleCalls \cup TickerCalls \cup LeverageCalls \cup MarginCalls

\* How such a call begins: at once refused, with a fetch, or without one.
Begun(c, step) ==
  /\ c \in SymbolCalls
  /\ step \in {"idle", "swapPost", "pick"}
  /\ step = "pick" => c.op \in Shrugs
  /\ step = "idle" => c.op # "ticker"
  /\ (step = "swapPost" /\ c.op \in Shrugs) => ~Unfetched(c)

\* Each of the calls that resolve a symbol begins in one of these ways.
LEMMA DataCalled ==
  ASSUME DataCalls
  PROVE  \E c, step : Begun(c, step) /\ Begin(c, step) /\ err' \in {err, "params", "auth"}
<1>1. CASE FetchOrderBook
  <2>1. PICK s \in Symbols : Started([op |-> "book", sym |-> s, limit |-> 0], "swapPost")
    BY <1>1 DEF FetchOrderBook
  <2> DEFINE c == [op |-> "book", sym |-> s, limit |-> 0]
  <2>2. Begun(c, "swapPost")
    BY DEF Begun, SymbolCalls, BookCalls, Shrugs
  <2> QED BY <2>1, <2>2 DEF Started
<1>2. CASE FetchOhlcv
  <2>1. PICK s \in Symbols, frame \in DOMAIN Frames \cup {None} :
          LET c == [op |-> "candles", sym |-> s, limit |-> None, since |-> None,
                    until |-> 0, frame |-> frame]
          IN  IF frame = None THEN Refused(c, "params") ELSE Started(c, "swapPost")
    BY <1>2 DEF FetchOhlcv
  <2> DEFINE c == [op |-> "candles", sym |-> s, limit |-> None, since |-> None,
                   until |-> 0, frame |-> frame]
  <2>2. c \in SymbolCalls /\ c.op = "candles"
    BY DEF SymbolCalls, CandleCalls
  <2>3. Begun(c, "idle") /\ Begun(c, "swapPost")
    BY <2>2 DEF Begun, Shrugs
  <2> QED BY <2>1, <2>3 DEF Started, Refused
<1>3. CASE GetTicker
  <2>1. PICK s \in Symbols : Started([op |-> "ticker", sym |-> s], "swapPost")
    BY <1>3 DEF GetTicker
  <2> DEFINE c == [op |-> "ticker", sym |-> s]
  <2>2. Begun(c, "swapPost")
    BY DEF Begun, SymbolCalls, TickerCalls, Shrugs
  <2> QED BY <2>1, <2>2 DEF Started
<1>4. ASSUME NEW c \in LeverageCalls \cup MarginCalls, NEW valid, NEW keyed, Update(c, valid, keyed)
      PROVE  \E d, step : Begun(d, step) /\ Begin(d, step) /\ err' \in {err, "params", "auth"}
  <2> DEFINE step == IF Unfetched(c) THEN "pick" ELSE "swapPost"
  <2>1. c \in SymbolCalls /\ c.op \in Shrugs /\ c.op # "ticker"
    BY DEF SymbolCalls, LeverageCalls, MarginCalls, Shrugs
  <2>2. Begun(c, step) /\ Begun(c, "idle")
    BY <2>1 DEF Begun
  <2>3. Refused(c, "params") \/ Refused(c, "auth") \/ Started(c, step)
    BY <1>4 DEF Update
  <2> HIDE DEF step
  <2> QED BY <2>2, <2>3 DEF Started, Refused
<1>5. ASSUME NEW coin \in Coins \cup {None}, NEW leverage \in {0, 1, 50, 51}, NEW keyed \in BOOLEAN,
             SetLeverage(coin, leverage, keyed)
      PROVE  \E d, step : Begun(d, step) /\ Begin(d, step) /\ err' \in {err, "params", "auth"}
  <2>1. [op |-> "leverage", coin |-> coin] \in LeverageCalls
    BY DEF LeverageCalls
  <2> QED BY <1>4, <1>5, <2>1 DEF SetLeverage
<1>6. ASSUME NEW coin \in Coins, NEW amount \in {-1, 1}, NEW keyed \in BOOLEAN,
             AddMargin(coin, amount, keyed) \/ ReduceMargin(coin, amount, keyed)
      PROVE  \E d, step : Begun(d, step) /\ Begin(d, step) /\ err' \in {err, "params", "auth"}
  <2> DEFINE c == [op |-> "margin", coin |-> coin]
  <2>1. c \in MarginCalls
    BY DEF MarginCalls
  <2>2. Refused(c, "params") \/ \E valid : Update(c, valid, keyed)
    BY <1>6 DEF AddMargin, ReduceMargin
  <2> HIDE DEF c
  <2>3. CASE Refused(c, "params")
    <3>1. Begun(c, "idle")
      BY <2>1 DEF Begun, SymbolCalls, MarginCalls, Shrugs
    <3> QED BY <2>3, <3>1 DEF Refused
  <2> QED BY <1>4, <2>1, <2>2, <2>3
<1> QED BY <1>1, <1>2, <1>3, <1>5, <1>6 DEF DataCalls

-----------------------------------------------------------------------------
(* Types. *)

\* A call that looks a symbol up has one.
LEMMA SymTyped ==
  ASSUME CallShape, call.op \in {"book", "candles", "ticker"}
  PROVE  call.sym \in Symbols /\ call.sym.base \in Coins /\ call.sym.type \in {"swap", "spot", "plain"}
BY DEF CallShape, NamedCalls, BookCalls, CandleCalls, TickerCalls, LeverageCalls,
       MarginCalls, Symbols

\* What a row holds.
LEMMA RowTyped ==
  ASSUME NEW rows \in Seq(Rows), NEW i \in DOMAIN rows
  PROVE  /\ rows[i] \in Rows /\ rows[i].id \in Nat
         /\ rows[i].base \in Coins /\ rows[i].ctx \in Coins
         /\ rows[i].type \in {"swap", "spot"}
<1>1. rows[i] \in Rows
  BY ElementOfSeq, LenProperties
<1> QED BY <1>1 DEF Rows

\* What an entry of the spots' universe holds.
LEMMA SpotTyped ==
  ASSUME NEW i \in DOMAIN Spots
  PROVE  Spots[i].base \in Coins /\ Spots[i].index \in Nat \cup {None}
<1>1. Spots[i] \in [base : Coins, index : Nat \cup {None}]
  BY SpotsAssumption, ElementOfSeq, LenProperties
<1> QED BY <1>1

\* What leverage and margin pick is the id of the table or of a row.
LEMMA PickedTyped ==
  ASSUME markets \in Seq(Rows)
  PROVE  PickedId \in Nat
<1>1. \A i \in DOMAIN markets : markets[i] \in Rows /\ markets[i].id \in Nat
  BY RowTyped
<1>2. \A r \in OfBase(call.coin) : r.id \in Nat
  BY <1>1 DEF OfBase, Least
<1>3. Resolved(call.op, call.coin) => Table[call.coin] \in Nat
  BY TableAssumption DEF Resolved
<1> QED BY <1>2, <1>3 DEF PickedId

\* Where a call goes on with the markets.
LEMMA ThenTyped ==
  ASSUME CallShape, call.op # "none", call.op # "ticker"
  PROVE  /\ Then \in {"hand", "keep", "copy", "pick"}
         /\ Then = "hand" => call.op = "fetch"
         /\ Then = "keep" => call.op = "load"
         /\ Then = "copy" => call.op \in {"book", "candles"}
         /\ Then = "pick" => call.op \in Shrugs
BY DEF CallShape, NamedCalls, BookCalls, CandleCalls, TickerCalls, LeverageCalls,
       MarginCalls, Shrugs, Then

\* Every step keeps the types.
LEMMA TypeStep ==
  ASSUME IInv, [Next]_vars
  PROVE  TypeOK'
<1>a. TypeOK /\ CallInv /\ CallShape
  BY DEF IInv, CallInv
<1>b. <<>> \in Seq(Rows) /\ <<>> \in Seq(Coins)
  OBVIOUS
<1>c. pc \in {"spotPost", "spotRead"} => Then \in {"hand", "keep", "copy", "pick"}
  BY <1>a, ThenTyped DEF CallInv, FetchSteps
<1>1. CASE SwapsFail /\ UNCHANGED dataVars
  BY <1>1, <1>a, <1>b DEF SwapsFail, FetchFails, Return, FetchErrors, Array,
       dataVars, TypeOK, Errors
<1>2. CASE SwapsAnswer /\ UNCHANGED dataVars
  <2>1. pc' \in {"ticker", "spotPost", "swapRead"} /\ heap' \subseteq {"array",
       "bids", "asks"}
    BY <1>2, <1>a DEF SwapsAnswer, AfterSwaps, Array, TypeOK
  <2> QED BY <1>2, <1>a, <2>1 DEF SwapsAnswer, dataVars, TypeOK
<1>3. CASE ReadSwap /\ UNCHANGED dataVars
  BY <1>3, <1>a, <1>b, AppendProperties, ElementOfSeq, LenProperties DEF ReadSwap,
       SwapRow, dataVars, Rows, TypeOK, Errors
<1>4. CASE SkipSwap /\ UNCHANGED dataVars
  BY <1>4, <1>a, <1>b DEF SkipSwap, dataVars, TypeOK, Errors
<1>5. CASE SwapsRead /\ UNCHANGED dataVars
  BY <1>5, <1>a, <1>b DEF SwapsRead, AfterSwaps, dataVars, TypeOK, Errors
<1>6. CASE SpotsFail /\ UNCHANGED dataVars
  BY <1>6, <1>a, <1>b DEF SpotsFail, FetchFails, Return, FetchErrors, Array,
       dataVars, TypeOK, Errors
<1>7. CASE SpotsAnswer /\ UNCHANGED dataVars
  <2>1. /\ pc' \in {"spotRead", "hand", "keep", "copy", "pick"}
        /\ heap' \subseteq {"array", "bids", "asks"}
    BY <1>7, <1>a, <1>c DEF SpotsAnswer, Array, TypeOK
  <2> QED BY <1>7, <1>a, <2>1 DEF SpotsAnswer, dataVars, TypeOK
<1>8. CASE ReadSpot /\ UNCHANGED dataVars
  <2>1. \E id \in Nat : SpotRow(id) \in Rows /\ markets' = Append(markets,
       SpotRow(id))
    BY <1>8, SpotTyped, GarbageAssumption DEF ReadSpot, SpotRow, Rows
  <2>2. markets' \in Seq(Rows)
    BY <1>a, <2>1, AppendProperties DEF TypeOK
  <2> QED BY <1>8, <1>a, <2>2 DEF ReadSpot, dataVars, TypeOK
<1>9. CASE SkipSpot /\ UNCHANGED dataVars
  BY <1>9, <1>a, <1>b DEF SkipSpot, dataVars, TypeOK, Errors
<1>10. CASE SpotsRead /\ UNCHANGED dataVars
  BY <1>10, <1>a, <1>b, <1>c DEF SpotsRead, dataVars, TypeOK, Errors
<1>11. CASE Hand /\ UNCHANGED dataVars
  BY <1>11, <1>a, <1>b DEF Hand, Array, dataVars, TypeOK, Errors
<1>12. CASE Keep /\ UNCHANGED dataVars
  BY <1>12, <1>a, <1>b DEF Keep, Return, Array, dataVars, TypeOK, Errors
<1>13. CASE KeepFails /\ UNCHANGED dataVars
  BY <1>13, <1>a, <1>b DEF KeepFails, Return, dataVars, TypeOK, Errors
<1>14. CASE CopyCoin
  BY <1>14, <1>a, SymTyped DEF CopyCoin, CallInv, LookSteps, fetched, results,
       TypeOK
<1>15. CASE ScanHit
  BY <1>15, <1>a, <1>b, RowTyped DEF ScanHit, fetched, results, TypeOK, Errors
<1>16. CASE ScanMiss
  BY <1>16, <1>a, <1>b DEF ScanMiss, fetched, results, TypeOK, Errors
<1>17. CASE ScanEnds
  BY <1>17, <1>a, <1>b DEF ScanEnds, Leave, Return, fetched, results, TypeOK, Errors
<1>18. CASE Match
  <2>1. CASE hl_get_market(markets, call.sym) = {}
    BY <1>18, <1>a, <1>b, <2>1 DEF Match, Leave, Return, fetched, results, TypeOK,
         Errors
  <2>2. CASE hl_get_market(markets, call.sym) # {}
    BY <1>18, <1>a, <2>2 DEF Match, fetched, results, TypeOK
  <2> QED BY <2>1, <2>2
<1>19. CASE PostBook
  BY <1>19, <1>a, <1>b DEF PostBook, fetched, results, TypeOK, Errors
<1>20. CASE BookFails
  BY <1>20, <1>a, <1>b DEF BookFails, Leave, Return, fetched, results, TypeOK,
       Errors
<1>21. CASE BookAnswers
  BY <1>21, <1>a, <1>b DEF BookAnswers, fetched, results, TypeOK, Errors
<1>22. CASE ReadBids
  BY <1>22, <1>a, <1>b DEF ReadBids, Block, fetched, results, TypeOK, Errors
<1>23. CASE ReadAsks
  BY <1>23, <1>a, <1>b DEF ReadAsks, Leave, Return, fetched, results, TypeOK, Errors
<1>24. ASSUME NEW side \in Sides, SideFails(side)
      PROVE  TypeOK'
  BY <1>24, <1>a, <1>b DEF SideFails, Leave, Return, fetched, results, TypeOK,
       Errors
<1>25. CASE PostCandles
  BY <1>25, <1>a, <1>b DEF PostCandles, fetched, results, TypeOK, Errors
<1>26. CASE CandlesFail
  BY <1>26, <1>a, <1>b DEF CandlesFail, Leave, Return, fetched, results, TypeOK,
       Errors
<1>27. CASE ReadCandles
  BY <1>27, <1>a, <1>b DEF ReadCandles, Leave, Return, fetched, results, TypeOK,
       Errors
<1>28. CASE FindTicker
  <2>1. ticker' \in Coins \cup {None}
    <3>1. \A r \in hl_get_market(markets, call.sym) : r.ctx \in Coins
      BY <1>a, MarketFits, RowTyped DEF TypeOK
    <3> QED BY <1>28, <1>a, <3>1 DEF FindTicker, results, TypeOK
  <2>2. \E e \in {"notfound", "success"} : Leave(e, Array,
       {}) /\ UNCHANGED <<fetched, at>>
    BY <1>28 DEF FindTicker
  <2> QED BY <1>a, <1>b, <2>1, <2>2 DEF Leave, Return, fetched, TypeOK, Errors
<1>29. CASE Pick
  BY <1>29, <1>a, <1>b, PickedTyped DEF Pick, Leave, Return, fetched, results,
       TypeOK, Errors
<1>30. CASE SignFails
  BY <1>30, <1>a, <1>b DEF SignFails, Leave, Return, fetched, results, TypeOK,
       Errors
<1>31. CASE PostUpdate
  BY <1>31, <1>a, <1>b DEF PostUpdate, fetched, results, TypeOK, Errors
<1>32. CASE UpdateAnswers
  BY <1>32, <1>a, <1>b DEF UpdateAnswers, Leave, Return, fetched, results, TypeOK,
       Errors
<1>33. CASE NewClient /\ Dropped
  BY <1>33, <1>a, <1>b DEF NewClient, Dropped, TypeOK, Errors
<1>34. CASE FreeClient /\ Dropped
  BY <1>34, <1>a, <1>b DEF FreeClient, Dropped, TypeOK, Errors
<1>35. CASE FetchMarkets /\ Dropped
  BY <1>35, <1>a, <1>b DEF FetchMarkets, Enter, Dropped, TypeOK, Errors
<1>36. CASE LoadMarkets /\ Dropped
  BY <1>36, <1>a, <1>b DEF LoadMarkets, Enter, Dropped, Errors, TypeOK, Errors
<1>37. CASE List /\ UNCHANGED dataVars
  BY <1>37, <1>a, <1>b, AppendProperties DEF List, dataVars, TypeOK, Errors
<1>38. CASE DataCalls
  <2>1. PICK c, step : Begun(c, step) /\ Begin(c, step) /\ err' \in {err, "params", "auth"}
    BY <1>38, DataCalled
  <2> QED BY <1>a, <1>b, <2>1 DEF TypeOK, Begun, Begin, Enter, Dropped, Errors
<1>39. CASE Intrude
  BY <1>39, <1>a, <1>b DEF Intrude, marketVars, results, TypeOK, Errors
<1>40. CASE UNCHANGED vars
  BY <1>40, <1>a DEF TypeOK, vars, marketVars, dataVars
<1> QED
  BY <1>1, <1>2, <1>3, <1>4, <1>5, <1>6, <1>7, <1>8, <1>9, <1>10, <1>11, <1>12,
       <1>13, <1>14, <1>15, <1>16, <1>17, <1>18, <1>19, <1>20, <1>21, <1>22, <1>23,
            <1>24, <1>25, <1>26, <1>27, <1>28, <1>29, <1>30, <1>31, <1>32, <1>33,
                 <1>34, <1>35, <1>36, <1>37, <1>38, <1>39, <1>40
  DEF Next, Step, MarketSteps, Fetching, DataSteps, MarketCalls

\* Every step keeps which call is at which step.
LEMMA CallStep ==
  ASSUME IInv, [Next]_vars
  PROVE  CallInv'
<1>a. CallInv /\ CallShape
  BY DEF IInv, CallInv
<1>b. UNCHANGED call => CallShape'
  BY <1>a DEF CallShape
<1>c. pc \in {"spotPost", "spotRead"} =>
        /\ Then \in {"hand", "keep", "copy", "pick"}
        /\ Then = "hand" => call.op = "fetch"
        /\ Then = "keep" => call.op = "load"
        /\ Then = "copy" => call.op \in {"book", "candles"}
        /\ Then = "pick" => call.op \in Shrugs
  BY <1>a, ThenTyped DEF CallInv, FetchSteps
<1>1. CASE SwapsFail /\ UNCHANGED dataVars
  BY <1>1, <1>a, <1>b DEF SwapsFail, FetchFails, Return, FetchErrors, Array,
       dataVars, CallInv, FetchSteps, LookSteps
<1>2. CASE SwapsAnswer /\ UNCHANGED dataVars
  BY <1>2, <1>a, <1>b DEF SwapsAnswer, AfterSwaps, Array, dataVars, CallInv,
       FetchSteps, LookSteps
<1>3. CASE ReadSwap /\ UNCHANGED dataVars
  BY <1>3, <1>a, <1>b DEF ReadSwap, SwapRow, dataVars, CallInv, FetchSteps,
       LookSteps
<1>4. CASE SkipSwap /\ UNCHANGED dataVars
  BY <1>4, <1>a, <1>b DEF SkipSwap, dataVars, CallInv, FetchSteps, LookSteps
<1>5. CASE SwapsRead /\ UNCHANGED dataVars
  BY <1>5, <1>a, <1>b DEF SwapsRead, AfterSwaps, dataVars, CallInv, FetchSteps,
       LookSteps
<1>6. CASE SpotsFail /\ UNCHANGED dataVars
  BY <1>6, <1>a, <1>b DEF SpotsFail, FetchFails, Return, FetchErrors, Array,
       dataVars, CallInv, FetchSteps, LookSteps
<1>7. CASE SpotsAnswer /\ UNCHANGED dataVars
  BY <1>7, <1>a, <1>b, <1>c DEF SpotsAnswer, Array, dataVars, CallInv, FetchSteps,
       LookSteps
<1>8. CASE ReadSpot /\ UNCHANGED dataVars
  BY <1>8, <1>a, <1>b DEF ReadSpot, SpotRow, dataVars, CallInv, FetchSteps,
       LookSteps
<1>9. CASE SkipSpot /\ UNCHANGED dataVars
  BY <1>9, <1>a, <1>b DEF SkipSpot, dataVars, CallInv, FetchSteps, LookSteps
<1>10. CASE SpotsRead /\ UNCHANGED dataVars
  BY <1>10, <1>a, <1>b, <1>c DEF SpotsRead, dataVars, CallInv, FetchSteps, LookSteps
<1>11. CASE Hand /\ UNCHANGED dataVars
  BY <1>11, <1>a, <1>b DEF Hand, Array, dataVars, CallInv, FetchSteps, LookSteps
<1>12. CASE Keep /\ UNCHANGED dataVars
  BY <1>12, <1>a, <1>b DEF Keep, Return, Array, dataVars, CallInv, FetchSteps,
       LookSteps
<1>13. CASE KeepFails /\ UNCHANGED dataVars
  BY <1>13, <1>a, <1>b DEF KeepFails, Return, dataVars, CallInv, FetchSteps,
       LookSteps
<1>14. CASE CopyCoin
  BY <1>14, <1>a, <1>b DEF CopyCoin, fetched, results, CallInv, FetchSteps,
       LookSteps
<1>15. CASE ScanHit
  BY <1>15, <1>a, <1>b DEF ScanHit, fetched, results, CallInv, FetchSteps, LookSteps
<1>16. CASE ScanMiss
  BY <1>16, <1>a, <1>b DEF ScanMiss, fetched, results, CallInv, FetchSteps,
       LookSteps
<1>17. CASE ScanEnds
  BY <1>17, <1>a, <1>b DEF ScanEnds, Leave, Return, fetched, results, CallInv,
       FetchSteps, LookSteps
<1>18. CASE Match
  BY <1>18, <1>a, <1>b DEF Match, Leave, Return, fetched, results, CallInv,
       FetchSteps, LookSteps
<1>19. CASE PostBook
  <2>1. call \in BookCalls
    BY <1>19, <1>a DEF PostBook, CallShape, NamedCalls, BookCalls, CandleCalls,
         TickerCalls, LeverageCalls, MarginCalls
  <2>2. call' \in BookCalls
    BY <1>19, <2>1, TimeAssumption DEF PostBook, BookCalls
  <2>3. CallShape' /\ call'.op = "book"
    BY <2>2 DEF CallShape, BookCalls
  <2> QED BY <1>19, <2>3 DEF PostBook, CallInv, FetchSteps, LookSteps
<1>20. CASE BookFails
  BY <1>20, <1>a, <1>b DEF BookFails, Leave, Return, fetched, results, CallInv,
       FetchSteps, LookSteps
<1>21. CASE BookAnswers
  BY <1>21, <1>a, <1>b DEF BookAnswers, fetched, results, CallInv, FetchSteps,
       LookSteps
<1>22. CASE ReadBids
  BY <1>22, <1>a, <1>b DEF ReadBids, Block, fetched, results, CallInv, FetchSteps,
       LookSteps
<1>23. CASE ReadAsks
  BY <1>23, <1>a, <1>b DEF ReadAsks, Leave, Return, fetched, results, CallInv,
       FetchSteps, LookSteps
<1>24. ASSUME NEW side \in Sides, SideFails(side)
      PROVE  CallInv'
  BY <1>24, <1>a, <1>b DEF SideFails, Leave, Return, fetched, results, CallInv,
       FetchSteps, LookSteps
<1>25. CASE PostCandles
  <2>1. call \in CandleCalls
    BY <1>25, <1>a DEF PostCandles, CallShape, NamedCalls, BookCalls, CandleCalls,
         TickerCalls, LeverageCalls, MarginCalls
  <2>2. call' \in CandleCalls
    <3>1. PICK n \in (0..MaxLimit) \cup {None}, since \in {None, 1},
         until \in 0..MaxTime :
            call' = [call EXCEPT !.limit = n, !.since = since, !.until = until]
      BY <1>25 DEF PostCandles
    <3>2. n \in Nat \cup {None} /\ since \in Nat \cup {None} /\ until \in Nat
      BY <3>1, TimeAssumption
    <3> QED BY <2>1, <3>1, <3>2 DEF CandleCalls
  <2>3. CallShape' /\ call'.op = "candles"
    BY <2>2 DEF CallShape, CandleCalls
  <2> QED BY <1>25, <2>3 DEF PostCandles, CallInv, FetchSteps, LookSteps
<1>26. CASE CandlesFail
  BY <1>26, <1>a, <1>b DEF CandlesFail, Leave, Return, fetched, results, CallInv,
       FetchSteps, LookSteps
<1>27. CASE ReadCandles
  BY <1>27, <1>a, <1>b DEF ReadCandles, Leave, Return, fetched, results, CallInv,
       FetchSteps, LookSteps
<1>28. CASE FindTicker
  BY <1>28, <1>a, <1>b DEF FindTicker, Leave, Return, fetched, results, CallInv,
       FetchSteps, LookSteps
<1>29. CASE Pick
  BY <1>29, <1>a, <1>b DEF Pick, Leave, Return, fetched, results, CallInv,
       FetchSteps, LookSteps
<1>30. CASE SignFails
  BY <1>30, <1>a, <1>b DEF SignFails, Leave, Return, fetched, results, CallInv,
       FetchSteps, LookSteps
<1>31. CASE PostUpdate
  BY <1>31, <1>a, <1>b DEF PostUpdate, fetched, results, CallInv, FetchSteps,
       LookSteps
<1>32. CASE UpdateAnswers
  BY <1>32, <1>a, <1>b DEF UpdateAnswers, Leave, Return, fetched, results, CallInv,
       FetchSteps, LookSteps
<1>33. CASE NewClient /\ Dropped
  BY <1>33, <1>a, <1>b DEF NewClient, CallInv, FetchSteps, LookSteps
<1>34. CASE FreeClient /\ Dropped
  BY <1>34 DEF FreeClient, CallInv, CallShape, NamedCalls, FetchSteps, LookSteps
<1>35. CASE FetchMarkets /\ Dropped
  BY <1>35 DEF FetchMarkets, Enter, CallInv, CallShape, NamedCalls, FetchSteps,
       LookSteps
<1>36. CASE LoadMarkets /\ Dropped
  BY <1>36 DEF LoadMarkets, Enter, CallInv, CallShape, NamedCalls, FetchSteps,
       LookSteps
<1>37. CASE List /\ UNCHANGED dataVars
  BY <1>37, <1>a, <1>b DEF List, dataVars, CallInv, FetchSteps, LookSteps
<1>38. CASE DataCalls
  <2>1. PICK c, step : Begun(c, step) /\ Begin(c, step)
    BY <1>38, DataCalled
  <2>2. CallShape' /\ call'.op # "none"
    BY <2>1 DEF Begun, Begin, Enter, SymbolCalls, CallShape, BookCalls,
         CandleCalls, TickerCalls, LeverageCalls, MarginCalls
  <2> QED BY <2>1, <2>2 DEF Begun, Begin, Enter, CallInv, FetchSteps, LookSteps
<1>39. CASE Intrude
  BY <1>39, <1>a, <1>b DEF Intrude, marketVars, results, CallInv, FetchSteps,
       LookSteps
<1>40. CASE UNCHANGED vars
  BY <1>40, <1>a, <1>b DEF CallInv, vars, marketVars
<1> QED
  BY <1>1, <1>2, <1>3, <1>4, <1>5, <1>6, <1>7, <1>8, <1>9, <1>10, <1>11, <1>12,
       <1>13, <1>14, <1>15, <1>16, <1>17, <1>18, <1>19, <1>20, <1>21, <1>22, <1>23,
            <1>24, <1>25, <1>26, <1>27, <1>28, <1>29, <1>30, <1>31, <1>32, <1>33,
                 <1>34, <1>35, <1>36, <1>37, <1>38, <1>39, <1>40
  DEF Next, Step, MarketSteps, Fetching, DataSteps, MarketCalls

\* Every step keeps what a call holds.
LEMMA HeapStep ==
  ASSUME IInv, [Next]_vars
  PROVE  HeapInv'
<1>a. HeapInv /\ (pc = "swapPost" => markets = <<>>)
  BY DEF IInv, RowsInv
<1>c. pc \in {"spotPost", "spotRead"} => Then \in {"hand", "keep", "copy", "pick"}
  BY ThenTyped DEF IInv, CallInv, FetchSteps
<1>1. CASE SwapsFail /\ UNCHANGED dataVars
  BY <1>1, <1>a DEF SwapsFail, FetchFails, Return, FetchErrors, dataVars, HeapInv,
       Array
<1>2. CASE SwapsAnswer /\ UNCHANGED dataVars
  BY <1>2, <1>a DEF SwapsAnswer, AfterSwaps, dataVars, HeapInv, Array
<1>3. CASE ReadSwap /\ UNCHANGED dataVars
  BY <1>3, <1>a DEF ReadSwap, SwapRow, dataVars, HeapInv, Array
<1>4. CASE SkipSwap /\ UNCHANGED dataVars
  BY <1>4, <1>a DEF SkipSwap, dataVars, HeapInv, Array
<1>5. CASE SwapsRead /\ UNCHANGED dataVars
  BY <1>5, <1>a DEF SwapsRead, AfterSwaps, dataVars, HeapInv, Array
<1>6. CASE SpotsFail /\ UNCHANGED dataVars
  BY <1>6, <1>a DEF SpotsFail, FetchFails, Return, FetchErrors, dataVars, HeapInv,
       Array
<1>7. CASE SpotsAnswer /\ UNCHANGED dataVars
  BY <1>7, <1>a, <1>c DEF SpotsAnswer, dataVars, HeapInv, Array
<1>8. CASE ReadSpot /\ UNCHANGED dataVars
  BY <1>8, <1>a DEF ReadSpot, SpotRow, dataVars, HeapInv, Array
<1>9. CASE SkipSpot /\ UNCHANGED dataVars
  BY <1>9, <1>a DEF SkipSpot, dataVars, HeapInv, Array
<1>10. CASE SpotsRead /\ UNCHANGED dataVars
  BY <1>10, <1>a, <1>c DEF SpotsRead, dataVars, HeapInv, Array
<1>11. CASE Hand /\ UNCHANGED dataVars
  BY <1>11, <1>a DEF Hand, dataVars, HeapInv, Array
<1>12. CASE Keep /\ UNCHANGED dataVars
  BY <1>12, <1>a DEF Keep, Return, dataVars, HeapInv, Array
<1>13. CASE KeepFails /\ UNCHANGED dataVars
  BY <1>13, <1>a DEF KeepFails, Return, dataVars, HeapInv, Array
<1>14. CASE CopyCoin
  BY <1>14, <1>a DEF CopyCoin, fetched, results, HeapInv, Array
<1>15. CASE ScanHit
  BY <1>15, <1>a DEF ScanHit, fetched, results, HeapInv, Array
<1>16. CASE ScanMiss
  BY <1>16, <1>a DEF ScanMiss, fetched, results, HeapInv, Array
<1>17. CASE ScanEnds
  BY <1>17, <1>a DEF ScanEnds, Leave, Return, fetched, results, HeapInv, Array
<1>18. CASE Match
  BY <1>18, <1>a DEF Match, Leave, Return, fetched, results, HeapInv, Array
<1>19. CASE PostBook
  BY <1>19, <1>a DEF PostBook, fetched, results, HeapInv, Array
<1>20. CASE BookFails
  BY <1>20, <1>a DEF BookFails, Leave, Return, fetched, results, HeapInv, Array
<1>21. CASE BookAnswers
  BY <1>21, <1>a DEF BookAnswers, fetched, results, HeapInv, Array
<1>22. CASE ReadBids
  BY <1>22, <1>a DEF ReadBids, Block, fetched, results, HeapInv, Array
<1>23. CASE ReadAsks
  BY <1>23, <1>a DEF ReadAsks, Leave, Return, fetched, results, HeapInv, Array
<1>24. ASSUME NEW side \in Sides, SideFails(side)
      PROVE  HeapInv'
  BY <1>24, <1>a DEF SideFails, Leave, Return, fetched, results, HeapInv, Array
<1>25. CASE PostCandles
  BY <1>25, <1>a DEF PostCandles, fetched, results, HeapInv, Array
<1>26. CASE CandlesFail
  BY <1>26, <1>a DEF CandlesFail, Leave, Return, fetched, results, HeapInv, Array
<1>27. CASE ReadCandles
  BY <1>27, <1>a DEF ReadCandles, Leave, Return, fetched, results, HeapInv, Array
<1>28. CASE FindTicker
  BY <1>28, <1>a DEF FindTicker, Leave, Return, fetched, results, HeapInv, Array
<1>29. CASE Pick
  BY <1>29, <1>a DEF Pick, Leave, Return, fetched, results, HeapInv, Array
<1>30. CASE SignFails
  BY <1>30, <1>a DEF SignFails, Leave, Return, fetched, results, HeapInv, Array
<1>31. CASE PostUpdate
  BY <1>31, <1>a DEF PostUpdate, fetched, results, HeapInv, Array
<1>32. CASE UpdateAnswers
  BY <1>32, <1>a DEF UpdateAnswers, Leave, Return, fetched, results, HeapInv, Array
<1>33. CASE NewClient /\ Dropped
  BY <1>33, <1>a DEF NewClient, Dropped, HeapInv, Array
<1>34. CASE FreeClient /\ Dropped
  BY <1>34, <1>a DEF FreeClient, Dropped, HeapInv, Array
<1>35. CASE FetchMarkets /\ Dropped
  BY <1>35, <1>a DEF FetchMarkets, Enter, Dropped, HeapInv, Array
<1>36. CASE LoadMarkets /\ Dropped
  BY <1>36, <1>a DEF LoadMarkets, Enter, Dropped, HeapInv, Array
<1>37. CASE List /\ UNCHANGED dataVars
  BY <1>37, <1>a DEF List, dataVars, HeapInv, Array
<1>38. CASE DataCalls
  <2>1. PICK c, step : Begun(c, step) /\ Begin(c, step)
    BY <1>38, DataCalled
  <2> QED BY <1>a, <2>1 DEF Begun, Begin, Enter, HeapInv
<1>39. CASE Intrude
  BY <1>39, <1>a DEF Intrude, marketVars, results, HeapInv, Array
<1>40. CASE UNCHANGED vars
  BY <1>40, <1>a DEF HeapInv, vars, marketVars
<1> QED
  BY <1>1, <1>2, <1>3, <1>4, <1>5, <1>6, <1>7, <1>8, <1>9, <1>10, <1>11, <1>12,
       <1>13, <1>14, <1>15, <1>16, <1>17, <1>18, <1>19, <1>20, <1>21, <1>22, <1>23,
            <1>24, <1>25, <1>26, <1>27, <1>28, <1>29, <1>30, <1>31, <1>32, <1>33,
                 <1>34, <1>35, <1>36, <1>37, <1>38, <1>39, <1>40
  DEF Next, Step, MarketSteps, Fetching, DataSteps, MarketCalls

\* Every step keeps the record of what was lost.
LEMMA LeakStep ==
  ASSUME IInv, [Next]_vars
  PROVE  LeakInv'
<1>a. HeapInv /\ LeakInv
  BY DEF IInv
<1>c. pc \in {"spotPost", "spotRead"} => Then \in {"hand", "keep", "copy", "pick"}
  BY ThenTyped DEF IInv, CallInv, FetchSteps
<1>d. /\ pc = "keep" => call.op = "load"
      /\ pc = "bookWait" => call.op = "book"
      /\ heap \subseteq {"array"} => heap = {} \/ heap = {"array"}
  BY DEF IInv, CallInv
<1>1. CASE SwapsFail /\ UNCHANGED dataVars
  BY <1>1, <1>a DEF SwapsFail, FetchFails, Return, FetchErrors, dataVars, LeakInv,
       LeaksOnlyThere, HeapInv, Array
<1>2. CASE SwapsAnswer /\ UNCHANGED dataVars
  BY <1>2, <1>a DEF SwapsAnswer, AfterSwaps, dataVars, LeakInv, LeaksOnlyThere,
       HeapInv, Array
<1>3. CASE ReadSwap /\ UNCHANGED dataVars
  BY <1>3, <1>a DEF ReadSwap, SwapRow, dataVars, LeakInv, LeaksOnlyThere, HeapInv,
       Array
<1>4. CASE SkipSwap /\ UNCHANGED dataVars
  BY <1>4, <1>a DEF SkipSwap, dataVars, LeakInv, LeaksOnlyThere, HeapInv, Array
<1>5. CASE SwapsRead /\ UNCHANGED dataVars
  BY <1>5, <1>a DEF SwapsRead, AfterSwaps, dataVars, LeakInv, LeaksOnlyThere,
       HeapInv, Array
<1>6. CASE SpotsFail /\ UNCHANGED dataVars
  BY <1>6, <1>a DEF SpotsFail, FetchFails, Return, FetchErrors, dataVars, LeakInv,
       LeaksOnlyThere, HeapInv, Array
<1>7. CASE SpotsAnswer /\ UNCHANGED dataVars
  BY <1>7, <1>a, <1>c DEF SpotsAnswer, dataVars, LeakInv, LeaksOnlyThere, HeapInv,
       Array
<1>8. CASE ReadSpot /\ UNCHANGED dataVars
  BY <1>8, <1>a DEF ReadSpot, SpotRow, dataVars, LeakInv, LeaksOnlyThere, HeapInv,
       Array
<1>9. CASE SkipSpot /\ UNCHANGED dataVars
  BY <1>9, <1>a DEF SkipSpot, dataVars, LeakInv, LeaksOnlyThere, HeapInv, Array
<1>10. CASE SpotsRead /\ UNCHANGED dataVars
  BY <1>10, <1>a, <1>c DEF SpotsRead, dataVars, LeakInv, LeaksOnlyThere, HeapInv,
       Array
<1>11. CASE Hand /\ UNCHANGED dataVars
  BY <1>11, <1>a DEF Hand, dataVars, LeakInv, LeaksOnlyThere, HeapInv, Array
<1>12. CASE Keep /\ UNCHANGED dataVars
  BY <1>12, <1>a, <1>d DEF Keep, Return, dataVars, LeakInv, LeaksOnlyThere,
       HeapInv, Array
<1>13. CASE KeepFails /\ UNCHANGED dataVars
  BY <1>13, <1>a, <1>d DEF KeepFails, Return, dataVars, LeakInv, LeaksOnlyThere,
       HeapInv, Array
<1>14. CASE CopyCoin
  BY <1>14, <1>a DEF CopyCoin, fetched, results, LeakInv, LeaksOnlyThere, HeapInv,
       Array
<1>15. CASE ScanHit
  BY <1>15, <1>a DEF ScanHit, fetched, results, LeakInv, LeaksOnlyThere, HeapInv,
       Array
<1>16. CASE ScanMiss
  BY <1>16, <1>a DEF ScanMiss, fetched, results, LeakInv, LeaksOnlyThere, HeapInv,
       Array
<1>17. CASE ScanEnds
  BY <1>17, <1>a DEF ScanEnds, Leave, Return, fetched, results, LeakInv,
       LeaksOnlyThere, HeapInv, Array
<1>18. CASE Match
  BY <1>18, <1>a DEF Match, Leave, Return, fetched, results, LeakInv,
       LeaksOnlyThere, HeapInv, Array
<1>19. CASE PostBook
  <2>1. call'.op = "book"
    BY <1>19, CallStep DEF PostBook, CallInv
  <2> QED BY <1>19, <1>a, <2>1 DEF PostBook, LeakInv, LeaksOnlyThere, HeapInv
<1>20. CASE BookFails
  BY <1>20, <1>a, <1>d DEF BookFails, Leave, Return, fetched, results, LeakInv,
       LeaksOnlyThere, HeapInv, Array
<1>21. CASE BookAnswers
  BY <1>21, <1>a DEF BookAnswers, fetched, results, LeakInv, LeaksOnlyThere,
       HeapInv, Array
<1>22. CASE ReadBids
  BY <1>22, <1>a DEF ReadBids, Block, fetched, results, LeakInv, LeaksOnlyThere,
       HeapInv, Array
<1>23. CASE ReadAsks
  BY <1>23, <1>a DEF ReadAsks, Leave, Return, fetched, results, Sides, LeakInv,
       LeaksOnlyThere, HeapInv, Array
<1>24. ASSUME NEW side \in Sides, SideFails(side)
      PROVE  LeakInv'
  BY <1>24, <1>a DEF SideFails, Leave, Return, fetched, results, Sides, LeakInv,
       LeaksOnlyThere, HeapInv, Array
<1>25. CASE PostCandles
  <2>1. call'.op = "candles"
    BY <1>25, CallStep DEF PostCandles, CallInv
  <2> QED BY <1>25, <1>a, <2>1 DEF PostCandles, LeakInv, LeaksOnlyThere, HeapInv
<1>26. CASE CandlesFail
  BY <1>26, <1>a DEF CandlesFail, Leave, Return, fetched, results, LeakInv,
       LeaksOnlyThere, HeapInv, Array
<1>27. CASE ReadCandles
  BY <1>27, <1>a DEF ReadCandles, Leave, Return, fetched, results, LeakInv,
       LeaksOnlyThere, HeapInv, Array
<1>28. CASE FindTicker
  BY <1>28, <1>a DEF FindTicker, Leave, Return, fetched, results, LeakInv,
       LeaksOnlyThere, HeapInv, Array
<1>29. CASE Pick
  BY <1>29, <1>a DEF Pick, Leave, Return, fetched, results, LeakInv,
       LeaksOnlyThere, HeapInv, Array
<1>30. CASE SignFails
  BY <1>30, <1>a DEF SignFails, Leave, Return, fetched, results, LeakInv,
       LeaksOnlyThere, HeapInv, Array
<1>31. CASE PostUpdate
  BY <1>31, <1>a DEF PostUpdate, fetched, results, LeakInv, LeaksOnlyThere,
       HeapInv, Array
<1>32. CASE UpdateAnswers
  BY <1>32, <1>a DEF UpdateAnswers, Leave, Return, fetched, results, LeakInv,
       LeaksOnlyThere, HeapInv, Array
<1>33. CASE NewClient /\ Dropped
  BY <1>33, <1>a DEF NewClient, Dropped, LeakInv, LeaksOnlyThere, HeapInv, Array
<1>34. CASE FreeClient /\ Dropped
  BY <1>34, <1>a DEF FreeClient, Dropped, LeakInv, LeaksOnlyThere, HeapInv, Array
<1>35. CASE FetchMarkets /\ Dropped
  BY <1>35, <1>a DEF FetchMarkets, Enter, Dropped, LeakInv, LeaksOnlyThere,
       HeapInv, Array
<1>36. CASE LoadMarkets /\ Dropped
  BY <1>36, <1>a DEF LoadMarkets, Enter, Dropped, LeakInv, LeaksOnlyThere, HeapInv,
       Array
<1>37. CASE List /\ UNCHANGED dataVars
  BY <1>37, <1>a DEF List, dataVars, LeakInv, LeaksOnlyThere, HeapInv, Array
<1>38. CASE DataCalls
  <2>1. PICK c, step : Begun(c, step) /\ Begin(c, step)
    BY <1>38, DataCalled
  <2>2. c.op # "load"
    BY <2>1 DEF Begun, SymbolCalls, BookCalls, CandleCalls, TickerCalls,
         LeverageCalls, MarginCalls
  <2> QED BY <1>a, <2>1, <2>2 DEF Begin, Enter, LeakInv, LeaksOnlyThere
<1>39. CASE Intrude
  BY <1>39, <1>a DEF Intrude, marketVars, results, LeakInv, LeaksOnlyThere,
       HeapInv, Array
<1>40. CASE UNCHANGED vars
  BY <1>40, <1>a DEF LeakInv, LeaksOnlyThere, vars, marketVars
<1> QED
  BY <1>1, <1>2, <1>3, <1>4, <1>5, <1>6, <1>7, <1>8, <1>9, <1>10, <1>11, <1>12,
       <1>13, <1>14, <1>15, <1>16, <1>17, <1>18, <1>19, <1>20, <1>21, <1>22, <1>23,
            <1>24, <1>25, <1>26, <1>27, <1>28, <1>29, <1>30, <1>31, <1>32, <1>33,
                 <1>34, <1>35, <1>36, <1>37, <1>38, <1>39, <1>40
  DEF Next, Step, MarketSteps, Fetching, DataSteps, MarketCalls

\* Every step keeps the memory of the client owned.
LEMMA OwnedStep ==
  ASSUME IInv, [Next]_vars
  PROVE  ClientOwned'
<1>a. ClientOwned
  BY DEF IInv
<1>c. pc \in {"spotPost", "spotRead"} => Then \in {"hand", "keep", "copy", "pick"}
  BY ThenTyped DEF IInv, CallInv, FetchSteps
<1>d. markets # None /\ ((pc = "keep" /\ markets # <<>>) => "array" \in heap)
  BY RowsAssumption DEF IInv, TypeOK, HeapInv
<1>1. CASE SwapsFail /\ UNCHANGED dataVars
  BY <1>1, <1>a DEF SwapsFail, FetchFails, Return, FetchErrors, Array, dataVars,
       ClientOwned
<1>2. CASE SwapsAnswer /\ UNCHANGED dataVars
  BY <1>2, <1>a DEF SwapsAnswer, AfterSwaps, Array, dataVars, ClientOwned
<1>3. CASE ReadSwap /\ UNCHANGED dataVars
  BY <1>3, <1>a DEF ReadSwap, SwapRow, dataVars, ClientOwned
<1>4. CASE SkipSwap /\ UNCHANGED dataVars
  BY <1>4, <1>a DEF SkipSwap, dataVars, ClientOwned
<1>5. CASE SwapsRead /\ UNCHANGED dataVars
  BY <1>5, <1>a DEF SwapsRead, AfterSwaps, dataVars, ClientOwned
<1>6. CASE SpotsFail /\ UNCHANGED dataVars
  BY <1>6, <1>a DEF SpotsFail, FetchFails, Return, FetchErrors, Array, dataVars,
       ClientOwned
<1>7. CASE SpotsAnswer /\ UNCHANGED dataVars
  BY <1>7, <1>a, <1>c DEF SpotsAnswer, Array, dataVars, ClientOwned
<1>8. CASE ReadSpot /\ UNCHANGED dataVars
  BY <1>8, <1>a DEF ReadSpot, SpotRow, dataVars, ClientOwned
<1>9. CASE SkipSpot /\ UNCHANGED dataVars
  BY <1>9, <1>a DEF SkipSpot, dataVars, ClientOwned
<1>10. CASE SpotsRead /\ UNCHANGED dataVars
  BY <1>10, <1>a, <1>c DEF SpotsRead, dataVars, ClientOwned
<1>11. CASE Hand /\ UNCHANGED dataVars
  BY <1>11, <1>a DEF Hand, Array, dataVars, ClientOwned
<1>12. CASE Keep /\ UNCHANGED dataVars
  BY <1>12, <1>a, <1>d DEF Keep, Return, Array, dataVars, ClientOwned
<1>13. CASE KeepFails /\ UNCHANGED dataVars
  BY <1>13, <1>a DEF KeepFails, Return, dataVars, ClientOwned
<1>14. CASE CopyCoin
  BY <1>14, <1>a DEF CopyCoin, fetched, results, ClientOwned
<1>15. CASE ScanHit
  BY <1>15, <1>a DEF ScanHit, fetched, results, ClientOwned
<1>16. CASE ScanMiss
  BY <1>16, <1>a DEF ScanMiss, fetched, results, ClientOwned
<1>17. CASE ScanEnds
  BY <1>17, <1>a DEF ScanEnds, Leave, Return, fetched, results, ClientOwned
<1>18. CASE Match
  BY <1>18, <1>a DEF Match, Leave, Return, fetched, results, ClientOwned
<1>19. CASE PostBook
  BY <1>19, <1>a DEF PostBook, fetched, results, ClientOwned
<1>20. CASE BookFails
  BY <1>20, <1>a DEF BookFails, Leave, Return, fetched, results, ClientOwned
<1>21. CASE BookAnswers
  BY <1>21, <1>a DEF BookAnswers, fetched, results, ClientOwned
<1>22. CASE ReadBids
  BY <1>22, <1>a DEF ReadBids, Block, fetched, results, ClientOwned
<1>23. CASE ReadAsks
  BY <1>23, <1>a DEF ReadAsks, Leave, Return, fetched, results, ClientOwned
<1>24. ASSUME NEW side \in Sides, SideFails(side)
      PROVE  ClientOwned'
  BY <1>24, <1>a DEF SideFails, Leave, Return, fetched, results, ClientOwned
<1>25. CASE PostCandles
  BY <1>25, <1>a DEF PostCandles, fetched, results, ClientOwned
<1>26. CASE CandlesFail
  BY <1>26, <1>a DEF CandlesFail, Leave, Return, fetched, results, ClientOwned
<1>27. CASE ReadCandles
  BY <1>27, <1>a DEF ReadCandles, Leave, Return, fetched, results, ClientOwned
<1>28. CASE FindTicker
  BY <1>28, <1>a DEF FindTicker, Leave, Return, fetched, results, ClientOwned
<1>29. CASE Pick
  BY <1>29, <1>a DEF Pick, Leave, Return, fetched, results, ClientOwned
<1>30. CASE SignFails
  BY <1>30, <1>a DEF SignFails, Leave, Return, fetched, results, ClientOwned
<1>31. CASE PostUpdate
  BY <1>31, <1>a DEF PostUpdate, fetched, results, ClientOwned
<1>32. CASE UpdateAnswers
  BY <1>32, <1>a DEF UpdateAnswers, Leave, Return, fetched, results, ClientOwned
<1>33. CASE NewClient /\ Dropped
  BY <1>33, <1>a DEF NewClient, Dropped, ClientOwned
<1>34. CASE FreeClient /\ Dropped
  BY <1>34, <1>a DEF FreeClient, Dropped, ClientOwned
<1>35. CASE FetchMarkets /\ Dropped
  BY <1>35, <1>a DEF FetchMarkets, Enter, Dropped, ClientOwned
<1>36. CASE LoadMarkets /\ Dropped
  BY <1>36, <1>a DEF LoadMarkets, Enter, Dropped, ClientOwned
<1>37. CASE List /\ UNCHANGED dataVars
  BY <1>37, <1>a DEF List, dataVars, ClientOwned
<1>38. CASE DataCalls
  <2>1. PICK c, step : Begun(c, step) /\ Begin(c, step)
    BY <1>38, DataCalled
  <2> QED BY <1>a, <2>1 DEF Begun, Begin, Enter, ClientOwned
<1>39. CASE Intrude
  BY <1>39, <1>a DEF Intrude, marketVars, results, ClientOwned
<1>40. CASE UNCHANGED vars
  BY <1>40, <1>a DEF ClientOwned, vars, marketVars
<1> QED
  BY <1>1, <1>2, <1>3, <1>4, <1>5, <1>6, <1>7, <1>8, <1>9, <1>10, <1>11, <1>12,
       <1>13, <1>14, <1>15, <1>16, <1>17, <1>18, <1>19, <1>20, <1>21, <1>22, <1>23,
            <1>24, <1>25, <1>26, <1>27, <1>28, <1>29, <1>30, <1>31, <1>32, <1>33,
                 <1>34, <1>35, <1>36, <1>37, <1>38, <1>39, <1>40
  DEF Next, Step, MarketSteps, Fetching, DataSteps, MarketCalls

-----------------------------------------------------------------------------
(* The rows. *)

\* No rows are sound.
LEMMA SoundEmpty == \A lst : Sound(<<>>, lst)
BY DEF Sound

\* Rows of earlier positions, with the row of this one, are earlier than the next.
LEMMA BelowGrows ==
  ASSUME NEW rows \in Seq(Rows), NEW r \in Rows, Below(rows, r.id)
  PROVE  Below(Append(rows, r), r.id + 1)
<1>1. /\ Len(rows) \in Nat /\ DOMAIN rows = 1..Len(rows)
      /\ DOMAIN Append(rows, r) = 1..(Len(rows) + 1)
      /\ \A k \in DOMAIN rows : Append(rows, r)[k] = rows[k]
      /\ Append(rows, r)[Len(rows) + 1] = r
  BY AppendProperties, LenProperties
<1>2. r.id \in Nat
  BY DEF Rows
<1>3. ASSUME NEW i \in DOMAIN Append(rows, r)
      PROVE  Append(rows, r)[i].id < r.id + 1
  <2>1. CASE i = Len(rows) + 1
    BY <1>1, <1>2, <2>1
  <2>2. CASE i # Len(rows) + 1
    <3>1. i \in DOMAIN rows /\ Append(rows, r)[i] = rows[i]
      BY <1>1, <2>2
    <3>2. rows[i].id \in Nat /\ rows[i].id < r.id
      BY <3>1, RowTyped DEF Below
    <3> QED BY <1>2, <3>1, <3>2
  <2> QED BY <2>1, <2>2
<1> QED BY <1>3 DEF Below

\* Most steps forget rows at the utmost.
RowsFrame ==
  /\ UNCHANGED listing
  /\ markets' \in {markets, <<>>}
  /\ CachedRows' \in {CachedRows, <<>>}
  /\ pc' \notin {"swapPost", "swapRead", "ticker"}

\* Such steps keep the rows sound.
LEMMA RowsKept ==
  ASSUME RowsInv, RowsFrame
  PROVE  RowsInv'
BY SoundEmpty DEF RowsInv, RowsFrame, SpotsListed

\* Every step keeps the rows sound.
LEMMA RowsStep ==
  ASSUME IInv, [Next]_vars
  PROVE  RowsInv'
<1>a. TypeOK /\ RowsInv
  BY DEF IInv
<1>c. pc \in {"spotPost", "spotRead"} => Then \in {"hand", "keep", "copy", "pick"}
  BY ThenTyped DEF IInv, CallInv, FetchSteps
<1>1. CASE SwapsFail /\ UNCHANGED dataVars
  <2>1. RowsFrame
    BY <1>1 DEF RowsFrame, SwapsFail, FetchFails, Return, FetchErrors, Array,
         CachedRows
  <2> QED BY <2>1, <1>a, RowsKept
<1>2. CASE SwapsAnswer /\ UNCHANGED dataVars
  <2>1. /\ UNCHANGED <<listing, markets>> /\ CachedRows' = CachedRows /\ markets = <<>>
        /\ reply' = listing /\ at' = 1 /\ pc' \in {"swapRead", "ticker", "spotPost"}
    BY <1>2, <1>a DEF SwapsAnswer, AfterSwaps, RowsInv, CachedRows
  <2>2. Prefix(reply', listing') /\ Below(markets', at' - 1) /\ OnlySwaps(markets')
    BY <2>1 DEF Prefix, Below, OnlySwaps
  <2> QED BY <2>1, <2>2, <1>a DEF RowsInv
<1>3. CASE ReadSwap /\ UNCHANGED dataVars
  <2>1. /\ UNCHANGED <<listing, reply, pc>> /\ CachedRows' = CachedRows /\ pc = "swapRead"
        /\ at \in DOMAIN reply /\ markets' = Append(markets, SwapRow) /\ at' = at + 1
    BY <1>3 DEF ReadSwap, CachedRows
  <2>2. /\ at \in Nat \ {0} /\ reply[at] \in Coins /\ at \in DOMAIN listing
        /\ reply[at] = listing[at]
    BY <2>1, <1>a, ElementOfSeq, LenProperties DEF RowsInv, Prefix, TypeOK
  <2>3. /\ SwapRow \in Rows /\ SwapRow.id = at - 1 /\ SwapRow.type = "swap"
        /\ SwapRow.ctx = SwapRow.base /\ Lists(listing, SwapRow.id, SwapRow.base)
    BY <2>2 DEF SwapRow, Rows, Lists
  <2>4. OnlySwaps(markets) /\ Below(markets, SwapRow.id) /\ Sound(markets, listing)
    BY <2>1, <2>3, <1>a DEF RowsInv
  <2> HIDE DEF SwapRow
  <2>5. Sound(markets', listing) /\ OnlySwaps(markets')
    BY <2>1, <2>3, <2>4, <1>a, SoundSwap DEF TypeOK
  <2>6. Below(markets', at' - 1)
    BY <2>1, <2>2, <2>3, <2>4, <1>a, BelowGrows DEF TypeOK
  <2>7. SpotsListed(markets')
    BY <2>1, <2>5 DEF OnlySwaps, SpotsListed
  <2> QED BY <2>1, <2>5, <2>6, <2>7, <1>a DEF RowsInv
<1>4. CASE SkipSwap /\ UNCHANGED dataVars
  <2>1. /\ UNCHANGED <<listing, reply, pc, markets>> /\ CachedRows' = CachedRows
        /\ pc = "swapRead" /\ at' = at + 1
    BY <1>4 DEF SkipSwap, CachedRows
  <2>2. Below(markets', at' - 1)
    <3>1. Below(markets, at - 1) /\ at \in Nat /\ markets \in Seq(Rows)
      BY <2>1, <1>a DEF RowsInv, TypeOK
    <3> QED BY <2>1, <3>1, RowTyped DEF Below
  <2> QED BY <2>1, <2>2, <1>a DEF RowsInv
<1>5. CASE SwapsRead /\ UNCHANGED dataVars
  BY <1>5, <1>a DEF SwapsRead, AfterSwaps, RowsInv, CachedRows
<1>6. CASE SpotsFail /\ UNCHANGED dataVars
  <2>1. RowsFrame
    BY <1>6 DEF RowsFrame, SpotsFail, FetchFails, Return, FetchErrors, Array,
         CachedRows
  <2> QED BY <2>1, <1>a, RowsKept
<1>7. CASE SpotsAnswer /\ UNCHANGED dataVars
  <2>1. RowsFrame
    BY <1>7, <1>c DEF RowsFrame, SpotsAnswer, Array, CachedRows
  <2> QED BY <2>1, <1>a, RowsKept
<1>8. CASE ReadSpot /\ UNCHANGED dataVars
  <2>1. PICK id \in Nat : /\ markets' = Append(markets, SpotRow(id)) /\ SpotRow(id) \in Rows
                          /\ Spots[at].index \in {id, None} /\ at \in DOMAIN Spots
    BY <1>8, SpotTyped, GarbageAssumption DEF ReadSpot, SpotRow, Rows
  <2>2. UNCHANGED <<listing, pc>> /\ CachedRows' = CachedRows /\ pc = "spotRead"
    BY <1>8 DEF ReadSpot, CachedRows
  <2>3. SpotRow(id).type = "spot"
    BY DEF SpotRow
  <2>4. Sound(markets', listing)
    BY <2>1, <2>3, <1>a, SoundSpot DEF TypeOK, RowsInv
  <2>5. SpotsListed(markets')
    <3>1. Spot(SpotRow(id).id, SpotRow(id).base)
      BY <2>1 DEF SpotRow, Spot
    <3> QED BY <2>1, <3>1, <1>a, ListedGrows DEF TypeOK, RowsInv
  <2> QED BY <2>2, <2>4, <2>5, <1>a DEF RowsInv
<1>9. CASE SkipSpot /\ UNCHANGED dataVars
  <2>1. RowsFrame
    BY <1>9 DEF RowsFrame, SkipSpot, CachedRows
  <2> QED BY <2>1, <1>a, RowsKept
<1>10. CASE SpotsRead /\ UNCHANGED dataVars
  <2>1. RowsFrame
    BY <1>10, <1>c DEF RowsFrame, SpotsRead, CachedRows
  <2> QED BY <2>1, <1>a, RowsKept
<1>11. CASE Hand /\ UNCHANGED dataVars
  <2>1. RowsFrame
    BY <1>11 DEF RowsFrame, Hand, Array, CachedRows
  <2> QED BY <2>1, <1>a, RowsKept
<1>12. CASE Keep /\ UNCHANGED dataVars
  <2>1. /\ UNCHANGED listing /\ markets' = <<>> /\ CachedRows' = markets
        /\ pc' \notin {"swapRead"}
    <3>1. markets # None
      BY <1>a, RowsAssumption DEF TypeOK
    <3> QED BY <1>12, <3>1 DEF Keep, Return, CachedRows
  <2> QED BY <2>1, <1>a, SoundEmpty DEF RowsInv, OnlySwaps, SpotsListed
<1>13. CASE KeepFails /\ UNCHANGED dataVars
  <2>1. RowsFrame
    BY <1>13 DEF RowsFrame, KeepFails, Return, CachedRows
  <2> QED BY <2>1, <1>a, RowsKept
<1>14. CASE CopyCoin
  <2>1. RowsFrame
    BY <1>14 DEF RowsFrame, CopyCoin, fetched, CachedRows
  <2> QED BY <2>1, <1>a, RowsKept
<1>15. CASE ScanHit
  <2>1. RowsFrame
    BY <1>15 DEF RowsFrame, ScanHit, fetched, CachedRows
  <2> QED BY <2>1, <1>a, RowsKept
<1>16. CASE ScanMiss
  <2>1. RowsFrame
    BY <1>16 DEF RowsFrame, ScanMiss, fetched, CachedRows
  <2> QED BY <2>1, <1>a, RowsKept
<1>17. CASE ScanEnds
  <2>1. RowsFrame
    BY <1>17 DEF RowsFrame, ScanEnds, Leave, Return, fetched, CachedRows
  <2> QED BY <2>1, <1>a, RowsKept
<1>18. CASE Match
  <2>1. RowsFrame
    BY <1>18 DEF RowsFrame, Match, Leave, Return, fetched, CachedRows
  <2> QED BY <2>1, <1>a, RowsKept
<1>19. CASE PostBook
  <2>1. RowsFrame
    BY <1>19 DEF RowsFrame, PostBook, fetched, CachedRows
  <2> QED BY <2>1, <1>a, RowsKept
<1>20. CASE BookFails
  <2>1. RowsFrame
    BY <1>20 DEF RowsFrame, BookFails, Leave, Return, fetched, CachedRows
  <2> QED BY <2>1, <1>a, RowsKept
<1>21. CASE BookAnswers
  <2>1. RowsFrame
    BY <1>21 DEF RowsFrame, BookAnswers, fetched, CachedRows
  <2> QED BY <2>1, <1>a, RowsKept
<1>22. CASE ReadBids
  <2>1. RowsFrame
    BY <1>22 DEF RowsFrame, ReadBids, Block, fetched, CachedRows
  <2> QED BY <2>1, <1>a, RowsKept
<1>23. CASE ReadAsks
  <2>1. RowsFrame
    BY <1>23 DEF RowsFrame, ReadAsks, Leave, Return, fetched, CachedRows
  <2> QED BY <2>1, <1>a, RowsKept
<1>24. ASSUME NEW side \in Sides, SideFails(side)
      PROVE  RowsInv'
  <2>1. RowsFrame
    BY <1>24 DEF RowsFrame, SideFails, Leave, Return, fetched, CachedRows
  <2> QED BY <2>1, <1>a, RowsKept
<1>25. CASE PostCandles
  <2>1. RowsFrame
    BY <1>25 DEF RowsFrame, PostCandles, fetched, CachedRows
  <2> QED BY <2>1, <1>a, RowsKept
<1>26. CASE CandlesFail
  <2>1. RowsFrame
    BY <1>26 DEF RowsFrame, CandlesFail, Leave, Return, fetched, CachedRows
  <2> QED BY <2>1, <1>a, RowsKept
<1>27. CASE ReadCandles
  <2>1. RowsFrame
    BY <1>27 DEF RowsFrame, ReadCandles, Leave, Return, fetched, CachedRows
  <2> QED BY <2>1, <1>a, RowsKept
<1>28. CASE FindTicker
  <2>1. RowsFrame
    BY <1>28 DEF RowsFrame, FindTicker, Leave, Return, fetched, CachedRows
  <2> QED BY <2>1, <1>a, RowsKept
<1>29. CASE Pick
  <2>1. RowsFrame
    BY <1>29 DEF RowsFrame, Pick, Leave, Return, fetched, CachedRows
  <2> QED BY <2>1, <1>a, RowsKept
<1>30. CASE SignFails
  <2>1. RowsFrame
    BY <1>30 DEF RowsFrame, SignFails, Leave, Return, fetched, CachedRows
  <2> QED BY <2>1, <1>a, RowsKept
<1>31. CASE PostUpdate
  <2>1. RowsFrame
    BY <1>31 DEF RowsFrame, PostUpdate, fetched, CachedRows
  <2> QED BY <2>1, <1>a, RowsKept
<1>32. CASE UpdateAnswers
  <2>1. RowsFrame
    BY <1>32 DEF RowsFrame, UpdateAnswers, Leave, Return, fetched, CachedRows
  <2> QED BY <2>1, <1>a, RowsKept
<1>33. CASE NewClient /\ Dropped
  <2>1. RowsFrame
    BY <1>33 DEF RowsFrame, NewClient, CachedRows
  <2> QED BY <2>1, <1>a, RowsKept
<1>34. CASE FreeClient /\ Dropped
  <2>1. RowsFrame
    BY <1>34 DEF RowsFrame, FreeClient, CachedRows
  <2> QED BY <2>1, <1>a, RowsKept
<1>35. CASE FetchMarkets /\ Dropped
  <2>1. /\ UNCHANGED listing /\ markets' = <<>> /\ CachedRows' \in {CachedRows, <<>>}
        /\ pc' \notin {"swapRead"}
    BY <1>35 DEF FetchMarkets, Enter, CachedRows
  <2> QED BY <2>1, <1>a, SoundEmpty DEF RowsInv, OnlySwaps, SpotsListed
<1>36. CASE LoadMarkets /\ Dropped
  <2>1. /\ UNCHANGED listing /\ markets' = <<>> /\ CachedRows' \in {CachedRows, <<>>}
        /\ pc' \notin {"swapRead"}
    BY <1>36 DEF LoadMarkets, Enter, CachedRows
  <2> QED BY <2>1, <1>a, SoundEmpty DEF RowsInv, OnlySwaps, SpotsListed
<1>37. CASE List /\ UNCHANGED dataVars
  <2>1. PICK c \in Coins : /\ \A i \in DOMAIN listing : listing[i] # c
                          /\ listing' = Append(listing, c)
    BY <1>37 DEF List
  <2>2. UNCHANGED <<reply, pc, markets, at>> /\ CachedRows' = CachedRows
    BY <1>37 DEF List, CachedRows
  <2>3. /\ listing \in Seq(Coins) /\ markets \in Seq(Rows) /\ CachedRows \in Seq(Rows)
    BY <1>a DEF TypeOK, CachedRows
  <2>4. Distinct(listing') /\ Sound(markets, listing') /\ Sound(CachedRows, listing')
    BY <2>1, <2>3, <1>a, DistinctGrows, SoundGrows DEF RowsInv
  <2>5. Prefix(reply, listing) => Prefix(reply, listing')
    BY <2>1, <2>3, AppendProperties DEF Prefix
  <2> QED BY <2>2, <2>4, <2>5, <1>a DEF RowsInv
<1>38. CASE DataCalls
  <2>0. PICK c, step : Begun(c, step) /\ Begin(c, step)
    BY <1>38, DataCalled
  <2>1. /\ UNCHANGED listing /\ markets' = <<>> /\ CachedRows' \in {CachedRows, <<>>}
        /\ pc' \notin {"swapRead"}
    BY <2>0 DEF Begun, Begin, Enter, CachedRows
  <2> QED BY <2>1, <1>a, SoundEmpty DEF RowsInv, OnlySwaps, SpotsListed
<1>39. CASE Intrude
  <2>1. RowsFrame
    BY <1>39 DEF RowsFrame, Intrude, marketVars, CachedRows
  <2> QED BY <2>1, <1>a, RowsKept
<1>40. CASE UNCHANGED vars
  BY <1>40, <1>a DEF RowsInv, CachedRows, vars, marketVars
<1> QED
  BY <1>1, <1>2, <1>3, <1>4, <1>5, <1>6, <1>7, <1>8, <1>9, <1>10, <1>11, <1>12,
       <1>13, <1>14, <1>15, <1>16, <1>17, <1>18, <1>19, <1>20, <1>21, <1>22, <1>23,
            <1>24, <1>25, <1>26, <1>27, <1>28, <1>29, <1>30, <1>31, <1>32, <1>33,
                 <1>34, <1>35, <1>36, <1>37, <1>38, <1>39, <1>40
  DEF Next, Step, MarketSteps, Fetching, DataSteps, MarketCalls

-----------------------------------------------------------------------------
(* What the look-ups find. *)

\* The id picked for a coin whose swap was read is that of the swap.
LEMMA PickedRight ==
  ASSUME markets \in Seq(Rows), listing \in Seq(Coins), Distinct(listing),
         Sound(markets, listing), Unfetched(call) => markets = <<>>,
         NEW i \in DOMAIN markets, markets[i].base = call.coin, markets[i].type = "swap"
  PROVE  Lists(listing, PickedId, call.coin)
<1>1. ~Unfetched(call)
  BY DEF Unfetched
<1> DEFINE S == {j \in DOMAIN markets : markets[j].base = call.coin}
<1>2. Least(S) = {i}
  <2>1. i \in S /\ S \in SUBSET Nat
    BY LenProperties
  <2>2. \A j \in S : i <= j
    BY OneSwap
  <2> HIDE DEF S
  <2> QED BY <2>1, <2>2, LeastIs
<1>3. OfBase(call.coin) = {markets[j] : j \in Least(S)}
  BY DEF OfBase
<1> HIDE DEF S
<1>4. OfBase(call.coin) = {markets[i]}
  BY <1>2, <1>3
<1>5. PickedId = markets[i].id
  BY <1>1, <1>4 DEF PickedId, Unfetched
<1> QED BY <1>5 DEF Lists, Sound

\* An id that was found is that of a market of the coin.
LEMMA PickedOwn ==
  ASSUME Sound(markets, listing), SpotsListed(markets), markets \in Seq(Rows),
         PickedId # 0, ~Resolved(call.op, call.coin)
  PROVE  Swap(PickedId, call.coin) \/ Spot(PickedId, call.coin)
<1>1. OfBase(call.coin) # {} /\ PickedId = (CHOOSE r \in OfBase(call.coin) : TRUE).id
  BY DEF PickedId
<1>2. PICK r : r \in OfBase(call.coin) /\ PickedId = r.id
  BY <1>1
<1>3. PICK i \in DOMAIN markets : r = markets[i] /\ markets[i].base = call.coin
  BY <1>2 DEF OfBase, Least
<1>4. markets[i].type \in {"swap", "spot"}
  BY <1>3, RowTyped
<1> QED BY <1>2, <1>3, <1>4 DEF Sound, SpotsListed, Swap

\* Nothing is looked up outside these steps.
LEMMA Away ==
  ASSUME pc' \notin FetchSteps \cup {"scan", "match", "post", "pick", "sign"}
  PROVE  LookInv'
BY DEF LookInv

\* Every step keeps what the look-ups have found.
LEMMA LookStep ==
  ASSUME IInv, [Next]_vars
  PROVE  LookInv'
<1>a. TypeOK /\ CallInv /\ RowsInv /\ LookInv
  BY DEF IInv
<1>c. pc \in {"spotPost", "spotRead"} =>
        /\ Then \in {"hand", "keep", "copy", "pick"}
        /\ Then = "pick" => call.op \in Shrugs
  BY <1>a, ThenTyped DEF CallInv, FetchSteps
<1>1. CASE SwapsFail /\ UNCHANGED dataVars
  <2>1. pc' \in {"idle", "pick"} /\ markets' = <<>>
    BY <1>1 DEF SwapsFail, FetchFails, Return, FetchErrors, Array
  <2> QED BY <2>1 DEF LookInv, FetchSteps
<1>2. CASE SwapsAnswer /\ UNCHANGED dataVars
  <2>1. /\ pc \in FetchSteps /\ UNCHANGED call
        /\ pc' \in FetchSteps \cup {"ticker", "hand", "keep", "copy", "pick", "idle"}
        /\ pc' \in FetchSteps \/ pc' # "pick" \/ call.op \in Shrugs
    BY <1>2 DEF SwapsAnswer, AfterSwaps, Array, FetchSteps
  <2> QED BY <2>1, <1>a DEF LookInv, FetchSteps
<1>3. CASE ReadSwap /\ UNCHANGED dataVars
  <2>1. /\ pc \in FetchSteps /\ UNCHANGED call
        /\ pc' \in FetchSteps \cup {"ticker", "hand", "keep", "copy", "pick", "idle"}
        /\ pc' \in FetchSteps \/ pc' # "pick" \/ call.op \in Shrugs
    BY <1>3 DEF ReadSwap, SwapRow, FetchSteps
  <2> QED BY <2>1, <1>a DEF LookInv, FetchSteps
<1>4. CASE SkipSwap /\ UNCHANGED dataVars
  <2>1. /\ pc \in FetchSteps /\ UNCHANGED call
        /\ pc' \in FetchSteps \cup {"ticker", "hand", "keep", "copy", "pick", "idle"}
        /\ pc' \in FetchSteps \/ pc' # "pick" \/ call.op \in Shrugs
    BY <1>4 DEF SkipSwap, FetchSteps
  <2> QED BY <2>1, <1>a DEF LookInv, FetchSteps
<1>5. CASE SwapsRead /\ UNCHANGED dataVars
  <2>1. /\ pc \in FetchSteps /\ UNCHANGED call
        /\ pc' \in FetchSteps \cup {"ticker", "hand", "keep", "copy", "pick", "idle"}
        /\ pc' \in FetchSteps \/ pc' # "pick" \/ call.op \in Shrugs
    BY <1>5 DEF SwapsRead, AfterSwaps, FetchSteps
  <2> QED BY <2>1, <1>a DEF LookInv, FetchSteps
<1>6. CASE SpotsFail /\ UNCHANGED dataVars
  <2>1. pc' \in {"idle", "pick"} /\ markets' = <<>>
    BY <1>6 DEF SpotsFail, FetchFails, Return, FetchErrors, Array
  <2> QED BY <2>1 DEF LookInv, FetchSteps
<1>7. CASE SpotsAnswer /\ UNCHANGED dataVars
  <2>1. /\ pc \in FetchSteps /\ UNCHANGED call
        /\ pc' \in FetchSteps \cup {"ticker", "hand", "keep", "copy", "pick", "idle"}
        /\ pc' \in FetchSteps \/ pc' # "pick" \/ call.op \in Shrugs
    BY <1>7, <1>c DEF SpotsAnswer, Array, FetchSteps
  <2> QED BY <2>1, <1>a DEF LookInv, FetchSteps
<1>8. CASE ReadSpot /\ UNCHANGED dataVars
  <2>1. /\ pc \in FetchSteps /\ UNCHANGED call
        /\ pc' \in FetchSteps \cup {"ticker", "hand", "keep", "copy", "pick", "idle"}
        /\ pc' \in FetchSteps \/ pc' # "pick" \/ call.op \in Shrugs
    BY <1>8 DEF ReadSpot, SpotRow, FetchSteps
  <2> QED BY <2>1, <1>a DEF LookInv, FetchSteps
<1>9. CASE SkipSpot /\ UNCHANGED dataVars
  <2>1. /\ pc \in FetchSteps /\ UNCHANGED call
        /\ pc' \in FetchSteps \cup {"ticker", "hand", "keep", "copy", "pick", "idle"}
        /\ pc' \in FetchSteps \/ pc' # "pick" \/ call.op \in Shrugs
    BY <1>9 DEF SkipSpot, FetchSteps
  <2> QED BY <2>1, <1>a DEF LookInv, FetchSteps
<1>10. CASE SpotsRead /\ UNCHANGED dataVars
  <2>1. /\ pc \in FetchSteps /\ UNCHANGED call
        /\ pc' \in FetchSteps \cup {"ticker", "hand", "keep", "copy", "pick", "idle"}
        /\ pc' \in FetchSteps \/ pc' # "pick" \/ call.op \in Shrugs
    BY <1>10, <1>c DEF SpotsRead, FetchSteps
  <2> QED BY <2>1, <1>a DEF LookInv, FetchSteps
<1>11. CASE Hand /\ UNCHANGED dataVars
  BY <1>11, Away DEF Hand, Array, FetchSteps
<1>12. CASE Keep /\ UNCHANGED dataVars
  BY <1>12, Away DEF Keep, Return, Array, FetchSteps
<1>13. CASE KeepFails /\ UNCHANGED dataVars
  BY <1>13, Away DEF KeepFails, Return, FetchSteps
<1>14. CASE CopyCoin
  BY <1>14 DEF CopyCoin, fetched, LookInv, FetchSteps
<1>15. CASE ScanHit
  BY <1>15 DEF ScanHit, LookInv, FetchSteps
<1>16. CASE ScanMiss
  BY <1>16, <1>a DEF ScanMiss, fetched, LookInv, FetchSteps
<1>17. CASE ScanEnds
  BY <1>17, Away DEF ScanEnds, Leave, Return, FetchSteps
<1>18. CASE Match
  <2>1. CASE hl_get_market(markets, call.sym) = {}
    BY <1>18, <2>1, Away DEF Match, Leave, Return, FetchSteps
  <2>2. CASE hl_get_market(markets, call.sym) # {}
    <3>1. /\ info' \in hl_get_market(markets, call.sym)
          /\ pc = "match" /\ pc' = "post" /\ UNCHANGED <<listing, call, asset>>
      BY <1>18, <2>2 DEF Match, fetched
    <3>2. info'.base = call.sym.base /\ info'.type = call.sym.type
      BY <3>1, <1>a, MarketFits DEF TypeOK
    <3> QED BY <3>1, <3>2, <1>a DEF LookInv, FetchSteps
  <2> QED BY <2>1, <2>2
<1>19. CASE PostBook
  BY <1>19, Away DEF PostBook, FetchSteps
<1>20. CASE BookFails
  BY <1>20, Away DEF BookFails, Leave, Return, FetchSteps
<1>21. CASE BookAnswers
  BY <1>21, Away DEF BookAnswers, FetchSteps
<1>22. CASE ReadBids
  BY <1>22, Away DEF ReadBids, Block, FetchSteps
<1>23. CASE ReadAsks
  BY <1>23, Away DEF ReadAsks, Leave, Return, FetchSteps
<1>24. ASSUME NEW side \in Sides, SideFails(side)
      PROVE  LookInv'
  BY <1>24, Away DEF SideFails, Leave, Return, FetchSteps
<1>25. CASE PostCandles
  BY <1>25, Away DEF PostCandles, FetchSteps
<1>26. CASE CandlesFail
  BY <1>26, Away DEF CandlesFail, Leave, Return, FetchSteps
<1>27. CASE ReadCandles
  BY <1>27, Away DEF ReadCandles, Leave, Return, FetchSteps
<1>28. CASE FindTicker
  BY <1>28, Away DEF FindTicker, Leave, Return, FetchSteps
<1>29. CASE Pick
  <2>1. CASE PickedId = 0 /\ call.op = "margin"
    BY <1>29, <2>1, Away DEF Pick, Leave, Return, FetchSteps
  <2>2. CASE ~(PickedId = 0 /\ call.op = "margin")
    <3>1. /\ pc = "pick" /\ pc' = "sign" /\ asset' = PickedId
          /\ UNCHANGED <<listing, call, markets>>
      BY <1>29, <2>2 DEF Pick, fetched
    <3>2. ASSUME NEW i \in DOMAIN markets, markets[i].base = call.coin,
                 markets[i].type = "swap"
          PROVE  Lists(listing, PickedId, call.coin)
      BY <3>1, <3>2, <1>a, PickedRight DEF RowsInv, LookInv, TypeOK
    <3>3. PickedId = 0 => call.op = "leverage"
      BY <2>2, <3>1, <1>a DEF CallInv, Shrugs
    <3>4. (PickedId # 0 /\ ~Resolved(call.op, call.coin)) =>
            Swap(PickedId, call.coin) \/ Spot(PickedId, call.coin)
      BY <1>a, PickedOwn DEF RowsInv, TypeOK
    <3>5. (Swap(PickedId, call.coin) => Swap(asset', call'.coin))
          /\ (Spot(PickedId, call.coin) => Spot(asset', call'.coin))
      BY <3>1 DEF Swap, Spot
    <3>6. ~Resolved(call'.op, call'.coin) =>
            \/ asset' = 0 /\ call'.op = "leverage"
            \/ asset' # 0 /\ (Swap(asset, call.coin)' \/ Spot(asset, call.coin)')
      BY <3>1, <3>3, <3>4, <3>5 DEF Swap, Spot
    <3>7. (\E i \in DOMAIN markets' : markets'[i].base = call'.coin /\ markets'[i].type = "swap")
            => Lists(listing', asset', call'.coin)
      BY <3>1, <3>2
    <3>8. pc' = "sign" /\ pc' \notin FetchSteps /\ (Unfetched(call') => markets' = <<>>)
      BY <3>1, <1>a DEF LookInv, FetchSteps
    <3> QED BY <3>6, <3>7, <3>8 DEF LookInv
  <2> QED BY <2>1, <2>2
<1>30. CASE SignFails
  BY <1>30, Away DEF SignFails, Leave, Return, FetchSteps
<1>31. CASE PostUpdate
  BY <1>31, Away DEF PostUpdate, FetchSteps
<1>32. CASE UpdateAnswers
  BY <1>32, Away DEF UpdateAnswers, Leave, Return, FetchSteps
<1>33. CASE NewClient /\ Dropped
  BY <1>33, Away DEF NewClient, FetchSteps
<1>34. CASE FreeClient /\ Dropped
  BY <1>34, Away DEF FreeClient, FetchSteps
<1>35. CASE FetchMarkets /\ Dropped
  BY <1>35 DEF FetchMarkets, Enter, LookInv, FetchSteps, Shrugs
<1>36. CASE LoadMarkets /\ Dropped
  BY <1>36 DEF LoadMarkets, Enter, LookInv, FetchSteps, Shrugs
<1>37. CASE List /\ UNCHANGED dataVars
  <2>1. PICK c \in Coins : listing' = Append(listing, c)
    BY <1>37 DEF List
  <2>2. /\ UNCHANGED <<pc, call, coinBuf, asset, info, markets>>
        /\ listing \in Seq(Coins) /\ asset \in Nat
    BY <1>37, <1>a DEF List, dataVars, TypeOK
  <2>3. \A coin : Lists(listing, asset, coin) => Lists(listing', asset, coin)
    BY <2>1, <2>2, ListsGrows
  <2>4. (Swap(asset, call.coin) \/ Spot(asset, call.coin)) =>
          (Swap(asset, call.coin)' \/ Spot(asset, call.coin)')
    BY <2>2, <2>3 DEF Lists, Swap, Spot
  <2> QED BY <2>2, <2>3, <2>4, <1>a DEF LookInv, FetchSteps
<1>38. CASE DataCalls
  <2>1. PICK c, step : Begun(c, step) /\ Begin(c, step)
    BY <1>38, DataCalled
  <2>2. call' = c /\ pc' = step /\ markets' = <<>>
    BY <2>1 DEF Begin, Enter
  <2>3. /\ step \in {"idle", "swapPost", "pick"}
        /\ (step = "swapPost" /\ c.op \in Shrugs) => ~Unfetched(c)
    BY <2>1 DEF Begun
  <2>4. ~Unfetched(c) => ~Unfetched(call')
    BY <2>2
  <2> QED BY <2>2, <2>3, <2>4 DEF LookInv, FetchSteps
<1>39. CASE Intrude
  BY <1>39 DEF Intrude, marketVars, LookInv, FetchSteps
<1>40. CASE UNCHANGED vars
  BY <1>40, <1>a DEF LookInv, Swap, Spot, vars, marketVars, dataVars
<1> QED
  BY <1>1, <1>2, <1>3, <1>4, <1>5, <1>6, <1>7, <1>8, <1>9, <1>10, <1>11, <1>12,
       <1>13, <1>14, <1>15, <1>16, <1>17, <1>18, <1>19, <1>20, <1>21, <1>22, <1>23,
            <1>24, <1>25, <1>26, <1>27, <1>28, <1>29, <1>30, <1>31, <1>32, <1>33,
                 <1>34, <1>35, <1>36, <1>37, <1>38, <1>39, <1>40
  DEF Next, Step, MarketSteps, Fetching, DataSteps, MarketCalls

-----------------------------------------------------------------------------
(* What is asked for. *)

\* No request stands, and no ticker has just been told.
Unasked == request' = None /\ ~(pc' = "idle" /\ call'.op = "ticker" /\ err' = "success")

\* Then there is nothing to be wrong.
LEMMA UnaskedHolds ==
  ASSUME Unasked
  PROVE  RequestInv'
BY DEF Unasked, RequestInv, RightMarket, SwapAsAsked, AssetAsked, TickerOwn, Done

\* A request for a book or for candles of a swap names it.
LEMMA SubjectRight ==
  ASSUME IInv, pc = "post"
  PROVE  call.sym.type = "swap" => Subject = [coin |-> call.sym.base]
BY DEF IInv, LookInv, Subject

\* Every step keeps requests about the market asked for.
LEMMA RequestStep ==
  ASSUME IInv, [Next]_vars
  PROVE  RequestInv'
<1>a. TypeOK /\ CallInv /\ RowsInv /\ LookInv /\ RequestInv
  BY DEF IInv
<1>b. (pc = "post" /\ call.sym.type = "swap") => Subject = [coin |-> call.sym.base]
  BY SubjectRight
<1>c. pc \in {"spotPost", "spotRead"} => Then \in {"hand", "keep", "copy", "pick"}
  BY <1>a, ThenTyped DEF CallInv, FetchSteps
<1>d. \A op : op \in {"book", "candles"} \cup Shrugs => op # "ticker"
  BY DEF Shrugs
<1>1. CASE SwapsFail /\ UNCHANGED dataVars
  <2>1. Unasked
    BY <1>1, <1>a DEF Unasked, SwapsFail, FetchFails, Return, FetchErrors, Array,
         dataVars, RequestInv, WaitSteps, CallInv
  <2> QED BY <2>1, UnaskedHolds
<1>2. CASE SwapsAnswer /\ UNCHANGED dataVars
  <2>1. Unasked
    BY <1>2, <1>a DEF Unasked, SwapsAnswer, AfterSwaps, Array, dataVars,
         RequestInv, WaitSteps, CallInv
  <2> QED BY <2>1, UnaskedHolds
<1>3. CASE ReadSwap /\ UNCHANGED dataVars
  <2>1. Unasked
    BY <1>3, <1>a DEF Unasked, ReadSwap, SwapRow, dataVars, RequestInv, WaitSteps,
         CallInv
  <2> QED BY <2>1, UnaskedHolds
<1>4. CASE SkipSwap /\ UNCHANGED dataVars
  <2>1. Unasked
    BY <1>4, <1>a DEF Unasked, SkipSwap, dataVars, RequestInv, WaitSteps, CallInv
  <2> QED BY <2>1, UnaskedHolds
<1>5. CASE SwapsRead /\ UNCHANGED dataVars
  <2>1. Unasked
    BY <1>5, <1>a DEF Unasked, SwapsRead, AfterSwaps, dataVars, RequestInv,
         WaitSteps, CallInv
  <2> QED BY <2>1, UnaskedHolds
<1>6. CASE SpotsFail /\ UNCHANGED dataVars
  <2>1. Unasked
    BY <1>6, <1>a DEF Unasked, SpotsFail, FetchFails, Return, FetchErrors, Array,
         dataVars, RequestInv, WaitSteps, CallInv
  <2> QED BY <2>1, UnaskedHolds
<1>7. CASE SpotsAnswer /\ UNCHANGED dataVars
  <2>1. Unasked
    BY <1>7, <1>a, <1>c DEF Unasked, SpotsAnswer, Array, dataVars, RequestInv,
         WaitSteps, CallInv
  <2> QED BY <2>1, UnaskedHolds
<1>8. CASE ReadSpot /\ UNCHANGED dataVars
  <2>1. Unasked
    BY <1>8, <1>a DEF Unasked, ReadSpot, SpotRow, dataVars, RequestInv, WaitSteps,
         CallInv
  <2> QED BY <2>1, UnaskedHolds
<1>9. CASE SkipSpot /\ UNCHANGED dataVars
  <2>1. Unasked
    BY <1>9, <1>a DEF Unasked, SkipSpot, dataVars, RequestInv, WaitSteps, CallInv
  <2> QED BY <2>1, UnaskedHolds
<1>10. CASE SpotsRead /\ UNCHANGED dataVars
  <2>1. Unasked
    BY <1>10, <1>a, <1>c DEF Unasked, SpotsRead, dataVars, RequestInv, WaitSteps,
         CallInv
  <2> QED BY <2>1, UnaskedHolds
<1>11. CASE Hand /\ UNCHANGED dataVars
  <2>1. Unasked
    BY <1>11, <1>a DEF Unasked, Hand, Array, dataVars, RequestInv, WaitSteps,
         CallInv
  <2> QED BY <2>1, UnaskedHolds
<1>12. CASE Keep /\ UNCHANGED dataVars
  <2>1. Unasked
    BY <1>12, <1>a DEF Unasked, Keep, Return, Array, dataVars, RequestInv,
         WaitSteps, CallInv
  <2> QED BY <2>1, UnaskedHolds
<1>13. CASE KeepFails /\ UNCHANGED dataVars
  <2>1. Unasked
    BY <1>13, <1>a DEF Unasked, KeepFails, Return, dataVars, RequestInv, WaitSteps,
         CallInv
  <2> QED BY <2>1, UnaskedHolds
<1>14. CASE CopyCoin
  <2>1. Unasked
    BY <1>14, <1>a DEF Unasked, CopyCoin, RequestInv, WaitSteps
  <2> QED BY <2>1, UnaskedHolds
<1>15. CASE ScanHit
  <2>1. Unasked
    BY <1>15, <1>a DEF Unasked, ScanHit, RequestInv, WaitSteps
  <2> QED BY <2>1, UnaskedHolds
<1>16. CASE ScanMiss
  <2>1. Unasked
    BY <1>16, <1>a DEF Unasked, ScanMiss, RequestInv, WaitSteps
  <2> QED BY <2>1, UnaskedHolds
<1>17. CASE ScanEnds
  <2>1. Unasked
    BY <1>17, <1>a, <1>d DEF Unasked, ScanEnds, Leave, Return, fetched, CallInv
  <2> QED BY <2>1, UnaskedHolds
<1>18. CASE Match
  <2>1. CASE hl_get_market(markets, call.sym) = {}
    BY <1>18, <2>1, UnaskedHolds DEF Match, Leave, Return, Unasked
  <2>2. CASE hl_get_market(markets, call.sym) # {}
    BY <1>18, <2>2, <1>a, UnaskedHolds DEF Match, Unasked, RequestInv, WaitSteps
  <2> QED BY <2>1, <2>2
<1>19. CASE PostBook
  <2>1. /\ pc = "post" /\ pc' = "bookWait" /\ UNCHANGED listing
        /\ request'.subject = Subject
    BY <1>19 DEF PostBook
  <2>2. call'.op = "book" /\ call'.sym = call.sym
    BY <1>19, <1>a DEF PostBook, CallInv, CallShape, NamedCalls, BookCalls,
         CandleCalls, TickerCalls, LeverageCalls, MarginCalls
  <2>3. SwapAsAsked'
    BY <1>b, <2>1, <2>2 DEF SwapAsAsked
  <2> QED BY <2>1, <2>2, <2>3
       DEF RequestInv, WaitSteps, RightMarket, AssetAsked, TickerOwn, Done, Shrugs
<1>20. CASE BookFails
  <2>1. Unasked
    BY <1>20, <1>a, <1>d DEF Unasked, BookFails, Leave, Return, fetched, CallInv
  <2> QED BY <2>1, UnaskedHolds
<1>21. CASE BookAnswers
  <2>1. /\ pc' \in {"bids", "asks"} /\ call.op = "book"
        /\ UNCHANGED <<listing, call, request>>
    BY <1>21, <1>a DEF BookAnswers, fetched, CallInv
  <2> QED BY <2>1, <1>a
       DEF RequestInv, WaitSteps, RightMarket, SwapAsAsked, AssetAsked,
            TickerOwn, Done, Shrugs
<1>22. CASE ReadBids
  <2>1. /\ pc' \in {"bids", "asks"} /\ call.op = "book"
        /\ UNCHANGED <<listing, call, request>>
    BY <1>22, <1>a DEF ReadBids, fetched, CallInv
  <2> QED BY <2>1, <1>a
       DEF RequestInv, WaitSteps, RightMarket, SwapAsAsked, AssetAsked,
            TickerOwn, Done, Shrugs
<1>23. CASE ReadAsks
  <2>1. Unasked
    BY <1>23, <1>a, <1>d DEF Unasked, ReadAsks, Leave, Return, fetched, CallInv
  <2> QED BY <2>1, UnaskedHolds
<1>24. ASSUME NEW side \in Sides, SideFails(side)
      PROVE  RequestInv'
  <2>1. Unasked
    BY <1>24, <1>a, <1>d DEF Unasked, SideFails, Leave, Return, fetched, CallInv
  <2> QED BY <2>1, UnaskedHolds
<1>25. CASE PostCandles
  <2>1. /\ pc = "post" /\ pc' = "candleWait" /\ UNCHANGED listing
        /\ request'.subject = Subject
    BY <1>25 DEF PostCandles
  <2>2. call'.op = "candles" /\ call'.sym = call.sym
    BY <1>25, <1>a DEF PostCandles, CallInv, CallShape, NamedCalls, BookCalls,
         CandleCalls, TickerCalls, LeverageCalls, MarginCalls
  <2>3. SwapAsAsked'
    BY <1>b, <2>1, <2>2 DEF SwapAsAsked
  <2> QED BY <2>1, <2>2, <2>3
       DEF RequestInv, WaitSteps, RightMarket, AssetAsked, TickerOwn, Done, Shrugs
<1>26. CASE CandlesFail
  <2>1. Unasked
    BY <1>26, <1>a, <1>d DEF Unasked, CandlesFail, Leave, Return, fetched, CallInv
  <2> QED BY <2>1, UnaskedHolds
<1>27. CASE ReadCandles
  <2>1. Unasked
    BY <1>27, <1>a, <1>d DEF Unasked, ReadCandles, Leave, Return, fetched, CallInv
  <2> QED BY <2>1, UnaskedHolds
<1>28. CASE FindTicker
  <2>1. request' = None /\ pc' = "idle" /\ call' = call /\ call.op = "ticker"
    BY <1>28, <1>a DEF FindTicker, Leave, Return, fetched, CallInv
  <2>2. CASE hl_get_market(markets, call.sym) = {}
    BY <1>28, <2>1, <2>2, UnaskedHolds DEF FindTicker, Leave, Return, Unasked
  <2>3. CASE hl_get_market(markets, call.sym) # {}
    <3>1. PICK r \in hl_get_market(markets, call.sym) : ticker' = r.ctx
      BY <1>28, <2>3 DEF FindTicker
    <3>2. PICK i \in DOMAIN markets : r = markets[i] /\ r.base = call.sym.base /\ r.type = call.sym.type
      BY <1>a, MarketFits DEF TypeOK
    <3>3. r.type = "swap" /\ r.ctx = r.base
      BY <1>28, <3>2, <1>a DEF FindTicker, RowsInv, OnlySwaps, Sound
    <3>4. call.sym = [base |-> call.sym.base, type |-> call.sym.type]
      BY <2>1, <1>a, SymTyped DEF CallInv, Symbols
    <3>5. TickerOwn'
      BY <2>1, <3>1, <3>2, <3>3, <3>4 DEF TickerOwn
    <3> QED BY <2>1, <3>5, <1>a DEF RequestInv, RightMarket, SwapAsAsked,
         AssetAsked, Shrugs
  <2> QED BY <2>2, <2>3
<1>29. CASE Pick
  <2>1. CASE PickedId = 0 /\ call.op = "margin"
    BY <1>29, <2>1, UnaskedHolds DEF Pick, Leave, Return, Unasked
  <2>2. CASE ~(PickedId = 0 /\ call.op = "margin")
    BY <1>29, <2>2, <1>a, UnaskedHolds DEF Pick, Unasked, RequestInv, WaitSteps
  <2> QED BY <2>1, <2>2
<1>30. CASE SignFails
  <2>1. Unasked
    BY <1>30, <1>a, <1>d DEF Unasked, SignFails, Leave, Return, fetched, CallInv
  <2> QED BY <2>1, UnaskedHolds
<1>31. CASE PostUpdate
  <2>1. /\ pc = "sign" /\ pc' = "updateWait" /\ UNCHANGED <<listing, call>> /\ call.op \in Shrugs
        /\ request'.asset = IF asset = 0 THEN None ELSE asset
        /\ request'.seen <=> \E i \in DOMAIN markets : markets[i].base = call.coin /\
                                                     markets[i].type = "swap"
    BY <1>31, <1>a DEF PostUpdate, fetched, CallInv
  <2>2. asset \in Nat
    BY <1>a DEF TypeOK
  <2>3. AssetAsked'
    <3>1. SUFFICES ASSUME ~Resolved(call.op, call.coin)
                   PROVE  IF request'.asset # None
                          THEN \/ Swap(request.asset, call.coin)'
                               \/ ~request'.seen /\ Spot(request.asset, call.coin)'
                          ELSE call.op = "leverage" /\ (request'.seen => Swap(0, call.coin)')
      BY <2>1 DEF AssetAsked
    <3>2. request'.seen => Swap(asset, call.coin)
      BY <2>1, <1>a DEF LookInv, Lists, Swap
    <3>3. \/ asset = 0 /\ call.op = "leverage"
          \/ asset # 0 /\ (Swap(asset, call.coin) \/ Spot(asset, call.coin))
      BY <2>1, <3>1, <1>a DEF LookInv
    <3>4. CASE asset = 0
      BY <2>1, <3>2, <3>3, <3>4 DEF Swap
    <3>5. CASE asset # 0
      BY <2>1, <2>2, <3>2, <3>3, <3>5, NoneAssumption DEF Swap, Spot
    <3> QED BY <3>4, <3>5
  <2> QED BY <2>1, <2>3 DEF RequestInv, WaitSteps, RightMarket, SwapAsAsked,
       TickerOwn, Done, Shrugs
<1>32. CASE UpdateAnswers
  <2>1. Unasked
    BY <1>32, <1>a, <1>d DEF Unasked, UpdateAnswers, Leave, Return, fetched, CallInv
  <2> QED BY <2>1, UnaskedHolds
<1>33. CASE NewClient /\ Dropped
  <2>1. Unasked
    BY <1>33, <1>a DEF Unasked, NewClient, Dropped, RequestInv, WaitSteps, CallInv
  <2> QED BY <2>1, UnaskedHolds
<1>34. CASE FreeClient /\ Dropped
  <2>1. Unasked
    BY <1>34, <1>a DEF Unasked, FreeClient, Dropped, RequestInv, WaitSteps, CallInv
  <2> QED BY <2>1, UnaskedHolds
<1>35. CASE FetchMarkets /\ Dropped
  <2>1. Unasked
    BY <1>35, <1>a DEF Unasked, FetchMarkets, Enter, Dropped, RequestInv,
         WaitSteps, CallInv
  <2> QED BY <2>1, UnaskedHolds
<1>36. CASE LoadMarkets /\ Dropped
  <2>1. Unasked
    BY <1>36, <1>a DEF Unasked, LoadMarkets, Enter, Dropped, RequestInv, WaitSteps,
         CallInv
  <2> QED BY <2>1, UnaskedHolds
<1>37. CASE List /\ UNCHANGED dataVars
  <2>1. PICK c \in Coins : listing' = Append(listing, c)
    BY <1>37 DEF List
  <2>2. UNCHANGED <<pc, call, err, request, ticker>> /\ listing \in Seq(Coins)
    BY <1>37, <1>a DEF List, dataVars, TypeOK
  <2>3. \A k \in DOMAIN listing : k \in DOMAIN listing' /\ listing'[k] = listing[k]
    BY <2>1, <2>2, AppendProperties
  <2>4. SwapAsAsked'
    BY <2>2, <2>3, <1>a DEF RequestInv, RightMarket, SwapAsAsked
  <2>5. AssetAsked'
    BY <2>2, <2>3, <1>a DEF RequestInv, RightMarket, AssetAsked, Swap, Spot
  <2>6. TickerOwn'
    BY <2>2, <1>a DEF RequestInv, RightMarket, TickerOwn, Done
  <2> QED BY <2>2, <2>4, <2>5, <2>6, <1>a DEF RequestInv, RightMarket
<1>38. CASE DataCalls
  <2>1. PICK c, step : Begun(c, step) /\ Begin(c, step)
    BY <1>38, DataCalled
  <2>2. request' = None /\ call' = c /\ pc' = step /\ ticker' = None
    BY <1>a, <2>1 DEF Begin, Enter, Dropped, RequestInv, WaitSteps
  <2> QED BY <2>1, <2>2, UnaskedHolds DEF Unasked, Begun
<1>39. CASE Intrude
  <2>1. Unasked
    BY <1>39, <1>a DEF Unasked, Intrude, marketVars, RequestInv, WaitSteps
  <2> QED BY <2>1, UnaskedHolds
<1>40. CASE UNCHANGED vars
  BY <1>40, <1>a DEF RequestInv, RightMarket, SwapAsAsked, AssetAsked,
       TickerOwn, Done, Swap, Spot, vars, marketVars, dataVars
<1> QED
  BY <1>1, <1>2, <1>3, <1>4, <1>5, <1>6, <1>7, <1>8, <1>9, <1>10, <1>11, <1>12,
       <1>13, <1>14, <1>15, <1>16, <1>17, <1>18, <1>19, <1>20, <1>21, <1>22, <1>23,
            <1>24, <1>25, <1>26, <1>27, <1>28, <1>29, <1>30, <1>31, <1>32, <1>33,
                 <1>34, <1>35, <1>36, <1>37, <1>38, <1>39, <1>40
  DEF Next, Step, MarketSteps, Fetching, DataSteps, MarketCalls

-----------------------------------------------------------------------------
(* The theorems. *)

\* The invariant holds initially.
LEMMA InitInv == Init => IInv
<1> SUFFICES ASSUME Init
             PROVE  IInv
  OBVIOUS
<1>1. TypeOK
  BY DEF Init, MarketInit, TypeOK, Errors
<1>2. CallInv
  BY DEF Init, MarketInit, CallInv, CallShape, NamedCalls, FetchSteps, LookSteps
<1>3. HeapInv /\ LeakInv
  BY DEF Init, MarketInit, HeapInv, LeakInv, LeaksOnlyThere
<1>4. ClientOwned
  BY DEF Init, MarketInit, ClientOwned
<1>5. RowsInv
  BY SoundEmpty DEF Init, MarketInit, RowsInv, Distinct, CachedRows, SpotsListed
<1>6. LookInv /\ RequestInv
  BY DEF Init, MarketInit, LookInv, FetchSteps, RequestInv, WaitSteps, RightMarket,
         SwapAsAsked, AssetAsked, TickerOwn, Done
<1> QED BY <1>1, <1>2, <1>3, <1>4, <1>5, <1>6 DEF IInv

\* Every step keeps the invariant.
LEMMA NextInv == IInv /\ [Next]_vars => IInv'
BY TypeStep, CallStep, HeapStep, LeakStep, OwnedStep, RowsStep, LookStep, RequestStep
   DEF IInv

\* The invariant holds throughout.
LEMMA Invariance == Spec => []IInv
<1>1. Init => IInv
  BY InitInv
<1>2. IInv /\ [Next]_vars => IInv'
  BY NextInv
<1> QED BY <1>1, <1>2, PTL DEF Spec

\* The variables have their types: every pointer the calls keep is NULL or what
\* the code stores in it.
THEOREM MarketTypes == Spec => []TypeOK
<1>1. IInv => TypeOK
  BY DEF IInv
<1> QED BY <1>1, Invariance, PTL

\* Sound rows are right.
LEMMA RowsRightNow ==
  ASSUME IInv
  PROVE  RowsRight
<1>1. /\ markets \in Seq(Rows) /\ CachedRows \in Seq(Rows) /\ listing \in Seq(Coins)
      /\ Distinct(listing) /\ Sound(markets, listing) /\ Sound(CachedRows, listing)
  BY DEF IInv, TypeOK, RowsInv, CachedRows
<1>2. RowsOwn
  BY <1>1 DEF RowsOwn, Swaps, Sound
<1>3. LookupsAgree
  <2>1. SUFFICES ASSUME NEW rows \in {markets, CachedRows}, NEW r \in Swaps(rows)
                 PROVE  /\ hl_get_market_by_id(rows, r.id) = {r}
                        /\ hl_get_market(rows, [base |-> r.base, type |-> "swap"]) = {r}
    BY DEF LookupsAgree
  <2> QED BY <1>1, <2>1, SoundFound
<1> QED BY <1>2, <1>3 DEF RowsRight

\* However many entries were unreadable and however much the exchange has listed
\* since, the rows of a call and of the cache are listed swaps under their
\* positions, and every look-up finds the same one (fetch_swap_markets,
\* hl_get_asset_id, hl_get_market, hl_get_market_by_id).
THEOREM RightRows == Spec => []RowsRight
<1>1. IInv => RowsRight
  BY RowsRightNow
<1> QED BY <1>1, Invariance, PTL

\* Whatever fails, the memory of a client and of its calls has an owner, except on
\* the two paths that lose the markets (orderbook.c, client_new.c).
THEOREM OwnedMemory == Spec => []MemoryOwned
<1>1. IInv => MemoryOwned
  BY DEF IInv, LeakInv, MemoryOwned
<1> QED BY <1>1, Invariance, PTL

\* Whatever other threads write to coin_buf, books and candles of a swap are asked
\* for under its name and a ticker shows the swap asked for; whatever entries were
\* unreadable, leverage and margin of a coin outside the table are never set for a
\* market of another coin, and margin is never set without an id
\* (hl_fetch_order_book, hl_fetch_ohlcv, hl_get_ticker, hl_set_leverage,
\* hl_add_margin).
THEOREM AskedMarket == Spec => []RightMarket
<1>1. IInv => RightMarket
  BY DEF IInv, RequestInv
<1> QED BY <1>1, Invariance, PTL

-----------------------------------------------------------------------------
(* What is kept of an answer. *)

\* k holds the readable ones of the first n elements of s, in their order; idx says
\* where they stood.
Selection(s, n, k, idx) ==
  /\ idx \in [1..Len(k) -> 1..n]
  /\ \A j \in 1..Len(k) : k[j] = s[idx[j]] /\ s[idx[j]].ok
  /\ \A j \in 2..Len(k) : idx[j - 1] < idx[j]
  /\ \A i \in 1..n : s[i].ok => \E j \in 1..Len(k) : idx[j] = i

\* When at most one, at b, is unreadable, at most that one is missing.
AllBut(s, n, b) == \A i \in 1..n : i # b => s[i].ok
FewMissing(s, n, k) ==
  /\ Len(k) <= n
  /\ \A b \in Nat : AllBut(s, n, b) => Len(k) >= n - 1 /\ (b \notin 1..n => Len(k) = n)

\* k is what is kept of the first n elements.
IsKept(s, n, k) == FewMissing(s, n, k) /\ \E idx : Selection(s, n, k, idx)

\* Nothing is kept of nothing.
LEMMA KeptNone ==
  ASSUME NEW S, NEW s \in Seq(S)
  PROVE  IsKept(s, 0, <<>>)
<1>1. Selection(s, 0, <<>>, <<>>)
  BY DEF Selection
<1>2. FewMissing(s, 0, <<>>)
  BY DEF FewMissing
<1> QED BY <1>1, <1>2 DEF IsKept

\* An element that is not readable is passed over.
LEMMA KeptPast ==
  ASSUME NEW S, NEW s \in Seq(S), NEW m \in Nat, m + 1 <= Len(s), NEW k \in Seq(S),
         IsKept(s, m, k), ~ s[m + 1].ok
  PROVE  IsKept(s, m + 1, k)
<1>1. PICK idx : Selection(s, m, k, idx)
  BY DEF IsKept
<1>2. Len(k) \in Nat
  BY LenProperties
<1>3. Selection(s, m + 1, k, idx)
  BY <1>1, <1>2 DEF Selection
<1>4. ASSUME NEW b \in Nat, AllBut(s, m + 1, b)
      PROVE  Len(k) >= (m + 1) - 1 /\ b \in 1..(m + 1)
  <2>1. b = m + 1
    BY <1>4 DEF AllBut
  <2>2. AllBut(s, m, b) /\ b \notin 1..m
    BY <1>4, <2>1 DEF AllBut
  <2> QED BY <2>1, <2>2, <1>2 DEF IsKept, FewMissing
<1>5. FewMissing(s, m + 1, k)
  <2>1. Len(k) <= m + 1
    BY <1>2 DEF IsKept, FewMissing
  <2> QED BY <2>1, <1>4 DEF FewMissing
<1> QED BY <1>3, <1>5 DEF IsKept

\* A readable one is kept.
LEMMA KeptNext ==
  ASSUME NEW S, NEW s \in Seq(S), NEW m \in Nat, m + 1 <= Len(s), NEW k \in Seq(S),
         IsKept(s, m, k), s[m + 1].ok
  PROVE  IsKept(s, m + 1, Append(k, s[m + 1]))
<1>1. PICK idx : Selection(s, m, k, idx)
  BY DEF IsKept
<1> DEFINE l == Len(k)
           x == s[m + 1]
           new == Append(k, x)
           pos == [j \in 1..(l + 1) |-> IF j = l + 1 THEN m + 1 ELSE idx[j]]
<1>2. x \in S /\ l \in Nat
  BY ElementOfSeq, LenProperties
<1>3. Len(new) = l + 1 /\ new[l + 1] = x /\ \A j \in 1..l : new[j] = k[j]
  BY <1>2, AppendProperties
<1>4. pos[l + 1] = m + 1 /\ \A j \in 1..l : pos[j] = idx[j] /\ pos[j] \in 1..m
  BY <1>1, <1>2 DEF Selection
<1>5. \A j \in 1..(l + 1) : pos[j] \in 1..(m + 1)
  <2> HIDE DEF l, new, pos
  <2> TAKE j \in 1..(l + 1)
  <2>1. j \in 1..l \/ j = l + 1
    BY <1>2
  <2> QED BY <2>1, <1>4
<1>6. pos \in [1..(l + 1) -> 1..(m + 1)]
  BY <1>5
<1>7. \A j \in 1..l : k[j] = s[idx[j]] /\ s[idx[j]].ok
  BY <1>1 DEF Selection
<1> HIDE DEF l, new, pos
<1>8. \A j \in 1..(l + 1) : new[j] = s[pos[j]] /\ s[pos[j]].ok
  <2> TAKE j \in 1..(l + 1)
  <2>1. CASE j = l + 1
    BY <2>1, <1>3, <1>4
  <2>2. CASE j # l + 1
    <3>1. j \in 1..l
      BY <2>2, <1>2
    <3> QED BY <3>1, <1>3, <1>4, <1>7
  <2> QED BY <2>1, <2>2
<1>9. \A j \in 2..(l + 1) : pos[j - 1] < pos[j]
  <2> TAKE j \in 2..(l + 1)
  <2>1. j - 1 \in 1..l
    BY <1>2
  <2>2. CASE j = l + 1
    BY <2>1, <2>2, <1>2, <1>4
  <2>3. CASE j # l + 1
    <3>1. j \in 2..l /\ j \in 1..l
      BY <2>3, <1>2
    <3>2. idx[j - 1] < idx[j]
      BY <3>1, <1>1 DEF Selection, l
    <3> QED BY <2>1, <3>1, <3>2, <1>4
  <2> QED BY <2>2, <2>3
<1>10. \A i \in 1..(m + 1) : s[i].ok => \E j \in 1..(l + 1) : pos[j] = i
  <2> TAKE i \in 1..(m + 1)
  <2> HAVE s[i].ok
  <2>1. CASE i = m + 1
    BY <2>1, <1>2, <1>4
  <2>2. CASE i # m + 1
    <3>1. i \in 1..m
      BY <2>2
    <3>2. PICK j \in 1..l : idx[j] = i
      BY <3>1, <1>1 DEF Selection, l
    <3>3. j \in 1..(l + 1) /\ pos[j] = i
      BY <3>2, <1>2, <1>4
    <3> QED BY <3>3
  <2> QED BY <2>1, <2>2
<1>11. Selection(s, m + 1, new, pos)
  BY <1>3, <1>6, <1>8, <1>9, <1>10 DEF Selection
<1>12. ASSUME NEW b \in Nat, AllBut(s, m + 1, b)
       PROVE  Len(new) >= (m + 1) - 1 /\ (b \notin 1..(m + 1) => Len(new) = m + 1)
  <2>1. AllBut(s, m, b)
    BY <1>12 DEF AllBut
  <2>2. l >= m - 1 /\ (b \notin 1..m => l = m)
    BY <2>1 DEF IsKept, FewMissing, l
  <2> QED BY <2>2, <1>2, <1>3
<1>13. FewMissing(s, m + 1, new)
  <2>1. Len(new) <= m + 1
    BY <1>2, <1>3 DEF IsKept, FewMissing, l
  <2> QED BY <2>1, <1>12 DEF FewMissing
<1> QED BY <1>11, <1>13 DEF IsKept, new

\* parse_orderbook_levels keeps what it can read of the first levels.
LEMMA KeptIs ==
  ASSUME NEW S, NEW s \in Seq(S), NEW limit \in Nat
  PROVE  /\ AtMost(Len(s), limit) \in 0..Len(s)
         /\ Kept(s, limit) \in Seq(S)
         /\ IsKept(s, AtMost(Len(s), limit), Kept(s, limit))
<1> DEFINE n == AtMost(Len(s), limit)
           Step1(i, f) == IF s[i].ok THEN Append(f, s[i]) ELSE f
           step == [p \in (1..n) \X Seq(S) |-> Step1(p[1], p[2])]
           Is(f) == f = [i \in 0..n |-> IF i = 0 THEN <<>>
                                       ELSE IF s[i].ok THEN Append(f[i - 1], s[i])
                                       ELSE f[i - 1]]
           kept == CHOOSE f : Is(f)
<1>1. Len(s) \in Nat /\ n \in 0..Len(s) /\ n \in Nat
  BY LenProperties DEF AtMost
<1>2. \A i \in 1..n : s[i] \in S
  BY <1>1, ElementOfSeq
<1> HIDE DEF n
<1>3. step \in [(1..n) \X Seq(S) -> Seq(S)]
  <2>1. ASSUME NEW p \in (1..n) \X Seq(S) PROVE Step1(p[1], p[2]) \in Seq(S)
    <3>1. p[1] \in 1..n /\ p[2] \in Seq(S)
      OBVIOUS
    <3> QED BY <3>1, <1>2, AppendProperties
  <2> QED BY <2>1
<1>4. <<>> \in Seq(S)
  BY EmptySeq
<1>5. \E f \in [0..n -> Seq(S)] : f[0] = <<>> /\ \A i \in 1..n : f[i] = step[<<i, f[i - 1]>>]
  <2> DEFINE Q == Seq(S)
             base == <<>>
  <2>1. n \in Nat /\ base \in Q /\ step \in [(1..n) \X Q -> Q]
    BY <1>1, <1>3, <1>4
  <2>2. \E f : Climbs(f, n, Q, base, step)
    <3> HIDE DEF step, Q, base
    <3> QED BY <2>1, Recursion
  <2> HIDE DEF step
  <2> QED BY <2>2 DEF Climbs
<1>6. PICK g \in [0..n -> Seq(S)] : g[0] = <<>> /\ \A i \in 1..n : g[i] = step[<<i, g[i - 1]>>]
  BY <1>5
<1>7. \A i \in 1..n : g[i] = Step1(i, g[i - 1])
  <2> TAKE i \in 1..n
  <2>1. i - 1 \in 0..n
    BY <1>1
  <2>2. <<i, g[i - 1]>> \in (1..n) \X Seq(S)
    BY <2>1
  <2> QED BY <1>6, <2>2
<1>8. Is(g)
  <2>1. \A i \in 0..n : g[i] = IF i = 0 THEN <<>> ELSE Step1(i, g[i - 1])
    <3> TAKE i \in 0..n
    <3>1. i # 0 => i \in 1..n
      BY <1>1
    <3> HIDE DEF Step1
    <3> QED BY <3>1, <1>6, <1>7
  <2> QED BY <2>1
<1>9. Is(kept)
  <2> HIDE DEF Is
  <2> QED BY <1>8
<1>10. kept = [j \in 0..n |-> IF j = 0 THEN <<>> ELSE Step1(j, kept[j - 1])]
  <2> HIDE DEF kept
  <2> QED BY <1>9
<1>11. kept[0] = <<>> /\ \A i \in 1..n : kept[i] = Step1(i, kept[i - 1])
  <2> HIDE DEF kept, Step1
  <2>1. 0 \in 0..n
    BY <1>1
  <2>2. \A i \in 1..n : i \in 0..n /\ i # 0
    BY <1>1
  <2> QED BY <2>1, <2>2, <1>10
<1> DEFINE T == {m \in 0..n : kept[m] \in Seq(S) /\ IsKept(s, m, kept[m])}
<1>12. 0 \in T
  <2> HIDE DEF kept
  <2>1. kept[0] = <<>> /\ 0 \in 0..n
    BY <1>1, <1>11
  <2>2. IsKept(s, 0, <<>>)
    BY KeptNone
  <2>3. kept[0] \in Seq(S) /\ IsKept(s, 0, kept[0])
    BY <2>1, <2>2, <1>4
  <2> QED BY <2>1, <2>3
<1>13. ASSUME NEW m \in 0 .. n - 1, m \in T PROVE m + 1 \in T
  <2>1. m + 1 \in 1..n /\ m + 1 \in 0..n /\ (m + 1) - 1 = m /\ m \in Nat /\ m + 1 <= Len(s)
    BY <1>1
  <2>2. kept[m + 1] = Step1(m + 1, kept[m])
    <3> HIDE DEF kept, Step1
    <3> QED BY <1>11, <2>1
  <2>3. kept[m] \in Seq(S) /\ IsKept(s, m, kept[m]) /\ s[m + 1] \in S
    BY <1>13, <1>2, <2>1
  <2> HIDE DEF kept
  <2>4. Append(kept[m], s[m + 1]) \in Seq(S)
    BY <2>3, AppendProperties
  <2>5. CASE s[m + 1].ok
    <3>1. IsKept(s, m + 1, Append(kept[m], s[m + 1]))
      BY <2>1, <2>3, <2>5, KeptNext
    <3> QED BY <3>1, <2>1, <2>2, <2>4, <2>5
  <2>6. CASE ~ s[m + 1].ok
    <3>1. IsKept(s, m + 1, kept[m])
      BY <2>1, <2>3, <2>6, KeptPast
    <3> QED BY <3>1, <2>1, <2>2, <2>3, <2>6
  <2> QED BY <2>5, <2>6
<1>14. n \in T
  <2> HIDE DEF T
  <2>1. 0..n \subseteq T
    BY <1>1, <1>12, <1>13, Climb
  <2> QED BY <2>1, <1>1
<1>15. Kept(s, limit) = kept[n]
  BY DEF Kept, n
<1> HIDE DEF kept
<1> QED BY <1>1, <1>14, <1>15 DEF n

-----------------------------------------------------------------------------
(* Sums. *)

\* f[i] is the sum of the first i values of v.
Adds(f, n, v) ==
  /\ f \in [0..n -> Nat] /\ f[0] = 0
  /\ \A i \in 1..n : f[i] = f[i - 1] + v[i]

\* Such an f exists.
LEMMA AddsExists ==
  ASSUME NEW n \in Nat, NEW v \in [1..n -> Nat]
  PROVE  \E f : Adds(f, n, v)
<1> DEFINE step == [p \in (1..n) \X Nat |-> p[2] + v[p[1]]]
           base == 0
<1>1. base \in Nat /\ step \in [(1..n) \X Nat -> Nat]
  <2>1. ASSUME NEW p \in (1..n) \X Nat PROVE p[2] + v[p[1]] \in Nat
    <3>1. p[1] \in 1..n /\ p[2] \in Nat
      OBVIOUS
    <3>2. v[p[1]] \in Nat
      BY <3>1
    <3> QED BY <3>1, <3>2
  <2> QED BY <2>1
<1>2. PICK f : Climbs(f, n, Nat, base, step)
  <2> HIDE DEF base, step
  <2> QED BY <1>1, Recursion
<1>3. f \in [0..n -> Nat] /\ f[0] = 0
  BY <1>2 DEF Climbs
<1>4. ASSUME NEW i \in 1..n PROVE f[i] = f[i - 1] + v[i]
  <2>1. i - 1 \in 0..n
    OBVIOUS
  <2>2. <<i, f[i - 1]>> \in (1..n) \X Nat
    BY <1>3, <2>1
  <2>3. step[<<i, f[i - 1]>>] = f[i - 1] + v[i]
    BY <2>2
  <2>4. f[i] = step[<<i, f[i - 1]>>]
    <3> HIDE DEF step
    <3> QED BY <1>2 DEF Climbs
  <2> QED BY <2>3, <2>4
<1>5. Adds(f, n, v)
  BY <1>3, <1>4 DEF Adds
<1> QED BY <1>5

\* The values that belong to the numbers in s.
Only(n, v, s) == [i \in 1..n |-> IF i \in s THEN v[i] ELSE 0]

\* Sums of a set of values, and of the set without one of them.
LEMMA AddsWithout ==
  ASSUME NEW n \in Nat, NEW v \in [1..n -> Nat], NEW s \in SUBSET (1..n), NEW x \in s,
         NEW f, Adds(f, n, Only(n, v, s)), NEW g, Adds(g, n, Only(n, v, s \ {x}))
  PROVE  f[n] = v[x] + g[n]
<1> DEFINE T == {m \in 0..n : f[m] = IF m < x THEN g[m] ELSE v[x] + g[m]}
<1>1. x \in 1..n /\ v[x] \in Nat /\ f \in [0..n -> Nat] /\ g \in [0..n -> Nat] /\ f[0] = 0 /\ g[0] = 0
  BY DEF Adds
<1>2. 0 \in T
  BY <1>1
<1>3. ASSUME NEW m \in 0 .. n - 1, m \in T PROVE m + 1 \in T
  <2>1. m + 1 \in 1..n /\ m + 1 \in 0..n /\ m \in 0..n /\ m \in Nat /\ (m + 1) - 1 = m
    OBVIOUS
  <2>2. /\ f[m + 1] = f[m] + Only(n, v, s)[m + 1]
        /\ g[m + 1] = g[m] + Only(n, v, s \ {x})[m + 1]
    BY <2>1 DEF Adds
  <2>3. /\ Only(n, v, s)[m + 1] = IF m + 1 \in s THEN v[m + 1] ELSE 0
        /\ Only(n, v, s \ {x})[m + 1] = IF m + 1 \in s /\ m + 1 # x THEN v[m + 1] ELSE 0
    BY <2>1 DEF Only
  <2>4. v[m + 1] \in Nat /\ f[m] \in Nat /\ g[m] \in Nat
    BY <1>1, <2>1
  <2>5. f[m] = IF m < x THEN g[m] ELSE v[x] + g[m]
    BY <1>3
  <2>6. CASE m + 1 = x
    <3> HIDE DEF T
    <3>0. m < x /\ ~ (m + 1 < x)
      BY ONLY <2>1, <2>6
    <3>1. f[m] = g[m] /\ m + 1 \in s
      BY <2>5, <2>6, <3>0
    <3>2. f[m + 1] = f[m] + v[x] /\ g[m + 1] = g[m] + 0
      BY <2>2, <2>3, <2>6, <3>1
    <3>3. v[x] \in Nat /\ g[m] \in Nat
      BY <1>1, <2>4
    <3>4. f[m + 1] = v[x] + g[m + 1]
      BY ONLY <3>1, <3>2, <3>3
    <3> QED BY <2>1, <3>0, <3>4 DEF T
  <2>7. CASE m + 1 < x
    <3>1. f[m] = g[m] /\ m + 1 # x
      BY <1>1, <2>1, <2>5, <2>7
    <3> HIDE DEF T
    <3>2. f[m + 1] = g[m + 1]
      BY <2>2, <2>3, <3>1
    <3> QED BY <2>1, <2>7, <3>2 DEF T
  <2>8. CASE m >= x
    <3>1. f[m] = v[x] + g[m] /\ m + 1 # x /\ ~ (m + 1 < x)
      BY <1>1, <2>1, <2>5, <2>8
    <3> HIDE DEF T
    <3>2. PICK d \in Nat : d = Only(n, v, s)[m + 1] /\ d = Only(n, v, s \ {x})[m + 1]
      BY <2>3, <2>4, <3>1
    <3>3. f[m + 1] = (v[x] + g[m]) + d /\ g[m + 1] = g[m] + d
      BY <2>2, <3>1, <3>2
    <3>4. v[x] \in Nat /\ g[m] \in Nat
      BY <1>1, <2>4
    <3>5. f[m + 1] = v[x] + g[m + 1]
      BY ONLY <3>3, <3>4, d \in Nat
    <3> QED BY <2>1, <3>1, <3>5 DEF T
  <2> QED BY <1>1, <2>6, <2>7, <2>8
<1>4. 0..n \subseteq T
  <2> HIDE DEF T
  <2> QED BY <1>2, <1>3, Climb
<1> QED BY <1>1, <1>4

\* Sums of the same values are the same.
LEMMA AddsSame ==
  ASSUME NEW n \in Nat, NEW f, NEW v, Adds(f, n, v), NEW m \in Nat, NEW g, NEW w, Adds(g, m, w),
         NEW k \in Nat, k <= n, k <= m, \A i \in 1..k : v[i] = w[i]
  PROVE  f[k] = g[k]
<1> DEFINE T == {j \in 0..k : f[j] = g[j]}
<1>1. 0 \in T
  BY DEF Adds
<1>2. ASSUME NEW j \in 0 .. k - 1, j \in T PROVE j + 1 \in T
  <2>1. j + 1 \in 1..k /\ j + 1 \in 0..k /\ j + 1 \in 1..n /\ j + 1 \in 1..m /\ (j + 1) - 1 = j
    OBVIOUS
  <2>2. f[j + 1] = f[j] + v[j + 1] /\ g[j + 1] = g[j] + w[j + 1]
    BY <2>1 DEF Adds
  <2> QED BY <1>2, <2>1, <2>2
<1>3. 0..k \subseteq T
  <2> HIDE DEF T
  <2> QED BY <1>1, <1>2, Climb
<1> QED BY <1>3

\* Values that are 0 from k on add nothing.
LEMMA AddsNothing ==
  ASSUME NEW n \in Nat, NEW f, NEW v, Adds(f, n, v),
         NEW k \in 0..n, \A i \in 1..n : i > k => v[i] = 0
  PROVE  f[n] = f[k]
<1> DEFINE T == {j \in 0..n : j < k \/ f[j] = f[k]}
<1>1. 0 \in T
  OBVIOUS
<1>2. ASSUME NEW j \in 0 .. n - 1, j \in T PROVE j + 1 \in T
  <2>1. j + 1 \in 1..n /\ j + 1 \in 0..n /\ (j + 1) - 1 = j /\ j \in 0..n
    OBVIOUS
  <2>2. f[j + 1] = f[j] + v[j + 1] /\ f[j] \in Nat
    BY <2>1 DEF Adds
  <2>3. CASE j + 1 <= k
    BY <2>1, <2>3
  <2>4. CASE ~ (j + 1 <= k)
    <3>1. v[j + 1] = 0 /\ f[j] = f[k]
      BY <1>2, <2>1, <2>4
    <3> QED BY <2>1, <2>2, <3>1
  <2> QED BY <2>3, <2>4
<1>3. 0..n \subseteq T
  <2> HIDE DEF T
  <2> QED BY <1>1, <1>2, Climb
<1> QED BY <1>3

\* The sizes of the rows of b at s, added one by one in any order.
RowsSum(b, s) == MapThenSumSet(LAMBDA k : b[k].sz, s)

\* That is their sum in the order of the rows.
LEMMA SetSum ==
  ASSUME NEW m \in Nat, NEW b, NEW v \in [1..m -> Nat], \A i \in 1..m : v[i] = b[i].sz,
         NEW f, Adds(f, m, v)
  PROVE  RowsSum(b, 1..m) = f[m]
<1> DEFINE S == SUBSET (1..m)
           Part(s) == (CHOOSE g : Adds(g, m, Only(m, v, s)))[m]
           pick(s) == CHOOSE x \in s : TRUE
           Is(h) == h = [s \in S |-> IF s = {} THEN 0 ELSE b[pick(s)].sz + h[s \ {pick(s)}]]
           iter == CHOOSE h : Is(h)
<1>1. v \in [1..m -> Nat] /\ m \in Nat
  OBVIOUS
<1>0. \A i \in 1..m : v[i] = b[i].sz
  OBVIOUS
<1>2. RowsSum(b, 1..m) = iter[1..m]
  BY DEF RowsSum, MapThenSumSet, MapThenFoldSet
<1>3. ASSUME NEW s \in S
      PROVE  \E g : Adds(g, m, Only(m, v, s)) /\ Part(s) = g[m]
  <2>1. Only(m, v, s) \in [1..m -> Nat]
    BY <1>1 DEF Only
  <2>2. \E g : Adds(g, m, Only(m, v, s))
    BY <1>1, <2>1, AddsExists
  <2> QED BY <2>2
<1>4. ASSUME NEW s \in S, NEW x \in s
      PROVE  Part(s) = b[x].sz + Part(s \ {x}) /\ s \ {x} \in S
  <2>1. x \in 1..m /\ s \ {x} \in S
    OBVIOUS
  <2>2. PICK g : Adds(g, m, Only(m, v, s)) /\ Part(s) = g[m]
    BY <1>3
  <2>3. PICK h : Adds(h, m, Only(m, v, s \ {x})) /\ Part(s \ {x}) = h[m]
    BY <1>3, <2>1
  <2>4. v[x] = b[x].sz
    BY <2>1, <1>0
  <2>5. g[m] = v[x] + h[m]
    <3>1. Adds(g, m, Only(m, v, s))
      BY <2>2
    <3>2. Adds(h, m, Only(m, v, s \ {x}))
      BY <2>3
    <3> QED BY <3>1, <3>2, AddsWithout
  <2> HIDE DEF Part
  <2> QED BY <2>1, <2>2, <2>3, <2>4, <2>5
<1>5. Part({}) = 0
  <2>1. PICK g : Adds(g, m, Only(m, v, {})) /\ Part({}) = g[m]
    <3> HIDE DEF Part
    <3> QED BY <1>3
  <2> DEFINE w == Only(m, v, {})
             z == 0
  <2>2. z \in 0..m /\ \A i \in 1..m : i > z => w[i] = 0
    BY <1>1 DEF Only
  <2>3. g[m] = g[z]
    <3> HIDE DEF z, w
    <3> QED BY <1>1, <2>1, <2>2, AddsNothing DEF w
  <2>4. g[z] = 0
    BY <2>1 DEF Adds
  <2> QED BY <2>1, <2>3, <2>4
<1>6. \A s \in S : s # {} => pick(s) \in s
  OBVIOUS
<1>7. Is([s \in S |-> Part(s)])
  <2> DEFINE h == [s \in S |-> Part(s)]
  <2>1. \A s \in S : h[s] = Part(s)
    OBVIOUS
  <2>2. ASSUME NEW s \in S
        PROVE  Part(s) = IF s = {} THEN 0 ELSE b[pick(s)].sz + h[s \ {pick(s)}]
    <3>1. CASE s = {}
      BY <3>1, <1>5
    <3>2. CASE s # {}
      <4> HIDE DEF Part, pick, h
      <4>1. pick(s) \in s
        BY <3>2, <1>6
      <4>2. Part(s) = b[pick(s)].sz + Part(s \ {pick(s)}) /\ s \ {pick(s)} \in S
        BY <4>1, <1>4
      <4> QED BY <3>2, <4>2, <2>1
    <3> QED BY <3>1, <3>2
  <2> HIDE DEF Part, pick
  <2> QED BY <2>2
<1>8. Is(iter)
  <2> HIDE DEF Is
  <2> QED BY <1>7
<1> DEFINE Bad == {s \in S : iter[s] # Part(s)}
           Sizes == {Cardinality(s) : s \in Bad}
<1>9. \A s \in S : IsFiniteSet(s) /\ Cardinality(s) \in Nat
  <2> TAKE s \in S
  <2>1. IsFiniteSet(1..m)
    BY <1>1, FS_Interval
  <2>2. IsFiniteSet(s)
    BY <2>1, FS_Subset
  <2> QED BY <2>2, FS_CardinalityType
<1>10. Bad = {}
  <2> SUFFICES ASSUME Bad # {} PROVE FALSE
    OBVIOUS
  <2>1. Sizes \subseteq Nat /\ Sizes # {}
    <3> HIDE DEF Part, iter
    <3> QED BY <1>9
  <2>2. PICK c \in Sizes : \A d \in Sizes : c <= d
    <3> HIDE DEF Sizes
    <3> QED BY <2>1, LeastNumber
  <2>3. PICK s \in Bad : Cardinality(s) = c
    OBVIOUS
  <2> DEFINE x == pick(s)
  <2> HIDE DEF Part, iter, pick
  <2>4. s \in S /\ iter[s] # Part(s)
    OBVIOUS
  <2>5. iter[s] = IF s = {} THEN 0 ELSE b[pick(s)].sz + iter[s \ {pick(s)}]
    BY <1>8, <2>4
  <2>6. s # {}
    BY <1>5, <2>4, <2>5
  <2>7. x \in s
    BY <2>4, <2>6, <1>6
  <2>8. Part(s) = b[x].sz + Part(s \ {x}) /\ s \ {x} \in S
    BY <1>4, <2>4, <2>7
  <2>9. s \ {x} \in Bad
    BY <2>4, <2>5, <2>6, <2>8
  <2>10. Cardinality(s \ {x}) = Cardinality(s) - 1
    BY <1>9, <2>4, <2>7, FS_RemoveElement
  <2>11. Cardinality(s \ {x}) \in Sizes /\ Cardinality(s) \in Nat
    BY <2>4, <2>9, <1>9
  <2>12. c <= Cardinality(s \ {x})
    BY <2>2, <2>11
  <2> QED BY <2>3, <2>10, <2>11, <2>12
<1>11. iter[1..m] = Part(1..m)
  <2> HIDE DEF Part, iter
  <2> QED BY <1>10
<1>12. PICK g : Adds(g, m, Only(m, v, 1..m)) /\ Part(1..m) = g[m]
  <2> HIDE DEF Part
  <2> QED BY <1>3
<1>13. \A i \in 1..m : Only(m, v, 1..m)[i] = v[i]
  BY DEF Only
<1>14. g[m] = f[m]
  <2> HIDE DEF Part
  <2>1. Adds(f, m, v)
    OBVIOUS
  <2>2. m <= m
    BY <1>1
  <2> QED BY <1>1, <1>12, <1>13, <2>1, <2>2, AddsSame
<1> HIDE DEF Part, iter
<1> QED BY <1>2, <1>11, <1>12, <1>14

-----------------------------------------------------------------------------
(* Times at which candles open. *)

\* Multiples of the frame in the interval, oldest first.
IsOpen(times, from, to, frame) ==
  /\ times \in Seq(Nat)
  /\ \A i \in 1..Len(times) : times[i] % frame = 0 /\ from <= times[i] /\ times[i] <= to
  /\ \A i, j \in 1..Len(times) : i < j => times[i] < times[j]

\* What OpenTimes returns.
LEMMA OpenTimesIs ==
  ASSUME NEW from \in Nat, NEW to \in Nat, NEW frame \in Nat \ {0}
  PROVE  IsOpen(OpenTimes(from, to, frame), from, to, frame)
<1> DEFINE start == from + frame - 1
           first == start \div frame
           last == to \div frame
           n == IF first > last THEN 0 ELSE last - first + 1
           times == [i \in 1..n |-> (first + i - 1) * frame]
<1>1. /\ start \in Nat /\ first \in Nat /\ last \in Nat
      /\ start = first * frame + (start % frame) /\ start % frame \in 0 .. frame - 1
      /\ to = last * frame + (to % frame) /\ to % frame \in 0 .. frame - 1
  <2>1. start \in Nat
    OBVIOUS
  <2> HIDE DEF start
  <2> QED BY <2>1, Division
<1>2. first * frame \in Nat /\ last * frame \in Nat
  <2> HIDE DEF first, last
  <2> QED BY <1>1, Products
<1>3. from <= first * frame /\ last * frame <= to
  <2>1. first * frame + (start % frame) = from + frame - 1
    BY <1>1
  <2> HIDE DEF first, last, start
  <2> QED BY <1>1, <1>2, <2>1
<1>4. n \in Nat
  BY <1>1
<1>5. OpenTimes(from, to, frame) = times
  BY DEF OpenTimes
<1>6. ASSUME NEW i \in 1..n
      PROVE  /\ first + i - 1 \in Nat /\ first <= first + i - 1 /\ first + i - 1 <= last
             /\ times[i] = (first + i - 1) * frame
  BY <1>1
<1> HIDE DEF first, last, n, start
<1>7. ASSUME NEW i \in 1..n
      PROVE  times[i] \in Nat /\ times[i] % frame = 0 /\ from <= times[i] /\ times[i] <= to
  <2> DEFINE q == first + i - 1
  <2>1. q \in Nat /\ first <= q /\ q <= last /\ times[i] = q * frame
    BY <1>6
  <2> HIDE DEF q, times
  <2>2. q * frame \in Nat /\ first * frame <= q * frame /\ q * frame <= last * frame
    BY <1>1, <2>1, Products
  <2>3. (q * frame) % frame = 0
    <3> DEFINE z == 0
    <3>1. z \in Nat /\ z < frame
      OBVIOUS
    <3>2. (q * frame + z) % frame = z
      <4> HIDE DEF z
      <4> QED BY <2>1, <3>1, SmallRest
    <3> QED BY <2>2, <3>2
  <2> QED BY <1>2, <1>3, <2>1, <2>2, <2>3
<1>8. times \in Seq(Nat) /\ Len(times) = n
  <2>1. times \in [1..n -> Nat]
    BY <1>7
  <2> HIDE DEF times
  <2> QED BY <1>4, <2>1, SeqDef, LenProperties
<1>9. ASSUME NEW i \in 1..n, NEW j \in 1..n, i < j
      PROVE  times[i] < times[j]
  <2> DEFINE p == first + i - 1
             q == first + j - 1
  <2>1. p \in Nat /\ q \in Nat /\ p + 1 <= q /\ times[i] = p * frame /\ times[j] = q * frame
    BY <1>1, <1>6, <1>9
  <2> HIDE DEF p, q, times
  <2>2. (p + 1) * frame <= q * frame /\ (p + 1) * frame = p * frame + frame
    BY <2>1, Products
  <2>3. p * frame \in Nat /\ q * frame \in Nat
    BY <2>1, Products
  <2> QED BY <2>1, <2>2, <2>3
<1> HIDE DEF times
<1> QED BY <1>5, <1>7, <1>8, <1>9 DEF IsOpen

\* The interval of the last limit frames before a time that is no multiple holds
\* limit multiples.
LEMMA NewestTimes ==
  ASSUME NEW until \in Nat, NEW frame \in Nat \ {0}, NEW limit \in Nat \ {0},
         until % frame # 0, limit * frame <= until,
         NEW from, from = until - limit * frame
  PROVE  /\ from \in Nat
         /\ Len(OpenTimes(from, until, frame)) = limit
         /\ \A i \in 1..limit : OpenTimes(from, until, frame)[i] > from
<1> DEFINE q == until \div frame
           r == until % frame
           p == q - limit
           first == (from + frame - 1) \div frame
           last == q
<1>1. q \in Nat /\ r \in 0 .. frame - 1 /\ r # 0 /\ until = q * frame + r
  BY Division
<1> HIDE DEF q, r
<1>2. limit * frame \in Nat /\ q * frame \in Nat /\ from \in Nat
  <2>1. limit * frame \in Nat /\ q * frame \in Nat
    BY <1>1, Products
  <2> QED BY <2>1
<1>3. limit <= q
  <2> SUFFICES ASSUME q + 1 <= limit PROVE FALSE
    BY <1>1
  <2>1. (q + 1) * frame <= limit * frame /\ (q + 1) * frame = q * frame + frame
    BY <1>1, Products
  <2> QED BY <1>1, <1>2, <2>1
<1>4. p \in Nat /\ q = p + limit
  BY <1>1, <1>3
<1> HIDE DEF p
<1>5. q * frame = p * frame + limit * frame /\ p * frame \in Nat
  BY <1>4, Products
<1>6. from = p * frame + r
  <2>1. from = until - limit * frame /\ until = q * frame + r
    BY <1>1
  <2> QED BY <1>1, <1>2, <1>5, <2>1
<1>7. (p + 1) * frame = p * frame + frame /\ p + 1 \in Nat /\ (p + 1) * frame \in Nat
  BY <1>4, Products
<1>8. first = p + 1
  <2> DEFINE x == r - 1
  <2>1. x \in Nat /\ x < frame
    BY <1>1
  <2>2. from + frame - 1 = (p + 1) * frame + x
    <3> DEFINE a == p * frame
               b == (p + 1) * frame
    <3>1. a \in Nat /\ b = a + frame
      BY <1>5, <1>7
    <3>2. from = a + r
      BY <1>6
    <3>3. r \in Nat
      BY <1>1
    <3>4. x = r - 1
      OBVIOUS
    <3> HIDE DEF a, b, x
    <3>5. from + frame - 1 = b + x
      BY ONLY <3>1, <3>2, <3>3, <3>4, frame \in Nat
    <3> QED BY <3>5 DEF b
  <2> HIDE DEF x
  <2>3. ((p + 1) * frame + x) \div frame = p + 1
    BY <1>7, <2>1, Quotient
  <2> QED BY <2>2, <2>3
<1> DEFINE n == IF first > last THEN 0 ELSE last - first + 1
           times == [i \in 1..n |-> (first + i - 1) * frame]
<1>9. OpenTimes(from, until, frame) = times
  BY DEF OpenTimes, q
<1> HIDE DEF first
<1>10. n = limit
  BY <1>3, <1>4, <1>8
<1>11. ASSUME NEW i \in 1..limit
       PROVE  times[i] \in Nat /\ times[i] > from
  <2> DEFINE k == first + i - 1
  <2>1. k \in Nat /\ p + 1 <= k /\ times[i] = k * frame
    BY <1>4, <1>8, <1>10
  <2> HIDE DEF k, times, n
  <2>2. (p + 1) * frame <= k * frame /\ k * frame \in Nat
    BY <1>7, <2>1, Products
  <2> QED BY <1>1, <1>5, <1>6, <1>7, <2>1, <2>2
<1>12. Len(times) = limit
  <2>1. times \in [1..limit -> Nat]
    BY <1>10, <1>11
  <2> HIDE DEF times
  <2> QED BY <2>1, SeqDef, LenProperties
<1> HIDE DEF times
<1> QED BY <1>2, <1>9, <1>11, <1>12

-----------------------------------------------------------------------------
(* What is computed from a book and from candles. *)

\* The volume is the sum over the levels up to the depth.
LEMMA VolumeIs ==
  ASSUME NEW side \in Sides, NEW S, book[side] \in Seq(S),
         \A i \in 1..Len(book[side]) : book[side][i].sz \in Nat,
         NEW depth \in Nat
  PROVE  hl_orderbook_get_volume(side, depth) =
           MapThenSumSet(LAMBDA k : book[side][k].sz,
                         {k \in DOMAIN book[side] : depth = 0 \/ k <= depth})
<1> DEFINE b == book[side]
           n == IF depth = 0 THEN Len(book[side]) ELSE AtMost(Len(book[side]), depth)
           v == [i \in 1..n |-> b[i].sz]
           Is(f) == f = [i \in 0..n |-> IF i = 0 THEN 0 ELSE f[i - 1] + book[side][i].sz]
           total == CHOOSE f : Is(f)
           D == {k \in DOMAIN book[side] : depth = 0 \/ k <= depth}
<1>1. Len(b) \in Nat /\ DOMAIN b = 1..Len(b) /\ n \in 0..Len(b) /\ n \in Nat
  BY LenProperties DEF AtMost
<1>2. D = 1..n
  BY <1>1 DEF AtMost
<1>3. v \in [1..n -> Nat] /\ \A i \in 1..n : v[i] = book[side][i].sz
  <2>1. \A i \in 1..n : i \in 1..Len(b)
    BY <1>1
  <2> HIDE DEF n
  <2> QED BY <2>1
<1>4. hl_orderbook_get_volume(side, depth) = total[n]
  BY DEF hl_orderbook_get_volume
<1>5. RowsSum(b, D) = MapThenSumSet(LAMBDA k : book[side][k].sz, D)
  BY DEF RowsSum, MapThenSumSet, MapThenFoldSet
<1> HIDE DEF n
<1>6. PICK g : Adds(g, n, v)
  <2> HIDE DEF v
  <2> QED BY <1>1, <1>3, AddsExists
<1>7. \A i \in 0..n : i = 0 \/ i \in 1..n
  BY <1>1
<1>8. Is(g)
  <2>1. \A i \in 0..n : g[i] = IF i = 0 THEN 0 ELSE g[i - 1] + book[side][i].sz
    <3> HIDE DEF v
    <3> QED BY <1>3, <1>6, <1>7 DEF Adds
  <2>2. g \in [0..n -> Nat]
    BY <1>6 DEF Adds
  <2> HIDE DEF v
  <2> QED BY <2>1, <2>2
<1>9. Is(total)
  <2> HIDE DEF Is
  <2> QED BY <1>8
<1>10. total = g
  <2>1. \A i \in 0..n : total[i] = IF i = 0 THEN 0 ELSE total[i - 1] + book[side][i].sz
    <3>1. total = [i \in 0..n |-> IF i = 0 THEN 0 ELSE total[i - 1] + book[side][i].sz]
      <4> HIDE DEF total
      <4> QED BY <1>9
    <3> HIDE DEF total
    <3> QED BY <3>1
  <2> DEFINE T == {m \in 0..n : total[m] = g[m]}
  <2>2. 0 \in T
    <3> HIDE DEF total
    <3> QED BY <1>1, <2>1, <1>6 DEF Adds
  <2>3. ASSUME NEW m \in 0 .. n - 1, m \in T PROVE m + 1 \in T
    <3>1. m + 1 \in 0..n /\ m + 1 \in 1..n /\ m + 1 # 0 /\ (m + 1) - 1 = m
      BY <1>1
    <3> HIDE DEF total, v
    <3>2. g[m + 1] = g[m] + book[side][m + 1].sz
      BY <3>1, <1>3, <1>6 DEF Adds
    <3>3. total[m + 1] = total[m] + book[side][m + 1].sz
      BY <3>1, <2>1
    <3> QED BY <2>3, <3>1, <3>2, <3>3
  <2>4. 0..n \subseteq T
    <3> HIDE DEF T
    <3> QED BY <1>1, <2>2, <2>3, Climb
  <2>5. total = [i \in 0..n |-> IF i = 0 THEN 0 ELSE total[i - 1] + book[side][i].sz]
    <3> HIDE DEF total
    <3> QED BY <1>9
  <2>6. g \in [0..n -> Nat]
    BY <1>6 DEF Adds
  <2> HIDE DEF total
  <2> QED BY <2>4, <2>5, <2>6
<1>11. RowsSum(b, 1..n) = g[n]
  <2>1. \A i \in 1..n : v[i] = b[i].sz
    OBVIOUS
  <2> HIDE DEF b, v
  <2> QED BY <1>1, <1>3, <1>6, <2>1, SetSum
<1>12. RowsSum(b, D) = g[n]
  <2> HIDE DEF b, D
  <2> QED BY <1>2, <1>11
<1> HIDE DEF total, b, D
<1> QED BY <1>4, <1>5, <1>10, <1>12 DEF D

\* The candles a result may hold.
Shown == [t : 0..MaxTime, high : Nat, low : Nat, close : Nat, ok : BOOLEAN]

\* What is averaged.
Weights(u) == [i \in 1..Len(candles) |-> Twice(candles[i], u)]

\* A candle of a result has prices.
LEMMA RowShown ==
  ASSUME candles \in Seq(Shown), NEW i \in 1..Len(candles)
  PROVE  candles[i].high \in Nat /\ candles[i].low \in Nat /\ candles[i].close \in Nat
<1>1. candles[i] \in Shown
  BY ElementOfSeq
<1> QED BY <1>1 DEF Shown

\* So it has what is averaged.
LEMMA TwiceShown ==
  ASSUME candles \in Seq(Shown), NEW i \in 1..Len(candles), NEW u
  PROVE  Twice(candles[i], u) \in Nat
BY RowShown DEF Twice

\* The running sum that StatsRight compares with.
LEMMA RunningSum ==
  ASSUME candles \in Seq(Shown), NEW u,
         NEW sum, sum = CHOOSE f : f = [i \in 0..Len(candles) |->
                          IF i = 0 THEN 0 ELSE f[i - 1] + Twice(candles[i], u)]
  PROVE  Adds(sum, Len(candles), Weights(u))
<1> DEFINE n == Len(candles)
           Is(f) == f = [i \in 0..n |->
                      IF i = 0 THEN 0 ELSE f[i - 1] + Twice(candles[i], u)]
<1>1. n \in Nat /\ Weights(u) \in [1..n -> Nat]
  <2>1. n \in Nat
    BY LenProperties
  <2>2. \A i \in 1..n : Twice(candles[i], u) \in Nat
    BY TwiceShown
  <2> QED BY <2>1, <2>2 DEF Weights
<1>2. PICK g : Adds(g, n, Weights(u))
  <2> HIDE DEF n
  <2> QED BY <1>1, AddsExists
<1>3. ASSUME NEW i \in 0..n
      PROVE  g[i] = IF i = 0 THEN 0 ELSE g[i - 1] + Twice(candles[i], u)
  <2>1. CASE i = 0
    BY <2>1, <1>2 DEF Adds
  <2>2. CASE i # 0
    <3>1. i \in 1..n /\ i - 1 \in 0..n
      BY <1>1, <2>2
    <3>2. g[i] = g[i - 1] + Weights(u)[i] /\ g[i - 1] \in Nat
      BY <3>1, <1>2 DEF Adds
    <3>3. Weights(u)[i] = Twice(candles[i], u)
      BY <3>1 DEF Weights
    <3>4. Twice(candles[i], u) \in Nat
      BY <3>1, TwiceShown
    <3> HIDE DEF n
    <3> QED BY <2>2, <3>2, <3>3, <3>4
  <2> QED BY <2>1, <2>2
<1>4. Is(g)
  <2>1. g \in [0..n -> Nat]
    BY <1>2 DEF Adds
  <2> HIDE DEF n
  <2> QED BY <1>3, <2>1
<1>5. Is(sum)
  <2>1. sum = CHOOSE f : Is(f)
    OBVIOUS
  <2> HIDE DEF Is
  <2> QED BY <1>4, <2>1
<1> HIDE DEF n
<1>6. sum = [i \in 0..n |-> IF i = 0 THEN 0 ELSE sum[i - 1] + Twice(candles[i], u)]
  BY <1>5
<1> DEFINE T == {m \in 0..n : sum[m] = g[m]}
<1>7. 0 \in T
  <2>1. 0 \in 0..n
    BY <1>1
  <2>2. sum[0] = 0
    BY <1>6, <2>1
  <2>3. g[0] = 0
    BY <1>2 DEF Adds
  <2> QED BY <2>1, <2>2, <2>3
<1>8. ASSUME NEW m \in 0 .. n - 1, m \in T PROVE m + 1 \in T
  <2>1. m + 1 \in 0..n /\ m + 1 # 0 /\ (m + 1) - 1 = m
    BY <1>1
  <2>2. sum[m + 1] = sum[m] + Twice(candles[m + 1], u)
    BY <1>6, <2>1
  <2>3. g[m + 1] = g[m] + Twice(candles[m + 1], u)
    BY <1>3, <2>1
  <2>4. sum[m] = g[m]
    BY <1>8
  <2> QED BY <2>1, <2>2, <2>3, <2>4
<1>9. 0..n \subseteq T
  <2> HIDE DEF T
  <2> QED BY <1>1, <1>7, <1>8, Climb
<1>10. sum = g
  <2>1. \A m \in 0..n : sum[m] = g[m]
    BY <1>9
  <2>2. g \in [0..n -> Nat]
    BY <1>2 DEF Adds
  <2> QED BY <1>6, <2>1, <2>2
<1> QED BY <1>2, <1>10 DEF n

\* The moving average divides the difference of two running sums.
LEMMA AverageIs ==
  ASSUME candles \in Seq(Shown), NEW u, NEW sum, Adds(sum, Len(candles), Weights(u)),
         NEW period \in 1..Len(candles), NEW i \in period..Len(candles)
  PROVE  hl_ohlcvs_calculate_sma(period, u)[i] = sum[i] - sum[i - period]
<1> DEFINE n == Len(candles)
           o == i - period
           c(j) == candles[i - period + j]
           Is(f) == f = [j \in 0..period |-> IF j = 0 THEN 0 ELSE f[j - 1] + Twice(c(j), u)]
           part == CHOOSE f : Is(f)
           g == [j \in 0..period |-> sum[o + j] - sum[o]]
<1>1. n \in Nat /\ DOMAIN candles = 1..n /\ o \in 0..n /\ o + period = i /\ i \in 1..n /\ ~ (i < period) /\ period \in Nat
  BY LenProperties
<1>2. hl_ohlcvs_calculate_sma(period, u)[i] = part[period]
  BY <1>1 DEF hl_ohlcvs_calculate_sma
<1>3. ASSUME NEW j \in 0..period PROVE o + j \in 0..n /\ sum[o + j] \in Nat /\ sum[o] \in Nat
  <2>1. o + j \in 0..n
    BY <1>1
  <2> HIDE DEF n, o
  <2> QED BY <1>1, <2>1 DEF Adds, n
<1>4. ASSUME NEW j \in 0..period
      PROVE  g[j] = IF j = 0 THEN 0 ELSE g[j - 1] + Twice(c(j), u)
  <2>1. CASE j = 0
    <3>1. g[j] = sum[o + j] - sum[o] /\ o + j = o
      BY <2>1, <1>1
    <3> QED BY <2>1, <3>1, <1>3
  <2>2. CASE j # 0
    <3> DEFINE k == o + j
    <3>1. j - 1 \in 0..period /\ k \in 1..n /\ k - 1 = o + (j - 1)
      BY <1>1, <2>2
    <3>2. g[j] = sum[k] - sum[o] /\ g[j - 1] = sum[k - 1] - sum[o]
      BY <3>1
    <3>3. sum[k] = sum[k - 1] + Weights(u)[k]
      BY <3>1 DEF Adds
    <3>4. Weights(u)[k] = Twice(candles[k], u)
      BY <3>1 DEF Weights
    <3>5. Twice(candles[k], u) \in Nat
      BY <3>1, TwiceShown
    <3>6. sum[k - 1] \in Nat /\ sum[o] \in Nat
      BY <3>1, <1>3
    <3>7. c(j) = candles[k]
      OBVIOUS
    <3> HIDE DEF c, g, k, o
    <3> QED BY <2>2, <3>2, <3>3, <3>4, <3>5, <3>6, <3>7
  <2> QED BY <2>1, <2>2
<1>5. Is(part)
  <2>1. Is(g)
    <3> HIDE DEF c
    <3> QED BY <1>4
  <2> HIDE DEF Is
  <2> QED BY <2>1
<1>6. part = [j \in 0..period |-> IF j = 0 THEN 0 ELSE part[j - 1] + Twice(c(j), u)]
  <2> HIDE DEF part
  <2> QED BY <1>5
<1> HIDE DEF part, g, c
<1> DEFINE T == {m \in 0..period : part[m] = g[m]}
<1>7. 0 \in T
  <2>1. 0 \in 0..period
    BY <1>1
  <2>2. part[0] = 0
    BY <1>6, <2>1
  <2> QED BY <2>1, <2>2, <1>4
<1>8. ASSUME NEW m \in 0 .. period - 1, m \in T PROVE m + 1 \in T
  <2>1. m + 1 \in 0..period /\ m + 1 # 0 /\ (m + 1) - 1 = m
    BY <1>1
  <2>2. part[m + 1] = part[m] + Twice(c(m + 1), u)
    BY <1>6, <2>1
  <2>3. g[m + 1] = g[m] + Twice(c(m + 1), u)
    BY <1>4, <2>1
  <2>4. part[m] = g[m]
    BY <1>8
  <2> QED BY <2>1, <2>2, <2>3, <2>4
<1>9. period \in T
  <2>1. 0..period \subseteq T
    <3> HIDE DEF T
    <3> QED BY <1>1, <1>7, <1>8, Climb
  <2> QED BY <1>1, <2>1
<1>10. g[period] = sum[i] - sum[i - period]
  BY <1>1 DEF g
<1> QED BY <1>2, <1>9, <1>10

\* The greatest and the least number of a set in which it is known.
LEMMA MaxIs ==
  ASSUME NEW S \in SUBSET Nat, NEW x \in S, \A y \in S : y <= x
  PROVE  Max(S) = x
<1> DEFINE Is(m) == m \in S /\ \A y \in S : m >= y
<1>1. Is(x) /\ Max(S) = CHOOSE m : Is(m)
  BY DEF Max
<1>2. Is(Max(S))
  <2> HIDE DEF Is
  <2> QED BY <1>1
<1>3. Max(S) >= x /\ Max(S) <= x /\ Max(S) \in Nat
  BY <1>2
<1> QED BY <1>3

\* The least number of a set is the one below the others.
LEMMA MinIs ==
  ASSUME NEW S \in SUBSET Nat, NEW x \in S, \A y \in S : x <= y
  PROVE  Min(S) = x
<1> DEFINE Is(m) == m \in S /\ \A y \in S : m =< y
<1>1. Is(x) /\ Min(S) = CHOOSE m : Is(m)
  BY DEF Min
<1>2. Is(Min(S))
  <2> HIDE DEF Is
  <2> QED BY <1>1
<1>3. Min(S) >= x /\ Min(S) <= x /\ Min(S) \in Nat
  BY <1>2
<1> QED BY <1>3

\* The end of a window that does not wrap around.
LEMMA WindowIs ==
  ASSUME candles \in Seq(Shown), NEW start \in 0..(Len(candles) - 1), NEW count \in Nat \ {0},
         start + count < Width
  PROVE  /\ WindowEnd(start, count) \in start + 1..Len(candles)
         /\ {i \in 1..Len(candles) : start < i /\ i <= start + count} = start + 1..WindowEnd(start, count)
<1>1. Len(candles) \in Nat /\ start + count \in 0..Width - 1 /\ Width \in Nat \ {0}
  BY LenProperties, WidthAssumption
<1>2. (start + count) % Width = start + count
  BY <1>1
<1>3. WindowEnd(start, count) = IF start + count > Len(candles) THEN Len(candles) ELSE start + count
  BY <1>2 DEF WindowEnd
<1> QED BY <1>1, <1>3

\* The highest high is the greatest of its window.
LEMMA HighestIs ==
  ASSUME candles \in Seq(Shown), NEW start \in 0..(Len(candles) - 1), NEW count \in Nat \ {0},
         start + count < Width
  PROVE  hl_ohlcvs_highest_high(start, count) =
           Max({candles[i].high : i \in {i \in 1..Len(candles) : start < i /\ i <= start + count}})
<1> DEFINE e == WindowEnd(start, count)
           next(i, x) == IF i <= start THEN 0 ELSE IF candles[i].high > x THEN candles[i].high ELSE x
           Is(f) == f = [i \in 0..e |-> IF i <= start THEN 0
                                        ELSE IF candles[i].high > f[i - 1] THEN candles[i].high
                                        ELSE f[i - 1]]
           high == CHOOSE f : Is(f)
           step == [p \in (1..e) \X Nat |-> next(p[1], p[2])]
           base == 0
<1>1. /\ Len(candles) \in Nat /\ start \in Nat /\ e \in start + 1..Len(candles) /\ e \in Nat
      /\ {i \in 1..Len(candles) : start < i /\ i <= start + count} = start + 1..e
      /\ count # 0 /\ ~ (start >= Len(candles))
  BY LenProperties, WindowIs
<1>2. hl_ohlcvs_highest_high(start, count) = high[e]
  BY <1>1 DEF hl_ohlcvs_highest_high
<1> HIDE DEF e
<1>3. \A i \in 1..e : candles[i].high \in Nat
  BY <1>1, RowShown
<1>4. base \in Nat /\ step \in [(1..e) \X Nat -> Nat]
  <2>1. ASSUME NEW p \in (1..e) \X Nat PROVE next(p[1], p[2]) \in Nat
    <3>1. p[1] \in 1..e /\ p[2] \in Nat
      OBVIOUS
    <3> QED BY <3>1, <1>3
  <2> HIDE DEF next
  <2> QED BY <2>1
<1>5. PICK g : Climbs(g, e, Nat, base, step)
  <2> HIDE DEF base, step
  <2> QED BY <1>1, <1>4, Recursion
<1>6. g \in [0..e -> Nat] /\ g[0] = 0
  BY <1>5 DEF Climbs
<1>7. ASSUME NEW i \in 0..e PROVE g[i] = next(i, g[i - 1])
  <2>1. CASE i = 0
    BY <1>1, <1>6, <2>1
  <2>2. CASE i # 0
    <3>1. i \in 1..e /\ i - 1 \in 0..e
      BY <1>1, <2>2
    <3>2. <<i, g[i - 1]>> \in (1..e) \X Nat
      BY <1>6, <3>1
    <3>3. step[<<i, g[i - 1]>>] = next(i, g[i - 1])
      <4> HIDE DEF next
      <4> QED BY <3>2
    <3>4. g[i] = step[<<i, g[i - 1]>>]
      <4> HIDE DEF step, base
      <4> QED BY <1>5, <3>1 DEF Climbs
    <3> QED BY <3>3, <3>4
  <2> QED BY <2>1, <2>2
<1>8. Is(high)
  <2>1. Is(g)
    <3> HIDE DEF step
    <3> QED BY <1>6, <1>7
  <2> HIDE DEF Is
  <2> QED BY <2>1
<1>9. \A i \in 0..e : high[i] = next(i, high[i - 1])
  <2>1. high = [i \in 0..e |-> next(i, high[i - 1])]
    <3> HIDE DEF high
    <3> QED BY <1>8
  <2> HIDE DEF high, next
  <2> QED BY <2>1
<1> HIDE DEF high, step, base
<1> DEFINE Peak(m) == \E k \in start + 1..m : high[m] = candles[k].high
           Above(m) == \A k \in start + 1..m : candles[k].high <= high[m]
           T == {m \in 0..e : high[m] \in Nat /\ (m <= start => high[m] = 0)
                               /\ (m > start => Peak(m) /\ Above(m))}
<1>10. 0 \in T
  <2>1. 0 \in 0..e /\ 0 <= start /\ ~ (0 > start)
    BY <1>1
  <2>2. high[0] = 0
    BY <1>9, <2>1
  <2> QED BY <2>1, <2>2
<1>11. ASSUME NEW m \in 0 .. e - 1, m \in T PROVE m + 1 \in T
  <2>1. m + 1 \in 0..e /\ m + 1 \in 1..e /\ (m + 1) - 1 = m
    BY <1>1
  <2>2. high[m + 1] = next(m + 1, high[m]) /\ high[m] \in Nat /\ candles[m + 1].high \in Nat
    BY <1>3, <1>9, <1>11, <2>1
  <2>3. high[m + 1] \in Nat
    BY <2>2
  <2>4. CASE m + 1 <= start
    <3>1. high[m + 1] = 0
      BY <2>2, <2>4
    <3> QED BY <1>1, <2>1, <2>4, <3>1
  <2>5. CASE m = start
    <3>1. high[m] = 0
      BY <1>1, <1>11, <2>5
    <3>2. high[m + 1] = candles[m + 1].high
      BY <1>1, <2>2, <2>5, <3>1
    <3>3. m + 1 \in start + 1..m + 1 /\ \A k \in start + 1..m + 1 : k = m + 1
      BY <1>1, <2>5
    <3> HIDE DEF next
    <3>4. Peak(m + 1) /\ Above(m + 1)
      <4>1. Peak(m + 1)
        BY <3>2, <3>3
      <4>2. Above(m + 1)
        BY <2>2, <3>2, <3>3
      <4> QED BY <4>1, <4>2
    <3> HIDE DEF Peak, Above
    <3> QED BY <1>1, <2>1, <2>3, <2>5, <3>4
  <2>6. CASE m > start
    <3>1. Peak(m) /\ Above(m)
      BY <1>11, <2>6
    <3>2. PICK k \in start + 1..m : high[m] = candles[k].high
      BY <3>1
    <3>3. high[m + 1] = IF candles[m + 1].high > high[m] THEN candles[m + 1].high ELSE high[m]
      BY <1>1, <2>2, <2>6
    <3>4. k \in start + 1..m + 1 /\ m + 1 \in start + 1..m + 1
      BY <1>1, <2>6
    <3>5. Peak(m + 1)
      BY <3>2, <3>3, <3>4
    <3>6. ASSUME NEW j \in start + 1..m + 1 PROVE candles[j].high <= high[m + 1]
      <4>1. j \in start + 1..m \/ j = m + 1
        BY <1>1
      <4>2. j \in 1..e
        BY <1>1, <2>1
      <4>3. candles[j].high \in Nat
        BY <1>3, <4>2
      <4>4. CASE j = m + 1
        BY <2>2, <3>3, <4>4
      <4>5. CASE j \in start + 1..m
        <5>1. candles[j].high <= high[m]
          BY <3>1, <4>5
        <5> QED BY <2>2, <3>3, <4>3, <5>1
      <4> QED BY <4>1, <4>4, <4>5
    <3>7. Above(m + 1)
      BY <3>6
    <3> HIDE DEF Peak, Above
    <3> QED BY <1>1, <2>1, <2>3, <2>6, <3>5, <3>7
  <2> QED BY <1>1, <2>4, <2>5, <2>6
<1>12. e \in T
  <2>1. 0..e \subseteq T
    <3> HIDE DEF T
    <3> QED BY <1>1, <1>10, <1>11, Climb
  <2> QED BY <1>1, <2>1
<1> DEFINE S == {candles[i].high : i \in start + 1..e}
<1>13. S \in SUBSET Nat
  <2>1. \A i \in start + 1..e : i \in 1..e
    BY <1>1
  <2> QED BY <1>3, <2>1
<1>14. high[e] \in S /\ \A y \in S : y <= high[e]
  <2>1. Peak(e) /\ Above(e)
    BY <1>1, <1>12
  <2> QED BY <2>1
<1>15. Max(S) = high[e]
  <2> HIDE DEF S
  <2> QED BY <1>13, <1>14, MaxIs
<1> HIDE DEF T
<1> QED BY <1>1, <1>2, <1>15

\* The lowest low is the least of its window.
LEMMA LowestIs ==
  ASSUME candles \in Seq(Shown), NEW start \in 0..(Len(candles) - 1), NEW count \in Nat \ {0},
         start + count < Width
  PROVE  hl_ohlcvs_lowest_low(start, count) =
           Min({candles[i].low : i \in {i \in 1..Len(candles) : start < i /\ i <= start + count}})
<1> DEFINE e == WindowEnd(start, count)
           next(i, x) == IF i <= start + 1 THEN candles[start + 1].low
                         ELSE IF candles[i].low < x THEN candles[i].low ELSE x
           Is(f) == f = [i \in 0..e |-> IF i <= start + 1 THEN candles[start + 1].low
                                        ELSE IF candles[i].low < f[i - 1] THEN candles[i].low
                                        ELSE f[i - 1]]
           low == CHOOSE f : Is(f)
           step == [p \in (1..e) \X Nat |-> next(p[1], p[2])]
           base == candles[start + 1].low
<1>1. /\ Len(candles) \in Nat /\ start \in Nat /\ e \in start + 1..Len(candles) /\ e \in Nat
      /\ {i \in 1..Len(candles) : start < i /\ i <= start + count} = start + 1..e
      /\ count # 0 /\ ~ (start >= Len(candles))
  BY LenProperties, WindowIs
<1>2. hl_ohlcvs_lowest_low(start, count) = low[e]
  BY <1>1 DEF hl_ohlcvs_lowest_low
<1> HIDE DEF e
<1>3. \A i \in 1..e : candles[i].low \in Nat
  BY <1>1, RowShown
<1>0. start + 1 \in 1..e
  BY <1>1
<1>4. base \in Nat /\ step \in [(1..e) \X Nat -> Nat]
  <2>1. ASSUME NEW p \in (1..e) \X Nat PROVE next(p[1], p[2]) \in Nat
    <3>1. p[1] \in 1..e /\ p[2] \in Nat
      OBVIOUS
    <3> QED BY <3>1, <1>0, <1>3
  <2> HIDE DEF next
  <2> QED BY <1>0, <1>3, <2>1
<1>5. PICK g : Climbs(g, e, Nat, base, step)
  <2> HIDE DEF base, step
  <2> QED BY <1>1, <1>4, Recursion
<1>6. g \in [0..e -> Nat] /\ g[0] = candles[start + 1].low
  BY <1>5 DEF Climbs
<1>7. ASSUME NEW i \in 0..e PROVE g[i] = next(i, g[i - 1])
  <2>1. CASE i = 0
    BY <1>1, <1>6, <2>1
  <2>2. CASE i # 0
    <3>1. i \in 1..e /\ i - 1 \in 0..e
      BY <1>1, <2>2
    <3>2. <<i, g[i - 1]>> \in (1..e) \X Nat
      BY <1>6, <3>1
    <3>3. step[<<i, g[i - 1]>>] = next(i, g[i - 1])
      <4> HIDE DEF next
      <4> QED BY <3>2
    <3>4. g[i] = step[<<i, g[i - 1]>>]
      <4> HIDE DEF step, base
      <4> QED BY <1>5, <3>1 DEF Climbs
    <3> QED BY <3>3, <3>4
  <2> QED BY <2>1, <2>2
<1>8. Is(low)
  <2>1. Is(g)
    <3> HIDE DEF step
    <3> QED BY <1>6, <1>7
  <2> HIDE DEF Is
  <2> QED BY <2>1
<1>9. \A i \in 0..e : low[i] = next(i, low[i - 1])
  <2>1. low = [i \in 0..e |-> next(i, low[i - 1])]
    <3> HIDE DEF low
    <3> QED BY <1>8
  <2> HIDE DEF low, next
  <2> QED BY <2>1
<1> HIDE DEF low, step
<1> DEFINE Bottom(m) == \E k \in start + 1..m : low[m] = candles[k].low
           Under(m) == \A k \in start + 1..m : low[m] <= candles[k].low
           T == {m \in 0..e : low[m] \in Nat /\ (m <= start + 1 => low[m] = base)
                               /\ (m > start => Bottom(m) /\ Under(m))}
<1> HIDE DEF base
<1>10. 0 \in T
  <2>1. 0 \in 0..e /\ 0 <= start + 1 /\ ~ (0 > start)
    BY <1>1
  <2>2. low[0] = base
    BY <1>9, <2>1 DEF base
  <2> QED BY <1>4, <2>1, <2>2
<1>11. ASSUME NEW m \in 0 .. e - 1, m \in T PROVE m + 1 \in T
  <2>1. m + 1 \in 0..e /\ m + 1 \in 1..e /\ (m + 1) - 1 = m
    BY <1>1
  <2>2. low[m + 1] = next(m + 1, low[m]) /\ low[m] \in Nat /\ candles[m + 1].low \in Nat
    BY <1>3, <1>9, <1>11, <2>1
  <2>3. low[m + 1] \in Nat
    BY <2>2, <1>0, <1>3
  <2>4. CASE m + 1 <= start
    <3>1. low[m + 1] = base
      BY <1>1, <2>2, <2>4 DEF base
    <3> QED BY <1>1, <2>1, <2>3, <2>4, <3>1
  <2>5. CASE m = start
    <3>1. low[m + 1] = candles[m + 1].low /\ low[m + 1] = base
      BY <1>1, <2>2, <2>5 DEF base
    <3>2. m + 1 \in start + 1..m + 1 /\ \A k \in start + 1..m + 1 : k = m + 1
      BY <1>1, <2>5
    <3> HIDE DEF next
    <3>3. Bottom(m + 1)
      BY <3>1, <3>2
    <3>4. Under(m + 1)
      <4> TAKE k \in start + 1..m + 1
      <4>1. k = m + 1
        BY <3>2
      <4>2. candles[k].low = low[m + 1]
        BY ONLY <3>1, <4>1
      <4>3. low[m + 1] <= low[m + 1]
        BY <2>3
      <4> QED BY ONLY <4>2, <4>3
    <3> HIDE DEF Bottom, Under
    <3> QED BY <1>1, <2>1, <2>3, <2>5, <3>1, <3>3, <3>4
  <2>6. CASE m > start
    <3>1. Bottom(m) /\ Under(m) /\ ~ (m + 1 <= start + 1)
      BY <1>1, <1>11, <2>6
    <3>2. PICK k \in start + 1..m : low[m] = candles[k].low
      BY <3>1
    <3>3. low[m + 1] = IF candles[m + 1].low < low[m] THEN candles[m + 1].low ELSE low[m]
      BY <2>2, <3>1
    <3>4. k \in start + 1..m + 1 /\ m + 1 \in start + 1..m + 1
      BY <1>1, <2>6
    <3>5. Bottom(m + 1)
      BY <3>2, <3>3, <3>4
    <3>6. ASSUME NEW j \in start + 1..m + 1 PROVE low[m + 1] <= candles[j].low
      <4>1. j \in start + 1..m \/ j = m + 1
        BY <1>1
      <4>2. j \in 1..e
        BY <1>1, <2>1
      <4>3. candles[j].low \in Nat
        BY <1>3, <4>2
      <4>4. CASE j = m + 1
        BY <2>2, <3>3, <4>4
      <4>5. CASE j \in start + 1..m
        <5>1. low[m] <= candles[j].low
          BY <3>1, <4>5
        <5> QED BY <2>2, <3>3, <4>3, <5>1
      <4> QED BY <4>1, <4>4, <4>5
    <3>7. Under(m + 1)
      BY <3>6
    <3> HIDE DEF Bottom, Under
    <3> QED BY <1>1, <2>1, <2>3, <2>6, <3>1, <3>5, <3>7
  <2> QED BY <1>1, <2>4, <2>5, <2>6
<1>12. e \in T
  <2>1. 0..e \subseteq T
    <3> HIDE DEF T
    <3> QED BY <1>1, <1>10, <1>11, Climb
  <2> QED BY <1>1, <2>1
<1> DEFINE S == {candles[i].low : i \in start + 1..e}
<1>13. S \in SUBSET Nat
  <2>1. \A i \in start + 1..e : i \in 1..e
    BY <1>1
  <2> QED BY <1>3, <2>1
<1>14. low[e] \in S /\ \A y \in S : low[e] <= y
  <2>1. Bottom(e) /\ Under(e)
    BY <1>1, <1>12
  <2> QED BY <2>1
<1>15. Min(S) = low[e]
  <2> HIDE DEF S
  <2> QED BY <1>13, <1>14, MinIs
<1> HIDE DEF T
<1> QED BY <1>1, <1>2, <1>15

-----------------------------------------------------------------------------
(* Books and candles. *)

\* When the candles open that a call asks for.
Times(c) == OpenTimes(Start(c), c.until, Frames[c.frame])

\* A side of a book is kept from what the exchange answered.
SideRight(side) ==
  raw[side] \in Levels(side) /\ book[side] = Kept(raw[side], call.limit)

\* A book is empty until its sides are read, and again after an error.
BookInv ==
  /\ DOMAIN book = Sides /\ DOMAIN raw = Sides
  /\ (call.op = "book" /\ pc \notin {"asks", "idle"}) => book = EmptyBook
  /\ pc = "asks" => book["asks"] = <<>> /\ SideRight("bids")
  /\ (call.op = "book" /\ pc = "idle" /\ err = "success") =>
       \A side \in Sides : SideRight(side)
  /\ (call.op = "book" /\ pc = "idle" /\ err # "success") => book = EmptyBook

\* The exchange is asked for the interval of the call, and the candles are kept
\* from its answer.
CandleInv ==
  /\ candles \in Seq(Shown)
  /\ call.op = "candles" => call.until \in 0..MaxTime /\ call.since \in {None, 1}
  /\ (call.op = "candles" /\ (pc # "idle" \/ err = "success")) => call.frame \in DOMAIN Frames
  /\ pc = "candleWait" => request.from = Start(call) /\ request.to = call.until
  /\ (call.op = "candles" /\ pc = "idle" /\ err = "success") =>
       /\ candles = Kept(snapshot, LimitOf(call))
       /\ \E bad \in {Times(call)[i] : i \in DOMAIN Times(call)} \cup {None} :
            snapshot = Answer(Times(call), bad)

ResultInv == BookInv /\ CandleInv

\* The results a book or candles call leaves, with their histories.
outcome == <<book, raw, candles, snapshot>>

\* A step that leaves the results and the arguments alone and does not succeed.
Onward ==
  /\ UNCHANGED <<call, outcome>>
  /\ pc \notin {"idle", "asks"}
  /\ pc' \notin {"asks", "candleWait"}
  /\ (pc' = "idle" /\ err' = "success") => call.op \notin {"book", "candles"}

\* Such a step keeps the results right.
LEMMA OnwardHolds ==
  ASSUME ResultInv, Onward
  PROVE  ResultInv'
<1>1. BookInv'
  BY DEF ResultInv, BookInv, Onward, outcome
<1>2. CandleInv'
  BY DEF ResultInv, CandleInv, Onward, outcome
<1> QED BY <1>1, <1>2 DEF ResultInv

\* A call begins, or the client is made or released.
Fresh ==
  /\ book' = EmptyBook /\ raw' = EmptyBook /\ candles' = <<>>
  /\ pc' \notin {"asks", "candleWait"}
  /\ call'.op = "book" => pc' # "idle"
  /\ call'.op = "candles" =>
       /\ call'.until \in 0..MaxTime /\ call'.since \in {None, 1}
       /\ call'.frame \in DOMAIN Frames \/ (pc' = "idle" /\ err' # "success")
       /\ pc' = "idle" => err' # "success"

\* Such a step makes them right.
LEMMA FreshHolds ==
  ASSUME Fresh
  PROVE  ResultInv'
<1>1. BookInv'
  BY DEF BookInv, Fresh, EmptyBook
<1>2. CandleInv'
  <2>1. <<>> \in Seq(Shown)
    BY EmptySeq
  <2> QED BY <2>1 DEF CandleInv, Fresh
<1> QED BY <1>1, <1>2 DEF ResultInv

\* Nothing the results depend on changes.
LEMMA SameHolds ==
  ASSUME ResultInv, UNCHANGED <<pc, err, call, request, outcome>>
  PROVE  ResultInv'
<1>1. BookInv'
  BY DEF ResultInv, BookInv, SideRight, outcome
<1>2. CandleInv'
  BY DEF ResultInv, CandleInv, outcome
<1> QED BY <1>1, <1>2 DEF ResultInv

\* The results are right initially.
LEMMA InitFresh == Init => ResultInv
<1> SUFFICES ASSUME Init PROVE ResultInv
  OBVIOUS
<1>1. BookInv
  BY DEF Init, MarketInit, BookInv, EmptyBook
<1>2. CandleInv
  BY EmptySeq DEF Init, MarketInit, CandleInv
<1> QED BY <1>1, <1>2 DEF ResultInv

\* Each of the calls that resolve a symbol begins so.
LEMMA DataFresh ==
  ASSUME DataCalls
  PROVE  Fresh
<1>1. CASE FetchOrderBook
  BY <1>1 DEF FetchOrderBook, Started, Begin, Enter, Dropped, Fresh
<1>2. CASE FetchOhlcv
  <2>1. PICK s \in Symbols, frame \in DOMAIN Frames \cup {None} :
          LET c == [op |-> "candles", sym |-> s, limit |-> None, since |-> None,
                    until |-> 0, frame |-> frame]
          IN  IF frame = None THEN Refused(c, "params") ELSE Started(c, "swapPost")
    BY <1>2 DEF FetchOhlcv
  <2> DEFINE c == [op |-> "candles", sym |-> s, limit |-> None, since |-> None,
                   until |-> 0, frame |-> frame]
  <2>2. c.until \in 0..MaxTime /\ c.since = None /\ c.frame = frame /\ c.op = "candles"
    BY TimeAssumption
  <2>3. CASE frame = None
    <3>1. Refused(c, "params")
      BY <2>1, <2>3
    <3> HIDE DEF c
    <3> QED BY <2>2, <3>1 DEF Refused, Begin, Enter, Dropped, Fresh
  <2>4. CASE frame # None
    <3>1. Started(c, "swapPost")
      BY <2>1, <2>4
    <3> HIDE DEF c
    <3> QED BY <2>2, <2>4, <3>1 DEF Started, Begin, Enter, Dropped, Fresh
  <2> QED BY <2>3, <2>4
<1>3. CASE GetTicker
  BY <1>3 DEF GetTicker, Started, Begin, Enter, Dropped, Fresh
<1>4. ASSUME NEW c, NEW valid, NEW keyed, Update(c, valid, keyed), c.op \in Shrugs
      PROVE  Fresh
  BY <1>4 DEF Update, Refused, Started, Begin, Enter, Dropped, Fresh, Shrugs
<1>5. ASSUME NEW coin \in Coins \cup {None}, NEW leverage \in {0, 1, 50, 51}, NEW keyed \in BOOLEAN,
             SetLeverage(coin, leverage, keyed)
      PROVE  Fresh
  BY <1>4, <1>5 DEF SetLeverage, Shrugs
<1>6. ASSUME NEW coin \in Coins, NEW amount \in {-1, 1}, NEW keyed \in BOOLEAN,
             AddMargin(coin, amount, keyed) \/ ReduceMargin(coin, amount, keyed)
      PROVE  Fresh
  BY <1>4, <1>6 DEF Shrugs, AddMargin, ReduceMargin, Refused, Begin, Enter, Dropped, Fresh
<1> QED BY <1>1, <1>2, <1>3, <1>5, <1>6 DEF DataCalls

-----------------------------------------------------------------------------
(* The steps that post and read. *)

\* What the steps that post and read do to the results.
LEMMA PostBookHolds ==
  ASSUME IInv, ResultInv, PostBook
  PROVE  ResultInv'
<1>1. call'.op = "book" /\ call.op = "book"
  BY DEF PostBook, IInv, CallInv, CallShape, NamedCalls, BookCalls,
         CandleCalls, TickerCalls, LeverageCalls, MarginCalls
<1>2. pc = "post" /\ pc' = "bookWait" /\ UNCHANGED results
  BY DEF PostBook
<1>3. BookInv'
  BY <1>1, <1>2 DEF ResultInv, BookInv, results
<1>4. CandleInv'
  BY <1>1, <1>2 DEF ResultInv, CandleInv, results
<1> QED BY <1>3, <1>4 DEF ResultInv

\* The bids: the array holds what was kept of the answer.
LEMMA ReadBidsHolds ==
  ASSUME IInv, ResultInv, ReadBids
  PROVE  ResultInv'
<1>1. PICK levels \in Levels("bids") :
        /\ book' = [book EXCEPT !["bids"] = Kept(levels, call.limit)]
        /\ raw' = [raw EXCEPT !["bids"] = levels]
  BY DEF ReadBids
<1>2. pc = "bids" /\ pc' = "asks" /\ call.op = "book" /\ UNCHANGED <<call, candles, snapshot>>
  BY DEF ReadBids, fetched, IInv, CallInv
<1>3. book = EmptyBook /\ DOMAIN book = Sides /\ DOMAIN raw = Sides
  BY <1>2 DEF ResultInv, BookInv
<1>4. /\ DOMAIN book' = Sides /\ DOMAIN raw' = Sides
      /\ book'["asks"] = <<>> /\ book'["bids"] = Kept(levels, call.limit) /\ raw'["bids"] = levels
  BY <1>1, <1>3 DEF Sides, EmptyBook
<1>5. BookInv'
  BY <1>2, <1>4 DEF BookInv, SideRight
<1>6. CandleInv'
  BY <1>2 DEF ResultInv, CandleInv
<1> QED BY <1>5, <1>6 DEF ResultInv

\* The asks complete the book.
LEMMA ReadAsksHolds ==
  ASSUME IInv, ResultInv, ReadAsks
  PROVE  ResultInv'
<1>1. PICK levels \in Levels("asks") :
        /\ book' = [book EXCEPT !["asks"] = Kept(levels, call.limit)]
        /\ raw' = [raw EXCEPT !["asks"] = levels]
        /\ Leave("success", Array, Sides)
  BY DEF ReadAsks
<1>2. pc = "asks" /\ pc' = "idle" /\ call.op = "book" /\ UNCHANGED <<call, candles, snapshot>> /\ err' = "success"
  BY <1>1 DEF ReadAsks, fetched, IInv, CallInv, Leave, Return
<1>3. SideRight("bids") /\ DOMAIN book = Sides /\ DOMAIN raw = Sides
  BY <1>2 DEF ResultInv, BookInv
<1>4. /\ DOMAIN book' = Sides /\ DOMAIN raw' = Sides
      /\ book'["bids"] = book["bids"] /\ raw'["bids"] = raw["bids"]
      /\ book'["asks"] = Kept(levels, call.limit) /\ raw'["asks"] = levels
  BY <1>1, <1>3 DEF Sides
<1>5. SideRight("bids")' /\ SideRight("asks")'
  BY <1>2, <1>3, <1>4 DEF SideRight
<1>6. BookInv'
  BY <1>2, <1>4, <1>5 DEF BookInv, Sides
<1>7. CandleInv'
  BY <1>2 DEF ResultInv, CandleInv
<1> QED BY <1>6, <1>7 DEF ResultInv

\* A side that could not be read releases the other one.
LEMMA SideFailsHolds ==
  ASSUME IInv, ResultInv, NEW side \in Sides, SideFails(side)
  PROVE  ResultInv'
<1>1. pc' = "idle" /\ err' # "success" /\ call.op = "book" /\ UNCHANGED <<call, raw, candles, snapshot>> /\ book' = EmptyBook
  BY DEF SideFails, Sides, fetched, IInv, CallInv, Leave, Return
<1>2. BookInv'
  BY <1>1 DEF ResultInv, BookInv, EmptyBook
<1>3. CandleInv'
  BY <1>1 DEF ResultInv, CandleInv
<1> QED BY <1>2, <1>3 DEF ResultInv

\* The request of an interval fixes since and until.
LEMMA PostCandlesHolds ==
  ASSUME IInv, ResultInv, PostCandles
  PROVE  ResultInv'
<1>1. PICK n \in (0..MaxLimit) \cup {None}, since \in {None, 1}, until \in 0..MaxTime :
        call' = [call EXCEPT !.limit = n, !.since = since, !.until = until]
  BY DEF PostCandles
<1>2. pc = "post" /\ pc' = "candleWait" /\ UNCHANGED results /\ call.op = "candles"
      /\ request' = [subject |-> Subject, from |-> Start(call'), to |-> call'.until]
  BY DEF PostCandles
<1>3. call \in CandleCalls
  BY <1>2 DEF IInv, CallInv, CallShape, NamedCalls, BookCalls, CandleCalls,
       TickerCalls, LeverageCalls, MarginCalls
<1>4. call'.op = "candles" /\ call'.since = since /\ call'.until = until /\ call'.frame = call.frame
  BY <1>1, <1>3 DEF CandleCalls
<1>5. call.frame \in DOMAIN Frames /\ candles \in Seq(Shown) /\ DOMAIN book = Sides /\ DOMAIN raw = Sides
  BY <1>2 DEF ResultInv, CandleInv, BookInv
<1>6. request'.from = Start(call)' /\ request'.to = call'.until
  BY <1>2 DEF Start, calculate_start_time
<1>7. BookInv'
  BY <1>2, <1>4, <1>5 DEF BookInv, results
<1>8. CandleInv'
  BY <1>2, <1>4, <1>5, <1>6 DEF CandleInv, results
<1> QED BY <1>7, <1>8 DEF ResultInv

\* The interval begins at a number.
LEMMA StartIs ==
  ASSUME call \in CandleCalls, call.frame \in DOMAIN Frames
  PROVE  Start(call) \in Nat
<1>1. Width \in Nat \ {0} /\ Day \in Nat /\ Frames[call.frame] \in Nat
  BY WidthAssumption, TimeAssumption, FramesAssumption
<1>2. call.until \in Nat /\ call.limit \in Nat \cup {None} /\ call.since \in Nat \cup {None}
  BY DEF CandleCalls
<1>3. CASE call.since # None
  BY <1>2, <1>3 DEF Start
<1>4. CASE call.since = None /\ call.limit \in {None, 0}
  <2>1. Start(call) = (call.until - Day) % Width
    BY <1>4 DEF Start
  <2> QED BY <1>1, <1>2, <2>1
<1>5. CASE call.since = None /\ call.limit \notin {None, 0}
  <2> DEFINE x == call.limit * Frames[call.frame]
  <2>1. Start(call) = (call.until - x) % Width
    BY <1>5 DEF Start, calculate_start_time
  <2>2. x \in Nat
    BY <1>1, <1>2, <1>5, Products
  <2> HIDE DEF x
  <2> QED BY <1>1, <1>2, <2>1, <2>2
<1> QED BY <1>3, <1>4, <1>5

\* What the exchange answers.
LEMMA AnswerIs ==
  ASSUME NEW times \in Seq(Nat), \A i \in 1..Len(times) : times[i] <= MaxTime, NEW bad
  PROVE  /\ Answer(times, bad) \in Seq(Shown)
         /\ Len(Answer(times, bad)) = Len(times)
         /\ \A i \in 1..Len(times) : /\ Answer(times, bad)[i].t = times[i]
                                     /\ Answer(times, bad)[i].ok = (times[i] # bad)
<1> DEFINE n == Len(times)
           s == [i \in 1..n |-> Candle(times[i], bad)]
<1>1. n \in Nat /\ DOMAIN times = 1..n
  BY LenProperties
<1>2. Answer(times, bad) = s
  BY <1>1 DEF Answer
<1>3. ASSUME NEW i \in 1..n
      PROVE  Candle(times[i], bad) \in Shown
  <2>1. times[i] \in 0..MaxTime
    BY <1>1, ElementOfSeq, TimeAssumption
  <2>2. High[times[i]] \in Nat /\ Low[times[i]] \in Nat /\ Close[times[i]] \in Nat
    BY <2>1, PriceAssumption
  <2> QED BY <2>1, <2>2 DEF Candle, Shown
<1>4. s \in [1..n -> Shown]
  BY <1>3
<1>5. s \in Seq(Shown) /\ Len(s) = n
  <2> HIDE DEF s
  <2> QED BY <1>1, <1>4, SeqDef, LenProperties
<1>6. \A i \in 1..n : s[i].t = times[i] /\ s[i].ok = (times[i] # bad)
  BY DEF Candle
<1> QED BY <1>2, <1>5, <1>6

\* The times of a call are those it asked for.
LEMMA TimesAre ==
  ASSUME call \in CandleCalls, call.until \in 0..MaxTime, call.frame \in DOMAIN Frames
  PROVE  /\ IsOpen(Times(call), Start(call), call.until, Frames[call.frame])
         /\ Times(call) \in Seq(Nat) /\ \A i \in 1..Len(Times(call)) : Times(call)[i] <= MaxTime
<1>1. Start(call) \in Nat /\ call.until \in Nat /\ Frames[call.frame] \in Nat \ {0} /\ MaxTime \in Nat
  BY StartIs, FramesAssumption, TimeAssumption
<1>2. IsOpen(Times(call), Start(call), call.until, Frames[call.frame])
  BY <1>1, OpenTimesIs DEF Times
<1>3. Times(call) \in Seq(Nat)
  BY <1>2 DEF IsOpen
<1>4. ASSUME NEW i \in 1..Len(Times(call)) PROVE Times(call)[i] <= MaxTime
  <2>1. Times(call)[i] <= call.until /\ Times(call)[i] \in Nat
    BY <1>2, <1>3, ElementOfSeq DEF IsOpen
  <2> QED BY <1>1, <2>1
<1> QED BY <1>2, <1>3, <1>4

\* Reading the candles keeps them right.
LEMMA ReadCandlesHolds ==
  ASSUME IInv, ResultInv, ReadCandles
  PROVE  ResultInv'
<1> DEFINE times == OpenTimes(request.from, request.to, Frames[call.frame])
<1>1. PICK bad \in {times[i] : i \in DOMAIN times} \cup {None} :
        /\ snapshot' = Answer(times, bad)
        /\ candles' = Kept(snapshot', LimitOf(call))
        /\ Leave("success", Array, {})
  BY DEF ReadCandles
<1>2. pc = "candleWait" /\ call.op = "candles" /\ UNCHANGED <<call, book, raw>>
      /\ pc' = "idle" /\ err' = "success"
  BY <1>1 DEF ReadCandles, fetched, IInv, CallInv, Leave, Return
<1>3. call \in CandleCalls
  BY <1>2 DEF IInv, CallInv, CallShape, NamedCalls, BookCalls, CandleCalls,
       TickerCalls, LeverageCalls, MarginCalls
<1>4. /\ call.frame \in DOMAIN Frames /\ call.until \in 0..MaxTime /\ call.since \in {None, 1}
      /\ request.from = Start(call) /\ request.to = call.until
  BY <1>2 DEF ResultInv, CandleInv
<1>5. times = Times(call)
  BY <1>4 DEF Times
<1>6. snapshot' \in Seq(Shown)
  BY <1>1, <1>3, <1>4, <1>5, TimesAre, AnswerIs
<1>7. LimitOf(call) \in Nat
  BY <1>3 DEF LimitOf, CandleCalls
<1>8. candles' \in Seq(Shown)
  BY <1>1, <1>6, <1>7, KeptIs
<1>9. Times(call)' = Times(call) /\ LimitOf(call)' = LimitOf(call)
  BY <1>2 DEF Times, Start, calculate_start_time, LimitOf
<1>10. \E b \in {Times(call)[i] : i \in DOMAIN Times(call)} \cup {None} : snapshot' = Answer(Times(call), b)
  BY <1>1, <1>5
<1> HIDE DEF times
<1>11. BookInv'
  BY <1>2 DEF ResultInv, BookInv
<1>12. CandleInv'
  BY <1>1, <1>2, <1>4, <1>8, <1>9, <1>10 DEF CandleInv
<1> QED BY <1>11, <1>12 DEF ResultInv

\* Every step keeps the results right.
LEMMA ResultStep ==
  ASSUME IInv, ResultInv, [Next]_vars
  PROVE  ResultInv'
<1>a. CallInv /\ CallShape
  BY DEF IInv, CallInv
<1>b. pc \in {"spotPost", "spotRead"} => Then \in {"hand", "keep", "copy", "pick"}
  BY <1>a, ThenTyped DEF CallInv, FetchSteps
<1>1. CASE Fetching /\ UNCHANGED dataVars
  <2>1. Onward
    BY <1>1, <1>b DEF Onward, outcome, dataVars, Fetching, SwapsFail, FetchFails, Return,
         FetchErrors, SwapsAnswer, AfterSwaps, ReadSwap, SkipSwap, SwapsRead, SpotsFail,
         SpotsAnswer, ReadSpot, SkipSpot, SpotsRead
  <2> QED BY <2>1, OnwardHolds
<1>2. CASE (Hand \/ Keep \/ KeepFails) /\ UNCHANGED dataVars
  <2>1. Onward
    BY <1>2, <1>a DEF Onward, outcome, dataVars, Hand, Keep, KeepFails, Return, CallInv
  <2> QED BY <2>1, OnwardHolds
<1>3. CASE CopyCoin \/ ScanHit \/ ScanMiss \/ ScanEnds \/ Match
  <2>1. Onward
    BY <1>3 DEF Onward, outcome, CopyCoin, ScanHit, ScanMiss, ScanEnds, Match, fetched,
         results, Leave, Return
  <2> QED BY <2>1, OnwardHolds
<1>4. CASE BookFails \/ BookAnswers \/ CandlesFail
  <2>1. Onward
    BY <1>4 DEF Onward, outcome, BookFails, BookAnswers, CandlesFail, fetched,
         results, Leave, Return
  <2> QED BY <2>1, OnwardHolds
<1>5. CASE FindTicker \/ Pick \/ SignFails \/ PostUpdate \/ UpdateAnswers
  <2>1. call.op \notin {"book", "candles"}
    BY <1>5, <1>a DEF FindTicker, Pick, SignFails, PostUpdate, UpdateAnswers, CallInv, Shrugs
  <2>2. Onward
    BY <1>5, <2>1 DEF Onward, outcome, FindTicker, Pick, SignFails, PostUpdate, UpdateAnswers,
         fetched, results, Leave, Return
  <2> QED BY <2>2, OnwardHolds
<1>6. CASE PostBook \/ ReadBids \/ ReadAsks \/ PostCandles \/ ReadCandles
  BY <1>6, PostBookHolds, ReadBidsHolds, ReadAsksHolds, PostCandlesHolds, ReadCandlesHolds
<1>7. ASSUME NEW side \in Sides, SideFails(side)
      PROVE  ResultInv'
  BY <1>7, SideFailsHolds
<1>8. CASE MarketCalls /\ Dropped
  <2>1. Fresh
    BY <1>8, <1>a DEF MarketCalls, Dropped, Fresh, NewClient, FreeClient, FetchMarkets, LoadMarkets,
         Enter, CallInv
  <2> QED BY <2>1, FreshHolds
<1>9. CASE DataCalls
  BY <1>9, DataFresh, FreshHolds
<1>10. CASE (List /\ UNCHANGED dataVars) \/ Intrude \/ UNCHANGED vars
  <2>1. UNCHANGED <<pc, err, call, request, outcome>>
    BY <1>10 DEF List, Intrude, vars, marketVars, dataVars, results, outcome
  <2> QED BY <2>1, SameHolds
<1> QED
  BY <1>1, <1>2, <1>3, <1>4, <1>5, <1>6, <1>7, <1>8, <1>9, <1>10
     DEF Next, Step, MarketSteps, DataSteps

\* Both invariants hold throughout.
LEMMA ResultInvariance == Spec => [](IInv /\ ResultInv)
<1>1. Init => IInv /\ ResultInv
  BY InitInv, InitFresh
<1>2. (IInv /\ ResultInv) /\ [Next]_vars => (IInv /\ ResultInv)'
  BY NextInv, ResultStep
<1> QED BY <1>1, <1>2, PTL DEF Spec

\* The rows of one side.
SideRows(side) == {Level(side, i, ok) : i \in Nat, ok \in BOOLEAN}

\* The rows of a side the exchange answers stand at their levels.
LEMMA LevelIs ==
  ASSUME NEW side \in Sides, NEW levels \in Levels(side)
  PROVE  /\ levels \in Seq(SideRows(side)) /\ Len(levels) <= MaxLevels
         /\ \A i \in 1..Len(levels) :
              /\ levels[i].px = IF side = "bids" THEN MaxLevels + 1 - i ELSE MaxLevels + 1 + i
              /\ levels[i].sz = i
<1>1. PICK n \in 0..MaxLevels : \E f \in [1..n -> BOOLEAN] :
        levels = [i \in 1..n |-> Level(side, i, f[i])]
  BY DEF Levels
<1>0. PICK f \in [1..n -> BOOLEAN] : levels = [i \in 1..n |-> Level(side, i, f[i])]
  BY <1>1
<1>2. MaxLevels \in Nat /\ n \in Nat
  BY TimeAssumption
<1>3. levels \in [1..n -> SideRows(side)]
  BY <1>0, <1>2 DEF SideRows
<1>4. levels \in Seq(SideRows(side)) /\ Len(levels) = n
  BY <1>2, <1>3, SeqDef, LenProperties
<1>5. \A i \in 1..n : /\ levels[i].px = IF side = "bids" THEN MaxLevels + 1 - i ELSE MaxLevels + 1 + i
                      /\ levels[i].sz = i
  BY <1>0 DEF Level
<1> QED BY <1>1, <1>2, <1>4, <1>5

\* The side of a book that was fetched, with the levels its rows stood at.
SideIs(side, n, idx) ==
  /\ n = AtMost(Len(raw[side]), call.limit) /\ n \in 0..Len(raw[side])
  /\ book[side] \in Seq(SideRows(side)) /\ raw[side] \in Seq(SideRows(side))
  /\ Len(book[side]) <= n
  /\ Selection(raw[side], n, book[side], idx)

\* A right side stands in a row of levels.
LEMMA SideKept ==
  ASSUME NEW side \in Sides, SideRight(side), call.limit \in Nat
  PROVE  \E n, idx : SideIs(side, n, idx)
<1>1. raw[side] \in Seq(SideRows(side)) /\ book[side] = Kept(raw[side], call.limit)
  BY LevelIs DEF SideRight
<1> DEFINE n == AtMost(Len(raw[side]), call.limit)
<1>2. n \in 0..Len(raw[side]) /\ book[side] \in Seq(SideRows(side)) /\ IsKept(raw[side], n, book[side])
  BY <1>1, KeptIs
<1>3. PICK idx : Selection(raw[side], n, book[side], idx)
  BY <1>2 DEF IsKept
<1>4. SideIs(side, n, idx)
  BY <1>1, <1>2, <1>3 DEF SideIs, IsKept, FewMissing
<1> QED BY <1>4

\* What a fetched book looks like.
LEMMA BookDone ==
  ASSUME IInv, ResultInv, call.op = "book", pc = "idle", err = "success", NEW side \in Sides
  PROVE  /\ SideRight(side) /\ call.limit \in Nat
         /\ \E n, idx : SideIs(side, n, idx)
<1>1. SideRight(side)
  BY DEF ResultInv, BookInv
<1>2. call.limit \in Nat
  BY DEF IInv, CallInv, CallShape, NamedCalls, BookCalls, CandleCalls,
       TickerCalls, LeverageCalls, MarginCalls
<1> QED BY <1>1, <1>2, SideKept

\* A right book has the rows that were asked for.
LEMMA BookRowsNow ==
  ASSUME IInv, ResultInv
  PROVE  BookRows
<1> SUFFICES ASSUME call.op = "book", pc = "idle", NEW side \in Sides
             PROVE  /\ err # "success" => book[side] = <<>>
                    /\ err = "success" =>
                         {book[side][k] : k \in DOMAIN book[side]} =
                           {raw[side][i] : i \in {j \in DOMAIN raw[side] :
                              raw[side][j].ok /\ (call.limit = 0 \/ j <= call.limit)}}
                    /\ \A k \in 2..Len(book[side]) :
                         IF side = "bids" THEN book[side][k].px < book[side][k - 1].px
                                          ELSE book[side][k].px > book[side][k - 1].px
  BY DEF BookRows
<1>1. CASE err # "success"
  <2>1. book[side] = <<>>
    BY <1>1 DEF ResultInv, BookInv, EmptyBook
  <2> QED BY <1>1, <2>1
<1>2. CASE err = "success"
  <2>1. PICK n, idx : SideIs(side, n, idx)
    BY <1>2, BookDone
  <2>2. SideRight(side) /\ call.limit \in Nat
    BY <1>2, BookDone
  <2> DEFINE b == book[side]
             w == raw[side]
             l == Len(b)
  <2>3. l \in Nat /\ DOMAIN b = 1..l /\ Len(w) \in Nat /\ DOMAIN w = 1..Len(w) /\ n \in 0..Len(w) /\ n \in Nat
    BY <2>1, LenProperties DEF SideIs
  <2>4. /\ idx \in [1..l -> 1..n]
        /\ \A j \in 1..l : b[j] = w[idx[j]] /\ w[idx[j]].ok
        /\ \A j \in 2..l : idx[j - 1] < idx[j]
        /\ \A i \in 1..n : w[i].ok => \E j \in 1..l : idx[j] = i
    BY <2>1 DEF SideIs, Selection
  <2>5. \A i \in DOMAIN w : (call.limit = 0 \/ i <= call.limit) <=> i \in 1..n
    BY <2>1, <2>2, <2>3 DEF SideIs, AtMost
  <2>6. \A i \in 1..Len(w) : w[i].px = IF side = "bids" THEN MaxLevels + 1 - i ELSE MaxLevels + 1 + i
    BY <2>2, LevelIs DEF SideRight
  <2>7. MaxLevels \in Nat
    BY TimeAssumption
  <2> HIDE DEF b, w, l
  <2>8. ASSUME NEW k \in 1..l
        PROVE  idx[k] \in DOMAIN w /\ idx[k] \in 1..n /\ b[k] = w[idx[k]] /\ w[idx[k]].ok
    BY <2>3, <2>4
  <2>9. {b[k] : k \in DOMAIN b} =
          {w[i] : i \in {j \in DOMAIN w : w[j].ok /\ (call.limit = 0 \/ j <= call.limit)}}
    <3>1. ASSUME NEW k \in DOMAIN b
          PROVE  \E i \in DOMAIN w : w[i].ok /\ (call.limit = 0 \/ i <= call.limit) /\ b[k] = w[i]
      BY <2>3, <2>5, <2>8
    <3>2. ASSUME NEW i \in DOMAIN w, w[i].ok, call.limit = 0 \/ i <= call.limit
          PROVE  \E k \in DOMAIN b : b[k] = w[i]
      <4>1. i \in 1..n
        BY <2>5, <3>2
      <4>2. PICK j \in 1..l : idx[j] = i
        BY <2>4, <3>2, <4>1
      <4> QED BY <2>3, <2>8, <4>2
    <3> QED BY <3>1, <3>2
  <2>10. ASSUME NEW k \in 2..l
         PROVE  IF side = "bids" THEN b[k].px < b[k - 1].px ELSE b[k].px > b[k - 1].px
    <3>1. k \in 1..l /\ k - 1 \in 1..l /\ idx[k - 1] < idx[k]
      BY <2>3, <2>4
    <3>2. b[k] = w[idx[k]] /\ b[k - 1] = w[idx[k - 1]] /\ idx[k] \in 1..Len(w) /\ idx[k - 1] \in 1..Len(w)
      BY <3>1, <2>3, <2>8
    <3> QED BY <2>6, <2>7, <3>1, <3>2
  <2> QED BY <1>2, <2>9, <2>10 DEF b, w, l
<1> QED BY <1>1, <1>2

\* A right book has no narrower spread.
LEMMA SpreadNow ==
  ASSUME IInv, ResultInv
  PROVE  SpreadNeverNarrow
<1> SUFFICES ASSUME call.op = "book", pc = "idle", err = "success",
                    book["bids"] # <<>>, book["asks"] # <<>>
             PROVE  /\ hl_orderbook_get_spread >= raw["asks"][1].px - raw["bids"][1].px
                    /\ hl_orderbook_get_spread > 0
  BY DEF SpreadNeverNarrow, Done
<1>1. MaxLevels \in Nat
  BY TimeAssumption
<1>2. ASSUME NEW side \in Sides, book[side] # <<>>
      PROVE  \E i \in 1..MaxLevels :
               /\ book[side][1].px = IF side = "bids" THEN MaxLevels + 1 - i ELSE MaxLevels + 1 + i
               /\ raw[side][1].px = IF side = "bids" THEN MaxLevels ELSE MaxLevels + 2
  <2>1. PICK n, idx : SideIs(side, n, idx)
    BY BookDone
  <2>2. SideRight(side)
    BY BookDone
  <2>3. Len(book[side]) \in Nat /\ Len(book[side]) # 0 /\ Len(raw[side]) \in Nat /\ n \in 0..Len(raw[side])
    BY <1>2, <2>1, LenProperties, EmptySeq DEF SideIs
  <2>4. 1 \in 1..Len(book[side])
    BY <2>3
  <2>5. idx[1] \in 1..n /\ book[side][1] = raw[side][idx[1]]
    BY <2>1, <2>4 DEF SideIs, Selection
  <2>6. idx[1] \in 1..Len(raw[side]) /\ 1 \in 1..Len(raw[side]) /\ Len(raw[side]) <= MaxLevels
    BY <2>2, <2>3, <2>5, LevelIs DEF SideRight
  <2>7. \A i \in 1..Len(raw[side]) : raw[side][i].px = IF side = "bids" THEN MaxLevels + 1 - i ELSE MaxLevels + 1 + i
    BY <2>2, LevelIs DEF SideRight
  <2>8. idx[1] \in 1..MaxLevels
    BY <1>1, <2>3, <2>6
  <2>9. raw[side][1].px = IF side = "bids" THEN MaxLevels ELSE MaxLevels + 2
    BY <1>1, <2>6, <2>7
  <2> QED BY <2>5, <2>6, <2>7, <2>8, <2>9
<1>3. PICK i \in 1..MaxLevels : book["bids"][1].px = MaxLevels + 1 - i /\ raw["bids"][1].px = MaxLevels
  BY <1>2 DEF Sides
<1>4. PICK j \in 1..MaxLevels : book["asks"][1].px = MaxLevels + 1 + j /\ raw["asks"][1].px = MaxLevels + 2
  BY <1>2 DEF Sides
<1>5. hl_orderbook_get_best("bids") = MaxLevels + 1 - i /\ hl_orderbook_get_best("asks") = MaxLevels + 1 + j
  BY <1>3, <1>4 DEF hl_orderbook_get_best
<1> QED BY <1>1, <1>3, <1>4, <1>5 DEF hl_orderbook_get_spread

\* A right book has the right volumes.
LEMMA VolumeNow ==
  ASSUME IInv, ResultInv
  PROVE  VolumeRight
<1> SUFFICES ASSUME call.op = "book", pc = "idle", err = "success", NEW side \in Sides
             PROVE  /\ \A depth \in 0..(MaxLimit + 1) :
                         hl_orderbook_get_volume(side, depth) =
                           MapThenSumSet(LAMBDA k : book[side][k].sz,
                                         {k \in DOMAIN book[side] : depth = 0 \/ k <= depth})
                    /\ hl_orderbook_get_volume(side, call.limit) = hl_orderbook_get_volume(side, 0)
  BY DEF VolumeRight, Done
<1>1. PICK n, idx : SideIs(side, n, idx)
  BY BookDone
<1>2. SideRight(side) /\ call.limit \in Nat
  BY BookDone
<1>3. /\ book[side] \in Seq(SideRows(side)) /\ Len(book[side]) \in Nat /\ Len(book[side]) <= n
      /\ n = AtMost(Len(raw[side]), call.limit) /\ n \in 0..Len(raw[side]) /\ Len(raw[side]) \in Nat
  BY <1>1, LenProperties DEF SideIs
<1>4. ASSUME NEW i \in 1..Len(book[side])
      PROVE  book[side][i].sz \in Nat
  <2>1. book[side][i] \in SideRows(side)
    BY <1>3, ElementOfSeq
  <2> QED BY <2>1 DEF SideRows, Level
<1>5. ASSUME NEW depth \in 0..(MaxLimit + 1)
      PROVE  hl_orderbook_get_volume(side, depth) =
               MapThenSumSet(LAMBDA k : book[side][k].sz,
                             {k \in DOMAIN book[side] : depth = 0 \/ k <= depth})
  <2>1. depth \in Nat
    BY TimeAssumption
  <2> QED BY <1>3, <1>4, <2>1, VolumeIs
<1>6. call.limit = 0 \/ Len(book[side]) <= call.limit
  BY <1>2, <1>3 DEF AtMost
<1>7. CASE call.limit = 0
  BY <1>5, <1>7
<1>8. CASE call.limit # 0
  <2>1. AtMost(Len(book[side]), call.limit) = Len(book[side])
    BY <1>2, <1>3, <1>6, <1>8 DEF AtMost
  <2>2. hl_orderbook_get_volume(side, call.limit) = hl_orderbook_get_volume(side, 0)
    BY <1>8, <2>1 DEF hl_orderbook_get_volume
  <2> QED BY <1>5, <2>2
<1> QED BY <1>7, <1>8

\* Whatever levels the exchange answers and whichever of them are unreadable, a book
\* holds the readable ones that were asked for, best first; its spread is no
\* narrower than the exchange's and its volumes are sums of its rows
\* (hl_fetch_order_book, parse_orderbook_levels, hl_orderbook_get_*).
THEOREM RightBook == Spec => []BookRight
<1>1. (IInv /\ ResultInv) => BookRight
  BY BookRowsNow, SpreadNow, VolumeNow DEF BookRight
<1> QED BY <1>1, ResultInvariance, PTL

-----------------------------------------------------------------------------
(* The candles of a result. *)

\* The candles of a call that succeeded: the exchange answered those that open at
\* times, all readable but the one at bad, and the ones at idx were kept.
CandlesAre(times, n, idx, bad) ==
  /\ times = Times(call) /\ times \in Seq(Nat)
  /\ IsOpen(times, Start(call), call.until, Frames[call.frame])
  /\ snapshot \in Seq(Shown) /\ candles \in Seq(Shown)
  /\ Len(snapshot) = Len(times) /\ DOMAIN snapshot = 1..Len(times)
  /\ \A i \in 1..Len(times) : snapshot[i].t = times[i] /\ snapshot[i].ok = (times[i] # bad)
  /\ n = AtMost(Len(snapshot), LimitOf(call)) /\ n \in 0..Len(snapshot)
  /\ Selection(snapshot, n, candles, idx)
  /\ FewMissing(snapshot, n, candles)

\* What a call asked for.
Fetched ==
  /\ call \in CandleCalls /\ LimitOf(call) \in Nat
  /\ call.until \in 0..MaxTime /\ call.since \in {None, 1} /\ call.frame \in DOMAIN Frames

\* A call that succeeded has such candles.
LEMMA CandlesDone ==
  ASSUME IInv, ResultInv, call.op = "candles", pc = "idle", err = "success"
  PROVE  Fetched /\ \E times, n, idx, bad : CandlesAre(times, n, idx, bad)
<1>1. call \in CandleCalls
  BY DEF IInv, CallInv, CallShape, NamedCalls, BookCalls, CandleCalls,
       TickerCalls, LeverageCalls, MarginCalls
<1>2. LimitOf(call) \in Nat
  BY <1>1 DEF LimitOf, CandleCalls
<1>3. /\ call.until \in 0..MaxTime /\ call.since \in {None, 1} /\ call.frame \in DOMAIN Frames
      /\ candles = Kept(snapshot, LimitOf(call))
  BY DEF ResultInv, CandleInv
<1>4. PICK bad : snapshot = Answer(Times(call), bad)
  BY DEF ResultInv, CandleInv
<1> DEFINE times == Times(call)
           n == AtMost(Len(snapshot), LimitOf(call))
<1>5. /\ IsOpen(times, Start(call), call.until, Frames[call.frame])
      /\ times \in Seq(Nat) /\ \A i \in 1..Len(times) : times[i] <= MaxTime
  BY <1>1, <1>3, TimesAre
<1>6. /\ snapshot \in Seq(Shown) /\ Len(snapshot) = Len(times)
      /\ \A i \in 1..Len(times) : snapshot[i].t = times[i] /\ snapshot[i].ok = (times[i] # bad)
  <2> HIDE DEF times
  <2> QED BY <1>4, <1>5, AnswerIs DEF times
<1>7. DOMAIN snapshot = 1..Len(times)
  BY <1>6, LenProperties
<1>8. candles \in Seq(Shown) /\ n \in 0..Len(snapshot) /\ IsKept(snapshot, n, candles)
  BY <1>2, <1>3, <1>6, KeptIs
<1>9. PICK idx : Selection(snapshot, n, candles, idx)
  BY <1>8 DEF IsKept
<1>10. FewMissing(snapshot, n, candles)
  BY <1>8 DEF IsKept
<1>11. CandlesAre(times, n, idx, bad)
  <2> HIDE DEF times, n
  <2> QED BY <1>5, <1>6, <1>7, <1>8, <1>9, <1>10 DEF CandlesAre, times, n
<1> QED BY <1>1, <1>2, <1>3, <1>11 DEF Fetched

\* The times of the candles, in their order.
LEMMA CandleTimes ==
  ASSUME NEW times, NEW n, NEW idx, NEW bad, CandlesAre(times, n, idx, bad)
  PROVE  /\ Len(candles) \in Nat /\ DOMAIN candles = 1..Len(candles) /\ Len(times) \in Nat
         /\ \A j \in 1..Len(candles) : /\ idx[j] \in 1..n /\ idx[j] \in 1..Len(times)
                                       /\ candles[j].t = times[idx[j]] /\ times[idx[j]] # bad
         /\ \A i \in 1..n : times[i] # bad => times[i] \in Opened(candles)
         /\ \A i \in 1..Len(times) : times[i] \in Nat
<1>1. Len(candles) \in Nat /\ DOMAIN candles = 1..Len(candles) /\ Len(times) \in Nat
      /\ n \in 0..Len(times)
  BY LenProperties DEF CandlesAre
<1>2. ASSUME NEW j \in 1..Len(candles)
      PROVE  /\ idx[j] \in 1..n /\ idx[j] \in 1..Len(times)
             /\ candles[j].t = times[idx[j]] /\ times[idx[j]] # bad
  <2>1. idx[j] \in 1..n /\ candles[j] = snapshot[idx[j]] /\ snapshot[idx[j]].ok
    BY DEF CandlesAre, Selection
  <2>2. idx[j] \in 1..Len(times)
    BY <1>1, <2>1
  <2> QED BY <2>1, <2>2 DEF CandlesAre
<1>3. ASSUME NEW i \in 1..n, times[i] # bad
      PROVE  times[i] \in Opened(candles)
  <2>1. i \in 1..Len(times)
    BY <1>1
  <2>2. snapshot[i].ok
    BY <1>3, <2>1 DEF CandlesAre
  <2>3. PICK j \in 1..Len(candles) : idx[j] = i
    BY <2>2 DEF CandlesAre, Selection
  <2>4. candles[j].t = times[i]
    BY <1>2, <2>3
  <2> QED BY <1>1, <2>4 DEF Opened
<1>4. \A i \in 1..Len(times) : times[i] \in Nat
  BY ElementOfSeq DEF CandlesAre
<1> QED BY <1>1, <1>2, <1>3, <1>4

\* Right candles are those that were asked for.
LEMMA AskedNow ==
  ASSUME IInv, ResultInv
  PROVE  CandlesAsAsked
<1> SUFFICES ASSUME call.op = "candles", pc = "idle", err = "success"
             PROVE  CandlesAsAsked
  BY DEF CandlesAsAsked, Done
<1>1. Fetched
  BY CandlesDone
<1>2. PICK times, n, idx, bad : CandlesAre(times, n, idx, bad)
  BY CandlesDone
<1> DEFINE l == Len(candles)
           m == Len(times)
<1>3. /\ l \in Nat /\ DOMAIN candles = 1..l /\ m \in Nat /\ n \in 0..m /\ n \in Nat
      /\ DOMAIN snapshot = 1..m /\ Len(snapshot) = m
  BY <1>2, CandleTimes DEF CandlesAre
<1>4. \A j \in 1..l : /\ idx[j] \in 1..n /\ idx[j] \in 1..m
                      /\ candles[j].t = times[idx[j]] /\ times[idx[j]] # bad
  BY <1>2, CandleTimes
<1>5. \A i \in 1..m : snapshot[i].t = times[i] /\ snapshot[i].ok = (times[i] # bad)
  BY <1>2 DEF CandlesAre
<1>6. \A i \in 1..m : Start(call) <= times[i] /\ times[i] <= call.until
  BY <1>2 DEF CandlesAre, IsOpen
<1>7. \A i, j \in 1..m : i < j => times[i] < times[j]
  BY <1>2 DEF CandlesAre, IsOpen
<1>8. \A i \in 1..m : times[i] \in Nat
  BY <1>2, CandleTimes
<1>9. \A i \in 1..n : times[i] # bad => times[i] \in Opened(candles)
  BY <1>2, CandleTimes
<1>10. \A j \in 2..l : idx[j - 1] < idx[j]
  BY <1>2 DEF CandlesAre, Selection
<1>11. FewMissing(snapshot, n, candles) /\ n = AtMost(m, LimitOf(call))
  BY <1>2 DEF CandlesAre
<1> HIDE DEF l, m
<1>12. ASSUME NEW i \in 2..l PROVE candles[i - 1].t < candles[i].t
  <2>1. i \in 1..l /\ i - 1 \in 1..l /\ idx[i - 1] < idx[i]
    BY <1>3, <1>10
  <2> QED BY <2>1, <1>4, <1>7
<1>13. ASSUME NEW i \in DOMAIN candles
       PROVE  candles[i].t <= call.until /\ (call.since # None => candles[i].t >= call.since)
  <2>1. candles[i].t = times[idx[i]] /\ idx[i] \in 1..m
    BY <1>3, <1>4
  <2>2. call.since # None => Start(call) = call.since
    BY DEF Start
  <2>3. call.since # None => call.since = 1
    BY <1>1 DEF Fetched
  <2> QED BY <2>1, <2>2, <2>3, <1>6, <1>8
<1>14. ASSUME NEW i \in DOMAIN snapshot, snapshot[i].ok,
              NEW t \in Opened(candles), t > snapshot[i].t
       PROVE  snapshot[i].t \in Opened(candles)
  <2>1. i \in 1..m /\ snapshot[i].t = times[i] /\ times[i] # bad
    BY <1>3, <1>5, <1>14
  <2>2. PICK j \in 1..l : t = candles[j].t
    BY <1>3 DEF Opened
  <2>3. t = times[idx[j]] /\ idx[j] \in 1..m /\ idx[j] \in 1..n
    BY <1>4, <2>2
  <2>4. times[i] < times[idx[j]]
    BY <1>8, <1>14, <2>1, <2>3
  <2>5. ~ (idx[j] < i) /\ idx[j] # i
    BY <1>7, <1>8, <2>1, <2>3, <2>4
  <2>6. i \in 1..n
    BY <1>3, <2>1, <2>3, <2>5
  <2> QED BY <1>9, <2>1, <2>6
<1>15. ASSUME call.limit \in {None, 0}
       PROVE  Len(candles) >= Len(snapshot) - 1
  <2>1. LimitOf(call) = 0
    BY <1>15 DEF LimitOf
  <2>2. n = m
    BY <1>11, <2>1 DEF AtMost
  <2>3. \E b \in Nat : AllBut(snapshot, n, b)
    <3>1. CASE \E b \in 1..m : times[b] = bad
      <4>1. PICK b \in 1..m : times[b] = bad
        BY <3>1
      <4>2. ASSUME NEW i \in 1..m, i # b PROVE times[i] # bad
        BY <1>7, <1>8, <4>1, <4>2
      <4>3. AllBut(snapshot, n, b)
        BY <1>5, <2>2, <4>2 DEF AllBut
      <4> QED BY <4>1, <4>3
    <3>2. CASE ~ \E b \in 1..m : times[b] = bad
      <4>1. AllBut(snapshot, n, 0)
        BY <1>5, <2>2, <3>2 DEF AllBut
      <4> QED BY <4>1
    <3> QED BY <3>1, <3>2
  <2>4. Len(candles) >= n - 1
    BY <1>11, <2>3 DEF FewMissing
  <2> QED BY <1>3, <2>2, <2>4
<1>16. ASSUME call.limit \notin {None, 0}
       PROVE  Len(candles) <= call.limit
  <2>1. LimitOf(call) = call.limit /\ call.limit \in Nat \ {0}
    BY <1>1, <1>16 DEF LimitOf, Fetched
  <2>2. n <= call.limit
    BY <1>3, <1>11, <2>1 DEF AtMost
  <2>3. Len(candles) <= n
    BY <1>11 DEF FewMissing
  <2> QED BY <1>3, <2>1, <2>2, <2>3 DEF l
<1> QED BY <1>12, <1>13, <1>14, <1>15, <1>16 DEF CandlesAsAsked, l

\* With a limit they are the newest.
LEMMA NewestNow ==
  ASSUME IInv, ResultInv
  PROVE  LimitMeansNewest
<1> DEFINE frame == Frames[call.frame]
           newest == {t \in 0..call.until : t % frame = 0 /\ t > call.until - call.limit * frame}
<1> SUFFICES ASSUME call.op = "candles", pc = "idle", err = "success",
                    call.since = None, call.limit \notin {None, 0},
                    call.until % frame # 0, call.limit * frame <= call.until
             PROVE  Opened(candles) = {t \in newest : \E i \in DOMAIN snapshot :
                                         snapshot[i].t = t /\ snapshot[i].ok}
  BY DEF LimitMeansNewest, Done
<1>1. Fetched
  BY CandlesDone
<1>2. PICK times, n, idx, bad : CandlesAre(times, n, idx, bad)
  BY CandlesDone
<1> DEFINE from == call.until - call.limit * frame
           m == Len(times)
           l == Len(candles)
<1>3. /\ frame \in Nat \ {0} /\ call.limit \in Nat \ {0} /\ call.until \in Nat
      /\ call.until <= MaxTime /\ MaxTime < Width /\ MaxTime \in Nat /\ Width \in Nat \ {0}
      /\ LimitOf(call) = call.limit
  BY <1>1, FramesAssumption, TimeAssumption, WidthAssumption DEF Fetched, CandleCalls, LimitOf
<1> HIDE DEF frame
<1>4. /\ from \in Nat
      /\ Len(OpenTimes(from, call.until, frame)) = call.limit
      /\ \A i \in 1..call.limit : OpenTimes(from, call.until, frame)[i] > from
  <2> HIDE DEF from
  <2> QED BY <1>3, NewestTimes DEF from
<1>5. Start(call) = from
  <2>1. Start(call) = from % Width
    BY DEF Start, calculate_start_time, frame
  <2>2. from <= call.until
    <3>1. call.limit * frame \in Nat
      BY <1>3, Products
    <3> QED BY <1>3, <3>1
  <2> HIDE DEF from
  <2> QED BY <1>3, <1>4, <2>1, <2>2
<1> HIDE DEF from
<1>6. times = OpenTimes(from, call.until, frame)
  BY <1>2, <1>5 DEF CandlesAre, Times, frame
<1>7. m = call.limit /\ \A i \in 1..m : times[i] > from
  BY <1>4, <1>6
<1>8. /\ l \in Nat /\ DOMAIN candles = 1..l /\ DOMAIN snapshot = 1..m /\ Len(snapshot) = m
  BY <1>2, CandleTimes DEF CandlesAre
<1>9. n = m
  <2>1. n = AtMost(m, call.limit)
    BY <1>2, <1>3 DEF CandlesAre
  <2> QED BY <1>3, <1>7, <2>1 DEF AtMost
<1>10. \A j \in 1..l : /\ idx[j] \in 1..m
                       /\ candles[j].t = times[idx[j]] /\ times[idx[j]] # bad
  BY <1>2, CandleTimes
<1>11. \A i \in 1..m : snapshot[i].t = times[i] /\ snapshot[i].ok = (times[i] # bad)
  BY <1>2 DEF CandlesAre
<1>12. \A i \in 1..m : times[i] \in Nat /\ times[i] <= call.until /\ times[i] % frame = 0
  BY <1>2, CandleTimes DEF CandlesAre, IsOpen, frame
<1>13. \A i \in 1..m : times[i] # bad => times[i] \in Opened(candles)
  BY <1>2, <1>9, CandleTimes
<1> HIDE DEF m, l
<1>14. \A i \in 1..m : times[i] \in newest
  BY <1>3, <1>7, <1>12 DEF from
<1> HIDE DEF newest
<1>15. ASSUME NEW t \in Opened(candles)
       PROVE  t \in newest /\ \E i \in DOMAIN snapshot : snapshot[i].t = t /\ snapshot[i].ok
  <2>1. PICK j \in 1..l : t = candles[j].t
    BY <1>8 DEF Opened
  <2>2. idx[j] \in 1..m /\ t = times[idx[j]] /\ times[idx[j]] # bad
    BY <1>10, <2>1
  <2>3. idx[j] \in DOMAIN snapshot /\ snapshot[idx[j]].t = t /\ snapshot[idx[j]].ok
    BY <1>8, <1>11, <2>2
  <2> QED BY <1>14, <2>2, <2>3
<1>16. ASSUME NEW i \in DOMAIN snapshot, snapshot[i].ok
       PROVE  snapshot[i].t \in Opened(candles)
  BY <1>8, <1>11, <1>13, <1>16
<1> QED BY <1>15, <1>16

\* What is computed from right candles is right.
LEMMA StatsNow ==
  ASSUME IInv, ResultInv
  PROVE  StatsRight
<1> DEFINE n == Len(candles)
           window(start, count) == {i \in 1..n : start < i /\ i <= start + count}
<1>1. candles \in Seq(Shown) /\ n \in Nat
  <2>1. candles \in Seq(Shown)
    BY DEF ResultInv, CandleInv
  <2> QED BY <2>1, LenProperties
<1>2. ASSUME NEW u \in BOOLEAN
      PROVE  LET sum[i \in 0..n] == IF i = 0 THEN 0 ELSE sum[i - 1] + Twice(candles[i], u)
             IN  \A period \in 1..n : \A i \in period..n :
                   hl_ohlcvs_calculate_sma(period, u)[i] = sum[i] - sum[i - period]
  <2> DEFINE Is(f) == f = [i \in 0..n |-> IF i = 0 THEN 0 ELSE f[i - 1] + Twice(candles[i], u)]
             sum == CHOOSE f : Is(f)
  <2>1. Adds(sum, n, Weights(u))
    BY <1>1, RunningSum
  <2>2. ASSUME NEW period \in 1..n, NEW i \in period..n
        PROVE  hl_ohlcvs_calculate_sma(period, u)[i] = sum[i] - sum[i - period]
    <3> HIDE DEF sum
    <3> QED BY <1>1, <2>1, AverageIs
  <2> HIDE DEF n
  <2> QED BY <2>2
<1>4. ASSUME NEW start \in 0..(n - 1), NEW count \in (1..(n + 1)) \cup {Width - 1},
             start + count < Width
      PROVE  /\ hl_ohlcvs_highest_high(start, count) = Max({candles[i].high : i \in window(start, count)})
             /\ hl_ohlcvs_lowest_low(start, count) = Min({candles[i].low : i \in window(start, count)})
  <2>1. count \in Nat \ {0}
    BY <1>1, WidthAssumption
  <2> QED BY <1>1, <1>4, <2>1, HighestIs, LowestIs
<1> HIDE DEF n
<1> QED BY <1>2, <1>4 DEF StatsRight, n

\* For any timeframes, limits and times, candles are the readable ones of the
\* interval that was asked for, with a limit the newest, and averages, highs and
\* lows are those of their windows (hl_fetch_ohlcv, calculate_start_time,
\* hl_ohlcvs_*).
THEOREM RightCandles == Spec => []CandlesRight
<1>1. (IInv /\ ResultInv) => CandlesRight
  BY AskedNow, NewestNow, StatsNow DEF CandlesRight
<1> QED BY <1>1, ResultInvariance, PTL

=============================================================================
