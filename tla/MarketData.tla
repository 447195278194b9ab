----------------------------- MODULE MarketData -----------------------------
(***************************************************************************)
(* The calls that fetch the markets to resolve a symbol: the order book    *)
(* (orderbook.c), the candles (ohlcv.c), the ticker (ticker.c), the        *)
(* leverage and the margin (leverage.c, margin.c).                         *)
(*                                                                         *)
(* One thread's calls are modelled step by step.  hl_get_asset_id copies   *)
(* the coin to a static buffer, which the calls of other threads overwrite *)
(* (Intrude).  Times are in seconds; uint64_t counts modulo Width.         *)
(***************************************************************************)
EXTENDS Markets, FiniteSetsExt

CONSTANTS
  Table,      \* coin -> asset id, as in leverage.c
  Unmargined, \* the coin of Table that margin.c leaves out
  Width,      \* 2^64
  Frames,     \* timeframe -> seconds
  Day,        \* seconds in a day
  MaxTime,    \* bound: latest time of day
  MaxLimit,   \* bound: candles or levels asked for
  MaxLevels,  \* bound: levels in one side of a book
  High, Low, Close  \* prices of the candle that opens at a time

ASSUME TableAssumption == Table \in [DOMAIN Table -> Nat] /\ DOMAIN Table \subseteq Coins
ASSUME WidthAssumption == Width \in Nat \ {0, 1} /\ MaxTime < Width
ASSUME FramesAssumption == Frames \in [DOMAIN Frames -> Nat \ {0}]
ASSUME TimeAssumption == {Day, MaxTime, MaxLimit, MaxLevels} \subseteq Nat
ASSUME PriceAssumption == {High, Low, Close} \subseteq [0..MaxTime -> Nat]

VARIABLES
  coinBuf,   \* coin_buf of hl_get_asset_id, None while nobody reads it
  asset,     \* asset_id
  info,      \* market_info
  request,   \* the request the call posted last
  book,      \* result: sides of the book
  raw,       \* (history) the sides the exchange answered
  candles,   \* result: candles
  snapshot,  \* (history) the candles the exchange answered
  ticker     \* result: the coin whose prices the ticker shows

dataVars == <<coinBuf, asset, info, request, book, raw, candles, snapshot, ticker>>
vars == <<marketVars, dataVars>>

Sides == {"bids", "asks"}
EmptyBook == [side \in Sides |-> <<>>]

-----------------------------------------------------------------------------
(* Beginning of the calls. *)

\* The application has released the results of its last call.
Dropped ==
  /\ book' = EmptyBook
  /\ raw' = EmptyBook
  /\ candles' = <<>>
  /\ snapshot' = <<>>
  /\ ticker' = None
  /\ UNCHANGED <<coinBuf, asset, info, request>>

\* These calls know nothing of a cache and are made without one.
Begin(c, step) ==
  /\ cache = None
  /\ Enter(c, step)
  /\ Dropped
  /\ UNCHANGED <<listing, heap, owned, cache>>

\* The call returns; its variables are gone.
Leave(e, released, result) ==
  /\ Return(e, released, result)
  /\ coinBuf' = None
  /\ asset' = 0
  /\ info' = None
  /\ request' = None

\* A call that is refused before it does anything.
Refused(c, e) == Begin(c, "idle") /\ err' = e

Started(c, step) == Begin(c, step) /\ UNCHANGED err

\* The arguments nothing depends on before the POST are chosen there.
FetchOrderBook ==
  \E s \in Symbols : Started([op |-> "book", sym |-> s, limit |-> 0], "swapPost")

\* validate_timeframe.
FetchOhlcv ==
  \E s \in Symbols, frame \in DOMAIN Frames \cup {None} :
    LET c == [op |-> "candles", sym |-> s, limit |-> None, since |-> None,
              until |-> 0, frame |-> frame]
    IN  IF frame = None THEN Refused(c, "params") ELSE Started(c, "swapPost")

GetTicker ==
  \E s \in Symbols : Started([op |-> "ticker", sym |-> s], "swapPost")

\* The coins of the table need no fetch.
Resolved(op, coin) ==
  coin \in DOMAIN Table /\ ~(op = "margin" /\ coin = Unmargined)

Unfetched(c) == c.coin = None \/ Resolved(c.op, c.coin)

\* keyed says whether the client has a wallet and a key.
Update(c, valid, keyed) ==
  IF ~valid THEN Refused(c, "params")
  ELSE IF ~keyed THEN Refused(c, "auth")
  ELSE Started(c, IF Unfetched(c) THEN "pick" ELSE "swapPost")

SetLeverage(coin, leverage, keyed) ==
  Update([op |-> "leverage", coin |-> coin], leverage >= 1 /\ leverage <= 50, keyed)

\* The amount counts by its sign.
AddMargin(coin, amount, keyed) ==
  Update([op |-> "margin", coin |-> coin], amount > 0, keyed)

\* hl_reduce_margin adds the negative amount, which hl_add_margin refuses.
ReduceMargin(coin, amount, keyed) ==
  IF amount <= 0 THEN Refused([op |-> "margin", coin |-> coin], "params")
  ELSE AddMargin(coin, -amount, keyed)

-----------------------------------------------------------------------------
(* hl_get_asset_id and hl_get_market on the fetched rows. *)

fetched == <<listing, call, reply, owned, cache>>
results == <<book, raw, candles, snapshot, ticker>>

\* A symbol without a slash is not copied.
CopyCoin ==
  /\ pc = "copy"
  /\ pc' = "scan"
  /\ at' = 1
  /\ coinBuf' = IF call.sym.type = "plain" THEN None ELSE call.sym.base
  /\ UNCHANGED <<fetched, err, markets, heap, leaked, asset, info, request, results>>

Sought == IF call.sym.type = "plain" THEN call.sym.base ELSE coinBuf

ScanHit ==
  /\ pc = "scan" /\ at \in DOMAIN markets
  /\ markets[at].base = Sought /\ markets[at].type = "swap"
  /\ asset' = markets[at].id
  /\ pc' = "match"
  /\ coinBuf' = None
  /\ at' = 1
  /\ UNCHANGED <<fetched, err, markets, heap, leaked, info, request, results>>

ScanMiss ==
  /\ pc = "scan" /\ at \in DOMAIN markets
  /\ ~(markets[at].base = Sought /\ markets[at].type = "swap")
  /\ at' = at + 1
  /\ UNCHANGED <<fetched, pc, err, markets, heap, leaked, coinBuf, asset,
                 info, request, results>>

ScanEnds ==
  /\ pc = "scan" /\ at \notin DOMAIN markets
  /\ Leave("notfound", Array, {})
  /\ at' = 1
  /\ UNCHANGED <<fetched, results>>

\* Another thread's hl_get_asset_id: any coin, or the bytes of two mixed.
Intrude ==
  /\ pc = "scan" /\ call.sym.type # "plain"
  /\ \E c \in Coins \cup {None} : coinBuf' = c
  /\ UNCHANGED <<marketVars, asset, info, request, results>>

\* Mutant: the row is looked up by the id that was found.
MatchById ==
  /\ pc = "match"
  /\ info' \in hl_get_market_by_id(markets, asset)
  /\ pc' = "post"
  /\ UNCHANGED <<fetched, err, at, markets, heap, leaked, coinBuf, asset,
                 request, results>>

Match ==
  /\ pc = "match"
  /\ LET found == hl_get_market(markets, call.sym)
     IN  IF found = {}
         THEN /\ Leave("notfound", Array, {})
              /\ UNCHANGED <<at, results>>
         ELSE /\ info' \in found
              /\ pc' = "post"
              /\ UNCHANGED <<err, at, markets, heap, leaked, coinBuf, asset,
                             request, results>>
  /\ UNCHANGED fetched

\* Swaps are asked for by name, everything else by the id that was found.
Subject ==
  IF info.type = "swap" THEN [coin |-> info.base] ELSE [id |-> asset]

-----------------------------------------------------------------------------
(* hl_fetch_order_book.  What the look-ups found is not read after the POST. *)

PostBook ==
  /\ pc = "post" /\ call.op = "book"
  /\ \E depth \in 0..MaxLimit : call' = [call EXCEPT !.limit = depth]
  /\ request' = [subject |-> Subject]
  /\ pc' = "bookWait"
  /\ markets' = <<>> /\ asset' = 0 /\ info' = None
  /\ UNCHANGED <<listing, reply, owned, cache, err, at, heap, leaked, coinBuf,
                 results>>

\* These returns leave the markets behind.
BookFails ==
  /\ pc = "bookWait"
  /\ \E e \in {"network", "api", "parse"} : Leave(e, {}, {})
  /\ UNCHANGED <<fetched, at, results>>

BookAnswers ==
  /\ pc = "bookWait"
  /\ pc' = "bids"
  /\ UNCHANGED <<fetched, err, at, markets, heap, leaked, coinBuf, asset,
                 info, request, results>>

\* Sides of a book that is not crossed; ok says whether px and sz are strings.
Level(side, i, ok) ==
  [px |-> IF side = "bids" THEN MaxLevels + 1 - i ELSE MaxLevels + 1 + i,
   sz |-> i, ok |-> ok]
Levels(side) ==
  UNION {{[i \in 1..n |-> Level(side, i, f[i])] : f \in [1..n -> BOOLEAN]} :
           n \in 0..MaxLevels}

AtMost(n, limit) == IF limit > 0 /\ n > limit THEN limit ELSE n

\* parse_orderbook_levels: of the first levels, those that are readable.
Kept(levels, limit) ==
  LET n == AtMost(Len(levels), limit)
      kept[i \in 0..n] == IF i = 0 THEN <<>>
                          ELSE IF levels[i].ok THEN Append(kept[i - 1], levels[i])
                          ELSE kept[i - 1]
  IN  kept[n]

\* Mutant: a failure of the second side forgets the first.
SideFailsKeeps(side) ==
  /\ pc = side
  /\ \E e \in {"parse", "memory"} : Leave(e, Array, {})
  /\ UNCHANGED <<fetched, at, results>>

\* Not an array, or no memory: hl_free_orderbook and the markets.
SideFails(side) ==
  /\ pc = side
  /\ \E e \in {"parse", "memory"} : Leave(e, Sides \cup Array, {})
  /\ book' = EmptyBook
  /\ UNCHANGED <<fetched, at, raw, candles, snapshot, ticker>>

Block(side, levels) == IF levels = <<>> THEN {} ELSE {side}

ReadBids ==
  /\ pc = "bids"
  /\ \E levels \in Levels("bids") :
       /\ book' = [book EXCEPT !["bids"] = Kept(levels, call.limit)]
       /\ raw' = [raw EXCEPT !["bids"] = levels]
       /\ heap' = heap \cup Block("bids", levels)
  /\ pc' = "asks"
  /\ UNCHANGED <<fetched, err, at, markets, leaked, coinBuf, asset, info,
                 request, candles, snapshot, ticker>>

ReadAsks ==
  /\ pc = "asks"
  /\ \E levels \in Levels("asks") :
       /\ book' = [book EXCEPT !["asks"] = Kept(levels, call.limit)]
       /\ raw' = [raw EXCEPT !["asks"] = levels]
       /\ Leave("success", Array, Sides)
  /\ UNCHANGED <<fetched, at, candles, snapshot, ticker>>

-----------------------------------------------------------------------------
(* hl_fetch_ohlcv. *)

\* Mutant: one frame more.
calculate_start_time_more(end, limit, frame) ==
  (end - (limit + 1) * Frames[frame]) % Width

calculate_start_time(end, limit, frame) == (end - limit * Frames[frame]) % Width

Start(c) ==
  IF c.since # None THEN c.since
  ELSE IF c.limit \in {None, 0} THEN (c.until - Day) % Width
  ELSE calculate_start_time(c.until, c.limit, c.frame)

\* until NULL stands for the time of day.
PostCandles ==
  /\ pc = "post" /\ call.op = "candles"
  /\ \E n \in (0..MaxLimit) \cup {None}, since \in {None, 1}, until \in 0..MaxTime :
       call' = [call EXCEPT !.limit = n, !.since = since, !.until = until]
  /\ request' = [subject |-> Subject, from |-> Start(call'), to |-> call'.until]
  /\ pc' = "candleWait"
  /\ markets' = <<>> /\ asset' = 0 /\ info' = None
  /\ UNCHANGED <<listing, reply, owned, cache, err, at, heap, leaked, coinBuf,
                 results>>

CandlesFail ==
  /\ pc = "candleWait"
  /\ \E e \in {"network", "api", "parse", "memory"} : Leave(e, Array, {})
  /\ UNCHANGED <<fetched, at, results>>

\* What the exchange answers (external): the candles that open in the interval,
\* oldest first; bad is one it may spell differently.
OpenTimes(from, to, frame) ==
  LET first == (from + frame - 1) \div frame
      n == IF first > to \div frame THEN 0 ELSE (to \div frame) - first + 1
  IN  [i \in 1..n |-> (first + i - 1) * frame]
Candle(t, bad) ==
  [t |-> t, high |-> High[t], low |-> Low[t], close |-> Close[t], ok |-> t # bad]
Answer(times, bad) == [i \in DOMAIN times |-> Candle(times[i], bad)]

\* NULL and 0 stand for no limit.
LimitOf(c) == IF c.limit = None THEN 0 ELSE c.limit

ReadCandles ==
  /\ pc = "candleWait"
  /\ LET times == OpenTimes(request.from, request.to, Frames[call.frame])
     IN  \E bad \in {times[i] : i \in DOMAIN times} \cup {None} :
           /\ snapshot' = Answer(times, bad)
           /\ candles' = Kept(snapshot', LimitOf(call))
           /\ Leave("success", Array, {})
  /\ UNCHANGED <<fetched, at, book, raw, ticker>>

-----------------------------------------------------------------------------
(* hl_get_ticker. *)

FindTicker ==
  /\ pc = "ticker"
  /\ LET found == hl_get_market(markets, call.sym)
     IN  IF found = {}
         THEN /\ Leave("notfound", Array, {})
              /\ UNCHANGED ticker
         ELSE /\ Leave("success", Array, {})
              /\ ticker' \in {r.ctx : r \in found}
  /\ UNCHANGED <<fetched, at, book, raw, candles, snapshot>>

-----------------------------------------------------------------------------
(* hl_set_leverage and hl_add_margin. *)

\* The first row of the coin, whatever its type.
OfBase(coin) ==
  {markets[i] : i \in Least({j \in DOMAIN markets : markets[j].base = coin})}

\* 0 stands for not found.
PickedId ==
  IF call.coin = None THEN 0
  ELSE IF Resolved(call.op, call.coin) THEN Table[call.coin]
  ELSE IF OfBase(call.coin) = {} THEN 0
  ELSE (CHOOSE r \in OfBase(call.coin) : TRUE).id

Pick ==
  /\ pc = "pick"
  /\ IF PickedId = 0 /\ call.op = "margin"
     THEN Leave("params", Array, {})
     ELSE /\ asset' = PickedId
          /\ pc' = "sign"
          /\ heap' = heap \ Array
          /\ UNCHANGED <<err, markets, leaked, coinBuf, info, request>>
  /\ UNCHANGED <<fetched, at, results>>

SignFails ==
  /\ pc = "sign"
  /\ Leave("signature", {}, {})
  /\ UNCHANGED <<fetched, at, results>>

\* Without an id the leverage is the account's default.  seen says whether the
\* swap of the coin was among the rows.
PostUpdate ==
  /\ pc = "sign"
  /\ request' = [asset |-> IF asset = 0 THEN None ELSE asset,
                 seen |-> \E i \in DOMAIN markets : markets[i].base = call.coin /\
                                                    markets[i].type = "swap"]
  /\ pc' = "updateWait"
  /\ UNCHANGED <<fetched, err, at, markets, heap, leaked, coinBuf, asset,
                 info, results>>

\* The transport failed, a status other than 200, or a body without "ok".
UpdateAnswers ==
  /\ pc = "updateWait"
  /\ \E e \in {"success", "network", "api"} : Leave(e, {}, {})
  /\ UNCHANGED <<fetched, at, results>>

-----------------------------------------------------------------------------
(* What the application computes from a result. *)

hl_orderbook_get_best(side) == IF book[side] = <<>> THEN 0 ELSE book[side][1].px

hl_orderbook_get_spread ==
  IF hl_orderbook_get_best("bids") > 0 /\ hl_orderbook_get_best("asks") > 0
  THEN hl_orderbook_get_best("asks") - hl_orderbook_get_best("bids")
  ELSE 0

\* Mutant: the loop ends one level early.
VolumeShort(side, depth) ==
  LET levels == IF depth = 0 THEN Len(book[side]) ELSE AtMost(Len(book[side]), depth)
      total[i \in 0..levels] == IF i <= 1 THEN 0 ELSE total[i - 1] + book[side][i - 1].sz
  IN  total[levels]

\* The volume of the first depth levels, of all of them when depth is 0.
hl_orderbook_get_volume(side, depth) ==
  LET levels == IF depth = 0 THEN Len(book[side]) ELSE AtMost(Len(book[side]), depth)
      total[i \in 0..levels] == IF i = 0 THEN 0 ELSE total[i - 1] + book[side][i].sz
  IN  total[levels]

\* Twice the price of a candle that counts in an average.
Twice(c, use_close) == IF use_close THEN 2 * c.close ELSE c.high + c.low

\* Twice the sum that sma[i] divides; 0 while there is not enough data.
hl_ohlcvs_calculate_sma(period, use_close) ==
  [i \in DOMAIN candles |->
     IF i < period THEN 0
     ELSE LET c(j) == candles[i - period + j]
              sum[j \in 0..period] == IF j = 0 THEN 0 ELSE sum[j - 1] + Twice(c(j), use_close)
          IN  sum[period]]

\* Candles start, ..., end - 1, counted from 0, with end computed modulo Width.
WindowEnd(start, count) ==
  LET end == (start + count) % Width
  IN  IF end > Len(candles) THEN Len(candles) ELSE end

hl_ohlcvs_highest_high(start, count) ==
  IF start >= Len(candles) \/ count = 0 THEN 0
  ELSE LET high[i \in 0..WindowEnd(start, count)] ==
             IF i <= start THEN 0
             ELSE IF candles[i].high > high[i - 1] THEN candles[i].high
             ELSE high[i - 1]
       IN  high[WindowEnd(start, count)]

hl_ohlcvs_lowest_low(start, count) ==
  IF start >= Len(candles) \/ count = 0 THEN 0
  ELSE LET low[i \in 0..WindowEnd(start, count)] ==
             IF i <= start + 1 THEN candles[start + 1].low
             ELSE IF candles[i].low < low[i - 1] THEN candles[i].low
             ELSE low[i - 1]
       IN  low[WindowEnd(start, count)]

-----------------------------------------------------------------------------
Init ==
  /\ MarketInit
  /\ coinBuf = None
  /\ asset = 0
  /\ info = None
  /\ request = None
  /\ book = EmptyBook
  /\ raw = EmptyBook
  /\ candles = <<>>
  /\ snapshot = <<>>
  /\ ticker = None

DataCalls ==
  \/ FetchOrderBook \/ FetchOhlcv \/ GetTicker
  \/ \E coin \in Coins \cup {None}, leverage \in {0, 1, 50, 51}, keyed \in BOOLEAN :
       SetLeverage(coin, leverage, keyed)
  \/ \E coin \in Coins, amount \in {-1, 1}, keyed \in BOOLEAN :
       AddMargin(coin, amount, keyed) \/ ReduceMargin(coin, amount, keyed)

DataSteps ==
  \/ CopyCoin \/ ScanHit \/ ScanMiss \/ ScanEnds \/ Match
  \/ PostBook \/ BookFails \/ BookAnswers \/ ReadBids \/ ReadAsks
  \/ \E side \in Sides : SideFails(side)
  \/ PostCandles \/ CandlesFail \/ ReadCandles
  \/ FindTicker
  \/ Pick \/ SignFails \/ PostUpdate \/ UpdateAnswers

Step == (MarketSteps /\ UNCHANGED dataVars) \/ DataSteps

Next ==
  \/ Step
  \/ MarketCalls /\ Dropped
  \/ List /\ UNCHANGED dataVars
  \/ DataCalls
  \/ Intrude

Spec == Init /\ [][Next]_vars

-----------------------------------------------------------------------------
(* Properties; those of Markets.tla are checked here too. *)

TypeOK ==
  /\ listing \in Seq(Coins)
  /\ pc \in {"none", "idle", "swapPost", "swapRead", "spotPost", "spotRead", "hand",
            "keep", "copy", "scan", "match", "post", "bookWait", "bids", "asks",
            "candleWait", "ticker", "pick", "sign", "updateWait"}
  /\ err \in Errors
  /\ reply \in Seq(Coins)
  /\ at \in Nat \ {0}
  /\ markets \in Seq(Rows)
  /\ heap \subseteq {"array", "bids", "asks"}
  /\ owned \subseteq {"client", "http", "cache", "rows"}
  /\ cache \in Seq(Rows) \cup {None}
  /\ coinBuf \in Coins \cup {None}
  /\ asset \in Nat
  /\ ticker \in Coins \cup {None}

\* The rows are the coins the exchange listed, and every way to look one up
\* leads back to the same row (markets.c:31 and 463).
RowsRight == RowsOwn /\ LookupsAgree

Done(op) == pc = "idle" /\ call.op = op /\ err = "success"

\* Two paths lose the markets: the returns of hl_fetch_order_book between its
\* look-ups and the parsing of the sides, and hl_client_load_markets when it has no
\* memory for the cache, which it reports as success.  Every other return
\* releases what it has allocated or hands it over.
LeaksOnlyThere ==
  leaked # {} =>
    /\ leaked = {"array"}
    /\ \/ call.op = "book" /\ err \in {"network", "api", "parse"}
       \/ call.op = "load" /\ err = "success" /\ cache = None

\* All memory of a client has an owner, except what those two paths lose.
MemoryOwned == ClientOwned /\ LeaksOnlyThere

\* A book or candles of a swap are asked for under the name of that swap even
\* when other threads overwrite coin_buf meanwhile. Of spots nothing is said: the
\* id they are asked for under is that of the swap of the coin in coin_buf.
SwapAsAsked ==
  (request # None /\ call.op \in {"book", "candles"} /\ call.sym.type = "swap") =>
    request.subject = [coin |-> call.sym.base]

Swap(id, coin) == id + 1 \in DOMAIN listing /\ listing[id + 1] = coin
Spot(id, coin) ==
  \E i \in DOMAIN Spots : Spots[i].base = coin /\ Spots[i].index \in {id, None}

\* An id that leverage or margin is set for is, unless the table gave it, that of
\* the swap of the coin asked for when this was readable, and of its spot market
\* otherwise, which may be listed without an id. Only leverage is ever set for no
\* id, as the account's default: for a coin that was not found, and for id 0.
AssetAsked ==
  (request # None /\ call.op \in Shrugs /\ ~Resolved(call.op, call.coin)) =>
    IF request.asset # None
    THEN Swap(request.asset, call.coin) \/ (~request.seen /\ Spot(request.asset, call.coin))
    ELSE call.op = "leverage" /\ (request.seen => Swap(0, call.coin))

\* A ticker shows the prices of the swap that was asked for, however many
\* entries before it were unreadable.
TickerOwn ==
  Done("ticker") => call.sym = [base |-> ticker, type |-> "swap"]

\* A swap that a caller asks for is the one that is asked for, changed and
\* answered from (hl_get_market, hl_set_leverage, hl_add_margin, hl_get_ticker).
RightMarket == SwapAsAsked /\ AssetAsked /\ TickerOwn

\* The rows of a book are the readable ones among the first levels that were
\* asked for, best first; after an error there are none.
BookRows ==
  call.op = "book" /\ pc = "idle" =>
    \A side \in Sides :
      /\ err # "success" => book[side] = <<>>
      /\ err = "success" =>
           {book[side][k] : k \in DOMAIN book[side]} =
             {raw[side][i] : i \in {j \in DOMAIN raw[side] :
                raw[side][j].ok /\ (call.limit = 0 \/ j <= call.limit)}}
      /\ \A k \in 2..Len(book[side]) :
           IF side = "bids" THEN book[side][k].px < book[side][k - 1].px
                            ELSE book[side][k].px > book[side][k - 1].px

\* The spread is that of the exchange's book or, when a best level was
\* unreadable, a larger one: never a narrower one, and never negative.
SpreadNeverNarrow ==
  Done("book") /\ book["bids"] # <<>> /\ book["asks"] # <<>> =>
    /\ hl_orderbook_get_spread >= raw["asks"][1].px - raw["bids"][1].px
    /\ hl_orderbook_get_spread > 0

\* The volume at a depth is the sum over the levels up to it; asking for the
\* depth the book was fetched with gives all there is.
VolumeRight ==
  Done("book") => \A side \in Sides :
    /\ \A depth \in 0..(MaxLimit + 1) :
         hl_orderbook_get_volume(side, depth) =
           MapThenSumSet(LAMBDA k : book[side][k].sz,
                         {k \in DOMAIN book[side] : depth = 0 \/ k <= depth})
    /\ hl_orderbook_get_volume(side, call.limit) = hl_orderbook_get_volume(side, 0)

\* A book and what is computed from it tell what the exchange's book says
\* (orderbook.c).
BookRight == BookRows /\ SpreadNeverNarrow /\ VolumeRight

Opened(cs) == {cs[i].t : i \in DOMAIN cs}

\* Asking for the last n candles up to a time that is not a multiple of the
\* timeframe gives exactly the newest n, those that were unreadable missing, and
\* the latest of the result is the newest of them.  (At a multiple the interval
\* holds n + 1 candles and the newest is cut off; before n frames after 1970 the
\* start wraps around.)
LimitMeansNewest ==
  (Done("candles") /\ call.since = None /\ call.limit \notin {None, 0}) =>
    LET frame == Frames[call.frame]
        newest == {t \in 0..call.until : t % frame = 0 /\ t > call.until - call.limit * frame}
    IN  (call.until % frame # 0 /\ call.limit * frame <= call.until) =>
          Opened(candles) = {t \in newest : \E i \in DOMAIN snapshot :
                               snapshot[i].t = t /\ snapshot[i].ok}

\* The candles of a result are the readable ones of the answer, oldest first and
\* none before since; with a limit, none is left out that is older than one kept.
CandlesAsAsked ==
  Done("candles") =>
    /\ \A i \in 2..Len(candles) : candles[i - 1].t < candles[i].t
    /\ \A i \in DOMAIN candles : /\ candles[i].t <= call.until
                                 /\ call.since # None => candles[i].t >= call.since
    /\ \A i \in DOMAIN snapshot :
         (snapshot[i].ok /\ \E t \in Opened(candles) : t > snapshot[i].t)
           => snapshot[i].t \in Opened(candles)
    /\ call.limit \in {None, 0} => Len(candles) >= Len(snapshot) - 1
    /\ call.limit \notin {None, 0} => Len(candles) <= call.limit

\* The moving averages of the closes and of the middles, the highest high and the
\* lowest low are those of their windows, as long as start + count does not wrap
\* around.
StatsRight ==
  LET n == Len(candles)
  IN  /\ \A use_close \in BOOLEAN :
           LET sum[i \in 0..n] == IF i = 0 THEN 0 ELSE sum[i - 1] + Twice(candles[i], use_close)
           IN  \A period \in 1..n : \A i \in period..n :
                 hl_ohlcvs_calculate_sma(period, use_close)[i] = sum[i] - sum[i - period]
      /\ \A start \in 0..(n - 1), count \in (1..(n + 1)) \cup {Width - 1} :
           LET window == {i \in 1..n : start < i /\ i <= start + count}
           IN  start + count < Width =>
                 /\ hl_ohlcvs_highest_high(start, count) = Max({candles[i].high : i \in window})
                 /\ hl_ohlcvs_lowest_low(start, count) = Min({candles[i].low : i \in window})

\* Candles, and what is computed from them, are those of the interval that was
\* asked for (ohlcv.c).
CandlesRight == CandlesAsAsked /\ LimitMeansNewest /\ StatsRight

=============================================================================
