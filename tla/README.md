# Verification of hyperliquid-c

TLA+ modules, TLC configurations and TLAPS proofs for the C client library of
the Hyperliquid exchange (`src/`). The source is the reference; every definition
that stands for code is listed with its lines in `PROJECT.json` under `map`.

## 1. The system

### Components

| component | source (`src/src/`) | state | operations | module |
|---|---|---|---|---|
| WebSocket client | `ws_client.c` | two copies of `connected` and `running`, a mutex, the handle of a background thread, three callbacks with one `user_data` | create, connect, disconnect, send, three setters, destroy; the thread | `WsClient` |
| Subscriptions | `websocket.c` | a growing array of subscriptions, its count and capacity | init, seven `hl_watch_*`, `hl_unwatch`, cleanup | `WsSubscriptions` |
| Trading calls | `trading_api.c` | none of their own: the client's mutex and HTTP handle | `hl_place_order`, `hl_cancel_order` | `TradingApi`, `OrderDesk` |
| Batches and edit | `orders.c` | none | `hl_create_orders`, `hl_cancel_orders`, `hl_edit_order` | `TradingApi` |
| Queries | `orders.c`, `trades.c`, `funding.c`, parts of `account.c`, `markets.c`, `types.c` | none: what a call has allocated | fetch orders, trades, funding, ledger, positions, open interests; release of the results | `InfoQueries` |
| HTTP client | `http/client.c` | one curl handle | post, get, test connection | `HttpHandle` |
| HTTP client, second copy | `http/simple_client.c` | the same | the same | none |
| Client object | `client.c` | credentials, HTTP client, mutex | create, destroy, test connection | `HttpHandle` (the mutex), `Signing` (the key) |
| CCXT-style client | `client_new.c` | markets cache, WebSocket client | create, load and get markets, free | `Markets` |
| Markets | `markets.c`, `market_extended.c`, `currencies.c`, `exchange.c` | a static buffer | fetch, parse, look up | `Markets`, `MarketData`, `InfoQueries` (currencies, open interests) |
| Market data | `ohlcv.c`, `orderbook.c`, `ticker.c` | none | fetch, parse, aggregate | `MarketData` |
| Leverage and margin | `leverage.c`, `margin.c`, `transfers.c` | none | resolve, sign, post | `MarketData` |
| Account | `account.c` | none | fetch, parse, validate | `InfoQueries` (positions, ledger) |
| Old trader | `trading.c` | trader object | trade, place, cancel, balance and positions as text | `Trader`, `OrderDesk` |
| Signing | `crypto/keccak.c`, `crypto/eip712.c`, `msgpack/serialize.c` | sponge, buffers | hash, sign, encode | `Sponge`, `Signing` |
| Types | `types.c`, `simple_types.c` | none | release of results | `InfoQueries` |

### How they interact

- `hl_place_order` and `hl_cancel_order` lock the client's mutex, fetch the
  markets to find the asset id of the coin (two POSTs), draw the time of day as
  the nonce, sign, POST to `/exchange`, and unlock before they read the answer.
- `hl_create_orders`, `hl_cancel_orders` and `hl_edit_order` call those two in a
  loop and lock again for every order.
- All POSTs of one `hl_client_t` share one curl handle. The trading calls and
  `hl_test_connection` hold the mutex around it; the fetches of markets,
  balances, positions, candles, books and tickers do not.
- The calls of `orderbook.c`, `ohlcv.c`, `ticker.c`, `leverage.c` and `margin.c`
  fetch the markets anew to resolve their symbol, without the cache of
  `client_new.c` and without the mutex.
- The old trader has its own HTTP client and makes two requests per trade, one
  for the price that limits the order and one for the price that sizes it.
- Every signed request is packed with MessagePack, hashed with its nonce and
  vault, put into an EIP-712 message, hashed twice more and signed; the recovery
  id is found by trial.
- The queries POST to `/info`. `hl_fetch_orders` is two of them, the open orders and
  the history, and `hl_fetch_open_interest` picks from `hl_fetch_open_interests`.
- The `hl_watch_*` functions connect the WebSocket client when
  `hl_ws_client_is_connected` says no, send a subscribe message and record a
  subscription. Connect starts a background thread, which polls two flags
  without the mutex. Cleanup disconnects and then destroys the client.

### What is hard here

Several application threads and a background thread over flags that are stored
one by one; a mutex that some callers of the curl handle take and others do not;
requests whose answers are lost or late, so that the caller and the exchange
disagree about what happened; batches and edits of which one step fails; error
codes of curl that hide the HTTP status; a thread that sleeps for half a minute
while its object is stopped, restarted or destroyed; pointers into an array that
moves; rows, ids and contexts of markets that run on three counters while
entries are skipped; a sponge that is fed in pieces of any length; results that
functions do not look at. `PROJECT.json` lists each hazard at its line with the properties that
watch it.

At this commit not everything links: `orders.c` calls `hl_cancel_order` without
its symbol argument, there are two definitions of the client structure
(`client.c`, `include/hl_client.h`), and several files call
`http_client_post_old` with other arguments than `include/hl_internal.h` gives
it. `trading.c` names a type that no header declares (`exchange_trader_t`) and
calls `http_client_create` with arguments. The models take the behaviour each
call evidently has, e.g. the cancel of an edit names the coin of the order.

## 2. Modules

### WsClient

One action is one access to shared memory or one pthread call, since readers
without the mutex (`hl_ws_client_is_connected`, the background thread) run
between any two stores. `Raise`, `Lower` and `Drop` store the flags one by one in
the order of the code; `Spawn` overwrites `internal->thread`; `StopWorker`,
`JoinCheck`, `Join` and `Free` are the four parts of destroy that matter.
`stale` records background threads that read the object after `Free`; what they
read is then arbitrary. `Polite` says that the application asks
`hl_ws_client_is_connected` before it connects, `Calls` which functions it uses.
The application is assumed to destroy the client once and while no call is
running.

### WsSubscriptions (composes with WsClient)

Extends `WsClient`: a watch function really calls the modelled connect
(`Connect`, then `ClientStep`s until it returns) and goes on with its result
(`Connected`, `refused`). `Grow` and `Fill` separate the choice of the slot from
the store into it; the array is numbered by `block`, which changes when realloc
moves it, and a returned id is the pointer `<<block, slot>>`. `hl_unwatch` is given
a copy of the characters of the id, or the id in place (`IdOf`). An id that is
read in place after realloc moved the array may be anything; `dangling` records that
this happened. Channels stand for channel and coin; the messages themselves are only sent or
not.

### TradingApi and OrderDesk

`TradingApi` holds both trading calls and the loops over them. A thread's `job`
is the library call it is in (a batch or an edit) with the orders and cancels
still to do; `Lock`, `FetchMarkets`, `FindAsset`, `Stamp`, `SignFails`/`Post`, and then one of
`PostFails`, `BadStatus`, `Receive`, `EmptyBody` are the order of the code, and
`Finish` is the common end of every path, the unlock included. The unlock is
before the answer is read in the code; as the answer is private to the caller
the two are one step. `ParseOid` is `sscanf("%d")` into an int: the low bits as a
signed number, with `IntLimit` for 2^31; ids are not assumed to fit. A repetition of
an order that failed is a call like any other.

The coin to be looked up stands in a static buffer of `markets.c` (`coinBuf`), which
is shared by all clients and by the fetches that take no mutex. `FetchMarkets` writes
it, `FindAsset` compares with what it holds by then, and `Intrude` is a lookup of
another thread in between; a request whose lookup was disturbed is `torn`, and may
carry the id of another coin.

External: the exchange (`Execute` with its four outcomes, `Fill`) and the network
(`Lose`, and an answer that comes after the caller gave up is dropped).

`OrderDesk` is the abstract specification: a request makes at most one order, and
a caller is told the id of the order made of its own request, once and after the
order exists. `TradingApi` implements it under the mapping `sent <- posts`,
`book <- Book`, `told <- Told`.

### HttpHandle

`http_client_post` and `http_client_get` as the single `curl_easy_setopt` calls
on a handle that keeps what was set, by the number of the request the pointer
belongs to. What the threads call is in `Calls`: `"trade"` posts under the mutex
(`hl_place_order`, `hl_cancel_order`, `hl_test_connection`), `"fetch"` posts without it,
as every fetch of the library does, and `"probe"` is `http_client_test_connection`, a
GET without it, which sets neither body nor header list. libcurl is external: it
reads the options at `Perform` and the sink at every `Receive`. `Return` lets a
call post again, under the same mutex if it has it, as `hl_place_order` does for
its markets. `exposed` is a history: the requests that overlapped one the
mutex did not keep away.

### InfoQueries

All functions that read a list from `/info` have one shape, which is modelled once:
post, check the status, parse the text, check the shape, allocate, read entry by
entry, release. A record per function (`OpenOrders`, `Ledger`, ...) says where it
departs: whether it needs a wallet, the error codes that differ, whether it
filters and when (`before` an element is filled, `after`, or by a `copy` from a
temporary array), whether it allocates for no entry, and how its result is
released. `heap` holds the blocks of the call that nobody has released; every
early return has its own release list in the code, and here its own action.

An entry of an answer is an id with a status and four facts: whether it has the
fields the parser insists on (`ok`), the optional ones (`full`), whether it
passes the filter (`match`), and whether it states its status (`says`). An entry
without one is read as an open order (`Told`); `misread` records of which orders that
was wrong. `slot` is the array element the next entry is parsed
into: entries that are skipped reuse it, and a field is recorded as coming `from`
the entry that set it. `Todo` is the order of the two requests of
`hl_fetch_orders`; between them, while a response is read, and while the rows a
filter keeps are copied (`CopyRow`), the exchange makes, fills and
cancels orders (`Trade`).

The application calls one query at a time and releases the result with the
function the library has for it. `hl_free_orders` and `hl_free_trades` corrupt
the heap when there is an element (`FreeElements`), after which the model stops;
so does the error path of `hl_fetch_orders` that uses the former.

Tickers, currencies and funding rates are records like the others.

### Markets and MarketData

`Markets` is `fetch_swap_markets`, `fetch_spot_markets` and `hl_fetch_markets`
entry by entry (`ReadSwap`, `SkipSwap`, `ReadSpot`, `SkipSpot`), the three look-ups, and
the client that keeps the rows (`LoadMarkets` releases the cache before it
fetches, `Keep` and `KeepFails` are its two ends). `listing` is the exchange's universe
of swaps, which only grows, also between the steps of a call (`List`). `heap`
holds the blocks of the running call, `leaked` what its return neither released
nor handed over, `owned` the blocks that belong to the client.

`MarketData` extends it with the calls that fetch the markets to resolve a
symbol. `CopyCoin`, `ScanHit`, `ScanMiss`, `ScanEnds` and `Match` are the scan of
`hl_get_asset_id` over its static buffer, which another thread overwrites between any
two of them (`Intrude`). `PostBook`, `ReadBids` and `ReadAsks` are the book side by side,
`PostCandles` computes the interval modulo `Width`; `Update`, `Pick` and `PostUpdate` are
leverage and margin, with their refusals of a leverage outside 1..50, of an amount that
is not positive and of a client without credentials. What the application computes from a result
(`hl_orderbook_get_volume`, `hl_ohlcvs_calculate_sma`, the highest high, ...) are
operators on the result. These calls are made on clients without a cache; an
argument that nothing depends on before the POST is chosen there.

### Trader

`trading.c`: trade, limit order, cancel and the two account queries that fill a
buffer of the caller, against an exchange whose prices move (`Move`) and which executes
a request whose answer nobody waits for any more. A symbol stands for its name without
`USDT`, a size for a number of its sixth decimal. The exchange's book and the
answers are external. `Trader` implements the same `OrderDesk` as `TradingApi`: the
mapping takes its posts for `sent`, the orders for `book` and the ids told for
`told`.

### Sponge and Signing

`Sponge` is `keccak.c`: `sha3_Update` with its four ways through a piece (a word
that is completed, whole words, the rest, an absorbed block), `sha3_Finalize`
with suffix and final bit, and `HashBuffer`. A byte is an abstract token, a lane
holds the set of what was XORed into each of its places. `keccakf` is not computed: a
context keeps the blocks that went through it, in order, and two digests are the
same when those are. `Reference` pads the whole message and cuts it into
blocks. `Word` is the number of bytes in a lane and `Lanes` the number of lanes.

`Signing` is the path of a signature: what `hl_client_new` does with the text of a key
(`Accepted`, `KeptKey`), the packer write by write, any of which may be lost (`Write`,
`WriteFails`), the hash of packed bytes, nonce and vault, the EIP-712 digests, the
signature and the search of the recovery id, with every early return and its releases. A
token of the packer is one call of msgpack: a text takes two, its size and its bytes,
an order 28 and a cancel 7. The search is the loop of the code: each of the four
ids leads to no key, to the own one or to another (`CurveSigns` chooses freely), and
`TryFails`, `TryDiffers`, `TryMatches` and `NoneMatches` are its two `continue`s, its
`break` and its end. It also has an application that hashes pieces of any
length on a context of its own. The curve is external.

### Instances and proofs

`MCWsClient`, `MCWsSubscriptions`, `MCTradingApi`, `MCHttpHandle`,
`MCInfoQueries`, `MCMarketData`, `MCTrader` and `MCSigning` give the configurations
their sets. `WsProofs` (of `WsClient` and `WsSubscriptions`), `TradingApiProofs`,
`HttpHandleProofs`, `InfoQueriesProofs`, `MarketDataProofs`, `TraderProofs` and `SigningProofs` hold
the theorems. `Numbers` has what the proofs of market data and signing need to know of
numbers: induction and recursion up to a number, products, quotients and rests.

## 3. Runs

| run | shows | bounds |
|---|---|---|
| `WsLifecycle` | flags agree outside the mutex; a running client has its thread; destroy of a running client joins it first; destroy returns; stopped threads end | 2 callers, 2 background threads, 1 context |
| `Subscriptions` | ids find their subscriptions, as copies and, until the array moves, in place; active means connected; every call returns | 1 caller, 2 background threads, 3 subscriptions, first capacity 2 |
| `TradeShared` | refinement of `OrderDesk`; an id told is that of the own order; a batch that reports success is settled; nonces that do not fall and assets that were meant (`RequestsRight`); the mutex is always freed | 2 threads, 2 coins, 3 posts, 2 calls, 2 points of time, `IntLimit` 2, lookups outside the mutex |
| `HttpShared` | whole requests, whole responses and no freed header list for what overlapped no request without the mutex | 2 threads that trade, fetch and probe, 3 requests, 2 pieces |
| `Market` | rows are the listed coins and the look-ups agree (`RowsRight`); memory has an owner but on two paths (`MemoryOwned`); requests for a swap name it, leverage and margin go to the coin's market (`RightMarket`); books, spreads, volumes (`BookRight`); candles, limits, averages (`CandlesRight`) | 2 coins, 2 spots, 2 levels a side, times to 8, 2 timeframes, `Width` 64 |
| `Queries` | orders are not missed; lists report statuses the orders had; of two rows of an order the later is the later status; nothing leaks but empty arrays; fields are those of the entry | 2 orders, all queries, all failures, entries with and without status |
| `Trader` | refinement of `OrderDesk`; one order per call at most; ids, prices and sizes are those of the call; a cancel settles; texts arrive whole or not at all | a coin of the table and one that is not in it, prices 0, 2, 3, one move, 2 orders, 2 calls, `IntMax` 3 |
| `Signing` | digests are those of the message in one piece; a signature is of its own request; keys are as given; the id sent is the first that leads to the key; nothing leaks | `Word` 2, 13 lanes, 11 tokens fed, one lost write, keys in both cases |

Why the bounds are enough: two callers and two threads give every order of two
critical sections and an old and a new background thread at once; three
subscriptions with first capacity 2 make the array be allocated, have room, be full and
move (in the code at 8, 16 and so on); three posts of two threads give a late
execution of one request beside the answer of another, an edit (cancel and order)
after an order, and a batch of two; `TinyInt` = 2 stands for 2^31, so that the second
order has an id that `%d` does not read. `TradeEdit`, which is about something else,
takes `SmallInt` = 8. The exchange's coins have distinct ids; a coin may be unlisted.
Three requests of two threads give one that runs between two of the other, with the
options and the freed list of a request before it; two orders give one
that changes between two requests while the other stays, and an entry that is
skipped before one that is kept.
In `Market` one spot carries the id of a swap and one has no index, so that the
slot realloc did not clear shows; times to 8 with timeframes of 2 and 3 seconds and a day
of 4 give intervals that end on a frame, between two, and before the first, and
`Width` 64 the wrap-around. In `Signing` a state of 13 words of two bytes has blocks
of five words and of one word (digests of 4 and 6 words), so that eleven
tokens are more than one block of either size and end at every offset in a word and
in a block. In `Trader` two orders and `IntMax` 3 give ids
below and above the limit; one move lets the price change, appear or disappear between
the two queries. Bounds that only cap counters are named `Max...` and stand
in the guards.

Fairness. `WsLifecycle` and `Subscriptions` assume that a call that has begun and
a background thread take their next step when they can: the kernel schedules
them and `sleep` returns. No fairness is assumed of the application's calls, so
that nothing obliges it to disconnect or destroy. The locks in these runs are
released by their holder under this fairness, and `MutexFreed` asks for no
particular waiter to get the lock. `TradeShared` assumes the same of its calls:
curl gives up after its timeout (30 s), so a wait ends (`PostFails` is always
possible); nothing is assumed of the exchange or the network.

`CHECK_DEADLOCK FALSE` is set where the bounds let the system stop (all posts or
requests used up, all threads idle) or where undefined behaviour ends it (the
corrupt heap of `InfoQueries`). The WebSocket runs check for deadlock, with
`Finished` as the allowed end.

### Runs that find a disagreement

| run | what the code does |
|---|---|
| `WsCleanup` | `hl_ws_cleanup_client` disconnects, which clears the flag by which destroy decides to join the background thread, and so frees the client under it |
| `TradeEdit` | the cancel of an edit counts as done on a non-200 status or when it could not be done, and the new order comes beside the old one |
| `HttpMixed` | a fetch, which takes no mutex, sets its options between those of a thread that trades: a request leaves with parts of another |
| `QueryFree` | `hl_free_orders` of a result with an order frees the array twice |

Other behaviour the models have and no run of its own states. Where the properties above
make an exception for it, they name it.

- Trading: on a non-200 status `hl_place_order` returns `HL_SUCCESS` with no order id
  (`trading_api.c:187`), and so a batch with such an order returns success
  (`orders.c:669`), where Trading Operations/Order Placement.md:124 and :143 of the wiki
  have every failure reported: `BatchSettles` speaks of the answered orders
  only (`Unconfirmed`). Two requests of one millisecond carry the same nonce
  (`trading_api.c:130`), where Order Placement.md:110 says the timestamp ensures that
  nonces are unique: `RequestsRight` says that they do not fall. A lookup that another
  thread disturbs gives the id of another coin (`markets.c:438`). An order for SOL
  goes to asset 0 when the markets cannot be fetched (`trading_api.c:108`). Order ids
  above 2^31-1 are reported as other numbers (`trading_api.c:204`). A cancel that the exchange
  answers with status ok and an error inside counts as cancelled (`trading_api.c:329`).
  A repeated order has a new nonce, and the first may still be executed.
- Old trader: a coin outside its table goes out under the id of BTC (`trading.c:52`), and
  ATOM under that of ETH (`trading.c:49`); both were seen while `ReportedIsOwn` was
  written, and it speaks of the asset only for coins the table has right.
- HTTP: a GET after a POST sends with the header list the POST has freed
  (`http/client.c:154`); `NoFreedList` is about POSTs.
- WebSocket: a callback registered later replaces the context of the first
  (`ws_client.c:231`), and another thread may do so between the two loads after the unlock
  (`ws_client.c:158`), so that no property of the context is stated. The ninth
  subscription moves the array, and an id used in place, as README.md:526 and
  `examples/websocket_demo.c` do, then points into freed memory (`websocket.c:66`).
  Disconnect and connect within the sleep of the thread leave two threads
  (`ws_client.c:145`). With two threads in the watch functions one can subscribe between
  the flag stores of a connect that is rolled back, and both can take the same slot.
- Queries: an order without a status is open (`orders.c:637`), so that `hl_fetch_order`
  may report a closed order as open, and the history drops it. An order that is filled
  between the two requests of `hl_fetch_orders` is in the result twice (`orders.c:483`);
  when one of the two fails the call succeeds with half the orders (`orders.c:478`).
  An entry that `hl_fetch_ledger` or `hl_fetch_funding_history` filters out leaves its
  fields to the next entry that lacks them (`account.c:781`, `funding.c:498`), and the
  requests of both end in one brace too many (`account.c:672`, `funding.c:397`), which is up
  to the exchange to accept. Arrays without an element are never released
  (`orders.c:484`, `markets.c:685`).
- Markets: `hl_reduce_margin` is always refused, as it passes a negative amount to a
  function that demands a positive one (`margin.c:123`). The pointers
  `hl_client_get_market` returns point into the cache that the next load frees
  (`client_new.c:188`). A spot's book is asked for under the id of the swap of
  the same coin (`orderbook.c:150`). A spot without index keeps the id that the memory
  held (`markets.c:358`). The leverage of the coin with asset id 0 is set as the
  default (`leverage.c:71`).
- Signing: of a key of 66 digits without prefix the first 64 sign (`client.c:51`), where
  Core Concepts/EIP-712 Signing.md:215 says that an incorrect length prevents key parsing;
  `KeyAsGiven` is about keys of the documented form. Results of the packer are ignored,
  and the rest of the action is signed (`msgpack/serialize.c:87`).

## 4. Proofs

All theorems are for every value of the constants that satisfies the named
assumptions of the modules, and the extra assumptions given here.

**WsClient.** `TypeCorrect`, `FlagsAgreement`, `RunningWorker` and `SafeTeardown`
have no further assumption. The invariant `IInv` adds to the types: the mutex is
held exactly inside critical sections (`LockInv`); destruction excludes other
calls (`DestroyInv`); what the first `stores` stores have done (`StoresInv`),
without which nothing is known when the last one is reached; `QuietInv`, the
agreement of the flags and the live thread as long as no section is half way
(stronger than `FlagsAgree`, as it also holds while a thread holds the mutex
before its first store); and how far destroy has got (`TeardownInv`).
`OneShotUse` assumes one caller, `Polite` and no disconnect.

**WsSubscriptions.** `UsesClient`: every behaviour of `websocket.c` is a behaviour
of `WsClient`, so that the theorems above hold of it. `SubsTypes`,
`SubsConnected` and `SubsIds` assume one application thread. `PhaseInv` ties the step of a watch function to the client call it
is in and to the life of the object, `ConnInv` says that connect is only called
while no subscription is recorded, `RecordInv` how the count, the pointer and the
array move together, and `IdInv` that ids and slots are the same numbers.
`IdInv` holds until an id is read in place after a move; it says that ids are the numbers of
the slots they were returned for, so that copies and ids in place lead to the same slot. `SubsConnected` combines `ConnInv` with `QuietInv` of the client.

**TradingApi.** No further assumption: ids may be of any size. `IInv` describes each
thread by its program counter (`ThreadInv`, `CleanInv`), requests on the wire (`WireInv`:
one per number, of the thread that waits for it), what results say (`ReportInv`), the
ids the application can know (`KnownInv`), what an answer on its way
is worth (`WaitInv`) and with it the results (`SettleInv`), stamps that are not
above the clock nor below the nonces on the wire (`StampInv`), and assets, with the
static buffer while it is being searched (`AssetInv`). `HonestBatches` goes through
`Clean`: a batch without an error so far has only results without one. `RightRequests` is both halves of `RequestsRight`. `Refinement` shows that initial states and every step map to those
of `OrderDesk`.

**HttpHandle.** No further assumption: `WholeRequests`, `WholeResponses` and `LiveLists`
hold beside any number of calls without the mutex, of requests that did not overlap
one. `OwnerInv` says who holds the mutex, `NumberInv` that requests have numbers
of their own, `SoleInv` that a request that is not exposed has the handle to itself,
`HandleInv` which options are its own at each of its steps, `SinkInv` and `ResponseInv`
where the pieces of the answer go, and `ListInv` that its header list is allocated until it
has been sent. `TradingAlone` assumes that the application only trades, so that no request
is exposed; what `HttpMixed` refutes is then true.

**InfoQueries.** No further assumption. `ControlInv` says which fetchers a call has
still to run, `HeapInv` what a fetcher holds at each of its steps. Each of the
twelve ways a fetcher ends is shown to be an `Ending` (`EndsStep`), after which one
argument serves all of them: `NothingLost` needs no more. `TrueStatuses` adds
`PhaseInv` and `TrueInv` (every entry, row and part states what was so during the
call, or is called open for want of a status, which the filters of the closed orders
drop). `NoneMissed` adds `CoverInv`, the reason why the order of the two requests
is the right one: an order that is not misread and is there throughout is closed, or in what the
first request has brought so far; a closed order stays closed, so that the
history, asked for later, has every order the first request has not. `OwnRows`
adds `RowsInv` on statuses and on the element being filled.

**Markets and MarketData.** No further assumption; NULL is no array
(`RowsAssumption`). `RowsInv` is why skipped entries do no harm: the listing has no
coin twice, the rows read so far are swaps of earlier positions in increasing
order (`Sound`, `Below`), and what has been read is a prefix of what is listed now.
`SoundFound` shows from it that the first row of an id or of a symbol is the only
one. `HeapInv` says what a call holds at each step, `LeakInv` that nothing is
lost before a return; `OwnedMemory` follows. `LookInv` keeps the id that was found true
from the scan of the static buffer to the POST, as long as nobody wrote to the buffer,
and says that coins of the table are never looked up in rows (`Unfetched`), so that the
one of `leverage.c` is not mistaken for a listed id; `AskedMarket` follows.

`ResultInv` adds what the results are worth: a side of a book is what was kept of
the side the exchange answered (`BookInv`), the request for candles names the
interval of its call, and the candles are kept from the answer to it
(`CandleInv`). All else is about the operators. `IsKept` says what the parsing loop
computes: an increasing map from the elements of the result to the readable elements
of the answer before the limit, which misses none of them; it is shown by
induction along the loop. From it follow the rows, the best prices and the spread of
`RightBook`. `Adds` describes a loop that sums; `SetSum` shows that it gives the sum
of the set the property speaks of, whichever way that is counted, by taking one
element out of both (`AddsWithout`). Volumes and moving averages are such sums;
highest and lowest prices are loops that keep a maximum. For `RightCandles` the candles
that open in an interval are counted by division (`OpenTimes`): when it does not end
on a frame, going back `limit` frames gives exactly `limit` of them, so that nothing
is cut off; when it does, there is one more. `PriceAssumption` and
`WidthAssumption` say that prices are numbers and that 1 and the time of day fit in
`Width`.

**Trader.** No further assumption but those the module names. `CallInv` says
which call is at which step, `HeapInv` what is allocated there, `NumberInv` that
requests have a number and a call of their own and make one order, `WaitInv` that
what is waited for is the request of the running call, `ToldInv` that ids told are those
of orders, however large, `AnswerInv` what an answer is worth, and `PriceInv` that every price a call keeps was quoted during the
call. `AtMostOnce`, `OwnIds`, `FairlyPriced`,
`CancelsSettle` and `HandsOutWhole` follow, and `TraderImplementsDesk` maps every
step to one of `OrderDesk` or to a stutter.

**Sponge and Signing.** `SigningTypes`, `NothingLost`, `SignerFound` and `KeyKept` rest
on `SignInv`, `HeapInv`, `SignedInv`, `KeyInv` and, for the search of the recovery id,
`TrialInv`: no id before the one under trial leads to the own key (`NoneBefore`), whatever
the ids lead to. `HexRoundTrip`, `DigitsRoundTrip` and `SigningKey` are the lemmas about
the texts of keys. `DigestRight` is for every lane width, block size and cutting of the message into
pieces: `FedInv` says that the absorbed state, the words XORed since, the word
under way and the piece that is being fed make one whole with the message
of the reference. `AbsorbMatches` carries it over a block, `Quotient` and
`CountOf` count blocks and words, `EarlierBytes` and `LastBytes` place a byte,
`PaddedLanes` compares the padding. `HashRight` adds
`ChainInv`: the digests of a request are linked one by one, the last to the
bytes that were packed, so that the hash that is signed is the one the exchange
computes from them. `RequestSigned` adds that these bytes are the request of the call.
`PackInv` says that what was written are tokens of the action, that what is left
to write is its end, and that the numbers of tokens written, lost and left add up.
`PackInjective`: the tokens of an action determine it, as its kind and the number of
its orders, which are tokens themselves, place every field. The nonce is determined by its bytes
(`RequestsAssumption` says that it fits in them and that orders and cancels have the
fields of their C types), the vault by what follows. If something was lost, the
rest is shorter than the action it was taken from, while an action whose tokens
are all among those of another is as long (`SameLength`); and no token of an
action is a byte of a nonce, so that nothing can make up for what is missing. A
token stands for one write of the packer. The sizes written before texts may be
lost as any other; that two packings which differ in such tokens only are different bytes
is what MessagePack does, and not part of the model.

Induction. The theorems of the library that prove by induction take an operator and
cannot be used here. `Numbers` goes around them: `Climb` is induction for a set of
numbers, and comes from the least element of a set that is not empty
(`LeastNumber`); `Recursion` shows that the equations of a recursive function
on `0..n` have a solution, so that the functions of the models are what they are defined
to be. For that reason the recursions the theorems speak of are functions on
`0..n`.

Only model-checked: the liveness properties (`DestroyReturns`,
`StoppedWorkersExit`, `CallsReturn`, `MutexFreed`), as liveness and ENABLED are
out of the prover's reach, and `ToldInOrder`, which relates two rows of one result. Every
other property of a passing run is stated by a theorem, under the assumptions named above.
`SubsTypeOK`, `SingleWorker`, `StatusAsAsked`, `ResultOwned` and the
`TypeOK` of most modules are parts of the proofs and not properties of a run of their own.

## 5. What is left out

Done: the WebSocket client and the subscriptions on top of it, the trading calls
and the old trader with their abstract specification, the HTTP handle, the
queries, markets and market data, and signing, each with runs and proofs.

Simplifications inside the models: the calls of `MarketData` are made on a client
without a cache; rows that no look-up reads any more are cleared; a failing
`hl_client_new` changes nothing and is left out; tokens stand for bytes, for single
writes of the packer and for fields of 32 bytes; lengths are natural numbers, so that the
32-bit `inBytes` of `sha3_HashBuffer` never wraps; the response body is never NULL (`strstr` of a NULL body is undefined); calls of
`sha3_Init` and `HashBuffer` with refused parameters do nothing. The library itself
makes one `Update` per context, the application of `Signing` any number.

Not modelled, and why:

- JSON parsing, formatting and printing: plain data extraction, abstracted to its
  outcomes. Curve arithmetic (libsecp256k1). TLS and HTTP inside libcurl.
- `http/simple_client.c`, a copy of `client.c` with the same operations, and the first
  creation of two clients at once (`http/client.c:41`), a race on a flag around
  `curl_global_init`.
- `hl_fetch_swap_markets` and `hl_fetch_spot_markets` (`markets.c:699-804`), which compare
  an enum as a text; `hl_market_free` and `hl_balance_free`, which are declared
  and defined nowhere; `hl_fetch_position`, which `account.c` defines
  twice (lines 403 and 546), so that the library has no single one.
- Balances, one object read in one piece; `exchange.c` and `types.c` beyond the
  release functions, plain data.
- The branch `limit == 0` of `calculate_start_time`, which its caller never takes;
  checks for a NULL http client, which creation excludes.
- The message handlers of `websocket.c`, which print; functions that return
  `HL_ERROR_NOT_IMPLEMENTED`, the transfers and subaccounts among them.
