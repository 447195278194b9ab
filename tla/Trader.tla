------------------------------- MODULE Trader -------------------------------
(***************************************************************************)
(* The trader of trading.c: one application thread that asks for prices,   *)
(* sizes and places limit orders, cancels them and reads the account over  *)
(* one HTTP client, without a mutex.                                       *)
(*                                                                         *)
(* The exchange and the network are external: a request may be lost, be    *)
(* executed after the caller gave up, or be executed while its answer is   *)
(* lost.  Symbols are named by what is left of them without "USDT".  Sizes *)
(* are counted in the last of the six decimals that are printed.           *)
(***************************************************************************)
EXTENDS Integers, Sequences, FiniteSets

CONSTANTS
  Universe,   \* coin -> asset id on the exchange
  Prices,     \* mid prices a coin may have, 0 among them
  Limits,     \* limits and sizes of orders placed directly
  Notionals,  \* amounts times leverage, in units of a price times a size
  Fallback,   \* the size "0.001"
  Rooms,      \* sizes of the buffers for the account's answers
  Body,       \* length of an answer, without its terminator
  Gap,        \* distance of two order ids: the exchange numbers everybody's orders
  IntMax,     \* 2^31 - 1: order ids are printed with "%d"
  MaxOrders,  \* bound: orders on the exchange
  MaxMoves,   \* bound: price moves
  MaxCalls,   \* bound: calls of the application
  None        \* nothing

Coins == DOMAIN Universe

ASSUME UniverseAssumption == Universe \in [Coins -> Nat]
ASSUME PriceAssumption == Prices \subseteq Nat /\ Limits \subseteq Nat /\ Notionals \subseteq Nat
ASSUME FallbackAssumption == Fallback \in Nat
ASSUME RoomAssumption == Rooms \subseteq Nat /\ Body \in Nat
ASSUME GapAssumption == Gap \in Nat \ {0}
ASSUME BoundAssumption == {IntMax, MaxOrders, MaxMoves, MaxCalls} \subseteq Nat
ASSUME NoneAssumption == None \notin Int /\ None \notin Coins

VARIABLES
  pc,       \* step of the running call; "none" without a trader
  heap,     \* blocks of the trader
  call,     \* the running or last call
  calls,    \* calls made so far; the number of the running one
  first,    \* price of hyperliquid_execute_trade
  size,     \* quantity of the order
  sized,    \* (history) price it was computed from, None for the fallback
  quoted,   \* (history) prices the coin has had since the call began
  posts,    \* signed requests posted so far; numbers them
  told,     \* (history) pairs of a request and the order id told for it
  flight,   \* requests the exchange has not seen yet
  answer,   \* answer on its way back to the running call
  result,   \* what the last call returned
  price,    \* coin -> mid price
  moves,    \* price moves so far
  orders    \* the exchange's orders, of ours

callVars == <<pc, heap, call, calls, first, size, sized, result>>
world == <<price, moves, orders>>
vars == <<pc, heap, call, calls, first, size, sized, quoted, posts, told, flight,
          answer, result, price, moves, orders>>

\* hyperliquid_get_asset_id: the ids of the testnet; ATOM has that of ETH, and a
\* coin that is not in the table that of BTC.
Table == [BTC |-> 3, ETH |-> 2, SOL |-> 0, APT |-> 1, ATOM |-> 2]
get_asset_id(coin) == IF coin \in DOMAIN Table THEN Table[coin] ELSE 3

Trades == {"trade", "place"}
Signed == Trades \cup {"cancel"}
Codes == {"success", "unavailable", "failed", "network", "json", "exchange",
          "notfound", "params"}
Oid(o) == Gap * o
NoResult == [code |-> "success", oid |-> None, out |-> None]

-----------------------------------------------------------------------------
(* Calls. *)

Enter(c, step) ==
  /\ pc = "idle"
  /\ calls < MaxCalls
  /\ calls' = calls + 1
  /\ call' = c
  /\ pc' = step
  /\ quoted' = IF c.coin = None THEN {} ELSE {price[c.coin]}
  /\ result' = NoResult
  /\ UNCHANGED <<heap, first, size, sized, posts, told, flight, answer, world>>

\* The locals of the call are gone, and so is its connection.
Return(code, oid, out) ==
  /\ pc' = "idle"
  /\ result' = [code |-> code, oid |-> oid, out |-> out]
  /\ first' = None
  /\ size' = None
  /\ sized' = None
  /\ answer' = None

ExecuteTrade ==
  \E coin \in Coins, buy \in BOOLEAN, amount \in Notionals :
    Enter([op |-> "trade", coin |-> coin, buy |-> buy, amount |-> amount], "price")

PlaceLimitOrder ==
  \E coin \in Coins, buy \in BOOLEAN, p \in Limits, q \in Limits :
    Enter([op |-> "place", coin |-> coin, buy |-> buy, limit |-> p, amount |-> q], "sign")

CancelOrder ==
  \E coin \in Coins, oid \in {Oid(o) : o \in DOMAIN orders} \cup {t[2] : t \in told} :
    Enter([op |-> "cancel", coin |-> coin, oid |-> oid], "sign")

GetMarketPrice == \E coin \in Coins : Enter([op |-> "price", coin |-> coin], "price")

CalculateQuantity ==
  \E coin \in Coins, amount \in Notionals :
    Enter([op |-> "quantity", coin |-> coin, amount |-> amount], "quantity")

GetAccount ==
  \E op \in {"balance", "positions", "history", "test"} :
    Enter([op |-> op, coin |-> None], "account")

-----------------------------------------------------------------------------
(* hyperliquid_get_market_price, of the calls that need it. *)

\* No answer, a status other than 200, no body; not JSON; no two sides of levels
\* that are lists.
PriceErrors == {"network", "json", "notfound"}

PriceFails ==
  /\ pc = "price"
  /\ \E e \in PriceErrors :
       Return(IF call.op = "trade" THEN "unavailable" ELSE e, None, None)
  /\ UNCHANGED <<heap, call, calls, quoted, posts, told, flight, world>>

\* Without a price the coin counts as not available.
NoPrice(p) == p <= 0

PriceRead ==
  /\ pc = "price"
  /\ LET p == price[call.coin]
     IN  IF call.op = "trade" /\ ~NoPrice(p)
         THEN /\ first' = p
              /\ pc' = "quantity"
              /\ UNCHANGED <<size, sized, answer, result>>
         ELSE Return(IF call.op = "trade" THEN "unavailable" ELSE "success", None, p)
  /\ UNCHANGED <<heap, call, calls, quoted, posts, told, flight, world>>

\* "%.6f" of the quotient: rounded to the nearest unit.
Quantity(amount, p) == (2 * amount + p) \div (2 * p)

\* The quantity of the call: returned, or the size of the order.
Sized(q, p) ==
  IF call.op = "quantity"
  THEN Return("success", None, q)
  ELSE /\ size' = q
       /\ sized' = p
       /\ pc' = "sign"
       /\ UNCHANGED <<first, answer, result>>

\* Without a price the quantity is "0.001", whatever the amount.
QuantityFallback ==
  /\ pc = "quantity"
  /\ Sized(Fallback, None)
  /\ UNCHANGED <<heap, call, calls, quoted, posts, told, flight, world>>

QuantityRead ==
  /\ pc = "quantity"
  /\ LET p == price[call.coin]
     IN  IF p <= 0 THEN Sized(Fallback, None) ELSE Sized(Quantity(call.amount, p), p)
  /\ UNCHANGED <<heap, call, calls, quoted, posts, told, flight, world>>

-----------------------------------------------------------------------------
(* hyperliquid_place_limit_order and hyperliquid_cancel_order. *)

\* Mutant: a trade that failed counts as one of a coin that is not available.
CodeUnavailable(e) == IF call.op = "trade" THEN "unavailable" ELSE e

\* hyperliquid_execute_trade reports a failed order in its result.
Code(e) == IF call.op = "trade" THEN "failed" ELSE e

\* The hash, the signature or the body could not be made.
SignFails ==
  /\ pc = "sign"
  /\ \E e \in {"exchange", "json"} : Return(Code(e), None, None)
  /\ UNCHANGED <<heap, call, calls, quoted, posts, told, flight, world>>

\* Mutant: the margin is on the other side.
OrderPriceSwapped(buy) == IF buy THEN 99 * first ELSE 101 * first

\* In hundredths: a trade's limit is 1 % beyond the first price.
OrderPrice(buy) == IF buy THEN 101 * first ELSE 99 * first

\* The request; sized and quoted are history.
Request ==
  [n |-> posts + 1, call |-> calls, op |-> call.op,
   asset |-> get_asset_id(call.coin),
   buy |-> IF call.op = "cancel" THEN FALSE ELSE call.buy,
   limit |-> CASE call.op = "trade" -> OrderPrice(call.buy)
               [] call.op = "place" -> 100 * call.limit
               [] call.op = "cancel" -> 0,
   size |-> CASE call.op = "trade" -> size
              [] call.op = "place" -> call.amount
              [] call.op = "cancel" -> 0,
   amount |-> IF call.op = "cancel" THEN 0 ELSE call.amount,
   oid |-> IF call.op = "cancel" THEN call.oid ELSE 0,
   sized |-> sized, quoted |-> IF call.op = "trade" THEN quoted ELSE {}]

Post ==
  /\ pc = "sign"
  /\ posts' = posts + 1
  /\ flight' = flight \cup {Request}
  /\ pc' = "wait"
  /\ UNCHANGED <<heap, call, calls, first, size, sized, quoted, told, answer, result,
                 world>>

\* Mutant: a request that got no answer is sent once more as it is.
PostFailsAgain ==
  /\ pc = "wait"
  /\ flight' = flight \cup {[Request EXCEPT !.n = posts]}
  /\ UNCHANGED <<callVars, quoted, posts, told, answer, world>>

\* The request got no answer in time, a status other than 200, or no body; or a
\* body that is not JSON.
PostFails ==
  /\ pc = "wait"
  /\ \E e \in {"exchange"} \cup (IF call.op = "cancel" THEN {} ELSE {"json"}) :
       Return(Code(e), None, None)
  /\ UNCHANGED <<heap, call, calls, quoted, posts, told, flight, world>>

\* Mutant: the id is one less.
PrintedOff(oid) == oid - 1

\* cJSON caps valueint at INT_MAX.
Printed(oid) == IF oid > IntMax THEN IntMax ELSE oid

\* Only an order that rests has its id read; a filled one counts as failed.
Told == answer.kind = "resting"

ReceivePlaced ==
  /\ pc = "wait" /\ call.op \in Trades /\ answer # None
  /\ IF Told
     THEN /\ Return("success", Printed(answer.oid), None)
          /\ told' = told \cup {<<answer.n, Printed(answer.oid)>>}
     ELSE /\ Return(Code("exchange"), None, None)
          /\ UNCHANGED told
  /\ UNCHANGED <<heap, call, calls, quoted, posts, flight, world>>

\* Mutant: any answer will do.
CancelledAny == TRUE

\* "status":"ok"; the statuses below it are not looked at.
Cancelled == answer.kind = "ok"

ReceiveCancelled ==
  /\ pc = "wait" /\ call.op = "cancel" /\ answer # None
  /\ Return(IF Cancelled THEN "success" ELSE "exchange", None, None)
  /\ UNCHANGED <<heap, call, calls, quoted, posts, told, flight, world>>

-----------------------------------------------------------------------------
(* hyperliquid_get_balance, _get_positions, _get_trade_history and
   _test_connection. *)

AccountFails ==
  /\ pc = "account"
  /\ \E e \in {"network"} \cup (IF call.op = "positions" THEN {"json"} ELSE {}) :
       Return(e, None, None)
  /\ UNCHANGED <<heap, call, calls, quoted, posts, told, flight, world>>

\* lv3_string_copy: what is left of a text of n characters in a buffer of the size
\* room, which is the caller's json_size.
Copied(n, room) == IF room = 0 THEN 0 ELSE IF n < room THEN n ELSE room - 1

\* Mutant: the terminator is forgotten.
FitsWithout(n, room) == n <= room

Fits(n, room) == n < room

Copy(n, room) ==
  Return("success", None, [text |-> n, kept |-> Copied(n, room), room |-> room])

Handed(n, room) == IF Fits(n, room) THEN Copy(n, room) ELSE Return("params", None, None)

Brackets == 2

\* The positions are a list, perhaps an empty one, or missing, which is handed
\* out as an empty one without a look at the room.
AccountRead ==
  /\ pc = "account"
  /\ \E room \in Rooms :
       CASE call.op = "test" -> Return("success", None, None)
         [] call.op \in {"balance", "history"} -> Handed(Body, room)
         [] call.op = "positions" ->
              \/ \E n \in {Body, Brackets} : Handed(n, room)
              \/ Copy(Brackets, room)
  /\ UNCHANGED <<heap, call, calls, quoted, posts, told, flight, world>>

-----------------------------------------------------------------------------
(* hyperliquid_trader_create.  Nothing releases a trader. *)

AllocTrader ==
  /\ pc = "none"
  /\ heap' = {"trader"}
  /\ pc' = "alloc"
  /\ UNCHANGED <<call, calls, first, size, sized, quoted, posts, told, flight, answer,
                 result, world>>

AllocData ==
  /\ pc = "alloc"
  /\ heap' = heap \cup {"data"}
  /\ pc' = "http"
  /\ UNCHANGED <<call, calls, first, size, sized, quoted, posts, told, flight, answer,
                 result, world>>

\* No memory for the data, or no HTTP client.
CreateFails ==
  /\ pc \in {"alloc", "http"}
  /\ heap' = heap \ ({"trader"} \cup (IF pc = "http" THEN {"data"} ELSE {}))
  /\ pc' = "none"
  /\ UNCHANGED <<call, calls, first, size, sized, quoted, posts, told, flight, answer,
                 result, world>>

CreateHttp ==
  /\ pc = "http"
  /\ heap' = heap \cup {"client"}
  /\ pc' = "idle"
  /\ UNCHANGED <<call, calls, first, size, sized, quoted, posts, told, flight, answer,
                 result, world>>

-----------------------------------------------------------------------------
(* The exchange and the network (external). *)

Awaited(r) == pc = "wait" /\ r.n = posts

\* The answer to r arrives, is lost, or comes when nobody waits for it.
Answers(r, kind, oid) ==
  \/ /\ Awaited(r)
     /\ answer' = [n |-> r.n, kind |-> kind, oid |-> oid]
  \/ UNCHANGED answer

Refuse(r) ==
  /\ Answers(r, "err", 0)
  /\ UNCHANGED orders

\* Sizes of 0 are refused.
Accept(r) ==
  /\ r.op \in Trades /\ r.size > 0
  /\ Len(orders) < MaxOrders
  /\ \E status \in {"resting", "filled"} :
       /\ orders' = Append(orders, [r |-> r, status |-> status])
       /\ Answers(r, status, Oid(Len(orders) + 1))

\* A cancel of an order that does not rest under this asset is answered with
\* "ok", and with an error in the statuses.
Cancel(r) ==
  /\ r.op = "cancel"
  /\ orders' = [o \in DOMAIN orders |->
                  IF /\ Oid(o) = r.oid
                     /\ orders[o].r.asset = r.asset
                     /\ orders[o].status = "resting"
                  THEN [r |-> orders[o].r, status |-> "cancelled"]
                  ELSE orders[o]]
  /\ Answers(r, "ok", 0)

Execute ==
  /\ \E r \in flight :
       /\ flight' = flight \ {r}
       /\ Refuse(r) \/ Accept(r) \/ Cancel(r)
  /\ UNCHANGED <<callVars, quoted, posts, told, price, moves>>

Lose ==
  /\ \E r \in flight : flight' = flight \ {r}
  /\ UNCHANGED <<callVars, quoted, posts, told, answer, world>>

Fill ==
  /\ \E o \in DOMAIN orders :
       /\ orders[o].status = "resting"
       /\ orders' = [orders EXCEPT ![o] = [r |-> orders[o].r, status |-> "filled"]]
  /\ UNCHANGED <<callVars, quoted, posts, told, flight, answer, price, moves>>

Move ==
  /\ moves < MaxMoves
  /\ moves' = moves + 1
  /\ \E coin \in Coins, p \in Prices :
       /\ price' = [price EXCEPT ![coin] = p]
       /\ quoted' = IF call.coin = coin THEN quoted \cup {p} ELSE quoted
  /\ UNCHANGED <<callVars, posts, told, flight, answer, orders>>

-----------------------------------------------------------------------------
Init ==
  /\ pc = "none"
  /\ heap = {}
  /\ call = [op |-> "none", coin |-> None]
  /\ calls = 0
  /\ first = None /\ size = None /\ sized = None
  /\ quoted = {}
  /\ posts = 0
  /\ told = {}
  /\ flight = {}
  /\ answer = None
  /\ result = NoResult
  /\ price \in [Coins -> Prices]
  /\ moves = 0
  /\ orders = <<>>

Calls == \/ ExecuteTrade \/ PlaceLimitOrder \/ CancelOrder \/ GetMarketPrice
         \/ CalculateQuantity \/ GetAccount

Step == \/ PriceFails \/ PriceRead \/ QuantityFallback \/ QuantityRead
        \/ SignFails \/ Post \/ PostFails \/ ReceivePlaced
        \/ ReceiveCancelled \/ AccountFails \/ AccountRead
        \/ AllocData \/ CreateFails \/ CreateHttp

Exchange == Execute \/ Lose \/ Fill \/ Move

Next == Calls \/ Step \/ AllocTrader \/ Exchange

Spec == Init /\ [][Next]_vars

-----------------------------------------------------------------------------
(* Properties. *)

Requests == [n : Nat, call : Nat, op : Signed, asset : Nat,
             buy : BOOLEAN, limit : Nat, size : Nat, amount : Nat, oid : Nat,
             sized : Nat \cup {None}, quoted : SUBSET Nat]
Orders == [r : Requests, status : {"resting", "filled", "cancelled"}]

TypeOK ==
  /\ pc \in {"none", "alloc", "http", "idle", "price", "quantity", "sign", "wait",
            "account"}
  /\ heap \subseteq {"trader", "data", "client"}
  /\ calls \in Nat
  /\ first \in Nat \cup {None}
  /\ size \in Nat \cup {None}
  /\ sized \in Nat \cup {None}
  /\ quoted \subseteq Nat
  /\ posts \in Nat
  /\ told \subseteq Nat \X Nat
  /\ flight \subseteq Requests
  /\ answer \in [n : Nat, kind : {"resting", "filled", "err", "ok"}, oid : Nat] \cup {None}
  /\ result.code \in Codes
  /\ price \in [Coins -> Nat]
  /\ moves \in Nat
  /\ orders \in Seq(Orders)

Made == {orders[o].r : o \in DOMAIN orders}
Returned == pc = "idle"

\* A call that says its coin is not available has not sent anything and never
\* makes an order later, so that it may be repeated (hyperliquid_execute_trade);
\* one that failed may still make an order.
UnavailableIsSafe ==
  (Returned /\ result.code = "unavailable") =>
    \A r \in flight \cup Made : r.call # calls

\* A call makes at most one order, however its request is delayed.
OnePerCall ==
  \A o, p \in DOMAIN orders : orders[o].r.call = orders[p].r.call => o = p

\* What a caller knows of how many orders there are: at most one for a call,
\* and none for a call that found its coin unavailable.
OneOrderAtMost == OnePerCall /\ UnavailableIsSafe

\* The table has the exchange's id for the coin.
Listed(coin) == coin \in DOMAIN Table /\ Table[coin] = Universe[coin]

\* A call that reports success has made an order, on the side asked for and,
\* when the table lists the coin, of the asset asked for; any other coin goes
\* out under the id of another one. The id it reports is that of this order, or
\* 2^31 - 1 for a larger one (hyperliquid_place_limit_order).
ReportedIsOwn ==
  (Returned /\ call.op \in Trades /\ result.code = "success") =>
    \E o \in DOMAIN orders :
      LET r == orders[o].r
      IN  /\ r.call = calls /\ r.buy = call.buy
          /\ Listed(call.coin) => r.asset = Universe[call.coin]
          /\ result.oid = IF Oid(o) < IntMax THEN Oid(o) ELSE IntMax

\* After a cancel that succeeded under the order's own asset the order does not
\* rest any more: it was cancelled, or had been filled before.
CancelSettles ==
  (Returned /\ call.op = "cancel" /\ result.code = "success") =>
    \A o \in DOMAIN orders :
      (Oid(o) = call.oid /\ orders[o].r.asset = get_asset_id(call.coin)) =>
        orders[o].status # "resting"

\* The limit of a trade is at most 2 % on the worse side of a price, and its size
\* comes from a price, that the coin had while the call ran; the size is the amount over that price to the nearest unit; only
\* when the second query gave no price is it the fallback, whatever the amount.
PricedDuringCall ==
  \A r \in flight \cup Made :
    r.op = "trade" =>
      /\ \E p \in r.quoted \ {0} :
           IF r.buy THEN 100 * p < r.limit /\ r.limit < 102 * p
                    ELSE 98 * p < r.limit /\ r.limit < 100 * p
      /\ r.sized = None => r.size = Fallback
      /\ r.sized # None =>
           /\ r.sized \in r.quoted
           /\ 2 * (r.size * r.sized - r.amount) <= r.sized
           /\ 2 * (r.amount - r.size * r.sized) <= r.sized

\* An answer about the account is handed out whole or not at all, except that an
\* empty list of missing positions is cut to a buffer of less than three.
NeverCut ==
  (Returned /\ result.code = "success" /\ result.out # None
     /\ call.op \in {"balance", "history", "positions"}) =>
    \/ result.out.kept = result.out.text
    \/ call.op = "positions" /\ result.out.room <= Brackets

\* A trader is there with all its parts or not at all.
CreatedWhole ==
  /\ pc = "none" => heap = {}
  /\ pc \notin {"none", "alloc", "http"} => heap = {"trader", "data", "client"}

\* Neither an answer nor a trader is ever handed out in part
\* (hyperliquid_get_balance and its like, hyperliquid_trader_create).
HandedWhole == NeverCut /\ CreatedWhole

\* The trader keeps the promise of the order desk: ids up to 2^31 - 1 are told as
\* they are.
Book == [o \in DOMAIN orders |-> orders[o].r.n]
Shown == {<<t[1], t[2] \div Gap>> : t \in told}
ShownAsIs == IntMax \div Gap + 1

Desk == INSTANCE OrderDesk
          WITH sent <- posts, book <- Book, told <- Shown, IntLimit <- ShownAsIs

ImplementsDesk == Desk!Spec

=============================================================================
