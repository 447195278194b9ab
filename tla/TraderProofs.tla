---------------------------- MODULE TraderProofs ----------------------------
(***************************************************************************)
(* The safety properties of Trader, for any coins, prices, buffers, number *)
(* of calls and orders, and any network; and that it implements OrderDesk. *)
(***************************************************************************)
EXTENDS Trader, SequenceTheorems, TLAPS

-----------------------------------------------------------------------------
(* The inductive invariant. *)

AccountOps == {"balance", "positions", "history", "test"}

\* The arguments of a call.
CallShape ==
  \/ call = [op |-> "none", coin |-> None]
  \/ call \in [op : {"trade"}, coin : Coins, buy : BOOLEAN, amount : Nat]
  \/ call \in [op : {"place"}, coin : Coins, buy : BOOLEAN, limit : Nat, amount : Nat]
  \/ call \in [op : {"cancel"}, coin : Coins, oid : Nat]
  \/ call \in [op : {"price"}, coin : Coins]
  \/ call \in [op : {"quantity"}, coin : Coins, amount : Nat]
  \/ call \in [op : AccountOps, coin : {None}]

\* Which call is at which step.
CallInv ==
  /\ CallShape
  /\ pc \in {"none", "alloc", "http"} => call.op = "none"
  /\ pc = "price" => call.op \in {"price", "trade"}
  /\ pc = "quantity" => call.op \in {"quantity", "trade"}
  /\ pc \in {"sign", "wait"} => call.op \in Signed
  /\ pc = "account" => call.op \in AccountOps

HeapInv ==
  heap = CASE pc = "none" -> {}
           [] pc = "alloc" -> {"trader"}
           [] pc = "http" -> {"trader", "data"}
           [] pc \notin {"none", "alloc", "http"} -> {"trader", "data", "client"}

\* Every request that the exchange has not seen, or has made an order of.
Live == flight \cup Made

\* A request has its number and its call for itself and makes one order; the
\* running call has made none before it posts, nor has one that said
\* "unavailable".
NumberInv ==
  /\ \A r \in Live : r.n <= posts /\ r.n > 0 /\ r.call <= calls
  /\ \A r, s \in Live : (r.n = s.n \/ r.call = s.call) => r = s
  /\ \A o, p \in DOMAIN orders : orders[o].r = orders[p].r => o = p
  /\ \A r \in flight : r \notin Made
  /\ \A r \in Live : r.call = calls =>
       \/ pc = "wait"
       \/ pc = "idle" /\ result.code # "unavailable"

\* The request of the running call.
Own(r) ==
  /\ r.call = calls
  /\ r.asset = get_asset_id(call.coin)
  /\ call.op \in Trades => r.buy = call.buy
  /\ call.op = "cancel" => r.oid = call.oid

\* Who waits has posted last, and nobody was told of that request.
WaitInv ==
  pc = "wait" =>
    /\ posts > 0
    /\ \A r \in Live : r.n = posts => Own(r)
    /\ \A t \in told : t[1] < posts

\* No order rests that a cancel under its own asset was meant for.
Settled ==
  \A o \in DOMAIN orders :
    (Oid(o) = call.oid /\ orders[o].r.asset = get_asset_id(call.coin)) =>
      orders[o].status # "resting"

\* Ids are told, and cancelled, of orders that are there.
ToldInv ==
  /\ \A t \in told : t[1] <= posts /\ t[2] <= Oid(Len(orders))
  /\ call.op = "cancel" => call.oid <= Oid(Len(orders))

\* An answer is to the request that is waited for, which is done.
AnswerInv ==
  answer # None =>
    /\ pc = "wait"
    /\ answer.n = posts
    /\ \A r \in flight : r.n # posts
    /\ answer.kind \in {"resting", "filled"} =>
         \E o \in DOMAIN orders : answer.oid = Oid(o) /\ orders[o].r.n = posts
    /\ (answer.kind = "ok" /\ call.op = "cancel") => Settled

\* What a size is, computed from a price or without one.
SizeOf(amount, n, p, prices) ==
  /\ p = None => n = Fallback
  /\ p # None =>
       /\ p \in prices
       /\ 2 * (n * p - amount) <= p
       /\ 2 * (amount - n * p) <= p

PriceInv ==
  /\ call.coin \in Coins => price[call.coin] \in quoted
  /\ (call.op = "trade" /\ pc \in {"quantity", "sign"}) => first \in quoted \ {0}
  /\ (call.op = "trade" /\ pc = "sign") =>
       size \in Nat /\ SizeOf(call.amount, size, sized, quoted)
  /\ PricedDuringCall

IInv ==
  /\ TypeOK
  /\ CallInv
  /\ HeapInv
  /\ NumberInv
  /\ WaitInv
  /\ ToldInv
  /\ AnswerInv
  /\ PriceInv
  /\ ReportedIsOwn
  /\ CancelSettles
  /\ NeverCut

-----------------------------------------------------------------------------
(* Arithmetic: order ids and sizes. *)

\* Order ids grow with the orders, and tell them apart.
LEMMA OidGrows ==
  /\ \A o \in Nat : Oid(o) \in Nat
  /\ \A o, p \in Nat : o <= p => Oid(o) <= Oid(p)
  /\ \A o, p \in Nat : o < p => Oid(o) < Oid(p)
<1>1. Gap \in Nat /\ Gap > 0
  BY GapAssumption
<1>2. ASSUME NEW o \in Nat, NEW p \in Nat, o <= p
      PROVE  Gap * o <= Gap * p
  <2>1. p - o \in Nat /\ p = o + (p - o)
    BY <1>2
  <2>2. Gap * p = Gap * o + Gap * (p - o)
    BY <1>1, <2>1
  <2>3. Gap * (p - o) \in Nat /\ Gap * o \in Nat
    BY <1>1, <2>1
  <2>4. QED
    BY <2>2, <2>3
<1>3. ASSUME NEW o \in Nat, NEW p \in Nat, o < p
      PROVE  Gap * o < Gap * p
  <2>1. Gap * (o + 1) = Gap * o + Gap
    BY <1>1
  <2>2. Gap * (o + 1) <= Gap * p
    BY <1>2, <1>3
  <2>3. Gap * o \in Nat /\ Gap * p \in Nat
    BY <1>1
  <2>4. QED
    BY <1>1, <2>1, <2>2, <2>3
<1>4. \A o \in Nat : Gap * o \in Nat
  BY <1>1
<1>5. QED
  BY <1>2, <1>3, <1>4 DEF Oid

\* An id leads back to its order.
LEMMA OidBack ==
  ASSUME NEW o \in Nat
  PROVE  Oid(o) \div Gap = o
<1>1. Gap \in Nat /\ Gap > 0
  BY GapAssumption
<1>2. QED
  BY <1>1 DEF Oid

\* "%.6f" rounds to the nearest unit.
LEMMA QuantityRounds ==
  ASSUME NEW amount \in Nat, NEW p \in Nat, p > 0
  PROVE  /\ Quantity(amount, p) \in Nat
         /\ 2 * (Quantity(amount, p) * p - amount) <= p
         /\ 2 * (amount - Quantity(amount, p) * p) <= p
<1> DEFINE a == 2 * amount + p
           b == 2 * p
           q == a \div b
           m == a % b
<1>1. a \in Nat /\ b \in Nat /\ b > 0
  OBVIOUS
<1>2. q \in Nat /\ m \in Nat /\ m < b /\ a = b * q + m
  <2> HIDE DEF a, b
  <2> QED
    BY <1>1
<1>3. b * q = 2 * (q * p)
  <2> HIDE DEF q
  <2> QED
    BY <1>2
<1>4. q * p \in Nat
  <2> HIDE DEF q
  <2> QED
    BY <1>2
<1>5. Quantity(amount, p) = q
  BY DEF Quantity
<1> DEFINE z == q * p
<1>6. 2 * amount + p = 2 * z + m /\ m < 2 * p /\ z \in Nat /\ m \in Nat
  BY <1>2, <1>3, <1>4
<1>7. 2 * (z - amount) <= p /\ 2 * (amount - z) <= p
  <2> HIDE DEF z, m
  <2> QED
    BY <1>6
<1>8. QED
  BY <1>2, <1>5, <1>7

-----------------------------------------------------------------------------
(* Requests. *)

\* The table knows numbers only.
LEMMA AssetNat ==
  ASSUME NEW coin
  PROVE  get_asset_id(coin) \in Nat
<1>1. coin \in DOMAIN Table => Table[coin] \in Nat
  BY DEF Table
<1>2. QED
  BY <1>1 DEF get_asset_id

\* The requests that are alive are requests.
LEMMA LiveTyped == TypeOK => Live \subseteq Requests
<1>1. TypeOK => \A o \in DOMAIN orders : orders[o] \in Orders
  BY ElementOfSeq DEF TypeOK
<1>2. QED
  BY <1>1 DEF TypeOK, Live, Made, Orders

\* What PricedDuringCall says of one request.
Priced(r) ==
  r.op = "trade" =>
    /\ \E p \in r.quoted \ {0} :
         IF r.buy THEN 100 * p < r.limit /\ r.limit < 102 * p
                  ELSE 98 * p < r.limit /\ r.limit < 100 * p
    /\ SizeOf(r.amount, r.size, r.sized, r.quoted)

LEMMA PricedAll == PricedDuringCall <=> \A r \in Live : Priced(r)
BY DEF PricedDuringCall, Priced, SizeOf, Live

\* The request of a call that is about to post: its own number, the call's
\* arguments, and for a trade a price and a size as PricedDuringCall says.
LEMMA RequestShape ==
  ASSUME TypeOK, CallInv, PriceInv, pc = "sign"
  PROVE  /\ Request \in Requests
         /\ Request.n = posts + 1
         /\ Own(Request)
         /\ Priced(Request)
<1>1. get_asset_id(call.coin) \in Nat
  BY AssetNat
<1>2. posts + 1 \in Nat /\ calls \in Nat /\ quoted \in SUBSET Nat /\ sized \in Nat \cup {None}
  BY DEF TypeOK
<1>3. CASE call.op = "trade"
  <2>1. call.coin \in Coins /\ call.buy \in BOOLEAN /\ call.amount \in Nat
    BY <1>3 DEF CallInv, CallShape, AccountOps
  <2>2. /\ first \in quoted \ {0} /\ size \in Nat
        /\ SizeOf(call.amount, size, sized, quoted)
    BY <1>3 DEF PriceInv
  <2>3. first \in Nat /\ first > 0
    BY <1>2, <2>2
  <2>5. Request = [n |-> posts + 1, call |-> calls, op |-> "trade",
                   asset |-> get_asset_id(call.coin), buy |-> call.buy,
                   limit |-> OrderPrice(call.buy), size |-> size, amount |-> call.amount,
                   oid |-> 0, sized |-> sized, quoted |-> quoted]
    BY <1>3 DEF Request
  <2>6. OrderPrice(call.buy) \in Nat
    BY <2>3 DEF OrderPrice
  <2>7. IF call.buy THEN 100 * first < OrderPrice(call.buy) /\ OrderPrice(call.buy) < 102 * first
                    ELSE 98 * first < OrderPrice(call.buy) /\ OrderPrice(call.buy) < 100 * first
    BY <2>3 DEF OrderPrice
  <2> HIDE DEF Request, get_asset_id, OrderPrice
  <2>8. Request \in Requests
    BY <1>1, <1>2, <2>1, <2>2, <2>5, <2>6 DEF Requests, Signed, Trades
  <2>9. /\ Request.n = posts + 1 /\ Request.call = calls
        /\ Request.asset = get_asset_id(call.coin) /\ Request.buy = call.buy
        /\ Request.limit = OrderPrice(call.buy) /\ Request.size = size
        /\ Request.amount = call.amount /\ Request.sized = sized /\ Request.quoted = quoted
    BY <2>5
  <2>10. Own(Request)
    BY <1>3, <2>9 DEF Own
  <2>11. Priced(Request)
    BY <2>2, <2>7, <2>9 DEF Priced
  <2>12. QED
    BY <2>8, <2>9, <2>10, <2>11
<1>4. CASE call.op = "place"
  <2>1. call.coin \in Coins /\ call.buy \in BOOLEAN /\ call.amount \in Nat /\ call.limit \in Nat
    BY <1>4 DEF CallInv, CallShape, AccountOps
  <2>2. Request = [n |-> posts + 1, call |-> calls, op |-> "place",
                   asset |-> get_asset_id(call.coin), buy |-> call.buy,
                   limit |-> 100 * call.limit, size |-> call.amount, amount |-> call.amount,
                   oid |-> 0, sized |-> sized, quoted |-> {}]
    BY <1>4 DEF Request
  <2>3. 100 * call.limit \in Nat
    BY <2>1
  <2> HIDE DEF Request, get_asset_id
  <2>4. Request \in Requests
    BY <1>1, <1>2, <2>1, <2>2, <2>3 DEF Requests, Signed, Trades
  <2>5. /\ Request.n = posts + 1 /\ Request.call = calls
        /\ Request.asset = get_asset_id(call.coin) /\ Request.buy = call.buy
        /\ Request.op = "place"
    BY <2>2
  <2>6. QED
    BY <1>4, <2>4, <2>5 DEF Own, Priced
<1>5. CASE call.op = "cancel"
  <2>1. call.coin \in Coins /\ call.oid \in Nat
    BY <1>5 DEF CallInv, CallShape, AccountOps
  <2>2. Request = [n |-> posts + 1, call |-> calls, op |-> "cancel",
                   asset |-> get_asset_id(call.coin), buy |-> FALSE,
                   limit |-> 0, size |-> 0, amount |-> 0,
                   oid |-> call.oid, sized |-> sized, quoted |-> {}]
    BY <1>5 DEF Request
  <2> HIDE DEF Request, get_asset_id
  <2>4. Request \in Requests
    BY <1>1, <1>2, <2>1, <2>2 DEF Requests, Signed, Trades
  <2>5. /\ Request.n = posts + 1 /\ Request.call = calls
        /\ Request.asset = get_asset_id(call.coin) /\ Request.oid = call.oid
        /\ Request.op = "cancel"
    BY <2>2
  <2>6. QED
    BY <1>5, <2>4, <2>5 DEF Own, Priced, Trades
<1>6. QED
  BY <1>3, <1>4, <1>5 DEF CallInv, Signed, Trades

-----------------------------------------------------------------------------
(* The application's side: calls, returns, and the steps between. *)

LEMMA Beginning == Init => IInv
<1> SUFFICES ASSUME Init
             PROVE  IInv
  OBVIOUS
<1>1. orders = <<>> /\ flight = {} /\ told = {} /\ orders \in Seq(Orders) /\ DOMAIN orders = {}
  BY DEF Init
<1>2. Made = {} /\ Live = {}
  BY <1>1 DEF Made, Live
<1>3. price \in [Coins -> Nat] /\ result.code = "success"
  BY PriceAssumption DEF Init, NoResult
<1>4. TypeOK
  BY <1>1, <1>3 DEF Init, TypeOK, Codes
<1>5. CallInv /\ call.coin = None /\ call.op = "none"
  BY DEF Init, CallInv, CallShape
<1>6. HeapInv
  BY DEF Init, HeapInv
<1>7. NumberInv
  BY <1>1, <1>2 DEF NumberInv
<1>8. WaitInv /\ AnswerInv
  BY DEF Init, WaitInv, AnswerInv
<1>9. ToldInv
  BY <1>1, <1>5 DEF ToldInv
<1>10. PriceInv
  BY <1>2, <1>5, NoneAssumption, PricedAll DEF PriceInv
<1>11. ReportedIsOwn /\ CancelSettles /\ NeverCut
  BY <1>5 DEF Init, ReportedIsOwn, CancelSettles, NeverCut, Returned
<1>12. QED
  BY <1>4, <1>5, <1>6, <1>7, <1>8, <1>9, <1>10, <1>11 DEF IInv

Busy == {"price", "quantity", "sign", "wait", "account"}

\* An order of the running call that may be reported under oid.
Reports(oid) ==
  \E o \in DOMAIN orders :
    LET r == orders[o].r
    IN  /\ r.call = calls /\ r.buy = call.buy
        /\ Listed(call.coin) => r.asset = Universe[call.coin]
        /\ oid = IF Oid(o) < IntMax THEN Oid(o) ELSE IntMax

\* Every return of a call.
LEMMA ReturnStep ==
  ASSUME IInv, NEW code \in Codes, NEW oid, NEW out, Return(code, oid, out),
         UNCHANGED <<heap, call, calls, quoted, posts, flight, price, moves, orders>>,
         pc \in Busy,
         code = "unavailable" => pc # "wait",
         told' \subseteq Nat \X Nat,
         \A t \in told' : t[1] <= posts /\ t[2] <= Oid(Len(orders)),
         (call.op \in Trades /\ code = "success") => Reports(oid),
         (call.op = "cancel" /\ code = "success") => Settled,
         (code = "success" /\ out # None /\ call.op \in {"balance", "history", "positions"}) =>
           \/ out.kept = out.text
           \/ call.op = "positions" /\ out.room <= Brackets
  PROVE  IInv'
<1>1. /\ pc' = "idle" /\ result'.code = code /\ result'.oid = oid /\ result'.out = out
      /\ first' = None /\ size' = None /\ sized' = None /\ answer' = None
  BY DEF Return
<1>2. /\ heap' = heap /\ call' = call /\ calls' = calls /\ quoted' = quoted /\ posts' = posts
      /\ flight' = flight /\ price' = price /\ moves' = moves /\ orders' = orders
  OBVIOUS
<1>3. Live' = Live /\ Made' = Made
  BY <1>2 DEF Live, Made
<1>4. TypeOK'
  BY <1>1, <1>2 DEF IInv, TypeOK
<1>5. CallInv'
  BY <1>1, <1>2 DEF IInv, CallInv, CallShape
<1>6. HeapInv'
  BY <1>1, <1>2 DEF IInv, HeapInv, Busy
<1>7. NumberInv'
  BY <1>1, <1>2, <1>3 DEF IInv, NumberInv, Busy
<1>8. WaitInv' /\ AnswerInv'
  BY <1>1 DEF WaitInv, AnswerInv
<1>9. ToldInv'
  BY <1>2 DEF IInv, ToldInv, Oid
<1>10. PriceInv'
  BY <1>1, <1>2 DEF IInv, PriceInv, PricedDuringCall, Made
<1>11. ReportedIsOwn'
  BY <1>1, <1>2 DEF ReportedIsOwn, Reports, Oid, Listed
<1>12. CancelSettles'
  BY <1>1, <1>2 DEF CancelSettles, Settled
<1>13. NeverCut'
  BY <1>1, <1>2 DEF NeverCut
<1>14. QED
  BY <1>4, <1>5, <1>6, <1>7, <1>8, <1>9, <1>10, <1>11, <1>12, <1>13 DEF IInv

\* A call begins: it has a number of its own and the price its coin has now.
LEMMA EnterStep ==
  ASSUME IInv, NEW c, NEW step, Enter(c, step), CallInv',
         step \in Busy \ {"wait"},
         c.op = "trade" => step = "price",
         c.op = "cancel" => c.oid <= Oid(Len(orders))
  PROVE  IInv'
<1>1. /\ pc = "idle" /\ pc' = step /\ call' = c /\ calls' = calls + 1
      /\ quoted' = IF c.coin = None THEN {} ELSE {price[c.coin]}
      /\ result' = NoResult
      /\ heap' = heap /\ first' = first /\ size' = size /\ sized' = sized /\ posts' = posts
      /\ told' = told /\ flight' = flight /\ answer' = answer /\ price' = price
      /\ moves' = moves /\ orders' = orders
  BY DEF Enter, world
<1>2. Live' = Live /\ Made' = Made
  BY <1>1 DEF Live, Made
<1>3. c.coin \in Coins \cup {None}
  BY <1>1 DEF CallInv, CallShape
<1>4. c.coin \in Coins => price[c.coin] \in Nat
  BY DEF IInv, TypeOK
<1>5. TypeOK'
  BY <1>1, <1>3, <1>4 DEF IInv, TypeOK, Codes, NoResult, Busy
<1>6. HeapInv'
  BY <1>1 DEF IInv, HeapInv, Busy
<1>7. NumberInv'
  <2>1. Live \subseteq Requests /\ calls \in Nat
    BY LiveTyped DEF IInv, TypeOK
  <2>2. \A r \in Live : r.call \in Nat /\ r.call <= calls
    BY <2>1 DEF Requests, IInv, NumberInv
  <2>3. \A r \in Live : r.call <= calls + 1 /\ r.call # calls + 1
    BY <2>1, <2>2
  <2>4. QED
    BY <1>1, <1>2, <2>3 DEF IInv, NumberInv
<1>8. WaitInv' /\ AnswerInv'
  BY <1>1 DEF IInv, WaitInv, AnswerInv
<1>9. ToldInv'
  BY <1>1 DEF IInv, ToldInv, Oid
<1>10. PriceInv'
  BY <1>1, <1>3, NoneAssumption DEF IInv, PriceInv, PricedDuringCall, Made
<1>11. ReportedIsOwn' /\ CancelSettles' /\ NeverCut'
  BY <1>1 DEF ReportedIsOwn, CancelSettles, NeverCut, Returned, Busy
<1>12. QED
  BY <1>5, <1>6, <1>7, <1>8, <1>9, <1>10, <1>11 DEF IInv

\* Every action of a call but Post and the ones that return.
Advances(step, f, n, p) ==
  /\ pc' = step /\ first' = f /\ size' = n /\ sized' = p
  /\ UNCHANGED <<heap, call, calls, quoted, posts, told, flight, answer, result, price,
                 moves, orders>>

\* A trade has its first price.
LEMMA PriceStep ==
  ASSUME IInv, pc = "price", call.op = "trade", Advances("quantity", first', size, sized),
         first' \in quoted \ {0}
  PROVE  IInv'
<1>1. /\ pc' = "quantity" /\ size' = size /\ sized' = sized
      /\ heap' = heap /\ call' = call /\ calls' = calls /\ quoted' = quoted /\ posts' = posts
      /\ told' = told /\ flight' = flight /\ answer' = answer /\ result' = result
      /\ price' = price /\ moves' = moves /\ orders' = orders
  BY DEF Advances
<1>2. Live' = Live /\ Made' = Made
  BY <1>1 DEF Live, Made
<1>3. TypeOK'
  BY <1>1 DEF IInv, TypeOK
<1>4. CallInv'
  BY <1>1 DEF IInv, CallInv, CallShape
<1>5. HeapInv'
  BY <1>1 DEF IInv, HeapInv
<1>6. NumberInv'
  BY <1>1, <1>2 DEF IInv, NumberInv
<1>7. WaitInv' /\ AnswerInv'
  BY <1>1 DEF IInv, WaitInv, AnswerInv
<1>8. ToldInv'
  BY <1>1 DEF IInv, ToldInv, Oid
<1>9. PriceInv'
  BY <1>1 DEF IInv, PriceInv, PricedDuringCall, Made
<1>10. ReportedIsOwn' /\ CancelSettles' /\ NeverCut'
  BY <1>1 DEF ReportedIsOwn, CancelSettles, NeverCut, Returned
<1>11. QED
  BY <1>3, <1>4, <1>5, <1>6, <1>7, <1>8, <1>9, <1>10 DEF IInv

\* A trade has its size.
LEMMA QuantityStep ==
  ASSUME IInv, pc = "quantity", call.op = "trade", Advances("sign", first, size', sized'),
         size' \in Nat, sized' \in Nat \cup {None}, SizeOf(call.amount, size', sized', quoted)
  PROVE  IInv'
<1>1. /\ pc' = "sign" /\ first' = first
      /\ heap' = heap /\ call' = call /\ calls' = calls /\ quoted' = quoted /\ posts' = posts
      /\ told' = told /\ flight' = flight /\ answer' = answer /\ result' = result
      /\ price' = price /\ moves' = moves /\ orders' = orders
  BY DEF Advances
<1>2. Live' = Live /\ Made' = Made
  BY <1>1 DEF Live, Made
<1>3. TypeOK'
  BY <1>1 DEF IInv, TypeOK
<1>4. CallInv'
  BY <1>1 DEF IInv, CallInv, CallShape, Signed, Trades
<1>5. HeapInv'
  BY <1>1 DEF IInv, HeapInv
<1>6. NumberInv'
  BY <1>1, <1>2 DEF IInv, NumberInv
<1>7. WaitInv' /\ AnswerInv'
  BY <1>1 DEF IInv, WaitInv, AnswerInv
<1>8. ToldInv'
  BY <1>1 DEF IInv, ToldInv, Oid
<1>9. PriceInv'
  <2>1. SizeOf(call.amount, size, sized, quoted)'
    BY <1>1 DEF SizeOf
  <2>2. PricedDuringCall'
    BY <1>1 DEF IInv, PriceInv, PricedDuringCall, Made
  <2>3. QED
    BY <1>1, <2>1, <2>2 DEF IInv, PriceInv
<1>10. ReportedIsOwn' /\ CancelSettles' /\ NeverCut'
  BY <1>1 DEF ReportedIsOwn, CancelSettles, NeverCut, Returned
<1>11. QED
  BY <1>3, <1>4, <1>5, <1>6, <1>7, <1>8, <1>9, <1>10 DEF IInv

\* The request gets the next number, which no other has, and is the call's only
\* one.
LEMMA PostStep ==
  ASSUME IInv, Post
  PROVE  IInv'
<1>1. /\ pc = "sign" /\ pc' = "wait" /\ posts' = posts + 1 /\ flight' = flight \cup {Request}
      /\ heap' = heap /\ call' = call /\ calls' = calls /\ first' = first /\ size' = size
      /\ sized' = sized /\ quoted' = quoted /\ told' = told /\ answer' = answer
      /\ result' = result /\ price' = price /\ moves' = moves /\ orders' = orders
  BY DEF Post, world
<1>2. /\ Request \in Requests /\ Request.n = posts + 1 /\ Own(Request) /\ Priced(Request)
      /\ Request.call = calls
  BY <1>1, RequestShape DEF IInv, Own
<1> HIDE DEF Request
<1>3. Made' = Made /\ Live' = Live \cup {Request}
  BY <1>1 DEF Live, Made
<1>4. TypeOK'
  BY <1>1, <1>2 DEF IInv, TypeOK
<1>5. CallInv' /\ HeapInv'
  BY <1>1 DEF IInv, CallInv, CallShape, HeapInv
<1>6. \A r \in Live : r.n \in Nat /\ r.n <= posts /\ r.n > 0 /\ r.call # calls /\ r.n # posts + 1
  <2>1. Live \subseteq Requests /\ posts \in Nat
    BY LiveTyped DEF IInv, TypeOK
  <2>2. \A r \in Live : r.n \in Nat /\ r.n <= posts /\ r.n > 0 /\ r.call # calls
    BY <1>1, <2>1 DEF Requests, IInv, NumberInv
  <2>3. QED
    BY <2>1, <2>2
<1>7. NumberInv'
  <2>1. posts \in Nat /\ calls \in Nat /\ Request.n <= posts + 1 /\ Request.n > 0
    BY <1>2 DEF IInv, TypeOK
  <2>2. \A r \in Live' : r.n <= posts' /\ r.n > 0 /\ r.call <= calls'
    <3>1. \A r \in Live : r.n <= posts + 1
      BY <1>6, <2>1
    <3>2. QED
      BY <1>1, <1>2, <1>3, <1>6, <2>1, <3>1 DEF IInv, NumberInv
  <2>3. \A r, s \in Live' : (r.n = s.n \/ r.call = s.call) => r = s
    BY <1>2, <1>3, <1>6 DEF IInv, NumberInv
  <2>4. \A r \in flight' : r \notin Made'
    BY <1>1, <1>2, <1>3, <1>6 DEF IInv, NumberInv, Live
  <2>5. QED
    BY <1>1, <2>2, <2>3, <2>4 DEF IInv, NumberInv
<1>8. WaitInv'
  <2>1. \A t \in told : t[1] < posts + 1
    <3>1. \A t \in told : t[1] \in Nat /\ t[1] <= posts
      BY DEF IInv, TypeOK, ToldInv
    <3>2. posts \in Nat
      BY DEF IInv, TypeOK
    <3>3. QED
      BY <3>1, <3>2
  <2>2. \A r \in Live' : r.n = posts' => Own(r)'
    BY <1>1, <1>2, <1>3, <1>6 DEF Own
  <2>3. posts' > 0
    BY <1>1 DEF IInv, TypeOK
  <2>4. QED
    BY <1>1, <2>1, <2>2, <2>3 DEF WaitInv
<1>9. ToldInv'
  <2>1. \A t \in told : t[1] \in Nat /\ t[1] <= posts /\ t[2] <= Oid(Len(orders))
    BY DEF IInv, TypeOK, ToldInv
  <2>2. posts \in Nat
    BY DEF IInv, TypeOK
  <2>3. \A t \in told : t[1] <= posts + 1
    BY <2>1, <2>2
  <2>4. QED
    BY <1>1, <2>1, <2>3 DEF IInv, ToldInv, Oid
<1>10. AnswerInv'
  BY <1>1 DEF IInv, AnswerInv
<1>11. PriceInv'
  <2>1. PricedDuringCall'
    BY <1>2, <1>3, PricedAll DEF IInv, PriceInv, PricedDuringCall, Live, Priced, SizeOf
  <2>2. QED
    BY <1>1, <2>1 DEF IInv, PriceInv
<1>12. ReportedIsOwn' /\ CancelSettles' /\ NeverCut'
  BY <1>1 DEF ReportedIsOwn, CancelSettles, NeverCut, Returned
<1>13. QED
  BY <1>4, <1>5, <1>7, <1>8, <1>9, <1>10, <1>11, <1>12 DEF IInv

-----------------------------------------------------------------------------
(* Creation, the exchange and the network. *)

\* Creation changes the blocks and the step.
LEMMA CreationStep ==
  ASSUME IInv, AllocTrader \/ AllocData \/ CreateFails \/ CreateHttp
  PROVE  IInv'
<1>1. /\ pc \in {"none", "alloc", "http"} /\ pc' \in {"none", "alloc", "http", "idle"}
      /\ call' = call /\ calls' = calls /\ first' = first /\ size' = size /\ sized' = sized
      /\ quoted' = quoted /\ posts' = posts /\ told' = told /\ flight' = flight
      /\ answer' = answer /\ result' = result /\ price' = price /\ moves' = moves
      /\ orders' = orders
  BY DEF AllocTrader, AllocData, CreateFails, CreateHttp, world
<1>2. call.op = "none"
  BY <1>1 DEF IInv, CallInv
<1>3. Live' = Live /\ Made' = Made
  BY <1>1 DEF Live, Made
<1>4. HeapInv'
  BY <1>1 DEF IInv, HeapInv, AllocTrader, AllocData, CreateFails, CreateHttp
<1>5. heap' \subseteq {"trader", "data", "client"}
  BY <1>1, <1>4 DEF HeapInv
<1>6. TypeOK'
  BY <1>1, <1>5 DEF IInv, TypeOK
<1>7. CallInv'
  BY <1>1, <1>2 DEF IInv, CallInv, CallShape
<1>8. NumberInv'
  BY <1>1, <1>3 DEF IInv, NumberInv
<1>9. WaitInv' /\ AnswerInv'
  BY <1>1 DEF IInv, WaitInv, AnswerInv
<1>10. ToldInv'
  BY <1>1 DEF IInv, ToldInv, Oid
<1>11. PriceInv'
  BY <1>1, <1>2 DEF IInv, PriceInv, PricedDuringCall, Made
<1>12. ReportedIsOwn' /\ CancelSettles' /\ NeverCut'
  BY <1>1, <1>2 DEF ReportedIsOwn, CancelSettles, NeverCut, Trades
<1>13. QED
  BY <1>4, <1>6, <1>7, <1>8, <1>9, <1>10, <1>11, <1>12 DEF IInv

\* Prices move; a call collects those of its coin.
LEMMA MoveStep ==
  ASSUME IInv, Move
  PROVE  IInv'
<1>1. PICK coin \in Coins, p \in Prices :
        /\ price' = [price EXCEPT ![coin] = p]
        /\ quoted' = IF call.coin = coin THEN quoted \cup {p} ELSE quoted
  BY DEF Move
<1>2. /\ pc' = pc /\ heap' = heap /\ call' = call /\ calls' = calls /\ first' = first
      /\ size' = size /\ sized' = sized /\ result' = result /\ posts' = posts /\ told' = told
      /\ flight' = flight /\ answer' = answer /\ orders' = orders /\ moves' = moves + 1
  BY DEF Move, callVars
<1>3. Live' = Live /\ Made' = Made
  BY <1>2 DEF Live, Made
<1>4. p \in Nat
  BY PriceAssumption
<1>5. TypeOK'
  BY <1>1, <1>2, <1>4 DEF IInv, TypeOK
<1>6. CallInv' /\ HeapInv'
  BY <1>2 DEF IInv, CallInv, CallShape, HeapInv
<1>7. NumberInv'
  BY <1>2, <1>3 DEF IInv, NumberInv
<1>8. WaitInv' /\ AnswerInv'
  BY <1>2, <1>3 DEF IInv, WaitInv, AnswerInv, Settled, Own, Oid
<1>9. ToldInv'
  BY <1>2 DEF IInv, ToldInv, Oid
<1>10. PriceInv'
  <2>1. call.coin \in Coins => price'[call.coin] \in quoted'
    BY <1>1 DEF IInv, PriceInv, TypeOK
  <2>2. quoted \subseteq quoted'
    BY <1>1
  <2>3. ASSUME SizeOf(call.amount, size, sized, quoted)
        PROVE  SizeOf(call.amount, size, sized, quoted')
    BY <2>2, <2>3 DEF SizeOf
  <2>4. PricedDuringCall'
    BY <1>2, <1>3 DEF IInv, PriceInv, PricedDuringCall
  <2>5. (call.op = "trade" /\ pc = "sign") =>
          size \in Nat /\ SizeOf(call.amount, size, sized, quoted')
    BY <2>3 DEF IInv, PriceInv
  <2>6. (call.op = "trade" /\ pc \in {"quantity", "sign"}) => first \in quoted' \ {0}
    BY <2>2 DEF IInv, PriceInv
  <2>7. SizeOf(call.amount, size, sized, quoted)' <=> SizeOf(call.amount, size, sized, quoted')
    BY <1>2 DEF SizeOf
  <2>8. QED
    BY <1>2, <2>1, <2>4, <2>5, <2>6, <2>7 DEF PriceInv
<1>11. ReportedIsOwn' /\ CancelSettles' /\ NeverCut'
  BY <1>2 DEF IInv, ReportedIsOwn, CancelSettles, NeverCut, Returned, Oid
<1>12. QED
  BY <1>5, <1>6, <1>7, <1>8, <1>9, <1>10, <1>11 DEF IInv

\* Orders keep their requests, and none comes to rest again; a new one is made
\* of a request that was in flight.
Kept ==
  /\ orders' \in Seq(Orders)
  /\ Len(orders) <= Len(orders')
  /\ \A o \in DOMAIN orders :
       /\ o \in DOMAIN orders'
       /\ orders'[o].r = orders[o].r
       /\ orders'[o].status = "resting" => orders[o].status = "resting"
  /\ \A o \in DOMAIN orders' : o \notin DOMAIN orders =>
       /\ o = Len(orders) + 1
       /\ orders'[o].r \in flight /\ orders'[o].r \notin flight'

\* What a cancel has settled stays so.
LEMMA SettledStays ==
  ASSUME TypeOK, Kept, call' = call, Settled, call.op = "cancel", CallInv,
         call.oid <= Oid(Len(orders))
  PROVE  Settled'
<1>1. Len(orders) \in Nat /\ Len(orders) + 1 \in Nat
  BY LenProperties DEF TypeOK
<1>2. Oid(Len(orders)) < Oid(Len(orders) + 1) /\ Oid(Len(orders)) \in Nat
      /\ Oid(Len(orders) + 1) \in Nat
  BY <1>1, OidGrows
<1>3. call.oid \in Nat
  BY DEF CallInv, CallShape, AccountOps
<1>4. call.oid # Oid(Len(orders) + 1)
  BY <1>2, <1>3
<1>5. SUFFICES ASSUME NEW o \in DOMAIN orders', Oid(o) = call.oid,
                      orders'[o].r.asset = get_asset_id(call.coin)
               PROVE  orders'[o].status # "resting"
  BY DEF Settled, Oid, get_asset_id
<1>6. o \in DOMAIN orders
  BY <1>4, <1>5 DEF Kept
<1>7. orders[o].status # "resting"
  BY <1>5, <1>6 DEF Kept, Settled
<1>8. QED
  BY <1>6, <1>7 DEF Kept

\* Whatever happens to requests on the wire and to orders, as long as it
\* is Kept and the answer, if a new one is given, is right.
LEMMA WorldStep ==
  ASSUME IInv, Kept, flight' \subseteq flight,
         UNCHANGED <<callVars, quoted, posts, told, price, moves>>,
         answer' \in [n : Nat, kind : {"resting", "filled", "err", "ok"}, oid : Nat] \cup {None},
         answer' = answer \/ AnswerInv'
  PROVE  IInv'
<1>1. /\ pc' = pc /\ heap' = heap /\ call' = call /\ calls' = calls /\ first' = first
      /\ size' = size /\ sized' = sized /\ result' = result /\ quoted' = quoted
      /\ posts' = posts /\ told' = told /\ price' = price /\ moves' = moves
  BY DEF callVars
<1>2. /\ Live' \subseteq Live
      /\ \A o \in DOMAIN orders' : orders'[o].r \in Live
      /\ \A o \in DOMAIN orders : orders[o].r \in Made
  BY DEF Live, Made, Kept
<1>3. TypeOK'
  BY <1>1 DEF IInv, TypeOK, Kept
<1>4. CallInv' /\ HeapInv'
  BY <1>1 DEF IInv, CallInv, CallShape, HeapInv
<1>5. NumberInv'
  <2>1. \A o, p \in DOMAIN orders' : orders'[o].r = orders'[p].r => o = p
    <3> SUFFICES ASSUME NEW o \in DOMAIN orders', NEW p \in DOMAIN orders',
                        orders'[o].r = orders'[p].r
                 PROVE  o = p
      OBVIOUS
    <3>1. CASE o \in DOMAIN orders /\ p \in DOMAIN orders
      BY <3>1 DEF Kept, IInv, NumberInv
    <3>2. CASE o \in DOMAIN orders /\ p \notin DOMAIN orders
      BY <3>2, <1>2 DEF Kept, IInv, NumberInv
    <3>3. CASE o \notin DOMAIN orders /\ p \in DOMAIN orders
      BY <3>3, <1>2 DEF Kept, IInv, NumberInv
    <3>4. CASE o \notin DOMAIN orders /\ p \notin DOMAIN orders
      BY <3>4 DEF Kept
    <3>5. QED
      BY <3>1, <3>2, <3>3, <3>4
  <2>2. \A r \in flight' : r \notin Made'
    BY <1>2 DEF Kept, IInv, NumberInv, Made
  <2>3. QED
    BY <1>1, <1>2, <2>1, <2>2 DEF IInv, NumberInv
<1>6. WaitInv'
  BY <1>1, <1>2 DEF IInv, WaitInv, Own
<1>7. ToldInv'
  <2>1. Len(orders) \in Nat /\ Len(orders') \in Nat
    BY LenProperties DEF IInv, TypeOK, Kept
  <2>2. Oid(Len(orders)) <= Oid(Len(orders')) /\ Oid(Len(orders)) \in Nat /\ Oid(Len(orders')) \in Nat
    BY <2>1, OidGrows DEF Kept
  <2>3. \A t \in told : t[2] \in Nat /\ t[2] <= Oid(Len(orders))
    BY DEF IInv, TypeOK, ToldInv
  <2>4. \A t \in told : t[2] <= Oid(Len(orders'))
    BY <2>2, <2>3
  <2>5. call.op = "cancel" => call.oid \in Nat /\ call.oid <= Oid(Len(orders))
    BY DEF IInv, CallInv, CallShape, AccountOps, ToldInv
  <2>6. call.op = "cancel" => call.oid <= Oid(Len(orders'))
    BY <2>2, <2>5
  <2>7. Oid(Len(orders))' = Oid(Len(orders'))
    BY DEF Oid
  <2>8. QED
    BY <1>1, <2>4, <2>6, <2>7 DEF IInv, ToldInv
<1>8. (call.op = "cancel" /\ Settled) => Settled'
  BY <1>1, SettledStays DEF IInv, ToldInv
<1>9. AnswerInv'
  <2>1. CASE answer' = answer
    <3> SUFFICES ASSUME answer # None
                 PROVE  AnswerInv'
      BY <2>1 DEF AnswerInv
    <3>1. /\ pc = "wait" /\ answer.n = posts
          /\ \A r \in flight : r.n # posts
          /\ answer.kind \in {"resting", "filled"} =>
               \E o \in DOMAIN orders : answer.oid = Oid(o) /\ orders[o].r.n = posts
          /\ (answer.kind = "ok" /\ call.op = "cancel") => Settled
      BY DEF IInv, AnswerInv
    <3>2. answer.kind \in {"resting", "filled"} =>
            \E o \in DOMAIN orders' : answer.oid = Oid(o) /\ orders'[o].r.n = posts
      BY <3>1 DEF Kept
    <3>3. QED
      BY <1>1, <1>8, <2>1, <3>1, <3>2 DEF AnswerInv, Oid
  <2>2. QED
    BY <2>1
<1>10. PriceInv'
  <2>1. PricedDuringCall'
    <3>1. \A r \in Live' : Priced(r)
      BY <1>2, PricedAll DEF IInv, PriceInv
    <3>2. QED
      BY <3>1 DEF PricedDuringCall, Live, Made, Priced, SizeOf
  <2>2. SizeOf(call.amount, size, sized, quoted)' <=> SizeOf(call.amount, size, sized, quoted)
    BY <1>1 DEF SizeOf
  <2>3. QED
    BY <1>1, <2>1, <2>2 DEF IInv, PriceInv
<1>11. ReportedIsOwn'
  BY <1>1 DEF IInv, ReportedIsOwn, Returned, Oid, Kept
<1>12. CancelSettles'
  BY <1>1, <1>8 DEF IInv, CancelSettles, Settled, Returned
<1>13. NeverCut'
  BY <1>1 DEF IInv, NeverCut, Returned
<1>14. QED
  BY <1>3, <1>4, <1>5, <1>6, <1>7, <1>9, <1>10, <1>11, <1>12, <1>13 DEF IInv

AnswerType == [n : Nat, kind : {"resting", "filled", "err", "ok"}, oid : Nat] \cup {None}

\* The exchange deals with a request of the running call or of an earlier one.
LEMMA ExecuteStep ==
  ASSUME IInv, Execute
  PROVE  IInv'
<1>1. PICK r \in flight : flight' = flight \ {r} /\ (Refuse(r) \/ Accept(r) \/ Cancel(r))
  BY DEF Execute
<1>2. UNCHANGED <<callVars, quoted, posts, told, price, moves>>
  BY DEF Execute
<1>3. /\ pc' = pc /\ call' = call /\ calls' = calls /\ posts' = posts
  BY <1>2 DEF callVars
<1>4. /\ r \in Requests /\ r.n \in Nat /\ r \in Live /\ posts \in Nat /\ answer \in AnswerType
      /\ orders \in Seq(Orders) /\ Len(orders) \in Nat
  BY <1>1, LenProperties DEF IInv, TypeOK, Requests, Live, AnswerType
<1>5. Awaited(r) => \A q \in flight' : q.n # posts'
  BY <1>1, <1>3 DEF Awaited, IInv, NumberInv, Live
<1>6. Awaited(r) => pc = "wait" /\ r.n = posts /\ Own(r)
  BY <1>4 DEF Awaited, IInv, WaitInv
<1>7. CASE Refuse(r)
  <2>1. orders' = orders
    BY <1>7 DEF Refuse
  <2>2. Kept
    BY <1>4, <2>1 DEF Kept
  <2>3. \/ Awaited(r) /\ answer' = [n |-> r.n, kind |-> "err", oid |-> 0]
        \/ answer' = answer
    BY <1>7 DEF Refuse, Answers
  <2>4. answer' \in AnswerType
    BY <1>4, <2>3 DEF AnswerType
  <2>5. Awaited(r) /\ answer' = [n |-> r.n, kind |-> "err", oid |-> 0] => AnswerInv'
    BY <1>3, <1>5, <1>6 DEF AnswerInv
  <2>6. QED
    BY <1>1, <1>2, <2>2, <2>3, <2>4, <2>5, WorldStep DEF AnswerType
<1>8. CASE Accept(r)
  <2>1. PICK status \in {"resting", "filled"} :
          /\ orders' = Append(orders, [r |-> r, status |-> status])
          /\ Answers(r, status, Oid(Len(orders) + 1))
    BY <1>8 DEF Accept
  <2> DEFINE new == [r |-> r, status |-> status]
  <2>2. new \in Orders /\ new.r = r
    BY <1>4 DEF Orders
  <2>3. /\ orders' \in Seq(Orders) /\ Len(orders') = Len(orders) + 1
        /\ DOMAIN orders' = 1 .. Len(orders) + 1 /\ DOMAIN orders = 1 .. Len(orders)
        /\ orders'[Len(orders) + 1] = new
        /\ \A o \in 1 .. Len(orders) : orders'[o] = orders[o]
    BY <1>4, <2>1, <2>2, AppendProperties, LenProperties
  <2> HIDE DEF new
  <2>4. Kept
    BY <1>1, <1>4, <2>2, <2>3 DEF Kept
  <2>5. Oid(Len(orders) + 1) \in Nat
    BY <1>4, OidGrows
  <2>6. \/ Awaited(r) /\ answer' = [n |-> r.n, kind |-> status, oid |-> Oid(Len(orders) + 1)]
        \/ answer' = answer
    BY <2>1 DEF Answers
  <2>7. answer' \in AnswerType
    BY <1>4, <2>5, <2>6 DEF AnswerType
  <2>8. ASSUME Awaited(r), answer' = [n |-> r.n, kind |-> status, oid |-> Oid(Len(orders) + 1)]
        PROVE  AnswerInv'
    <3>1. Len(orders) + 1 \in DOMAIN orders' /\ orders'[Len(orders) + 1].r.n = posts
      BY <1>4, <1>6, <2>2, <2>3, <2>8
    <3>2. answer'.oid = Oid(Len(orders) + 1) /\ answer'.n = r.n /\ answer'.kind = status
      BY <2>8
    <3>3. \E o \in DOMAIN orders' : answer'.oid = Oid(o)' /\ orders'[o].r.n = posts'
      BY <1>3, <3>1, <3>2 DEF Oid
    <3>4. QED
      BY <1>3, <1>5, <1>6, <2>8, <3>2, <3>3 DEF AnswerInv, Oid
  <2>9. QED
    BY <1>1, <1>2, <2>4, <2>6, <2>7, <2>8, WorldStep DEF AnswerType
<1>9. CASE Cancel(r)
  <2> DEFINE Hit(o) == Oid(o) = r.oid /\ orders[o].r.asset = r.asset /\ orders[o].status = "resting"
  <2>1. orders' = [o \in DOMAIN orders |->
                     IF Hit(o) THEN [r |-> orders[o].r, status |-> "cancelled"] ELSE orders[o]]
    BY <1>9 DEF Cancel
  <2>2. \A o \in DOMAIN orders : orders[o] \in Orders
    BY <1>4, ElementOfSeq
  <2>3. /\ DOMAIN orders' = DOMAIN orders
        /\ \A o \in DOMAIN orders :
             /\ Hit(o) => orders'[o] = [r |-> orders[o].r, status |-> "cancelled"]
             /\ ~Hit(o) => orders'[o] = orders[o]
    BY <2>1
  <2>4. \A o \in DOMAIN orders :
          /\ orders'[o] \in Orders /\ orders'[o].r = orders[o].r
          /\ Hit(o) => orders'[o].status = "cancelled"
          /\ ~Hit(o) => orders'[o].status = orders[o].status
    BY <2>2, <2>3 DEF Orders
  <2>5. DOMAIN orders = 1 .. Len(orders)
    BY <1>4, LenProperties
  <2>6. orders' \in [1 .. Len(orders) -> Orders]
    <3> HIDE DEF Hit
    <3>1. \A o \in 1 .. Len(orders) :
            (IF Hit(o) THEN [r |-> orders[o].r, status |-> "cancelled"] ELSE orders[o]) \in Orders
      BY <2>2, <2>5 DEF Orders
    <3>2. QED
      BY <2>1, <2>5, <3>1
  <2>7. orders' \in Seq(Orders) /\ Len(orders') = Len(orders)
    BY <1>4, <2>6
  <2>8. Kept
    BY <2>3, <2>4, <2>7 DEF Kept
  <2>9. \/ Awaited(r) /\ answer' = [n |-> r.n, kind |-> "ok", oid |-> 0]
        \/ answer' = answer
    BY <1>9 DEF Cancel, Answers
  <2>10. answer' \in AnswerType
    BY <1>4, <2>9 DEF AnswerType
  <2>11. ASSUME Awaited(r), answer' = [n |-> r.n, kind |-> "ok", oid |-> 0]
         PROVE  AnswerInv'
    <3>1. ASSUME call.op = "cancel", NEW o \in DOMAIN orders', Oid(o) = call.oid,
                 orders'[o].r.asset = get_asset_id(call.coin)
          PROVE  orders'[o].status # "resting"
      <4>1. r.oid = call.oid /\ r.asset = get_asset_id(call.coin)
        BY <1>6, <2>11, <3>1 DEF Own
      <4>2. QED
        BY <2>3, <2>4, <3>1, <4>1
    <3>2. call.op = "cancel" => Settled'
      BY <1>3, <3>1 DEF Settled, Oid, get_asset_id
    <3>3. answer'.n = r.n /\ answer'.kind = "ok"
      BY <2>11
    <3>4. QED
      BY <1>3, <1>5, <1>6, <2>11, <3>2, <3>3 DEF AnswerInv
  <2>12. QED
    BY <1>1, <1>2, <2>8, <2>9, <2>10, <2>11, WorldStep DEF AnswerType
<1>10. QED
  BY <1>1, <1>7, <1>8, <1>9

\* A request gets lost on its way, or an order fills.
LEMMA NetworkStep ==
  ASSUME IInv, Lose \/ Fill
  PROVE  IInv'
<1>1. orders \in Seq(Orders) /\ answer \in AnswerType
  BY DEF IInv, TypeOK, AnswerType
<1>2. CASE Lose
  <2>1. orders' = orders /\ flight' \subseteq flight /\ answer' = answer
    BY <1>2 DEF Lose, world
  <2>2. Kept
    BY <1>1, <2>1 DEF Kept
  <2>3. UNCHANGED <<callVars, quoted, posts, told, price, moves>>
    BY <1>2 DEF Lose, world
  <2>4. QED
    BY <1>1, <2>1, <2>2, <2>3, WorldStep DEF AnswerType
<1>3. CASE Fill
  <2>1. PICK o \in DOMAIN orders :
          /\ orders[o].status = "resting"
          /\ orders' = [orders EXCEPT ![o] = [r |-> orders[o].r, status |-> "filled"]]
    BY <1>3 DEF Fill
  <2>2. flight' = flight /\ answer' = answer
        /\ UNCHANGED <<callVars, quoted, posts, told, price, moves>>
    BY <1>3 DEF Fill
  <2>3. \A p \in DOMAIN orders : orders[p] \in Orders
    BY <1>1, ElementOfSeq
  <2>4. [r |-> orders[o].r, status |-> "filled"] \in Orders
    BY <2>3 DEF Orders
  <2>5. orders' \in Seq(Orders) /\ Len(orders') = Len(orders) /\ DOMAIN orders' = DOMAIN orders
    BY <1>1, <2>1, <2>4, ExceptSeq, LenProperties
  <2>6. \A p \in DOMAIN orders : orders'[p].r = orders[p].r /\
          (orders'[p].status = "resting" => orders[p].status = "resting")
    BY <2>1, <2>3 DEF Orders
  <2>7. Kept
    BY <2>5, <2>6 DEF Kept
  <2>8. QED
    BY <1>1, <2>2, <2>7, WorldStep DEF AnswerType
<1>4. QED
  BY <1>2, <1>3

-----------------------------------------------------------------------------
(* Every step. *)

\* A return that tells no order id and reports no cancel as done.
LEMMA QuietReturn ==
  ASSUME IInv, NEW code \in Codes, NEW oid, NEW out, Return(code, oid, out),
         UNCHANGED <<heap, call, calls, quoted, posts, told, flight, world>>,
         pc \in Busy,
         code = "unavailable" => pc # "wait",
         call.op \in Signed => code # "success",
         (code = "success" /\ out # None /\ call.op \in {"balance", "history", "positions"}) =>
           \/ out.kept = out.text
           \/ call.op = "positions" /\ out.room <= Brackets
  PROVE  IInv'
<1>1. UNCHANGED <<heap, call, calls, quoted, posts, flight, price, moves, orders>> /\ told' = told
  BY DEF world
<1>2. told' \subseteq Nat \X Nat /\ \A t \in told' : t[1] <= posts /\ t[2] <= Oid(Len(orders))
  BY <1>1 DEF IInv, TypeOK, ToldInv
<1>3. call.op \in Trades \/ call.op = "cancel" => code # "success"
  BY DEF Signed
<1>4. QED
  BY <1>1, <1>2, <1>3, ReturnStep

LEMMA PriceSteps ==
  ASSUME IInv, PriceFails \/ PriceRead
  PROVE  IInv'
<1>1. pc = "price" /\ call.op \in {"price", "trade"} /\ pc \in Busy
  BY DEF PriceFails, PriceRead, IInv, CallInv, Busy
<1>2. CASE PriceFails
  <2>1. PICK e \in PriceErrors : Return(IF call.op = "trade" THEN "unavailable" ELSE e, None, None)
    BY <1>2 DEF PriceFails
  <2>2. UNCHANGED <<heap, call, calls, quoted, posts, told, flight, world>>
    BY <1>2 DEF PriceFails
  <2> DEFINE code == IF call.op = "trade" THEN "unavailable" ELSE e
  <2>3. code \in Codes /\ code # "success"
    BY DEF PriceErrors, Codes
  <2>4. Return(code, None, None)
    BY <2>1
  <2> HIDE DEF code
  <2>5. QED
    BY <1>1, <2>2, <2>3, <2>4, QuietReturn
<1>3. CASE PriceRead
  <2>1. UNCHANGED <<heap, call, calls, quoted, posts, told, flight, world>>
    BY <1>3 DEF PriceRead
  <2>2. call.coin \in Coins /\ price[call.coin] \in Nat /\ price[call.coin] \in quoted
    BY <1>1 DEF IInv, CallInv, CallShape, AccountOps, TypeOK, PriceInv
  <2>3. CASE call.op = "trade" /\ ~NoPrice(price[call.coin])
    <3>1. /\ first' = price[call.coin] /\ pc' = "quantity"
          /\ UNCHANGED <<size, sized, answer, result>>
      BY <1>3, <2>3 DEF PriceRead
    <3>2. Advances("quantity", first', size, sized)
      BY <2>1, <3>1 DEF Advances, world
    <3>3. first' \in quoted \ {0}
      BY <2>2, <2>3, <3>1 DEF NoPrice
    <3>4. QED
      BY <1>1, <2>3, <3>2, <3>3, PriceStep
  <2>4. CASE ~(call.op = "trade" /\ ~NoPrice(price[call.coin]))
    <3> DEFINE code == IF call.op = "trade" THEN "unavailable" ELSE "success"
    <3>1. Return(code, None, price[call.coin])
      BY <1>3, <2>4 DEF PriceRead
    <3>2. code \in Codes /\ (call.op \in Signed => code # "success")
      BY <1>1 DEF Codes, Signed, Trades
    <3> HIDE DEF code
    <3>3. QED
      BY <1>1, <2>1, <3>1, <3>2, QuietReturn
  <2>5. QED
    BY <2>3, <2>4
<1>4. QED
  BY <1>2, <1>3

LEMMA QuantitySteps ==
  ASSUME IInv, QuantityFallback \/ QuantityRead
  PROVE  IInv'
<1>1. pc = "quantity" /\ call.op \in {"quantity", "trade"} /\ pc \in Busy
  BY DEF QuantityFallback, QuantityRead, IInv, CallInv, Busy
<1>2. UNCHANGED <<heap, call, calls, quoted, posts, told, flight, world>>
  BY DEF QuantityFallback, QuantityRead
<1>3. call.coin \in Coins /\ call.amount \in Nat /\ price[call.coin] \in Nat
      /\ price[call.coin] \in quoted /\ quoted \subseteq Nat
  BY <1>1 DEF IInv, CallInv, CallShape, AccountOps, TypeOK, PriceInv
<1>4. ASSUME NEW q \in Nat, NEW p \in Nat \cup {None}, Sized(q, p),
             SizeOf(call.amount, q, p, quoted)
      PROVE  IInv'
  <2>1. CASE call.op = "quantity"
    <3>1. Return("success", None, q)
      BY <1>4, <2>1 DEF Sized
    <3>2. QED
      BY <1>1, <1>2, <2>1, <3>1, QuietReturn DEF Codes, Signed, Trades
  <2>2. CASE call.op # "quantity"
    <3>1. /\ size' = q /\ sized' = p /\ pc' = "sign" /\ UNCHANGED <<first, answer, result>>
      BY <1>4, <2>2 DEF Sized
    <3>2. Advances("sign", first, size', sized')
      BY <1>2, <3>1 DEF Advances, world
    <3>3. QED
      BY <1>1, <1>4, <2>2, <3>1, <3>2, QuantityStep
  <2>3. QED
    BY <2>1, <2>2
<1>5. SizeOf(call.amount, Fallback, None, quoted)
  BY DEF SizeOf
<1>6. CASE QuantityFallback \/ (QuantityRead /\ price[call.coin] <= 0)
  <2>1. Sized(Fallback, None)
    BY <1>6 DEF QuantityFallback, QuantityRead
  <2>2. QED
    BY <1>4, <1>5, <2>1, FallbackAssumption
<1>7. CASE QuantityRead /\ ~(price[call.coin] <= 0)
  <2> DEFINE p == price[call.coin]
  <2>1. Sized(Quantity(call.amount, p), p)
    BY <1>7 DEF QuantityRead
  <2>2. p \in Nat /\ p > 0 /\ p # None
    BY <1>3, <1>7, NoneAssumption
  <2>3. p \in quoted
    BY <1>3
  <2> HIDE DEF p
  <2>4. /\ Quantity(call.amount, p) \in Nat
        /\ 2 * (Quantity(call.amount, p) * p - call.amount) <= p
        /\ 2 * (call.amount - Quantity(call.amount, p) * p) <= p
    BY <1>3, <2>2, QuantityRounds
  <2>5. SizeOf(call.amount, Quantity(call.amount, p), p, quoted)
    BY <2>2, <2>3, <2>4 DEF SizeOf
  <2>6. QED
    BY <1>4, <2>1, <2>2, <2>4, <2>5
<1>8. QED
  BY <1>6, <1>7

LEMMA FailSteps ==
  ASSUME IInv, SignFails \/ PostFails \/ AccountFails
  PROVE  IInv'
<1>1. PICK e \in Codes \ {"success", "unavailable"} : Return(Code(e), None, None) \/ Return(e, None, None)
  BY DEF SignFails, PostFails, AccountFails, Codes
<1>2. UNCHANGED <<heap, call, calls, quoted, posts, told, flight, world>> /\ pc \in Busy
  BY DEF SignFails, PostFails, AccountFails, Busy
<1>3. Code(e) \in Codes \ {"success", "unavailable"}
  BY DEF Code, Codes
<1>4. QED
  BY <1>1, <1>2, <1>3, QuietReturn

LEMMA AccountSteps ==
  ASSUME IInv, AccountRead
  PROVE  IInv'
<1>1. pc = "account" /\ call.op \in AccountOps /\ pc \in Busy
  BY DEF AccountRead, IInv, CallInv, Busy
<1>2. UNCHANGED <<heap, call, calls, quoted, posts, told, flight, world>>
  BY DEF AccountRead
<1>3. call.op \notin Signed /\ {"success", "params"} \subseteq Codes
  BY <1>1 DEF AccountOps, Signed, Trades, Codes
<1>4. PICK room \in Rooms :
        CASE call.op = "test" -> Return("success", None, None)
          [] call.op \in {"balance", "history"} -> Handed(Body, room)
          [] call.op = "positions" -> \/ \E n \in {Body, Brackets} : Handed(n, room)
                                      \/ Copy(Brackets, room)
  BY DEF AccountRead
<1>5. room \in Nat /\ Body \in Nat /\ Brackets \in Nat
  BY RoomAssumption DEF Brackets
<1>6. ASSUME NEW n \in Nat, Copy(n, room),
             n < room \/ (call.op = "positions" /\ room <= Brackets)
      PROVE  IInv'
  <2> DEFINE out == [text |-> n, kept |-> Copied(n, room), room |-> room]
  <2>1. Return("success", None, out)
    BY <1>6 DEF Copy
  <2>2. n < room => Copied(n, room) = n
    BY <1>5 DEF Copied
  <2>3. out.kept = out.text \/ (call.op = "positions" /\ out.room <= Brackets)
    BY <1>6, <2>2
  <2> HIDE DEF out
  <2>4. QED
    BY <1>1, <1>2, <1>3, <2>1, <2>3, QuietReturn
<1>7. ASSUME NEW n \in Nat, Handed(n, room)
      PROVE  IInv'
  <2>1. CASE n < room
    BY <1>6, <1>7, <2>1 DEF Handed, Fits
  <2>2. CASE ~(n < room)
    <3>1. Return("params", None, None)
      BY <1>7, <2>2 DEF Handed, Fits
    <3>2. QED
      BY <1>1, <1>2, <1>3, <3>1, QuietReturn
  <2>3. QED
    BY <2>1, <2>2
<1>8. CASE call.op = "test"
  <2>1. Return("success", None, None)
    BY <1>4, <1>8
  <2>2. QED
    BY <1>1, <1>2, <1>3, <2>1, QuietReturn
<1>9. CASE call.op \in {"balance", "history"}
  <2>1. Handed(Body, room)
    BY <1>4, <1>9
  <2>2. QED
    BY <1>5, <1>7, <2>1
<1>10. CASE call.op = "positions"
  <2>1. (\E n \in {Body, Brackets} : Handed(n, room)) \/ Copy(Brackets, room)
    BY <1>4, <1>10
  <2>2. ASSUME Copy(Brackets, room)
        PROVE  IInv'
    <3>1. Brackets < room \/ room <= Brackets
      BY <1>5
    <3>2. QED
      BY <1>5, <1>6, <1>10, <2>2, <3>1
  <2>3. QED
    BY <1>5, <1>7, <2>1, <2>2
<1>11. QED
  BY <1>1, <1>8, <1>9, <1>10 DEF AccountOps

\* The answer to an order names the order made of the call's own request.
LEMMA AnswerStep ==
  ASSUME IInv, ReceivePlaced \/ ReceiveCancelled
  PROVE  IInv'
<1>1. pc = "wait" /\ answer # None /\ pc \in Busy
  BY DEF ReceivePlaced, ReceiveCancelled, Busy
<1>2. /\ answer.n = posts /\ posts \in Nat /\ posts > 0 /\ orders \in Seq(Orders)
      /\ answer.oid \in Nat /\ told \subseteq Nat \X Nat /\ Len(orders) \in Nat
  BY <1>1, LenProperties DEF IInv, AnswerInv, TypeOK, WaitInv
<1>3. CASE ReceivePlaced /\ Told
  <2>1. /\ Return("success", Printed(answer.oid), None)
        /\ told' = told \cup {<<answer.n, Printed(answer.oid)>>}
        /\ UNCHANGED <<heap, call, calls, quoted, posts, flight, world>>
        /\ call.op \in Trades
    BY <1>3 DEF ReceivePlaced
  <2>2. PICK o \in DOMAIN orders : answer.oid = Oid(o) /\ orders[o].r.n = posts
    BY <1>1, <1>3 DEF IInv, AnswerInv, Told
  <2>3. orders[o].r \in Live /\ Own(orders[o].r)
    BY <1>1, <2>2 DEF Live, Made, IInv, WaitInv
  <2>4. o \in 1 .. Len(orders)
    BY <1>2, LenProperties
  <2>5. Oid(o) <= Oid(Len(orders)) /\ Oid(o) \in Nat /\ Oid(Len(orders)) \in Nat
    BY <1>2, <2>4, OidGrows
  <2>6. IntMax \in Nat
    BY BoundAssumption
  <2>7. /\ Printed(answer.oid) \in Nat /\ Printed(answer.oid) <= answer.oid
    BY <1>2, <2>6 DEF Printed
  <2>8. Printed(answer.oid) <= Oid(Len(orders))
    BY <1>2, <2>2, <2>5, <2>7
  <2>9. told' \subseteq Nat \X Nat
    BY <1>2, <2>1, <2>7
  <2>10. \A t \in told' : t[1] <= posts /\ t[2] <= Oid(Len(orders))
    <3>1. \A t \in told : t[1] <= posts /\ t[2] <= Oid(Len(orders))
      BY DEF IInv, ToldInv
    <3>2. posts <= posts
      BY <1>2
    <3>3. QED
      BY <1>2, <2>1, <2>8, <3>1, <3>2
  <2>11. Reports(Printed(answer.oid))
    <3>1. Printed(answer.oid) = IF Oid(o) < IntMax THEN Oid(o) ELSE IntMax
      BY <1>2, <2>2, <2>5, <2>6 DEF Printed
    <3>2. Listed(call.coin) => orders[o].r.asset = Universe[call.coin]
      BY <2>3 DEF Own, Listed, get_asset_id
    <3>3. QED
      BY <2>1, <2>2, <2>3, <3>1, <3>2 DEF Own, Reports
  <2>12. call.op # "cancel" /\ call.op \notin {"balance", "history", "positions"}
    BY <2>1 DEF Trades
  <2>13. UNCHANGED <<heap, call, calls, quoted, posts, flight, price, moves, orders>>
    BY <2>1 DEF world
  <2> HIDE DEF Printed
  <2>14. QED
    BY <1>1, <2>1, <2>9, <2>10, <2>11, <2>12, <2>13, ReturnStep DEF Codes
<1>4. CASE ReceivePlaced /\ ~Told
  <2>1. /\ Return(Code("exchange"), None, None)
        /\ UNCHANGED <<heap, call, calls, quoted, posts, told, flight, world>>
    BY <1>4 DEF ReceivePlaced
  <2>2. Code("exchange") \in Codes \ {"success", "unavailable"}
    BY DEF Code, Codes
  <2>3. QED
    BY <1>1, <2>1, <2>2, QuietReturn
<1>5. CASE ReceiveCancelled
  <2> DEFINE code == IF Cancelled THEN "success" ELSE "exchange"
  <2>1. /\ Return(code, None, None) /\ call.op = "cancel"
        /\ UNCHANGED <<heap, call, calls, quoted, posts, flight, price, moves, orders>>
        /\ told' = told
    BY <1>5 DEF ReceiveCancelled, world
  <2>2. code \in Codes \ {"unavailable"} /\ (code = "success" => Cancelled)
    BY DEF Codes
  <2>3. Cancelled => Settled
    BY <1>1, <2>1 DEF Cancelled, IInv, AnswerInv
  <2>4. told' \subseteq Nat \X Nat /\ \A t \in told' : t[1] <= posts /\ t[2] <= Oid(Len(orders))
    BY <2>1 DEF IInv, TypeOK, ToldInv
  <2>5. call.op \notin Trades /\ call.op \notin {"balance", "history", "positions"}
    BY <2>1 DEF Trades
  <2> HIDE DEF code
  <2>6. QED
    BY <1>1, <2>1, <2>2, <2>3, <2>4, <2>5, ReturnStep
<1>6. QED
  BY <1>3, <1>4, <1>5

\* The application calls with arguments of its own choice.
LEMMA CallSteps ==
  ASSUME IInv, Calls
  PROVE  IInv'
<1>1. ASSUME NEW c, NEW step \in Busy \ {"wait"}, Enter(c, step)
      PROVE  call' = c /\ pc' = step
  BY <1>1 DEF Enter
<1>2. CASE ExecuteTrade
  <2>1. PICK coin \in Coins, buy \in BOOLEAN, amount \in Notionals :
          Enter([op |-> "trade", coin |-> coin, buy |-> buy, amount |-> amount], "price")
    BY <1>2 DEF ExecuteTrade
  <2> DEFINE c == [op |-> "trade", coin |-> coin, buy |-> buy, amount |-> amount]
  <2>2. c.op = "trade" /\ c \in [op : {"trade"}, coin : Coins, buy : BOOLEAN, amount : Nat]
    BY PriceAssumption
  <2>3. Enter(c, "price") /\ "price" \in Busy \ {"wait"}
    BY <2>1 DEF Busy
  <2> HIDE DEF c
  <2>4. call' = c /\ pc' = "price"
    BY <1>1, <2>3
  <2>5. CallInv'
    BY <2>2, <2>4 DEF CallInv, CallShape
  <2>6. QED
    BY <2>2, <2>3, <2>5, EnterStep
<1>3. CASE PlaceLimitOrder
  <2>1. PICK coin \in Coins, buy \in BOOLEAN, p \in Limits, q \in Limits :
          Enter([op |-> "place", coin |-> coin, buy |-> buy, limit |-> p, amount |-> q], "sign")
    BY <1>3 DEF PlaceLimitOrder
  <2> DEFINE c == [op |-> "place", coin |-> coin, buy |-> buy, limit |-> p, amount |-> q]
  <2>2. /\ c.op = "place"
        /\ c \in [op : {"place"}, coin : Coins, buy : BOOLEAN, limit : Nat, amount : Nat]
    BY PriceAssumption
  <2>3. Enter(c, "sign") /\ "sign" \in Busy \ {"wait"}
    BY <2>1 DEF Busy
  <2> HIDE DEF c
  <2>4. call' = c /\ pc' = "sign"
    BY <1>1, <2>3
  <2>5. CallInv'
    BY <2>2, <2>4 DEF CallInv, CallShape, Signed, Trades
  <2>6. QED
    BY <2>2, <2>3, <2>5, EnterStep
<1>4. CASE CancelOrder
  <2>1. PICK coin \in Coins, oid \in {Oid(o) : o \in DOMAIN orders} \cup {t[2] : t \in told} :
          Enter([op |-> "cancel", coin |-> coin, oid |-> oid], "sign")
    BY <1>4 DEF CancelOrder
  <2> DEFINE c == [op |-> "cancel", coin |-> coin, oid |-> oid]
  <2>2. oid \in Nat /\ oid <= Oid(Len(orders))
    <3>1. DOMAIN orders = 1 .. Len(orders) /\ Len(orders) \in Nat
      BY LenProperties DEF IInv, TypeOK
    <3>2. \A o \in DOMAIN orders : Oid(o) \in Nat /\ Oid(o) <= Oid(Len(orders))
      BY <3>1, OidGrows
    <3>3. \A t \in told : t[2] \in Nat /\ t[2] <= Oid(Len(orders))
      BY DEF IInv, TypeOK, ToldInv
    <3>4. QED
      BY <3>2, <3>3
  <2>3. c.op = "cancel" /\ c.oid = oid /\ c \in [op : {"cancel"}, coin : Coins, oid : Nat]
    BY <2>2
  <2>4. Enter(c, "sign") /\ "sign" \in Busy \ {"wait"}
    BY <2>1 DEF Busy
  <2> HIDE DEF c
  <2>5. call' = c /\ pc' = "sign"
    BY <1>1, <2>4
  <2>6. CallInv'
    BY <2>3, <2>5 DEF CallInv, CallShape, Signed
  <2>7. QED
    BY <2>2, <2>3, <2>4, <2>6, EnterStep
<1>5. CASE GetMarketPrice
  <2>1. PICK coin \in Coins : Enter([op |-> "price", coin |-> coin], "price")
    BY <1>5 DEF GetMarketPrice
  <2> DEFINE c == [op |-> "price", coin |-> coin]
  <2>2. c.op = "price" /\ c \in [op : {"price"}, coin : Coins]
    OBVIOUS
  <2>3. Enter(c, "price") /\ "price" \in Busy \ {"wait"}
    BY <2>1 DEF Busy
  <2> HIDE DEF c
  <2>4. call' = c /\ pc' = "price"
    BY <1>1, <2>3
  <2>5. CallInv'
    BY <2>2, <2>4 DEF CallInv, CallShape
  <2>6. QED
    BY <2>2, <2>3, <2>5, EnterStep
<1>6. CASE CalculateQuantity
  <2>1. PICK coin \in Coins, amount \in Notionals :
          Enter([op |-> "quantity", coin |-> coin, amount |-> amount], "quantity")
    BY <1>6 DEF CalculateQuantity
  <2> DEFINE c == [op |-> "quantity", coin |-> coin, amount |-> amount]
  <2>2. c.op = "quantity" /\ c \in [op : {"quantity"}, coin : Coins, amount : Nat]
    BY PriceAssumption
  <2>3. Enter(c, "quantity") /\ "quantity" \in Busy \ {"wait"}
    BY <2>1 DEF Busy
  <2> HIDE DEF c
  <2>4. call' = c /\ pc' = "quantity"
    BY <1>1, <2>3
  <2>5. CallInv'
    BY <2>2, <2>4 DEF CallInv, CallShape
  <2>6. QED
    BY <2>2, <2>3, <2>5, EnterStep
<1>7. CASE GetAccount
  <2>1. PICK op \in AccountOps : Enter([op |-> op, coin |-> None], "account")
    BY <1>7 DEF GetAccount, AccountOps
  <2> DEFINE c == [op |-> op, coin |-> None]
  <2>2. c.op = op /\ c \in [op : AccountOps, coin : {None}]
    OBVIOUS
  <2>3. Enter(c, "account") /\ "account" \in Busy \ {"wait"}
    BY <2>1 DEF Busy
  <2> HIDE DEF c
  <2>4. call' = c /\ pc' = "account"
    BY <1>1, <2>3
  <2>5. CallInv'
    BY <2>2, <2>4 DEF CallInv, CallShape
  <2>6. op # "trade" /\ op # "cancel"
    BY DEF AccountOps
  <2>7. QED
    BY <2>2, <2>3, <2>5, <2>6, EnterStep
<1>8. QED
  BY <1>2, <1>3, <1>4, <1>5, <1>6, <1>7 DEF Calls

LEMMA Stutter ==
  ASSUME IInv, UNCHANGED vars
  PROVE  IInv'
<1>1. UNCHANGED <<callVars, quoted, posts, told, price, moves>> /\ answer' = answer
      /\ flight' = flight /\ orders' = orders
  BY DEF vars, callVars
<1>2. Kept /\ answer \in AnswerType
  BY <1>1 DEF Kept, IInv, TypeOK, AnswerType
<1>3. QED
  BY <1>1, <1>2, WorldStep DEF AnswerType

LEMMA Inductive == IInv /\ [Next]_vars => IInv'
BY PriceSteps, QuantitySteps, FailSteps, AccountSteps, AnswerStep, CallSteps, PostStep,
   CreationStep, ExecuteStep, NetworkStep, MoveStep, Stutter DEF Next, Step, Exchange

LEMMA TraderInductive == Spec => []IInv
BY Beginning, Inductive, PTL DEF Spec

-----------------------------------------------------------------------------
(* What follows. *)

\* Every state of the trader is well typed.
THEOREM TraderTypes == Spec => []TypeOK
<1>1. IInv => TypeOK
  BY DEF IInv
<1>2. QED
  BY <1>1, TraderInductive, PTL

\* A call makes one order at most, even after it failed, and none if it said
\* that its coin is not available.
THEOREM AtMostOnce == Spec => []OneOrderAtMost
<1>1. IInv => OneOrderAtMost
  <2> SUFFICES ASSUME IInv
               PROVE  OneOrderAtMost
    OBVIOUS
  <2>1. \A o \in DOMAIN orders : orders[o].r \in Live
    BY DEF Live, Made
  <2>2. OnePerCall
    BY <2>1 DEF IInv, NumberInv, OnePerCall
  <2>3. UnavailableIsSafe
    BY DEF IInv, NumberInv, UnavailableIsSafe, Returned, Live
  <2>4. QED
    BY <2>2, <2>3 DEF OneOrderAtMost
<1>2. QED
  BY <1>1, TraderInductive, PTL

\* An order id that a call hands out is that of its own order.
THEOREM OwnIds == Spec => []ReportedIsOwn
<1>1. IInv => ReportedIsOwn
  BY DEF IInv
<1>2. QED
  BY <1>1, TraderInductive, PTL

\* However prices move between the two queries, the limit and the size of a
\* trade come from prices its coin had during the call.
THEOREM FairlyPriced == Spec => []PricedDuringCall
<1>1. IInv => PricedDuringCall
  BY DEF IInv, PriceInv
<1>2. QED
  BY <1>1, TraderInductive, PTL

\* A cancel that succeeded leaves its order at rest no more.
THEOREM CancelsSettle == Spec => []CancelSettles
<1>1. IInv => CancelSettles
  BY DEF IInv
<1>2. QED
  BY <1>1, TraderInductive, PTL

\* For buffers and answers of any length, and wherever creation fails.
THEOREM HandsOutWhole == Spec => []HandedWhole
<1>1. IInv => HandedWhole
  BY DEF IInv, HeapInv, TypeOK, HandedWhole, CreatedWhole
<1>2. QED
  BY <1>1, TraderInductive, PTL

-----------------------------------------------------------------------------
(* Trader implements OrderDesk. *)

\* Nothing of the desk is seen to change.
Still == posts' = posts /\ Book' = Book /\ Shown' = Shown

LEMMA DeskInit == Init => Desk!Init
<1> SUFFICES ASSUME Init
             PROVE  Desk!Init
  OBVIOUS
<1>1. posts = 0 /\ orders = <<>> /\ told = {}
  BY DEF Init
<1>2. Book = <<>> /\ Shown = {}
  BY <1>1 DEF Book, Shown
<1>3. QED
  BY <1>1, <1>2 DEF Desk!Init

\* An order that is accepted shows as one more of its request, which had none.
LEMMA DeskPlaces ==
  ASSUME IInv, Execute
  PROVE  Still \/ \E n \in 1 .. posts : Desk!Place(n)
<1>1. PICK r \in flight : flight' = flight \ {r} /\ (Refuse(r) \/ Accept(r) \/ Cancel(r))
  BY DEF Execute
<1>2. posts' = posts /\ told' = told
  BY DEF Execute
<1>3. Shown' = Shown
  BY <1>2 DEF Shown
<1>4. orders \in Seq(Orders) /\ Len(orders) \in Nat /\ DOMAIN orders = 1 .. Len(orders)
  BY LenProperties DEF IInv, TypeOK
<1>5. CASE Refuse(r)
  BY <1>2, <1>3, <1>5 DEF Refuse, Still, Book
<1>6. CASE Cancel(r)
  <2> DEFINE Hit(o) == Oid(o) = r.oid /\ orders[o].r.asset = r.asset /\ orders[o].status = "resting"
  <2>1. orders' = [o \in DOMAIN orders |->
                     IF Hit(o) THEN [r |-> orders[o].r, status |-> "cancelled"] ELSE orders[o]]
    BY <1>6 DEF Cancel
  <2>2. DOMAIN orders' = DOMAIN orders
    BY <2>1
  <2>3. \A o \in DOMAIN orders : orders'[o].r = orders[o].r
    BY <2>1
  <2>4. Book' = Book
    BY <2>2, <2>3 DEF Book
  <2>5. QED
    BY <1>2, <1>3, <2>4 DEF Still
<1>7. CASE Accept(r)
  <2>1. PICK status \in {"resting", "filled"} :
          orders' = Append(orders, [r |-> r, status |-> status])
    BY <1>7 DEF Accept
  <2> DEFINE new == [r |-> r, status |-> status]
  <2>2. new \in Orders /\ new.r = r
    BY <1>1 DEF Orders, IInv, TypeOK
  <2>3. /\ DOMAIN orders' = 1 .. Len(orders) + 1 /\ orders'[Len(orders) + 1] = new
        /\ \A o \in 1 .. Len(orders) : orders'[o] = orders[o]
    BY <1>4, <2>1, <2>2, AppendProperties, LenProperties
  <2> HIDE DEF new
  <2>4. Book' = [o \in 1 .. Len(orders) + 1 |-> IF o = Len(orders) + 1 THEN r.n ELSE Book[o]]
    BY <1>4, <2>2, <2>3 DEF Book
  <2>5. Book \in Seq({orders[o].r.n : o \in DOMAIN orders} \cup {r.n}) /\ Len(Book) = Len(orders)
    BY <1>4 DEF Book
  <2>6. Append(Book, r.n) = [o \in 1 .. Len(orders) + 1 |-> IF o = Len(orders) + 1 THEN r.n ELSE Book[o]]
    BY <1>4, <2>5
  <2>7. \A o \in DOMAIN orders : orders[o].r \in Live /\ orders[o].r # r
    BY <1>1 DEF Live, Made, IInv, NumberInv
  <2>8. \A o \in DOMAIN Book : Book[o] # r.n
    BY <1>1, <2>7 DEF Book, Live, IInv, NumberInv
  <2>9. r.n \in 1 .. posts
    BY <1>1 DEF IInv, NumberInv, Live, TypeOK, Requests
  <2>10. Desk!Place(r.n)
    BY <1>2, <1>3, <2>4, <2>6, <2>8 DEF Desk!Place
  <2>11. QED
    BY <2>9, <2>10
<1>8. QED
  BY <1>1, <1>5, <1>6, <1>7

\* Ids below the limit of the desk are printed as they are.
LEMMA AsTheyAre ==
  ASSUME NEW o \in Nat, o < ShownAsIs
  PROVE  Oid(o) <= IntMax
<1>1. Gap \in Nat /\ Gap > 0 /\ IntMax \in Nat
  BY GapAssumption, BoundAssumption
<1> DEFINE q == IntMax \div Gap
<1>2. q \in Nat /\ Gap * q <= IntMax
  BY <1>1
<1>3. o <= q
  BY <1>2 DEF ShownAsIs
<1>4. Oid(o) <= Oid(q)
  BY <1>2, <1>3, OidGrows
<1>5. Oid(o) \in Nat /\ Oid(q) \in Nat /\ Oid(q) = Gap * q
  BY <1>2, OidGrows DEF Oid
<1> HIDE DEF q
<1>6. QED
  BY <1>1, <1>2, <1>4, <1>5

\* An id is told once, to the caller of its order.
LEMMA DeskTells ==
  ASSUME IInv, ReceivePlaced
  PROVE  Still \/ \E o \in DOMAIN Book : \E n \in {p[2] : p \in Shown'} : Desk!Tell(o, n)
<1>1. pc = "wait" /\ answer # None /\ posts' = posts /\ Book' = Book
  BY DEF ReceivePlaced, world, Book
<1>2. CASE ~Told
  BY <1>1, <1>2 DEF ReceivePlaced, Still, Shown
<1>3. CASE Told
  <2>1. told' = told \cup {<<answer.n, Printed(answer.oid)>>}
    BY <1>3 DEF ReceivePlaced
  <2>2. PICK o \in DOMAIN orders : answer.oid = Oid(o) /\ orders[o].r.n = posts
    BY <1>1, <1>3 DEF IInv, AnswerInv, Told
  <2>3. answer.n = posts
    BY <1>1 DEF IInv, AnswerInv
  <2>4. o \in Nat /\ Oid(o) \in Nat /\ IntMax \in Nat
    <3>1. orders \in Seq(Orders)
      BY DEF IInv, TypeOK
    <3>2. o \in Nat
      BY <3>1, LenProperties
    <3>3. QED
      BY <3>2, OidGrows, BoundAssumption
  <2> DEFINE n == Printed(answer.oid) \div Gap
             x == <<posts, Printed(answer.oid)>>
  <2>5. o < ShownAsIs => n = o
    <3>1. SUFFICES ASSUME o < ShownAsIs
                   PROVE  n = o
      OBVIOUS
    <3>2. Printed(answer.oid) = Oid(o)
      BY <2>2, <2>4, <3>1, AsTheyAre DEF Printed
    <3>3. QED
      BY <2>4, <3>2, OidBack
  <2>6. Shown' = Shown \cup {<<posts, n>>}
    <3>1. Shown' = {<<t[1], t[2] \div Gap>> : t \in told \cup {x}}
      BY <2>1, <2>3 DEF Shown
    <3>2. @ = {<<t[1], t[2] \div Gap>> : t \in told} \cup {<<x[1], x[2] \div Gap>>}
      <4> HIDE DEF x
      <4> QED
        BY Zenon
    <3>3. x[1] = posts /\ x[2] \div Gap = n
      OBVIOUS
    <3>4. {<<t[1], t[2] \div Gap>> : t \in told} = Shown
      BY DEF Shown
    <3> HIDE DEF x, n
    <3>5. QED
      BY <3>1, <3>2, <3>3, <3>4
  <2>7. o \in DOMAIN Book /\ Book[o] = posts
    BY <2>2 DEF Book
  <2>8. \A t \in told : t[1] # posts
    BY <1>1 DEF IInv, WaitInv, TypeOK
  <2>9. \A p \in Shown : p[1] # Book[o]
    BY <2>7, <2>8 DEF Shown
  <2> HIDE DEF n, x
  <2>10. Desk!Tell(o, n)
    BY <1>1, <2>5, <2>6, <2>7, <2>9 DEF Desk!Tell
  <2>11. n \in {p[2] : p \in Shown'}
    <3>1. <<posts, n>> \in Shown' /\ <<posts, n>>[2] = n
      BY <2>6
    <3> QED
      BY <3>1
  <2>12. QED
    BY <2>7, <2>10, <2>11
<1>4. QED
  BY <1>2, <1>3

\* Every step is a step of the desk or shows nothing there.
LEMMA DeskStep ==
  ASSUME IInv, [Next]_vars
  PROVE  [Desk!Next]_(Desk!deskVars)
<1>1. UNCHANGED <<posts, told, orders>> => Still
  BY DEF Still, Book, Shown
<1>2. CASE Post
  <2>1. posts' = posts + 1 /\ UNCHANGED <<told, orders>>
    BY <1>2 DEF Post, world
  <2>2. Desk!Send
    BY <2>1 DEF Desk!Send, Book, Shown
  <2>3. QED
    BY <2>2 DEF Desk!Next
<1>3. CASE Execute
  BY <1>3, DeskPlaces DEF Desk!Next, Desk!deskVars, Still
<1>4. CASE ReceivePlaced
  BY <1>4, DeskTells DEF Desk!Next, Desk!deskVars, Still
<1>5. CASE Fill
  <2>1. PICK o \in DOMAIN orders :
          orders' = [orders EXCEPT ![o] = [r |-> orders[o].r, status |-> "filled"]]
    BY <1>5 DEF Fill
  <2>2. Book' = Book
    BY <2>1 DEF Book
  <2>3. QED
    BY <1>5, <2>2 DEF Fill, Shown, Desk!deskVars
<1>6. CASE Calls \/ AllocTrader \/ Move \/ Lose
  <2>1. UNCHANGED <<posts, told, orders>>
    BY <1>6 DEF Calls, ExecuteTrade, PlaceLimitOrder, CancelOrder, GetMarketPrice,
                CalculateQuantity, GetAccount, Enter, AllocTrader, Move, Lose, world
  <2>2. QED
    BY <1>1, <2>1 DEF Still, Desk!deskVars
<1>7. CASE \/ PriceFails \/ PriceRead \/ QuantityFallback \/ QuantityRead
           \/ SignFails \/ PostFails \/ ReceiveCancelled \/ AccountFails \/ AccountRead
           \/ AllocData \/ CreateFails \/ CreateHttp
  <2>1. UNCHANGED <<posts, told, orders>>
    BY <1>7 DEF PriceFails, PriceRead, QuantityFallback, QuantityRead, SignFails, PostFails,
                ReceiveCancelled, AccountFails, AccountRead, AllocData, CreateFails, CreateHttp,
                world
  <2>2. QED
    BY <1>1, <2>1 DEF Still, Desk!deskVars
<1>8. CASE UNCHANGED vars
  BY <1>1, <1>8 DEF vars, Still, Desk!deskVars
<1>9. QED
  BY <1>2, <1>3, <1>4, <1>5, <1>6, <1>7, <1>8 DEF Next, Step, Exchange

\* Whatever the network and the exchange do, and however late, the caller sees an
\* OrderDesk, whose ids reach it as they are up to 2^31 - 1.
THEOREM TraderImplementsDesk == Spec => ImplementsDesk
<1>1. Init => Desk!Init
  BY DeskInit
<1>2. IInv /\ [Next]_vars => [Desk!Next]_(Desk!deskVars)
  BY DeskStep
<1>3. QED
  BY <1>1, <1>2, TraderInductive, PTL DEF Spec, ImplementsDesk, Desk!Spec

=============================================================================
