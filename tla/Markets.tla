------------------------------ MODULE Markets -------------------------------
(***************************************************************************)
(* The list of markets: fetch_swap_markets, fetch_spot_markets and         *)
(* hl_fetch_markets of markets.c, the look-ups on their result, and the    *)
(* client of client_new.c that caches it.  A call is a sequence of steps   *)
(* of one thread; MarketData adds the calls that start by fetching the     *)
(* markets.                                                                *)
(*                                                                         *)
(* The exchange is external: it lists the swaps in a universe it only      *)
(* appends to, and the asset id of a swap is its position there.           *)
(***************************************************************************)
EXTENDS Integers, Sequences, FiniteSets

CONSTANTS
  Coins,      \* coins with a swap or a spot market
  Spots,      \* the spot markets, in the order of their universe
  Garbage,    \* ids that memory nobody has written to may hold
  MaxListed,  \* bound: swaps the exchange lists
  None        \* NULL, nobody

ASSUME SpotsAssumption ==
  Spots \in Seq([base : Coins, index : Nat \cup {None}])
ASSUME GarbageAssumption == Garbage \subseteq Nat
ASSUME ListedAssumption == MaxListed \in Nat
ASSUME NoneAssumption == None \notin Coins /\ None \notin Nat

VARIABLES
  listing,   \* the coins of the swaps' universe
  pc,        \* step of the running call; "none" without a client
  call,      \* what the application called
  err,       \* what the last call returned
  reply,     \* coins of the universe that is being read
  at,        \* loop index, from 1
  markets,   \* rows of the call's array of markets
  heap,      \* blocks the running call has allocated and not released
  leaked,    \* blocks the last call neither released nor handed over
  owned,     \* blocks of the client
  cache      \* client->markets, None when NULL

marketVars == <<listing, pc, call, err, reply, at, markets, heap, leaked, owned, cache>>

Errors == {"success", "params", "network", "api", "parse", "memory",
           "notfound", "signature", "auth"}

\* A symbol is a coin and the form of the rest: "C/USDC:USDC", "C/USDC" or "C".
Symbols == [base : Coins, type : {"swap", "spot", "plain"}]

\* ctx is the coin whose context the prices of the row were taken from.
Rows == [base : Coins, type : {"swap", "spot"}, id : Nat, ctx : Coins]

ASSUME RowsAssumption == None \notin Seq(Rows)

\* The calls that go on without markets when the fetch fails.
Shrugs == {"leverage", "margin"}

-----------------------------------------------------------------------------
(* Frame of a call. *)

Enter(c, step) ==
  /\ pc = "idle"
  /\ pc' = step
  /\ call' = c
  /\ reply' = <<>>
  /\ at' = 1
  /\ markets' = <<>>
  /\ leaked' = {}

\* The call returns e and hands the blocks in result over.
Return(e, released, result) ==
  /\ pc' = "idle"
  /\ err' = e
  /\ markets' = <<>>
  /\ heap' = {}
  /\ leaked' = (heap \ released) \ result

\* hl_markets_free of the call's array.
Array == {"array"}

\* What follows a successful fetch of the markets.
Then ==
  CASE call.op = "fetch" -> "hand"
    [] call.op = "load" -> "keep"
    [] call.op \in {"book", "candles"} -> "copy"
    [] call.op \in Shrugs -> "pick"
    [] call.op = "ticker" -> "ticker"

\* Either fetch failed: hl_fetch_markets frees what there is of the array.
FetchFails(e) ==
  /\ IF call.op \in Shrugs
     THEN /\ pc' = "pick"
          /\ markets' = <<>>
          /\ heap' = heap \ Array
          /\ UNCHANGED <<err, leaked>>
     ELSE Return(e, Array, {})
  /\ UNCHANGED <<listing, call, reply, at, owned, cache>>

-----------------------------------------------------------------------------
(* fetch_swap_markets and fetch_spot_markets. *)

FetchErrors == {"network", "api", "parse", "memory"}

SwapsFail ==
  /\ pc = "swapPost"
  /\ \E e \in FetchErrors : FetchFails(e)

\* The ticker asks for the swaps only.
AfterSwaps == IF call.op = "ticker" THEN "ticker" ELSE "spotPost"

SwapsAnswer ==
  /\ pc = "swapPost"
  /\ reply' = listing
  /\ at' = 1
  /\ IF listing = <<>>
     THEN /\ pc' = AfterSwaps
          /\ UNCHANGED heap
     ELSE /\ pc' = "swapRead"
          /\ heap' = heap \cup Array
  /\ UNCHANGED <<listing, call, err, markets, leaked, owned, cache>>

\* Mutant: the id is the slot the row is written to.
SwapRowBySlot ==
  [base |-> reply[at], type |-> "swap", id |-> Len(markets), ctx |-> reply[at]]

\* The id is the position in the universe, whatever was skipped before it.
SwapRow == [base |-> reply[at], type |-> "swap", id |-> at - 1, ctx |-> reply[at]]

ReadSwap ==
  /\ pc = "swapRead" /\ at \in DOMAIN reply
  /\ markets' = Append(markets, SwapRow)
  /\ at' = at + 1
  /\ UNCHANGED <<listing, pc, call, err, reply, heap, leaked, owned, cache>>

\* No context for the entry, or no name in it: the slot is used for the next.
SkipSwap ==
  /\ pc = "swapRead" /\ at \in DOMAIN reply
  /\ at' = at + 1
  /\ UNCHANGED <<listing, pc, call, err, reply, markets, heap, leaked, owned, cache>>

SwapsRead ==
  /\ pc = "swapRead" /\ at \notin DOMAIN reply
  /\ pc' = AfterSwaps
  /\ reply' = <<>>
  /\ at' = 1
  /\ UNCHANGED <<listing, call, err, markets, heap, leaked, owned, cache>>

SpotsFail ==
  /\ pc = "spotPost"
  /\ \E e \in FetchErrors : FetchFails(e)

SpotsAnswer ==
  /\ pc = "spotPost"
  /\ at' = 1
  /\ IF Spots = <<>>
     THEN /\ pc' = Then
          /\ UNCHANGED heap
     ELSE /\ pc' = "spotRead"
          /\ heap' = heap \cup Array
  /\ UNCHANGED <<listing, call, err, reply, markets, leaked, owned, cache>>

\* realloc does not clear the slots: without an index the id is what was there.
SpotRow(id) ==
  [base |-> Spots[at].base, type |-> "spot", id |-> id, ctx |-> Spots[at].base]

ReadSpot ==
  /\ pc = "spotRead" /\ at \in DOMAIN Spots
  /\ \E id \in IF Spots[at].index = None THEN Garbage ELSE {Spots[at].index} :
       markets' = Append(markets, SpotRow(id))
  /\ at' = at + 1
  /\ UNCHANGED <<listing, pc, call, err, reply, heap, leaked, owned, cache>>

SkipSpot ==
  /\ pc = "spotRead" /\ at \in DOMAIN Spots
  /\ at' = at + 1
  /\ UNCHANGED <<listing, pc, call, err, reply, markets, heap, leaked, owned, cache>>

SpotsRead ==
  /\ pc = "spotRead" /\ at \notin DOMAIN Spots
  /\ pc' = Then
  /\ at' = 1
  /\ UNCHANGED <<listing, call, err, reply, markets, heap, leaked, owned, cache>>

Fetching == \/ SwapsFail \/ SwapsAnswer \/ ReadSwap \/ SkipSwap \/ SwapsRead
            \/ SpotsFail \/ SpotsAnswer \/ ReadSpot \/ SkipSpot \/ SpotsRead

-----------------------------------------------------------------------------
(* Look-ups.  All of them return the first row that fits. *)

Least(S) == {i \in S : \A j \in S : i <= j}

\* hl_get_market and hl_client_get_market: {} stands for NULL.
hl_get_market(rows, s) ==
  {rows[i] : i \in Least({j \in DOMAIN rows : rows[j].base = s.base /\
                                              rows[j].type = s.type})}

hl_get_market_by_id(rows, id) ==
  {rows[i] : i \in Least({j \in DOMAIN rows : rows[j].id = id})}

-----------------------------------------------------------------------------
(* hl_fetch_markets called by the application, and the client. *)

FetchMarkets ==
  /\ Enter([op |-> "fetch"], "swapPost")
  /\ UNCHANGED <<listing, err, heap, owned, cache>>

\* hl_client_load_markets releases the cache before it asks for a new one.
LoadMarkets ==
  /\ Enter([op |-> "load"], "swapPost")
  /\ owned' = owned \ {"rows", "cache"}
  /\ cache' = None
  /\ UNCHANGED <<listing, err, heap>>

\* The array is handed to the application, which releases it.
Hand ==
  /\ pc = "hand"
  /\ pc' = "idle"
  /\ err' = "success"
  /\ heap' = {}
  /\ leaked' = heap \ Array
  /\ UNCHANGED <<listing, call, reply, at, markets, owned, cache>>

Keep ==
  /\ pc = "keep"
  /\ Return("success", {}, Array)
  /\ cache' = markets
  /\ owned' = owned \cup {"cache"} \cup (IF "array" \in heap THEN {"rows"} ELSE {})
  /\ UNCHANGED <<listing, call, reply, at>>

\* malloc of the cache failed: success all the same.
KeepFails ==
  /\ pc = "keep"
  /\ Return("success", {}, {})
  /\ UNCHANGED <<listing, call, reply, at, owned, cache>>

\* hl_client_new.
NewClient ==
  /\ pc = "none"
  /\ pc' = "idle"
  /\ owned' = owned \cup {"client", "http"}
  /\ UNCHANGED <<listing, call, err, reply, at, markets, heap, leaked, cache>>

\* hl_client_free: the http client, the cache and the client itself.
FreeClient ==
  /\ pc = "idle"
  /\ pc' = "none"
  /\ owned' = owned \ ({"http", "client"} \cup
                       (IF cache = None THEN {} ELSE {"rows", "cache"}))
  /\ cache' = None
  /\ call' = [op |-> "none"]
  /\ err' = "success"
  /\ markets' = <<>>
  /\ leaked' = {}
  /\ UNCHANGED <<listing, reply, at, heap>>

\* The exchange lists another coin (external).
List ==
  /\ Len(listing) < MaxListed
  /\ \E c \in Coins : /\ \A i \in DOMAIN listing : listing[i] # c
                      /\ listing' = Append(listing, c)
  /\ UNCHANGED <<pc, call, err, reply, at, markets, heap, leaked, owned, cache>>

MarketInit ==
  /\ listing = <<>>
  /\ pc = "none"
  /\ call = [op |-> "none"]
  /\ err = "success"
  /\ reply = <<>>
  /\ at = 1
  /\ markets = <<>>
  /\ heap = {}
  /\ leaked = {}
  /\ owned = {}
  /\ cache = None

MarketSteps == Fetching \/ Hand \/ Keep \/ KeepFails
MarketCalls == NewClient \/ FreeClient \/ FetchMarkets \/ LoadMarkets

-----------------------------------------------------------------------------
(* Properties. *)

CachedRows == IF cache = None THEN <<>> ELSE cache

Swaps(rows) == {rows[i] : i \in {j \in DOMAIN rows : rows[j].type = "swap"}}

\* A swap row names a coin, its asset id and its context consistently: the id
\* is the coin's position in the exchange's universe and the prices are those
\* of the coin, also when entries before it were unreadable and although the
\* cache may be older than the last listings (fetch_swap_markets).
RowsOwn ==
  \A r \in Swaps(markets) \cup Swaps(CachedRows) :
    /\ r.id + 1 \in DOMAIN listing
    /\ listing[r.id + 1] = r.base
    /\ r.ctx = r.base

\* The three look-ups agree on swaps: the id of a swap leads back to its row,
\* the symbol of a swap too, also when a spot market happens to have the same
\* id (hl_get_asset_id, hl_get_market, hl_get_market_by_id).
LookupsAgree ==
  \A rows \in {markets, CachedRows} : \A r \in Swaps(rows) :
    /\ hl_get_market_by_id(rows, r.id) = {r}
    /\ hl_get_market(rows, [base |-> r.base, type |-> "swap"]) = {r}

\* Whoever holds the client's pointers can release everything: a cache that is
\* there has its blocks, and after hl_client_free nothing of the client is left.
ClientOwned ==
  /\ owned \subseteq {"client", "http", "cache", "rows"}
  /\ "cache" \in owned <=> cache # None
  /\ "rows" \in owned => cache # None
  /\ cache \notin {None, <<>>} => "rows" \in owned
  /\ pc = "none" => owned = {}
=============================================================================
