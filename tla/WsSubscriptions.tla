-------------------------- MODULE WsSubscriptions --------------------------
(***************************************************************************)
(* The subscriptions of src/src/websocket.c on top of the WebSocket client *)
(* of WsClient: hl_ws_init_client and hl_ws_cleanup_client, the watch      *)
(* functions, which connect the client when needed and record the          *)
(* subscription in a growing array, and hl_unwatch.                        *)
(*                                                                         *)
(* The array has no mutex: the runs and the theorems are about one thread. *)
(* A watch function returns a pointer to the id inside the array, and the  *)
(* array moves when it grows: block numbers the allocation it is in, and a *)
(* pointer is the pair <<block, slot>>.                                    *)
(***************************************************************************)
EXTENDS WsClient

CONSTANTS
  Channels,       \* ticker, orderBook, candle, trades, ...
  UserChannels,   \* orderUpdates and userFills, which need a wallet address
  FirstCapacity,  \* 8 in the code
  MaxWatches      \* bound: subscriptions recorded

ASSUME ChannelsAssumption == UserChannels \subseteq Channels
ASSUME CapacityAssumption == FirstCapacity \in Nat \ {0}
ASSUME WatchesAssumption == MaxWatches \in Nat

VARIABLES
  extension,  \* client->ws_extension: none, live, gone
  step,       \* where every thread is in a function of websocket.c
  wanted,     \* channel of the watch function every thread is in
  refused,    \* whether its hl_ws_client_connect returned false
  place,      \* pointer to the slot it fills
  slots,      \* contents of the array
  count,      \* ws_ext->subscription_count
  capacity,   \* ws_ext->subscription_capacity
  block,      \* allocation of the array, 0 for NULL
  watches,    \* ids generated so far; numbers the subscriptions
  held,       \* what the application was returned
  unwatched,  \* subscriptions for which hl_unwatch returned true
  dangling    \* hl_unwatch was given an id inside an array that had moved

arrayVars == <<slots, count, capacity, block>>
appVars == <<held, unwatched>>
subsVars == <<extension, step, wanted, refused, place, arrayVars, watches,
              appVars, dangling>>
allVars == <<vars, subsVars>>

Ids == 0..MaxWatches
Slot == [id : Ids, channel : Channels \cup {None}, active : BOOLEAN]
Empty == [id |-> 0, channel |-> None, active |-> FALSE]
Places == Nat \X (0..MaxWatches)
Held == [id : Ids, channel : Channels, at : Places]

Steps == {"idle", "setMessage", "setError", "setConnect", "publish", "watch", "connecting",
          "subscribe", "add", "fill", "count", "disconnecting", "destroying"}

SubsTypeOK ==
  /\ TypeOK
  /\ extension \in {"none", "live", "gone"}
  /\ step \in [Callers -> Steps]
  /\ wanted \in [Callers -> Channels \cup {None}]
  /\ refused \subseteq Callers
  /\ place \in [Callers -> Places]
  /\ slots \in [1..MaxWatches -> Slot]
  /\ count \in 0..MaxWatches /\ capacity \in Nat /\ block \in Nat
  /\ count <= capacity
  /\ watches \in 0..MaxWatches
  /\ held \subseteq Held
  /\ unwatched \subseteq Ids
  /\ dangling \in BOOLEAN

SubsInit ==
  /\ Init
  /\ extension = "none"
  /\ step = [t \in Callers |-> "idle"]
  /\ wanted = [t \in Callers |-> None]
  /\ refused = {}
  /\ place = [t \in Callers |-> <<0, 0>>]
  /\ slots = [i \in 1..MaxWatches |-> Empty]
  /\ count = 0 /\ capacity = 0 /\ block = 0
  /\ watches = 0
  /\ held = {} /\ unwatched = {}
  /\ dangling = FALSE

Goto(t, from, to) ==
  /\ step[t] = from
  /\ step' = [step EXCEPT ![t] = to]

-----------------------------------------------------------------------------
(* hl_ws_init_client. *)

\* hl_ws_client_create; when it or the allocation of the extension fails,
\* nothing is left.
InitClient(t) ==
  /\ Goto(t, "idle", "setMessage")
  /\ Create
  /\ UNCHANGED <<extension, wanted, refused, place, arrayVars, watches, appVars,
                 dangling>>

\* The three handlers are registered with one context, the client.
Register(t) ==
  /\ CallSet(t) /\ arg'[t] # None
  /\ \/ Goto(t, "setMessage", "setError") /\ pc'[t] = "setOther"
     \/ Goto(t, "setError", "setConnect") /\ pc'[t] = "setOther"
     \/ Goto(t, "setConnect", "publish") /\ pc'[t] = "setConnect"
  /\ UNCHANGED <<extension, wanted, refused, place, arrayVars, watches, appVars,
                 dangling>>

Publish(t) ==
  /\ pc[t] = "idle"
  /\ Goto(t, "publish", "idle")
  /\ extension' = "live"
  /\ UNCHANGED <<vars, wanted, refused, place, arrayVars, watches, appVars,
                 dangling>>

-----------------------------------------------------------------------------
(* The watch functions; hl_watch_tickers is a hl_watch_ticker of "*". *)

Watch(t, c) ==
  /\ extension = "live"
  /\ watches < MaxWatches
  /\ Goto(t, "idle", "watch")
  /\ wanted' = [wanted EXCEPT ![t] = c]
  /\ UNCHANGED <<vars, extension, refused, place, arrayVars, watches, appVars,
                 dangling>>

\* hl_ws_client_is_connected, without a lock.
AlreadyConnected(t) ==
  /\ flag["cConnected"]
  /\ Goto(t, "watch", "subscribe")
  /\ UNCHANGED <<vars, extension, wanted, refused, place, arrayVars, watches,
                 appVars, dangling>>

Connect(t) ==
  /\ ~flag["cConnected"]
  /\ Goto(t, "watch", "connecting")
  /\ CallConnect(t)
  /\ UNCHANGED <<extension, wanted, refused, place, arrayVars, watches,
                 appVars, dangling>>

\* Mutant: a connect that failed is repeated until it succeeds.
ConnectedRetries(t) ==
  /\ pc[t] = "idle"
  /\ Goto(t, "connecting", IF t \in refused THEN "watch" ELSE "subscribe")
  /\ refused' = refused \ {t}
  /\ UNCHANGED <<vars, extension, wanted, place, arrayVars, watches, appVars,
                 dangling>>

\* NULL is returned when hl_ws_client_connect returned false.
Connected(t) ==
  /\ pc[t] = "idle"
  /\ Goto(t, "connecting", IF t \in refused THEN "idle" ELSE "subscribe")
  /\ refused' = refused \ {t}
  /\ UNCHANGED <<vars, extension, wanted, place, arrayVars, watches, appVars,
                 dangling>>

\* No wallet address: NULL, on a client that stays connected.
NoAddress(t) ==
  /\ wanted[t] \in UserChannels
  /\ Goto(t, "subscribe", "idle")
  /\ UNCHANGED <<vars, extension, wanted, refused, place, arrayVars, watches,
                 appVars, dangling>>

\* hl_ws_client_send reads internal->connected, without a lock.
Subscribe(t) ==
  /\ Goto(t, "subscribe", IF flag["iConnected"] THEN "add" ELSE "idle")
  /\ UNCHANGED <<vars, extension, wanted, refused, place, arrayVars, watches,
                 appVars, dangling>>

-----------------------------------------------------------------------------
(* add_subscription. *)

NextCapacity == IF capacity = 0 THEN FirstCapacity ELSE 2 * capacity

\* There is room.
Fits(t) ==
  /\ count < capacity
  /\ Goto(t, "add", "fill")
  /\ place' = [place EXCEPT ![t] = <<block, count + 1>>]
  /\ UNCHANGED <<vars, extension, wanted, refused, arrayVars, watches, appVars,
                 dangling>>

\* Mutant: the place is taken before the array grows.
GrowLate(t) ==
  /\ count >= capacity
  /\ Goto(t, "add", "fill")
  /\ capacity' = NextCapacity
  /\ block' \in (IF block = 0 THEN {} ELSE {block}) \cup {block + 1}
  /\ place' = [place EXCEPT ![t] = <<block, count + 1>>]
  /\ UNCHANGED <<vars, extension, wanted, refused, slots, count, watches,
                 appVars, dangling>>

\* realloc extends the array in place or moves it; the first call allocates.
Grow(t) ==
  /\ count >= capacity
  /\ Goto(t, "add", "fill")
  /\ capacity' = NextCapacity
  /\ block' \in (IF block = 0 THEN {} ELSE {block}) \cup {block + 1}
  /\ place' = [place EXCEPT ![t] = <<block', count + 1>>]
  /\ UNCHANGED <<vars, extension, wanted, refused, slots, count, watches,
                 appVars, dangling>>

\* realloc fails: NULL, although the channel was subscribed.
GrowFails(t) ==
  /\ count >= capacity
  /\ Goto(t, "add", "idle")
  /\ UNCHANGED <<vars, extension, wanted, refused, place, arrayVars, watches,
                 appVars, dangling>>

\* The slot gets a new id.
Fill(t) ==
  /\ watches < MaxWatches
  /\ Goto(t, "fill", "count")
  /\ watches' = watches + 1
  /\ slots' = IF place[t][1] = block
              THEN [slots EXCEPT ![place[t][2]] =
                      [id |-> watches + 1, channel |-> wanted[t], active |-> TRUE]]
              ELSE slots
  /\ UNCHANGED <<vars, extension, wanted, refused, place, count, capacity,
                 block, appVars, dangling>>

\* The count follows and the pointer is returned.
Count(t) ==
  /\ Goto(t, "count", "idle")
  /\ count' = count + 1
  /\ held' = held \cup {[id |-> slots[place[t][2]].id, channel |-> wanted[t],
                         at |-> place[t]]}
  /\ UNCHANGED <<vars, extension, wanted, refused, place, slots, capacity,
                 block, watches, unwatched, dangling>>

-----------------------------------------------------------------------------
(* hl_unwatch. *)

\* Whether the pointer that was returned still leads into the array.
InPlace(h) == h.at[1] = block

\* The characters hl_unwatch reads: of a copy, or where the pointer leads, which
\* is freed memory once the array has moved.
IdOf(h, copied) ==
  IF copied THEN {h.id}
  ELSE IF InPlace(h) THEN {slots[h.at[2]].id} ELSE Ids

\* The slots whose id is the one asked for.
Matches(h, id) == {i \in 1..count : slots[i].id = id}

Deactivated(s) == [id |-> s.id, channel |-> s.channel, active |-> FALSE]

\* The application passes a copy of the id or the pointer it was returned. The
\* first match is deactivated, whether it was active or not; that the unsubscribe
\* message may not be sent is ignored.
Unwatch(t, h, copied) ==
  /\ extension = "live"
  /\ step[t] = "idle"
  /\ \E id \in IdOf(h, copied) :
       \/ /\ Matches(h, id) = {}
          /\ UNCHANGED <<slots, unwatched>>
       \/ \E i \in Matches(h, id) :
            /\ \A k \in Matches(h, id) : i <= k
            /\ slots' = [slots EXCEPT ![i] = Deactivated(slots[i])]
            /\ unwatched' = unwatched \cup {h.id}
  /\ dangling' = (dangling \/ ~(copied \/ InPlace(h)))
  /\ UNCHANGED <<vars, extension, step, wanted, refused, place, count, capacity,
                 block, watches, held>>

-----------------------------------------------------------------------------
(* hl_ws_cleanup_client: disconnect, destroy, free the array. *)

\* The application cleans up once no thread is inside a call.
Cleanup(t) ==
  /\ extension = "live"
  /\ \A u \in Callers : step[u] = "idle"
  /\ Goto(t, "idle", "disconnecting")
  /\ CallDisconnect(t)
  /\ UNCHANGED <<extension, wanted, refused, place, arrayVars, watches, appVars,
                 dangling>>

Destroy(t) ==
  /\ Goto(t, "disconnecting", "destroying")
  /\ CallDestroy(t)
  /\ UNCHANGED <<extension, wanted, refused, place, arrayVars, watches, appVars,
                 dangling>>

Discard(t) ==
  /\ pc[t] = "idle"
  /\ Goto(t, "destroying", "idle")
  /\ extension' = "gone"
  /\ slots' = [i \in 1..MaxWatches |-> Empty]
  /\ count' = 0 /\ capacity' = 0 /\ block' = 0
  /\ UNCHANGED <<vars, wanted, refused, place, watches, appVars, dangling>>

-----------------------------------------------------------------------------

\* The steps of hl_ws_client_connect, disconnect and destroy; connect returns
\* false when it has rolled its flags back.
ClientStep(t) ==
  /\ CallStep(t)
  /\ refused' = IF pc[t] = "lower" /\ pc'[t] = "idle" THEN refused \cup {t}
                ELSE refused
  /\ UNCHANGED <<extension, step, wanted, place, arrayVars, watches, appVars,
                 dangling>>

Begin(t) ==
  \/ InitClient(t)
  \/ \E c \in Channels : Watch(t, c)
  \/ \E h \in held, copied \in BOOLEAN : Unwatch(t, h, copied)
  \/ Cleanup(t)

SubsStep(t) ==
  \/ Register(t) \/ Publish(t)
  \/ AlreadyConnected(t) \/ Connect(t) \/ Connected(t)
  \/ NoAddress(t) \/ Subscribe(t)
  \/ Fits(t) \/ Grow(t) \/ GrowFails(t) \/ Fill(t) \/ Count(t)
  \/ Destroy(t) \/ Discard(t)
  \/ ClientStep(t)

Background(w) == WorkerStep(w) /\ UNCHANGED subsVars

SubsFinished == Finished /\ UNCHANGED subsVars

SubsNext ==
  \/ \E t \in Callers : Begin(t) \/ SubsStep(t)
  \/ \E w \in Workers : Background(w)
  \/ SubsFinished

SubsSpec == SubsInit /\ [][SubsNext]_allVars

\* A call that has begun goes on, and so do the background threads.
SubsFairSpec ==
  /\ SubsSpec
  /\ \A t \in Callers : WF_allVars(SubsStep(t))
  /\ \A w \in Workers : WF_allVars(Background(w))

-----------------------------------------------------------------------------
(* Properties. *)

NoCall == extension = "live" /\ \A t \in Callers : step[t] = "idle"

\* An id leads hl_unwatch to the subscription it was returned for and to no
\* other, across every growth of the array, as a copy and, until the array moves,
\* in place; exactly the subscriptions unwatched are inactive, and none is
\* recorded whose id nobody was given. It ends when the application passes an id
\* in place after the array moved, which the code neither prevents nor notices.
IdFindsOwn ==
  NoCall /\ ~dangling =>
    /\ \A h \in held :
         \E i \in 1..count :
           /\ Matches(h, h.id) = {i}
           /\ InPlace(h) => h.at[2] = i
           /\ slots[i].channel = h.channel
           /\ slots[i].active <=> h.id \notin unwatched
    /\ \A i \in 1..count : \E h \in held : h.id = slots[i].id

\* A subscription is only active on a connected client whose background thread
\* lives: one whose connect failed or was rolled back has none.
ActiveMeansConnected ==
  NoCall /\ (\E i \in 1..count : slots[i].active)
    => /\ flag["cConnected"] /\ flag["iConnected"]
       /\ handle \in Workers /\ Alive(handle)

\* Every watch and every cleanup returns, whatever fails underneath.
CallsReturn == \A t \in Callers : step[t] # "idle" ~> step[t] = "idle"
=============================================================================
