------------------------------ MODULE WsClient ------------------------------
(***************************************************************************)
(* The WebSocket client of src/src/ws_client.c: one heap object, a mutex,  *)
(* two copies of each state flag (internal->x, read by the background      *)
(* thread and by send, and client->x, read by is_connected and by destroy) *)
(* and a background thread that polls them without the mutex.              *)
(*                                                                         *)
(* One action is one access to shared memory, or one pthread call: the     *)
(* flags are stored one by one, and every reader that does not take the    *)
(* mutex can run between two stores.                                       *)
(***************************************************************************)
EXTENDS Naturals

CONSTANTS
  Callers,     \* application threads that share one client
  Workers,     \* threads the process can still create (each slot used once)
  Contexts,    \* user_data pointers the application registers
  Calls,       \* library functions the application uses
  Polite,      \* TRUE: connect is called only after is_connected said no
  None         \* NULL

AllCalls == {"connect", "disconnect", "setConnect", "setOther", "destroy"}

ASSUME CallersAssumption == None \notin Callers
ASSUME WorkersAssumption == None \notin Workers
ASSUME ContextsAssumption == None \notin Contexts
ASSUME CallsAssumption == Calls \subseteq AllCalls
ASSUME PoliteAssumption == Polite \in BOOLEAN

VARIABLES
  object,      \* lifetime of the allocation: none, live, closing, gone
  flag,        \* the four booleans
  lock,        \* owner of internal->mutex
  handle,      \* internal->thread
  worker,      \* program counter of every background thread
  stale,       \* background threads that have read the freed object
  pc,          \* program counter of every application thread
  stores,      \* flag stores the current critical section has done
  arg,         \* user_data argument of the running set_*_callback
  onConnect,   \* context registered together with client->on_connect
  userData     \* client->user_data

lifeVars == <<object, stale>>
callbackVars == <<arg, onConnect, userData>>
vars == <<object, flag, lock, handle, worker, stale, pc, stores,
          arg, onConnect, userData>>

Fields == {"iConnected", "cConnected", "iRunning", "cRunning"}

\* Mutant: connect sets internal->connected twice instead of both copies.
ConnectOrderTypo == <<"iConnected", "iConnected", "iRunning", "cRunning">>

\* The order of the stores in connect (and in its rollback), and in disconnect.
ConnectOrder == <<"iConnected", "cConnected", "iRunning", "cRunning">>
DisconnectOrder == <<"iRunning", "cRunning", "iConnected", "cConnected">>

WorkerPcs == {"unborn", "start", "test", "branch", "ping", "backoff", "exited"}

CriticalPcs == {"raise", "lower", "drop", "connected", "unlock",
                "storeConnect", "storeOther", "storeData"}
CallerPcs == CriticalPcs \cup
  {"idle", "connect", "disconnect", "setConnect", "setOther", "notify",
   "invoke", "destroy", "joincheck", "join", "free"}

Alive(w) == worker[w] \notin {"unborn", "exited"}

TypeOK ==
  /\ object \in {"none", "live", "closing", "gone"}
  /\ flag \in [Fields -> BOOLEAN]
  /\ lock \in Callers \cup {None}
  /\ handle \in Workers \cup {None}
  /\ worker \in [Workers -> WorkerPcs]
  /\ stale \subseteq Workers
  /\ pc \in [Callers -> CallerPcs]
  /\ stores \in 0..4
  /\ arg \in [Callers -> Contexts \cup {None}]
  /\ onConnect \in Contexts \cup {None}
  /\ userData \in Contexts \cup {None}

Init ==
  /\ object = "none"
  /\ flag = [f \in Fields |-> FALSE]
  /\ lock = None
  /\ handle = None
  /\ worker = [w \in Workers |-> "unborn"]
  /\ stale = {}
  /\ pc = [t \in Callers |-> "idle"]
  /\ stores = 0
  /\ arg = [t \in Callers |-> None]
  /\ onConnect = None
  /\ userData = None

-----------------------------------------------------------------------------
(* Calls of the application. *)

\* hl_ws_client_create; when an allocation or the mutex fails it undoes what
\* it did and returns NULL, which leaves object = "none".
Create ==
  /\ object = "none"
  /\ object' = "live"
  /\ UNCHANGED <<flag, lock, handle, worker, stale, pc, stores, callbackVars>>

Call(t, name, at) ==
  /\ object = "live"
  /\ name \in Calls
  /\ pc[t] = "idle"
  /\ pc' = [pc EXCEPT ![t] = at]
  /\ UNCHANGED <<flag, lock, handle, worker, stale, stores,
                 onConnect, userData>>

\* A polite application asks hl_ws_client_is_connected first, which reads
\* client->connected without the mutex.
CallConnect(t) ==
  /\ Polite => ~flag["cConnected"]
  /\ Call(t, "connect", "connect")
  /\ UNCHANGED <<object, arg>>

CallDisconnect(t) ==
  /\ Call(t, "disconnect", "disconnect")
  /\ UNCHANGED <<object, arg>>

\* set_connect_callback, or one of the two setters whose callback nothing calls.
CallSet(t) ==
  /\ \/ Call(t, "setConnect", "setConnect")
     \/ Call(t, "setOther", "setOther")
  /\ \E c \in Contexts \cup {None} : arg' = [arg EXCEPT ![t] = c]
  /\ UNCHANGED object

\* The application destroys the client once, while no thread is inside a call.
CallDestroy(t) ==
  /\ \A u \in Callers : pc[u] = "idle"
  /\ Call(t, "destroy", "destroy")
  /\ object' = "closing"
  /\ UNCHANGED arg

-----------------------------------------------------------------------------
(* The mutex and the flag stores. *)

\* pthread_mutex_lock at the head of connect, disconnect and the setters.
Acquire(t, from, to) ==
  /\ pc[t] = from
  /\ lock = None
  /\ lock' = t
  /\ pc' = [pc EXCEPT ![t] = to]
  /\ stores' = 0
  /\ UNCHANGED <<flag, handle, worker, lifeVars, callbackVars>>

Lock(t) ==
  \/ Acquire(t, "connect", "raise")
  \/ Acquire(t, "disconnect", "drop")
  \/ Acquire(t, "setConnect", "storeConnect")
  \/ Acquire(t, "setOther", "storeOther")

\* One more store of value into the flags, in the given order.
Store(t, at, order, value) ==
  /\ pc[t] = at
  /\ stores < 4
  /\ flag' = [flag EXCEPT ![order[stores + 1]] = value]
  /\ stores' = stores + 1
  /\ UNCHANGED <<lock, handle, worker, pc, lifeVars, callbackVars>>

\* connect: the four flags become true before the thread exists.
Raise(t) == Store(t, "raise", ConnectOrder, TRUE)

\* connect: the rollback when pthread_create failed.
Lower(t) == Store(t, "lower", ConnectOrder, FALSE)

Drop(t) == Store(t, "drop", DisconnectOrder, FALSE)

\* pthread_create overwrites internal->thread, whatever it held.
Spawn(t) ==
  /\ pc[t] = "raise"
  /\ stores = 4
  /\ \E w \in Workers :
       /\ worker[w] = "unborn"
       /\ worker' = [worker EXCEPT ![w] = "start"]
       /\ handle' = w
  /\ pc' = [pc EXCEPT ![t] = "connected"]
  /\ UNCHANGED <<flag, lock, stores, lifeVars, callbackVars>>

\* Mutant: the failure path leaves the handle undefined, as pthread_create may.
SpawnFailsNoHandle(t) ==
  /\ pc[t] = "raise"
  /\ stores = 4
  /\ pc' = [pc EXCEPT ![t] = "lower"]
  /\ stores' = 0
  /\ handle' = "undefined"
  /\ UNCHANGED <<flag, lock, worker, lifeVars, callbackVars>>

\* Mutant: the failure path forgets the rollback.
SpawnFailsNoRollback(t) ==
  /\ pc[t] = "raise"
  /\ stores = 4
  /\ pc' = [pc EXCEPT ![t] = "unlock"]
  /\ stores' = 0
  /\ UNCHANGED <<flag, lock, handle, worker, lifeVars, callbackVars>>

SpawnFails(t) ==
  /\ pc[t] = "raise"
  /\ stores = 4
  /\ pc' = [pc EXCEPT ![t] = "lower"]
  /\ stores' = 0
  /\ UNCHANGED <<flag, lock, handle, worker, lifeVars, callbackVars>>

Release(t, from, to) ==
  /\ pc[t] = from
  /\ lock' = None
  /\ pc' = [pc EXCEPT ![t] = to]
  /\ UNCHANGED <<flag, handle, worker, stores, lifeVars, callbackVars>>

\* Mutant: disconnect unlocks before its last store.
UnlockEarly(t) ==
  \/ Release(t, "connected", "notify")
  \/ stores = 4 /\ Release(t, "lower", "idle")
  \/ stores >= 3 /\ Release(t, "drop", "idle")
  \/ Release(t, "unlock", "idle")

Unlock(t) ==
  \/ Release(t, "connected", "notify")
  \/ stores = 4 /\ Release(t, "lower", "idle")
  \/ stores = 4 /\ Release(t, "drop", "idle")
  \/ Release(t, "unlock", "idle")

-----------------------------------------------------------------------------
(* Callbacks: three callback fields share the single field user_data. *)

\* The setter stores the callback pointer, ...
StoreCallback(t) ==
  /\ \/ pc[t] = "storeConnect" /\ onConnect' = arg[t]
     \/ pc[t] = "storeOther" /\ UNCHANGED onConnect
  /\ pc' = [pc EXCEPT ![t] = "storeData"]
  /\ UNCHANGED <<flag, lock, handle, worker, stores, lifeVars,
                 arg, userData>>

\* ... then the context.
StoreUserData(t) ==
  /\ pc[t] = "storeData"
  /\ userData' = arg[t]
  /\ arg' = [arg EXCEPT ![t] = None]
  /\ pc' = [pc EXCEPT ![t] = "unlock"]
  /\ UNCHANGED <<flag, lock, handle, worker, stores, lifeVars,
                 onConnect>>

\* connect, after it released the mutex: is there a connect callback?
Notify(t) ==
  /\ pc[t] = "notify"
  /\ pc' = [pc EXCEPT ![t] = IF onConnect = None THEN "idle" ELSE "invoke"]
  /\ UNCHANGED <<flag, lock, handle, worker, stores, lifeVars, callbackVars>>

\* client->on_connect(client->user_data): both fields are loaded again, without
\* the mutex, and the application's function changes nothing of the client.
Invoke(t) ==
  /\ pc[t] = "invoke"
  /\ pc' = [pc EXCEPT ![t] = "idle"]
  /\ UNCHANGED <<flag, lock, handle, worker, stores, lifeVars, callbackVars>>

-----------------------------------------------------------------------------
(* hl_ws_client_destroy, which takes no lock. *)

\* Mutant: destroy does not tell the thread to stop.
StopWorkerNever(t) ==
  /\ pc[t] = "destroy"
  /\ pc' = [pc EXCEPT ![t] = "joincheck"]
  /\ UNCHANGED <<flag, lock, handle, worker, stores, lifeVars, callbackVars>>

StopWorker(t) ==
  /\ pc[t] = "destroy"
  /\ flag' = [flag EXCEPT !["iRunning"] = FALSE]
  /\ pc' = [pc EXCEPT ![t] = "joincheck"]
  /\ UNCHANGED <<lock, handle, worker, stores, lifeVars, callbackVars>>

\* Mutant: destroy does not join.
JoinCheckNever(t) ==
  /\ pc[t] = "joincheck"
  /\ pc' = [pc EXCEPT ![t] = "free"]
  /\ UNCHANGED <<flag, lock, handle, worker, stores, lifeVars, callbackVars>>

\* The thread is joined only if client->running still holds.
JoinCheck(t) ==
  /\ pc[t] = "joincheck"
  /\ pc' = [pc EXCEPT ![t] = IF flag["cRunning"] THEN "join" ELSE "free"]
  /\ UNCHANGED <<flag, lock, handle, worker, stores, lifeVars, callbackVars>>

Join(t) ==
  /\ pc[t] = "join"
  /\ worker[handle] = "exited"
  /\ pc' = [pc EXCEPT ![t] = "free"]
  /\ UNCHANGED <<flag, lock, handle, worker, stores, lifeVars, callbackVars>>

Free(t) ==
  /\ pc[t] = "free"
  /\ object' = "gone"
  /\ pc' = [pc EXCEPT ![t] = "idle"]
  /\ UNCHANGED <<flag, lock, handle, worker, stale, stores, callbackVars>>

-----------------------------------------------------------------------------
(* ws_client_thread. *)

\* What a load of a flag can return: anything once the object is freed.
Load(f) == IF object = "gone" THEN BOOLEAN ELSE {flag[f]}

WorkerReads(w) ==
  /\ stale' = IF object = "gone" THEN stale \cup {w} ELSE stale
  /\ UNCHANGED <<object, flag, lock, handle, pc, stores, callbackVars>>

\* client->internal is loaded once, when the thread starts to run.
WorkerStart(w) ==
  /\ worker[w] = "start"
  /\ worker' = [worker EXCEPT ![w] = "test"]
  /\ WorkerReads(w)

WorkerTest(w) ==
  /\ worker[w] = "test"
  /\ \E running \in Load("iRunning") :
       worker' = [worker EXCEPT ![w] = IF running THEN "branch" ELSE "exited"]
  /\ WorkerReads(w)

WorkerBranch(w) ==
  /\ worker[w] = "branch"
  /\ \E connected \in Load("iConnected") :
       worker' = [worker EXCEPT ![w] = IF connected THEN "ping" ELSE "backoff"]
  /\ WorkerReads(w)

\* Mutant: the loop condition is tested once only.
WorkerWakeUntested(w) ==
  /\ worker[w] \in {"ping", "backoff"}
  /\ worker' = [worker EXCEPT ![w] = "branch"]
  /\ UNCHANGED <<object, flag, lock, handle, stale, pc, stores, callbackVars>>

\* sleep() returns; neither branch does anything else.
WorkerWake(w) ==
  /\ worker[w] \in {"ping", "backoff"}
  /\ worker' = [worker EXCEPT ![w] = "test"]
  /\ UNCHANGED <<object, flag, lock, handle, stale, pc, stores, callbackVars>>

WorkerStep(w) ==
  WorkerStart(w) \/ WorkerTest(w) \/ WorkerBranch(w) \/ WorkerWake(w)

-----------------------------------------------------------------------------

StartCall(t) ==
  CallConnect(t) \/ CallDisconnect(t) \/ CallSet(t) \/ CallDestroy(t)

\* The steps of a call that has begun.
CallStep(t) ==
  \/ Lock(t) \/ Raise(t) \/ Lower(t) \/ Drop(t)
  \/ Spawn(t) \/ SpawnFails(t) \/ Unlock(t)
  \/ StoreCallback(t) \/ StoreUserData(t) \/ Notify(t) \/ Invoke(t)
  \/ StopWorker(t) \/ JoinCheck(t) \/ Join(t) \/ Free(t)

\* The client is gone and every thread has ended.
Finished ==
  /\ object = "gone"
  /\ \A w \in Workers : ~Alive(w)
  /\ UNCHANGED vars

Next ==
  \/ Create
  \/ \E t \in Callers : StartCall(t) \/ CallStep(t)
  \/ \E w \in Workers : WorkerStep(w)
  \/ Finished

Spec == Init /\ [][Next]_vars

\* The kernel keeps running threads, sleep() returns and a call makes progress
\* when it can; nothing obliges an application to make another call.
Fairness ==
  /\ \A t \in Callers : WF_vars(CallStep(t))
  /\ \A w \in Workers : WF_vars(WorkerStep(w))

FairSpec == Spec /\ Fairness

-----------------------------------------------------------------------------
(* Properties. *)

\* Nobody holds the mutex and nobody destroys the object.
AtRest == object = "live" /\ lock = None

\* The four flags may differ only inside a critical section: outside, the two
\* copies of connected and running and the two flags themselves all agree, so
\* that is_connected, send, destroy and the background thread see one state.
FlagsAgree ==
  AtRest => \A f, g \in Fields : flag[f] = flag[g]

\* A client that says it is running has a background thread that polls it, and
\* internal->thread names it: a rollback, a late disconnect or an old thread
\* never leaves a running client without its thread.
RunningHasWorker ==
  AtRest /\ flag["cRunning"] => handle \in Workers /\ Alive(handle)

\* destroy frees a running client only after the thread it names has ended, and
\* that thread never touches the freed object.
JoinBeforeFree ==
  object = "gone" /\ flag["cRunning"] =>
    /\ handle \in Workers
    /\ worker[handle] = "exited"
    /\ handle \notin stale

\* No background thread reads the object after destroy freed it. It holds for an
\* application that never disconnects; hl_ws_cleanup_client, which disconnects
\* and then destroys (websocket.c:143-144), breaks it.
NoStaleAccess == stale = {}

\* A client has at most one background thread.
SingleWorker ==
  \A v, w \in Workers : Alive(v) /\ Alive(w) => v = w

\* destroy returns: the thread it joins notices running = false and ends.
DestroyReturns ==
  \A t \in Callers : pc[t] = "destroy" ~> object = "gone"

\* If the client stays allocated and stopped, every background thread ends,
\* the ones whose handle was overwritten included.
StoppedWorkersExit ==
  <>[](object = "live" /\ ~flag["iRunning"])
    => <>[](\A w \in Workers : ~Alive(w))
=============================================================================
