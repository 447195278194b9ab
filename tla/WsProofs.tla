------------------------------ MODULE WsProofs ------------------------------
(***************************************************************************)
(* The safety properties of WsClient, for any number of application        *)
(* threads and background threads, any set of calls and contexts; and of   *)
(* WsSubscriptions: websocket.c uses the client of WsClient as its calls   *)
(* allow, and its subscriptions are safe when one thread uses them and     *)
(* copies the ids.                                                         *)
(***************************************************************************)
EXTENDS WsSubscriptions, TLAPS

-----------------------------------------------------------------------------
(* The client. *)

WritingPcs == {"raise", "lower", "drop"}
DestroyPcs == {"destroy", "joincheck", "join", "free"}

\* No critical section is half way through the flags.
Quiet == \A t \in Callers : pc[t] \notin WritingPcs

\* The mutex is held exactly by the thread inside a critical section.
LockInv == \A t \in Callers : pc[t] \in CriticalPcs <=> lock = t

\* Destruction excludes every other call.
DestroyInv ==
  /\ object # "live" => \A t \in Callers : pc[t] \in {"idle"} \cup DestroyPcs
  /\ \A t \in Callers : pc[t] \in DestroyPcs =>
       object = "closing" /\ \A u \in Callers \ {t} : pc[u] = "idle"

\* What the stores done so far have achieved.
StoresInv ==
  \A t \in Callers :
    /\ pc[t] = "raise" => \A i \in 1..stores : flag[ConnectOrder[i]]
    /\ pc[t] = "lower" => \A i \in 1..stores : ~flag[ConnectOrder[i]]
    /\ pc[t] = "drop" => \A i \in 1..stores : ~flag[DisconnectOrder[i]]

\* Between critical sections the flags agree, and running means there is a
\* thread.
QuietInv ==
  object \in {"none", "live"} /\ Quiet =>
    /\ \A f, g \in Fields : flag[f] = flag[g]
    /\ flag["cRunning"] => handle \in Workers /\ Alive(handle)

\* How far destroy has got.
TeardownInv ==
  /\ object \in {"closing", "gone"} /\ flag["cRunning"] => handle \in Workers
  /\ \A t \in Callers : pc[t] = "free" /\ flag["cRunning"] =>
       worker[handle] = "exited"
  /\ object # "gone" => stale = {}
  /\ object = "gone" /\ flag["cRunning"] =>
       worker[handle] = "exited" /\ handle \notin stale

IInv ==
  /\ TypeOK
  /\ LockInv
  /\ DestroyInv
  /\ StoresInv
  /\ QuietInv
  /\ TeardownInv

\* One application thread that asks is_connected before it connects and goes
\* from connect to destroy without disconnect.
OneShot ==
  /\ \E t \in Callers : Callers = {t}
  /\ Polite
  /\ "disconnect" \notin Calls

\* Its background thread is the one internal->thread names, and there is none
\* while a connect is under way, after a failed one, and once destroy may free.
OneShotInv ==
  /\ \A w \in Workers : Alive(w) => w = handle
  /\ \A t \in Callers :
       /\ pc[t] \notin {"disconnect", "drop"}
       /\ \/ pc[t] \in {"connect", "raise", "lower", "free"}
          \/ pc[t] # "raise" /\ ~flag["cRunning"]
          \/ object = "gone"
          => \A w \in Workers : ~Alive(w)
  /\ stale = {}

-----------------------------------------------------------------------------

\* The initial states satisfy the types.
LEMMA TypeInit == Init => TypeOK
BY DEF Init, TypeOK, Fields, WorkerPcs, CallerPcs

\* Every action keeps the types.
LEMMA TypeStep == TypeOK /\ [Next]_vars => TypeOK'
<1> SUFFICES ASSUME TypeOK, [Next]_vars
             PROVE  TypeOK'
  OBVIOUS
<1> USE DEF TypeOK, Fields, ConnectOrder, DisconnectOrder, WorkerPcs,
        CallerPcs, CriticalPcs
<1>1. CASE Create
  BY <1>1 DEF Create, callbackVars
<1>2. ASSUME NEW t \in Callers, StartCall(t)
      PROVE  TypeOK'
  BY <1>2 DEF StartCall, CallConnect, CallDisconnect, CallSet, CallDestroy,
             Call, callbackVars
<1>3. ASSUME NEW t \in Callers, Lock(t)
      PROVE  TypeOK'
  BY <1>3 DEF Lock, Acquire, lifeVars, callbackVars
<1>4. ASSUME NEW t \in Callers, Raise(t)
      PROVE  TypeOK'
  BY <1>4 DEF Raise, Store, lifeVars, callbackVars
<1>5. ASSUME NEW t \in Callers, Lower(t)
      PROVE  TypeOK'
  BY <1>5 DEF Lower, Store, lifeVars, callbackVars
<1>6. ASSUME NEW t \in Callers, Drop(t)
      PROVE  TypeOK'
  BY <1>6 DEF Drop, Store, lifeVars, callbackVars
<1>7. ASSUME NEW t \in Callers, Spawn(t)
      PROVE  TypeOK'
  BY <1>7 DEF Spawn, lifeVars, callbackVars
<1>8. ASSUME NEW t \in Callers, SpawnFails(t)
      PROVE  TypeOK'
  BY <1>8 DEF SpawnFails, lifeVars, callbackVars
<1>9. ASSUME NEW t \in Callers, Unlock(t)
      PROVE  TypeOK'
  BY <1>9 DEF Unlock, Release, lifeVars, callbackVars
<1>10. ASSUME NEW t \in Callers, StoreCallback(t) \/ StoreUserData(t)
                            \/ Notify(t) \/ Invoke(t)
      PROVE  TypeOK'
  BY <1>10 DEF StoreCallback, StoreUserData, Notify, Invoke, lifeVars,
             callbackVars
<1>11. ASSUME NEW t \in Callers, StopWorker(t)
      PROVE  TypeOK'
  BY <1>11 DEF StopWorker, lifeVars, callbackVars
<1>12. ASSUME NEW t \in Callers, JoinCheck(t)
      PROVE  TypeOK'
  BY <1>12 DEF JoinCheck, lifeVars, callbackVars
<1>13. ASSUME NEW t \in Callers, Join(t)
      PROVE  TypeOK'
  BY <1>13 DEF Join, lifeVars, callbackVars
<1>14. ASSUME NEW t \in Callers, Free(t)
      PROVE  TypeOK'
  BY <1>14 DEF Free, lifeVars, callbackVars
<1>15. ASSUME NEW w \in Workers, WorkerStep(w)
      PROVE  TypeOK'
  BY <1>15 DEF WorkerStep, WorkerStart, WorkerTest, WorkerBranch, WorkerWake,
             WorkerReads, Load, callbackVars
<1>16. CASE UNCHANGED vars
  BY <1>16 DEF vars
<1> QED
  BY <1>1, <1>2, <1>3, <1>4, <1>5, <1>6, <1>7, <1>8, <1>9, <1>10,
     <1>11, <1>12, <1>13, <1>14, <1>15, <1>16
  DEF Next, CallStep, Finished

\* The mutex is taken only when free and given back only by its owner.
LEMMA LockStep == TypeOK /\ LockInv /\ [Next]_vars => LockInv'
<1> SUFFICES ASSUME TypeOK, LockInv, [Next]_vars
             PROVE  LockInv'
  OBVIOUS
<1> USE DEF TypeOK, LockInv, CallerPcs, CriticalPcs
<1>1. CASE Create
  BY <1>1, CallersAssumption DEF Create, callbackVars
<1>2. ASSUME NEW t \in Callers, StartCall(t)
      PROVE  LockInv'
  BY <1>2, CallersAssumption DEF StartCall, CallConnect, CallDisconnect,
      CallSet, CallDestroy,
             Call, callbackVars
<1>3. ASSUME NEW t \in Callers, Lock(t)
      PROVE  LockInv'
  BY <1>3, CallersAssumption DEF Lock, Acquire, lifeVars, callbackVars
<1>4. ASSUME NEW t \in Callers, Raise(t)
      PROVE  LockInv'
  BY <1>4, CallersAssumption DEF Raise, Store, lifeVars, callbackVars
<1>5. ASSUME NEW t \in Callers, Lower(t)
      PROVE  LockInv'
  BY <1>5, CallersAssumption DEF Lower, Store, lifeVars, callbackVars
<1>6. ASSUME NEW t \in Callers, Drop(t)
      PROVE  LockInv'
  BY <1>6, CallersAssumption DEF Drop, Store, lifeVars, callbackVars
<1>7. ASSUME NEW t \in Callers, Spawn(t)
      PROVE  LockInv'
  BY <1>7, CallersAssumption DEF Spawn, lifeVars, callbackVars
<1>8. ASSUME NEW t \in Callers, SpawnFails(t)
      PROVE  LockInv'
  BY <1>8, CallersAssumption DEF SpawnFails, lifeVars, callbackVars
<1>9. ASSUME NEW t \in Callers, Unlock(t)
      PROVE  LockInv'
  BY <1>9, CallersAssumption DEF Unlock, Release, lifeVars, callbackVars
<1>10. ASSUME NEW t \in Callers, StoreCallback(t) \/ StoreUserData(t)
                            \/ Notify(t) \/ Invoke(t)
      PROVE  LockInv'
  BY <1>10, CallersAssumption DEF StoreCallback, StoreUserData, Notify,
      Invoke, lifeVars,
             callbackVars
<1>11. ASSUME NEW t \in Callers, StopWorker(t)
      PROVE  LockInv'
  BY <1>11, CallersAssumption DEF StopWorker, lifeVars, callbackVars
<1>12. ASSUME NEW t \in Callers, JoinCheck(t)
      PROVE  LockInv'
  BY <1>12, CallersAssumption DEF JoinCheck, lifeVars, callbackVars
<1>13. ASSUME NEW t \in Callers, Join(t)
      PROVE  LockInv'
  BY <1>13, CallersAssumption DEF Join, lifeVars, callbackVars
<1>14. ASSUME NEW t \in Callers, Free(t)
      PROVE  LockInv'
  BY <1>14, CallersAssumption DEF Free, lifeVars, callbackVars
<1>15. ASSUME NEW w \in Workers, WorkerStep(w)
      PROVE  LockInv'
  BY <1>15, CallersAssumption DEF WorkerStep, WorkerStart, WorkerTest,
      WorkerBranch, WorkerWake,
             WorkerReads, Load, callbackVars
<1>16. CASE UNCHANGED vars
  BY <1>16, CallersAssumption DEF vars
<1> QED
  BY <1>1, <1>2, <1>3, <1>4, <1>5, <1>6, <1>7, <1>8, <1>9, <1>10,
     <1>11, <1>12, <1>13, <1>14, <1>15, <1>16
  DEF Next, CallStep, Finished

\* No call starts once destroy has begun, and destroy begins alone.
LEMMA DestroyStep ==
  TypeOK /\ LockInv /\ DestroyInv /\ [Next]_vars => DestroyInv'
<1> SUFFICES ASSUME TypeOK, LockInv, DestroyInv, [Next]_vars
             PROVE  DestroyInv'
  OBVIOUS
<1> USE DEF TypeOK, LockInv, DestroyInv, DestroyPcs, CallerPcs, CriticalPcs
<1>1. CASE Create
  BY <1>1 DEF Create, callbackVars
<1>2. ASSUME NEW t \in Callers, StartCall(t)
      PROVE  DestroyInv'
  BY <1>2 DEF StartCall, CallConnect, CallDisconnect, CallSet, CallDestroy,
             Call, callbackVars
<1>3. ASSUME NEW t \in Callers, Lock(t)
      PROVE  DestroyInv'
  BY <1>3 DEF Lock, Acquire, lifeVars, callbackVars
<1>4. ASSUME NEW t \in Callers, Raise(t)
      PROVE  DestroyInv'
  BY <1>4 DEF Raise, Store, lifeVars, callbackVars
<1>5. ASSUME NEW t \in Callers, Lower(t)
      PROVE  DestroyInv'
  BY <1>5 DEF Lower, Store, lifeVars, callbackVars
<1>6. ASSUME NEW t \in Callers, Drop(t)
      PROVE  DestroyInv'
  BY <1>6 DEF Drop, Store, lifeVars, callbackVars
<1>7. ASSUME NEW t \in Callers, Spawn(t)
      PROVE  DestroyInv'
  BY <1>7 DEF Spawn, lifeVars, callbackVars
<1>8. ASSUME NEW t \in Callers, SpawnFails(t)
      PROVE  DestroyInv'
  BY <1>8 DEF SpawnFails, lifeVars, callbackVars
<1>9. ASSUME NEW t \in Callers, Unlock(t)
      PROVE  DestroyInv'
  BY <1>9 DEF Unlock, Release, lifeVars, callbackVars
<1>10. ASSUME NEW t \in Callers, StoreCallback(t) \/ StoreUserData(t)
                            \/ Notify(t) \/ Invoke(t)
      PROVE  DestroyInv'
  BY <1>10 DEF StoreCallback, StoreUserData, Notify, Invoke, lifeVars,
             callbackVars
<1>11. ASSUME NEW t \in Callers, StopWorker(t)
      PROVE  DestroyInv'
  BY <1>11 DEF StopWorker, lifeVars, callbackVars
<1>12. ASSUME NEW t \in Callers, JoinCheck(t)
      PROVE  DestroyInv'
  BY <1>12 DEF JoinCheck, lifeVars, callbackVars
<1>13. ASSUME NEW t \in Callers, Join(t)
      PROVE  DestroyInv'
  BY <1>13 DEF Join, lifeVars, callbackVars
<1>14. ASSUME NEW t \in Callers, Free(t)
      PROVE  DestroyInv'
  BY <1>14 DEF Free, lifeVars, callbackVars
<1>15. ASSUME NEW w \in Workers, WorkerStep(w)
      PROVE  DestroyInv'
  BY <1>15 DEF WorkerStep, WorkerStart, WorkerTest, WorkerBranch, WorkerWake,
             WorkerReads, Load, callbackVars
<1>16. CASE UNCHANGED vars
  BY <1>16 DEF vars
<1> QED
  BY <1>1, <1>2, <1>3, <1>4, <1>5, <1>6, <1>7, <1>8, <1>9, <1>10,
     <1>11, <1>12, <1>13, <1>14, <1>15, <1>16
  DEF Next, CallStep, Finished

\* Only the owner of the mutex (or destroy) stores into the flags.
LEMMA StoresStep ==
  TypeOK /\ LockInv /\ DestroyInv /\ StoresInv /\ [Next]_vars => StoresInv'
<1> SUFFICES ASSUME TypeOK, LockInv, DestroyInv, StoresInv, [Next]_vars
             PROVE  StoresInv'
  OBVIOUS
<1> USE DEF TypeOK, LockInv, DestroyInv, StoresInv, DestroyPcs, Fields,
        ConnectOrder, DisconnectOrder, CallerPcs, CriticalPcs
<1>1. CASE Create
  BY <1>1 DEF Create, callbackVars
<1>2. ASSUME NEW t \in Callers, StartCall(t)
      PROVE  StoresInv'
  BY <1>2 DEF StartCall, CallConnect, CallDisconnect, CallSet, CallDestroy,
             Call, callbackVars
<1>3. ASSUME NEW t \in Callers, Lock(t)
      PROVE  StoresInv'
  BY <1>3 DEF Lock, Acquire, lifeVars, callbackVars
<1>4. ASSUME NEW t \in Callers, Raise(t)
      PROVE  StoresInv'
  BY <1>4 DEF Raise, Store, lifeVars, callbackVars
<1>5. ASSUME NEW t \in Callers, Lower(t)
      PROVE  StoresInv'
  BY <1>5 DEF Lower, Store, lifeVars, callbackVars
<1>6. ASSUME NEW t \in Callers, Drop(t)
      PROVE  StoresInv'
  BY <1>6 DEF Drop, Store, lifeVars, callbackVars
<1>7. ASSUME NEW t \in Callers, Spawn(t)
      PROVE  StoresInv'
  BY <1>7 DEF Spawn, lifeVars, callbackVars
<1>8. ASSUME NEW t \in Callers, SpawnFails(t)
      PROVE  StoresInv'
  BY <1>8 DEF SpawnFails, lifeVars, callbackVars
<1>9. ASSUME NEW t \in Callers, Unlock(t)
      PROVE  StoresInv'
  BY <1>9 DEF Unlock, Release, lifeVars, callbackVars
<1>10. ASSUME NEW t \in Callers, StoreCallback(t) \/ StoreUserData(t)
                            \/ Notify(t) \/ Invoke(t)
      PROVE  StoresInv'
  BY <1>10 DEF StoreCallback, StoreUserData, Notify, Invoke, lifeVars,
             callbackVars
<1>11. ASSUME NEW t \in Callers, StopWorker(t)
      PROVE  StoresInv'
  BY <1>11 DEF StopWorker, lifeVars, callbackVars
<1>12. ASSUME NEW t \in Callers, JoinCheck(t)
      PROVE  StoresInv'
  BY <1>12 DEF JoinCheck, lifeVars, callbackVars
<1>13. ASSUME NEW t \in Callers, Join(t)
      PROVE  StoresInv'
  BY <1>13 DEF Join, lifeVars, callbackVars
<1>14. ASSUME NEW t \in Callers, Free(t)
      PROVE  StoresInv'
  BY <1>14 DEF Free, lifeVars, callbackVars
<1>15. ASSUME NEW w \in Workers, WorkerStep(w)
      PROVE  StoresInv'
  BY <1>15 DEF WorkerStep, WorkerStart, WorkerTest, WorkerBranch, WorkerWake,
             WorkerReads, Load, callbackVars
<1>16. CASE UNCHANGED vars
  BY <1>16 DEF vars
<1> QED
  BY <1>1, <1>2, <1>3, <1>4, <1>5, <1>6, <1>7, <1>8, <1>9, <1>10,
     <1>11, <1>12, <1>13, <1>14, <1>15, <1>16
  DEF Next, CallStep, Finished

\* A critical section ends with agreeing flags, and a worker if they are up.
LEMMA QuietStep ==
  TypeOK /\ LockInv /\ DestroyInv /\ StoresInv /\ QuietInv /\ [Next]_vars =>
  QuietInv'
<1> SUFFICES ASSUME TypeOK, LockInv, DestroyInv, StoresInv, QuietInv,
                    [Next]_vars
             PROVE  QuietInv'
  OBVIOUS
<1> USE DEF TypeOK, LockInv, DestroyInv, StoresInv, QuietInv, Quiet, Alive,
        WritingPcs, DestroyPcs, Fields, ConnectOrder, DisconnectOrder,
        WorkerPcs, CallerPcs, CriticalPcs
<1>1. CASE Create
  BY <1>1 DEF Create, callbackVars
<1>2. ASSUME NEW t \in Callers, StartCall(t)
      PROVE  QuietInv'
  BY <1>2 DEF StartCall, CallConnect, CallDisconnect, CallSet, CallDestroy,
             Call, callbackVars
<1>3. ASSUME NEW t \in Callers, Lock(t)
      PROVE  QuietInv'
  BY <1>3 DEF Lock, Acquire, lifeVars, callbackVars
<1>4. ASSUME NEW t \in Callers, Raise(t)
      PROVE  QuietInv'
  BY <1>4 DEF Raise, Store, lifeVars, callbackVars
<1>5. ASSUME NEW t \in Callers, Lower(t)
      PROVE  QuietInv'
  BY <1>5 DEF Lower, Store, lifeVars, callbackVars
<1>6. ASSUME NEW t \in Callers, Drop(t)
      PROVE  QuietInv'
  BY <1>6 DEF Drop, Store, lifeVars, callbackVars
<1>7. ASSUME NEW t \in Callers, Spawn(t)
      PROVE  QuietInv'
  BY <1>7 DEF Spawn, lifeVars, callbackVars
<1>8. ASSUME NEW t \in Callers, SpawnFails(t)
      PROVE  QuietInv'
  BY <1>8 DEF SpawnFails, lifeVars, callbackVars
<1>9. ASSUME NEW t \in Callers, Unlock(t)
      PROVE  QuietInv'
  BY <1>9 DEF Unlock, Release, lifeVars, callbackVars
<1>10. ASSUME NEW t \in Callers, StoreCallback(t) \/ StoreUserData(t)
                            \/ Notify(t) \/ Invoke(t)
      PROVE  QuietInv'
  BY <1>10 DEF StoreCallback, StoreUserData, Notify, Invoke, lifeVars,
             callbackVars
<1>11. ASSUME NEW t \in Callers, StopWorker(t)
      PROVE  QuietInv'
  BY <1>11 DEF StopWorker, lifeVars, callbackVars
<1>12. ASSUME NEW t \in Callers, JoinCheck(t)
      PROVE  QuietInv'
  BY <1>12 DEF JoinCheck, lifeVars, callbackVars
<1>13. ASSUME NEW t \in Callers, Join(t)
      PROVE  QuietInv'
  BY <1>13 DEF Join, lifeVars, callbackVars
<1>14. ASSUME NEW t \in Callers, Free(t)
      PROVE  QuietInv'
  BY <1>14 DEF Free, lifeVars, callbackVars
<1>15. ASSUME NEW w \in Workers, WorkerStep(w)
      PROVE  QuietInv'
  BY <1>15 DEF WorkerStep, WorkerStart, WorkerTest, WorkerBranch, WorkerWake,
             WorkerReads, Load, callbackVars
<1>16. CASE UNCHANGED vars
  BY <1>16 DEF vars
<1> QED
  BY <1>1, <1>2, <1>3, <1>4, <1>5, <1>6, <1>7, <1>8, <1>9, <1>10,
     <1>11, <1>12, <1>13, <1>14, <1>15, <1>16
  DEF Next, CallStep, Finished

\* destroy passes the join only when the named thread has ended.
LEMMA TeardownStep ==
  TypeOK /\ DestroyInv /\ QuietInv /\ TeardownInv /\ [Next]_vars =>
  TeardownInv'
<1> SUFFICES ASSUME TypeOK, DestroyInv, QuietInv, TeardownInv, [Next]_vars
             PROVE  TeardownInv'
  OBVIOUS
<1> USE DEF TypeOK, DestroyInv, QuietInv, TeardownInv, Quiet, Alive, WritingPcs,
        DestroyPcs, Fields, WorkerPcs, CallerPcs, CriticalPcs
<1>1. CASE Create
  BY <1>1 DEF Create, callbackVars
<1>2. ASSUME NEW t \in Callers, StartCall(t)
      PROVE  TeardownInv'
  BY <1>2 DEF StartCall, CallConnect, CallDisconnect, CallSet, CallDestroy,
             Call, callbackVars
<1>3. ASSUME NEW t \in Callers, Lock(t)
      PROVE  TeardownInv'
  BY <1>3 DEF Lock, Acquire, lifeVars, callbackVars
<1>4. ASSUME NEW t \in Callers, Raise(t)
      PROVE  TeardownInv'
  BY <1>4 DEF Raise, Store, lifeVars, callbackVars
<1>5. ASSUME NEW t \in Callers, Lower(t)
      PROVE  TeardownInv'
  BY <1>5 DEF Lower, Store, lifeVars, callbackVars
<1>6. ASSUME NEW t \in Callers, Drop(t)
      PROVE  TeardownInv'
  BY <1>6 DEF Drop, Store, lifeVars, callbackVars
<1>7. ASSUME NEW t \in Callers, Spawn(t)
      PROVE  TeardownInv'
  BY <1>7 DEF Spawn, lifeVars, callbackVars
<1>8. ASSUME NEW t \in Callers, SpawnFails(t)
      PROVE  TeardownInv'
  BY <1>8 DEF SpawnFails, lifeVars, callbackVars
<1>9. ASSUME NEW t \in Callers, Unlock(t)
      PROVE  TeardownInv'
  BY <1>9 DEF Unlock, Release, lifeVars, callbackVars
<1>10. ASSUME NEW t \in Callers, StoreCallback(t) \/ StoreUserData(t)
                            \/ Notify(t) \/ Invoke(t)
      PROVE  TeardownInv'
  BY <1>10 DEF StoreCallback, StoreUserData, Notify, Invoke, lifeVars,
             callbackVars
<1>11. ASSUME NEW t \in Callers, StopWorker(t)
      PROVE  TeardownInv'
  BY <1>11 DEF StopWorker, lifeVars, callbackVars
<1>12. ASSUME NEW t \in Callers, JoinCheck(t)
      PROVE  TeardownInv'
  BY <1>12 DEF JoinCheck, lifeVars, callbackVars
<1>13. ASSUME NEW t \in Callers, Join(t)
      PROVE  TeardownInv'
  BY <1>13 DEF Join, lifeVars, callbackVars
<1>14. ASSUME NEW t \in Callers, Free(t)
      PROVE  TeardownInv'
  BY <1>14 DEF Free, lifeVars, callbackVars
<1>15. ASSUME NEW w \in Workers, WorkerStep(w)
      PROVE  TeardownInv'
  BY <1>15 DEF WorkerStep, WorkerStart, WorkerTest, WorkerBranch, WorkerWake,
             WorkerReads, Load, callbackVars
<1>16. CASE UNCHANGED vars
  BY <1>16 DEF vars
<1> QED
  BY <1>1, <1>2, <1>3, <1>4, <1>5, <1>6, <1>7, <1>8, <1>9, <1>10,
     <1>11, <1>12, <1>13, <1>14, <1>15, <1>16
  DEF Next, CallStep, Finished

\* With one polite thread that never disconnects there is one worker at most.
LEMMA OneShotStep ==
  OneShot /\ TypeOK /\ DestroyInv /\ StoresInv /\ QuietInv /\ TeardownInv /\
  OneShotInv /\ [Next]_vars => OneShotInv'
<1> SUFFICES ASSUME OneShot, TypeOK, DestroyInv, StoresInv, QuietInv,
                    TeardownInv, OneShotInv, [Next]_vars
             PROVE  OneShotInv'
  OBVIOUS
<1> USE DEF OneShot, OneShotInv, TypeOK, DestroyInv, StoresInv, QuietInv,
    TeardownInv,
        Quiet, Alive, WritingPcs, DestroyPcs, Fields, ConnectOrder,
        WorkerPcs, CallerPcs, CriticalPcs
<1>1. CASE Create
  BY <1>1 DEF Create, callbackVars
<1>2. ASSUME NEW t \in Callers, StartCall(t)
      PROVE  OneShotInv'
  BY <1>2 DEF StartCall, CallConnect, CallDisconnect, CallSet, CallDestroy,
             Call, callbackVars
<1>3. ASSUME NEW t \in Callers, Lock(t)
      PROVE  OneShotInv'
  BY <1>3 DEF Lock, Acquire, lifeVars, callbackVars
<1>4. ASSUME NEW t \in Callers, Raise(t)
      PROVE  OneShotInv'
  BY <1>4 DEF Raise, Store, lifeVars, callbackVars
<1>5. ASSUME NEW t \in Callers, Lower(t)
      PROVE  OneShotInv'
  BY <1>5 DEF Lower, Store, lifeVars, callbackVars
<1>6. ASSUME NEW t \in Callers, Drop(t)
      PROVE  OneShotInv'
  BY <1>6 DEF Drop, Store, lifeVars, callbackVars
<1>7. ASSUME NEW t \in Callers, Spawn(t)
      PROVE  OneShotInv'
  BY <1>7 DEF Spawn, lifeVars, callbackVars
<1>8. ASSUME NEW t \in Callers, SpawnFails(t)
      PROVE  OneShotInv'
  BY <1>8 DEF SpawnFails, lifeVars, callbackVars
<1>9. ASSUME NEW t \in Callers, Unlock(t)
      PROVE  OneShotInv'
  BY <1>9 DEF Unlock, Release, lifeVars, callbackVars
<1>10. ASSUME NEW t \in Callers, StoreCallback(t) \/ StoreUserData(t)
                            \/ Notify(t) \/ Invoke(t)
      PROVE  OneShotInv'
  BY <1>10 DEF StoreCallback, StoreUserData, Notify, Invoke, lifeVars,
             callbackVars
<1>11. ASSUME NEW t \in Callers, StopWorker(t)
      PROVE  OneShotInv'
  BY <1>11 DEF StopWorker, lifeVars, callbackVars
<1>12. ASSUME NEW t \in Callers, JoinCheck(t)
      PROVE  OneShotInv'
  BY <1>12 DEF JoinCheck, lifeVars, callbackVars
<1>13. ASSUME NEW t \in Callers, Join(t)
      PROVE  OneShotInv'
  BY <1>13 DEF Join, lifeVars, callbackVars
<1>14. ASSUME NEW t \in Callers, Free(t)
      PROVE  OneShotInv'
  BY <1>14 DEF Free, lifeVars, callbackVars
<1>15. ASSUME NEW w \in Workers, WorkerStep(w)
      PROVE  OneShotInv'
  BY <1>15 DEF WorkerStep, WorkerStart, WorkerTest, WorkerBranch, WorkerWake,
             WorkerReads, Load, callbackVars
<1>16. CASE UNCHANGED vars
  BY <1>16 DEF vars
<1> QED
  BY <1>1, <1>2, <1>3, <1>4, <1>5, <1>6, <1>7, <1>8, <1>9, <1>10,
     <1>11, <1>12, <1>13, <1>14, <1>15, <1>16
  DEF Next, CallStep, Finished

-----------------------------------------------------------------------------

\* The initial states satisfy the invariant.
LEMMA InitIInv == Init => IInv
<1> SUFFICES ASSUME Init PROVE IInv
  OBVIOUS
<1>1. TypeOK
  BY TypeInit
<1>2. LockInv
  BY CallersAssumption DEF Init, LockInv, CriticalPcs
<1>3. DestroyInv /\ StoresInv
  BY DEF Init, DestroyInv, StoresInv, DestroyPcs
<1>4. QuietInv /\ TeardownInv
  BY DEF Init, QuietInv, TeardownInv, Fields
<1> QED
  BY <1>1, <1>2, <1>3, <1>4 DEF IInv

\* Every step keeps the invariant.
LEMMA IInvStep == IInv /\ [Next]_vars => IInv'
BY TypeStep, LockStep, DestroyStep, StoresStep, QuietStep, TeardownStep
   DEF IInv

THEOREM Inductive == Spec => []IInv
BY InitIInv, IInvStep, PTL DEF Spec

\* Every variable keeps its type.
THEOREM TypeCorrect == Spec => []TypeOK
<1>1. IInv => TypeOK
  BY DEF IInv
<1> QED
  BY <1>1, Inductive, PTL

\* Whenever the mutex is free the two copies of each flag, and connected and
\* running, say the same (connect, disconnect and the rollback of connect).
THEOREM FlagsAgreement == Spec => []FlagsAgree
<1>1. IInv => FlagsAgree
  <2> SUFFICES ASSUME IInv, AtRest PROVE \A f, g \in Fields : flag[f] = flag[g]
    BY DEF FlagsAgree
  <2>1. Quiet
    BY CallersAssumption DEF IInv, LockInv, AtRest, Quiet, WritingPcs,
        CriticalPcs
  <2> QED
    BY <2>1 DEF IInv, QuietInv, AtRest
<1> QED
  BY <1>1, Inductive, PTL

\* A client that says it is running has the thread internal->thread names,
\* alive.
THEOREM RunningWorker == Spec => []RunningHasWorker
<1>1. IInv => RunningHasWorker
  <2> SUFFICES ASSUME IInv, AtRest, flag["cRunning"]
               PROVE  handle \in Workers /\ Alive(handle)
    BY DEF RunningHasWorker
  <2>1. Quiet
    BY CallersAssumption DEF IInv, LockInv, AtRest, Quiet, WritingPcs,
        CriticalPcs
  <2> QED
    BY <2>1 DEF IInv, QuietInv, AtRest
<1> QED
  BY <1>1, Inductive, PTL

\* destroy of a running client frees it after the named thread has ended.
THEOREM SafeTeardown == Spec => []JoinBeforeFree
<1>1. IInv => JoinBeforeFree
  BY DEF IInv, TeardownInv, JoinBeforeFree
<1> QED
  BY <1>1, Inductive, PTL

\* The use of the client that is safe: one thread, connect only when not
\* connected, no disconnect before destroy. Then there is never a second
\* background thread and nothing reads the freed object.
THEOREM OneShotUse ==
  ASSUME OneShot
  PROVE  Spec => [](NoStaleAccess /\ SingleWorker)
<1>1. Init => OneShotInv
  BY DEF Init, OneShotInv, Alive
<1>2. IInv /\ OneShotInv /\ [Next]_vars => OneShotInv'
  BY OneShot, OneShotStep DEF IInv
<1>3. OneShotInv => NoStaleAccess /\ SingleWorker
  BY DEF OneShotInv, NoStaleAccess, SingleWorker
<1> QED
  BY <1>1, <1>2, <1>3, Inductive, PTL DEF Spec

-----------------------------------------------------------------------------
(* The subscriptions. *)

\* The application of the theorems.
SingleThread(self) == Callers = {self}

InitSteps == {"setMessage", "setError", "setConnect", "publish"}
\* Between the connect check and the return of a watch function.
WatchSteps == {"subscribe", "add", "fill", "count"}
ConnectPcs == {"connect", "raise", "lower", "connected", "notify", "invoke"}

\* Which calls of the client and which life of the object go with each step.
PhaseInv(self) ==
  /\ step[self] \in {"idle", "watch"} \cup WatchSteps => pc[self] = "idle"
  /\ extension = "none" => step[self] \in {"idle"} \cup InitSteps
  /\ extension # "none" => step[self] \notin InitSteps
  /\ extension = "gone" => step[self] = "idle"
  /\ step[self] \in InitSteps => object = "live"
  /\ extension # "none" => object # "none"
  /\ extension = "live" /\ step[self] # "destroying" => object = "live"

\* A subscription is recorded only while the client is connected, and connect is
\* called only while there is none.
ConnInv(self) ==
  /\ step[self] \in WatchSteps => flag["cConnected"]
  /\ extension = "live" /\ step[self] \in {"idle", "watch"} /\ count > 0
       => flag["cConnected"]
  /\ step[self] = "connecting" =>
       /\ count = 0
       /\ pc[self] \in ConnectPcs \cup {"idle"}
       /\ pc[self] # "idle" => self \notin refused
       /\ \/ pc[self] \in {"connected", "notify", "invoke"}
          \/ pc[self] = "idle" /\ self \notin refused
          => flag["cConnected"]
  /\ step[self] # "connecting" =>
       self \notin refused /\ pc[self] \notin ConnectPcs
  /\ extension = "none" => count = 0

\* How far the recording of a subscription has got.
RecordInv(self) ==
  /\ step[self] \in {"watch", "connecting"} \cup WatchSteps =>
       wanted[self] \in Channels /\ extension = "live"
  /\ step[self] \in ({"watch", "connecting"} \cup WatchSteps) \ {"count"} =>
       watches < MaxWatches
  /\ step[self] \in {"fill", "count"} =>
       count < capacity /\ place[self] = <<block, count + 1>>
  /\ extension = "live" /\ step[self] # "count" => watches = count
  /\ step[self] = "count" =>
       /\ watches = count + 1
       /\ slots[watches].channel = wanted[self]
  /\ extension = "none" => watches = 0 /\ count = 0

\* Ids count the slots, and the application holds the id of every slot.
IdInv ==
  /\ extension = "none" => held = {} /\ unwatched = {}
  /\ extension = "live" =>
       /\ \A i \in 1..watches :
            slots[i].id = i /\ (slots[i].active <=> i \notin unwatched)
       /\ \A h \in held :
            /\ h.id \in 1..count /\ h.at[2] = h.id
            /\ slots[h.id].channel = h.channel
       /\ \A i \in 1..count : \E h \in held : h.id = i
       /\ unwatched \subseteq 1..count

-----------------------------------------------------------------------------

\* Every step of websocket.c is a step of the client or leaves it alone.
LEMMA ClientStepOrNone == [SubsNext]_allVars => [Next]_vars
<1> SUFFICES ASSUME [SubsNext]_allVars
             PROVE  [Next]_vars
  OBVIOUS
<1>1. ASSUME NEW t \in Callers, Begin(t)
      PROVE  [Next]_vars
  <2>1. CASE InitClient(t)
    BY <2>1 DEF InitClient, Next
  <2>2. CASE \E c \in Channels : Watch(t, c)
    BY <2>2 DEF Watch
  <2>3. CASE \E h \in held, copied \in BOOLEAN : Unwatch(t, h, copied)
    BY <2>3 DEF Unwatch
  <2>4. CASE Cleanup(t)
    BY <2>4 DEF Cleanup, Next, StartCall
  <2> QED
    BY <1>1, <2>1, <2>2, <2>3, <2>4 DEF Begin
<1>2. ASSUME NEW t \in Callers, SubsStep(t)
      PROVE  [Next]_vars
  <2>1. CASE Register(t) \/ Connect(t) \/ Destroy(t)
    BY <2>1 DEF Register, Connect, Destroy, Next, StartCall
  <2>2. CASE ClientStep(t)
    BY <2>2 DEF ClientStep, Next
  <2>3. CASE \/ Publish(t) \/ AlreadyConnected(t) \/ Connected(t)
             \/ NoAddress(t) \/ Subscribe(t)
    BY <2>3 DEF Publish, AlreadyConnected, Connected, NoAddress, Subscribe
  <2>4. CASE Fits(t) \/ Grow(t) \/ GrowFails(t) \/ Fill(t) \/ Count(t)
    BY <2>4 DEF Fits, Grow, GrowFails, Fill, Count
  <2>5. CASE Discard(t)
    BY <2>5 DEF Discard
  <2> QED
    BY <1>2, <2>1, <2>2, <2>3, <2>4, <2>5 DEF SubsStep
<1>3. ASSUME NEW w \in Workers, Background(w)
      PROVE  [Next]_vars
  BY <1>3 DEF Background, Next
<1>4. CASE SubsFinished
  BY <1>4 DEF SubsFinished, Finished
<1>5. CASE UNCHANGED allVars
  BY <1>5 DEF allVars
<1> QED
  BY <1>1, <1>2, <1>3, <1>4, <1>5 DEF SubsNext

\* websocket.c drives the WebSocket client only as a client may be driven:
\* whatever holds of every use of the client holds of this one.
THEOREM UsesClient == SubsSpec => Spec
<1>1. SubsInit => Init
  BY DEF SubsInit
<1> QED
  BY <1>1, ClientStepOrNone, PTL DEF SubsSpec, Spec

-----------------------------------------------------------------------------
(* The phases of the calls, for one thread. *)

\* A step of a client call is taken inside a call; only destroy ends the object.
LEMMA InsideCall ==
  ASSUME NEW t \in Callers, CallStep(t), TypeOK
  PROVE  /\ pc[t] # "idle"
         /\ \/ pc[t] = "free" /\ object' = "gone"
            \/ object' = object
BY DEF CallStep, Lock, Acquire, Raise, Lower, Drop, Store, Spawn, SpawnFails,
       Unlock, Release, StoreCallback, StoreUserData, Notify, Invoke,
       StopWorker, JoinCheck, Join, Free, lifeVars

\* The background threads leave flags, calls and object alone.
LEMMA WorkerLeaves ==
  ASSUME NEW w \in Workers, WorkerStep(w)
  PROVE  UNCHANGED <<object, flag, lock, handle, pc, stores>>
BY DEF WorkerStep, WorkerStart, WorkerTest, WorkerBranch, WorkerWake,
       WorkerReads

LEMMA PhaseStep ==
  ASSUME NEW self, SingleThread(self), IInv, PhaseInv(self),
         step \in [Callers -> Steps], [SubsNext]_allVars
  PROVE  PhaseInv(self)'
<1> USE DEF SingleThread, PhaseInv, InitSteps, WatchSteps, Steps, Goto
<1>0. TypeOK /\ pc \in [Callers -> CallerPcs] /\ self \in Callers
  BY DEF IInv, TypeOK
<1>1. CASE Begin(self)
  <2>1. CASE InitClient(self)
    BY <1>0, <2>1 DEF InitClient, Create
  <2>2. CASE \E c \in Channels : Watch(self, c)
    BY <1>0, <2>2 DEF Watch, vars
  <2>3. CASE \E h \in held, copied \in BOOLEAN : Unwatch(self, h, copied)
    BY <1>0, <2>3 DEF Unwatch, vars
  <2>4. CASE Cleanup(self)
    BY <1>0, <2>4 DEF Cleanup, CallDisconnect, Call
  <2> QED
    BY <1>1, <2>1, <2>2, <2>3, <2>4 DEF Begin
<1>2. CASE SubsStep(self)
  <2>1. CASE Register(self)
    BY <1>0, <2>1 DEF Register, CallSet, Call
  <2>2. CASE Publish(self)
    BY <1>0, <2>2 DEF Publish, vars
  <2>3. CASE Connect(self)
    BY <1>0, <2>3 DEF Connect, CallConnect, Call
  <2>4. CASE \/ AlreadyConnected(self) \/ Connected(self)
             \/ NoAddress(self) \/ Subscribe(self)
    BY <1>0, <2>4
    DEF AlreadyConnected, Connected, NoAddress, Subscribe, vars
  <2>5. CASE Fits(self) \/ Grow(self) \/ GrowFails(self)
    BY <1>0, <2>5 DEF Fits, Grow, GrowFails, vars
  <2>6. CASE Fill(self) \/ Count(self)
    BY <1>0, <2>6 DEF Fill, Count, vars
  <2>7. CASE Destroy(self)
    BY <1>0, <2>7 DEF Destroy, CallDestroy, Call
  <2>8. CASE Discard(self)
    BY <1>0, <2>8 DEF Discard, vars
  <2>9. CASE ClientStep(self)
    <3>1. /\ pc[self] # "idle"
          /\ (pc[self] = "free" /\ object' = "gone") \/ object' = object
      BY <1>0, <2>9, InsideCall DEF ClientStep
    <3>2. pc[self] = "free" => object = "closing"
      BY <1>0 DEF IInv, DestroyInv, DestroyPcs
    <3>3. UNCHANGED <<extension, step>>
      BY <2>9 DEF ClientStep
    <3> QED
      BY <1>0, <3>1, <3>2, <3>3
  <2> QED
    BY <1>2, <2>1, <2>2, <2>3, <2>4, <2>5, <2>6, <2>7, <2>8, <2>9 DEF SubsStep
<1>3. ASSUME NEW w \in Workers, Background(w)
      PROVE  PhaseInv(self)'
  BY <1>3, WorkerLeaves DEF Background, subsVars
<1>4. CASE UNCHANGED allVars
  BY <1>4 DEF allVars, vars, subsVars
<1> QED
  BY <1>1, <1>2, <1>3, <1>4 DEF SubsNext, SubsFinished, Finished, allVars

-----------------------------------------------------------------------------
(* Subscriptions and the connection, for one thread. *)

\* A connect stays among its own steps and ends connected or rolled back.
LEMMA ConnectSteps ==
  ASSUME NEW self, Callers = {self}, IInv, CallStep(self)
  PROVE  /\ pc[self] \in ConnectPcs => pc'[self] \in ConnectPcs \cup {"idle"}
         /\ pc[self] \notin ConnectPcs => pc'[self] \notin ConnectPcs
         /\ pc[self] \in {"connected", "notify", "invoke"} =>
              UNCHANGED flag
         /\ pc[self] = "raise" /\ pc'[self] = "connected" =>
              flag'["cConnected"]
         /\ pc'[self] \in {"notify", "invoke"} =>
              pc[self] \in {"connected", "notify"}
         /\ pc[self] \in ConnectPcs /\ pc'[self] = "idle" =>
              pc[self] \in {"lower", "notify", "invoke"}
         /\ pc'[self] = "connected" => pc[self] = "raise"
<1> USE DEF ConnectPcs
<1>0. /\ pc \in [Callers -> CallerPcs] /\ self \in Callers /\ stores \in 0..4
      /\ pc[self] = "raise" => \A i \in 1..stores : flag[ConnectOrder[i]]
  BY DEF IInv, TypeOK, StoresInv
<1>1. CASE Lock(self)
  BY <1>0, <1>1 DEF Lock, Acquire
<1>2. CASE Raise(self) \/ Lower(self) \/ Drop(self)
  BY <1>0, <1>2 DEF Raise, Lower, Drop, Store
<1>3. CASE Spawn(self)
  BY <1>0, <1>3 DEF Spawn, ConnectOrder
<1>4. CASE SpawnFails(self)
  BY <1>0, <1>4 DEF SpawnFails
<1>5. CASE Unlock(self)
  BY <1>0, <1>5 DEF Unlock, Release
<1>6. CASE StoreCallback(self) \/ StoreUserData(self)
  BY <1>0, <1>6 DEF StoreCallback, StoreUserData
<1>7. CASE Notify(self) \/ Invoke(self)
  BY <1>0, <1>7 DEF Notify, Invoke
<1>8. CASE StopWorker(self) \/ JoinCheck(self) \/ Join(self) \/ Free(self)
  BY <1>0, <1>8 DEF StopWorker, JoinCheck, Join, Free
<1> QED
  BY <1>1, <1>2, <1>3, <1>4, <1>5, <1>6, <1>7, <1>8 DEF CallStep

LEMMA ConnStep ==
  ASSUME NEW self, SingleThread(self), IInv, SubsTypeOK, PhaseInv(self),
         ConnInv(self), [SubsNext]_allVars
  PROVE  ConnInv(self)'
<1> USE DEF SingleThread, ConnInv, WatchSteps, Steps, Goto, arrayVars
<1>0. /\ pc \in [Callers -> CallerPcs] /\ self \in Callers
      /\ step \in [Callers -> Steps]
      /\ extension \in {"none", "live", "gone"}
      /\ refused \subseteq Callers
      /\ count \in Nat
  BY DEF SubsTypeOK, TypeOK
<1>1. CASE Begin(self)
  <2>1. CASE InitClient(self)
    BY <1>0, <2>1 DEF InitClient, Create, PhaseInv
  <2>2. CASE \E c \in Channels : Watch(self, c)
    BY <1>0, <2>2 DEF Watch, vars
  <2>3. CASE \E h \in held, copied \in BOOLEAN : Unwatch(self, h, copied)
    BY <1>0, <2>3 DEF Unwatch, vars
  <2>4. CASE Cleanup(self)
    BY <1>0, <2>4 DEF Cleanup, CallDisconnect, Call, ConnectPcs
  <2> QED
    BY <1>1, <2>1, <2>2, <2>3, <2>4 DEF Begin
<1>2. CASE SubsStep(self)
  <2>1. CASE Register(self)
    BY <1>0, <2>1 DEF Register, CallSet, Call, ConnectPcs
  <2>2. CASE Publish(self)
    BY <1>0, <2>2 DEF Publish, vars, PhaseInv, InitSteps
  <2>3. CASE Connect(self)
    <3>1. extension = "live"
      BY <1>0, <2>3 DEF Connect, PhaseInv, InitSteps
    <3>2. count = 0
      BY <1>0, <2>3, <3>1 DEF Connect
    <3> QED
      BY <1>0, <2>3, <3>2 DEF Connect, CallConnect, Call, ConnectPcs
  <2>4. CASE \/ AlreadyConnected(self) \/ NoAddress(self) \/ Subscribe(self)
    BY <1>0, <2>4 DEF AlreadyConnected, NoAddress, Subscribe, vars
  <2>5. CASE Connected(self)
    BY <1>0, <2>5 DEF Connected, vars, ConnectPcs
  <2>6. CASE Fits(self) \/ Grow(self) \/ GrowFails(self)
    BY <1>0, <2>6 DEF Fits, Grow, GrowFails, vars
  <2>7. CASE Fill(self) \/ Count(self)
    BY <1>0, <2>7 DEF Fill, Count, vars, PhaseInv, InitSteps
  <2>8. CASE Destroy(self)
    BY <1>0, <2>8 DEF Destroy, CallDestroy, Call, ConnectPcs
  <2>9. CASE Discard(self)
    <3>1. /\ step[self] = "destroying" /\ step' = [step EXCEPT ![self] = "idle"]
          /\ extension' = "gone" /\ count' = 0 /\ UNCHANGED <<pc, refused>>
      BY <2>9 DEF Discard, vars
    <3> QED
      BY <1>0, <3>1
  <2>10. CASE ClientStep(self)
    <3>1. CallStep(self) /\ UNCHANGED <<extension, step, count>>
      BY <2>10 DEF ClientStep
    <3>2. pc[self] # "idle"
      BY <1>0, <3>1, InsideCall DEF IInv
    <3>3. step[self] \notin {"idle", "watch"} \cup WatchSteps
      BY <3>2 DEF PhaseInv
    <3>4. CASE step[self] = "connecting"
      BY <1>0, <2>10, <3>1, <3>2, <3>4, ConnectSteps
      DEF ClientStep, ConnectPcs
    <3>5. CASE step[self] # "connecting"
      BY <1>0, <2>10, <3>1, <3>3, <3>5, ConnectSteps
      DEF ClientStep, ConnectPcs
    <3> QED
      BY <3>4, <3>5
  <2> QED
    BY <1>2, <2>1, <2>2, <2>3, <2>4, <2>5, <2>6, <2>7, <2>8, <2>9, <2>10
    DEF SubsStep
<1>3. ASSUME NEW w \in Workers, Background(w)
      PROVE  ConnInv(self)'
  BY <1>3, WorkerLeaves DEF Background, subsVars
<1>4. CASE UNCHANGED allVars
  BY <1>4 DEF allVars, vars, subsVars
<1> QED
  BY <1>1, <1>2, <1>3, <1>4 DEF SubsNext, SubsFinished, Finished, allVars

-----------------------------------------------------------------------------
(* The array, for one thread. *)

\* Every step keeps the types and the progress of the recording.
LEMMA RecordStep ==
  ASSUME NEW self, SingleThread(self), IInv, SubsTypeOK, PhaseInv(self),
         RecordInv(self), [SubsNext]_allVars
  PROVE  SubsTypeOK' /\ RecordInv(self)'
<1> USE DEF SingleThread, RecordInv, WatchSteps, Steps, Goto, arrayVars,
            appVars
<1>0. /\ self \in Callers
      /\ MaxWatches \in Nat
      /\ TypeOK'
  BY ClientStepOrNone, TypeStep, WatchesAssumption DEF IInv
<1> USE DEF SubsTypeOK
<1>1. CASE Begin(self)
  <2>1. CASE InitClient(self)
    BY <1>0, <2>1 DEF InitClient, PhaseInv, Create
  <2>2. CASE \E c \in Channels : Watch(self, c)
    BY <1>0, <2>2 DEF Watch
  <2>3. CASE \E h \in held, copied \in BOOLEAN : Unwatch(self, h, copied)
    <3>1. PICK h \in held, copied \in BOOLEAN : Unwatch(self, h, copied)
      BY <2>3
    <3>2. /\ slots' \in [1..MaxWatches -> Slot]
          /\ unwatched' \subseteq Ids
      <4>1. h.id \in Ids
        BY DEF Held
      <4>2. \A i \in 1..MaxWatches : Deactivated(slots[i]) \in Slot
        BY DEF Deactivated, Slot
      <4>3. CASE UNCHANGED <<slots, unwatched>>
        BY <4>3
      <4>4. ASSUME NEW i \in 1..count,
                   slots' = [slots EXCEPT ![i] = Deactivated(slots[i])],
                   unwatched' = unwatched \cup {h.id}
            PROVE  slots' \in [1..MaxWatches -> Slot] /\ unwatched' \subseteq Ids
        BY <1>0, <4>1, <4>2, <4>4
      <4> QED
        BY <3>1, <4>3, <4>4 DEF Unwatch, Matches
    <3>3. dangling' \in BOOLEAN
      BY <3>1 DEF Unwatch
    <3>4. /\ step[self] = "idle" /\ extension = "live"
          /\ UNCHANGED <<extension, step, wanted, refused, place, count,
                         capacity, block, watches, held>>
      BY <3>1 DEF Unwatch
    <3> QED
      BY <1>0, <3>2, <3>3, <3>4
  <2>4. CASE Cleanup(self)
    BY <1>0, <2>4 DEF Cleanup
  <2> QED
    BY <1>1, <2>1, <2>2, <2>3, <2>4 DEF Begin
<1>2. CASE SubsStep(self)
  <2>1. CASE Register(self)
    BY <1>0, <2>1 DEF Register
  <2>2. CASE Publish(self)
    BY <1>0, <2>2 DEF Publish, PhaseInv, InitSteps
  <2>3. CASE Connect(self) \/ AlreadyConnected(self) \/ NoAddress(self)
    BY <1>0, <2>3 DEF Connect, AlreadyConnected, NoAddress
  <2>4. CASE Connected(self) \/ Subscribe(self)
    BY <1>0, <2>4 DEF Connected, Subscribe
  <2>5. CASE Fits(self)
    <3>1. <<block, count + 1>> \in Places
      BY <1>0, <2>5 DEF Fits, Places
    <3> QED
      BY <1>0, <2>5, <3>1 DEF Fits
  <2>6. CASE Grow(self)
    <3>1. NextCapacity \in Nat /\ NextCapacity > count
      BY <2>6, CapacityAssumption DEF Grow, NextCapacity
    <3>2. block' \in Nat /\ <<block', count + 1>> \in Places
      BY <1>0, <2>6 DEF Grow, Places
    <3> QED
      BY <1>0, <2>6, <3>1, <3>2 DEF Grow
  <2>7. CASE GrowFails(self)
    BY <1>0, <2>7 DEF GrowFails
  <2>8. CASE Fill(self)
    <3>1. /\ step[self] = "fill" /\ extension = "live" /\ count = watches
          /\ watches' = watches + 1 /\ watches + 1 \in 1..MaxWatches
          /\ place[self] = <<block, watches + 1>> /\ wanted[self] \in Channels
      BY <1>0, <2>8 DEF Fill
    <3>2. slots' = [slots EXCEPT ![watches + 1] =
                      [id |-> watches + 1, channel |-> wanted[self],
                       active |-> TRUE]]
      BY <2>8, <3>1 DEF Fill
    <3>3. [id |-> watches + 1, channel |-> wanted[self], active |-> TRUE] \in Slot
      BY <1>0, <3>1 DEF Slot, Ids
    <3>4. slots' \in [1..MaxWatches -> Slot] /\ dangling' \in BOOLEAN
      BY <2>8, <3>1, <3>2, <3>3 DEF Fill
    <3>5. slots'[watches + 1].channel = wanted[self]
      BY <3>1, <3>2
    <3> QED
      BY <1>0, <2>8, <3>1, <3>4, <3>5 DEF Fill
  <2>9. CASE Count(self)
    <3>1. /\ step[self] = "count" /\ extension = "live" /\ watches = count + 1
          /\ place[self] = <<block, count + 1>> /\ count < capacity
          /\ wanted[self] \in Channels /\ count + 1 \in 1..MaxWatches
      BY <1>0, <2>9 DEF Count
    <3>2. [id |-> slots[place[self][2]].id, channel |-> wanted[self],
           at |-> place[self]] \in Held
      BY <1>0, <3>1 DEF Held, Slot
    <3>3. held' \subseteq Held
      BY <2>9, <3>2 DEF Count
    <3>4. /\ step' = [step EXCEPT ![self] = "idle"] /\ count' = count + 1
          /\ UNCHANGED <<extension, wanted, refused, place, slots, capacity,
                         block, watches, unwatched, dangling>>
      BY <2>9 DEF Count
    <3>5. count' \in 0..MaxWatches /\ count' <= capacity'
      BY <1>0, <3>1, <3>4
    <3> QED
      BY <1>0, <3>1, <3>3, <3>4, <3>5
  <2>10. CASE Destroy(self)
    BY <1>0, <2>10 DEF Destroy
  <2>11. CASE Discard(self)
    <3>1. slots' \in [1..MaxWatches -> Slot]
      <4>1. Empty \in Slot
        BY <1>0 DEF Empty, Slot, Ids
      <4> QED
        BY <2>11, <4>1 DEF Discard
    <3>2. /\ step' = [step EXCEPT ![self] = "idle"] /\ extension' = "gone"
          /\ count' = 0 /\ capacity' = 0 /\ block' = 0
          /\ UNCHANGED <<wanted, refused, place, watches, appVars, dangling>>
      BY <2>11 DEF Discard
    <3> QED
      BY <1>0, <3>1, <3>2
  <2>12. CASE ClientStep(self)
    BY <1>0, <2>12 DEF ClientStep
  <2> QED
    BY <1>2, <2>1, <2>2, <2>3, <2>4, <2>5, <2>6, <2>7, <2>8, <2>9, <2>10,
       <2>11, <2>12 DEF SubsStep
<1>3. ASSUME NEW w \in Workers, Background(w)
      PROVE  SubsTypeOK' /\ RecordInv(self)'
  BY <1>0, <1>3 DEF Background, subsVars
<1>4. CASE UNCHANGED allVars
  BY <1>0, <1>4 DEF allVars, subsVars
<1> QED
  BY <1>1, <1>2, <1>3, <1>4 DEF SubsNext, SubsFinished, Finished, allVars

\* Every step keeps ids and slots together, but for one that passes an id in
\* place after the array moved.
LEMMA IdStep ==
  ASSUME NEW self, SingleThread(self), IInv, SubsTypeOK,
         PhaseInv(self), RecordInv(self), IdInv, [SubsNext]_allVars, ~dangling'
  PROVE  IdInv'
<1> USE DEF SingleThread, RecordInv, WatchSteps, Steps, Goto, arrayVars,
            appVars, IdInv, SubsTypeOK
<1>0. self \in Callers /\ MaxWatches \in Nat
  BY WatchesAssumption
<1>1. CASE Begin(self)
  <2>1. CASE InitClient(self)
    BY <1>0, <2>1 DEF InitClient
  <2>2. CASE \E c \in Channels : Watch(self, c)
    BY <1>0, <2>2 DEF Watch
  <2>3. CASE \E h \in held, copied \in BOOLEAN : Unwatch(self, h, copied)
    <3>1. PICK h \in held, copied \in BOOLEAN : Unwatch(self, h, copied)
      BY <2>3
    <3>2. /\ extension = "live" /\ watches = count
          /\ h.id \in 1..count /\ count <= MaxWatches
          /\ UNCHANGED <<extension, watches, count, held>>
      BY <1>0, <3>1 DEF Unwatch
    <3>3. Matches(h, h.id) = {h.id}
      BY <1>0, <3>2 DEF Matches
    <3>6. IdOf(h, copied) = {h.id}
      <4>1. copied \/ InPlace(h)
        BY <3>1 DEF Unwatch
      <4>2. slots[h.at[2]].id = h.id
        BY <3>2
      <4> QED
        BY <4>1, <4>2 DEF IdOf
    <3>4. slots' = [slots EXCEPT ![h.id] = Deactivated(slots[h.id])]
          /\ unwatched' = unwatched \cup {h.id}
      BY <3>1, <3>3, <3>6 DEF Unwatch
    <3>5. ASSUME NEW i \in 1..watches
          PROVE  /\ slots'[i].id = i /\ slots'[i].channel = slots[i].channel
                 /\ slots'[i].active <=> i \notin unwatched'
      <4>1. CASE i = h.id
        BY <1>0, <3>2, <3>4, <4>1 DEF Deactivated
      <4>2. CASE i # h.id
        BY <1>0, <3>2, <3>4, <4>2
      <4> QED
        BY <4>1, <4>2
    <3> QED
      BY <3>2, <3>4, <3>5
  <2>4. CASE Cleanup(self)
    BY <1>0, <2>4 DEF Cleanup
  <2> QED
    BY <1>1, <2>1, <2>2, <2>3, <2>4 DEF Begin
<1>2. CASE SubsStep(self)
  <2>1. CASE Register(self)
    BY <1>0, <2>1 DEF Register
  <2>2. CASE Publish(self)
    <3>1. extension = "none" /\ extension' = "live"
      BY <1>0, <2>2 DEF Publish, PhaseInv, InitSteps
    <3>2. watches' = 0 /\ count' = 0 /\ held' = {} /\ unwatched' = {}
      BY <2>2, <3>1 DEF Publish
    <3> QED
      BY <3>1, <3>2
  <2>3. CASE Connect(self) \/ AlreadyConnected(self) \/ NoAddress(self)
    BY <1>0, <2>3 DEF Connect, AlreadyConnected, NoAddress
  <2>4. CASE Connected(self) \/ Subscribe(self)
    BY <1>0, <2>4 DEF Connected, Subscribe
  <2>5. CASE Fits(self) \/ Grow(self) \/ GrowFails(self)
    BY <1>0, <2>5 DEF Fits, Grow, GrowFails
  <2>6. CASE Fill(self)
    <3>1. /\ extension = "live" /\ count = watches /\ watches' = watches + 1
          /\ watches + 1 \in 1..MaxWatches
          /\ place[self] = <<block, watches + 1>>
          /\ UNCHANGED <<extension, count, held, unwatched>>
      BY <1>0, <2>6 DEF Fill
    <3>2. slots' = [slots EXCEPT ![watches + 1] =
                      [id |-> watches + 1, channel |-> wanted[self],
                       active |-> TRUE]]
      BY <2>6, <3>1 DEF Fill
    <3>3. ASSUME NEW i \in 1..watches
          PROVE  slots'[i] = slots[i]
      BY <3>1, <3>2
    <3>4. /\ slots'[watches + 1].id = watches + 1
          /\ slots'[watches + 1].active
      BY <3>1, <3>2
    <3>5. watches + 1 \notin unwatched
      <4>1. unwatched \subseteq 1..watches /\ watches \in Nat
        BY <1>0, <3>1
      <4> QED
        BY <4>1
    <3>6. \A i \in 1..watches' : i \in 1..watches \/ i = watches + 1
      BY <1>0, <3>1
    <3>7. \A h \in held : h.id \in 1..watches
      BY <3>1
    <3>8. \A i \in 1..watches' :
            slots'[i].id = i /\ (slots'[i].active <=> i \notin unwatched')
      BY <3>1, <3>3, <3>4, <3>5, <3>6
    <3>9. \A h \in held' :
            /\ h.id \in 1..count' /\ h.at[2] = h.id
            /\ slots'[h.id].channel = h.channel
      BY <3>1, <3>3, <3>7
    <3> QED
      BY <3>1, <3>8, <3>9
  <2>7. CASE Count(self)
    <3>1. /\ extension = "live" /\ watches = count + 1 /\ count' = count + 1
          /\ slots[count + 1].channel = wanted[self]
          /\ place[self] = <<block, count + 1>>
          /\ UNCHANGED <<extension, watches, slots, unwatched>>
      BY <1>0, <2>7 DEF Count
    <3>2. slots[count + 1].id = count + 1
      BY <1>0, <3>1
    <3> DEFINE new == [id |-> count + 1, channel |-> wanted[self],
                       at |-> place[self]]
    <3>3. held' = held \cup {new}
      BY <2>7, <3>1, <3>2 DEF Count
    <3>4. /\ new.id = count + 1 /\ new.channel = wanted[self]
          /\ new.at[2] = count + 1
      BY <3>1
    <3>5. \A i \in 1..count' : i \in 1..count \/ i = count + 1
      BY <1>0, <3>1
    <3>6. 1..count \subseteq 1..count' /\ count + 1 \in 1..count'
      BY <1>0, <3>1
    <3> HIDE DEF new
    <3> QED
      BY <3>1, <3>3, <3>4, <3>5, <3>6
  <2>8. CASE Destroy(self)
    BY <1>0, <2>8 DEF Destroy
  <2>9. CASE Discard(self)
    BY <1>0, <2>9 DEF Discard
  <2>10. CASE ClientStep(self)
    BY <1>0, <2>10 DEF ClientStep
  <2> QED
    BY <1>2, <2>1, <2>2, <2>3, <2>4, <2>5, <2>6, <2>7, <2>8, <2>9, <2>10
    DEF SubsStep
<1>3. ASSUME NEW w \in Workers, Background(w)
      PROVE  IdInv'
  BY <1>0, <1>3 DEF Background, subsVars
<1>4. CASE UNCHANGED allVars
  BY <1>0, <1>4 DEF allVars, subsVars
<1> QED
  BY <1>1, <1>2, <1>3, <1>4 DEF SubsNext, SubsFinished, Finished, allVars

-----------------------------------------------------------------------------
(* The theorems. *)

\* What holds of one thread in every state, however it passes the ids.
SubsInv(self) ==
  SubsTypeOK /\ PhaseInv(self) /\ RecordInv(self) /\ ConnInv(self)

LEMMA SubsInvInit ==
  ASSUME NEW self, SingleThread(self), SubsInit
  PROVE  SubsInv(self)
<1>1. TypeOK
  BY TypeInit DEF SubsInit
<1>2. Empty \in Slot /\ <<0, 0>> \in Places
  BY WatchesAssumption DEF Empty, Slot, Ids, Places
<1>3. slots \in [1..MaxWatches -> Slot] /\ place \in [Callers -> Places]
  BY <1>2 DEF SubsInit
<1>4. /\ extension \in {"none", "live", "gone"}
      /\ step \in [Callers -> Steps]
      /\ wanted \in [Callers -> Channels \cup {None}]
      /\ refused \subseteq Callers /\ held \subseteq Held
      /\ unwatched \subseteq Ids /\ dangling \in BOOLEAN
  BY DEF SubsInit, Steps
<1>5. /\ count \in 0..MaxWatches /\ capacity \in Nat /\ block \in Nat
      /\ count <= capacity /\ watches \in 0..MaxWatches
  BY WatchesAssumption DEF SubsInit
<1>6. SubsTypeOK
  BY <1>1, <1>3, <1>4, <1>5 DEF SubsTypeOK
<1>7. PhaseInv(self) /\ RecordInv(self) /\ ConnInv(self)
  BY DEF SingleThread, SubsInit, Init, PhaseInv, RecordInv, ConnInv,
         WatchSteps, InitSteps, ConnectPcs
<1> QED
  BY <1>6, <1>7 DEF SubsInv

LEMMA SubsInvAlways ==
  ASSUME NEW self, SingleThread(self)
  PROVE  SubsSpec => [](IInv /\ SubsInv(self))
<1>1. SubsInit => SubsInv(self)
  BY SubsInvInit
<1>2. IInv /\ SubsInv(self) /\ [SubsNext]_allVars => SubsInv(self)'
  BY RecordStep, PhaseStep, ConnStep DEF SubsTypeOK, SubsInv
<1>3. SubsSpec => []IInv
  BY UsesClient, Inductive, PTL
<1> QED
  BY <1>1, <1>2, <1>3, PTL DEF SubsSpec

\* With one application thread every variable keeps its type, and the array is
\* never fuller than its capacity (add_subscription grows it in time).
THEOREM SubsTypes ==
  ASSUME NEW self, Callers = {self}
  PROVE  SubsSpec => []SubsTypeOK
<1>1. SingleThread(self)
  BY DEF SingleThread
<1>2. SubsInv(self) => SubsTypeOK
  BY DEF SubsInv
<1> QED
  BY <1>1, <1>2, SubsInvAlways, PTL

\* With one application thread a recorded subscription is one of a connected
\* client with a live background thread: the watch functions record nothing
\* when the connect failed, and nothing disconnects before the cleanup.
THEOREM SubsConnected ==
  ASSUME NEW self, Callers = {self}
  PROVE  SubsSpec => []ActiveMeansConnected
<1>1. SingleThread(self)
  BY DEF SingleThread
<1>2. IInv /\ SubsInv(self) => ActiveMeansConnected
  <2> SUFFICES ASSUME IInv, SubsInv(self), NoCall, NEW i \in 1..count
               PROVE  /\ flag["cConnected"] /\ flag["iConnected"]
                      /\ handle \in Workers /\ Alive(handle)
    BY DEF ActiveMeansConnected
  <2>1. extension = "live" /\ step[self] = "idle" /\ count > 0
    BY DEF NoCall, SubsInv, SubsTypeOK
  <2>2. flag["cConnected"] /\ object = "live" /\ pc[self] = "idle"
    BY <2>1 DEF SubsInv, ConnInv, PhaseInv
  <2>3. \A t \in Callers : pc[t] \notin WritingPcs
    BY <2>2 DEF WritingPcs
  <2>4. /\ \A f, g \in Fields : flag[f] = flag[g]
        /\ flag["cRunning"] => handle \in Workers /\ Alive(handle)
    BY <2>2, <2>3 DEF IInv, QuietInv, Quiet
  <2> QED
    BY <2>2, <2>4 DEF Fields
<1> QED
  BY <1>1, <1>2, SubsInvAlways, PTL

\* With one application thread an id finds its own subscription, as a copy and,
\* until the array moves, in place, whatever the array went through, as long as
\* no id was passed in place after a move.
THEOREM SubsIds ==
  ASSUME NEW self, Callers = {self}
  PROVE  SubsSpec => []IdFindsOwn
<1>1. SingleThread(self)
  BY DEF SingleThread
<1>2. SubsInit => dangling \/ IdInv
  BY DEF SubsInit, IdInv
<1>3. IInv /\ SubsInv(self) /\ (dangling \/ IdInv) /\ [SubsNext]_allVars
        => (dangling' \/ IdInv')
  <2>1. [SubsNext]_allVars /\ dangling => dangling'
    <3> SUFFICES ASSUME [SubsNext]_allVars, dangling
                 PROVE  dangling'
      OBVIOUS
    <3>1. ASSUME NEW t \in Callers, Begin(t)
          PROVE  dangling'
      BY <3>1 DEF Begin, InitClient, Watch, Unwatch, Cleanup
    <3>2. ASSUME NEW t \in Callers, SubsStep(t)
          PROVE  dangling'
      BY <3>2 DEF SubsStep, Register, Publish, AlreadyConnected, Connect,
             Connected, NoAddress, Subscribe, Fits, Grow, GrowFails, Fill,
             Count, Destroy, Discard, ClientStep
    <3>3. CASE (\E w \in Workers : Background(w)) \/ SubsFinished
               \/ UNCHANGED allVars
      BY <3>3 DEF Background, SubsFinished, allVars, subsVars
    <3> QED
      BY <3>1, <3>2, <3>3 DEF SubsNext
  <2> QED
    BY <1>1, <2>1, IdStep DEF SubsInv
<1>4. SubsInv(self) /\ (dangling \/ IdInv) => IdFindsOwn
  <2> SUFFICES ASSUME SubsInv(self), IdInv, NoCall
               PROVE  /\ \A h \in held :
                           \E i \in 1..count :
                             /\ Matches(h, h.id) = {i}
                             /\ InPlace(h) => h.at[2] = i
                             /\ slots[i].channel = h.channel
                             /\ slots[i].active <=> h.id \notin unwatched
                      /\ \A i \in 1..count : \E h \in held : h.id = slots[i].id
    BY DEF IdFindsOwn
  <2>1. /\ extension = "live" /\ watches = count
        /\ \A i \in 1..count :
             slots[i].id = i /\ (slots[i].active <=> i \notin unwatched)
    BY DEF NoCall, SubsInv, RecordInv, IdInv
  <2>2. ASSUME NEW h \in held
        PROVE  \E i \in 1..count :
                 /\ Matches(h, h.id) = {i}
                 /\ InPlace(h) => h.at[2] = i
                 /\ slots[i].channel = h.channel
                 /\ slots[i].active <=> h.id \notin unwatched
    <3>1. /\ h.id \in 1..count /\ h.at[2] = h.id
          /\ slots[h.id].channel = h.channel
      BY <2>1 DEF IdInv
    <3>2. Matches(h, h.id) = {h.id}
      BY <2>1, <3>1 DEF Matches
    <3> QED
      BY <2>1, <3>1, <3>2
  <2>3. \A i \in 1..count : \E h \in held : h.id = slots[i].id
    BY <2>1 DEF IdInv
  <2> QED
    BY <2>2, <2>3
<1> QED
  BY <1>1, <1>2, <1>3, <1>4, SubsInvAlways, PTL DEF SubsSpec

=============================================================================
