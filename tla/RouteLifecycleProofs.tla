------------------------ MODULE RouteLifecycleProofs ------------------------
(***************************************************************************)
(* Proofs about RouteLifecycle, for any sets of routes, configurations,    *)
(* tasks and threads.  The inductive invariant is proved in layers: the    *)
(* types, then what each task's locals are, then who holds the locks, then *)
(* who owns the threads.  On those layers rest the safety properties, that *)
(* a removed route is stopped and forgotten, that a route has one pipeline *)
(* and that the next one waits for its teardown, and the refinement of     *)
(* RouteService; at the end stands what that service promises, and so what *)
(* the lifecycle keeps.                                                    *)
(***************************************************************************)
EXTENDS RouteLifecycle, TLAPS

-----------------------------------------------------------------------------
(* Types                                                                   *)

\* A flagged or reclaimed thread is still a thread.
LEMMA WorkerUpdates ==
  ASSUME worker \in [Workers -> WorkerRecords \cup {Gone}], NEW ts
  PROVE  /\ RequestStop(ts) => worker' \in [Workers -> WorkerRecords \cup {Gone}]
         /\ Reclaim(ts) => worker' \in [Workers -> WorkerRecords \cup {Gone}]
<1>1. ASSUME RequestStop(ts) PROVE worker' \in [Workers -> WorkerRecords \cup {Gone}]
  <2>1. ASSUME NEW t \in Workers, worker[t] # Gone
        PROVE  [worker[t] EXCEPT !.stop = TRUE] \in WorkerRecords
    BY <2>1 DEF WorkerRecords
  <2> QED BY <1>1, <2>1 DEF RequestStop
<1>2. ASSUME Reclaim(ts) PROVE worker' \in [Workers -> WorkerRecords \cup {Gone}]
  BY <1>2 DEF Reclaim
<1> QED BY <1>1, <1>2

LEMMA TypeInit == Init => TypeOK
<1> SUFFICES ASSUME Init PROVE TypeOK
  OBVIOUS
<1>1. /\ routes \in [Routes -> Configs \cup {NoConfig}]
      /\ running \in [Routes -> SUBSET Workers]
      /\ failures \in [Routes -> {"none", "waiting", "due"}]
      /\ lock \in [Routes -> Procs \cup {NoProc}]
      /\ worker \in [Workers -> WorkerRecords \cup {Gone}]
  BY DEF Init
<1>2. /\ pc \in [Procs -> ClientLabels]
      /\ rid \in [Procs -> Routes \cup {NoRoute}]
      /\ arg \in [Procs -> Configs \cup {NoConfig}]
      /\ held \in [Procs -> SUBSET Workers]
      /\ calm \in BOOLEAN
  BY DEF Init, ClientLabels
<1>3. todo \in [Procs -> SUBSET (Routes \X (Configs \cup {NoConfig}))]
  BY DEF Init
<1>4. \A p \in Procs : pc[p] = "idle"
  BY DEF Init
<1>5. pool = {} /\ unstopped = {} /\ unforgotten = {}
  BY DEF Init
<1> QED BY <1>1, <1>2, <1>3, <1>4, <1>5 DEF TypeOK

LEMMA TypeStep == TypeOK /\ [Next]_vars => TypeOK'
<1> SUFFICES ASSUME TypeOK, [Next]_vars PROVE TypeOK'
  OBVIOUS
<1> USE DEF maps, locals, loose, Procs
<1>1. ASSUME NEW p \in Clients, Apply(p) PROVE TypeOK'
  <2> PICK r \in Routes, c \in Configs :
             /\ rid' = [rid EXCEPT ![p] = r]
             /\ arg' = [arg EXCEPT ![p] = c]
             /\ pc' = [pc EXCEPT ![p] = IF Changed(r, c) THEN "insert" ELSE "reinsert"]
    BY <1>1 DEF Apply, Goto
  <2>1. r # NoRoute
    BY SentinelAssumption
  <2> QED BY <1>1, <2>1 DEF Apply, TypeOK, ClientLabels
<1>2. ASSUME NEW p \in Clients, Remove(p) PROVE TypeOK'
  <2> PICK r \in Routes : /\ routes' = [routes EXCEPT ![r] = NoConfig]
                          /\ rid' = [rid EXCEPT ![p] = r]
    BY <1>2 DEF Remove
  <2>1. r # NoRoute
    BY SentinelAssumption
  <2> QED BY <1>2, <2>1 DEF Remove, Goto, TypeOK, ClientLabels
<1>3. ASSUME NEW p \in Clients, Insert(p) PROVE TypeOK'
  BY <1>3 DEF Insert, Goto, Leave, TypeOK, ClientLabels, SweepLabels
<1>4. ASSUME NEW p \in Clients, Stop(p) PROVE TypeOK'
  BY <1>4, WorkerUpdates DEF Stop, TakeDown, Goto, TypeOK, ClientLabels
<1>5. ASSUME NEW p \in Clients, Join(p) PROVE TypeOK'
  BY <1>5, WorkerUpdates DEF Join, JoinHeld, Goto, TypeOK, ClientLabels
<1>6. ASSUME NEW p \in Clients, Clear(p) PROVE TypeOK'
  BY <1>6 DEF Clear, Unlock, Leave, Goto, TypeOK, ClientLabels, StartLabels, SweepLabels
<1>7. ASSUME NEW p \in Clients \cup Sweepers, Lock(p) PROVE TypeOK'
  BY <1>7 DEF Lock, Goto, TypeOK, ClientLabels, StartLabels
<1>8. ASSUME NEW p \in Clients \cup Sweepers, Check(p) PROVE TypeOK'
  BY <1>8 DEF Check, Unlock, Leave, Goto, TypeOK, ClientLabels, StartLabels, SweepLabels
<1>9. ASSUME NEW p \in Clients \cup Sweepers, Probe(p) PROVE TypeOK'
  BY <1>9 DEF Probe, Unlock, Leave, Goto, TypeOK, ClientLabels, StartLabels, SweepLabels
<1>10. ASSUME NEW p \in Clients \cup Sweepers, Evict(p) PROVE TypeOK'
  BY <1>10, WorkerUpdates DEF Evict, TakeDown, Goto, TypeOK, StartLabels
<1>11. ASSUME NEW p \in Clients \cup Sweepers, Reap(p) PROVE TypeOK'
  BY <1>11, WorkerUpdates DEF Reap, JoinHeld, RecordFailure, Goto, TypeOK, StartLabels
<1>12. ASSUME NEW p \in Clients \cup Sweepers, Retry(p) PROVE TypeOK'
  BY <1>12 DEF Retry, Unlock, Leave, Goto, TypeOK, ClientLabels, StartLabels, SweepLabels
<1>13. ASSUME NEW p \in Clients \cup Sweepers, SpawnSend(p) \/ SpawnRecv(p) PROVE TypeOK'
  <2> PICK side \in Sides, next \in {"recv", "commit"} : SpawnHalf(p, side, next)
    BY <1>13 DEF SpawnSend, SpawnRecv, Sides
  <2>0. rid[p] \in Routes
    BY DEF SpawnHalf, TypeOK, Sides
  <2>1. CASE side \notin Roles[arg[p]]
    BY <2>0, <2>1, SentinelAssumption DEF SpawnHalf, Goto, TypeOK, StartLabels
  <2>2. CASE side \in Roles[arg[p]]
    <3> PICK t \in Workers :
               /\ worker' = [worker EXCEPT ![t] = NewWorker(rid[p], side, arg[p])]
               /\ held' = [held EXCEPT ![p] = @ \cup {t}]
      BY <2>2 DEF SpawnHalf
    <3>1. NewWorker(rid[p], side, arg[p]) \in WorkerRecords
      BY <2>0 DEF NewWorker, WorkerRecords, TypeOK
    <3> QED BY <2>0, <3>1, SentinelAssumption DEF SpawnHalf, Goto, TypeOK, StartLabels
  <2> QED BY <2>1, <2>2
<1>14. ASSUME NEW p \in Clients \cup Sweepers, StartFails(p) PROVE TypeOK'
  BY <1>14 DEF StartFails, RecordFailure, Unlock, Leave, Goto, TypeOK, ClientLabels, SweepLabels
<1>15. ASSUME NEW p \in Clients \cup Sweepers, Commit(p) PROVE TypeOK'
  BY <1>15 DEF Commit, Unlock, Leave, Goto, TypeOK, ClientLabels, SweepLabels
<1>16. ASSUME NEW p \in Sweepers, Snapshot(p) PROVE TypeOK'
  <2>1. {<<r, routes[r]>> : r \in {x \in Scope[p] : routes[x] # NoConfig}}
          \subseteq Routes \X (Configs \cup {NoConfig})
    BY ScopeAssumption DEF TypeOK
  <2> QED BY <1>16, <2>1 DEF Snapshot, Goto, TypeOK, SweepLabels
<1>17. ASSUME NEW p \in Sweepers, NextRoute(p) PROVE TypeOK'
  <2>1. CASE todo[p] = {} /\ Goto(p, "idle") /\ UNCHANGED <<rid, arg, todo>>
    BY <1>17, <2>1 DEF NextRoute, Goto, TypeOK, ClientLabels
  <2>2. CASE \E e \in todo[p] : /\ todo' = [todo EXCEPT ![p] = @ \ {e}]
                               /\ rid' = [rid EXCEPT ![p] = e[1]]
                               /\ arg' = [arg EXCEPT ![p] = e[2]]
                               /\ Goto(p, "lock")
    <3> PICK e \in todo[p] : /\ todo' = [todo EXCEPT ![p] = @ \ {e}]
                             /\ rid' = [rid EXCEPT ![p] = e[1]]
                             /\ arg' = [arg EXCEPT ![p] = e[2]]
                             /\ Goto(p, "lock")
      BY <2>2
    <3>1. e[1] \in Routes /\ e[2] \in Configs \cup {NoConfig} /\ e[1] # NoRoute
      BY SentinelAssumption DEF TypeOK
    <3> QED BY <1>17, <3>1 DEF NextRoute, Goto, TypeOK, ClientLabels
  <2> QED BY <1>17, <2>1, <2>2 DEF NextRoute
<1>18. ASSUME NEW p \in Drainers, FlagDevices(p) PROVE TypeOK'
  BY <1>18, WorkerUpdates DEF FlagDevices, Goto, TypeOK, DrainLabels
<1>19. ASSUME NEW p \in Drainers, Collect(p) PROVE TypeOK'
  BY <1>19 DEF Collect, Goto, TypeOK, DrainLabels
<1>20. ASSUME NEW p \in Drainers, Drain(p) PROVE TypeOK'
  BY <1>20, WorkerUpdates DEF Drain, TypeOK
<1>21. ASSUME NEW p \in Drainers, JoinDrained(p) PROVE TypeOK'
  BY <1>21, WorkerUpdates DEF JoinDrained, JoinHeld, Goto, TypeOK, ClientLabels
<1>22. ASSUME NEW t \in Workers, Open(t) \/ Exit(t) \/ Fail(t) \/ Vanish(t) PROVE TypeOK'
  BY <1>22 DEF Open, Exit, Fail, Vanish, TypeOK, WorkerRecords, Gone
<1>23. ASSUME NEW r \in Routes, BackoffElapses(r) PROVE TypeOK'
  BY <1>23 DEF BackoffElapses, TypeOK
<1>24. ASSUME NEW p \in Clients \cup Drainers, Dropped(p) PROVE TypeOK'
  <2>1. CASE DroppedAtLock(p) \/ DroppedAtDrain(p)
    BY <1>24, <2>1 DEF Dropped, DroppedAtLock, DroppedAtDrain, Leave, Goto, TypeOK, ClientLabels, SweepLabels
  <2>2. CASE DroppedAtJoin(p) \/ DroppedAtStart(p)
    BY <1>24, <2>2 DEF Dropped, DroppedAtJoin, DroppedAtStart, Unlock, Leave, Goto, TypeOK, ClientLabels,
      SweepLabels, Sides
  <2> QED BY <1>24, <2>1, <2>2 DEF Dropped
<1>25. CASE UNCHANGED vars
  BY <1>25 DEF vars, TypeOK
<1> QED
  BY <1>1, <1>2, <1>3, <1>4, <1>5, <1>6, <1>7, <1>8, <1>9, <1>10, <1>11, <1>12, <1>13,
     <1>14, <1>15, <1>16, <1>17, <1>18, <1>19, <1>20, <1>21, <1>22, <1>23, <1>24, <1>25
     DEF Next, ClientStep, SweepStep, DrainStep, StartStep

\* Every variable keeps its type.
THEOREM TypeCorrect == Spec => []TypeOK
BY TypeInit, TypeStep, PTL DEF Spec

-----------------------------------------------------------------------------
(* The tasks' locals                                                       *)

LEMMA LocalsInit == Init => LocalsInv
BY ProcsAssumption DEF Init, LocalsInv, ClientLabels, StartLabels, Procs

LEMMA LocalsStep == TypeOK /\ LocalsInv /\ [Next]_vars => LocalsInv'
<1> SUFFICES ASSUME TypeOK, LocalsInv, [Next]_vars PROVE LocalsInv'
  OBVIOUS
<1> USE ProcsAssumption, SentinelAssumption
        DEF maps, locals, loose, Procs, LocalsInv, TypeOK, ClientLabels, StartLabels, SweepLabels, DrainLabels
<1>1. ASSUME NEW p \in Clients, Apply(p) PROVE LocalsInv'
  BY <1>1 DEF Apply, Goto
<1>2. ASSUME NEW p \in Clients, Remove(p) PROVE LocalsInv'
  BY <1>2 DEF Remove, Goto
<1>3. ASSUME NEW p \in Clients, Insert(p) \/ Clear(p) PROVE LocalsInv'
  BY <1>3 DEF Insert, Clear, Unlock, Goto, Leave
<1>4. ASSUME NEW p \in Clients, Stop(p) \/ Join(p) PROVE LocalsInv'
  BY <1>4 DEF Stop, Join, TakeDown, JoinHeld, Goto
<1>5. ASSUME NEW p \in Clients \cup Sweepers, Lock(p) PROVE LocalsInv'
  BY <1>5 DEF Lock, Goto
<1>6. ASSUME NEW p \in Clients \cup Sweepers, Check(p) \/ Probe(p) \/ Retry(p) PROVE LocalsInv'
  BY <1>6 DEF Check, Probe, Retry, Unlock, Leave, Goto
<1>7. ASSUME NEW p \in Clients \cup Sweepers, Evict(p) \/ Reap(p) PROVE LocalsInv'
  BY <1>7 DEF Evict, Reap, TakeDown, JoinHeld, Goto
<1>8. ASSUME NEW p \in Clients \cup Sweepers, SpawnSend(p) \/ SpawnRecv(p) PROVE LocalsInv'
  BY <1>8 DEF SpawnSend, SpawnRecv, SpawnHalf, Goto
<1>9. ASSUME NEW p \in Clients \cup Sweepers, StartFails(p) \/ Commit(p) PROVE LocalsInv'
  BY <1>9 DEF StartFails, Commit, Unlock, Leave, Goto, Sides
<1>10. ASSUME NEW p \in Sweepers, Snapshot(p) PROVE LocalsInv'
  <2>1. {<<r, routes[r]>> : r \in {x \in Scope[p] : routes[x] # NoConfig}} \subseteq Routes \X Configs
    BY ScopeAssumption
  <2> QED BY <1>10, <2>1 DEF Snapshot, Goto
<1>11. ASSUME NEW p \in Sweepers, NextRoute(p) PROVE LocalsInv'
  BY <1>11 DEF NextRoute, Goto
<1>12. ASSUME NEW p \in Drainers, FlagDevices(p) \/ Collect(p) \/ Drain(p) \/ JoinDrained(p)
       PROVE LocalsInv'
  BY <1>12 DEF FlagDevices, Collect, Drain, JoinDrained, JoinHeld, Goto
<1>13. ASSUME NEW t \in Workers, Open(t) \/ Exit(t) \/ Fail(t) \/ Vanish(t) PROVE LocalsInv'
  BY <1>13 DEF Open, Exit, Fail, Vanish
<1>14. CASE (\E r \in Routes : BackoffElapses(r)) \/ UNCHANGED vars
  BY <1>14 DEF BackoffElapses, vars
<1>15. ASSUME NEW p \in Clients \cup Drainers, Dropped(p) PROVE LocalsInv'
  BY <1>15
     DEF Dropped, DroppedAtLock, DroppedAtJoin, DroppedAtStart, DroppedAtDrain, Unlock, Leave, Goto, Sides
<1> QED
  BY <1>1, <1>2, <1>3, <1>4, <1>5, <1>6, <1>7, <1>8, <1>9, <1>10, <1>11, <1>12, <1>13, <1>14, <1>15
     DEF Next, ClientStep, SweepStep, DrainStep, StartStep

-----------------------------------------------------------------------------
(* The routes' locks                                                       *)

LEMMA LockInit == Init => LockInv
BY DEF Init, LockInv, Critical, StartLabels

LEMMA LockStep == TypeOK /\ LocalsInv /\ LockInv /\ [Next]_vars => LockInv'
<1> SUFFICES ASSUME TypeOK, LocalsInv, LockInv, [Next]_vars PROVE LockInv'
  OBVIOUS
<1> USE ProcsAssumption, SentinelAssumption
        DEF maps, locals, loose, Procs, LockInv, TypeOK, LocalsInv, Critical, StartLabels, ClientLabels,
            SweepLabels, DrainLabels
<1>1. ASSUME NEW p \in Clients, Apply(p) PROVE LockInv'
  BY <1>1 DEF Apply, Goto
<1>2. ASSUME NEW p \in Clients, Remove(p) PROVE LockInv'
  BY <1>2 DEF Remove, Goto
<1>3. ASSUME NEW p \in Clients, Insert(p) \/ Clear(p) PROVE LockInv'
  BY <1>3 DEF Insert, Clear, Unlock, Goto, Leave
<1>4. ASSUME NEW p \in Clients, Stop(p) \/ Join(p) PROVE LockInv'
  BY <1>4 DEF Stop, Join, TakeDown, JoinHeld, Goto
<1>5. ASSUME NEW p \in Clients \cup Sweepers, Lock(p) PROVE LockInv'
  BY <1>5 DEF Lock, LockFree, Goto
<1>6. ASSUME NEW p \in Clients \cup Sweepers, Check(p) \/ Probe(p) \/ Retry(p) PROVE LockInv'
  BY <1>6 DEF Check, Probe, Retry, Unlock, Leave, Goto
<1>7. ASSUME NEW p \in Clients \cup Sweepers, Evict(p) \/ Reap(p) PROVE LockInv'
  BY <1>7 DEF Evict, Reap, TakeDown, JoinHeld, Goto
<1>8. ASSUME NEW p \in Clients \cup Sweepers, SpawnSend(p) \/ SpawnRecv(p) PROVE LockInv'
  BY <1>8 DEF SpawnSend, SpawnRecv, SpawnHalf, Goto
<1>9. ASSUME NEW p \in Clients \cup Sweepers, StartFails(p) \/ Commit(p) PROVE LockInv'
  BY <1>9 DEF StartFails, Commit, Unlock, Leave, Goto, Sides
<1>10. ASSUME NEW p \in Sweepers, Snapshot(p) \/ NextRoute(p) PROVE LockInv'
  BY <1>10 DEF Snapshot, NextRoute, Goto
<1>11. ASSUME NEW p \in Drainers, FlagDevices(p) \/ Collect(p) \/ Drain(p) \/ JoinDrained(p)
       PROVE LockInv'
  BY <1>11 DEF FlagDevices, Collect, Drain, JoinDrained, JoinHeld, Goto
<1>12. ASSUME NEW t \in Workers, Open(t) \/ Exit(t) \/ Fail(t) \/ Vanish(t) PROVE LockInv'
  BY <1>12 DEF Open, Exit, Fail, Vanish
<1>13. CASE (\E r \in Routes : BackoffElapses(r)) \/ UNCHANGED vars
  BY <1>13 DEF BackoffElapses, vars
<1>14. ASSUME NEW p \in Clients \cup Drainers, Dropped(p) PROVE LockInv'
  BY <1>14
     DEF Dropped, DroppedAtLock, DroppedAtJoin, DroppedAtStart, DroppedAtDrain, Unlock, Leave, Goto, Sides
<1> QED
  BY <1>1, <1>2, <1>3, <1>4, <1>5, <1>6, <1>7, <1>8, <1>9, <1>10, <1>11, <1>12, <1>13, <1>14
     DEF Next, ClientStep, SweepStep, DrainStep, StartStep

-----------------------------------------------------------------------------
(* Who owns the threads                                                    *)

\* request_stop touches nothing of a thread but its flag.
LEMMA Flagged ==
  ASSUME TypeOK, NEW ts, RequestStop(ts), NEW t \in Workers
  PROVE  /\ worker'[t].st = worker[t].st
         /\ worker[t].st # "gone" =>
              /\ worker'[t].route = worker[t].route
              /\ worker'[t].side = worker[t].side
              /\ worker'[t].stop <=> worker[t].stop \/ t \in ts
<1>1. CASE worker[t] = Gone
  BY <1>1 DEF RequestStop, Gone
<1>2. CASE worker[t] \in WorkerRecords /\ t \notin ts
  BY <1>2 DEF RequestStop
<1>3. CASE worker[t] \in WorkerRecords /\ t \in ts
  <2>1. worker[t] # Gone
    BY <1>3 DEF WorkerRecords, Gone
  <2>2. worker'[t] = [worker[t] EXCEPT !.stop = TRUE]
    BY <1>3, <2>1 DEF RequestStop
  <2> QED BY <1>3, <2>2 DEF WorkerRecords
<1> QED BY <1>1, <1>2, <1>3 DEF TypeOK

\* A thread that comes around changes nothing but its own state.
LEMMA ComesAround ==
  ASSUME TypeOK, NEW t \in Workers, Open(t) \/ Exit(t) \/ Fail(t), NEW u \in Workers
  PROVE  /\ worker'[u].st = "gone" <=> worker[u].st = "gone"
         /\ worker'[u].route = worker[u].route
         /\ worker'[u].side = worker[u].side
         /\ worker'[u].stop = worker[u].stop
<1>1. PICK s \in {"live", "dead"} : worker' = [worker EXCEPT ![t].st = s]
  BY DEF Open, Exit, Fail
<1>2. worker[t].st # "gone"
  BY DEF Open, Exit, Fail
<1>3. worker[t] \in WorkerRecords
  BY <1>2 DEF TypeOK, Gone
<1>4. CASE u = t
  BY <1>1, <1>2, <1>3, <1>4 DEF TypeOK, WorkerRecords
<1>5. CASE u # t
  BY <1>1, <1>5 DEF TypeOK
<1> QED BY <1>4, <1>5

\* Nor does a thread's configuration change while it lives.
LEMMA ConfigKept ==
  ASSUME TypeOK, NEW t \in Workers, worker[t] # Gone,
         \/ \E ts \in SUBSET Workers : RequestStop(ts)
         \/ \E u \in Workers : Open(u) \/ Exit(u) \/ Fail(u)
  PROVE  worker'[t].config = worker[t].config
<1>1. worker[t] \in WorkerRecords
  BY DEF TypeOK
<1>2. CASE \E ts \in SUBSET Workers : RequestStop(ts)
  BY <1>1, <1>2 DEF RequestStop, WorkerRecords
<1>3. CASE \E u \in Workers : Open(u) \/ Exit(u) \/ Fail(u)
  <2> PICK u \in Workers, s \in {"live", "dead"} : worker' = [worker EXCEPT ![u].st = s]
    BY <1>3 DEF Open, Exit, Fail
  <2> QED BY <1>1 DEF TypeOK, WorkerRecords
<1> QED BY <1>2, <1>3

LEMMA HandlesInit == Init => HandlesInv
BY DEF Init, HandlesInv

LEMMA HandlesStep == TypeOK /\ LocalsInv /\ HandlesInv /\ [Next]_vars => HandlesInv'
<1> SUFFICES ASSUME TypeOK, LocalsInv, HandlesInv, [Next]_vars PROVE HandlesInv'
  OBVIOUS
<1> USE ProcsAssumption, SentinelAssumption
        DEF maps, locals, loose, Procs, TypeOK, HandlesInv
<1>1. ASSUME NEW p \in Clients, Apply(p) \/ Remove(p) \/ Insert(p) PROVE HandlesInv'
  BY <1>1 DEF Apply, Remove, Insert, Goto, Leave
<1>2. ASSUME NEW p \in Clients, Clear(p) PROVE HandlesInv'
  BY <1>2 DEF Clear, Unlock, Leave, Goto
<1>3. ASSUME NEW p \in Clients \cup Sweepers, Stop(p) \/ Evict(p) PROVE HandlesInv'
  <2>1. held[p] = {} /\ rid[p] \in Routes
    BY <1>3 DEF Stop, Evict
  <2> DEFINE ts == running[rid[p]]
  <2>2. /\ RequestStop(ts)
        /\ held' = [held EXCEPT ![p] = ts]
        /\ running' = [running EXCEPT ![rid[p]] = {}]
        /\ pc' = [pc EXCEPT ![p] = pc'[p]] /\ pc'[p] \in {"join", "reap"}
        /\ rid' = rid
    BY <1>3 DEF Stop, Evict, TakeDown, Goto
  <2> HIDE DEF ts
  <2>3. \A r \in Routes : \A t \in running'[r] : worker'[t].st # "gone" /\ worker'[t].route = r
    BY <2>1, <2>2, Flagged
  <2>4. \A r \in Routes, q \in Procs : running'[r] \cap held'[q] = {}
    BY <2>1, <2>2 DEF ts
  <2>5. \A q, u \in Procs : q # u => held'[q] \cap held'[u] = {}
    BY <2>1, <2>2 DEF ts
  <2>6. \A t \in ts : worker'[t].st # "gone" /\ worker'[t].stop
    BY <2>1, <2>2, Flagged DEF ts
  <2>7. \A q \in Procs \ {p} : held'[q] = held[q] /\ pc'[q] = pc[q]
    BY <2>2
  <2>8. \A q \in Procs : \A t \in held'[q] :
          /\ worker'[t].st # "gone"
          /\ pc'[q] \in {"recv", "commit", "join", "reap", "drain"}
          /\ pc'[q] \in {"join", "reap", "drain"} => worker'[t].stop
          /\ pc'[q] \in {"recv", "commit"} => worker'[t].route = rid'[q]
    <3> SUFFICES ASSUME NEW q \in Procs, NEW t \in held'[q]
                 PROVE  /\ worker'[t].st # "gone"
                        /\ pc'[q] \in {"recv", "commit", "join", "reap", "drain"}
                        /\ pc'[q] \in {"join", "reap", "drain"} => worker'[t].stop
                        /\ pc'[q] \in {"recv", "commit"} => worker'[t].route = rid'[q]
      OBVIOUS
    <3>1. CASE q = p
      BY <3>1, <2>2, <2>6
    <3>2. CASE q # p
      BY <3>2, <2>2, <2>7, Flagged
    <3> QED BY <3>1, <3>2
  <2> QED BY <2>3, <2>4, <2>5, <2>8
<1>4. ASSUME NEW p \in Clients \cup Sweepers \cup Drainers, Join(p) \/ Reap(p) \/ JoinDrained(p)
      PROVE HandlesInv'
  <2>1. \A t \in Workers : worker'[t] = IF t \in held[p] THEN Gone ELSE worker[t]
    BY <1>4 DEF Join, Reap, JoinDrained, JoinHeld, Reclaim
  <2>2. /\ running' = running /\ rid' = rid /\ held'[p] = {}
        /\ \A q \in Procs \ {p} : held'[q] = held[q] /\ pc'[q] = pc[q]
    BY <1>4 DEF Join, Reap, JoinDrained, JoinHeld, Goto
  <2> QED BY <2>1, <2>2
<1>5. ASSUME NEW p \in Clients \cup Sweepers, Lock(p) PROVE HandlesInv'
  BY <1>5 DEF Lock, Goto
<1>6. ASSUME NEW p \in Clients \cup Sweepers, Check(p) \/ Probe(p) \/ Retry(p) PROVE HandlesInv'
  BY <1>6 DEF Check, Probe, Retry, Unlock, Leave, Goto
<1>7. ASSUME NEW p \in Clients \cup Sweepers, SpawnSend(p) \/ SpawnRecv(p) PROVE HandlesInv'
  <2> PICK side \in Sides, next \in {"recv", "commit"} : SpawnHalf(p, side, next)
    BY <1>7 DEF SpawnSend, SpawnRecv, Sides
  <2>1. /\ running' = running /\ rid' = rid /\ pc[p] \in {"send", "recv"} /\ rid[p] \in Routes
        /\ pc'[p] \in {"recv", "commit"}
        /\ \A q \in Procs \ {p} : held'[q] = held[q] /\ pc'[q] = pc[q]
    BY DEF SpawnHalf, Sides, Goto
  <2>2. CASE UNCHANGED <<worker, held>>
    BY <2>1, <2>2
  <2>3. CASE \E t \in Workers :
               /\ worker[t] = Gone
               /\ worker' = [worker EXCEPT ![t] = NewWorker(rid[p], side, arg[p])]
               /\ held' = [held EXCEPT ![p] = @ \cup {t}]
    BY <2>1, <2>3 DEF NewWorker, Gone
  <2> QED BY <2>2, <2>3 DEF SpawnHalf
<1>8. ASSUME NEW p \in Clients \cup Sweepers, StartFails(p) \/ Commit(p) PROVE HandlesInv'
  <2>1. /\ UNCHANGED worker
        /\ \A q \in Procs \ {p} : pc'[q] = pc[q] /\ held'[q] = held[q] /\ rid'[q] = rid[q]
        /\ held'[p] = {}
    BY <1>8 DEF StartFails, Commit, Unlock, Leave, Goto
  <2>2. \A r \in Routes : \/ running'[r] = running[r]
                          \/ pc[p] = "commit" /\ r = rid[p] /\ running'[r] = held[p]
    BY <1>8 DEF StartFails, Commit
  <2>3. \A r \in Routes : \A t \in running'[r] : worker'[t].st # "gone" /\ worker'[t].route = r
    BY <2>1, <2>2
  <2>4. \A r \in Routes, q \in Procs : running'[r] \cap held'[q] = {}
    BY <2>1, <2>2
  <2> QED BY <2>1, <2>3, <2>4
<1>9. ASSUME NEW p \in Sweepers, Snapshot(p) \/ NextRoute(p) PROVE HandlesInv'
  BY <1>9 DEF Snapshot, NextRoute, Goto
<1>10. ASSUME NEW p \in Drainers, FlagDevices(p) \/ Collect(p) PROVE HandlesInv'
  <2>1. CASE FlagDevices(p)
    BY <2>1, Flagged DEF FlagDevices, Goto
  <2>2. CASE Collect(p)
    BY <2>2 DEF Collect, Goto
  <2> QED BY <1>10, <2>1, <2>2
<1>11. ASSUME NEW p \in Drainers, Drain(p) PROVE HandlesInv'
  <2> PICK e \in todo[p] : /\ held' = [held EXCEPT ![p] = @ \cup running[e[1]]]
                           /\ running' = [running EXCEPT ![e[1]] = {}]
                           /\ RequestStop(running[e[1]])
    BY <1>11 DEF Drain
  <2> DEFINE ts == running[e[1]]
  <2>1. /\ e[1] \in Routes /\ ts \subseteq Workers
        /\ pc[p] = "drain" /\ pc' = pc /\ rid' = rid
    BY <1>11 DEF Drain
  <2>2. /\ RequestStop(ts)
        /\ held' = [held EXCEPT ![p] = @ \cup ts]
        /\ running' = [running EXCEPT ![e[1]] = {}]
    OBVIOUS
  <2> HIDE DEF ts
  <2>3. \A r \in Routes : \A t \in running'[r] : worker'[t].st # "gone" /\ worker'[t].route = r
    BY <2>1, <2>2, Flagged
  <2>4. \A r \in Routes, q \in Procs : running'[r] \cap held'[q] = {}
    BY <2>1, <2>2 DEF ts
  <2>5. \A q, u \in Procs : q # u => held'[q] \cap held'[u] = {}
    BY <2>1, <2>2 DEF ts
  <2>6. \A t \in ts : worker'[t].st # "gone" /\ worker'[t].stop
    BY <2>1, <2>2, Flagged DEF ts
  <2>7. \A q \in Procs : \A t \in held'[q] :
          /\ worker'[t].st # "gone"
          /\ pc'[q] \in {"recv", "commit", "join", "reap", "drain"}
          /\ pc'[q] \in {"join", "reap", "drain"} => worker'[t].stop
          /\ pc'[q] \in {"recv", "commit"} => worker'[t].route = rid'[q]
    BY <2>1, <2>2, <2>6, Flagged
  <2> QED BY <2>3, <2>4, <2>5, <2>7
<1>12. ASSUME NEW t \in Workers, Open(t) \/ Exit(t) \/ Fail(t) PROVE HandlesInv'
  <2>1. UNCHANGED <<running, held, pc, rid>>
    BY <1>12 DEF Open, Exit, Fail
  <2> QED BY <1>12, <2>1, ComesAround
<1>13. ASSUME NEW t \in Workers, Vanish(t) PROVE HandlesInv'
  BY <1>13 DEF Vanish, Owned
<1>14. CASE (\E r \in Routes : BackoffElapses(r)) \/ UNCHANGED vars
  BY <1>14 DEF BackoffElapses, vars
<1>15. ASSUME NEW p \in Clients \cup Drainers, Dropped(p) PROVE HandlesInv'
  <2>1. /\ UNCHANGED <<running, worker>>
        /\ \A q \in Procs \ {p} : pc'[q] = pc[q] /\ held'[q] = held[q] /\ rid'[q] = rid[q]
        /\ held'[p] = {}
    BY <1>15 DEF Dropped, DroppedAtLock, DroppedAtJoin, DroppedAtStart, DroppedAtDrain,
           Unlock, Leave, Goto, Sides
  <2> QED BY <2>1
<1> QED
  BY <1>1, <1>2, <1>3, <1>4, <1>5, <1>6, <1>7, <1>8, <1>9, <1>10, <1>11, <1>12, <1>13, <1>14, <1>15
     DEF Next, ClientStep, SweepStep, DrainStep, StartStep

LEMMA PoolInit == Init => PoolInv
BY DEF Init, PoolInv

\* Nobody gets hold of a thread again that was left to the pool.
LEMMA PoolStep == TypeOK /\ HandlesInv /\ PoolInv /\ [Next]_vars => PoolInv'
<1> SUFFICES ASSUME TypeOK, HandlesInv, PoolInv, [Next]_vars PROVE PoolInv'
  OBVIOUS
<1> USE ProcsAssumption, SentinelAssumption DEF maps, locals, loose, Procs, TypeOK, PoolInv
<1>1. ASSUME NEW p \in Clients, Apply(p) \/ Remove(p) \/ Insert(p) \/ Clear(p) PROVE PoolInv'
  BY <1>1 DEF Apply, Remove, Insert, Clear, Owned
<1>2. ASSUME NEW p \in Clients \cup Sweepers, Stop(p) \/ Evict(p) PROVE PoolInv'
  <2>1. /\ rid[p] \in Routes /\ RequestStop(running[rid[p]])
        /\ held' = [held EXCEPT ![p] = running[rid[p]]]
        /\ running' = [running EXCEPT ![rid[p]] = {}]
        /\ pool' = pool
    BY <1>2 DEF Stop, Evict, TakeDown
  <2>2. \A t \in Workers : Owned(t)' => Owned(t)
    BY <2>1 DEF Owned
  <2> QED BY <2>1, <2>2, Flagged
<1>3. ASSUME NEW p \in Clients \cup Sweepers \cup Drainers, Join(p) \/ Reap(p) \/ JoinDrained(p)
      PROVE PoolInv'
  BY <1>3 DEF Join, Reap, JoinDrained, JoinHeld, Reclaim, Owned
<1>4. ASSUME NEW p \in Clients \cup Sweepers, Lock(p) \/ Check(p) \/ Probe(p) \/ Retry(p) PROVE PoolInv'
  BY <1>4 DEF Lock, Check, Probe, Retry, Owned
<1>5. ASSUME NEW p \in Clients \cup Sweepers, SpawnSend(p) \/ SpawnRecv(p) PROVE PoolInv'
  <2> PICK side \in Sides, next \in {"recv", "commit"} : SpawnHalf(p, side, next)
    BY <1>5 DEF SpawnSend, SpawnRecv, Sides
  <2>1. pool' = pool /\ running' = running
    BY DEF SpawnHalf
  <2>2. CASE UNCHANGED <<worker, held>>
    BY <2>1, <2>2 DEF Owned
  <2>3. CASE \E t \in Workers :
               /\ worker[t] = Gone
               /\ worker' = [worker EXCEPT ![t] = NewWorker(rid[p], side, arg[p])]
               /\ held' = [held EXCEPT ![p] = @ \cup {t}]
    <3> PICK t \in Workers : /\ worker[t] = Gone
                             /\ worker' = [worker EXCEPT ![t] = NewWorker(rid[p], side, arg[p])]
                             /\ held' = [held EXCEPT ![p] = @ \cup {t}]
      BY <2>3
    <3>1. t \notin pool
      BY DEF Gone
    <3>2. \A u \in pool : worker'[u] = worker[u] /\ ~Owned(u)'
      BY <2>1, <3>1 DEF Owned
    <3> QED BY <2>1, <3>2
  <2> QED BY <2>2, <2>3 DEF SpawnHalf
<1>6. ASSUME NEW p \in Clients \cup Sweepers, StartFails(p) \/ Commit(p) PROVE PoolInv'
  <2>1. /\ pool' = pool /\ worker' = worker
        /\ \A q \in Procs : held'[q] \subseteq held[q]
        /\ \A r \in Routes : running'[r] \in {running[r], held[p]}
    BY <1>6 DEF StartFails, Commit
  <2> QED BY <2>1 DEF Owned
<1>7. ASSUME NEW p \in Sweepers, Snapshot(p) \/ NextRoute(p) PROVE PoolInv'
  BY <1>7 DEF Snapshot, NextRoute, Owned
<1>8. ASSUME NEW p \in Drainers, FlagDevices(p) PROVE PoolInv'
  BY <1>8, Flagged DEF FlagDevices, Owned
<1>9. ASSUME NEW p \in Drainers, Collect(p) PROVE PoolInv'
  BY <1>9 DEF Collect, Owned
<1>10. ASSUME NEW p \in Drainers, Drain(p) PROVE PoolInv'
  <2> PICK e \in todo[p] : /\ held' = [held EXCEPT ![p] = @ \cup running[e[1]]]
                           /\ running' = [running EXCEPT ![e[1]] = {}]
                           /\ RequestStop(running[e[1]])
    BY <1>10 DEF Drain
  <2>1. e[1] \in Routes /\ pool' = pool
    BY <1>10 DEF Drain
  <2>2. \A t \in Workers : Owned(t)' => Owned(t)
    BY <2>1 DEF Owned
  <2> QED BY <2>1, <2>2, Flagged
<1>11. ASSUME NEW t \in Workers, Open(t) \/ Exit(t) \/ Fail(t) PROVE PoolInv'
  <2>1. UNCHANGED <<running, held, pool>>
    BY <1>11 DEF Open, Exit, Fail
  <2> QED BY <1>11, <2>1, ComesAround DEF Owned
<1>12. ASSUME NEW t \in Workers, Vanish(t) PROVE PoolInv'
  BY <1>12 DEF Vanish, Owned
<1>13. CASE (\E r \in Routes : BackoffElapses(r)) \/ UNCHANGED vars
  BY <1>13 DEF BackoffElapses, vars, Owned
<1>14. ASSUME NEW p \in Clients \cup Drainers, Dropped(p) PROVE PoolInv'
  <2>1. /\ UNCHANGED <<running, worker>>
        /\ \A q \in Procs : held'[q] \subseteq held[q]
    BY <1>14 DEF Dropped, DroppedAtLock, DroppedAtJoin, DroppedAtStart, DroppedAtDrain
  <2>2. \/ pool' = pool
        \/ /\ pool' = pool \cup held[p] /\ held'[p] = {}
           /\ pc[p] \in {"join", "reap", "drain"}
    BY <1>14 DEF Dropped, DroppedAtLock, DroppedAtJoin, DroppedAtStart, DroppedAtDrain
  <2>3. \A t \in held[p] : pc[p] \in {"join", "reap", "drain"} =>
          /\ worker[t].st # "gone" /\ worker[t].stop
          /\ \A r \in Routes : t \notin running[r]
          /\ \A q \in Procs : q # p => t \notin held[q]
    BY DEF HandlesInv
  <2> QED BY <2>1, <2>2, <2>3 DEF Owned
<1> QED
  BY <1>1, <1>2, <1>3, <1>4, <1>5, <1>6, <1>7, <1>8, <1>9, <1>10, <1>11, <1>12, <1>13, <1>14
     DEF Next, ClientStep, SweepStep, DrainStep, StartStep

-----------------------------------------------------------------------------
(* Starting and removing                                                   *)

LEMMA StartInit == Init => StartInv
BY DEF Init, StartInv

\* Only the holder of a route's lock adds to `running`.
LEMMA StartStepInv ==
  TypeOK /\ LocalsInv /\ LockInv /\ StartInv /\ [Next]_vars => StartInv'
<1> SUFFICES ASSUME TypeOK, LocalsInv, LockInv, StartInv, [Next]_vars PROVE StartInv'
  OBVIOUS
<1> USE ProcsAssumption, SentinelAssumption
        DEF maps, locals, loose, Procs, TypeOK, StartInv
<1>1. ASSUME NEW p \in Clients, Apply(p) \/ Remove(p) \/ Insert(p) \/ Clear(p) PROVE StartInv'
  BY <1>1 DEF Apply, Remove, Insert, Clear, Unlock, Goto, Leave
<1>2. ASSUME NEW p \in Clients \cup Sweepers, Stop(p) \/ Evict(p) PROVE StartInv'
  BY <1>2 DEF Stop, Evict, TakeDown, Goto
<1>3. ASSUME NEW p \in Clients \cup Sweepers \cup Drainers, Join(p) \/ JoinDrained(p)
      PROVE StartInv'
  BY <1>3 DEF Join, JoinDrained, JoinHeld, Goto
<1>4. ASSUME NEW p \in Clients \cup Sweepers, Reap(p) PROVE StartInv'
  BY <1>4 DEF Reap, JoinHeld, Goto
<1>5. ASSUME NEW p \in Clients \cup Sweepers, Lock(p) PROVE StartInv'
  BY <1>5 DEF Lock, Goto
<1>6. ASSUME NEW p \in Clients \cup Sweepers, Check(p) \/ Probe(p) \/ Retry(p) PROVE StartInv'
  BY <1>6 DEF Check, Probe, Retry, Unlock, Leave, Goto
<1>7. ASSUME NEW p \in Clients \cup Sweepers, SpawnSend(p) \/ SpawnRecv(p) PROVE StartInv'
  BY <1>7 DEF SpawnSend, SpawnRecv, SpawnHalf, Goto
<1>8. ASSUME NEW p \in Clients \cup Sweepers, StartFails(p) PROVE StartInv'
  BY <1>8 DEF StartFails, Unlock, Leave, Goto
<1>9. ASSUME NEW p \in Clients \cup Sweepers, Commit(p) PROVE StartInv'
  <2>1. \A q \in Procs \ {p} :
          pc[q] \in {"reap", "retry", "send", "recv", "commit"} => rid[q] # rid[p]
    BY <1>9 DEF Commit, LockInv, Critical, StartLabels
  <2> QED BY <1>9, <2>1 DEF Commit, Unlock, Leave, Goto
<1>10. ASSUME NEW p \in Sweepers, Snapshot(p) \/ NextRoute(p) PROVE StartInv'
  BY <1>10 DEF Snapshot, NextRoute, Goto
<1>11. ASSUME NEW p \in Drainers, FlagDevices(p) \/ Collect(p) \/ Drain(p) PROVE StartInv'
  BY <1>11 DEF FlagDevices, Collect, Drain, Goto
<1>12. ASSUME NEW t \in Workers, Open(t) \/ Exit(t) \/ Fail(t) \/ Vanish(t) PROVE StartInv'
  BY <1>12 DEF Open, Exit, Fail, Vanish
<1>13. CASE (\E r \in Routes : BackoffElapses(r)) \/ UNCHANGED vars
  BY <1>13 DEF BackoffElapses, vars
<1>14. ASSUME NEW p \in Clients \cup Drainers, Dropped(p) PROVE StartInv'
  BY <1>14
     DEF Dropped, DroppedAtLock, DroppedAtJoin, DroppedAtStart, DroppedAtDrain, Unlock, Leave, Goto, Sides
<1> QED
  BY <1>1, <1>2, <1>3, <1>4, <1>5, <1>6, <1>7, <1>8, <1>9, <1>10, <1>11, <1>12, <1>13, <1>14
     DEF Next, ClientStep, SweepStep, DrainStep, StartStep

LEMMA RemovalInit == Init => RemovalInv
BY DEF Init, RemovalInv, Committed, StartLabels

\* A removal takes the route out of the map first and the lock second, so a
\* start that got past its check finds the removal behind it.
LEMMA RemovalStep ==
  TypeOK /\ LocalsInv /\ LockInv /\ RemovalInv /\ [Next]_vars => RemovalInv'
<1> SUFFICES ASSUME TypeOK, LocalsInv, LockInv, RemovalInv, [Next]_vars PROVE RemovalInv'
  OBVIOUS
<1> USE ProcsAssumption, SentinelAssumption
        DEF maps, locals, loose, Procs, TypeOK, RemovalInv, Removing, Abandoned, Committed, StartLabels
<1>1. ASSUME NEW p \in Clients, Apply(p) PROVE RemovalInv'
  BY <1>1 DEF Apply, Goto, LocalsInv
<1>2. ASSUME NEW p \in Clients, Remove(p) PROVE RemovalInv'
  <2> PICK r \in Routes : /\ routes' = [routes EXCEPT ![r] = NoConfig]
                          /\ rid' = [rid EXCEPT ![p] = r]
    BY <1>2 DEF Remove
  <2>1. Removing(r)'
    BY <1>2 DEF Remove, Goto, LocalsInv
  <2>2. \A s \in Routes : Removing(s) => Removing(s)'
    BY <1>2 DEF Remove, Goto
  <2>3. pc'[p] = "lock" /\ \A q \in Procs \ {p} : pc'[q] = pc[q] /\ rid'[q] = rid[q]
    BY <1>2 DEF Remove, Goto
  <2> QED BY <1>2, <2>1, <2>2, <2>3 DEF Remove
<1>3. ASSUME NEW p \in Clients, Insert(p) PROVE RemovalInv'
  BY <1>3 DEF Insert, Leave, Goto, LocalsInv
<1>4. ASSUME NEW p \in Clients, Clear(p) PROVE RemovalInv'
  <2>1. \A q \in Procs : pc[q] \in Committed => rid[q] # rid[p]
    BY <1>4 DEF Clear, LockInv, Critical
  <2> QED BY <1>4, <2>1 DEF Clear, Unlock, Leave, Goto
<1>5. ASSUME NEW p \in Clients, Stop(p) PROVE RemovalInv'
  <2>1. \A q \in Procs : pc[q] \in Committed => rid[q] # rid[p]
    BY <1>5 DEF Stop, LockInv, Critical
  <2> QED BY <1>5, <2>1 DEF Stop, TakeDown, Goto
<1>6. ASSUME NEW p \in Clients \cup Sweepers \cup Drainers,
             Evict(p) \/ Join(p) \/ Reap(p) \/ JoinDrained(p)
      PROVE  RemovalInv'
  BY <1>6 DEF Evict, Join, Reap, JoinDrained, TakeDown, JoinHeld, Goto
<1>7. ASSUME NEW p \in Clients \cup Sweepers, Lock(p) PROVE RemovalInv'
  BY <1>7 DEF Lock, Goto
<1>8. ASSUME NEW p \in Clients \cup Sweepers, Check(p) \/ Probe(p) \/ Retry(p) PROVE RemovalInv'
  BY <1>8 DEF Check, StillConfigured, Probe, Retry, Unlock, Leave, Goto
<1>9. ASSUME NEW p \in Clients \cup Sweepers, SpawnSend(p) \/ SpawnRecv(p) PROVE RemovalInv'
  BY <1>9 DEF SpawnSend, SpawnRecv, SpawnHalf, Goto
<1>10. ASSUME NEW p \in Clients \cup Sweepers, StartFails(p) \/ Commit(p) PROVE RemovalInv'
  BY <1>10 DEF StartFails, Commit, Unlock, Leave, Goto, Sides
<1>11. ASSUME NEW p \in Sweepers, Snapshot(p) \/ NextRoute(p) PROVE RemovalInv'
  BY <1>11 DEF Snapshot, NextRoute, Goto
<1>12. ASSUME NEW p \in Drainers, FlagDevices(p) \/ Collect(p) \/ Drain(p) PROVE RemovalInv'
  BY <1>12 DEF FlagDevices, Collect, Drain, Goto
<1>13. ASSUME NEW t \in Workers, Open(t) \/ Exit(t) \/ Fail(t) \/ Vanish(t) PROVE RemovalInv'
  BY <1>13 DEF Open, Exit, Fail, Vanish
<1>14. CASE (\E r \in Routes : BackoffElapses(r)) \/ UNCHANGED vars
  BY <1>14 DEF BackoffElapses, vars
<1>15. ASSUME NEW p \in Clients \cup Drainers, Dropped(p) PROVE RemovalInv'
  <2>1. CASE DroppedAtLock(p)
    BY <1>15, <2>1 DEF Dropped, DroppedAtLock, Leave, Goto, Abandoned
  <2>2. CASE DroppedAtJoin(p) \/ DroppedAtStart(p) \/ DroppedAtDrain(p)
    BY <1>15, <2>2 DEF Dropped, DroppedAtJoin, DroppedAtStart, DroppedAtDrain, Unlock, Leave, Goto, Abandoned, Sides
  <2> QED BY <1>15, <2>1, <2>2 DEF Dropped
<1> QED
  BY <1>1, <1>2, <1>3, <1>4, <1>5, <1>6, <1>7, <1>8, <1>9, <1>10, <1>11, <1>12, <1>13, <1>14, <1>15
     DEF Next, ClientStep, SweepStep, DrainStep, StartStep

-----------------------------------------------------------------------------
(* The halves of a pipeline                                                *)

LEMMA HalvesInit == Init => HalvesInv
BY DEF Init, HalvesInv

LEMMA HalvesStep == TypeOK /\ LocalsInv /\ HandlesInv /\ HalvesInv /\ [Next]_vars => HalvesInv'
<1> SUFFICES ASSUME TypeOK, LocalsInv, HandlesInv, HalvesInv, [Next]_vars PROVE HalvesInv'
  OBVIOUS
<1> USE ProcsAssumption, SentinelAssumption
        DEF maps, locals, loose, Procs, TypeOK, HandlesInv, HalvesInv
<1>1. ASSUME NEW p \in Clients, Apply(p) \/ Remove(p) \/ Insert(p) \/ Clear(p) PROVE HalvesInv'
  BY <1>1 DEF Apply, Remove, Insert, Clear, Unlock, Goto, Leave
<1>2. ASSUME NEW p \in Clients \cup Sweepers, Stop(p) \/ Evict(p) PROVE HalvesInv'
  BY <1>2, Flagged DEF Stop, Evict, TakeDown, Goto
<1>3. ASSUME NEW p \in Clients \cup Sweepers \cup Drainers, Join(p) \/ Reap(p) \/ JoinDrained(p)
      PROVE HalvesInv'
  BY <1>3 DEF Join, Reap, JoinDrained, JoinHeld, Reclaim, Goto
<1>4. ASSUME NEW p \in Clients \cup Sweepers, Lock(p) PROVE HalvesInv'
  BY <1>4 DEF Lock, Goto
<1>5. ASSUME NEW p \in Clients \cup Sweepers, Check(p) \/ Probe(p) \/ Retry(p) PROVE HalvesInv'
  BY <1>5 DEF Check, Probe, Retry, Unlock, Leave, Goto
<1>6. ASSUME NEW p \in Clients \cup Sweepers, SpawnSend(p) PROVE HalvesInv'
  <2>1. held[p] = {} /\ pc[p] = "send" /\ pc' = [pc EXCEPT ![p] = "recv"] /\ running' = running
    BY <1>6 DEF SpawnSend, SpawnHalf, Goto
  <2>2. CASE UNCHANGED <<worker, held>>
    BY <2>1, <2>2
  <2>3. CASE \E t \in Workers :
               /\ worker[t] = Gone
               /\ worker' = [worker EXCEPT ![t] = NewWorker(rid[p], "send", arg[p])]
               /\ held' = [held EXCEPT ![p] = @ \cup {t}]
    BY <2>1, <2>3 DEF NewWorker, Gone
  <2> QED BY <1>6, <2>2, <2>3 DEF SpawnSend, SpawnHalf
<1>7. ASSUME NEW p \in Clients \cup Sweepers, SpawnRecv(p) PROVE HalvesInv'
  <2>1. pc[p] = "recv" /\ pc' = [pc EXCEPT ![p] = "commit"] /\ running' = running
    BY <1>7 DEF SpawnRecv, SpawnHalf, Goto
  <2>2. CASE UNCHANGED <<worker, held>>
    BY <2>1, <2>2
  <2>3. CASE \E t \in Workers :
               /\ worker[t] = Gone
               /\ worker' = [worker EXCEPT ![t] = NewWorker(rid[p], "recv", arg[p])]
               /\ held' = [held EXCEPT ![p] = @ \cup {t}]
    BY <2>1, <2>3 DEF NewWorker, Gone
  <2> QED BY <1>7, <2>2, <2>3 DEF SpawnRecv, SpawnHalf
<1>8. ASSUME NEW p \in Clients \cup Sweepers, StartFails(p) \/ Commit(p) PROVE HalvesInv'
  <2>1. /\ UNCHANGED worker
        /\ \A q \in Procs \ {p} : pc'[q] = pc[q] /\ held'[q] = held[q]
        /\ held'[p] = {}
    BY <1>8 DEF StartFails, Commit, Unlock, Leave, Goto
  <2>2. \A r \in Routes : \/ running'[r] = running[r]
                          \/ pc[p] = "commit" /\ running'[r] = held[p]
    BY <1>8 DEF StartFails, Commit
  <2>3. \A r \in Routes : \A t, u \in running'[r] : worker'[t].side = worker'[u].side => t = u
    BY <2>1, <2>2
  <2> QED BY <2>1, <2>3
<1>9. ASSUME NEW p \in Sweepers, Snapshot(p) \/ NextRoute(p) PROVE HalvesInv'
  BY <1>9 DEF Snapshot, NextRoute, Goto
<1>10. ASSUME NEW p \in Drainers, FlagDevices(p) PROVE HalvesInv'
  BY <1>10, Flagged DEF FlagDevices, Goto
<1>11. ASSUME NEW p \in Drainers, Collect(p) PROVE HalvesInv'
  BY <1>11 DEF Collect, Goto
<1>12. ASSUME NEW p \in Drainers, Drain(p) PROVE HalvesInv'
  BY <1>12, Flagged DEF Drain
<1>13. ASSUME NEW t \in Workers, Open(t) \/ Exit(t) \/ Fail(t) PROVE HalvesInv'
  <2>1. UNCHANGED <<running, held, pc>>
    BY <1>13 DEF Open, Exit, Fail
  <2> QED BY <1>13, <2>1, ComesAround
<1>14. ASSUME NEW t \in Workers, Vanish(t) PROVE HalvesInv'
  BY <1>14 DEF Vanish, Owned
<1>15. CASE (\E r \in Routes : BackoffElapses(r)) \/ UNCHANGED vars
  BY <1>15 DEF BackoffElapses, vars
<1>16. ASSUME NEW p \in Clients \cup Drainers, Dropped(p) PROVE HalvesInv'
  BY <1>16
     DEF Dropped, DroppedAtLock, DroppedAtJoin, DroppedAtStart, DroppedAtDrain, Unlock, Leave, Goto, Sides
<1> QED
  BY <1>1, <1>2, <1>3, <1>4, <1>5, <1>6, <1>7, <1>8, <1>9, <1>10, <1>11, <1>12, <1>13, <1>14, <1>15, <1>16
     DEF Next, ClientStep, SweepStep, DrainStep, StartStep

-----------------------------------------------------------------------------
(* The results                                                             *)

\* The inductive invariant holds in every reachable state.
THEOREM Inductive == Spec => [](TypeOK /\ IInv)
<1>1. Init => TypeOK /\ IInv
  BY TypeInit, LocalsInit, LockInit, HandlesInit, PoolInit, StartInit, RemovalInit, HalvesInit DEF IInv
<1>2. TypeOK /\ IInv /\ [Next]_vars => (TypeOK /\ IInv)'
  BY TypeStep, LocalsStep, LockStep, HandlesStep, PoolStep, StartStepInv, RemovalStep,
     HalvesStep DEF IInv
<1> QED BY <1>1, <1>2, PTL DEF Spec

\* A removed route leaves no pipeline that nobody is about to stop, unless its
\* removal was dropped on the way to the lock (routing.rs 709-723).
THEOREM RemovedStops == Spec => []RemovedIsStopped
<1>1. TypeOK /\ IInv => RemovedIsStopped
  <2> SUFFICES ASSUME TypeOK, IInv, NEW t \in Workers, Active(t),
                      routes[worker[t].route] = NoConfig
               PROVE  Removing(worker[t].route) \/ worker[t].route \in unstopped
    BY DEF RemovedIsStopped
  <2>1. worker[t].route \in Routes
    BY DEF Active, TypeOK, WorkerRecords
  <2>2. ASSUME NEW r \in Routes, t \in running[r]
        PROVE  Removing(worker[t].route) \/ worker[t].route \in unstopped
    BY <2>2 DEF IInv, HandlesInv, RemovalInv
  <2>3. ASSUME NEW p \in Procs, t \in held[p]
        PROVE  Removing(worker[t].route) \/ worker[t].route \in unstopped
    <3>1. pc[p] \in {"recv", "commit"} /\ worker[t].route = rid[p]
      BY <2>3 DEF IInv, HandlesInv, Active
    <3> QED BY <3>1 DEF IInv, RemovalInv, Abandoned, Committed, StartLabels
  <2> QED BY <2>2, <2>3 DEF Active, Owned
<1> QED BY <1>1, Inductive, PTL

\* A route never has two pipelines at work, however its starts interleave.
THEOREM OnePipeline == Spec => []SingleWorker
<1>1. TypeOK /\ IInv => SingleWorker
  <2> SUFFICES ASSUME TypeOK, IInv, NEW t \in Workers, NEW u \in Workers,
                      Active(t), Active(u),
                      worker[t].route = worker[u].route, worker[t].side = worker[u].side
               PROVE  t = u
    BY DEF SingleWorker
  <2> DEFINE Building(x, p) == x \in held[p] /\ pc[p] \in {"recv", "commit"}
                                /\ worker[x].route = rid[p]
  <2>1. ASSUME NEW x \in Workers, Active(x)
        PROVE  \/ \E r \in Routes : x \in running[r] /\ worker[x].route = r
               \/ \E p \in Procs : Building(x, p)
    <3>1. CASE \E r \in Routes : x \in running[r]
      BY <3>1 DEF IInv, HandlesInv
    <3>2. CASE \E p \in Procs : x \in held[p]
      BY <2>1, <3>2 DEF IInv, HandlesInv, Active
    <3> QED BY <2>1, <3>1, <3>2 DEF Active, Owned
  <2>2. ASSUME NEW p \in Procs, NEW q \in Procs, Building(t, p), Building(u, q)
        PROVE  p = q
    <3>1. lock[rid[p]] = p /\ lock[rid[q]] = q
      BY <2>2 DEF IInv, LockInv, Critical, StartLabels
    <3> QED BY <2>2, <3>1
  <2>3. \A p \in Procs : Building(t, p) /\ Building(u, p) => t = u
    BY DEF IInv, HalvesInv
  <2>4. \A p \in Procs, x \in {t, u} : Building(x, p) => running[worker[x].route] = {}
    BY DEF IInv, StartInv
  <2>5. \A r \in Routes : t \in running[r] /\ u \in running[r] => t = u
    BY DEF IInv, HalvesInv
  <2> QED BY <2>1, <2>2, <2>3, <2>4, <2>5
<1> QED BY <1>1, Inductive, PTL

-----------------------------------------------------------------------------
(* Forgetting                                                              *)

\* A removed route has no failure entry once its removal is over: whoever
\* records a failure has seen the route under the lock, so the removal is
\* still behind it and clears the entry (routing.rs 709-723), unless it was
\* dropped before it came to that.
THEOREM RemovedForgets == Spec => []RemovedIsForgotten
<1>1. Init => RemovedIsForgotten
  BY DEF Init, RemovedIsForgotten
<1>2. TypeOK /\ IInv /\ RemovedIsForgotten /\ [Next]_vars => RemovedIsForgotten'
  <2> SUFFICES ASSUME TypeOK, IInv, RemovedIsForgotten, [Next]_vars PROVE RemovedIsForgotten'
    OBVIOUS
  <2> USE ProcsAssumption, SentinelAssumption
          DEF maps, locals, loose, Procs, TypeOK, RemovedIsForgotten
  <2>1. ASSUME NEW p \in Clients, Apply(p) \/ Remove(p) \/ Insert(p) PROVE RemovedIsForgotten'
    BY <2>1 DEF Apply, Remove, Insert, Leave, Goto, IInv, LocalsInv
  <2>2. ASSUME NEW p \in Clients, Stop(p) \/ Join(p) \/ Clear(p) PROVE RemovedIsForgotten'
    BY <2>2 DEF Stop, TakeDown, Join, JoinHeld, Clear, Unlock, Leave, Goto
  <2>3. ASSUME NEW p \in Clients \cup Sweepers, Lock(p) PROVE RemovedIsForgotten'
    BY <2>3 DEF Lock, Goto
  <2>4. ASSUME NEW p \in Clients \cup Sweepers, Check(p) \/ Probe(p) \/ Retry(p)
        PROVE  RemovedIsForgotten'
    BY <2>4 DEF Check, Probe, Retry, Unlock, Leave, Goto
  <2>5. ASSUME NEW p \in Clients \cup Sweepers, Evict(p) PROVE RemovedIsForgotten'
    BY <2>5 DEF Evict, TakeDown, Goto
  <2>6. ASSUME NEW p \in Clients \cup Sweepers, Reap(p) \/ StartFails(p) PROVE RemovedIsForgotten'
    <3>1. routes[rid[p]] = NoConfig => Removing(rid[p]) \/ rid[p] \in unforgotten
      BY <2>6 DEF Reap, StartFails, Sides, IInv, RemovalInv, Abandoned, Committed, StartLabels
    <3> QED BY <2>6, <3>1 DEF Reap, JoinHeld, StartFails, RecordFailure, Unlock, Leave, Goto, Removing, Sides
  <2>7. ASSUME NEW p \in Clients \cup Sweepers, SpawnSend(p) \/ SpawnRecv(p) PROVE RemovedIsForgotten'
    BY <2>7 DEF SpawnSend, SpawnRecv, SpawnHalf, Goto
  <2>8. ASSUME NEW p \in Clients \cup Sweepers, Commit(p) PROVE RemovedIsForgotten'
    BY <2>8 DEF Commit, Unlock, Leave, Goto
  <2>9. ASSUME NEW p \in Sweepers, Snapshot(p) \/ NextRoute(p) PROVE RemovedIsForgotten'
    BY <2>9 DEF Snapshot, NextRoute, Goto
  <2>10. ASSUME NEW p \in Drainers, FlagDevices(p) \/ Collect(p) \/ Drain(p) \/ JoinDrained(p)
         PROVE  RemovedIsForgotten'
    BY <2>10 DEF FlagDevices, Collect, Drain, JoinDrained, JoinHeld, Goto
  <2>11. ASSUME NEW t \in Workers, Open(t) \/ Exit(t) \/ Fail(t) \/ Vanish(t)
         PROVE  RemovedIsForgotten'
    BY <2>11 DEF Open, Exit, Fail, Vanish
  <2>12. CASE (\E r \in Routes : BackoffElapses(r)) \/ UNCHANGED vars
    BY <2>12 DEF BackoffElapses, vars
  <2>13. ASSUME NEW p \in Clients \cup Drainers, Dropped(p) PROVE RemovedIsForgotten'
    BY <2>13
       DEF Dropped, DroppedAtLock, DroppedAtJoin, DroppedAtStart, DroppedAtDrain, Unlock, Leave, Goto, Sides
  <2> QED
    BY <2>1, <2>2, <2>3, <2>4, <2>5, <2>6, <2>7, <2>8, <2>9, <2>10, <2>11, <2>12, <2>13
       DEF Next, ClientStep, SweepStep, DrainStep, StartStep
<1> QED BY <1>1, <1>2, Inductive, PTL DEF Spec

-----------------------------------------------------------------------------
(* Tearing down                                                            *)

\* Whoever evicts a pipeline has seen it dead, or somebody else has emptied
\* the map meanwhile.
EvictInv == \A p \in Clients \cup Sweepers :
  pc[p] = "evict" => running[rid[p]] = {} \/ IsDead(running[rid[p]])

\* Whoever joins a pipeline under the lock has all of it, and nothing of any
\* other.
TeardownInv == \A p \in Clients \cup Sweepers : pc[p] \in {"join", "reap"} =>
  /\ running[rid[p]] = {}
  /\ \A t \in held[p] : worker[t].route = rid[p]
  /\ \A t, u \in held[p] : worker[t].side = worker[u].side => t = u

\* A thread that was asked to stop, but for a capture half, is waited for, if
\* only by the blocking pool.
FlagInv == \A u \in Workers : worker[u] # Gone /\ worker[u].stop /\ ~CaptureWorker(u) =>
  u \in pool \/ \E p \in Procs : u \in held[p] /\ pc[p] \in {"join", "reap", "drain"}

LEMMA EvictStep ==
  ASSUME TypeOK, IInv, EvictInv, [Next]_vars
  PROVE  EvictInv'
<1> USE ProcsAssumption, SentinelAssumption DEF maps, locals, loose, Procs, TypeOK, EvictInv, IsDead
<1>1. ASSUME NEW p \in Clients, Apply(p) \/ Remove(p) \/ Insert(p) \/ Clear(p) PROVE EvictInv'
  BY <1>1 DEF Apply, Remove, Insert, Clear, Unlock, Goto, Leave
<1>2. ASSUME NEW p \in Clients \cup Sweepers, Stop(p) \/ Evict(p) PROVE EvictInv'
  <2>1. /\ RequestStop(running[rid[p]]) /\ rid' = rid
        /\ running' = [running EXCEPT ![rid[p]] = {}]
        /\ \A q \in Procs : pc'[q] = "evict" => pc[q] = "evict"
    BY <1>2 DEF Stop, Evict, TakeDown, Goto
  <2>2. \A t \in Workers : worker'[t].st = worker[t].st
    BY <2>1, Flagged
  <2> QED BY <2>1, <2>2
<1>3. ASSUME NEW p \in Clients \cup Sweepers \cup Drainers, Join(p) \/ Reap(p) \/ JoinDrained(p)
      PROVE EvictInv'
  <2>1. \A t \in Workers, r \in Routes : t \in running[r] => worker'[t] = worker[t]
    BY <1>3 DEF Join, Reap, JoinDrained, JoinHeld, Reclaim, IInv, HandlesInv
  <2>2. running' = running /\ rid' = rid /\ \A q \in Procs : pc'[q] = "evict" => pc[q] = "evict"
    BY <1>3 DEF Join, Reap, JoinDrained, Goto
  <2> QED BY <2>1, <2>2
<1>4. ASSUME NEW p \in Clients \cup Sweepers, Lock(p) PROVE EvictInv'
  BY <1>4 DEF Lock, Goto
<1>5. ASSUME NEW p \in Clients \cup Sweepers, Check(p) \/ Probe(p) \/ Retry(p) PROVE EvictInv'
  BY <1>5 DEF Check, Probe, Retry, Unlock, Leave, Goto
<1>6. ASSUME NEW p \in Clients \cup Sweepers, SpawnSend(p) \/ SpawnRecv(p) PROVE EvictInv'
  <2>1. running' = running /\ rid' = rid /\ \A q \in Procs : pc'[q] = "evict" => pc[q] = "evict"
    BY <1>6 DEF SpawnSend, SpawnRecv, SpawnHalf, Goto
  <2>2. \A t \in Workers : worker[t] # Gone => worker'[t] = worker[t]
    BY <1>6 DEF SpawnSend, SpawnRecv, SpawnHalf
  <2>3. \A t \in Workers : worker[t].st = "dead" => worker[t] # Gone
    BY DEF Gone
  <2> QED BY <2>1, <2>2, <2>3
<1>7. ASSUME NEW p \in Clients \cup Sweepers, StartFails(p) PROVE EvictInv'
  BY <1>7 DEF StartFails, Unlock, Leave, Goto
<1>8. ASSUME NEW p \in Clients \cup Sweepers, Commit(p) PROVE EvictInv'
  <2>1. \A q \in Procs : pc[q] = "evict" => rid[q] # rid[p]
    BY <1>8 DEF Commit, IInv, LockInv, Critical, StartLabels
  <2> QED BY <1>8, <2>1 DEF Commit, Unlock, Leave, Goto
<1>9. ASSUME NEW p \in Sweepers, Snapshot(p) \/ NextRoute(p) PROVE EvictInv'
  BY <1>9 DEF Snapshot, NextRoute, Goto
<1>10. ASSUME NEW p \in Drainers, FlagDevices(p) \/ Collect(p) \/ Drain(p) PROVE EvictInv'
  BY <1>10, Flagged DEF FlagDevices, Collect, Drain, Goto
<1>11. ASSUME NEW t \in Workers, Open(t) \/ Exit(t) \/ Fail(t) PROVE EvictInv'
  <2>1. \A u \in Workers : worker[u].st = "dead" => worker'[u].st = "dead"
    BY <1>11 DEF Open, Exit, Fail
  <2>2. UNCHANGED <<running, rid, pc>>
    BY <1>11 DEF Open, Exit, Fail
  <2> QED BY <2>1, <2>2
<1>12. ASSUME NEW t \in Workers, Vanish(t) PROVE EvictInv'
  BY <1>12 DEF Vanish, Owned
<1>13. CASE (\E r \in Routes : BackoffElapses(r)) \/ UNCHANGED vars
  BY <1>13 DEF BackoffElapses, vars
<1>14. ASSUME NEW p \in Clients \cup Drainers, Dropped(p) PROVE EvictInv'
  BY <1>14
     DEF Dropped, DroppedAtLock, DroppedAtJoin, DroppedAtStart, DroppedAtDrain, Unlock, Leave, Goto, Sides
<1> QED
  BY <1>1, <1>2, <1>3, <1>4, <1>5, <1>6, <1>7, <1>8, <1>9, <1>10, <1>11, <1>12, <1>13, <1>14
     DEF Next, ClientStep, SweepStep, DrainStep, StartStep

LEMMA TeardownStep ==
  ASSUME TypeOK, IInv, TeardownInv, [Next]_vars
  PROVE  TeardownInv'
<1> USE ProcsAssumption, SentinelAssumption DEF maps, locals, loose, Procs, TypeOK, TeardownInv
<1>1. ASSUME NEW p \in Clients, Apply(p) \/ Remove(p) \/ Insert(p) \/ Clear(p) PROVE TeardownInv'
  BY <1>1 DEF Apply, Remove, Insert, Clear, Unlock, Goto, Leave
<1>2. ASSUME NEW p \in Clients \cup Sweepers, Stop(p) \/ Evict(p) PROVE TeardownInv'
  <2>1. /\ rid[p] \in Routes /\ RequestStop(running[rid[p]]) /\ rid' = rid
        /\ held' = [held EXCEPT ![p] = running[rid[p]]]
        /\ running' = [running EXCEPT ![rid[p]] = {}]
        /\ \A q \in Procs \ {p} : pc'[q] = pc[q]
    BY <1>2 DEF Stop, Evict, TakeDown, Goto
  <2>2. /\ \A t \in running[rid[p]] : worker[t].st # "gone" /\ worker[t].route = rid[p]
        /\ \A t, u \in running[rid[p]] : worker[t].side = worker[u].side => t = u
        /\ \A q \in Procs : \A t \in held[q] : worker[t].st # "gone"
    BY <2>1 DEF IInv, HandlesInv, HalvesInv
  <2> QED BY <2>1, <2>2, Flagged
<1>3. ASSUME NEW p \in Clients \cup Sweepers \cup Drainers, Join(p) \/ Reap(p) \/ JoinDrained(p)
      PROVE TeardownInv'
  <2>1. \A q \in Procs \ {p} : \A t \in held[q] : worker'[t] = worker[t]
    BY <1>3 DEF Join, Reap, JoinDrained, JoinHeld, Reclaim, IInv, HandlesInv
  <2>2. /\ running' = running /\ rid' = rid /\ held'[p] = {}
        /\ pc'[p] \notin {"join", "reap"}
        /\ \A q \in Procs \ {p} : held'[q] = held[q] /\ pc'[q] = pc[q]
    BY <1>3 DEF Join, Reap, JoinDrained, JoinHeld, Goto
  <2> QED BY <2>1, <2>2
<1>4. ASSUME NEW p \in Clients \cup Sweepers, Lock(p) PROVE TeardownInv'
  BY <1>4 DEF Lock, Goto
<1>5. ASSUME NEW p \in Clients \cup Sweepers, Check(p) \/ Probe(p) \/ Retry(p) PROVE TeardownInv'
  BY <1>5 DEF Check, Probe, Retry, Unlock, Leave, Goto
<1>6. ASSUME NEW p \in Clients \cup Sweepers, SpawnSend(p) \/ SpawnRecv(p) PROVE TeardownInv'
  <2>1. /\ running' = running /\ rid' = rid /\ pc'[p] \notin {"join", "reap"}
        /\ \A q \in Procs \ {p} : held'[q] = held[q] /\ pc'[q] = pc[q]
    BY <1>6 DEF SpawnSend, SpawnRecv, SpawnHalf, Goto
  <2>2. \A t \in Workers : worker[t] # Gone => worker'[t] = worker[t]
    BY <1>6 DEF SpawnSend, SpawnRecv, SpawnHalf
  <2>3. \A q \in Procs : \A t \in held[q] : worker[t] # Gone
    BY DEF Gone, IInv, HandlesInv
  <2> QED BY <2>1, <2>2, <2>3
<1>7. ASSUME NEW p \in Clients \cup Sweepers, StartFails(p) PROVE TeardownInv'
  BY <1>7 DEF StartFails, Unlock, Leave, Goto
<1>8. ASSUME NEW p \in Clients \cup Sweepers, Commit(p) PROVE TeardownInv'
  <2>1. \A q \in Procs : pc[q] \in {"join", "reap"} => rid[q] # rid[p]
    BY <1>8 DEF Commit, IInv, LockInv, Critical, StartLabels
  <2> QED BY <1>8, <2>1 DEF Commit, Unlock, Leave, Goto
<1>9. ASSUME NEW p \in Sweepers, Snapshot(p) \/ NextRoute(p) PROVE TeardownInv'
  BY <1>9 DEF Snapshot, NextRoute, Goto
<1>10. ASSUME NEW p \in Drainers, FlagDevices(p) \/ Collect(p) \/ Drain(p) PROVE TeardownInv'
  <2>1. /\ rid' = rid /\ \A q \in Procs \ {p} : held'[q] = held[q] /\ pc'[q] = pc[q]
        /\ \A r \in Routes : running'[r] \in {running[r], {}}
    BY <1>10 DEF FlagDevices, Collect, Drain, Goto
  <2>2. \A q \in Procs : \A t \in held[q] :
          worker'[t].route = worker[t].route /\ worker'[t].side = worker[t].side
    BY <1>10, Flagged DEF FlagDevices, Collect, Drain, IInv, HandlesInv
  <2>3. \A q \in Clients \cup Sweepers : pc[q] \in {"join", "reap"} => rid[q] \in Routes
    OBVIOUS
  <2> QED BY <2>1, <2>2, <2>3
<1>11. ASSUME NEW t \in Workers, Open(t) \/ Exit(t) \/ Fail(t) PROVE TeardownInv'
  <2>1. UNCHANGED <<running, rid, pc, held>>
    BY <1>11 DEF Open, Exit, Fail
  <2> QED BY <1>11, <2>1, ComesAround
<1>12. ASSUME NEW t \in Workers, Vanish(t) PROVE TeardownInv'
  BY <1>12 DEF Vanish, Owned
<1>13. CASE (\E r \in Routes : BackoffElapses(r)) \/ UNCHANGED vars
  BY <1>13 DEF BackoffElapses, vars
<1>14. ASSUME NEW p \in Clients \cup Drainers, Dropped(p) PROVE TeardownInv'
  BY <1>14
     DEF Dropped, DroppedAtLock, DroppedAtJoin, DroppedAtStart, DroppedAtDrain, Unlock, Leave, Goto, Sides
<1> QED
  BY <1>1, <1>2, <1>3, <1>4, <1>5, <1>6, <1>7, <1>8, <1>9, <1>10, <1>11, <1>12, <1>13, <1>14
     DEF Next, ClientStep, SweepStep, DrainStep, StartStep

\* A thread that is asked to stop remains what it is.
LEMMA Asked ==
  ASSUME TypeOK, NEW ts \in SUBSET Workers, RequestStop(ts), NEW u \in Workers, worker'[u] # Gone
  PROVE  /\ worker[u] # Gone
         /\ CaptureWorker(u)' <=> CaptureWorker(u)
         /\ worker'[u].stop <=> worker[u].stop \/ u \in ts
<1>1. worker[u] # Gone
  BY DEF RequestStop
<1>2. worker[u].st # "gone"
  BY <1>1 DEF TypeOK, WorkerRecords
<1> QED BY <1>1, <1>2, Flagged, ConfigKept DEF CaptureWorker

\* What asks a thread to stop goes on to hold its handle; a device's flag is
\* the exception.
LEMMA FlagStep ==
  ASSUME TypeOK, IInv, FlagInv, [Next]_vars
  PROVE  FlagInv'
<1> USE ProcsAssumption, SentinelAssumption DEF maps, locals, loose, Procs, TypeOK, FlagInv, CaptureWorker
<1> DEFINE Waits(l) == l \in {"join", "reap", "drain"}
           Same(u) == worker'[u].stop = worker[u].stop /\ worker'[u].side = worker[u].side
                      /\ worker'[u].config = worker[u].config
<1>1. ASSUME NEW p \in Clients, Apply(p) \/ Remove(p) \/ Insert(p) \/ Clear(p) PROVE FlagInv'
  BY <1>1 DEF Apply, Remove, Insert, Clear, Unlock, Goto, Leave, IInv, HandlesInv
<1>2. ASSUME NEW p \in Clients \cup Sweepers, Stop(p) \/ Evict(p) PROVE FlagInv'
  <2>1. /\ rid[p] \in Routes /\ RequestStop(running[rid[p]]) /\ held[p] = {}
        /\ held' = [held EXCEPT ![p] = running[rid[p]]]
        /\ Waits(pc'[p]) /\ \A q \in Procs \ {p} : pc'[q] = pc[q]
        /\ pool' = pool
    BY <1>2 DEF Stop, Evict, TakeDown, Goto, IInv, HandlesInv
  <2> HIDE DEF CaptureWorker
  <2> QED BY <2>1, Asked
<1>3. ASSUME NEW p \in Clients \cup Sweepers \cup Drainers, Join(p) \/ Reap(p) \/ JoinDrained(p)
      PROVE FlagInv'
  <2>1. \A u \in Workers : worker'[u] = IF u \in held[p] THEN Gone ELSE worker[u]
    BY <1>3 DEF Join, Reap, JoinDrained, JoinHeld, Reclaim
  <2>2. pool' = pool /\ \A q \in Procs \ {p} : held'[q] = held[q] /\ pc'[q] = pc[q]
    BY <1>3 DEF Join, Reap, JoinDrained, JoinHeld, Goto
  <2> QED BY <2>1, <2>2
<1>4. ASSUME NEW p \in Clients \cup Sweepers, Lock(p) PROVE FlagInv'
  BY <1>4 DEF Lock, Goto
<1>5. ASSUME NEW p \in Clients \cup Sweepers, Check(p) \/ Probe(p) \/ Retry(p) PROVE FlagInv'
  BY <1>5 DEF Check, Probe, Retry, Unlock, Leave, Goto
<1>6. ASSUME NEW p \in Clients \cup Sweepers, SpawnSend(p) \/ SpawnRecv(p) PROVE FlagInv'
  <2>1. pool' = pool /\ \A q \in Procs : Waits(pc[q]) => held'[q] = held[q] /\ pc'[q] = pc[q]
    BY <1>6 DEF SpawnSend, SpawnRecv, SpawnHalf, Goto
  <2>2. \A u \in Workers : worker'[u] = worker[u] \/ ~worker'[u].stop
    BY <1>6 DEF SpawnSend, SpawnRecv, SpawnHalf, NewWorker
  <2> QED BY <2>1, <2>2
<1>7. ASSUME NEW p \in Clients \cup Sweepers, StartFails(p) \/ Commit(p) PROVE FlagInv'
  BY <1>7 DEF StartFails, Commit, Unlock, Leave, Goto, Sides
<1>8. ASSUME NEW p \in Sweepers, Snapshot(p) \/ NextRoute(p) PROVE FlagInv'
  BY <1>8 DEF Snapshot, NextRoute, Goto
<1>9. ASSUME NEW p \in Drainers, FlagDevices(p) PROVE FlagInv'
  <2>1. /\ RequestStop({t \in Workers : CaptureWorker(t)}) /\ held' = held /\ pc[p] = "idle"
        /\ pool' = pool /\ \A q \in Procs \ {p} : pc'[q] = pc[q]
    BY <1>9 DEF FlagDevices, Goto
  <2> HIDE DEF CaptureWorker
  <2> QED BY <2>1, Asked
<1>10. ASSUME NEW p \in Drainers, Collect(p) PROVE FlagInv'
  BY <1>10 DEF Collect, Goto
<1>11. ASSUME NEW p \in Drainers, Drain(p) PROVE FlagInv'
  <2>1. PICK e \in todo[p] : /\ held' = [held EXCEPT ![p] = @ \cup running[e[1]]]
                             /\ RequestStop(running[e[1]])
    BY <1>11 DEF Drain
  <2>2. /\ e[1] \in Routes /\ running[e[1]] \in SUBSET Workers
        /\ pc[p] = "drain" /\ pc' = pc /\ pool' = pool
    BY <1>11 DEF Drain
  <2> HIDE DEF CaptureWorker
  <2> QED BY <2>1, <2>2, Asked
<1>12. ASSUME NEW t \in Workers, Open(t) \/ Exit(t) \/ Fail(t) PROVE FlagInv'
  <2>1. UNCHANGED <<pc, held, pool>>
    BY <1>12 DEF Open, Exit, Fail
  <2> QED BY <1>12, <2>1, ComesAround, ConfigKept DEF Gone
<1>13. ASSUME NEW t \in Workers, Vanish(t) PROVE FlagInv'
  BY <1>13 DEF Vanish, Owned
<1>14. CASE (\E r \in Routes : BackoffElapses(r)) \/ UNCHANGED vars
  BY <1>14 DEF BackoffElapses, vars
<1>15. ASSUME NEW p \in Clients \cup Drainers, Dropped(p) PROVE FlagInv'
  BY <1>15
     DEF Dropped, DroppedAtLock, DroppedAtJoin, DroppedAtStart, DroppedAtDrain, Unlock, Leave, Goto, Sides
<1> QED
  BY <1>1, <1>2, <1>3, <1>4, <1>5, <1>6, <1>7, <1>8, <1>9, <1>10, <1>11, <1>12, <1>13, <1>14, <1>15
     DEF Next, ClientStep, SweepStep, DrainStep, StartStep

LEMMA TornDown == Spec => [](EvictInv /\ TeardownInv /\ FlagInv)
<1>1. Init => EvictInv /\ TeardownInv /\ FlagInv
  BY DEF Init, EvictInv, TeardownInv, FlagInv, Procs, Gone
<1>2. TypeOK /\ IInv /\ EvictInv /\ TeardownInv /\ FlagInv /\ [Next]_vars =>
        (EvictInv /\ TeardownInv /\ FlagInv)'
  BY EvictStep, TeardownStep, FlagStep
<1> QED BY <1>1, <1>2, Inductive, PTL DEF Spec

\* A new thread never meets its own route's previous one, but where
\* shutdown_all has either in hand or the pool goes on joining what a dropped
\* task waited for: else whoever asked the old one to stop holds the route's
\* lock until it is gone (routing.rs 1051-1055).
THEOREM TeardownFirst == Spec => []OpenNeverMeetsTeardown
<1>1. TypeOK /\ IInv /\ TeardownInv /\ FlagInv => OpenNeverMeetsTeardown
  <2> SUFFICES ASSUME TypeOK, IInv, TeardownInv, FlagInv, NEW t \in Workers, NEW u \in Workers,
                      worker[t].st = "opening", Owned(t),
                      worker[u].st = "live", worker[u].stop,
                      worker[t].route = worker[u].route, worker[t].side = worker[u].side,
                      ~CaptureWorker(u)
               PROVE  u \in pool \/ \E p \in Drainers : {t, u} \cap held[p] # {}
    BY DEF OpenNeverMeetsTeardown
  <2>1. worker[u] # Gone
    BY DEF Gone
  <2> SUFFICES ASSUME u \notin pool PROVE \E p \in Drainers : {t, u} \cap held[p] # {}
    OBVIOUS
  <2>2. PICK p \in Procs : u \in held[p] /\ pc[p] \in {"join", "reap", "drain"}
    BY <2>1 DEF FlagInv
  <2>3. CASE p \in Drainers
    BY <2>2, <2>3
  <2>4. CASE p \in Clients \cup Sweepers
    <3>1. /\ pc[p] \in {"join", "reap"}
          /\ lock[rid[p]] = p /\ running[rid[p]] = {} /\ worker[u].route = rid[p]
      BY <2>2, <2>4, ProcsAssumption
         DEF IInv, LocalsInv, LockInv, Critical, ClientLabels, StartLabels, SweepLabels, TeardownInv
    <3>2. \A r \in Routes : t \notin running[r]
      BY <3>1 DEF IInv, HandlesInv
    <3>3. PICK q \in Procs : t \in held[q]
      BY <3>2 DEF Owned
    <3>4. q # p
      BY <2>2, <2>4, <3>1, <3>3 DEF TeardownInv
    <3>5. CASE q \in Drainers
      BY <3>3, <3>5
    <3>6. CASE q \in Clients \cup Sweepers
      <4>1. pc[q] \in {"recv", "commit", "join", "reap"} /\ lock[rid[q]] = q
        BY <3>3, <3>6, ProcsAssumption
           DEF IInv, HandlesInv, LocalsInv, LockInv, Critical, ClientLabels, StartLabels, SweepLabels
      <4>2. worker[t].route = rid[q]
        BY <3>3, <3>6, <4>1 DEF IInv, HandlesInv, TeardownInv
      <4> QED BY <3>1, <3>4, <4>1, <4>2
    <3> QED BY <3>5, <3>6 DEF Procs
  <2> QED BY <2>3, <2>4 DEF Procs
<1> QED BY <1>1, Inductive, TornDown, PTL

\* A sweep asks a pipeline to stop only if one of its threads is dead: on a
\* live route try_start does nothing (routing.rs 407-410, 662-665).
THEOREM LivingAreSpared == Spec => SweepSparesTheLiving
<1> DEFINE Spares == \A p \in Sweepers : pc[p] = "evict" /\ held'[p] # {} =>
                       \E t \in held'[p] : worker[t].st = "dead"
<1>1. TypeOK /\ IInv /\ EvictInv /\ [Next]_vars => Spares \/ UNCHANGED vars
  <2> SUFFICES ASSUME TypeOK, IInv, EvictInv, Next,
                      NEW p \in Sweepers, pc[p] = "evict", held'[p] # {}
               PROVE  \E t \in held'[p] : worker[t].st = "dead"
    OBVIOUS
  <2>1. held[p] = {} /\ p \in Procs
    BY DEF IInv, HandlesInv, Procs
  <2>2. CASE Evict(p)
    <3>1. held'[p] = running[rid[p]]
      BY <2>1, <2>2 DEF Evict, TakeDown, TypeOK
    <3> QED BY <3>1 DEF EvictInv, IsDead
  <2>3. CASE ~Evict(p)
    <3> USE ProcsAssumption DEF TypeOK, Procs, maps, locals, loose
    <3>1. ASSUME NEW q \in Clients, Apply(q) \/ Remove(q) \/ ClientStep(q) PROVE held'[p] = held[p]
      BY <3>1 DEF Apply, Remove, ClientStep, Insert, Stop, Join, Clear, StartStep, Check, Probe, Evict,
           Reap, Retry, SpawnSend, SpawnRecv, SpawnHalf, Commit, TakeDown, JoinHeld
    <3>2. ASSUME NEW q \in Sweepers, SweepStep(q) PROVE held'[p] = held[p]
      BY <3>2, <2>3 DEF SweepStep, Snapshot, NextRoute, StartStep, Check, Probe, Evict,
           Reap, Retry, SpawnSend, SpawnRecv, SpawnHalf, Commit, TakeDown, JoinHeld
    <3>3. ASSUME NEW q \in Clients \cup Sweepers, Lock(q) \/ StartFails(q) PROVE held'[p] = held[p]
      BY <3>3 DEF Lock, StartFails, Sides
    <3>4. ASSUME NEW q \in Drainers, FlagDevices(q) \/ DrainStep(q) PROVE held'[p] = held[p]
      BY <3>4 DEF FlagDevices, DrainStep, Collect, Drain, JoinDrained, JoinHeld
    <3>5. ASSUME NEW t \in Workers, Open(t) \/ Exit(t) \/ Fail(t) \/ Vanish(t)
          PROVE  held'[p] = held[p]
      BY <3>5 DEF Open, Exit, Fail, Vanish
    <3>6. ASSUME \E r \in Routes : BackoffElapses(r) PROVE held'[p] = held[p]
      BY <3>6 DEF BackoffElapses
    <3>7. ASSUME NEW q \in Clients \cup Drainers, Dropped(q) PROVE held'[p] = held[p]
      BY <3>7 DEF Dropped, DroppedAtLock, DroppedAtJoin, DroppedAtStart, DroppedAtDrain
    <3>8. held'[p] = held[p]
      BY <3>1, <3>2, <3>3, <3>4, <3>5, <3>6, <3>7 DEF Next
    <3> QED BY <2>1, <3>8
  <2> QED BY <2>2, <2>3
<1> QED BY <1>1, Inductive, TornDown, PTL DEF Spec, SweepSparesTheLiving

-----------------------------------------------------------------------------
(* The refinement                                                          *)

\* What a thread serves, seen from the maps.
LEMMA ServingIs ==
  ASSUME TypeOK, NEW t \in Workers
  PROVE  /\ Active(t) => /\ Serving[t] # Idle
                         /\ Serving[t].route = worker[t].route
                         /\ Serving[t].side = worker[t].side
                         /\ worker[t].route \in Routes
         /\ ~Active(t) => Serving[t] = Idle
<1>1. ASSUME Active(t) PROVE worker[t] \in WorkerRecords
  BY <1>1 DEF Active, TypeOK
<1>2. ASSUME Active(t) PROVE worker[t].route \in Routes /\ worker[t].route # NoRoute
  BY <1>1, <1>2, SentinelAssumption DEF WorkerRecords
<1>3. ASSUME Active(t)
      PROVE  Serving[t] = [route |-> worker[t].route, side |-> worker[t].side, config |-> worker[t].config]
  BY <1>3 DEF Serving
<1>4. Idle.route = NoRoute
  BY DEF Idle
<1>5. ASSUME ~Active(t) PROVE Serving[t] = Idle
  BY <1>5 DEF Serving
<1> QED BY <1>2, <1>3, <1>4, <1>5

\* An unflagged thread with a handle is in the map, or with whoever builds the
\* route's pipeline.
LEMMA Owners ==
  ASSUME TypeOK, IInv, NEW t \in Workers, Active(t)
  PROVE  \/ t \in running[worker[t].route]
         \/ \E p \in Procs : /\ t \in held[p]
                             /\ pc[p] \in {"recv", "commit"}
                             /\ worker[t].route = rid[p]
<1>1. CASE \E r \in Routes : t \in running[r]
  BY <1>1 DEF IInv, HandlesInv
<1>2. CASE \E p \in Procs : t \in held[p]
  BY <1>2 DEF IInv, HandlesInv, Active
<1> QED BY <1>1, <1>2 DEF Active, Owned

\* A step that only takes threads off their routes.
LEMMA Fewer ==
  ASSUME routes' = routes, unstopped' = unstopped,
         \A r \in Routes : Removing(r)' <=> Removing(r),
         \A t \in Workers : Active(t)' =>
           /\ Active(t)
           /\ worker'[t].route = worker[t].route
           /\ worker'[t].side = worker[t].side
           /\ worker'[t].config = worker[t].config
  PROVE  Promise!SNext
<1> DEFINE ts == {t \in Workers : ~Active(t)'}
<1>1. Serving' = [t \in Workers |-> IF t \in ts THEN Idle ELSE Serving[t]]
  BY DEF Serving
<1>2. {r \in Routes : Removing(r)}' = {r \in Routes : Removing(r)}
  OBVIOUS
<1>3. Promise!Withdraw(ts)
  BY <1>1, <1>2 DEF Promise!Withdraw
<1> QED BY <1>3 DEF Promise!SNext

LEMMA PromiseInit == Init => Promise!SInit
<1> SUFFICES ASSUME Init PROVE Promise!SInit
  OBVIOUS
<1>1. \A t \in Workers : ~Active(t)
  BY DEF Init, Active
<1>2. Serving = [t \in Workers |-> Idle]
  BY <1>1 DEF Serving
<1>3. {r \in Routes : Removing(r)} = {}
  BY DEF Init, Removing, Procs
<1> QED BY <1>2, <1>3 DEF Init, Promise!SInit

\* The steps the routes' users do not see: whoever takes them neither adds a
\* thread nor a request, and at most lets go of threads.
LEMMA QuietStep ==
  ASSUME TypeOK, IInv,
         \/ \E p \in Clients : Join(p) \/ Clear(p)
         \/ \E p \in Clients \cup Sweepers :
              \/ Lock(p) \/ Check(p) \/ Probe(p) \/ Evict(p) \/ Reap(p) \/ Retry(p)
              \/ StartFails(p) \/ Commit(p)
         \/ \E p \in Sweepers : Snapshot(p) \/ NextRoute(p)
         \/ \E p \in Drainers : FlagDevices(p) \/ Collect(p) \/ Drain(p) \/ JoinDrained(p)
         \/ \E t \in Workers : Open(t) \/ Exit(t) \/ Fail(t) \/ Vanish(t)
         \/ \E r \in Routes : BackoffElapses(r)
  PROVE  Promise!SNext
<1> USE ProcsAssumption, SentinelAssumption DEF maps, locals, loose, Procs, TypeOK
<1> DEFINE Fades == \A t \in Workers : Active(t)' =>
                      /\ Active(t)
                      /\ worker'[t].route = worker[t].route
                      /\ worker'[t].side = worker[t].side
                      /\ worker'[t].config = worker[t].config
           SameRemovals == \A r \in Routes : Removing(r)' <=> Removing(r)
<1>1. ASSUME NEW p \in Clients, Join(p) \/ Clear(p) PROVE Promise!SNext
  <2>1. routes' = routes /\ unstopped' = unstopped /\ SameRemovals
    BY <1>1 DEF Join, Clear, JoinHeld, Unlock, Leave, Goto, Removing
  <2>2. Fades
    BY <1>1 DEF Join, Clear, JoinHeld, Reclaim, Active, Owned
  <2> QED BY <2>1, <2>2, Fewer
<1>2. ASSUME NEW p \in Clients \cup Sweepers, Lock(p) \/ Check(p) \/ Probe(p) \/ Retry(p)
      PROVE  Promise!SNext
  <2>1. routes' = routes /\ unstopped' = unstopped /\ SameRemovals
    BY <1>2 DEF Lock, Check, Probe, Retry, Unlock, Leave, Goto, Removing
  <2>2. Fades
    BY <1>2 DEF Lock, Check, Probe, Retry, Active, Owned
  <2> QED BY <2>1, <2>2, Fewer
<1>3. ASSUME NEW p \in Clients \cup Sweepers, Evict(p) PROVE Promise!SNext
  <2>1. routes' = routes /\ unstopped' = unstopped /\ SameRemovals
    BY <1>3 DEF Evict, TakeDown, Goto, Removing
  <2>2. /\ RequestStop(running[rid[p]])
        /\ held' = [held EXCEPT ![p] = running[rid[p]]]
        /\ running' = [running EXCEPT ![rid[p]] = {}]
        /\ rid[p] \in Routes
    BY <1>3 DEF Evict, TakeDown
  <2>3. Fades
    BY <2>2, Flagged, ConfigKept DEF Active, Owned, RequestStop
  <2> QED BY <2>1, <2>3, Fewer
<1>4. ASSUME NEW p \in Clients \cup Sweepers, Reap(p) PROVE Promise!SNext
  <2>1. routes' = routes /\ unstopped' = unstopped /\ SameRemovals
    BY <1>4 DEF Reap, JoinHeld, Goto, Removing
  <2>2. Fades
    BY <1>4 DEF Reap, JoinHeld, Reclaim, Active, Owned
  <2> QED BY <2>1, <2>2, Fewer
<1>5. ASSUME NEW p \in Clients \cup Sweepers, StartFails(p) \/ Commit(p) PROVE Promise!SNext
  <2>1. routes' = routes /\ unstopped' = unstopped /\ SameRemovals
    BY <1>5 DEF StartFails, Commit, Unlock, Leave, Goto, Removing, Sides
  <2>2. Fades
    BY <1>5 DEF StartFails, Commit, Active, Owned
  <2> QED BY <2>1, <2>2, Fewer
<1>6. ASSUME NEW p \in Sweepers, Snapshot(p) \/ NextRoute(p) PROVE Promise!SNext
  <2>1. routes' = routes /\ unstopped' = unstopped /\ SameRemovals
    BY <1>6 DEF Snapshot, NextRoute, Goto, Removing
  <2>2. Fades
    BY <1>6 DEF Snapshot, NextRoute, Active, Owned
  <2> QED BY <2>1, <2>2, Fewer
<1>7. ASSUME NEW p \in Drainers, FlagDevices(p) \/ Collect(p) \/ Drain(p) \/ JoinDrained(p)
      PROVE  Promise!SNext
  <2>1. routes' = routes /\ unstopped' = unstopped /\ SameRemovals
    BY <1>7 DEF FlagDevices, Collect, Drain, JoinDrained, JoinHeld, Goto, Removing
  <2>2. CASE FlagDevices(p)
    <3>1. Fades
      BY <2>2, Flagged, ConfigKept DEF FlagDevices, Active, Owned, RequestStop
    <3> QED BY <2>1, <3>1, Fewer
  <2>3. CASE Collect(p)
    BY <2>1, <2>3, Fewer DEF Collect, Active, Owned
  <2>4. CASE Drain(p)
    <3> PICK e \in todo[p] : /\ held' = [held EXCEPT ![p] = @ \cup running[e[1]]]
                             /\ running' = [running EXCEPT ![e[1]] = {}]
                             /\ RequestStop(running[e[1]])
      BY <2>4 DEF Drain
    <3>1. e[1] \in Routes
      OBVIOUS
    <3>2. Fades
      BY <3>1, Flagged, ConfigKept DEF Active, Owned, RequestStop
    <3> QED BY <2>1, <3>2, Fewer
  <2>5. CASE JoinDrained(p)
    <3>1. Fades
      BY <2>5 DEF JoinDrained, JoinHeld, Reclaim, Active, Owned
    <3> QED BY <2>1, <3>1, Fewer
  <2> QED BY <1>7, <2>2, <2>3, <2>4, <2>5
<1>8. ASSUME NEW t \in Workers, Open(t) \/ Exit(t) \/ Fail(t) PROVE Promise!SNext
  <2>1. /\ routes' = routes /\ unstopped' = unstopped /\ SameRemovals
        /\ UNCHANGED <<running, held>>
    BY <1>8 DEF Open, Exit, Fail, Removing
  <2>2. \A u \in Workers : worker'[u] # Gone => worker[u] # Gone
    <3>1. worker[t] # Gone
      BY <1>8 DEF Open, Exit, Fail, Gone
    <3>2. \A u \in Workers \ {t} : worker'[u] = worker[u]
      <4> PICK s \in {"live", "dead"} : worker' = [worker EXCEPT ![t].st = s]
        BY <1>8 DEF Open, Exit, Fail
      <4> QED OBVIOUS
    <3> QED BY <3>1, <3>2
  <2>3. Fades
    BY <1>8, <2>1, <2>2, ComesAround, ConfigKept DEF Active, Owned
  <2> QED BY <2>1, <2>3, Fewer
<1>9. ASSUME NEW t \in Workers, Vanish(t) PROVE Promise!SNext
  <2>1. routes' = routes /\ unstopped' = unstopped /\ SameRemovals
    BY <1>9 DEF Vanish, Removing
  <2>2. Fades
    BY <1>9 DEF Vanish, Active, Owned
  <2> QED BY <2>1, <2>2, Fewer
<1>10. CASE \E r \in Routes : BackoffElapses(r)
  BY <1>10, Fewer DEF BackoffElapses, Active, Owned, Removing
<1> QED BY <1>1, <1>2, <1>3, <1>4, <1>5, <1>6, <1>7, <1>8, <1>9, <1>10

\* The routes that change: an application, a removal and its teardown.
LEMMA RequestStep ==
  ASSUME TypeOK, IInv, NEW p \in Clients, Apply(p) \/ Remove(p) \/ Insert(p) \/ Stop(p)
  PROVE  [Promise!SNext]_(Promise!svars)
<1> USE ProcsAssumption, SentinelAssumption DEF maps, locals, loose, Procs, TypeOK
<1> DEFINE removing == {r \in Routes : Removing(r)}
<1>1. CASE Apply(p)
  <2>1. \A r \in Routes : Removing(r)' <=> Removing(r)
    BY <1>1 DEF Apply, Goto, Removing
  <2> QED BY <1>1, <2>1, Fewer DEF Apply, Active, Owned
<1>2. CASE Remove(p)
  <2> PICK r \in Routes : /\ routes' = [routes EXCEPT ![r] = NoConfig]
                          /\ rid' = [rid EXCEPT ![p] = r]
    BY <1>2 DEF Remove
  <2>1. \A s \in Routes : Removing(s)' <=> Removing(s) \/ s = r
    BY <1>2 DEF Remove, Goto, Removing, IInv, LocalsInv
  <2>2. removing' = removing \cup {r}
    BY <2>1
  <2>3. Serving' = Serving /\ unstopped' = unstopped
    BY <1>2 DEF Remove, Serving, Active, Owned
  <2> QED BY <2>2, <2>3 DEF Promise!SNext, Promise!Unconfigure
<1>3. CASE Insert(p)
  <2>1. arg[p] \in Configs /\ rid[p] \in Routes
    BY <1>3 DEF Insert, IInv, LocalsInv
  <2>2. \A r \in Routes : Removing(r)' <=> Removing(r)
    BY <1>3, <2>1 DEF Insert, Leave, Goto, Removing
  <2>3. removing' = removing
    BY <2>2
  <2>4. Serving' = Serving
    BY <1>3 DEF Insert, Serving, Active, Owned
  <2>5. Promise!Configure(rid[p], arg[p])
    BY <1>3, <2>3, <2>4 DEF Insert, Promise!Configure
  <2> QED BY <2>1, <2>5 DEF Promise!SNext
<1>4. CASE Stop(p)
  <2> DEFINE r == rid[p]
  <2>1. /\ r \in Routes
        /\ routes' = routes
        /\ RequestStop(running[r])
        /\ held' = [held EXCEPT ![p] = running[r]]
        /\ running' = [running EXCEPT ![r] = {}]
        /\ pc[p] = "stop" /\ pc' = [pc EXCEPT ![p] = "join"]
        /\ unstopped' = unstopped \ {r}
        /\ UNCHANGED <<rid, arg>>
    BY <1>4 DEF Stop, TakeDown, Goto
  <2>2. \A t \in Workers : Active(t)' =>
          /\ Active(t)
          /\ worker'[t].route = worker[t].route
          /\ worker'[t].side = worker[t].side
          /\ worker'[t].config = worker[t].config
    BY <2>1, Flagged, ConfigKept DEF Active, Owned, RequestStop
  <2>3. CASE arg[p] # NoConfig /\ r \notin unstopped
    <3>1. unstopped' = unstopped /\ \A s \in Routes : Removing(s)' <=> Removing(s)
      BY <2>1, <2>3 DEF Removing
    <3> QED BY <2>1, <2>2, <3>1, Fewer
  <2>4. CASE arg[p] = NoConfig \/ r \in unstopped
    <3>1. Removing(r) \/ r \in unstopped
      BY <2>1, <2>4 DEF Removing
    <3>2. /\ \A s \in Routes \ {r} : Removing(s)' <=> Removing(s)
          /\ Removing(r)' => Removing(r)
      BY <2>1 DEF Removing
    <3>3. removing' \in {removing, removing \ {r}} /\ r \in removing \cup unstopped
      BY <2>1, <3>1, <3>2
    <3>4. \A t \in Workers : Active(t)' <=> Active(t) /\ worker[t].route # r
      <4>1. ASSUME NEW t \in Workers, Active(t), worker[t].route # r PROVE Active(t)'
        <5>1. t \notin running[r]
          BY <4>1, <2>1 DEF IInv, HandlesInv
        <5>2. worker'[t] = worker[t]
          BY <2>1, <5>1 DEF RequestStop
        <5>3. Owned(t)'
          <6>1. held[p] \subseteq {}
            BY <2>1 DEF IInv, HandlesInv
          <6> QED BY <4>1, <2>1, <5>1, <6>1 DEF Active, Owned
        <5> QED BY <4>1, <5>2, <5>3 DEF Active
      <4>2. ASSUME NEW t \in Workers, Active(t)' PROVE worker[t].route # r
        <5>1. Active(t)
          BY <2>2, <4>2
        <5>2. t \notin running[r]
          BY <2>1, <4>2, <5>1, Flagged, ConfigKept DEF Active, IInv, HandlesInv
        <5>3. ASSUME NEW q \in Procs, pc[q] \in {"recv", "commit"} PROVE rid[q] # r
          BY <2>1, <5>3 DEF IInv, LockInv, Critical, StartLabels
        <5> QED BY <5>1, <5>2, <5>3, Owners
      <4> QED BY <2>2, <4>1, <4>2
    <3>5. Serving' = [t \in Workers |-> IF Promise!Serves(t, r) THEN Idle ELSE Serving[t]]
      <4>1. ASSUME NEW t \in Workers
            PROVE  Serving'[t] = IF Promise!Serves(t, r) THEN Idle ELSE Serving[t]
        <5>1. Promise!Serves(t, r) <=> Active(t) /\ worker[t].route = r
          BY ServingIs DEF Promise!Serves
        <5>2. CASE Active(t)'
          BY <5>1, <5>2, <3>4, <2>2 DEF Serving
        <5>3. CASE ~Active(t)'
          BY <5>1, <5>3, <3>4 DEF Serving
        <5> QED BY <5>2, <5>3
      <4> QED BY <4>1 DEF Serving
    <3> QED BY <2>1, <3>3, <3>5 DEF Promise!SNext, Promise!Retire
  <2> QED BY <2>3, <2>4
<1> QED BY <1>1, <1>2, <1>3, <1>4

\* A half is spawned: nobody else serves it, and its route is configured or has
\* its removal ahead.
LEMMA SpawnStep ==
  ASSUME TypeOK, IInv, NEW p \in Clients \cup Sweepers, SpawnSend(p) \/ SpawnRecv(p)
  PROVE  Promise!SNext
<1> USE ProcsAssumption, SentinelAssumption DEF maps, locals, loose, Procs, TypeOK
<1> PICK side \in Sides, next \in {"recv", "commit"} : SpawnHalf(p, side, next)
  BY DEF SpawnSend, SpawnRecv, Sides
<1>1. /\ routes' = routes /\ running' = running /\ unstopped' = unstopped
      /\ pc[p] = side /\ pc[p] \in {"send", "recv"}
      /\ rid[p] \in Routes /\ arg[p] \in Configs
  BY DEF SpawnHalf, Sides, IInv, LocalsInv, StartLabels
<1>2. \A r \in Routes : Removing(r)' <=> Removing(r)
  BY <1>1 DEF SpawnHalf, Goto, Removing
<1>3. CASE UNCHANGED <<worker, held>>
  BY <1>1, <1>2, <1>3, Fewer DEF Active, Owned
<1>4. CASE \E t \in Workers :
             /\ worker[t] = Gone
             /\ worker' = [worker EXCEPT ![t] = NewWorker(rid[p], side, arg[p])]
             /\ held' = [held EXCEPT ![p] = @ \cup {t}]
  <2> PICK t \in Workers :
             /\ worker[t] = Gone
             /\ worker' = [worker EXCEPT ![t] = NewWorker(rid[p], side, arg[p])]
             /\ held' = [held EXCEPT ![p] = @ \cup {t}]
    BY <1>4
  <2> DEFINE a == [route |-> rid[p], side |-> side, config |-> arg[p]]
  <2>1. worker'[t] = NewWorker(rid[p], side, arg[p])
    OBVIOUS
  <2>2. ~Active(t) /\ Active(t)'
    BY <2>1 DEF Active, Owned, NewWorker, Gone
  <2>3. \A u \in Workers \ {t} : worker'[u] = worker[u] /\ (Active(u)' <=> Active(u))
    BY <1>1 DEF Active, Owned
  <2>4. Serving' = [Serving EXCEPT ![t] = a]
    <3>1. Serving'[t] = a
      BY <2>1, <2>2 DEF Serving, NewWorker
    <3>2. \A u \in Workers \ {t} : Serving'[u] = Serving[u]
      BY <2>3 DEF Serving
    <3> QED BY <3>1, <3>2 DEF Serving
  <2>5. Serving[t] = Idle
    BY <2>2, ServingIs
  <2>6. routes[rid[p]] # NoConfig \/ rid[p] \in {r \in Routes : Removing(r)} \cup unstopped
    BY <1>1 DEF IInv, RemovalInv, Abandoned, Committed, StartLabels
  <2>7. ASSUME NEW u \in Workers, Promise!Serves(u, rid[p]) PROVE Serving[u].side # side
    <3>1. Active(u) /\ worker[u].route = rid[p] /\ Serving[u].side = worker[u].side
      BY <2>7, ServingIs DEF Promise!Serves
    <3>2. running[rid[p]] = {}
      BY <1>1 DEF IInv, StartInv
    <3>3. PICK q \in Procs : u \in held[q] /\ pc[q] \in {"recv", "commit"} /\ rid[q] = rid[p]
      BY <3>1, <3>2, Owners
    <3>4. lock[rid[p]] = p /\ lock[rid[q]] = q
      BY <1>1, <3>3 DEF IInv, LockInv, Critical, StartLabels
    <3>5. worker[u].side = "send" /\ side = "recv"
      BY <1>1, <3>3, <3>4 DEF IInv, HalvesInv
    <3> QED BY <3>1, <3>5
  <2>8. a \in Promise!Assignments
    BY <1>1 DEF Promise!Assignments
  <2>9. {r \in Routes : Removing(r)}' = {r \in Routes : Removing(r)}
    BY <1>2
  <2>10. a.route = rid[p] /\ a.side = side
    OBVIOUS
  <2> HIDE DEF a
  <2>11. Promise!Serve(t, a)
    BY <1>1, <2>4, <2>5, <2>6, <2>7, <2>9, <2>10 DEF Promise!Serve
  <2> QED BY <2>8, <2>11 DEF Promise!SNext
<1> QED BY <1>3, <1>4 DEF SpawnHalf

\* A handler is dropped: a removal that has come no further than the lock is
\* abandoned, and whatever else is dropped only lets go of threads.
LEMMA DropStep ==
  ASSUME TypeOK, IInv, NEW p \in Clients \cup Drainers, Dropped(p)
  PROVE  Promise!SNext
<1> USE ProcsAssumption, SentinelAssumption DEF maps, locals, loose, Procs, TypeOK
<1> DEFINE removing == {r \in Routes : Removing(r)}
<1>1. /\ UNCHANGED <<routes, running, worker>>
      /\ \A q \in Procs : held'[q] \subseteq held[q]
  BY DEF Dropped, DroppedAtLock, DroppedAtJoin, DroppedAtStart, DroppedAtDrain
<1>2. \A t \in Workers : Active(t)' =>
        /\ Active(t)
        /\ worker'[t].route = worker[t].route
        /\ worker'[t].side = worker[t].side
        /\ worker'[t].config = worker[t].config
  BY <1>1 DEF Active, Owned
<1>3. CASE DroppedAtLock(p) /\ arg[p] = NoConfig
  <2> DEFINE r == rid[p]
  <2>1. /\ r \in Routes /\ Removing(r) /\ unstopped' = unstopped \cup {r}
        /\ pc'[p] = "idle" /\ held' = held
    BY <1>3 DEF DroppedAtLock, Leave, Goto, Removing
  <2>2. \A q \in Procs \ {p} : pc'[q] = pc[q] /\ rid'[q] = rid[q] /\ arg'[q] = arg[q]
    BY <1>3 DEF DroppedAtLock, Leave, Goto
  <2>3. /\ \A s \in Routes \ {r} : Removing(s)' <=> Removing(s)
        /\ Removing(r)' => Removing(r)
    BY <2>1, <2>2 DEF Removing
  <2>4. removing' \in {removing, removing \ {r}} /\ r \in removing
    BY <2>1, <2>3
  <2>5. Serving' = Serving
    BY <1>1, <2>1 DEF Serving, Active, Owned
  <2> QED BY <1>1, <2>1, <2>4, <2>5 DEF Promise!SNext, Promise!Abandon
<1>4. CASE ~(DroppedAtLock(p) /\ arg[p] = NoConfig)
  <2>1. unstopped' = unstopped /\ \A r \in Routes : Removing(r)' <=> Removing(r)
    BY <1>4 DEF Dropped, DroppedAtLock, DroppedAtJoin, DroppedAtStart, DroppedAtDrain, Unlock, Leave, Goto,
      Removing, Sides
  <2> QED BY <1>1, <1>2, <2>1, Fewer
<1> QED BY <1>3, <1>4

\* Whatever the tasks do, and in whatever order, it is what the service
\* promises: wanted routes, removals that end, halves served once.
THEOREM Implements == Spec => ImplementsService
<1>1. TypeOK /\ IInv /\ [Next]_vars => [Promise!SNext]_(Promise!svars)
  <2> SUFFICES ASSUME TypeOK, IInv, [Next]_vars PROVE [Promise!SNext]_(Promise!svars)
    OBVIOUS
  <2>1. CASE UNCHANGED vars
    BY <2>1 DEF vars, maps, locals, loose, Promise!svars, Serving, Active, Owned, Removing
  <2>2. CASE Next
    BY <2>2, QuietStep, RequestStep, SpawnStep, DropStep
       DEF Next, ClientStep, SweepStep, DrainStep, StartStep
  <2> QED BY <2>1, <2>2
<1> QED BY <1>1, PromiseInit, Inductive, PTL DEF Spec, ImplementsService, Promise!Service

-----------------------------------------------------------------------------
(* What the service promises, and the lifecycle therefore keeps            *)

LEMMA ServiceTypes == Promise!Service => []Promise!STypeOK
<1>0. Idle \notin Promise!Assignments
  BY DEF Idle, Promise!Assignments
<1>1. Promise!SInit => Promise!STypeOK
  BY DEF Promise!SInit, Promise!STypeOK
<1>2. Promise!STypeOK /\ [Promise!SNext]_(Promise!svars) => Promise!STypeOK'
  BY <1>0 DEF Promise!STypeOK, Promise!SNext, Promise!svars, Promise!Configure,
    Promise!Unconfigure, Promise!Abandon, Promise!Serve, Promise!Withdraw, Promise!Retire
<1> QED BY <1>1, <1>2, PTL DEF Promise!Service

\* Whoever keeps the service's promise leaves nobody on a route that was
\* removed, once the removal is over, although a worker may have been put on it
\* while the removal was on its way (routing.rs 709-723), unless whoever asked
\* for the removal gave it up.
THEOREM RemovedAreGone == Promise!Service => []Promise!GoneIsGone
<1>0. Idle \notin Promise!Assignments /\ NoConfig \notin Configs
  BY SentinelAssumption DEF Idle, Promise!Assignments
<1>1. Promise!SInit => Promise!GoneIsGone
  BY DEF Promise!SInit, Promise!GoneIsGone, Promise!Serves
<1>2. Promise!STypeOK /\ Promise!GoneIsGone /\ [Promise!SNext]_(Promise!svars) => Promise!GoneIsGone'
  <2> SUFFICES ASSUME Promise!STypeOK, Promise!GoneIsGone, [Promise!SNext]_(Promise!svars)
               PROVE  Promise!GoneIsGone'
    OBVIOUS
  <2> USE <1>0 DEF Promise!STypeOK, Promise!GoneIsGone, Promise!Serves
  <2>1. ASSUME NEW r \in Routes, NEW c \in Configs, Promise!Configure(r, c) PROVE Promise!GoneIsGone'
    BY <2>1 DEF Promise!Configure
  <2>2. ASSUME NEW r \in Routes, Promise!Unconfigure(r) PROVE Promise!GoneIsGone'
    BY <2>2 DEF Promise!Unconfigure
  <2>3. ASSUME NEW r \in Routes, Promise!Retire(r) PROVE Promise!GoneIsGone'
    BY <2>3 DEF Promise!Retire
  <2>4. ASSUME NEW t \in Workers, NEW a \in Promise!Assignments, Promise!Serve(t, a)
        PROVE  Promise!GoneIsGone'
    BY <2>4 DEF Promise!Serve, Promise!Assignments
  <2>5. ASSUME NEW ts \in SUBSET Workers, Promise!Withdraw(ts) PROVE Promise!GoneIsGone'
    BY <2>5 DEF Promise!Withdraw
  <2>6. CASE UNCHANGED Promise!svars
    BY <2>6 DEF Promise!svars
  <2>7. ASSUME NEW r \in Routes, Promise!Abandon(r) PROVE Promise!GoneIsGone'
    BY <2>7 DEF Promise!Abandon
  <2> QED BY <2>1, <2>2, <2>3, <2>4, <2>5, <2>6, <2>7 DEF Promise!SNext
<1> QED BY <1>1, <1>2, ServiceTypes, PTL DEF Promise!Service

\* Whoever keeps the service's promise never has two workers on one half of a
\* route, whatever is asked for meanwhile (routing.rs 416-430).
THEOREM HalvesServedOnce == Promise!Service => []Promise!ServedOnce
<1>1. Promise!SInit => Promise!ServedOnce
  BY DEF Promise!SInit, Promise!ServedOnce
<1>2. Promise!STypeOK /\ Promise!ServedOnce /\ [Promise!SNext]_(Promise!svars) => Promise!ServedOnce'
  <2> SUFFICES ASSUME Promise!STypeOK, Promise!ServedOnce, [Promise!SNext]_(Promise!svars)
               PROVE  Promise!ServedOnce'
    OBVIOUS
  <2> USE DEF Promise!STypeOK, Promise!ServedOnce, Promise!Serves
  <2>1. ASSUME NEW t \in Workers, NEW a \in Promise!Assignments, Promise!Serve(t, a)
        PROVE  Promise!ServedOnce'
    <3>1. Idle \notin Promise!Assignments
      BY DEF Idle, Promise!Assignments
    <3> QED BY <2>1, <3>1 DEF Promise!Serve
  <2>2. CASE \/ \E r \in Routes, c \in Configs : Promise!Configure(r, c)
             \/ \E r \in Routes : Promise!Unconfigure(r) \/ Promise!Abandon(r)
             \/ UNCHANGED Promise!svars
    BY <2>2 DEF Promise!Configure, Promise!Unconfigure, Promise!Abandon, Promise!svars
  <2>3. CASE \/ \E r \in Routes : Promise!Retire(r)
             \/ \E ts \in SUBSET Workers : Promise!Withdraw(ts)
    BY <2>3 DEF Promise!Retire, Promise!Withdraw
  <2> QED BY <2>1, <2>2, <2>3 DEF Promise!SNext
<1> QED BY <1>1, <1>2, ServiceTypes, PTL DEF Promise!Service

\* The lifecycle keeps both, through what it implements.
COROLLARY PromisesKept == Spec => [](Promise!GoneIsGone /\ Promise!ServedOnce)
BY Implements, RemovedAreGone, HalvesServedOnce, PTL DEF ImplementsService
=============================================================================
