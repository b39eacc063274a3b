--------------------------- MODULE RouteLifecycle ---------------------------
(***************************************************************************)
(* The life of the routes of ONE engine: routing.rs over the maps of       *)
(* state.rs.  A route is configured in `routes`; the pipeline that serves  *)
(* it is a set of worker threads (a capture/tone -> network half, a        *)
(* network -> playback half) whose handles live in `running`; a route that *)
(* could not be started, or whose workers died, has an entry in `failures` *)
(* that throttles the next attempt.                                        *)
(*                                                                         *)
(* Three kinds of tasks of the runtime touch those maps at the same time:  *)
(*   Clients  - an HTTP, WebSocket or gossip request: apply_route (adds or *)
(*              changes a route) or remove_route;                          *)
(*   Sweepers - spawn_route_supervisor and retry_pending_for_peer: they    *)
(*              take a snapshot of `routes` and try_start each of them;    *)
(*   Drainers - shutdown_all, called when the network interface changes.   *)
(* Every access to a map is a step of its own; the lock of a route is held *)
(* across the steps the code holds it across.  A request's handler, and    *)
(* the drain it starts, may be dropped wherever it awaits (Dropped); the   *)
(* sweeps are tasks of their own, which nobody drops.                      *)
(*                                                                         *)
(* A configuration is the whole Route value; the model keeps of it only    *)
(* which halves this engine has to run.  Time is abstracted: the backoff   *)
(* of a failed route elapses when it elapses.                              *)
(***************************************************************************)
EXTENDS Naturals, FiniteSets

CONSTANTS
  Routes,         (* route ids                                             *)
  Configs,        (* route configurations                                  *)
  Roles,          (* Roles[c]: the halves this engine runs for c           *)
  CaptureConfigs, (* those whose source is a (shared) capture device       *)
  Clients, Sweepers, Drainers,
  Scope,          (* Scope[p]: the routes sweeper p looks at               *)
  Workers,        (* thread ids; a bound on the threads alive at once      *)
  NoConfig, NoRoute, NoProc

Sides == {"send", "recv"}
Procs == Clients \cup Sweepers \cup Drainers

ASSUME RolesAssumption == Roles \in [Configs -> SUBSET Sides]
ASSUME ScopeAssumption == Scope \in [Sweepers -> SUBSET Routes]
ASSUME ProcsAssumption == /\ Clients \cap Sweepers = {}
                          /\ Clients \cap Drainers = {}
                          /\ Sweepers \cap Drainers = {}
ASSUME SentinelAssumption == /\ NoConfig \notin Configs
                             /\ NoRoute \notin Routes
                             /\ NoProc \notin Procs

VARIABLES
  routes,    (* EngineState.routes: the configured route, or NoConfig      *)
  running,   (* EngineState.running: the worker threads of a RunningRoute; *)
             (* {} when the map has no entry                               *)
  failures,  (* EngineState.failures: "none", or a RouteFailure whose      *)
             (* next_retry_at is ahead ("waiting") or behind ("due")       *)
  lock,      (* EngineState.route_locks: the task that holds it            *)
  worker,    (* the threads                                                *)
  pc, rid, arg, held, todo,  (* the locals of a task: where it is, the     *)
             (* route id and the Route value it works on, the handles it   *)
             (* holds itself, the snapshot it walks                        *)
  pool,      (* the threads whose join goes on in the blocking pool though *)
             (* the task that waited for it was dropped                    *)
  unstopped, unforgotten, (* history: the routes of which a dropped        *)
             (* removal has left a pipeline, or a failure entry, to nobody *)
  calm       (* the environment no longer disturbs the engine: no request, *)
             (* no failing device, no failing lookup (for liveness only)   *)

maps   == <<routes, running, failures, lock>>
locals == <<pc, rid, arg, held, todo>>
loose  == <<pool, unstopped, unforgotten>>
vars   == <<maps, worker, locals, loose, calm>>

\* A thread that does not exist (any more), with nothing left to join.
Gone == [st |-> "gone", route |-> NoRoute, side |-> "none",
         config |-> NoConfig, stop |-> FALSE]

WorkerRecords ==
  [st : {"opening", "live", "dead"}, route : Routes, side : Sides,
   config : Configs \cup {NoConfig}, stop : BOOLEAN]

ClientLabels   == {"idle", "insert", "reinsert", "lock", "stop", "join", "clear"}
StartLabels    == {"check", "probe", "evict", "reap", "retry", "send", "recv", "commit"}
SweepLabels    == {"next"}
DrainLabels    == {"collect", "drain"}

TypeOK ==
  /\ routes \in [Routes -> Configs \cup {NoConfig}]
  /\ running \in [Routes -> SUBSET Workers]
  /\ failures \in [Routes -> {"none", "waiting", "due"}]
  /\ lock \in [Routes -> Procs \cup {NoProc}]
  /\ worker \in [Workers -> WorkerRecords \cup {Gone}]
  /\ pc \in [Procs -> ClientLabels \cup StartLabels \cup SweepLabels \cup DrainLabels]
  /\ rid \in [Procs -> Routes \cup {NoRoute}]
  /\ \A p \in Procs : rid[p] = NoRoute => pc[p] \in {"idle", "next", "collect", "drain"}
  /\ arg \in [Procs -> Configs \cup {NoConfig}]
  /\ held \in [Procs -> SUBSET Workers]
  /\ todo \in [Procs -> SUBSET (Routes \X (Configs \cup {NoConfig}))]
  /\ pool \subseteq Workers /\ unstopped \subseteq Routes /\ unforgotten \subseteq Routes
  /\ calm \in BOOLEAN

Init ==
  /\ routes \in [Routes -> Configs \cup {NoConfig}]  \* the saved configuration
  /\ running = [r \in Routes |-> {}]
  /\ failures = [r \in Routes |-> "none"]
  /\ lock = [r \in Routes |-> NoProc]
  /\ worker = [t \in Workers |-> Gone]
  /\ pc = [p \in Procs |-> "idle"]
  /\ rid = [p \in Procs |-> NoRoute]
  /\ arg = [p \in Procs |-> NoConfig]
  /\ held = [p \in Procs |-> {}]
  /\ todo = [p \in Procs |-> {}]
  /\ pool = {} /\ unstopped = {} /\ unforgotten = {}
  /\ calm = FALSE

-----------------------------------------------------------------------------
(* What the handles answer and do.                                         *)

\* Faulty variant of IsDead: a pipeline counts as dead whatever its threads do.
IsDeadMutant(ts) == TRUE

\* RunningRoute::is_dead: some half's thread has finished.
IsDead(ts) == \E t \in ts : worker[t].st = "dead"

\* Somebody still has the thread's handle: it can be stopped and joined.
Owned(t) == \/ \E r \in Routes : t \in running[r]
            \/ \E p \in Procs : t \in held[p]

\* join_running returns once every thread of the pipeline has finished.
Joinable(ts) == \A t \in ts : worker[t].st = "dead"

\* RunningRoute::request_stop.  (A capture half takes no notice of it: its
\* device is flagged by the stop_and_join that follows.  Nothing happens in
\* between that the maps could tell apart.)
RequestStop(ts) ==
  worker' = [t \in Workers |-> IF t \in ts /\ worker[t] # Gone
                               THEN [worker[t] EXCEPT !.stop = TRUE]
                               ELSE worker[t]]

Reclaim(ts) == worker' = [t \in Workers |-> IF t \in ts THEN Gone ELSE worker[t]]

Goto(p, l) == pc' = [pc EXCEPT ![p] = l]

\* Faulty variant of Leave: the early return is missing.
LeaveMutant(p) ==
  /\ rid' = [rid EXCEPT ![p] = NoRoute]
  /\ arg' = [arg EXCEPT ![p] = NoConfig]
  /\ UNCHANGED pc

\* The request or the sweep is done with this route.
Leave(p) ==
  /\ Goto(p, IF p \in Sweepers THEN "next" ELSE "idle")
  /\ rid' = [rid EXCEPT ![p] = NoRoute]
  /\ arg' = [arg EXCEPT ![p] = NoConfig]

\* The guard of the route's lock goes out of scope, and with it the request.
Unlock(p) ==
  /\ lock' = [lock EXCEPT ![rid[p]] = NoProc]
  /\ Leave(p)

\* Faulty variant of TakeDown: nobody asks the threads to stop.
TakeDownMutant(p, next) ==
  /\ held' = [held EXCEPT ![p] = running[rid[p]]]
  /\ running' = [running EXCEPT ![rid[p]] = {}]
  /\ UNCHANGED worker
  /\ Goto(p, next)

\* running.remove, then RunningRoute::request_stop on what was there.
TakeDown(p, next) ==
  /\ held' = [held EXCEPT ![p] = running[rid[p]]]
  /\ running' = [running EXCEPT ![rid[p]] = {}]
  /\ RequestStop(running[rid[p]])
  /\ Goto(p, next)

\* Faulty variant of JoinHeld: the handles are dropped instead of joined.
JoinHeldMutant(p) ==
  /\ held' = [held EXCEPT ![p] = {}]
  /\ UNCHANGED worker

\* The blocking half of shutdown_running: the threads are joined.
JoinHeld(p) ==
  /\ Joinable(held[p])
  /\ Reclaim(held[p])
  /\ held' = [held EXCEPT ![p] = {}]

-----------------------------------------------------------------------------
(* apply_route and remove_route.  A client whose Route value is NoConfig   *)
(* is one that removes.                                                    *)

Changed(r, c) == routes[r] # c

\* apply_route, up to the comparison with the stored route.
Apply(p) ==
  /\ pc[p] = "idle" /\ ~calm
  /\ \E r \in Routes, c \in Configs :
       /\ rid' = [rid EXCEPT ![p] = r]
       /\ arg' = [arg EXCEPT ![p] = c]
       /\ Goto(p, IF Changed(r, c) THEN "insert" ELSE "reinsert")
  /\ UNCHANGED <<maps, worker, held, todo, loose, calm>>

\* The stored route is replaced; an unchanged one leaves the workers alone.
Insert(p) ==
  /\ pc[p] \in {"insert", "reinsert"}
  /\ routes' = [routes EXCEPT ![rid[p]] = arg[p]]
  /\ IF pc[p] = "insert" THEN Goto(p, "lock") /\ UNCHANGED <<rid, arg>>
                         ELSE Leave(p)
  /\ unstopped' = unstopped \ {rid[p]} /\ unforgotten' = unforgotten \ {rid[p]}
  /\ UNCHANGED <<running, failures, lock, worker, held, todo, pool, calm>>

\* remove_route: out of `routes` before the lock is asked for.
Remove(p) ==
  /\ pc[p] = "idle" /\ ~calm
  /\ \E r \in Routes :
       /\ routes' = [routes EXCEPT ![r] = NoConfig]
       /\ rid' = [rid EXCEPT ![p] = r]
  /\ Goto(p, "lock")
  /\ UNCHANGED <<running, failures, lock, worker, arg, held, todo, loose, calm>>

\* Faulty variant of LockFree: a route has no lock.
LockFreeMutant(r) == TRUE

LockFree(r) == lock[r] = NoProc

\* route_lock(id).lock().await, for a client or a sweeper.
Lock(p) ==
  /\ pc[p] = "lock"
  /\ LockFree(rid[p])
  /\ lock' = [lock EXCEPT ![rid[p]] = p]
  /\ Goto(p, IF p \in Clients THEN "stop" ELSE "check")
  /\ UNCHANGED <<routes, running, failures, worker, rid, arg, held, todo, loose, calm>>

Stop(p) ==
  /\ pc[p] = "stop"
  /\ TakeDown(p, "join")
  /\ unstopped' = unstopped \ {rid[p]}
  /\ UNCHANGED <<routes, failures, lock, rid, arg, todo, pool, unforgotten, calm>>

Join(p) ==
  /\ pc[p] = "join"
  /\ JoinHeld(p)
  /\ Goto(p, "clear")
  /\ UNCHANGED <<maps, rid, arg, todo, loose, calm>>

\* Faulty variant of Clear: a removal leaves the failure entry behind.
ClearMutant(p) ==
  /\ pc[p] = "clear"
  /\ failures' = IF arg[p] = NoConfig THEN failures ELSE [failures EXCEPT ![rid[p]] = "none"]
  /\ IF arg[p] = NoConfig THEN Unlock(p)
                          ELSE Goto(p, "check") /\ UNCHANGED <<lock, rid, arg>>
  /\ unforgotten' = unforgotten \ {rid[p]}
  /\ UNCHANGED <<routes, running, worker, held, todo, pool, unstopped, calm>>

\* failures.remove; a removal ends here, an application goes on to start.
Clear(p) ==
  /\ pc[p] = "clear"
  /\ failures' = [failures EXCEPT ![rid[p]] = "none"]
  /\ IF arg[p] = NoConfig THEN Unlock(p)
                          ELSE Goto(p, "check") /\ UNCHANGED <<lock, rid, arg>>
  /\ unforgotten' = unforgotten \ {rid[p]}
  /\ UNCHANGED <<routes, running, worker, held, todo, pool, unstopped, calm>>

-----------------------------------------------------------------------------
(* start_locked and try_start_inner, run by a client or a sweeper that     *)
(* holds the route's lock, with the Route value it brought along.          *)

\* Faulty variant of StillConfigured: the snapshot is taken at its word.
StillConfiguredMutant(r) == TRUE

StillConfigured(r) == routes[r] # NoConfig

Check(p) ==
  /\ pc[p] = "check"
  /\ IF StillConfigured(rid[p]) THEN Goto(p, "probe") /\ UNCHANGED <<lock, rid, arg>>
                                ELSE Unlock(p)
  /\ UNCHANGED <<routes, running, failures, worker, held, todo, loose, calm>>

\* Faulty variant of Probe: having a pipeline is good enough.
ProbeMutant(p) ==
  /\ pc[p] = "probe"
  /\ IF running[rid[p]] = {}
     THEN Goto(p, "retry") /\ UNCHANGED <<failures, lock, rid, arg>>
     ELSE Unlock(p) /\ failures' = [failures EXCEPT ![rid[p]] = "none"]
  /\ UNCHANGED <<routes, running, worker, held, todo, loose, calm>>

\* A live pipeline is left alone and its failure entry dropped; a dead one
\* is evicted; with none there may be something to start.
Probe(p) ==
  LET ts == running[rid[p]] IN
  /\ pc[p] = "probe"
  /\ \/ /\ ts = {}
        /\ Goto(p, "retry")
        /\ UNCHANGED <<failures, lock, rid, arg>>
     \/ /\ ts # {} /\ IsDead(ts)
        /\ Goto(p, "evict")
        /\ UNCHANGED <<failures, lock, rid, arg>>
     \/ /\ ts # {} /\ ~IsDead(ts)
        /\ failures' = [failures EXCEPT ![rid[p]] = "none"]
        /\ Unlock(p)
  /\ UNCHANGED <<routes, running, worker, held, todo, loose, calm>>

Evict(p) ==
  /\ pc[p] = "evict"
  /\ TakeDown(p, "reap")
  /\ UNCHANGED <<routes, failures, lock, rid, arg, todo, loose, calm>>

\* record_failure: one more attempt, and a retry time in the future.
RecordFailure(r) == failures' = [failures EXCEPT ![r] = "waiting"]

Reap(p) ==
  /\ pc[p] = "reap"
  /\ JoinHeld(p)
  /\ RecordFailure(rid[p])
  /\ Goto(p, "retry")
  /\ UNCHANGED <<routes, running, lock, rid, arg, todo, loose, calm>>

\* Faulty variant of MayRetry: a route that failed once is given up.
MayRetryMutant(r) == failures[r] = "none"

MayRetry(r) == failures[r] # "waiting"

Retry(p) ==
  /\ pc[p] = "retry"
  /\ IF MayRetry(rid[p]) THEN Goto(p, "send") /\ UNCHANGED <<lock, rid, arg>>
                         ELSE Unlock(p)
  /\ UNCHANGED <<routes, running, failures, worker, held, todo, loose, calm>>

NewWorker(r, side, c) ==
  [st |-> "opening", route |-> r, side |-> side, config |-> c, stop |-> FALSE]

\* One half of try_start_inner: skipped if the half is not ours, otherwise
\* a thread is spawned; it opens its device later, on its own.
SpawnHalf(p, side, next) ==
  /\ pc[p] = side
  /\ \/ /\ side \notin Roles[arg[p]]
        /\ UNCHANGED <<worker, held>>
     \/ /\ side \in Roles[arg[p]]
        /\ \E t \in Workers :
             /\ worker[t] = Gone
             /\ worker' = [worker EXCEPT ![t] = NewWorker(rid[p], side, arg[p])]
             /\ held' = [held EXCEPT ![p] = @ \cup {t}]
  /\ Goto(p, next)
  /\ UNCHANGED <<maps, rid, arg, todo, loose, calm>>

SpawnSend(p) == SpawnHalf(p, "send", "recv")
SpawnRecv(p) == SpawnHalf(p, "recv", "commit")

\* A lookup or a spawn of try_start_inner returns Err: the RunningRoute
\* built so far is dropped, which detaches the threads it holds.
StartFails(p) ==
  /\ pc[p] \in Sides /\ pc[p] \in Roles[arg[p]]
  /\ ~calm \/ \A t \in Workers : worker[t] # Gone
  /\ held' = [held EXCEPT ![p] = {}]
  /\ RecordFailure(rid[p])
  /\ Unlock(p)
  /\ UNCHANGED <<routes, running, worker, todo, loose, calm>>

\* running.insert (which drops what it replaces), unless there was no role.
Commit(p) ==
  /\ pc[p] = "commit"
  /\ running' = [running EXCEPT ![rid[p]] = IF held[p] = {} THEN @ ELSE held[p]]
  /\ held' = [held EXCEPT ![p] = {}]
  /\ Unlock(p)
  /\ UNCHANGED <<routes, failures, worker, todo, loose, calm>>

-----------------------------------------------------------------------------
(* The supervisor's tick and a peer's return.                              *)

Snapshot(p) ==
  /\ pc[p] = "idle"
  /\ todo' = [todo EXCEPT ![p] = {<<r, routes[r]>> : r \in {x \in Scope[p] : routes[x] # NoConfig}}]
  /\ Goto(p, "next")
  /\ UNCHANGED <<maps, worker, rid, arg, held, loose, calm>>

NextRoute(p) ==
  /\ pc[p] = "next"
  /\ \/ /\ todo[p] = {}
        /\ Goto(p, "idle")
        /\ UNCHANGED <<rid, arg, todo>>
     \/ \E e \in todo[p] :
          /\ todo' = [todo EXCEPT ![p] = @ \ {e}]
          /\ rid' = [rid EXCEPT ![p] = e[1]]
          /\ arg' = [arg EXCEPT ![p] = e[2]]
          /\ Goto(p, "lock")
  /\ UNCHANGED <<maps, worker, held, loose, calm>>

-----------------------------------------------------------------------------
(* shutdown_all: takes no route's lock.                                    *)

CaptureWorker(t) ==
  worker[t].side = "send" /\ worker[t].config \in CaptureConfigs

\* CaptureRegistry::request_stop_all: whichever routes use the devices.
FlagDevices(p) ==
  /\ pc[p] = "idle" /\ ~calm
  /\ RequestStop({t \in Workers : CaptureWorker(t)})
  /\ Goto(p, "collect")
  /\ UNCHANGED <<maps, rid, arg, held, todo, loose, calm>>

Collect(p) ==
  /\ pc[p] = "collect"
  /\ todo' = [todo EXCEPT ![p] = {<<r, NoConfig>> : r \in {x \in Routes : running[x] # {}}}]
  /\ Goto(p, "drain")
  /\ UNCHANGED <<maps, worker, rid, arg, held, loose, calm>>

Drain(p) ==
  /\ pc[p] = "drain"
  /\ \E e \in todo[p] :
       /\ todo' = [todo EXCEPT ![p] = @ \ {e}]
       /\ held' = [held EXCEPT ![p] = @ \cup running[e[1]]]
       /\ running' = [running EXCEPT ![e[1]] = {}]
       /\ RequestStop(running[e[1]])
  /\ UNCHANGED <<routes, failures, lock, pc, rid, arg, loose, calm>>

\* Every pipeline was asked to stop before the first one is waited for.
JoinDrained(p) ==
  /\ pc[p] = "drain" /\ todo[p] = {}
  /\ JoinHeld(p)
  /\ Goto(p, "idle")
  /\ UNCHANGED <<maps, rid, arg, todo, loose, calm>>

-----------------------------------------------------------------------------
(* The client hangs up, and hyper drops its handler wherever it awaits:    *)
(* for the route's lock, for the join, or for the roc context and the      *)
(* selected interface before a half is spawned.                            *)

\* Before the lock: nothing behind it is done, and what a removal was to take
\* away stays where it is.
DroppedAtLock(p) ==
  /\ p \in Clients /\ pc[p] = "lock"
  /\ Leave(p)
  /\ unstopped' = IF arg[p] = NoConfig THEN unstopped \cup {rid[p]} ELSE unstopped
  /\ unforgotten' = IF arg[p] = NoConfig THEN unforgotten \cup {rid[p]} ELSE unforgotten
  /\ UNCHANGED <<lock, held, pool>>

\* While the threads are joined: the pool joins on, but the lock is free, and
\* the rest of a removal or a change is not done.
DroppedAtJoin(p) ==
  /\ p \in Clients /\ pc[p] \in {"join", "reap"}
  /\ Unlock(p)
  /\ held' = [held EXCEPT ![p] = {}]
  /\ pool' = pool \cup held[p]
  /\ unforgotten' = IF arg[p] = NoConfig THEN unforgotten \cup {rid[p]} ELSE unforgotten
  /\ UNCHANGED unstopped

\* In the middle of a start: a half spawned already loses its handle.
DroppedAtStart(p) ==
  /\ p \in Clients /\ pc[p] \in Sides /\ pc[p] \in Roles[arg[p]]
  /\ Unlock(p)
  /\ held' = [held EXCEPT ![p] = {}]
  /\ UNCHANGED loose

\* In shutdown_all, of a handler that changes the interface.
DroppedAtDrain(p) ==
  /\ p \in Drainers /\ pc[p] = "drain" /\ todo[p] = {}
  /\ Goto(p, "idle")
  /\ held' = [held EXCEPT ![p] = {}]
  /\ pool' = pool \cup held[p]
  /\ UNCHANGED <<lock, rid, arg, unstopped, unforgotten>>

Dropped(p) ==
  /\ ~calm
  /\ DroppedAtLock(p) \/ DroppedAtJoin(p) \/ DroppedAtStart(p) \/ DroppedAtDrain(p)
  /\ UNCHANGED <<routes, running, failures, worker, todo, calm>>

-----------------------------------------------------------------------------
(* The worker threads, the clock and the environment.                      *)

\* hw: devices and the route's UDP ports are handed out exclusively.
Busy(t) == \E u \in Workers \ {t} :
  /\ worker[u].st = "live"
  /\ worker[u].route = worker[t].route
  /\ worker[u].side = worker[t].side

Open(t) ==
  /\ worker[t].st = "opening"
  /\ worker' = [worker EXCEPT ![t].st = IF Busy(t) THEN "dead" ELSE "live"]
  /\ UNCHANGED <<maps, locals, loose, calm>>

\* The loop sees the stop flag the next time it comes around.
Exit(t) ==
  /\ worker[t].st = "live" /\ worker[t].stop
  /\ worker' = [worker EXCEPT ![t].st = "dead"]
  /\ UNCHANGED <<maps, locals, loose, calm>>

\* The open, or later the device or the transport, fails for good.
Fail(t) ==
  /\ worker[t].st \in {"opening", "live"} /\ ~calm
  /\ worker' = [worker EXCEPT ![t].st = "dead"]
  /\ UNCHANGED <<maps, locals, loose, calm>>

\* Nobody, or only the blocking pool, joins a detached thread; it is gone once
\* it has finished.
Vanish(t) ==
  /\ worker[t].st = "dead" /\ ~Owned(t)
  /\ worker' = [worker EXCEPT ![t] = Gone]
  /\ pool' = pool \ {t}
  /\ UNCHANGED <<maps, locals, unstopped, unforgotten, calm>>

BackoffElapses(r) ==
  /\ failures[r] = "waiting"
  /\ failures' = [failures EXCEPT ![r] = "due"]
  /\ UNCHANGED <<routes, running, lock, worker, locals, loose, calm>>

\* From here on nobody disturbs the engine.
Calm == ~calm /\ calm' = TRUE /\ UNCHANGED <<maps, worker, locals, loose>>

-----------------------------------------------------------------------------
StartStep(p) == \/ Check(p) \/ Probe(p) \/ Evict(p) \/ Reap(p) \/ Retry(p)
                \/ SpawnSend(p) \/ SpawnRecv(p) \/ Commit(p)

ClientStep(p)  == Insert(p) \/ Stop(p) \/ Join(p) \/ Clear(p) \/ StartStep(p)
SweepStep(p)   == Snapshot(p) \/ NextRoute(p) \/ StartStep(p)
DrainStep(p)   == Collect(p) \/ Drain(p) \/ JoinDrained(p)

Next ==
  \/ \E p \in Clients : Apply(p) \/ Remove(p) \/ ClientStep(p)
  \/ \E p \in Sweepers : SweepStep(p)
  \/ \E p \in Clients \cup Sweepers : Lock(p) \/ StartFails(p)
  \/ \E p \in Drainers : FlagDevices(p) \/ DrainStep(p)
  \/ \E p \in Clients \cup Drainers : Dropped(p)
  \/ \E t \in Workers : Open(t) \/ Exit(t) \/ Fail(t) \/ Vanish(t)
  \/ \E r \in Routes : BackoffElapses(r)

Spec == Init /\ [][Next]_vars

(* Fairness: the runtime polls every task that can run, tokio's mutex      *)
(* hands a route's lock to its waiters in order, a flagged or opening      *)
(* thread comes around (no device is wedged for good), and time passes.    *)
Fairness ==
  /\ \A p \in Clients : WF_vars(ClientStep(p))
  /\ \A p \in Sweepers : WF_vars(SweepStep(p))
  /\ \A p \in Clients \cup Sweepers : SF_vars(Lock(p))
  /\ \A p \in Drainers : WF_vars(DrainStep(p))
  /\ \A t \in Workers : WF_vars(Open(t)) /\ WF_vars(Exit(t)) /\ WF_vars(Vanish(t))
  /\ \A r \in Routes : WF_vars(BackoffElapses(r))

(* For liveness, requests and faults may cease for good at some point.      *)
FairSpec == Init /\ [][Next \/ Calm]_vars /\ Fairness

-----------------------------------------------------------------------------
(* Safety                                                                  *)

\* An unflagged thread that has a handle.
Active(t) == worker[t] # Gone /\ ~worker[t].stop /\ Owned(t)

\* A removal of r that has yet to look at `running`.
Removing(r) == \E p \in Clients :
  rid[p] = r /\ arg[p] = NoConfig /\ pc[p] \in {"lock", "stop"}

\* Per route and half there is one pipeline at most that nobody has asked to
\* stop: two starts of a route never both spawn (try_start's reason for the
\* lock, routing.rs 416-430).
SingleWorker == \A t, u \in Workers :
  /\ Active(t) /\ Active(u)
  /\ worker[t].route = worker[u].route /\ worker[t].side = worker[u].side
  => t = u

\* A removed route leaves no pipeline that nobody stops, whatever sweep still
\* carries a stale copy of it (start_locked's check, routing.rs 447-453), unless
\* its removal was dropped on its way to the lock; and then for as long only as
\* no other request has come past the lock.
RemovedIsStopped == \A t \in Workers :
  Active(t) /\ routes[worker[t].route] = NoConfig =>
    Removing(worker[t].route) \/ worker[t].route \in unstopped

\* Nor does it leave a failure entry, which the stats pump would show as a
\* deleted route that is "retrying" forever, unless its removal was dropped
\* before it came to that.
RemovedIsForgotten == \A r \in Routes :
  routes[r] = NoConfig /\ failures[r] # "none" =>
    \/ r \in unforgotten
    \/ \E p \in Clients : /\ rid[p] = r /\ arg[p] = NoConfig
                          /\ pc[p] \in {"lock", "stop", "join", "clear"}

\* A new thread never meets its own route's previous one still leaving the
\* device or the ports: the teardown is awaited before the next open
\* (routing.rs 1051-1055), except for what shutdown_all has in hand and for a
\* teardown whose task was dropped, which the pool finishes without the lock.
\* (A capture device is left by its owner, see CaptureDevice; a thread that has
\* lost its handle when the other half of a start failed, routing.rs 629-633,
\* is excepted.)
OpenNeverMeetsTeardown == \A t, u \in Workers :
  /\ worker[t].st = "opening" /\ Owned(t)
  /\ worker[u].st = "live" /\ worker[u].stop
  /\ worker[t].route = worker[u].route /\ worker[t].side = worker[u].side
  /\ ~CaptureWorker(u)
  => u \in pool \/ \E p \in Drainers : {t, u} \cap held[p] # {}

\* A sweep never asks a healthy pipeline to stop: try_start is a no-op on a
\* live route (routing.rs 407-410, 662-665).
SweepSparesTheLiving ==
  [][\A p \in Sweepers : pc[p] = "evict" /\ held'[p] # {} =>
        \E t \in held'[p] : worker[t].st = "dead"]_vars

(* Liveness                                                                *)

\* What the statistics pump tells the browsers of a route's health: of a dead
\* pipeline, what the failure map knows, and nothing bad if it knows nothing.
Health(r) ==
  IF running[r] # {} /\ ~IsDead(running[r]) THEN "ok"
  ELSE IF failures[r] # "none" THEN "retrying"
  ELSE IF running[r] # {} THEN "ok" ELSE "absent"

\* The death of a configured route's pipeline is not known yet.
DeathHidden(r) == routes[r] # NoConfig /\ IsDead(running[r]) /\ Health(r) = "ok"

\* A dead pipeline is shown as healthy for a while at most, whoever else is
\* at work on the route and whatever fails next (routing.rs 909-921).  (Of one
\* whose removal was dropped nobody takes notice any more.)
DeathShows == \A r \in Routes : DeathHidden(r) ~> ~DeathHidden(r)

\* The engine does what the maps ask of it.
Settled(r) ==
  IF routes[r] = NoConfig
  THEN failures[r] = "none" /\ \A t \in Workers : worker[t].route # r
  ELSE Roles[routes[r]] # {} => running[r] # {} /\ ~IsDead(running[r])

\* A thread that lost its handle when its start failed half way, or was dropped
\* there: nobody can stop it, and it keeps its device.
Orphan(t) == worker[t] # Gone /\ ~worker[t].stop /\ ~Owned(t)

\* What keeps the supervisor from settling a route: such a thread, or, of a
\* removed one, what a dropped removal left behind.
Haunted(r) ==
  \/ \E t \in Workers : worker[t].route = r /\ Orphan(t)
  \/ routes[r] = NoConfig /\ r \in unstopped \cup unforgotten

\* Once requests and faults cease, the supervisor alone brings every
\* configured route up, whatever failures it backed off for and whichever
\* requests were dropped, and nothing is left of the removed ones (routing.rs
\* 683-689), but for a route that is haunted.
EventuallySettled == \A r \in Routes : calm ~> [](Settled(r) \/ Haunted(r))

\* ... with the configuration the operator left it in (routing.rs 432-437).
RunsConfigured(r) ==
  routes[r] # NoConfig =>
    \A t \in running[r] : worker[t].config = routes[r]

EventuallyAsConfigured == \A r \in Routes : calm ~> []RunsConfigured(r)

-----------------------------------------------------------------------------
(* The inductive invariant, in named parts.                                *)

\* Between check and commit: the task goes by what it saw under the lock.
Committed == StartLabels \ {"check"}
Critical  == StartLabels \cup {"stop", "join", "clear"}

\* What each kind of task does, and the locals it has while doing it.
LocalsInv ==
  /\ \A p \in Clients :
       /\ pc[p] \in ClientLabels \cup StartLabels
       /\ pc[p] = "idle" => arg[p] = NoConfig
       /\ pc[p] \in StartLabels \cup {"insert", "reinsert"} => arg[p] \in Configs
  /\ \A p \in Sweepers :
       /\ pc[p] \in {"idle", "lock"} \cup SweepLabels \cup StartLabels
       /\ pc[p] \in StartLabels \cup {"lock"} => arg[p] \in Configs
       /\ todo[p] \subseteq Routes \X Configs
  /\ \A p \in Drainers : pc[p] \in {"idle"} \cup DrainLabels

\* A task in a route's critical section holds the route's lock.
LockInv == \A p \in Procs : pc[p] \in Critical => lock[rid[p]] = p

\* Every handle has one owner, and what the owner may do with it depends on
\* where it is: pipelines being built are unflagged, pipelines being torn
\* down are flagged.
HandlesInv ==
  /\ \A r \in Routes : \A t \in running[r] : worker[t].st # "gone" /\ worker[t].route = r
  /\ \A r \in Routes, p \in Procs : running[r] \cap held[p] = {}
  /\ \A p, q \in Procs : p # q => held[p] \cap held[q] = {}
  /\ \A p \in Procs : \A t \in held[p] :
       /\ worker[t].st # "gone"
       /\ pc[p] \in {"recv", "commit", "join", "reap", "drain"}
       /\ pc[p] \in {"join", "reap", "drain"} => worker[t].stop
       /\ pc[p] \in {"recv", "commit"} => worker[t].route = rid[p]

\* A thread that the pool joins was asked to stop, and nobody else has it.
PoolInv == \A t \in pool : worker[t].st # "gone" /\ worker[t].stop /\ ~Owned(t)

\* Whoever is about to start a pipeline has seen that there is none.
StartInv ==
  \A p \in Procs : pc[p] \in {"reap", "retry", "send", "recv", "commit"} => running[rid[p]] = {}

\* A removal of r on its way was dropped, and nobody came past the lock since.
Abandoned(r) == r \in unstopped \cap unforgotten

\* A deleted route that still has a pipeline, or is about to get one, also
\* has a removal that has yet to tear it down, or one that was dropped there.
RemovalInv ==
  /\ \A r \in Routes : routes[r] = NoConfig /\ running[r] # {} => Removing(r) \/ r \in unstopped
  /\ \A p \in Procs : pc[p] \in Committed /\ routes[rid[p]] = NoConfig =>
       Removing(rid[p]) \/ Abandoned(rid[p])

\* The halves of one pipeline differ.
HalvesInv ==
  /\ \A r \in Routes : \A t, u \in running[r] : worker[t].side = worker[u].side => t = u
  /\ \A p \in Procs : pc[p] = "recv" => \A t, u \in held[p] : worker[t].side = "send" /\ t = u
  /\ \A p \in Procs : pc[p] = "commit" =>
       \A t, u \in held[p] : worker[t].side = worker[u].side => t = u

IInv ==
  LocalsInv /\ LockInv /\ HandlesInv /\ PoolInv /\ StartInv /\ RemovalInv /\ HalvesInv

-----------------------------------------------------------------------------
(* What RouteLifecycle implements: a worker serves a half of a route as     *)
(* long as it is unflagged and somebody has its handle, and a removal is on *)
(* its way until it has taken the route's pipeline down, or is dropped.     *)

Idle == [route |-> NoRoute]

Serving == [t \in Workers |->
              IF Active(t) THEN [route |-> worker[t].route, side |-> worker[t].side,
                                 config |-> worker[t].config]
                           ELSE Idle]

Promise == INSTANCE RouteService
  WITH Nothing <- Idle, wanted <- routes, serving <- Serving,
       removing <- {r \in Routes : Removing(r)}, abandoned <- unstopped

\* Every step of every task is a step the routes' users may expect, or none
\* that they see.
ImplementsService == Promise!Service
=============================================================================
