---------------------------- MODULE CaptureDevice ---------------------------
(***************************************************************************)
(* A capture device shared by the routes of one engine: capture.rs and the *)
(* capture arm of send.rs.                                                 *)
(*                                                                         *)
(* The registry maps the device to its owner.  An owner has one reading    *)
(* thread, which owns the list of subscribers outright; the control side   *)
(* reaches it only through a command queue and a stop flag, and keeps a    *)
(* mirror of the list, the roster.  A route that needs channels past the   *)
(* edge of the open device has it reopened: the thread is stopped, leaves  *)
(* its subscribers behind, and a new thread takes them over.               *)
(*                                                                         *)
(* A route is subscribed and unsubscribed by whoever holds its lock, one   *)
(* task at a time (RouteLifecycle).  Two things get past that lock: a      *)
(* handle is lost when the rest of its start fails or its client hangs up, *)
(* and the blocking pool goes on with the teardown of a client that has    *)
(* hung up, as it does with the drain of an interface change.  The         *)
(* registry's mutex is held for the whole of subscribe, a reopen's join    *)
(* included, but not for the join of the last unsubscribe.                 *)
(*                                                                         *)
(* One ALSA name is modelled: devices share nothing but the mutex.  A      *)
(* route whose rate, period or format does not match is refused before     *)
(* anything changes, and is left out.                                      *)
(***************************************************************************)
EXTENDS Naturals, FiniteSets

CONSTANTS
  Routes,
  Slots,      (* distinguishes the subscriptions of one route; a bound     *)
  Widths,     (* far edges of the channel windows routes ask for           *)
  Owners,     (* owner ids; a bound on those alive at once                 *)
  Drainers,   (* jobs of the blocking pool that hold no route's lock; a    *)
              (* bound on those under way at once                          *)
  LostAtOnce, (* a bound on the lost handles there are at a time           *)
  NoOwner, NoHandle

Subs     == Routes \X Slots
Procs    == Routes \cup Drainers
Handles  == [owner : Owners, sub : Subs]

ASSUME WidthsAssumption == Widths \subseteq Nat \ {0} /\ Widths # {}
ASSUME LostAssumption == LostAtOnce \in Nat
ASSUME SentinelAssumption == /\ NoOwner \notin Owners
                             /\ NoHandle \notin Handles
                             /\ Routes \cap Drainers = {}

VARIABLES
  reg,      (* CaptureRegistry.owners: the device's owner, or NoOwner      *)
  owner,    (* the owners; an Arc that nobody holds any more is Nobody     *)
  handle,   (* a route's SendHandle: in `running`, or with the task that   *)
            (* starts the route; or NoHandle                               *)
  drained,  (* the handles the pool's jobs have still to unsubscribe       *)
  failed,   (* the subscriptions whose SubscriberHealth has failed         *)
  pc,       (* where a route's task, or the drain, is                      *)
  task,     (* the owner it joins, the subscription and width it reopens   *)
            (* for                                                         *)
  lost,     (* history, of the device in the registry: the subscriptions   *)
            (* whose handle was dropped without an unsubscribe             *)
  spoiled,  (* and those the reading thread's list may be wrong about, for *)
            (* a command lost when a thread left or an unsubscribe that    *)
            (* came late                                                   *)
  calm      (* no more requests and no more faults (for liveness only)     *)

astray == <<lost, spoiled>>
vars   == <<reg, owner, handle, drained, failed, pc, task, astray, calm>>

Nobody == [th |-> "none", width |-> 0, stop |-> FALSE, reopening |-> FALSE,
           roster |-> {}, subs |-> {}, ahead |-> {}, fault |-> FALSE]

\* An owner, and its thread: not spawned, on its way to the open, in its loop,
\* out of it, and gone.  `subs` is the thread's list of subscribers, `ahead`
\* what becomes of it once the thread has taken every command that is queued:
\* it takes the whole queue at once, so nothing else of the queue matters.
Record   == [th : {"none", "starting", "running", "closing", "finished"},
             width : Widths \cup {0}, stop : BOOLEAN, reopening : BOOLEAN,
             roster : SUBSET Routes, subs : SUBSET Subs, ahead : SUBSET Subs,
             fault : BOOLEAN]
Task     == [owner : Owners \cup {NoOwner}, sub : Subs \cup {NoHandle}, width : Widths \cup {0}]
NoTask   == [owner |-> NoOwner, sub |-> NoHandle, width |-> 0]

TypeOK ==
  /\ reg \in Owners \cup {NoOwner}
  /\ owner \in [Owners -> Record]
  /\ \A o \in Owners : owner[o].th \notin {"starting", "running"} => owner[o].ahead = owner[o].subs
  /\ \A o \in Owners : owner[o].reopening => o = reg
  /\ reg # NoOwner => owner[reg].th # "none"
  /\ handle \in [Routes -> Handles \cup {NoHandle}]
  /\ drained \subseteq Handles
  /\ failed \subseteq Subs
  /\ pc \in [Procs -> {"idle", "reopen", "commit", "join", "take", "drain"}]
  /\ task \in [Procs -> Task]
  /\ lost \subseteq Subs /\ spoiled \subseteq Subs
  /\ calm \in BOOLEAN

Init ==
  /\ reg = NoOwner
  /\ owner = [o \in Owners |-> Nobody]
  /\ handle = [r \in Routes |-> NoHandle]
  /\ drained = {}
  /\ failed = {}
  /\ pc = [p \in Procs |-> "idle"]
  /\ task = [p \in Procs |-> NoTask]
  /\ lost = {} /\ spoiled = {}
  /\ calm = FALSE

-----------------------------------------------------------------------------
(* What the control side can ask of an owner and of a handle.              *)

\* Faulty variant of IsDead: a reopen shows.
IsDeadMutant(o) == owner[o].th \in {"none", "finished"}

\* CaptureOwner::is_dead: healthy by decree while the device is reopened.
IsDead(o) == ~owner[o].reopening /\ owner[o].th \in {"none", "finished"}

\* The device has an owner worth joining.
Usable == reg # NoOwner /\ ~IsDead(reg)

\* Faulty variant of SendDead: only the device is asked.
SendDeadMutant(h) == IsDead(h.owner)

\* SendHandle::is_dead.
SendDead(h) == IsDead(h.owner) \/ h.sub \in failed

\* Faulty variant of HasReceiver: a command can always be sent.
HasReceiverMutant(o) == TRUE

\* The receiving end of the command channel lives as long as owner_loop.
HasReceiver(o) == owner[o].th \in {"starting", "running"}

\* Command::Add and Command::Remove, sent down the channel.
Added(o, s)   == IF HasReceiver(o) THEN owner[o].ahead \cup {s} ELSE owner[o].ahead
Removed(o, r) == IF HasReceiver(o) THEN {s \in owner[o].ahead : s[1] # r} ELSE owner[o].ahead

\* What is left of the registry's owner once it is out of the registry: the
\* thread, which is dead or asked to stop, and what the handles on it can ask.
\* (A sender that fails on its way out tells its route nothing that the end of
\* the device does not.)
Discarded ==
  [o \in Owners |->
     IF o # reg THEN owner[o]
     ELSE [Nobody EXCEPT !.th = owner[o].th, !.stop = owner[o].stop, !.fault = owner[o].fault]]

\* Nobody is in subscribe, the only place that keeps the mutex across a wait.
RegistryFree == \A p \in Procs : pc[p] # "reopen"

Running(s) == \E r \in Routes : handle[r] # NoHandle /\ handle[r].sub = s

Held(s) == Running(s) \/ \E h \in drained : h.sub = s

\* Somebody outside the registry has an Arc of the owner.
InUse(o) ==
  \/ \E r \in Routes : handle[r] # NoHandle /\ handle[r].owner = o
  \/ \E h \in drained : h.owner = o
  \/ \E p \in Procs : task[p].owner = o

\* A subscription id nobody uses.
Unused(s) ==
  /\ ~Held(s)
  /\ \A p \in Procs : task[p].sub # s
  /\ Usable => s \notin owner[reg].subs \cup owner[reg].ahead

-----------------------------------------------------------------------------
(* CaptureRegistry::subscribe, by the task that starts route r.            *)

\* CaptureOwner::start, then the registry entry; a dead predecessor is
\* dropped first.
StartOwner(r, s, w) ==
  /\ ~Usable
  /\ \E o \in Owners :
       /\ owner[o] = Nobody \/ (o = reg /\ ~InUse(o))
       /\ reg' = o
       /\ owner' = [Discarded EXCEPT ![o] = [Nobody EXCEPT !.th = "starting", !.width = w,
                                                !.roster = {r}, !.subs = {s}, !.ahead = {s}]]
       /\ handle' = [handle EXCEPT ![r] = [owner |-> o, sub |-> s]]
  /\ pc' = [pc EXCEPT ![r] = "commit"]
  /\ lost' = {} /\ spoiled' = {}
  /\ UNCHANGED task

\* Faulty variant of JoinOwner: a failed join leaves its roster entry behind.
JoinOwnerMutant(r, s, w) ==
  /\ Usable /\ w <= owner[reg].width
  /\ owner' = [owner EXCEPT ![reg].roster = @ \cup {r},
                            ![reg].ahead = Added(reg, s)]
  /\ IF HasReceiver(reg)
     THEN /\ handle' = [handle EXCEPT ![r] = [owner |-> reg, sub |-> s]]
          /\ pc' = [pc EXCEPT ![r] = "commit"]
     ELSE UNCHANGED <<handle, pc>>
  /\ UNCHANGED <<reg, task, astray>>

\* The device is wide enough: the subscriber goes down the channel.
JoinOwner(r, s, w) ==
  /\ Usable /\ w <= owner[reg].width
  /\ IF HasReceiver(reg)
     THEN /\ owner' = [owner EXCEPT ![reg].roster = @ \cup {r},
                                    ![reg].ahead = Added(reg, s)]
          /\ handle' = [handle EXCEPT ![r] = [owner |-> reg, sub |-> s]]
          /\ pc' = [pc EXCEPT ![r] = "commit"]
          /\ spoiled' = spoiled \ {s}
     ELSE /\ owner' = [owner EXCEPT ![reg].roster = @ \ {r}]
          /\ UNCHANGED <<handle, pc, spoiled>>
  /\ UNCHANGED <<reg, task, lost>>

\* reopen_wider, up to the join.
BeginReopen(r, s, w) ==
  /\ Usable /\ w > owner[reg].width
  /\ owner' = [owner EXCEPT ![reg].roster = @ \cup {r},
                            ![reg].reopening = TRUE,
                            ![reg].stop = TRUE]
  /\ pc' = [pc EXCEPT ![r] = "reopen"]
  /\ task' = [task EXCEPT ![r] = [owner |-> reg, sub |-> s, width |-> w]]
  /\ UNCHANGED <<reg, handle, astray>>

Subscribe(r) ==
  /\ pc[r] = "idle" /\ handle[r] = NoHandle /\ RegistryFree
  /\ \E s \in {x \in Subs : x[1] = r /\ Unused(x)}, w \in Widths :
       StartOwner(r, s, w) \/ JoinOwner(r, s, w) \/ BeginReopen(r, s, w)
  /\ UNCHANGED <<drained, failed, calm>>

\* The route's sender cannot be opened; a dead owner has been dropped by then.
SubscribeFails(r) ==
  /\ pc[r] = "idle" /\ handle[r] = NoHandle /\ RegistryFree /\ ~calm
  /\ reg # NoOwner /\ IsDead(reg)
  /\ reg' = NoOwner /\ lost' = {} /\ spoiled' = {}
  /\ owner' = Discarded
  /\ UNCHANGED <<handle, drained, failed, pc, task, calm>>

\* reopen_wider, from the join on: spawn_reader with what the old thread left
\* behind and the newcomer.  The registry is unlocked.
Respawn(r) ==
  LET o == task[r].owner
      w == owner[o]
  IN
  /\ pc[r] = "reopen" /\ owner[o].th = "finished"
  /\ owner' = [owner EXCEPT ![o] = [w EXCEPT !.th = "starting", !.stop = FALSE,
                                             !.reopening = FALSE, !.fault = FALSE, !.width = task[r].width,
                                             !.subs = @ \cup {task[r].sub},
                                             !.ahead = @ \cup {task[r].sub}]]
  /\ handle' = [handle EXCEPT ![r] = [owner |-> o, sub |-> task[r].sub]]
  /\ pc' = [pc EXCEPT ![r] = "commit"]
  /\ task' = [task EXCEPT ![r] = NoTask]
  /\ spoiled' = spoiled \ {task[r].sub}
  /\ UNCHANGED <<reg, drained, failed, lost, calm>>

\* The start goes on to running.insert.
Commit(r) ==
  /\ pc[r] = "commit"
  /\ pc' = [pc EXCEPT ![r] = "idle"]
  /\ UNCHANGED <<reg, owner, handle, drained, failed, task, astray, calm>>

\* The other half of the start fails, or its client hangs up before that: the
\* handle is dropped, which unsubscribes nobody.
LoseHandle(r) ==
  /\ pc[r] = "commit" /\ ~calm /\ Cardinality(lost) < LostAtOnce
  /\ pc' = [pc EXCEPT ![r] = "idle"]
  /\ handle' = [handle EXCEPT ![r] = NoHandle]
  /\ failed' = failed \ {handle[r].sub}
  /\ lost' = IF handle[r].owner = reg THEN lost \cup {handle[r].sub} ELSE lost
  /\ UNCHANGED <<reg, owner, drained, task, spoiled, calm>>

-----------------------------------------------------------------------------
(* CaptureRegistry::unsubscribe, by p, of the route named r.  It goes by   *)
(* the device's and the route's names, not by the subscription.            *)

\* What the Remove makes of the route's subscriptions.  One that arrives takes
\* all of them off the list, and the one in use with them if it comes late; one
\* that finds no receiver takes off none.
Straighten(p, r) ==
  LET mine == {s \in Subs : s[1] = r}
      used == {s \in mine : p \in Drainers /\ handle[r] = [owner |-> reg, sub |-> s]}
  IN
  /\ lost' = lost \ mine
  /\ spoiled' = IF HasReceiver(reg) THEN (spoiled \ mine) \cup used
                ELSE spoiled \cup ((owner[reg].subs \cap mine) \ used)

\* Faulty variant of Withdraw: the reading thread is not told.
WithdrawQuietMutant(p, r) ==
  LET left == owner[reg].roster \ {r} IN
  \/ reg = NoOwner /\ UNCHANGED <<reg, owner, pc, task, astray>>
  \/ /\ reg # NoOwner
     /\ owner' = [owner EXCEPT ![reg].roster = left, ![reg].stop = @ \/ left = {}]
     /\ Straighten(p, r)
     /\ IF left # {} THEN UNCHANGED <<reg, pc, task>>
        ELSE /\ reg' = NoOwner
             /\ pc' = [pc EXCEPT ![p] = "join"]
             /\ task' = [task EXCEPT ![p] = [NoTask EXCEPT !.owner = reg]]

\* Faulty variant of Withdraw: the last route out does not stop the device.
WithdrawDetachMutant(p, r) ==
  LET left == owner[reg].roster \ {r} IN
  \/ reg = NoOwner /\ UNCHANGED <<reg, owner, pc, task, astray>>
  \/ /\ reg # NoOwner
     /\ owner' = [owner EXCEPT ![reg].roster = left,
                               ![reg].ahead = Removed(reg, r)]
     /\ Straighten(p, r)
     /\ reg' = IF left = {} THEN NoOwner ELSE reg
     /\ UNCHANGED <<pc, task>>

Withdraw(p, r) ==
  LET left == owner[reg].roster \ {r} IN
  \/ /\ reg = NoOwner
     /\ UNCHANGED <<reg, owner, pc, task, astray>>
  \/ /\ reg # NoOwner /\ left # {}
     /\ owner' = [owner EXCEPT ![reg].roster = left,
                               ![reg].ahead = Removed(reg, r)]
     /\ Straighten(p, r)
     /\ UNCHANGED <<reg, pc, task>>
  \/ /\ reg # NoOwner /\ left = {}
     /\ reg' = NoOwner /\ lost' = {} /\ spoiled' = {}
     /\ owner' = [Discarded EXCEPT ![reg].stop = TRUE]
     /\ pc' = [pc EXCEPT ![p] = "join"]
     /\ task' = [task EXCEPT ![p] = [NoTask EXCEPT !.owner = reg]]

\* A removal, a change of the route, or the eviction of a dead pipeline.
Unsubscribe(r) ==
  /\ pc[r] = "idle" /\ handle[r] # NoHandle /\ RegistryFree
  /\ ~calm \/ SendDead(handle[r])
  /\ Withdraw(r, r)
  /\ handle' = [handle EXCEPT ![r] = NoHandle]
  /\ failed' = failed \ {handle[r].sub}
  /\ UNCHANGED <<drained, calm>>

\* stop_and_join of the last one out, without the mutex.
Join(p) ==
  /\ pc[p] = "join" /\ owner[task[p].owner].th = "finished"
  /\ pc' = [pc EXCEPT ![p] = IF p \in Drainers THEN "drain" ELSE "idle"]
  /\ task' = [task EXCEPT ![p] = NoTask]
  /\ UNCHANGED <<reg, owner, handle, drained, failed, astray, calm>>

-----------------------------------------------------------------------------
(* What a job of the blocking pool does without the route's lock.          *)

\* The client of a teardown hangs up.  Its task is gone and the lock is free,
\* but the pool will unsubscribe the route all the same ...
HangsUp(r, d) ==
  /\ pc[r] = "idle" /\ handle[r] # NoHandle /\ pc[d] = "idle" /\ ~calm
  /\ handle' = [handle EXCEPT ![r] = NoHandle]
  /\ failed' = failed \ {handle[r].sub}
  /\ drained' = drained \cup {handle[r]}
  /\ pc' = [pc EXCEPT ![d] = "drain"]
  /\ UNCHANGED <<reg, owner, task, astray, calm>>

\* ... or wait for the device to close.
HangsUpJoining(r, d) ==
  /\ pc[r] = "join" /\ pc[d] = "idle" /\ ~calm
  /\ pc' = [pc EXCEPT ![r] = "idle", ![d] = "join"]
  /\ task' = [task EXCEPT ![r] = NoTask, ![d] = task[r]]
  /\ UNCHANGED <<reg, owner, handle, drained, failed, astray, calm>>

\* shutdown_all: request_stop_all, then every handle out of `running`, then
\* their stop_and_join one after another.
RequestStopAll(p) ==
  /\ pc[p] = "idle" /\ RegistryFree /\ ~calm
  /\ owner' = [o \in Owners |-> IF o = reg THEN [owner[o] EXCEPT !.stop = TRUE] ELSE owner[o]]
  /\ pc' = [pc EXCEPT ![p] = "take"]
  /\ UNCHANGED <<reg, handle, drained, failed, task, astray, calm>>

\* What a start has not yet put into `running` is not found there.  (Nobody
\* asks a drained handle for its health.)
Take(p) ==
  LET found == {r \in Routes : handle[r] # NoHandle /\ pc[r] # "commit"} IN
  /\ pc[p] = "take"
  /\ drained' = drained \cup {handle[r] : r \in found}
  /\ handle' = [r \in Routes |-> IF r \in found THEN NoHandle ELSE handle[r]]
  /\ failed' = failed \ {handle[r].sub : r \in found}
  /\ pc' = [pc EXCEPT ![p] = "drain"]
  /\ UNCHANGED <<reg, owner, task, astray, calm>>

UnsubscribeDrained(p) ==
  /\ pc[p] = "drain" /\ RegistryFree
  /\ \E h \in drained :
       /\ Withdraw(p, h.sub[1])
       /\ drained' = drained \ {h}
  /\ UNCHANGED <<handle, failed, calm>>

DrainEnds(p) ==
  /\ pc[p] = "drain" /\ drained = {}
  /\ pc' = [pc EXCEPT ![p] = "idle"]
  /\ UNCHANGED <<reg, owner, handle, drained, failed, task, astray, calm>>

-----------------------------------------------------------------------------
(* The reading thread: owner_loop and what spawn_reader wraps around it.   *)

\* The card is open from the moment pcm::open returned until owner_loop did.
Occupied(o) == \E u \in Owners \ {o} : owner[u].th = "running"

\* owner_loop returns: card and receiver are gone, with whatever was queued.
Returns(o, fault) ==
  LET w == owner[o]
      wrong == (w.ahead \ w.subs) \cup (w.subs \ w.ahead)
  IN
  /\ owner' = [owner EXCEPT ![o] = [w EXCEPT !.th = "closing", !.ahead = w.subs,
                                             !.fault = @ \/ fault]]
  /\ spoiled' = spoiled \cup wrong

Open(o) ==
  /\ owner[o].th = "starting"
  /\ IF Occupied(o) THEN Returns(o, TRUE)
                    ELSE owner' = [owner EXCEPT ![o].th = "running"] /\ UNCHANGED spoiled
  /\ UNCHANGED <<reg, handle, drained, failed, pc, task, lost, calm>>

\* Once around the loop: the stop flag first, then the whole queue, then a
\* period for every subscriber, or none in time.
Iterate(o) ==
  /\ owner[o].th = "running"
  /\ IF owner[o].stop THEN Returns(o, FALSE)
                      ELSE owner' = [owner EXCEPT ![o].subs = owner[o].ahead] /\ UNCHANGED spoiled
  /\ UNCHANGED <<reg, handle, drained, failed, pc, task, lost, calm>>

\* The open fails, or the running device gives up.
DeviceFails(o) ==
  /\ owner[o].th \in {"starting", "running"} /\ ~calm
  /\ Returns(o, TRUE)
  /\ UNCHANGED <<reg, handle, drained, failed, pc, task, lost, calm>>

\* Faulty variant of SenderFails: the route is not told.
SenderFailsMutant(o, s) ==
  /\ owner[o].th = "running" /\ s \in owner[o].subs /\ ~calm
  /\ owner' = [owner EXCEPT ![o].subs = @ \ {s}, ![o].ahead = @ \ {s}]
  /\ UNCHANGED <<reg, handle, drained, failed, pc, task, astray, calm>>

\* One destination failed over and over: only its subscriber is dropped, and
\* its route learns of it through its health.
SenderFails(o, s) ==
  /\ owner[o].th = "running" /\ s \in owner[o].subs /\ ~calm
  /\ owner' = [owner EXCEPT ![o].subs = @ \ {s}, ![o].ahead = @ \ {s}]
  /\ failed' = IF Running(s) THEN failed \cup {s} ELSE failed
  /\ UNCHANGED <<reg, handle, drained, pc, task, astray, calm>>

\* The subscribers are in `handover`, and the thread is_finished.
Finish(o) ==
  /\ owner[o].th = "closing"
  /\ owner' = [owner EXCEPT ![o].th = "finished"]
  /\ UNCHANGED <<reg, handle, drained, failed, pc, task, astray, calm>>

\* The last Arc is dropped, with the subscribers nobody collected.
Drop(o) ==
  /\ owner[o].th = "finished" /\ o # reg /\ ~InUse(o)
  /\ owner' = [owner EXCEPT ![o] = Nobody]
  /\ UNCHANGED <<reg, handle, drained, failed, pc, task, astray, calm>>

Calm == ~calm /\ calm' = TRUE /\ UNCHANGED <<reg, owner, handle, drained, failed, pc, task, astray>>

-----------------------------------------------------------------------------
RouteStep(r)  == Subscribe(r) \/ Respawn(r) \/ Commit(r) \/ Unsubscribe(r)
DrainStep(p)  == Take(p) \/ UnsubscribeDrained(p) \/ DrainEnds(p)
ThreadStep(o) == Open(o) \/ Iterate(o) \/ Finish(o) \/ Drop(o)

Next ==
  \/ \E r \in Routes : RouteStep(r) \/ SubscribeFails(r) \/ LoseHandle(r)
  \/ \E r \in Routes, d \in Drainers : HangsUp(r, d) \/ HangsUpJoining(r, d)
  \/ \E p \in Drainers : RequestStopAll(p) \/ DrainStep(p)
  \/ \E p \in Procs : Join(p)
  \/ \E o \in Owners : ThreadStep(o) \/ DeviceFails(o)
  \/ \E o \in Owners : \E s \in owner[o].subs : SenderFails(o, s)

Spec == Init /\ [][Next]_vars

(* For liveness, the operator and the hardware may leave the engine alone  *)
(* from some point on.                                                     *)
NextOrCalm == Next \/ Calm

(* Fairness: the supervisor keeps coming back to every route, tasks that   *)
(* can run do, and a thread comes around its loop: every wait for the      *)
(* device is bounded by DEVICE_WAIT_TIMEOUT_MS.                            *)
FairSpec ==
  /\ Init /\ [][NextOrCalm]_vars
  /\ \A r \in Routes : WF_vars(RouteStep(r))
  /\ \A p \in Drainers : WF_vars(DrainStep(p))
  /\ \A p \in Procs : WF_vars(Join(p))
  /\ \A o \in Owners : WF_vars(ThreadStep(o))

-----------------------------------------------------------------------------
(* Safety                                                                  *)

\* The device is being read and nobody has asked it to stop.
Reading(o) == owner[o].th \in {"starting", "running"} /\ ~owner[o].stop

\* A route whose handle looks alive is on the list of the thread that reads
\* its device, or about to be: never "a healthy green over silence"
\* (capture.rs 112-121, reopen_wider's promise at 337-338), but for a handle
\* whose Add was still queued when the device was reopened (709), or that a
\* late unsubscribe met, which goes by the route's name (574).
Served == \A r \in Routes :
  LET h == handle[r] IN
  h # NoHandle /\ ~SendDead(h) /\ Reading(h.owner) =>
    h.sub \in owner[h.owner].ahead \cup spoiled

\* A thread feeds no subscription whose route has left: unsubscribe detaches
\* the route (capture.rs 567); but for one whose handle was lost in a failed
\* start, or whose Remove was, in a reopen.
NoZombie == \A o \in Owners :
  Reading(o) => \A s \in owner[o].ahead : Held(s) \/ s \in lost \cup spoiled

\* The roster never names a route that is not on the device: "leaving it
\* would make the next rejected route name a route that is not running", and
\* the device would never lose its last subscriber (capture.rs 527-532), but
\* for one whose handle was lost when its start failed (routing.rs 592-644).
RosterHeld ==
  reg # NoOwner => \A r \in owner[reg].roster :
    \/ handle[r] # NoHandle /\ handle[r].owner = reg
    \/ \E h \in drained : h.owner = reg /\ h.sub[1] = r
    \/ task[r].owner = reg
    \/ \E s \in lost : s[1] = r

\* An open device has an owner in the registry, or somebody who waits for it
\* to close; so the last route out frees the card.
NobodysDevice == \A o \in Owners :
  owner[o].th \in {"starting", "running"} =>
    \/ o = reg /\ (owner[o].roster # {} \/ owner[o].stop)
    \/ \E p \in Procs : pc[p] = "join" /\ task[p].owner = o

\* A route looks dead only if its device failed or shutdown_all stopped it:
\* the supervisor never tears routes down over a reopen (capture.rs 223-228).
OnlyFaultsLookDead == \A r \in Routes :
  handle[r] # NoHandle /\ IsDead(handle[r].owner) =>
    LET w == owner[handle[r].owner] IN w.fault \/ (w.stop /\ ~w.reopening)

(* Liveness                                                                *)

\* The card is being read for the route.
Fed(r) == /\ handle[r] # NoHandle
          /\ ~SendDead(handle[r])
          /\ handle[r].sub \in owner[handle[r].owner].subs
          /\ owner[handle[r].owner].th = "running"

EventuallyFed(r) ==
  calm ~> [](Fed(r) \/ (handle[r] # NoHandle /\ handle[r].sub \in spoiled))

\* Once requests and faults cease, every route is fed again, whichever
\* failures, reopens, drains and dropped requests came before, unless the
\* thread's list is wrong about it for one of them: then it has a handle that
\* looks alive, and nobody restarts it.
EventuallyServed == \A r \in Routes : EventuallyFed(r)
=============================================================================
