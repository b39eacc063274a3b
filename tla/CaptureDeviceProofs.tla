------------------------- MODULE CaptureDeviceProofs -------------------------
(***************************************************************************)
(* Proofs about CaptureDevice, for any number of routes, subscriptions,    *)
(* widths, owners and drains: the device is open as long as a route is on  *)
(* it and no longer, a reopen is never taken for a death, and whoever      *)
(* looks alive is fed, and whoever is fed is on the device, but for the    *)
(* handles that were lost and the lists that went wrong.                   *)
(***************************************************************************)
EXTENDS CaptureDevice, TLAPS

\* A task that waits has an owner to wait for.  One that joins has taken it
\* out of the registry for good; one that reopens is the only one to do so,
\* and keeps it there.
TasksInv ==
  /\ \A p \in Procs : pc[p] \in {"join", "reopen"} <=> task[p].owner # NoOwner
  /\ \A p \in Procs : task[p].owner # NoOwner => owner[task[p].owner].th # "none"
  /\ \A p \in Procs : pc[p] = "join" => task[p].owner # reg
  /\ \A p \in Procs : pc[p] = "reopen" =>
       /\ p \in Routes /\ task[p].owner = reg /\ p \in owner[reg].roster
       /\ task[p].sub \in Subs /\ task[p].sub[1] = p
  /\ \A p, q \in Procs : pc[p] = "reopen" /\ pc[q] = "reopen" => p = q

\* An owner is reopened by somebody, and its thread has returned for a reason.
OwnersInv ==
  /\ \A o \in Owners : owner[o].reopening => ~RegistryFree
  /\ \A o \in Owners : owner[o].th \in {"closing", "finished"} => owner[o].fault \/ owner[o].stop

\* A handle is of its route's, and so is one that is about to be committed.
HandlesInv == \A r \in Routes :
  /\ handle[r] # NoHandle => handle[r].sub[1] = r /\ owner[handle[r].owner].th # "none"
  /\ pc[r] = "commit" => handle[r] # NoHandle

IInv == TypeOK /\ TasksInv /\ OwnersInv /\ HandlesInv /\ RosterHeld /\ NobodysDevice

-----------------------------------------------------------------------------
(* Helpers                                                                 *)

\* One owner changes.
LEMMA OneOwner ==
  ASSUME owner \in [Owners -> Record], NEW o \in Owners, NEW w \in Record,
         owner' = [owner EXCEPT ![o] = w]
  PROVE  /\ owner' \in [Owners -> Record]
         /\ owner'[o] = w
         /\ \A u \in Owners \ {o} : owner'[u] = owner[u]
OBVIOUS

LEMMA NobodyIs ==
  /\ Nobody \in Record
  /\ Nobody.th = "none" /\ ~Nobody.stop /\ ~Nobody.reopening
  /\ Nobody.roster = {} /\ Nobody.subs = {} /\ Nobody.ahead = {}
  BY DEF Nobody, Record

\* The owner that leaves the registry keeps its thread, and no other changes.
LEMMA DiscardedIs ==
  ASSUME owner \in [Owners -> Record]
  PROVE  /\ Discarded \in [Owners -> Record]
         /\ \A o \in Owners :
              /\ o # reg => Discarded[o] = owner[o]
              /\ Discarded[o].th = owner[o].th /\ Discarded[o].stop = owner[o].stop
              /\ Discarded[o].fault = owner[o].fault
              /\ o = reg => /\ ~Discarded[o].reopening /\ Discarded[o].roster = {}
                            /\ Discarded[o].subs = {} /\ Discarded[o].ahead = {}
<1>1. ASSUME NEW o \in Owners, NEW v \in Record
      PROVE  LET w == [Nobody EXCEPT !.th = v.th, !.stop = v.stop, !.fault = v.fault] IN
             /\ w \in Record /\ w.th = v.th /\ w.stop = v.stop /\ w.fault = v.fault
             /\ ~w.reopening /\ w.roster = {} /\ w.subs = {} /\ w.ahead = {}
  BY DEF Nobody, Record
<1>2. ASSUME NEW o \in Owners
      PROVE  /\ Discarded[o] \in Record
             /\ o # reg => Discarded[o] = owner[o]
             /\ Discarded[o].th = owner[o].th /\ Discarded[o].stop = owner[o].stop
             /\ Discarded[o].fault = owner[o].fault
             /\ o = reg => /\ ~Discarded[o].reopening /\ Discarded[o].roster = {}
                           /\ Discarded[o].subs = {} /\ Discarded[o].ahead = {}
  <2>1. Discarded[o] = IF o # reg THEN owner[o]
                       ELSE [Nobody EXCEPT !.th = owner[o].th, !.stop = owner[o].stop,
                                           !.fault = owner[o].fault]
    BY DEF Discarded
  <2>2. owner[o] \in Record
    OBVIOUS
  <2>3. CASE o = reg
    <3> DEFINE w == [Nobody EXCEPT !.th = owner[o].th, !.stop = owner[o].stop,
                                   !.fault = owner[o].fault]
    <3>1. Discarded[o] = w
      BY <2>1, <2>3
    <3>2. /\ w \in Record /\ w.th = owner[o].th /\ w.stop = owner[o].stop /\ w.fault = owner[o].fault
          /\ ~w.reopening /\ w.roster = {} /\ w.subs = {} /\ w.ahead = {}
      BY <1>1, <2>2
    <3> HIDE DEF w
    <3> QED BY <2>3, <3>1, <3>2
  <2>4. CASE o # reg
    BY <2>1, <2>2, <2>4
  <2> QED BY <2>3, <2>4
<1>3. Discarded \in [Owners -> Record]
  <2>1. Discarded = [o \in Owners |-> Discarded[o]]
    BY DEF Discarded
  <2> QED BY <1>2, <2>1
<1> QED BY <1>2, <1>3

\* What may be sent ahead.
LEMMA AheadIs ==
  ASSUME TypeOK, NEW o \in Owners, NEW s \in Subs, NEW r \in Routes
  PROVE  /\ Added(o, s) \subseteq Subs /\ Removed(o, r) \subseteq Subs
         /\ ~HasReceiver(o) => Added(o, s) = owner[o].ahead /\ Removed(o, r) = owner[o].ahead
  BY DEF TypeOK, Record, Added, Removed

\* What a thread's step leaves alone, and what it may do.
After(o, w) ==
  /\ w.stop = owner[o].stop /\ w.reopening = owner[o].reopening
  /\ w.roster = owner[o].roster /\ w.width = owner[o].width
  /\ w.th # "none" /\ owner[o].th # "none"
  /\ w.th \notin {"starting", "running"} => w.ahead = w.subs
  /\ w.th \in {"starting", "running"} => owner[o].th \in {"starting", "running"}
  /\ w.th \in {"closing", "finished"} => owner[o].th = "closing" \/ w.fault \/ w.stop
  /\ w.th = "finished" => owner[o].th = "closing"
  /\ owner[o].fault => w.fault

\* What becomes of its list: it stays as it is, is left behind, is caught up
\* with, or loses a subscriber.
Lists(o, w) ==
  \/ /\ w.subs = owner[o].subs /\ w.ahead = owner[o].ahead /\ UNCHANGED <<failed, spoiled>>
  \/ /\ w.th = "closing" /\ w.ahead = owner[o].subs /\ failed' = failed
     /\ spoiled' = spoiled \cup ((owner[o].ahead \ owner[o].subs) \cup (owner[o].subs \ owner[o].ahead))
  \/ w.ahead = owner[o].ahead /\ UNCHANGED <<failed, spoiled>>
  \/ \E s \in Subs : /\ w.ahead = owner[o].ahead \ {s} /\ spoiled' = spoiled
                      /\ failed' = IF Running(s) THEN failed \cup {s} ELSE failed

LEMMA ReturnsIs ==
  ASSUME TypeOK, NEW o \in Owners, NEW f \in BOOLEAN, Returns(o, f), failed' = failed,
         owner[o].th \notin {"none", "finished"}, f \/ owner[o].stop
  PROVE  \E w \in Record : owner' = [owner EXCEPT ![o] = w] /\ After(o, w) /\ Lists(o, w)
<1> DEFINE w == [owner[o] EXCEPT !.th = "closing", !.ahead = owner[o].subs, !.fault = @ \/ f]
<1>1. owner[o] \in Record /\ owner' = [owner EXCEPT ![o] = w]
  BY DEF TypeOK, Returns
<1>2. /\ w \in Record /\ w.th = "closing" /\ w.ahead = owner[o].subs /\ w.subs = owner[o].subs
      /\ w.fault = (owner[o].fault \/ f) /\ w.stop = owner[o].stop
      /\ w.reopening = owner[o].reopening /\ w.roster = owner[o].roster /\ w.width = owner[o].width
  BY <1>1 DEF Record
<1>3. spoiled' = spoiled \cup ((owner[o].ahead \ owner[o].subs) \cup (owner[o].subs \ owner[o].ahead))
  BY DEF Returns
<1> HIDE DEF w
<1>4. After(o, w) /\ Lists(o, w)
  BY <1>2, <1>3 DEF After, Lists
<1> QED BY <1>1, <1>2, <1>4

LEMMA ThreadIs ==
  ASSUME TypeOK, NEW o \in Owners,
         \/ Open(o) \/ Iterate(o) \/ DeviceFails(o) \/ Finish(o)
         \/ \E s \in owner[o].subs : SenderFails(o, s)
  PROVE  \E w \in Record : owner' = [owner EXCEPT ![o] = w] /\ After(o, w) /\ Lists(o, w)
<1>0. owner[o] \in Record /\ owner \in [Owners -> Record]
  BY DEF TypeOK
<1>1. CASE Open(o)
  <2>1. CASE Occupied(o)
    BY <1>1, <2>1, ReturnsIs DEF Open
  <2>2. CASE ~Occupied(o)
    <3> DEFINE w == [owner[o] EXCEPT !.th = "running"]
    <3>1. owner' = [owner EXCEPT ![o] = w] /\ owner[o].th = "starting" /\ UNCHANGED <<failed, spoiled>>
      BY <1>0, <1>1, <2>2 DEF Open
    <3>2. w \in Record /\ After(o, w) /\ Lists(o, w)
      BY <1>0, <3>1 DEF Record, After, Lists
    <3> QED BY <3>1, <3>2
  <2> QED BY <2>1, <2>2
<1>2. CASE Iterate(o)
  <2>1. CASE owner[o].stop
    BY <1>2, <2>1, ReturnsIs DEF Iterate
  <2>2. CASE ~owner[o].stop
    <3> DEFINE w == [owner[o] EXCEPT !.subs = owner[o].ahead]
    <3>1. owner' = [owner EXCEPT ![o] = w] /\ owner[o].th = "running" /\ UNCHANGED <<failed, spoiled>>
      BY <1>0, <1>2, <2>2 DEF Iterate
    <3>2. w \in Record /\ After(o, w) /\ Lists(o, w)
      BY <1>0, <3>1 DEF Record, After, Lists
    <3> QED BY <3>1, <3>2
  <2> QED BY <2>1, <2>2
<1>3. CASE DeviceFails(o)
  BY <1>3, ReturnsIs DEF DeviceFails
<1>4. CASE Finish(o)
  <2> DEFINE w == [owner[o] EXCEPT !.th = "finished"]
  <2>1. /\ owner' = [owner EXCEPT ![o] = w] /\ owner[o].th = "closing" /\ owner[o].ahead = owner[o].subs
        /\ UNCHANGED <<failed, spoiled>>
    BY <1>0, <1>4 DEF Finish, TypeOK, astray
  <2>2. w \in Record /\ After(o, w) /\ Lists(o, w)
    BY <1>0, <2>1 DEF Record, After, Lists
  <2> QED BY <2>1, <2>2
<1>5. ASSUME NEW s \in owner[o].subs, SenderFails(o, s)
      PROVE  \E w \in Record : owner' = [owner EXCEPT ![o] = w] /\ After(o, w) /\ Lists(o, w)
  <2> DEFINE w == [owner[o] EXCEPT !.subs = @ \ {s}, !.ahead = @ \ {s}]
  <2>1. /\ owner' = [owner EXCEPT ![o] = w] /\ owner[o].th = "running" /\ spoiled' = spoiled
        /\ failed' = IF Running(s) THEN failed \cup {s} ELSE failed
    BY <1>0, <1>5 DEF SenderFails, astray
  <2>2. s \in Subs
    BY <1>0 DEF Record
  <2>3. /\ w \in Record /\ After(o, w) /\ w.ahead = owner[o].ahead \ {s}
    BY <1>0, <2>1 DEF Record, After
  <2> HIDE DEF w
  <2>4. Lists(o, w)
    BY <2>1, <2>2, <2>3 DEF Lists
  <2> QED BY <2>1, <2>3, <2>4
<1> QED BY <1>1, <1>2, <1>3, <1>4, <1>5

-----------------------------------------------------------------------------
(* The threads                                                             *)

LEMMA ThreadInv ==
  ASSUME IInv, NEW o \in Owners,
         \/ Open(o) \/ Iterate(o) \/ DeviceFails(o) \/ Finish(o)
         \/ \E s \in owner[o].subs : SenderFails(o, s)
  PROVE  IInv'
<1>1. PICK w \in Record : owner' = [owner EXCEPT ![o] = w] /\ After(o, w) /\ Lists(o, w)
  BY ThreadIs DEF IInv
<1>2. /\ owner' \in [Owners -> Record] /\ owner'[o] = w
      /\ \A u \in Owners \ {o} : owner'[u] = owner[u]
  BY <1>1 DEF IInv, TypeOK
<1>3. UNCHANGED <<reg, handle, drained, pc, task, lost, calm>>
  BY DEF Open, Iterate, DeviceFails, Finish, SenderFails, astray
<1>4. failed' \subseteq Subs /\ spoiled' \subseteq Subs
  <2>1. /\ owner[o].subs \subseteq Subs /\ owner[o].ahead \subseteq Subs
        /\ failed \subseteq Subs /\ spoiled \subseteq Subs
    BY DEF IInv, TypeOK, Record
  <2> QED BY <1>1, <2>1 DEF Lists
<1>5. TypeOK'
  BY <1>1, <1>2, <1>3, <1>4 DEF IInv, TypeOK, After
<1>6. TasksInv'
  BY <1>1, <1>2, <1>3 DEF IInv, TypeOK, TasksInv, After, Task
<1>7. OwnersInv'
  BY <1>1, <1>2, <1>3 DEF IInv, OwnersInv, After, RegistryFree
<1>8. HandlesInv'
  BY <1>1, <1>2, <1>3 DEF IInv, TypeOK, HandlesInv, After, Handles
<1>9. RosterHeld'
  BY <1>1, <1>2, <1>3 DEF IInv, TypeOK, RosterHeld, After
<1>10. NobodysDevice'
  BY <1>1, <1>2, <1>3 DEF IInv, NobodysDevice, After
<1> QED BY <1>5, <1>6, <1>7, <1>8, <1>9, <1>10 DEF IInv

LEMMA DropInv == ASSUME IInv, NEW o \in Owners, Drop(o) PROVE IInv'
<1>1. /\ owner' \in [Owners -> Record] /\ owner'[o] = Nobody
      /\ \A u \in Owners \ {o} : owner'[u] = owner[u]
      /\ UNCHANGED <<reg, handle, drained, failed, pc, task, lost, spoiled, calm>>
      /\ o # reg /\ Nobody.th = "none" /\ Nobody.ahead = Nobody.subs /\ ~Nobody.reopening
  BY NobodyIs DEF Drop, IInv, TypeOK, astray
<1>2. TypeOK'
  BY <1>1 DEF IInv, TypeOK
<1>3. TasksInv'
  BY <1>1 DEF IInv, TypeOK, TasksInv, Task, Drop, InUse
<1>4. OwnersInv' /\ NobodysDevice' /\ RosterHeld'
  BY <1>1 DEF IInv, TypeOK, OwnersInv, NobodysDevice, RosterHeld, RegistryFree
<1>5. HandlesInv'
  BY <1>1 DEF IInv, TypeOK, HandlesInv, Drop, InUse
<1> QED BY <1>2, <1>3, <1>4, <1>5 DEF IInv

-----------------------------------------------------------------------------
(* subscribe                                                               *)

\* Nobody reopens anything while the registry is free.
LEMMA FreeIs ==
  ASSUME IInv, RegistryFree
  PROVE  /\ \A o \in Owners : ~owner[o].reopening
         /\ \A p \in Procs : task[p].owner # NoOwner => pc[p] = "join"
  BY DEF IInv, TasksInv, OwnersInv, RegistryFree

\* What joins goes on joining while the registry keeps its owner or loses it.
LEMMA TasksKept ==
  ASSUME IInv, RegistryFree, UNCHANGED <<pc, task>>, reg' \in {reg, NoOwner},
         \A o \in Owners : owner[o].th # "none" => owner'[o].th # "none"
  PROVE  TasksInv'
<1>1. \A p \in Procs : task[p].owner \in Owners \cup {NoOwner}
  BY DEF IInv, TypeOK, Task
<1>2. \A p \in Procs : task'[p] = task[p] /\ pc'[p] = pc[p] /\ pc[p] # "reopen"
  BY DEF RegistryFree
<1> QED BY <1>1, <1>2 DEF IInv, TasksInv

\* The owner that is started is nobody's yet.
LEMMA FreshIs ==
  ASSUME IInv, RegistryFree, NEW o \in Owners, owner[o] = Nobody \/ (o = reg /\ ~InUse(o))
  PROVE  /\ \A q \in Routes : handle[q] # NoHandle => handle[q].owner # o
         /\ \A p \in Procs : task[p].owner # o
<1>1. CASE owner[o] = Nobody
  <2>1. \A p \in Procs : task[p].owner # o
    BY <1>1, NobodyIs, SentinelAssumption DEF IInv, TasksInv
  <2>2. \A q \in Routes : handle[q] # NoHandle => handle[q].owner # o
    BY <1>1, NobodyIs DEF IInv, HandlesInv
  <2> QED BY <2>1, <2>2
<1>2. CASE ~InUse(o)
  BY <1>2 DEF InUse
<1> QED BY <1>1, <1>2

LEMMA StartOwnerInv ==
  ASSUME IInv, NEW r \in Routes, Subscribe(r), NEW s \in Subs, s[1] = r, NEW x \in Widths,
         StartOwner(r, s, x)
  PROVE  IInv'
<1> DEFINE w == [Nobody EXCEPT !.th = "starting", !.width = x, !.roster = {r}, !.subs = {s},
                               !.ahead = {s}]
<1>1. PICK o \in Owners :
        /\ owner[o] = Nobody \/ (o = reg /\ ~InUse(o))
        /\ reg' = o
        /\ owner' = [Discarded EXCEPT ![o] = w]
        /\ handle' = [handle EXCEPT ![r] = [owner |-> o, sub |-> s]]
  BY DEF StartOwner
<1>2. w \in Record /\ w.th = "starting" /\ ~w.reopening /\ w.roster = {r}
  BY DEF Nobody, Record
<1> HIDE DEF w
<1>3. owner \in [Owners -> Record] /\ reg \in Owners \cup {NoOwner}
  BY DEF IInv, TypeOK
<1>4. /\ owner' \in [Owners -> Record] /\ owner'[o] = w
      /\ \A u \in Owners \ {o} :
           /\ owner'[u] = Discarded[u]
           /\ owner'[u].th = owner[u].th
           /\ owner'[u].stop = owner[u].stop
           /\ owner'[u].fault = owner[u].fault
           /\ u # reg => owner'[u] = owner[u]
           /\ ~owner'[u].reopening
           /\ u = reg => owner'[u].ahead = owner'[u].subs
  BY <1>1, <1>2, <1>3, DiscardedIs, FreeIs DEF Subscribe
<1>5. /\ UNCHANGED <<task, drained, failed, calm>> /\ lost' = {} /\ spoiled' = {}
      /\ RegistryFree /\ ~Usable /\ handle[r] = NoHandle /\ pc[r] = "idle" /\ r \in Procs
  BY DEF StartOwner, Subscribe, Procs
<1>6. /\ [owner |-> o, sub |-> s] \in Handles /\ [owner |-> o, sub |-> s] # NoHandle
      /\ handle' \in [Routes -> Handles \cup {NoHandle}]
      /\ handle'[r] = [owner |-> o, sub |-> s]
      /\ \A q \in Routes \ {r} : handle'[q] = handle[q]
  BY <1>1, SentinelAssumption DEF IInv, TypeOK, Handles
<1>7. /\ pc' \in [Procs -> {"idle", "reopen", "commit", "join", "take", "drain"}]
      /\ pc'[r] = "commit" /\ \A p \in Procs \ {r} : pc'[p] = pc[p]
  BY <1>5 DEF StartOwner, IInv, TypeOK
<1>8. /\ \A q \in Routes : handle[q] # NoHandle => handle[q].owner # o
      /\ \A p \in Procs : task[p].owner # o /\ pc[p] # "reopen"
  BY <1>1, <1>5, FreshIs DEF RegistryFree
<1>9. TypeOK'
  <2>1. \A u \in Owners : owner'[u].th \notin {"starting", "running"} => owner'[u].ahead = owner'[u].subs
    BY <1>2, <1>4 DEF IInv, TypeOK
  <2> QED BY <1>1, <1>2, <1>4, <1>5, <1>6, <1>7, <2>1 DEF IInv, TypeOK
<1>10. TasksInv'
  <2>1. \A p \in Procs : task[p].owner \in Owners \cup {NoOwner}
    BY DEF IInv, TypeOK, Task
  <2>2. \A p \in Procs : pc'[p] # "reopen" /\ (pc'[p] = "join" <=> pc[p] = "join")
    BY <1>5, <1>7, <1>8
  <2> QED BY <1>1, <1>4, <1>5, <1>8, <2>1, <2>2 DEF IInv, TasksInv
<1>11. OwnersInv'
  <2>1. ASSUME NEW u \in Owners PROVE ~owner'[u].reopening
    BY <1>2, <1>4
  <2> QED BY <1>2, <1>4, <2>1 DEF IInv, OwnersInv
<1>12. HandlesInv'
  <2> SUFFICES ASSUME NEW q \in Routes
               PROVE  /\ handle'[q] # NoHandle => handle'[q].sub[1] = q /\ owner'[handle'[q].owner].th # "none"
                      /\ pc'[q] = "commit" => handle'[q] # NoHandle
    BY DEF HandlesInv
  <2>1. CASE q = r
    BY <1>2, <1>4, <1>6, <2>1
  <2>2. CASE q # r
    BY <1>4, <1>6, <1>7, <1>8, <2>2 DEF IInv, TypeOK, HandlesInv, Handles, Procs
  <2> QED BY <2>1, <2>2
<1>13. RosterHeld'
  BY <1>1, <1>2, <1>4, <1>6 DEF RosterHeld
<1>14. NobodysDevice'
  <2>1. reg # NoOwner => owner[reg].th \notin {"starting", "running"}
    BY <1>5, FreeIs DEF Usable, IsDead
  <2>2. ASSUME NEW u \in Owners \ {o}, owner'[u].th \in {"starting", "running"}
        PROVE  \E p \in Procs : pc'[p] = "join" /\ task'[p].owner = u
    <3>1. u # reg /\ owner[u].th \in {"starting", "running"}
      BY <1>4, <2>1, <2>2, SentinelAssumption
    <3>2. PICK p \in Procs : pc[p] = "join" /\ task[p].owner = u
      BY <3>1 DEF IInv, NobodysDevice
    <3> QED BY <1>5, <1>7, <3>2
  <2> QED BY <1>1, <1>2, <1>4, <2>2 DEF NobodysDevice
<1> QED BY <1>9, <1>10, <1>11, <1>12, <1>13, <1>14 DEF IInv

\* Only r's place changes, and no task waits in it.
LEMMA TasksMoved ==
  ASSUME IInv, UNCHANGED <<reg, task>>, NEW r \in Routes,
         pc[r] \in {"idle", "commit"}, NEW where \in {"idle", "commit"}, pc' = [pc EXCEPT ![r] = where],
         \A o \in Owners : owner[o].th # "none" => owner'[o].th # "none",
         \A o \in Owners : owner[o].roster \subseteq owner'[o].roster \/ RegistryFree
  PROVE  TasksInv' /\ pc' \in [Procs -> {"idle", "reopen", "commit", "join", "take", "drain"}]
         /\ pc'[r] = where /\ \A p \in Procs \ {r} : pc'[p] = pc[p]
<1>1. \A p \in Procs : task[p].owner \in Owners \cup {NoOwner}
  BY DEF IInv, TypeOK, Task
<1>2. /\ pc' \in [Procs -> {"idle", "reopen", "commit", "join", "take", "drain"}]
      /\ pc'[r] = where /\ \A p \in Procs \ {r} : pc'[p] = pc[p]
      /\ \A p \in Procs : pc[p] \in {"join", "reopen"} \/ pc'[p] \in {"join", "reopen"} => pc'[p] = pc[p]
  BY DEF IInv, TypeOK, Procs
<1>3. TasksInv'
  <2>1. /\ \A p \in Procs : pc'[p] \in {"join", "reopen"} <=> task'[p].owner # NoOwner
        /\ \A p \in Procs : task'[p].owner # NoOwner => owner'[task'[p].owner].th # "none"
        /\ \A p \in Procs : pc'[p] = "join" => task'[p].owner # reg'
        /\ \A p, q \in Procs : pc'[p] = "reopen" /\ pc'[q] = "reopen" => p = q
    BY <1>1, <1>2 DEF IInv, TasksInv
  <2>2. ASSUME NEW p \in Procs, pc'[p] = "reopen"
        PROVE  /\ p \in Routes /\ task'[p].owner = reg' /\ p \in owner'[reg'].roster
               /\ task'[p].sub \in Subs /\ task'[p].sub[1] = p
    <3>1. pc[p] = "reopen" /\ ~RegistryFree
      BY <1>2, <2>2 DEF RegistryFree
    <3>2. reg \in Owners
      BY <1>1, <3>1, SentinelAssumption DEF IInv, TasksInv
    <3> QED BY <3>1, <3>2 DEF IInv, TasksInv
  <2> QED BY <2>1, <2>2 DEF TasksInv
<1> QED BY <1>2, <1>3

LEMMA JoinOwnerInv ==
  ASSUME IInv, NEW r \in Routes, Subscribe(r), NEW s \in Subs, s[1] = r, NEW x \in Widths,
         JoinOwner(r, s, x)
  PROVE  IInv'
<1>1. /\ UNCHANGED <<reg, task, drained, failed, lost, calm>> /\ RegistryFree /\ Usable
      /\ handle[r] = NoHandle /\ reg \in Owners /\ owner[reg].th # "none"
      /\ owner[reg] \in Record /\ pc[r] = "idle"
  BY DEF JoinOwner, Subscribe, Usable, IInv, TypeOK
<1>2. CASE HasReceiver(reg)
  <2> DEFINE w == [owner[reg] EXCEPT !.roster = @ \cup {r}, !.ahead = Added(reg, s)]
  <2>1. owner' = [owner EXCEPT ![reg] = w]
    BY <1>2 DEF JoinOwner, IInv, TypeOK
  <2>2. w \in Record
    BY <1>1, AheadIs DEF Record, IInv
  <2>3. /\ w.th = owner[reg].th /\ w.reopening = owner[reg].reopening
        /\ w.roster = owner[reg].roster \cup {r}
        /\ w.stop = owner[reg].stop /\ w.fault = owner[reg].fault
        /\ w.th \in {"starting", "running"}
    BY <1>1, <1>2 DEF HasReceiver, Record
  <2> HIDE DEF w
  <2>5. /\ owner' \in [Owners -> Record] /\ owner'[reg] = w
        /\ \A u \in Owners \ {reg} : owner'[u] = owner[u]
    BY <1>1, <2>1, <2>2 DEF IInv, TypeOK
  <2>6. /\ [owner |-> reg, sub |-> s] \in Handles
        /\ handle' \in [Routes -> Handles \cup {NoHandle}]
        /\ handle'[r] = [owner |-> reg, sub |-> s]
        /\ \A q \in Routes \ {r} : handle'[q] = handle[q]
    BY <1>1, <1>2 DEF IInv, TypeOK, Handles, JoinOwner
  <2>7. /\ pc' = [pc EXCEPT ![r] = "commit"] /\ spoiled' = spoiled \ {s}
    BY <1>2 DEF JoinOwner
  <2>8. TasksInv' /\ pc' \in [Procs -> {"idle", "reopen", "commit", "join", "take", "drain"}]
        /\ pc'[r] = "commit" /\ \A p \in Procs \ {r} : pc'[p] = pc[p]
    BY <1>1, <2>3, <2>5, <2>7, TasksMoved
  <2>9. TypeOK'
    BY <1>1, <2>3, <2>5, <2>6, <2>7, <2>8 DEF IInv, TypeOK
  <2>10. OwnersInv'
    BY <1>1, <2>3, <2>5, FreeIs DEF IInv, OwnersInv
  <2>11. HandlesInv'
    BY <1>1, <2>3, <2>5, <2>6, <2>8, SentinelAssumption DEF IInv, TypeOK, HandlesInv, Handles, Procs
  <2>12. RosterHeld'
    <3>1. handle'[r] # NoHandle /\ handle'[r].owner = reg
      BY <2>6, SentinelAssumption
    <3>2. ASSUME NEW q \in owner[reg].roster, q # r
          PROVE  \/ handle'[q] # NoHandle /\ handle'[q].owner = reg
                 \/ \E h \in drained' : h.owner = reg /\ h.sub[1] = q
                 \/ task'[q].owner = reg
                 \/ \E t \in lost' : t[1] = q
      <4>1. q \in Routes
        BY <1>1, <3>2 DEF Record
      <4> QED BY <1>1, <2>6, <3>2, <4>1, SentinelAssumption DEF IInv, TypeOK, RosterHeld
    <3> QED BY <1>1, <2>3, <2>5, <3>1, <3>2 DEF RosterHeld
  <2>13. NobodysDevice'
    BY <1>1, <2>3, <2>5, <2>8 DEF IInv, NobodysDevice
  <2> QED BY <2>8, <2>9, <2>10, <2>11, <2>12, <2>13 DEF IInv
<1>3. CASE ~HasReceiver(reg)
  <2> DEFINE w == [owner[reg] EXCEPT !.roster = @ \ {r}]
  <2>1. owner' = [owner EXCEPT ![reg] = w] /\ UNCHANGED <<handle, pc, spoiled>>
    BY <1>3 DEF JoinOwner, IInv, TypeOK
  <2>2. w \in Record
    BY <1>1 DEF Record
  <2>3. /\ w.th = owner[reg].th /\ w.reopening = owner[reg].reopening
        /\ w.roster = owner[reg].roster \ {r} /\ w.ahead = owner[reg].ahead /\ w.subs = owner[reg].subs
        /\ w.stop = owner[reg].stop /\ w.fault = owner[reg].fault
        /\ w.th \notin {"starting", "running"}
    BY <1>1, <1>3 DEF HasReceiver, Record
  <2> HIDE DEF w
  <2>4. /\ owner' \in [Owners -> Record] /\ owner'[reg] = w
        /\ \A u \in Owners \ {reg} : owner'[u] = owner[u]
    BY <1>1, <2>1, <2>2 DEF IInv, TypeOK
  <2>5. TypeOK'
    BY <1>1, <2>1, <2>3, <2>4 DEF IInv, TypeOK
  <2>6. TasksInv'
    BY <1>1, <2>1, <2>3, <2>4, TasksKept
  <2>7. OwnersInv'
    BY <1>1, <2>3, <2>4, FreeIs DEF IInv, OwnersInv
  <2>8. HandlesInv'
    BY <1>1, <2>1, <2>3, <2>4 DEF IInv, TypeOK, HandlesInv, Handles
  <2>9. RosterHeld'
    BY <1>1, <2>1, <2>3, <2>4 DEF IInv, RosterHeld
  <2>10. NobodysDevice'
    BY <1>1, <2>1, <2>3, <2>4 DEF IInv, NobodysDevice
  <2> QED BY <2>5, <2>6, <2>7, <2>8, <2>9, <2>10 DEF IInv
<1> QED BY <1>2, <1>3

LEMMA BeginReopenInv ==
  ASSUME IInv, NEW r \in Routes, Subscribe(r), NEW s \in Subs, s[1] = r, NEW x \in Widths,
         BeginReopen(r, s, x)
  PROVE  IInv'
<1> DEFINE w == [owner[reg] EXCEPT !.roster = @ \cup {r}, !.reopening = TRUE, !.stop = TRUE]
           job == [owner |-> reg, sub |-> s, width |-> x]
<1>1. /\ UNCHANGED <<reg, handle, drained, failed, lost, spoiled, calm>> /\ RegistryFree /\ Usable
      /\ handle[r] = NoHandle /\ reg \in Owners /\ owner[reg].th # "none"
      /\ owner[reg] \in Record /\ r \in Procs /\ reg # NoOwner
  BY DEF BeginReopen, Subscribe, Usable, IInv, TypeOK, Procs, astray
<1>2. owner' = [owner EXCEPT ![reg] = w]
  BY DEF BeginReopen, IInv, TypeOK
<1>3. w \in Record
  BY <1>1 DEF Record
<1>4. /\ w.th = owner[reg].th /\ w.reopening /\ w.stop /\ w.roster = owner[reg].roster \cup {r}
      /\ w.ahead = owner[reg].ahead /\ w.subs = owner[reg].subs
  BY <1>1 DEF Record
<1> HIDE DEF w
<1>5. /\ owner' \in [Owners -> Record] /\ owner'[reg] = w
      /\ \A u \in Owners \ {reg} : owner'[u] = owner[u]
  BY <1>1, <1>2, <1>3 DEF IInv, TypeOK
<1>6. /\ pc' = [pc EXCEPT ![r] = "reopen"] /\ task' = [task EXCEPT ![r] = job]
      /\ job \in Task /\ job.owner = reg /\ job.sub = s
  BY <1>1 DEF BeginReopen, Task
<1> HIDE DEF job
<1>7. /\ pc' \in [Procs -> {"idle", "reopen", "commit", "join", "take", "drain"}] /\ task' \in [Procs -> Task]
      /\ pc'[r] = "reopen" /\ task'[r] = job
      /\ \A p \in Procs \ {r} : pc'[p] = pc[p] /\ task'[p] = task[p]
  BY <1>1, <1>6 DEF IInv, TypeOK
<1>8. TypeOK'
  BY <1>1, <1>4, <1>5, <1>7, FreeIs DEF IInv, TypeOK
<1>9. TasksInv'
  <2>1. \A p \in Procs : task[p].owner \in Owners \cup {NoOwner} /\ pc[p] # "reopen"
    BY <1>1 DEF IInv, TypeOK, Task, RegistryFree
  <2>2. \A o \in Owners : owner[o].th # "none" => owner'[o].th # "none"
    BY <1>1, <1>4, <1>5
  <2>3. task'[r].owner = reg /\ task'[r].sub = s /\ r \in owner'[reg].roster
    BY <1>4, <1>5, <1>6, <1>7
  <2>4. \A p \in Procs \ {r} : /\ pc'[p] \in {"join", "reopen"} <=> task'[p].owner # NoOwner
                               /\ task'[p].owner # NoOwner => owner'[task'[p].owner].th # "none"
                               /\ pc'[p] = "join" => task'[p].owner # reg
                               /\ pc'[p] # "reopen"
    BY <1>7, <2>1, <2>2 DEF IInv, TasksInv
  <2>5. reg' = reg /\ pc'[r] = "reopen" /\ owner'[reg].th # "none"
    BY <1>1, <1>7, <2>2
  <2>6. \A p \in Procs : pc'[p] = "reopen" => p = r
    BY <2>4
  <2>7. \A p \in Procs : /\ pc'[p] \in {"join", "reopen"} <=> task'[p].owner # NoOwner
                         /\ task'[p].owner # NoOwner => owner'[task'[p].owner].th # "none"
                         /\ pc'[p] = "join" => task'[p].owner # reg
    <3> TAKE p \in Procs
    <3>1. CASE p = r
      BY <1>1, <2>3, <2>5, <3>1
    <3>2. CASE p # r
      BY <2>4, <3>2
    <3> QED BY <3>1, <3>2
  <2> QED BY <2>3, <2>5, <2>6, <2>7 DEF TasksInv
<1>10. OwnersInv'
  BY <1>1, <1>4, <1>5, <1>7, FreeIs DEF IInv, OwnersInv, RegistryFree
<1>11. HandlesInv'
  BY <1>1, <1>4, <1>5, <1>7 DEF IInv, TypeOK, HandlesInv, Handles, Procs
<1>12. RosterHeld'
  <2>1. task[r].owner # reg
    BY <1>1, FreeIs DEF IInv, TasksInv
  <2> QED BY <1>1, <1>4, <1>5, <1>6, <1>7, <2>1 DEF IInv, RosterHeld, Procs
<1>13. NobodysDevice'
  <2>1. pc[r] = "idle"
    BY DEF Subscribe
  <2> QED BY <1>1, <1>4, <1>5, <1>7, <2>1 DEF IInv, NobodysDevice
<1> QED BY <1>8, <1>9, <1>10, <1>11, <1>12, <1>13 DEF IInv

LEMMA SubscribeInv == ASSUME IInv, NEW r \in Routes, Subscribe(r) PROVE IInv'
<1>1. PICK s \in Subs, x \in Widths :
        s[1] = r /\ (StartOwner(r, s, x) \/ JoinOwner(r, s, x) \/ BeginReopen(r, s, x))
  BY DEF Subscribe
<1> QED BY <1>1, StartOwnerInv, JoinOwnerInv, BeginReopenInv

LEMMA SubscribeFailsInv == ASSUME IInv, NEW r \in Routes, SubscribeFails(r) PROVE IInv'
<1>1. /\ reg' = NoOwner /\ RegistryFree /\ lost' = {} /\ spoiled' = {} /\ owner' = Discarded
      /\ UNCHANGED <<handle, drained, failed, pc, task, calm>>
      /\ owner[reg].th \notin {"starting", "running"} /\ reg \in Owners
      /\ owner \in [Owners -> Record]
  BY DEF SubscribeFails, IsDead, IInv, TypeOK
<1>2. /\ owner' \in [Owners -> Record]
      /\ \A o \in Owners :
           /\ o # reg => owner'[o] = owner[o]
           /\ owner'[o].th = owner[o].th /\ owner'[o].stop = owner[o].stop
           /\ owner'[o].fault = owner[o].fault
           /\ o = reg => owner'[o].ahead = owner'[o].subs
           /\ ~owner'[o].reopening
  BY <1>1, DiscardedIs, FreeIs
<1>3. TypeOK'
  BY <1>1, <1>2 DEF IInv, TypeOK
<1>4. TasksInv'
  BY <1>1, <1>2, TasksKept
<1>5. OwnersInv' /\ RosterHeld' /\ NobodysDevice'
  BY <1>1, <1>2 DEF IInv, OwnersInv, RosterHeld, NobodysDevice
<1>6. HandlesInv'
  BY <1>1, <1>2 DEF IInv, TypeOK, HandlesInv, Handles
<1> QED BY <1>3, <1>4, <1>5, <1>6 DEF IInv

-----------------------------------------------------------------------------
(* The end of a reopen, and of a start                                     *)

LEMMA RespawnInv == ASSUME IInv, NEW r \in Routes, Respawn(r) PROVE IInv'
<1> DEFINE v == owner[reg]
           w == [v EXCEPT !.th = "starting", !.stop = FALSE, !.reopening = FALSE,
                          !.fault = FALSE, !.width = task[r].width,
                          !.subs = @ \cup {task[r].sub}, !.ahead = @ \cup {task[r].sub}]
           h == [owner |-> reg, sub |-> task[r].sub]
<1>1. /\ pc[r] = "reopen" /\ task[r].owner = reg /\ r \in v.roster /\ r \in Procs
      /\ task[r].sub \in Subs /\ task[r].sub[1] = r /\ reg \in Owners
      /\ v \in Record /\ v.th = "finished"
      /\ task[r].width \in Widths \cup {0}
      /\ UNCHANGED <<reg, drained, failed, lost, calm>> /\ spoiled' = spoiled \ {task[r].sub}
  BY SentinelAssumption DEF Respawn, IInv, TypeOK, TasksInv, Procs, Task
<1>2. owner' = [owner EXCEPT ![reg] = w] /\ handle' = [handle EXCEPT ![r] = h]
  BY <1>1 DEF Respawn
<1>3. w \in Record
  BY <1>1 DEF Record
<1>4. w.th = "starting" /\ ~w.reopening /\ w.roster = v.roster
  BY <1>1 DEF Record
<1>5. h \in Handles /\ h.owner = reg /\ h.sub[1] = r
  BY <1>1 DEF Handles
<1> HIDE DEF w, h
<1>6. /\ owner' \in [Owners -> Record] /\ owner'[reg] = w
      /\ \A u \in Owners \ {reg} : owner'[u] = owner[u]
      /\ handle' \in [Routes -> Handles \cup {NoHandle}] /\ handle'[r] = h
      /\ \A q \in Routes \ {r} : handle'[q] = handle[q]
  BY <1>1, <1>2, <1>3, <1>5 DEF IInv, TypeOK
<1>7. /\ pc' = [pc EXCEPT ![r] = "commit"] /\ task' = [task EXCEPT ![r] = NoTask]
      /\ NoTask \in Task /\ NoTask.owner = NoOwner
  BY DEF Respawn, NoTask, Task
<1>8. /\ pc' \in [Procs -> {"idle", "reopen", "commit", "join", "take", "drain"}] /\ task' \in [Procs -> Task]
      /\ pc'[r] = "commit" /\ task'[r].owner = NoOwner
      /\ \A p \in Procs \ {r} : pc'[p] = pc[p] /\ task'[p] = task[p] /\ pc[p] # "reopen"
  BY <1>1, <1>7 DEF IInv, TypeOK, TasksInv
<1>9. TypeOK'
  BY <1>1, <1>4, <1>6, <1>8 DEF IInv, TypeOK
<1>10. TasksInv'
  <2>1. \A p \in Procs : task[p].owner \in Owners \cup {NoOwner}
    BY DEF IInv, TypeOK, Task
  <2> QED BY <1>1, <1>4, <1>6, <1>8, <2>1 DEF IInv, TasksInv
<1>11. OwnersInv'
  BY <1>1, <1>4, <1>6 DEF IInv, TypeOK, OwnersInv
<1>12. HandlesInv'
  BY <1>1, <1>4, <1>5, <1>6, <1>8, SentinelAssumption DEF IInv, TypeOK, HandlesInv, Handles, Procs
<1>13. RosterHeld'
  <2>1. h # NoHandle
    BY <1>5, SentinelAssumption
  <2>2. v.roster \subseteq Routes
    BY <1>1 DEF Record
  <2> QED BY <1>1, <1>4, <1>5, <1>6, <1>8, <2>1, <2>2 DEF IInv, RosterHeld, Procs
<1>14. NobodysDevice'
  BY <1>1, <1>4, <1>6, <1>8 DEF IInv, NobodysDevice
<1> QED BY <1>9, <1>10, <1>11, <1>12, <1>13, <1>14 DEF IInv

LEMMA CommitInv == ASSUME IInv, NEW r \in Routes, Commit(r) PROVE IInv'
<1>1. /\ pc[r] = "commit" /\ pc' = [pc EXCEPT ![r] = "idle"]
      /\ UNCHANGED <<reg, owner, handle, drained, failed, task, lost, spoiled, calm>>
  BY DEF Commit, astray
<1>2. TasksInv' /\ pc' \in [Procs -> {"idle", "reopen", "commit", "join", "take", "drain"}]
      /\ pc'[r] = "idle" /\ \A p \in Procs \ {r} : pc'[p] = pc[p]
  BY <1>1, TasksMoved
<1>3. TypeOK' /\ HandlesInv' /\ RosterHeld'
  BY <1>1, <1>2 DEF IInv, TypeOK, HandlesInv, RosterHeld, Procs
<1>4. OwnersInv' /\ NobodysDevice'
  BY <1>1, <1>2 DEF IInv, OwnersInv, NobodysDevice, RegistryFree
<1> QED BY <1>2, <1>3, <1>4 DEF IInv

\* The subscription stays on the device, and is written down as lost.
LEMMA LoseHandleInv == ASSUME IInv, NEW r \in Routes, LoseHandle(r) PROVE IInv'
<1>1. /\ pc[r] = "commit" /\ pc' = [pc EXCEPT ![r] = "idle"]
      /\ UNCHANGED <<reg, owner, drained, task, spoiled, calm>>
      /\ failed' = failed \ {handle[r].sub}
      /\ lost' = IF handle[r].owner = reg THEN lost \cup {handle[r].sub} ELSE lost
  BY DEF LoseHandle
<1>2. /\ handle[r] \in Handles /\ handle[r].sub \in Subs /\ handle[r].sub[1] = r
      /\ handle' \in [Routes -> Handles \cup {NoHandle}] /\ handle'[r] = NoHandle
      /\ \A q \in Routes \ {r} : handle'[q] = handle[q]
  BY <1>1 DEF LoseHandle, IInv, TypeOK, HandlesInv, Handles
<1>3. TasksInv' /\ pc' \in [Procs -> {"idle", "reopen", "commit", "join", "take", "drain"}]
      /\ pc'[r] = "idle" /\ \A p \in Procs \ {r} : pc'[p] = pc[p]
  BY <1>1, TasksMoved
<1>4. TypeOK'
  BY <1>1, <1>2, <1>3 DEF IInv, TypeOK
<1>5. HandlesInv'
  BY <1>1, <1>2, <1>3 DEF IInv, HandlesInv, Procs
<1>6. RosterHeld'
  BY <1>1, <1>2 DEF IInv, RosterHeld, TypeOK, Record
<1>7. OwnersInv' /\ NobodysDevice'
  BY <1>1, <1>3 DEF IInv, OwnersInv, NobodysDevice, RegistryFree
<1> QED BY <1>3, <1>4, <1>5, <1>6, <1>7 DEF IInv

-----------------------------------------------------------------------------
(* unsubscribe                                                             *)

\* The route leaves the roster and nobody else does; if it was the last, the
\* registry lets go of the owner and the caller waits for its thread.
LEMMA WithdrawInv ==
  ASSUME IInv, RegistryFree, NEW p \in Procs, pc[p] \in {"idle", "drain"},
         NEW r \in Routes, Withdraw(p, r), calm' = calm,
         handle' \in [Routes -> Handles \cup {NoHandle}],
         drained' \subseteq Handles, failed' \subseteq Subs,
         \A q \in Routes : handle'[q] = handle[q] \/ (handle'[q] = NoHandle /\ q = p),
         \A q \in Routes \ {r} : handle'[q] = handle[q],
         \A h \in drained : h.sub[1] = r \/ h \in drained'
  PROVE  IInv'
<1>1. CASE reg = NoOwner
  <2>1. UNCHANGED <<reg, owner, pc, task, lost, spoiled>>
    BY <1>1 DEF Withdraw, astray
  <2>2. TypeOK' /\ TasksInv'
    BY <2>1, FreeIs, TasksKept DEF IInv, TypeOK
  <2>3. OwnersInv' /\ RosterHeld' /\ NobodysDevice'
    BY <1>1, <2>1 DEF IInv, OwnersInv, RosterHeld, NobodysDevice, RegistryFree
  <2>4. HandlesInv'
    BY <2>1 DEF IInv, HandlesInv
  <2> QED BY <2>2, <2>3, <2>4 DEF IInv
<1>2. CASE reg # NoOwner /\ owner[reg].roster \ {r} # {}
  <2> DEFINE v == owner[reg]
             w == [v EXCEPT !.roster = @ \ {r}, !.ahead = Removed(reg, r)]
  <2>1. reg \in Owners /\ v \in Record /\ v.th # "none" /\ ~v.reopening
    BY <1>2, FreeIs DEF IInv, TypeOK
  <2>2. owner' = [owner EXCEPT ![reg] = w] /\ UNCHANGED <<reg, pc, task>> /\ Straighten(p, r)
    BY <1>2, <2>1 DEF Withdraw, IInv, TypeOK
  <2>3. Removed(reg, r) \subseteq Subs /\ (~HasReceiver(reg) => Removed(reg, r) = v.ahead)
    BY <2>1, AheadIs DEF IInv, TypeOK, Removed, Record
  <2>4. w \in Record
    BY <2>1, <2>3 DEF Record
  <2>5. /\ w.th = v.th /\ w.reopening = v.reopening /\ w.stop = v.stop /\ w.fault = v.fault
        /\ w.roster = v.roster \ {r} /\ w.roster # {} /\ w.subs = v.subs
        /\ w.th \notin {"starting", "running"} => w.ahead = v.ahead
    BY <1>2, <2>1, <2>3 DEF Record, HasReceiver
  <2> HIDE DEF w
  <2>6. /\ owner' \in [Owners -> Record] /\ owner'[reg] = w
        /\ \A u \in Owners \ {reg} : owner'[u] = owner[u]
    BY <2>1, <2>2, <2>4 DEF IInv, TypeOK
  <2>7. /\ lost' = {t \in lost : t[1] # r} /\ spoiled' \subseteq Subs
    BY <2>1, <2>2 DEF Straighten, IInv, TypeOK
  <2>8. TypeOK'
    BY <2>1, <2>2, <2>5, <2>6, <2>7 DEF IInv, TypeOK
  <2>9. TasksInv'
    BY <2>1, <2>2, <2>5, <2>6, TasksKept
  <2>10. OwnersInv'
    BY <2>1, <2>2, <2>5, <2>6, FreeIs DEF IInv, OwnersInv
  <2>11. HandlesInv'
    BY <2>1, <2>2, <2>5, <2>6 DEF IInv, TypeOK, HandlesInv, Handles
  <2>12. RosterHeld'
    <3>1. v.roster \subseteq Routes
      BY <2>1 DEF Record
    <3> QED BY <1>2, <2>1, <2>2, <2>5, <2>6, <2>7, <3>1 DEF IInv, RosterHeld
  <2>13. NobodysDevice'
    BY <2>1, <2>2, <2>5, <2>6 DEF IInv, NobodysDevice
  <2> QED BY <2>8, <2>9, <2>10, <2>11, <2>12, <2>13 DEF IInv
<1>3. CASE reg # NoOwner /\ owner[reg].roster \ {r} = {}
  <2> DEFINE v == Discarded[reg]
             w == [v EXCEPT !.stop = TRUE]
             job == [NoTask EXCEPT !.owner = reg]
  <2>1. /\ reg \in Owners /\ owner[reg].th # "none" /\ owner \in [Owners -> Record]
    BY <1>3 DEF IInv, TypeOK
  <2>2. /\ owner' = [Discarded EXCEPT ![reg] = w] /\ reg' = NoOwner
        /\ lost' = {} /\ spoiled' = {}
        /\ pc' = [pc EXCEPT ![p] = "join"] /\ task' = [task EXCEPT ![p] = job]
    BY <1>3, <2>1, DiscardedIs DEF Withdraw
  <2>3. v \in Record /\ v.th = owner[reg].th /\ ~v.reopening /\ v.ahead = v.subs
    BY <2>1, DiscardedIs
  <2>4. w \in Record /\ w.th = owner[reg].th /\ ~w.reopening /\ w.stop /\ w.ahead = w.subs
    BY <2>3 DEF Record
  <2>5. job \in Task /\ job.owner = reg
    BY <2>1 DEF NoTask, Task
  <2> HIDE DEF w, job
  <2>6. /\ owner' \in [Owners -> Record] /\ owner'[reg] = w
        /\ \A u \in Owners \ {reg} : owner'[u] = owner[u]
    BY <2>1, <2>2, <2>4, DiscardedIs
  <2>7. /\ pc' \in [Procs -> {"idle", "reopen", "commit", "join", "take", "drain"}]
        /\ task' \in [Procs -> Task]
        /\ pc'[p] = "join" /\ task'[p].owner = reg
        /\ \A q \in Procs \ {p} : pc'[q] = pc[q] /\ task'[q] = task[q]
    BY <2>2, <2>5 DEF IInv, TypeOK
  <2>8. TypeOK'
    BY <2>1, <2>2, <2>4, <2>6, <2>7, FreeIs DEF IInv, TypeOK
  <2>9. TasksInv'
    <3>1. \A q \in Procs : task[q].owner \in Owners \cup {NoOwner} /\ pc[q] # "reopen"
      BY DEF IInv, TypeOK, Task, RegistryFree
    <3>2. \A o \in Owners : owner[o].th # "none" => owner'[o].th # "none"
      BY <2>1, <2>4, <2>6
    <3>3. \A q \in Procs : pc'[q] # "reopen"
      BY <2>7, <3>1
    <3>4. \A q \in Procs : /\ pc'[q] = "join" <=> task'[q].owner # NoOwner
                           /\ task'[q].owner # NoOwner => owner'[task'[q].owner].th # "none"
      <4> TAKE q \in Procs
      <4>1. CASE q = p
        BY <1>3, <2>1, <2>7, <3>2, <4>1
      <4>2. CASE q # p
        BY <2>7, <3>1, <3>2, <4>2 DEF IInv, TasksInv
      <4> QED BY <4>1, <4>2
    <3> QED BY <1>3, <2>2, <2>7, <3>3, <3>4, SentinelAssumption DEF TasksInv
  <2>10. OwnersInv'
    BY <2>1, <2>4, <2>6, FreeIs DEF IInv, OwnersInv
  <2>11. HandlesInv'
    BY <2>1, <2>4, <2>6, <2>7 DEF IInv, TypeOK, HandlesInv, Handles, Procs
  <2>12. RosterHeld'
    BY <2>2 DEF RosterHeld
  <2>13. NobodysDevice'
    BY <2>1, <2>2, <2>4, <2>6, <2>7 DEF IInv, NobodysDevice
  <2> QED BY <2>8, <2>9, <2>10, <2>11, <2>12, <2>13 DEF IInv
<1> QED BY <1>1, <1>2, <1>3

LEMMA UnsubscribeInv == ASSUME IInv, NEW r \in Routes, Unsubscribe(r) PROVE IInv'
<1>1. /\ RegistryFree /\ r \in Procs /\ pc[r] \in {"idle", "drain"} /\ Withdraw(r, r)
      /\ calm' = calm /\ drained' = drained
      /\ handle' = [handle EXCEPT ![r] = NoHandle]
  BY DEF Unsubscribe, Procs
<1>2. failed' \subseteq Subs /\ drained' \subseteq Handles
  BY <1>1 DEF Unsubscribe, IInv, TypeOK
<1>3. /\ handle' \in [Routes -> Handles \cup {NoHandle}]
      /\ \A q \in Routes : handle'[q] = handle[q] \/ (handle'[q] = NoHandle /\ q = r)
      /\ \A q \in Routes \ {r} : handle'[q] = handle[q]
  BY <1>1 DEF IInv, TypeOK
<1> QED BY <1>1, <1>2, <1>3, WithdrawInv

LEMMA UnsubscribeDrainedInv ==
  ASSUME IInv, NEW p \in Drainers, UnsubscribeDrained(p) PROVE IInv'
<1>1. PICK h \in drained : Withdraw(p, h.sub[1]) /\ drained' = drained \ {h}
  BY DEF UnsubscribeDrained
<1>2. h.sub[1] \in Routes
  BY DEF IInv, TypeOK, Handles, Subs
<1>3. RegistryFree /\ p \in Procs /\ pc[p] \in {"idle", "drain"} /\ UNCHANGED <<handle, failed, calm>>
  BY DEF UnsubscribeDrained, Procs
<1>4. /\ handle' \in [Routes -> Handles \cup {NoHandle}]
      /\ drained' \subseteq Handles /\ failed' \subseteq Subs
  BY <1>1, <1>3 DEF IInv, TypeOK
<1> QED BY <1>1, <1>2, <1>3, <1>4, WithdrawInv

LEMMA JoinInv == ASSUME IInv, NEW p \in Procs, Join(p) PROVE IInv'
<1>1. /\ UNCHANGED <<reg, owner, handle, drained, failed, lost, spoiled, calm>>
      /\ pc[p] = "join" /\ owner[task[p].owner].th = "finished" /\ task[p].owner # reg
      /\ task' = [task EXCEPT ![p] = NoTask]
      /\ NoTask \in Task /\ NoTask.owner = NoOwner
  BY DEF Join, IInv, TasksInv, NoTask, Task, astray
<1>2. /\ pc' \in [Procs -> {"idle", "reopen", "commit", "join", "take", "drain"}] /\ task' \in [Procs -> Task]
      /\ pc'[p] \in {"idle", "drain"} /\ task'[p].owner = NoOwner
      /\ \A q \in Procs \ {p} : pc'[q] = pc[q] /\ task'[q] = task[q]
  BY <1>1 DEF Join, IInv, TypeOK
<1>3. TypeOK' /\ HandlesInv'
  BY <1>1, <1>2 DEF IInv, TypeOK, HandlesInv, Procs
<1>4. TasksInv'
  BY <1>1, <1>2 DEF IInv, TasksInv
<1>5. OwnersInv'
  BY <1>1, <1>2 DEF IInv, OwnersInv, RegistryFree
<1>6. RosterHeld'
  <2>1. reg # NoOwner => owner[reg].roster \subseteq Routes
    BY DEF IInv, TypeOK, Record
  <2> QED BY <1>1, <1>2, <2>1 DEF IInv, RosterHeld, Procs
<1>7. NobodysDevice'
  BY <1>1, <1>2 DEF IInv, NobodysDevice
<1> QED BY <1>3, <1>4, <1>5, <1>6, <1>7 DEF IInv

-----------------------------------------------------------------------------
(* The jobs of the pool                                                    *)

\* A step of a drain that waits for nothing.
LEMMA DrainerKept ==
  ASSUME IInv, NEW p \in Drainers, pc[p] \in {"idle", "take", "drain"},
         NEW where \in {"idle", "take", "drain"}, pc' = [pc EXCEPT ![p] = where],
         UNCHANGED <<reg, task>>
  PROVE  /\ pc' \in [Procs -> {"idle", "reopen", "commit", "join", "take", "drain"}]
         /\ \A q \in Procs : pc[q] \in {"join", "reopen"} \/ pc'[q] \in {"join", "reopen"}
                             => pc'[q] = pc[q]
         /\ \A q \in Procs \ {p} : pc'[q] = pc[q]
  BY DEF IInv, TypeOK, Procs

LEMMA RequestStopAllInv ==
  ASSUME IInv, NEW p \in Drainers, RequestStopAll(p) PROVE IInv'
<1>1. /\ pc' \in [Procs -> {"idle", "reopen", "commit", "join", "take", "drain"}]
      /\ \A q \in Procs : pc[q] \in {"join", "reopen"} \/ pc'[q] \in {"join", "reopen"}
                          => pc'[q] = pc[q]
      /\ \A q \in Procs \ {p} : pc'[q] = pc[q]
  BY DrainerKept DEF RequestStopAll, IInv, TypeOK
<1>2. UNCHANGED <<reg, handle, drained, failed, task, lost, spoiled, calm>> /\ p \notin Routes
  BY SentinelAssumption DEF RequestStopAll, astray
<1>3. /\ owner' \in [Owners -> Record]
      /\ \A o \in Owners : /\ owner'[o].th = owner[o].th /\ owner'[o].reopening = owner[o].reopening
                           /\ owner'[o].roster = owner[o].roster /\ owner'[o].ahead = owner[o].ahead /\ owner'[o].subs = owner[o].subs
                           /\ owner'[o].fault = owner[o].fault
                           /\ owner[o].stop => owner'[o].stop
  <2>1. \A v \in Record : [v EXCEPT !.stop = TRUE] \in Record
    BY DEF Record
  <2>2. \A o \in Owners : owner[o] \in Record /\ owner'[o] \in {owner[o], [owner[o] EXCEPT !.stop = TRUE]}
    BY DEF RequestStopAll, IInv, TypeOK
  <2>3. owner' \in [Owners -> Record]
    BY <2>1, <2>2 DEF RequestStopAll
  <2>4. ASSUME NEW o \in Owners
        PROVE  /\ owner'[o].th = owner[o].th /\ owner'[o].reopening = owner[o].reopening
               /\ owner'[o].roster = owner[o].roster /\ owner'[o].ahead = owner[o].ahead /\ owner'[o].subs = owner[o].subs
               /\ owner'[o].fault = owner[o].fault
               /\ owner[o].stop => owner'[o].stop
    <3>1. CASE owner'[o] = owner[o]
      BY <3>1
    <3>2. CASE owner'[o] = [owner[o] EXCEPT !.stop = TRUE]
      <4>1. PICK v \in Record : v = owner[o]
        BY <2>2
      <4>2. owner'[o] = [v EXCEPT !.stop = TRUE]
        BY <3>2, <4>1
      <4>3. owner'[o].stop = TRUE
        BY <4>2 DEF Record
      <4> QED BY <4>1, <4>2, <4>3 DEF Record
    <3> QED BY <2>2, <3>1, <3>2
  <2> QED BY <2>3, <2>4
<1>4. TypeOK'
  BY <1>1, <1>2, <1>3 DEF IInv, TypeOK
<1>5. TasksInv'
  <2>1. \A q \in Procs : task[q].owner \in Owners \cup {NoOwner}
    BY DEF IInv, TypeOK, Task
  <2> QED BY <1>1, <1>2, <1>3, <2>1 DEF IInv, TypeOK, TasksInv
<1>6. OwnersInv' /\ HandlesInv'
  BY <1>1, <1>2, <1>3 DEF IInv, TypeOK, OwnersInv, HandlesInv, RegistryFree, Handles, Procs
<1>7. RosterHeld' /\ NobodysDevice'
  BY <1>1, <1>2, <1>3 DEF IInv, TypeOK, RosterHeld, NobodysDevice
<1> QED BY <1>4, <1>5, <1>6, <1>7 DEF IInv

LEMMA TakeInv == ASSUME IInv, NEW p \in Drainers, Take(p) PROVE IInv'
<1> DEFINE found == {r \in Routes : handle[r] # NoHandle /\ pc[r] # "commit"}
<1>1. /\ pc' \in [Procs -> {"idle", "reopen", "commit", "join", "take", "drain"}]
      /\ \A q \in Procs : pc[q] \in {"join", "reopen"} \/ pc'[q] \in {"join", "reopen"}
                          => pc'[q] = pc[q]
      /\ \A q \in Procs \ {p} : pc'[q] = pc[q]
  BY DrainerKept DEF Take
<1>2. /\ UNCHANGED <<reg, owner, task, lost, spoiled, calm>> /\ failed' \subseteq failed
      /\ \A r \in Routes : handle'[r] = IF r \in found THEN NoHandle ELSE handle[r]
      /\ handle' \in [Routes -> Handles \cup {NoHandle}] /\ p \notin Routes
  BY SentinelAssumption DEF Take, astray, IInv, TypeOK
<1>3. /\ drained' \subseteq Handles /\ drained \subseteq drained'
      /\ \A r \in found : handle[r] \in drained'
  BY DEF Take, IInv, TypeOK
<1>4. TypeOK'
  BY <1>1, <1>2, <1>3 DEF IInv, TypeOK
<1>5. HandlesInv'
  BY <1>1, <1>2 DEF IInv, HandlesInv, Procs
<1>6. TasksInv' /\ OwnersInv'
  BY <1>1, <1>2 DEF IInv, TasksInv, OwnersInv, RegistryFree
<1>7. RosterHeld'
  <2>1. reg # NoOwner => owner[reg].roster \subseteq Routes
    BY DEF IInv, TypeOK, Record
  <2> QED BY <1>2, <1>3, <2>1 DEF IInv, HandlesInv, RosterHeld
<1>8. NobodysDevice'
  BY <1>1, <1>2 DEF IInv, NobodysDevice
<1> QED BY <1>4, <1>5, <1>6, <1>7, <1>8 DEF IInv

LEMMA DrainEndsInv == ASSUME IInv, NEW p \in Drainers, DrainEnds(p) PROVE IInv'
<1>1. /\ pc' \in [Procs -> {"idle", "reopen", "commit", "join", "take", "drain"}]
      /\ \A q \in Procs : pc[q] \in {"join", "reopen"} \/ pc'[q] \in {"join", "reopen"}
                          => pc'[q] = pc[q]
      /\ \A q \in Procs \ {p} : pc'[q] = pc[q]
  BY DrainerKept DEF DrainEnds, IInv, TypeOK
<1>2. UNCHANGED <<reg, owner, handle, drained, failed, task, lost, spoiled, calm>> /\ p \notin Routes
  BY SentinelAssumption DEF DrainEnds, astray
<1>3. TypeOK' /\ HandlesInv' /\ RosterHeld'
  BY <1>1, <1>2 DEF IInv, TypeOK, HandlesInv, RosterHeld, Procs
<1>4. TasksInv' /\ OwnersInv' /\ NobodysDevice'
  BY <1>1, <1>2 DEF IInv, TasksInv, OwnersInv, NobodysDevice, RegistryFree
<1> QED BY <1>3, <1>4 DEF IInv

\* The pool has the handle now.
LEMMA HangsUpInv ==
  ASSUME IInv, NEW r \in Routes, NEW d \in Drainers, HangsUp(r, d) PROVE IInv'
<1>1. /\ UNCHANGED <<reg, owner, task, lost, spoiled, calm>> /\ failed' \subseteq failed
      /\ handle[r] # NoHandle /\ pc[r] = "idle" /\ d \notin Routes
      /\ drained' = drained \cup {handle[r]}
  BY SentinelAssumption DEF HangsUp, astray
<1>2. /\ pc' \in [Procs -> {"idle", "reopen", "commit", "join", "take", "drain"}]
      /\ \A q \in Procs : pc[q] \in {"join", "reopen"} \/ pc'[q] \in {"join", "reopen"}
                          => pc'[q] = pc[q]
      /\ \A q \in Procs \ {d} : pc'[q] = pc[q]
  BY <1>1, DrainerKept DEF HangsUp
<1>3. /\ handle[r] \in Handles /\ handle[r].sub[1] = r
      /\ handle' \in [Routes -> Handles \cup {NoHandle}] /\ handle'[r] = NoHandle
      /\ \A q \in Routes \ {r} : handle'[q] = handle[q]
  BY <1>1 DEF HangsUp, IInv, TypeOK, HandlesInv
<1>4. TypeOK'
  BY <1>1, <1>2, <1>3 DEF IInv, TypeOK
<1>5. HandlesInv'
  BY <1>1, <1>2, <1>3 DEF IInv, HandlesInv, Procs
<1>6. TasksInv' /\ OwnersInv'
  BY <1>1, <1>2 DEF IInv, TasksInv, OwnersInv, RegistryFree
<1>7. RosterHeld'
  <2>1. reg # NoOwner => owner[reg].roster \subseteq Routes
    BY DEF IInv, TypeOK, Record
  <2> QED BY <1>1, <1>3, <2>1 DEF IInv, RosterHeld
<1>8. NobodysDevice'
  BY <1>1, <1>2 DEF IInv, NobodysDevice
<1> QED BY <1>4, <1>5, <1>6, <1>7, <1>8 DEF IInv

\* It waits for the device in the route's stead.
LEMMA HangsUpJoiningInv ==
  ASSUME IInv, NEW r \in Routes, NEW d \in Drainers, HangsUpJoining(r, d) PROVE IInv'
<1>1. /\ UNCHANGED <<reg, owner, handle, drained, failed, lost, spoiled, calm>>
      /\ pc[r] = "join" /\ pc[d] = "idle" /\ r \in Procs /\ d \in Procs /\ r # d /\ d \notin Routes
      /\ NoTask \in Task /\ NoTask.owner = NoOwner
  BY SentinelAssumption DEF HangsUpJoining, astray, Procs, NoTask, Task
<1>2. /\ pc' \in [Procs -> {"idle", "reopen", "commit", "join", "take", "drain"}] /\ task' \in [Procs -> Task]
      /\ pc'[r] = "idle" /\ task'[r].owner = NoOwner /\ pc'[d] = "join" /\ task'[d] = task[r]
      /\ \A q \in Procs \ {r, d} : pc'[q] = pc[q] /\ task'[q] = task[q]
  BY <1>1 DEF HangsUpJoining, IInv, TypeOK
<1>3. TypeOK' /\ HandlesInv'
  BY <1>1, <1>2 DEF IInv, TypeOK, HandlesInv, Procs
<1>4. TasksInv'
  BY <1>1, <1>2 DEF IInv, TasksInv
<1>5. OwnersInv'
  BY <1>1, <1>2 DEF IInv, OwnersInv, RegistryFree
<1>6. RosterHeld'
  <2>1. reg # NoOwner => owner[reg].roster \subseteq Routes
    BY DEF IInv, TypeOK, Record
  <2>2. task[r].owner # reg
    BY <1>1 DEF IInv, TasksInv
  <2> QED BY <1>1, <1>2, <2>1, <2>2 DEF IInv, RosterHeld, Procs
<1>7. NobodysDevice'
  BY <1>1, <1>2 DEF IInv, NobodysDevice
<1> QED BY <1>3, <1>4, <1>5, <1>6, <1>7 DEF IInv

-----------------------------------------------------------------------------
(* The theorems                                                            *)

LEMMA InitInv == Init => IInv
<1> SUFFICES ASSUME Init PROVE IInv
  OBVIOUS
<1>1. NoTask \in Task /\ NoTask.owner = NoOwner
  BY DEF NoTask, Task
<1>2. /\ \A o \in Owners : owner[o] = Nobody
      /\ Nobody.th = "none" /\ Nobody.ahead = Nobody.subs /\ ~Nobody.reopening
  BY DEF Init, Nobody
<1>3. owner \in [Owners -> Record]
  BY NobodyIs DEF Init
<1>4. \A p \in Procs : pc[p] = "idle" /\ task[p].owner = NoOwner
  BY <1>1 DEF Init
<1>5. TypeOK
  BY <1>1, <1>2, <1>3 DEF Init, TypeOK
<1>6. TasksInv
  BY <1>4 DEF TasksInv
<1>7. OwnersInv /\ HandlesInv /\ RosterHeld /\ NobodysDevice
  BY <1>2, <1>4 DEF Init, OwnersInv, HandlesInv, RosterHeld, NobodysDevice, Procs
<1> QED BY <1>5, <1>6, <1>7 DEF IInv

LEMMA NextInv == IInv /\ [Next]_vars => IInv'
<1> SUFFICES ASSUME IInv, [Next]_vars PROVE IInv'
  OBVIOUS
<1>1. ASSUME NEW r \in Routes, RouteStep(r) \/ SubscribeFails(r) \/ LoseHandle(r) PROVE IInv'
  BY <1>1, SubscribeInv, RespawnInv, CommitInv, UnsubscribeInv, SubscribeFailsInv, LoseHandleInv
  DEF RouteStep
<1>2. ASSUME NEW p \in Drainers, RequestStopAll(p) \/ DrainStep(p) PROVE IInv'
  BY <1>2, RequestStopAllInv, TakeInv, UnsubscribeDrainedInv, DrainEndsInv DEF DrainStep
<1>3. ASSUME NEW p \in Procs, Join(p) PROVE IInv'
  BY <1>3, JoinInv
<1>4. ASSUME NEW o \in Owners,
             \/ ThreadStep(o) \/ DeviceFails(o)
             \/ \E s \in owner[o].subs : SenderFails(o, s)
      PROVE  IInv'
  BY <1>4, ThreadInv, DropInv DEF ThreadStep
<1>5. ASSUME NEW r \in Routes, NEW d \in Drainers, HangsUp(r, d) \/ HangsUpJoining(r, d)
      PROVE  IInv'
  BY <1>5, HangsUpInv, HangsUpJoiningInv
<1>6. CASE UNCHANGED vars
  <2> USE <1>6 DEF vars, astray
  <2>1. TypeOK' /\ TasksInv'
    BY DEF IInv, TypeOK, TasksInv
  <2>2. OwnersInv' /\ HandlesInv' /\ RosterHeld' /\ NobodysDevice'
    BY DEF IInv, OwnersInv, HandlesInv, RosterHeld, NobodysDevice, RegistryFree
  <2> QED BY <2>1, <2>2 DEF IInv
<1> QED BY <1>1, <1>2, <1>3, <1>4, <1>5, <1>6 DEF Next

\* The inductive invariant: who waits for which thread, and who reopens what.
THEOREM Inductive == Spec => []IInv
  BY InitInv, NextInv, PTL DEF Spec

\* Every variable keeps its type; a thread that has left its loop takes no
\* more commands, and only the owner in the registry is ever reopened.
THEOREM TypeCorrect == Spec => []TypeOK
<1>1. IInv => TypeOK
  BY DEF IInv
<1> QED BY <1>1, Inductive, PTL

\* The roster names only routes that are on the device, are being taken off
\* it, are about to get it, or had their handle lost in a start that failed
\* (routing.rs 592-644): a join that fails and an unsubscribe take their name
\* back (capture.rs 527-532).
THEOREM RosterTrue == Spec => []RosterHeld
<1>1. IInv => RosterHeld
  BY DEF IInv
<1> QED BY <1>1, Inductive, PTL

\* An open device is in the registry, with routes or a stop, or somebody is
\* waiting for it to close: the last route out frees the card.
THEOREM DeviceFreed == Spec => []NobodysDevice
<1>1. IInv => NobodysDevice
  BY DEF IInv
<1> QED BY <1>1, Inductive, PTL

\* A route looks dead only if its device failed or was stopped: a reopen
\* never shows to the supervisor (capture.rs 223-228).
THEOREM FaultsOnly == Spec => []OnlyFaultsLookDead
<1>1. IInv => OnlyFaultsLookDead
  <2> SUFFICES ASSUME IInv, NEW r \in Routes, handle[r] # NoHandle, IsDead(handle[r].owner)
               PROVE  LET w == owner[handle[r].owner] IN w.fault \/ (w.stop /\ ~w.reopening)
    BY DEF OnlyFaultsLookDead
  <2>1. PICK o \in Owners : o = handle[r].owner
    BY DEF IInv, TypeOK, Handles
  <2>2. owner[o].th = "finished" /\ ~owner[o].reopening
    BY <2>1 DEF IInv, HandlesInv, IsDead
  <2> QED BY <2>1, <2>2 DEF IInv, OwnersInv
<1> QED BY <1>1, Inductive, PTL

-----------------------------------------------------------------------------
(* Who is fed                                                              *)

\* The owner has a thread that reads or is closing, or is going to have one
\* that takes over its list.
Kept(o) == ~IsDead(o)

\* Who waits in join has asked for the stop; who reopens is not on the device
\* yet.  Whoever the owner in the registry feeds, or is about to feed, is held
\* by somebody, or has gone astray.
LeaveInv ==
  /\ \A p \in Procs : pc[p] = "join" => owner[task[p].owner].stop
  /\ \A r \in Routes : pc[r] = "reopen" => handle[r] = NoHandle /\ owner[reg].reopening
  /\ reg # NoOwner /\ Kept(reg) => \A s \in owner[reg].ahead :
       \/ handle[s[1]] = [owner |-> reg, sub |-> s]
       \/ [owner |-> reg, sub |-> s] \in drained
       \/ s \in lost \cup spoiled

\* And it feeds, or is about to feed, every route that has not been told
\* otherwise and has not gone astray.
FeedInv ==
  reg # NoOwner /\ Kept(reg) =>
    \A r \in Routes :
      handle[r] # NoHandle /\ handle[r].owner = reg /\ handle[r].sub \notin failed =>
        handle[r].sub \in owner[reg].ahead \cup spoiled

FedInv == LeaveInv /\ FeedInv

\* Whoever reads, and has not been asked to stop, is in the registry.
LEMMA ReaderIs ==
  ASSUME IInv, LeaveInv, NEW o \in Owners, Reading(o)
  PROVE  o = reg /\ reg # NoOwner /\ Kept(reg)
BY SentinelAssumption DEF IInv, NobodysDevice, LeaveInv, Reading, Kept, IsDead

\* A handle that is its owner's and its subscription's is not the sentinel.
LEMMA HandleIs == \A o \in Owners, s \in Subs : [owner |-> o, sub |-> s] # NoHandle
BY SentinelAssumption DEF Handles

\* Who joins goes on joining an owner that has been stopped.
LEMMA JoinsKept ==
  ASSUME IInv, LeaveInv,
         \A p \in Procs : pc'[p] = "join" => pc[p] = "join" /\ task'[p] = task[p],
         \A o \in Owners : (\E p \in Procs : task[p].owner = o) /\ owner[o].stop => owner'[o].stop
  PROVE  \A p \in Procs : pc'[p] = "join" => owner'[task'[p].owner].stop
<1> SUFFICES ASSUME NEW p \in Procs, pc'[p] = "join" PROVE owner'[task'[p].owner].stop
  OBVIOUS
<1>1. task'[p] = task[p] /\ owner[task[p].owner].stop /\ task[p].owner \in Owners
  BY DEF LeaveInv, IInv, TasksInv, TypeOK, Task
<1> QED BY <1>1

\* The list stays as it is, and handles leave their routes.
LEMMA ListKept ==
  ASSUME IInv, FedInv, reg' = reg,
         reg # NoOwner => /\ owner'[reg].th = owner[reg].th /\ owner'[reg].ahead = owner[reg].ahead
                          /\ owner'[reg].reopening = owner[reg].reopening,
         \A r \in Routes :
           \/ handle'[r] = handle[r]
           \/ /\ handle'[r] = NoHandle
              /\ handle[r].owner = reg => handle[r] \in drained' \/ handle[r].sub \in lost',
         drained \subseteq drained', lost \subseteq lost', spoiled' = spoiled,
         \A r \in Routes : handle'[r] # NoHandle /\ handle'[r].sub \in failed => handle'[r].sub \in failed',
         \A p \in Procs : pc'[p] = "join" => owner'[task'[p].owner].stop,
         \A r \in Routes : pc'[r] = "reopen" => handle'[r] = NoHandle /\ owner'[reg].reopening
  PROVE  FedInv'
<1>1. ASSUME reg # NoOwner, Kept(reg)', NEW s \in owner'[reg].ahead
      PROVE  \/ handle'[s[1]] = [owner |-> reg, sub |-> s]
             \/ [owner |-> reg, sub |-> s] \in drained'
             \/ s \in lost' \cup spoiled'
  <2>1. Kept(reg) /\ s \in owner[reg].ahead
    BY <1>1 DEF Kept, IsDead
  <2>2. s \in Subs /\ s[1] \in Routes
    BY <1>1, <2>1 DEF IInv, TypeOK, Record, Subs
  <2>3. \/ handle[s[1]] = [owner |-> reg, sub |-> s]
        \/ [owner |-> reg, sub |-> s] \in drained
        \/ s \in lost \cup spoiled
    BY <1>1, <2>1 DEF FedInv, LeaveInv
  <2> QED BY <2>2, <2>3
<1>2. LeaveInv'
  BY <1>1 DEF LeaveInv
<1>3. FeedInv'
  BY DEF FedInv, FeedInv, Kept, IsDead
<1> QED BY <1>2, <1>3 DEF FedInv

\* A step of a thread.
LEMMA ThreadFeeds ==
  ASSUME IInv, FedInv, NEW o \in Owners,
         \/ Open(o) \/ Iterate(o) \/ DeviceFails(o) \/ Finish(o)
         \/ \E s \in owner[o].subs : SenderFails(o, s)
  PROVE  FedInv'
<1>0. owner \in [Owners -> Record] /\ reg \in Owners \cup {NoOwner} /\ owner[o] \in Record
  BY DEF IInv, TypeOK
<1>1. PICK w \in Record : owner' = [owner EXCEPT ![o] = w] /\ After(o, w) /\ Lists(o, w)
  BY ThreadIs DEF IInv
<1>2. owner'[o] = w /\ \A u \in Owners \ {o} : owner'[u] = owner[u]
  BY <1>0, <1>1
<1>3. UNCHANGED <<reg, handle, drained, pc, task, lost, calm>>
  BY DEF Open, Iterate, DeviceFails, Finish, SenderFails, astray
<1>4. \A p \in Procs : pc'[p] = "join" => owner'[task'[p].owner].stop
  BY <1>1, <1>2, <1>3, JoinsKept DEF After, FedInv
<1>5. \A r \in Routes : pc'[r] = "reopen" => handle'[r] = NoHandle /\ owner'[reg].reopening
  <2> SUFFICES ASSUME NEW r \in Routes, pc[r] = "reopen"
               PROVE  handle[r] = NoHandle /\ owner'[reg].reopening
    BY <1>3
  <2>1. handle[r] = NoHandle /\ owner[reg].reopening /\ reg \in Owners
    BY SentinelAssumption DEF FedInv, LeaveInv, IInv, TypeOK, TasksInv, Task, Procs
  <2> QED BY <1>1, <1>2, <2>1 DEF After
<1>6. failed \subseteq failed' /\ spoiled \subseteq spoiled'
  BY <1>1 DEF Lists
<1>7. ASSUME reg # NoOwner, Kept(reg)'
      PROVE  /\ Kept(reg)
             /\ \A s \in owner'[reg].ahead : s \in owner[reg].ahead \/ s \in spoiled'
             /\ \A s \in owner[reg].ahead : \/ s \in owner'[reg].ahead \/ s \in spoiled'
                                            \/ Running(s) => s \in failed'
  <2>1. CASE reg # o
    BY <1>0, <1>2, <1>3, <1>7, <2>1 DEF Kept, IsDead
  <2>2. CASE reg = o
    <3>1. Kept(reg)
      BY <1>1, <2>2 DEF Kept, IsDead, After, Open, Iterate, DeviceFails, Finish, SenderFails
    <3>2. CASE w.ahead = owner[o].ahead
      BY <1>2, <2>2, <3>1, <3>2
    <3>3. CASE /\ w.ahead = owner[o].subs
               /\ spoiled' = spoiled \cup ((owner[o].ahead \ owner[o].subs) \cup (owner[o].subs \ owner[o].ahead))
      BY <1>2, <2>2, <3>1, <3>3
    <3>4. CASE \E s \in Subs : /\ w.ahead = owner[o].ahead \ {s}
                               /\ failed' = IF Running(s) THEN failed \cup {s} ELSE failed
      BY <1>2, <2>2, <3>1, <3>4
    <3> QED BY <1>1, <3>2, <3>3, <3>4 DEF Lists
  <2> QED BY <2>1, <2>2
<1>8. LeaveInv'
  BY <1>3, <1>4, <1>5, <1>6, <1>7 DEF FedInv, LeaveInv, Kept
<1>9. FeedInv'
  <2> SUFFICES ASSUME reg # NoOwner, Kept(reg)', NEW r \in Routes,
                      handle[r] # NoHandle, handle[r].owner = reg, handle[r].sub \notin failed'
               PROVE  handle[r].sub \in owner'[reg].ahead \cup spoiled'
    BY <1>3 DEF FeedInv, Kept
  <2>1. Running(handle[r].sub)
    BY DEF Running
  <2> QED BY <1>6, <1>7, <2>1 DEF FedInv, FeedInv
<1> QED BY <1>8, <1>9 DEF FedInv

\* Nothing is in the registry any more.
LEMMA NobodyReads ==
  ASSUME reg' = NoOwner,
         \A r \in Routes : pc'[r] # "reopen",
         \A p \in Procs : pc'[p] = "join" => owner'[task'[p].owner].stop
  PROVE  FedInv'
BY DEF FedInv, LeaveInv, FeedInv

LEMMA StartOwnerFeeds ==
  ASSUME IInv, FedInv, NEW r \in Routes, Subscribe(r), NEW s \in Subs, s[1] = r, NEW x \in Widths,
         StartOwner(r, s, x)
  PROVE  FedInv'
<1> DEFINE w == [Nobody EXCEPT !.th = "starting", !.width = x, !.roster = {r}, !.subs = {s},
                               !.ahead = {s}]
<1>1. PICK o \in Owners :
        /\ owner[o] = Nobody \/ (o = reg /\ ~InUse(o))
        /\ reg' = o
        /\ owner' = [Discarded EXCEPT ![o] = w]
        /\ handle' = [handle EXCEPT ![r] = [owner |-> o, sub |-> s]]
  BY DEF StartOwner
<1>2. w.ahead = {s}
  BY DEF Nobody
<1> HIDE DEF w
<1>3. owner \in [Owners -> Record] /\ RegistryFree /\ UNCHANGED <<task, drained, failed>>
  BY DEF IInv, TypeOK, Subscribe, StartOwner
<1>4. owner'[o] = w /\ \A u \in Owners \ {o} : owner'[u].stop = owner[u].stop
  BY <1>1, <1>3, DiscardedIs
<1>5. /\ \A q \in Routes : handle[q] # NoHandle => handle[q].owner # o
      /\ \A p \in Procs : task[p].owner # o
  BY <1>1, <1>3, FreshIs
<1>6. /\ handle'[r] = [owner |-> o, sub |-> s]
      /\ \A q \in Routes \ {r} : handle'[q] = handle[q]
  BY <1>1 DEF IInv, TypeOK
<1>7. \A p \in Procs : (pc'[p] = "join" => pc[p] = "join") /\ pc'[p] # "reopen"
  BY <1>3 DEF StartOwner, IInv, TypeOK, RegistryFree
<1>8. \A p \in Procs : pc'[p] = "join" => owner'[task'[p].owner].stop
  BY <1>3, <1>4, <1>5, <1>7, JoinsKept DEF FedInv
<1>9. LeaveInv'
  BY <1>1, <1>2, <1>4, <1>6, <1>7, <1>8 DEF LeaveInv, Procs
<1>10. FeedInv'
  BY <1>1, <1>2, <1>4, <1>5, <1>6 DEF FeedInv
<1> QED BY <1>9, <1>10 DEF FedInv

\* A route is given a handle on the registry's owner, and a place ahead.
LEMMA NewcomerFeeds ==
  ASSUME IInv, FedInv, NEW r \in Routes, NEW s \in Subs, s[1] = r, handle[r] = NoHandle,
         reg \in Owners, reg # NoOwner, Kept(reg), UNCHANGED <<reg, drained, failed, lost>>,
         owner'[reg].ahead = owner[reg].ahead \cup {s}, spoiled' = spoiled \ {s},
         handle'[r] = [owner |-> reg, sub |-> s],
         \A q \in Routes \ {r} : handle'[q] = handle[q],
         \A q \in Routes : pc'[q] # "reopen",
         \A p \in Procs : pc'[p] = "join" => owner'[task'[p].owner].stop
  PROVE  FedInv'
<1>0. owner[reg].ahead \subseteq Subs /\ \A t \in Subs : t[1] \in Routes
  BY DEF IInv, TypeOK, Record, Subs
<1>1. ASSUME NEW t \in owner'[reg].ahead
      PROVE  \/ handle'[t[1]] = [owner |-> reg, sub |-> t]
             \/ [owner |-> reg, sub |-> t] \in drained'
             \/ t \in lost' \cup spoiled'
  <2>1. CASE t = s
    BY <2>1
  <2>2. CASE t # s
    <3>1. t \in owner[reg].ahead /\ t \in Subs /\ t[1] \in Routes
      BY <1>0, <1>1, <2>2
    <3>2. \/ handle[t[1]] = [owner |-> reg, sub |-> t]
          \/ [owner |-> reg, sub |-> t] \in drained
          \/ t \in lost \cup spoiled
      BY <3>1 DEF FedInv, LeaveInv
    <3>3. handle[t[1]] = [owner |-> reg, sub |-> t] => t[1] # r
      BY <3>1, HandleIs
    <3> QED BY <2>2, <3>1, <3>2, <3>3
  <2> QED BY <2>1, <2>2
<1>2. LeaveInv'
  BY <1>1 DEF LeaveInv
<1>3. FeedInv'
  <2> SUFFICES ASSUME NEW q \in Routes, handle'[q] # NoHandle, handle'[q].owner = reg,
                      handle'[q].sub \notin failed
               PROVE  handle'[q].sub \in owner'[reg].ahead \cup spoiled'
    BY DEF FeedInv
  <2>1. CASE q = r
    BY <2>1
  <2>2. CASE q # r
    BY <2>2 DEF FedInv, FeedInv
  <2> QED BY <2>1, <2>2
<1> QED BY <1>2, <1>3 DEF FedInv

LEMMA JoinOwnerFeeds ==
  ASSUME IInv, FedInv, NEW r \in Routes, Subscribe(r), NEW s \in Subs, s[1] = r, NEW x \in Widths,
         JoinOwner(r, s, x)
  PROVE  FedInv'
<1>1. /\ UNCHANGED <<reg, task, drained, failed, lost>> /\ Usable /\ RegistryFree
      /\ handle[r] = NoHandle /\ reg \in Owners /\ owner[reg] \in Record /\ reg # NoOwner
      /\ owner \in [Owners -> Record] /\ pc \in [Procs -> {"idle", "reopen", "commit", "join", "take", "drain"}]
      /\ Routes \subseteq Procs /\ Kept(reg)
  BY DEF JoinOwner, Subscribe, Usable, IInv, TypeOK, Procs, Kept
<1>2. \A q \in Procs : pc'[q] # "reopen" /\ (pc'[q] = "join" => pc[q] = "join")
  BY <1>1 DEF JoinOwner, RegistryFree
<1>3. \A o \in Owners : owner'[o].stop = owner[o].stop
  BY <1>1 DEF JoinOwner, Record
<1>4. \A p \in Procs : pc'[p] = "join" => owner'[task'[p].owner].stop
  BY <1>1, <1>2, <1>3, JoinsKept DEF FedInv
<1>5. CASE HasReceiver(reg)
  <2>1. /\ owner'[reg].ahead = owner[reg].ahead \cup {s} /\ spoiled' = spoiled \ {s}
        /\ handle'[r] = [owner |-> reg, sub |-> s]
        /\ \A q \in Routes \ {r} : handle'[q] = handle[q]
    BY <1>1, <1>5 DEF JoinOwner, Added, IInv, TypeOK, Record
  <2> QED BY <1>1, <1>2, <1>4, <2>1, NewcomerFeeds
<1>6. CASE ~HasReceiver(reg)
  <2>1. /\ UNCHANGED <<handle, pc, spoiled>> /\ owner'[reg].ahead = owner[reg].ahead
        /\ owner'[reg].th = owner[reg].th /\ owner'[reg].reopening = owner[reg].reopening
    BY <1>1, <1>6 DEF JoinOwner, Record
  <2> QED BY <1>1, <1>2, <1>4, <2>1, ListKept
<1> QED BY <1>5, <1>6

LEMMA BeginReopenFeeds ==
  ASSUME IInv, FedInv, NEW r \in Routes, Subscribe(r), NEW s \in Subs, NEW x \in Widths,
         BeginReopen(r, s, x)
  PROVE  FedInv'
<1>1. /\ UNCHANGED <<reg, handle, drained, failed, lost, spoiled>> /\ reg # NoOwner /\ reg \in Owners
      /\ handle[r] = NoHandle /\ pc[r] = "idle" /\ r \in Procs /\ Routes \subseteq Procs
      /\ owner \in [Owners -> Record] /\ owner[reg] \in Record /\ Kept(reg)
  BY DEF BeginReopen, Subscribe, Usable, IInv, TypeOK, Procs, astray, Kept
<1>2. /\ owner'[reg].stop /\ owner'[reg].ahead = owner[reg].ahead
      /\ \A u \in Owners \ {reg} : owner'[u] = owner[u]
  BY <1>1 DEF BeginReopen, Record
<1>3. /\ \A p \in Procs : pc'[p] = "join" => pc[p] = "join" /\ task'[p] = task[p]
      /\ \A q \in Procs : pc'[q] = "reopen" => q = r
      /\ owner'[reg].reopening
  BY <1>1 DEF BeginReopen, Subscribe, RegistryFree, IInv, TypeOK, Record
<1>4. \A p \in Procs : pc'[p] = "join" => owner'[task'[p].owner].stop
  BY <1>2, <1>3, JoinsKept DEF FedInv
<1> QED BY <1>1, <1>2, <1>3, <1>4 DEF FedInv, LeaveInv, FeedInv

LEMMA SubscribeFeeds ==
  ASSUME IInv, FedInv, NEW r \in Routes, Subscribe(r)
  PROVE  FedInv'
<1>1. PICK s \in Subs, x \in Widths :
        s[1] = r /\ (StartOwner(r, s, x) \/ JoinOwner(r, s, x) \/ BeginReopen(r, s, x))
  BY DEF Subscribe
<1> QED BY <1>1, StartOwnerFeeds, JoinOwnerFeeds, BeginReopenFeeds

\* The new thread takes over what the old one fed, and the newcomer.
LEMMA RespawnFeeds ==
  ASSUME IInv, FedInv, NEW r \in Routes, Respawn(r)
  PROVE  FedInv'
<1>1. /\ UNCHANGED <<reg, drained, failed, lost>> /\ pc[r] = "reopen" /\ r \in Procs /\ Routes \subseteq Procs
      /\ task[r].owner = reg /\ reg \in Owners /\ reg # NoOwner
      /\ owner \in [Owners -> Record] /\ owner[reg] \in Record
      /\ task[r].sub \in Subs /\ task[r].sub[1] = r
      /\ handle[r] = NoHandle /\ owner[reg].reopening /\ spoiled' = spoiled \ {task[r].sub}
  BY SentinelAssumption DEF Respawn, IInv, TypeOK, TasksInv, Task, Procs, FedInv, LeaveInv
<1>2. Kept(reg)
  BY <1>1 DEF Kept, IsDead
<1>3. /\ owner'[reg].ahead = owner[reg].ahead \cup {task[r].sub}
      /\ \A u \in Owners \ {reg} : owner'[u] = owner[u]
      /\ handle'[r] = [owner |-> reg, sub |-> task[r].sub]
      /\ \A q \in Routes \ {r} : handle'[q] = handle[q]
  BY <1>1 DEF Respawn, IInv, TypeOK, Record
<1>4. /\ \A p \in Procs : pc'[p] = "join" => pc[p] = "join" /\ task'[p] = task[p]
      /\ \A q \in Procs : pc'[q] # "reopen"
  BY <1>1 DEF Respawn, IInv, TypeOK, TasksInv
<1>5. \A p \in Procs : pc'[p] = "join" => owner'[task'[p].owner].stop
  <2> SUFFICES ASSUME NEW p \in Procs, pc'[p] = "join" PROVE owner'[task'[p].owner].stop
    OBVIOUS
  <2>1. /\ task'[p] = task[p] /\ task[p].owner # reg /\ task[p].owner \in Owners
        /\ owner[task[p].owner].stop
    BY <1>4 DEF IInv, TasksInv, TypeOK, Task, FedInv, LeaveInv
  <2> QED BY <1>3, <2>1
<1> QED BY <1>1, <1>2, <1>3, <1>4, <1>5, NewcomerFeeds

\* A route is withdrawn by name: the list loses it, or is written down as
\* wrong about it.
LEMMA WithdrawFeeds ==
  ASSUME IInv, FedInv, RegistryFree, NEW p \in Procs, pc[p] \in {"idle", "drain"},
         NEW r \in Routes, Withdraw(p, r),
         \A q \in Routes \ {r} : handle'[q] = handle[q],
         \/ p \in Drainers /\ handle'[r] = handle[r]
         \/ p \notin Drainers /\ handle'[r] = NoHandle,
         \A h \in drained : h.sub[1] = r \/ h \in drained',
         \A q \in Routes : handle'[q] # NoHandle /\ handle'[q].sub \in failed => handle'[q].sub \in failed'
  PROVE  FedInv'
<1>0. /\ owner \in [Owners -> Record] /\ reg \in Owners \cup {NoOwner} /\ Routes \subseteq Procs
      /\ \A q \in Procs : pc[q] # "reopen"
  BY DEF IInv, TypeOK, Procs, RegistryFree
<1>1. CASE reg = NoOwner
  <2>1. UNCHANGED <<reg, owner, pc, task>>
    BY <1>1 DEF Withdraw
  <2> QED BY <1>0, <1>1, <2>1, NobodyReads DEF FedInv, LeaveInv
<1>2. CASE reg # NoOwner /\ owner[reg].roster \ {r} # {}
  <2> DEFINE mine == {s \in Subs : s[1] = r}
             used == {s \in mine : p \in Drainers /\ handle[r] = [owner |-> reg, sub |-> s]}
  <2>1. /\ UNCHANGED <<reg, pc, task>> /\ reg \in Owners /\ owner[reg] \in Record
        /\ owner' = [owner EXCEPT ![reg].roster = @ \ {r}, ![reg].ahead = Removed(reg, r)]
        /\ lost' = lost \ mine
        /\ spoiled' = IF HasReceiver(reg) THEN (spoiled \ mine) \cup used
                      ELSE spoiled \cup ((owner[reg].subs \cap mine) \ used)
    BY <1>0, <1>2 DEF Withdraw, Straighten
  <2>2. /\ owner'[reg].th = owner[reg].th /\ owner'[reg].reopening = owner[reg].reopening
        /\ owner'[reg].ahead = Removed(reg, r)
        /\ \A o \in Owners : owner'[o].stop = owner[o].stop
    BY <1>0, <2>1 DEF Record
  <2>3. \A q \in Procs : pc'[q] = "join" => owner'[task'[q].owner].stop
    BY <2>1, <2>2, JoinsKept DEF FedInv
  <2>4. owner[reg].ahead \subseteq Subs /\ (~HasReceiver(reg) => owner[reg].ahead = owner[reg].subs)
    BY <2>1 DEF IInv, TypeOK, Record, HasReceiver
  <2>5. ASSUME Kept(reg)', NEW t \in owner'[reg].ahead
        PROVE  \/ handle'[t[1]] = [owner |-> reg, sub |-> t]
               \/ [owner |-> reg, sub |-> t] \in drained'
               \/ t \in lost' \cup spoiled'
    <3>1. /\ Kept(reg) /\ t \in owner[reg].ahead /\ t \in Subs /\ t[1] \in Routes
          /\ HasReceiver(reg) => t[1] # r
      BY <2>1, <2>2, <2>4, <2>5 DEF Kept, IsDead, Removed, Subs
    <3>2. \/ handle[t[1]] = [owner |-> reg, sub |-> t]
          \/ [owner |-> reg, sub |-> t] \in drained
          \/ t \in lost \cup spoiled
      BY <1>2, <3>1 DEF FedInv, LeaveInv
    <3>3. CASE t[1] # r
      BY <2>1, <3>1, <3>2, <3>3
    <3>4. CASE t[1] = r
      <4>1. t \in spoiled' \/ t \in used
        BY <2>1, <2>4, <3>1, <3>4
      <4>2. t \in used => handle'[t[1]] = [owner |-> reg, sub |-> t]
        BY <3>4
      <4> QED BY <4>1, <4>2
    <3> QED BY <3>3, <3>4
  <2>6. LeaveInv'
    BY <1>0, <2>1, <2>3, <2>5 DEF LeaveInv
  <2>7. ASSUME Kept(reg)', NEW q \in Routes, handle'[q] # NoHandle, handle'[q].owner = reg,
               handle'[q].sub \notin failed'
        PROVE  handle'[q].sub \in owner'[reg].ahead \cup spoiled'
    <3>1. /\ handle[q] = handle'[q] /\ handle[q].sub \in Subs /\ handle[q].sub[1] = q
          /\ handle[q] = [owner |-> reg, sub |-> handle[q].sub]
      BY <2>7 DEF IInv, TypeOK, HandlesInv, Handles
    <3>2. handle[q].sub \in owner[reg].ahead \cup spoiled
      BY <1>2, <2>1, <2>2, <2>7, <3>1 DEF FedInv, FeedInv, Kept, IsDead
    <3>3. CASE q # r
      BY <2>1, <2>2, <3>1, <3>2, <3>3 DEF Removed
    <3>4. CASE q = r
      <4>1. handle[q].sub \in used
        BY <2>7, <3>1, <3>4
      <4> QED BY <2>1, <2>2, <3>1, <3>2, <4>1 DEF Removed
    <3> QED BY <3>3, <3>4
  <2>8. FeedInv'
    BY <2>1, <2>7 DEF FeedInv
  <2> QED BY <2>6, <2>8 DEF FedInv
<1>3. CASE reg # NoOwner /\ owner[reg].roster \ {r} = {}
  <2> DEFINE job == [NoTask EXCEPT !.owner = reg]
  <2>1. /\ reg' = NoOwner /\ reg \in Owners
        /\ owner' = [Discarded EXCEPT ![reg].stop = TRUE]
        /\ pc' = [pc EXCEPT ![p] = "join"] /\ task' = [task EXCEPT ![p] = job]
    BY <1>0, <1>3 DEF Withdraw
  <2>2. job.owner = reg
    BY DEF NoTask
  <2> HIDE DEF job
  <2>3. /\ owner'[reg].stop
        /\ \A u \in Owners \ {reg} : owner'[u] = owner[u]
    <3>1. Discarded \in [Owners -> Record] /\ \A u \in Owners \ {reg} : Discarded[u] = owner[u]
      BY <1>0, DiscardedIs
    <3> QED BY <2>1, <3>1 DEF Record
  <2>4. /\ pc'[p] = "join" /\ task'[p].owner = reg
        /\ \A q \in Procs \ {p} : pc'[q] = pc[q] /\ task'[q] = task[q]
    BY <2>1, <2>2 DEF IInv, TypeOK
  <2>5. ASSUME NEW q \in Procs, pc'[q] = "join" PROVE owner'[task'[q].owner].stop
    <3>1. CASE q = p
      BY <2>3, <2>4, <3>1
    <3>2. CASE q # p
      <4>1. task[q].owner \in Owners /\ owner[task[q].owner].stop /\ task'[q] = task[q]
        BY <2>4, <2>5, <3>2 DEF FedInv, LeaveInv, IInv, TypeOK, TasksInv, Task
      <4> QED BY <2>3, <4>1
    <3> QED BY <3>1, <3>2
  <2>6. \A q \in Routes : pc'[q] # "reopen"
    BY <1>0, <2>4
  <2> QED BY <2>1, <2>5, <2>6, NobodyReads
<1> QED BY <1>1, <1>2, <1>3

LEMMA UnsubscribeFeeds ==
  ASSUME IInv, FedInv, NEW r \in Routes, Unsubscribe(r)
  PROVE  FedInv'
<1>1. /\ handle'[r] = NoHandle /\ (\A q \in Routes \ {r} : handle'[q] = handle[q])
      /\ failed' = failed \ {handle[r].sub} /\ handle[r].sub[1] = r /\ drained' = drained
      /\ Withdraw(r, r) /\ pc[r] \in {"idle", "drain"} /\ RegistryFree /\ r \in Procs
  BY DEF IInv, TypeOK, HandlesInv, Unsubscribe, Procs
<1>2. \A q \in Routes : handle'[q] # NoHandle /\ handle'[q].sub \in failed => handle'[q].sub \in failed'
  BY <1>1 DEF IInv, HandlesInv
<1>3. r \notin Drainers
  BY SentinelAssumption
<1> QED BY <1>1, <1>2, <1>3, WithdrawFeeds

LEMMA UnsubscribeDrainedFeeds ==
  ASSUME IInv, FedInv, NEW p \in Drainers, UnsubscribeDrained(p)
  PROVE  FedInv'
<1>1. PICK h \in drained : Withdraw(p, h.sub[1]) /\ drained' = drained \ {h}
  BY DEF UnsubscribeDrained
<1>2. h.sub[1] \in Routes
  BY DEF IInv, TypeOK, Handles, Subs
<1>3. RegistryFree /\ p \in Procs /\ pc[p] \in {"idle", "drain"} /\ UNCHANGED <<handle, failed>>
  BY DEF UnsubscribeDrained, Procs
<1> QED BY <1>1, <1>2, <1>3, WithdrawFeeds

\* A handle leaves its route, which is told nothing any more.
LEMMA FailedKept ==
  ASSUME IInv,
         \A r \in Routes : handle'[r] = handle[r] \/ handle'[r] = NoHandle,
         \A s \in failed : \/ s \in failed'
                          \/ \E r \in Routes : /\ handle[r] # NoHandle /\ handle'[r] = NoHandle
                                              /\ s = handle[r].sub
  PROVE  \A r \in Routes : handle'[r] # NoHandle /\ handle'[r].sub \in failed => handle'[r].sub \in failed'
BY DEF IInv, HandlesInv

LEMMA LoseHandleFeeds ==
  ASSUME IInv, FedInv, NEW r \in Routes, LoseHandle(r)
  PROVE  FedInv'
<1>1. /\ UNCHANGED <<reg, owner, drained, task, spoiled>> /\ pc[r] = "commit" /\ Routes \subseteq Procs
      /\ handle[r] # NoHandle /\ failed' = failed \ {handle[r].sub}
      /\ handle'[r] = NoHandle /\ \A q \in Routes \ {r} : handle'[q] = handle[q]
      /\ lost \subseteq lost' /\ (handle[r].owner = reg => handle[r].sub \in lost')
  BY DEF LoseHandle, IInv, TypeOK, HandlesInv, Procs
<1>2. \A p \in Procs : pc'[p] \in {"join", "reopen"} => pc[p] = pc'[p]
  BY DEF LoseHandle, IInv, TypeOK
<1>3. \A q \in Routes : handle'[q] # NoHandle /\ handle'[q].sub \in failed => handle'[q].sub \in failed'
  BY <1>1, FailedKept
<1>4. \A p \in Procs : pc'[p] = "join" => owner'[task'[p].owner].stop
  BY <1>1, <1>2, JoinsKept DEF FedInv
<1>5. \A q \in Routes : pc'[q] = "reopen" => handle'[q] = NoHandle /\ owner'[reg].reopening
  BY <1>1, <1>2 DEF FedInv, LeaveInv
<1> QED BY <1>1, <1>3, <1>4, <1>5, ListKept

LEMMA HangsUpFeeds ==
  ASSUME IInv, FedInv, NEW r \in Routes, NEW d \in Drainers, HangsUp(r, d)
  PROVE  FedInv'
<1>1. /\ UNCHANGED <<reg, owner, lost, task, spoiled>> /\ Routes \subseteq Procs
      /\ handle[r] # NoHandle /\ failed' = failed \ {handle[r].sub}
      /\ handle'[r] = NoHandle /\ \A q \in Routes \ {r} : handle'[q] = handle[q]
      /\ drained \subseteq drained' /\ handle[r] \in drained'
  BY DEF HangsUp, astray, IInv, TypeOK, Procs
<1>2. \A p \in Procs : pc'[p] \in {"join", "reopen"} => pc[p] = pc'[p]
  BY DEF HangsUp, IInv, TypeOK
<1>3. \A q \in Routes : handle'[q] # NoHandle /\ handle'[q].sub \in failed => handle'[q].sub \in failed'
  BY <1>1, FailedKept
<1>4. \A p \in Procs : pc'[p] = "join" => owner'[task'[p].owner].stop
  BY <1>1, <1>2, JoinsKept DEF FedInv
<1>5. \A q \in Routes : pc'[q] = "reopen" => handle'[q] = NoHandle /\ owner'[reg].reopening
  BY <1>1, <1>2 DEF FedInv, LeaveInv
<1> QED BY <1>1, <1>3, <1>4, <1>5, ListKept

LEMMA TakeFeeds ==
  ASSUME IInv, FedInv, NEW p \in Drainers, Take(p)
  PROVE  FedInv'
<1> DEFINE found == {r \in Routes : handle[r] # NoHandle /\ pc[r] # "commit"}
<1>1. /\ UNCHANGED <<reg, owner, lost, task, spoiled>> /\ Routes \subseteq Procs
      /\ failed' = failed \ {handle[r].sub : r \in found}
      /\ \A r \in found : handle[r] # NoHandle /\ handle'[r] = NoHandle /\ handle[r] \in drained'
      /\ \A r \in Routes \ found : handle'[r] = handle[r]
      /\ drained \subseteq drained'
  BY DEF Take, astray, Procs
<1>2. \A q \in Procs : pc'[q] \in {"join", "reopen"} => pc[q] = pc'[q]
  BY DEF Take, IInv, TypeOK
<1>3. \A q \in Routes : handle'[q] # NoHandle /\ handle'[q].sub \in failed => handle'[q].sub \in failed'
  BY <1>1, FailedKept
<1>4. \A q \in Procs : pc'[q] = "join" => owner'[task'[q].owner].stop
  BY <1>1, <1>2, JoinsKept DEF FedInv
<1>5. \A q \in Routes : pc'[q] = "reopen" => handle'[q] = NoHandle /\ owner'[reg].reopening
  BY <1>1, <1>2 DEF FedInv, LeaveInv
<1>6. \A r \in Routes : r \in found \/ r \in Routes \ found
  OBVIOUS
<1> HIDE DEF found
<1> QED BY <1>1, <1>3, <1>4, <1>5, <1>6, ListKept

LEMMA RequestStopAllFeeds ==
  ASSUME IInv, FedInv, NEW p \in Drainers, RequestStopAll(p)
  PROVE  FedInv'
<1>1. /\ UNCHANGED <<reg, handle, drained, failed, lost, spoiled, task>> /\ Routes \subseteq Procs
      /\ \A q \in Procs : pc'[q] = "join" => pc[q] = "join"
      /\ \A q \in Procs : pc'[q] # "reopen"
  BY DEF RequestStopAll, RegistryFree, astray, IInv, TypeOK, Procs
<1>2. ASSUME NEW o \in Owners
      PROVE  /\ owner'[o].th = owner[o].th /\ owner'[o].ahead = owner[o].ahead
             /\ owner'[o].reopening = owner[o].reopening
             /\ owner[o].stop => owner'[o].stop
  <2>1. PICK v \in Record : v = owner[o]
    BY DEF IInv, TypeOK
  <2>2. owner'[o] \in {v, [v EXCEPT !.stop = TRUE]}
    BY <2>1 DEF RequestStopAll
  <2> QED BY <2>1, <2>2 DEF Record
<1>3. \A q \in Procs : pc'[q] = "join" => owner'[task'[q].owner].stop
  BY <1>1, <1>2, JoinsKept DEF FedInv
<1> QED BY <1>1, <1>2, <1>3, ListKept DEF IInv, TypeOK

\* A step that touches neither lists nor handles.
LEMMA BystandersFeed ==
  ASSUME IInv, FedInv, UNCHANGED <<reg, handle, drained, failed, lost, spoiled>>,
         \A o \in Owners : owner'[o] = owner[o] \/ (o # reg /\ \A p \in Procs : task'[p].owner # o),
         \A p \in Procs : pc'[p] = "join" => \E q \in Procs : pc[q] = "join" /\ task'[p] = task[q],
         \A p \in Procs : pc'[p] = "reopen" => pc[p] = "reopen"
  PROVE  FedInv'
<1>1. \A p \in Procs : pc'[p] = "join" => owner'[task'[p].owner].stop
  <2> SUFFICES ASSUME NEW p \in Procs, pc'[p] = "join" PROVE owner'[task'[p].owner].stop
    OBVIOUS
  <2>1. PICK q \in Procs : pc[q] = "join" /\ task'[p] = task[q]
    OBVIOUS
  <2>2. task[q].owner \in Owners /\ owner[task[q].owner].stop
    BY <2>1 DEF FedInv, LeaveInv, IInv, TypeOK, TasksInv, Task
  <2> QED BY <2>1, <2>2
<1>2. reg # NoOwner => owner'[reg] = owner[reg]
  BY DEF IInv, TypeOK
<1>3. \A r \in Routes : pc'[r] = "reopen" => handle'[r] = NoHandle /\ owner'[reg].reopening
  BY <1>2, SentinelAssumption DEF FedInv, LeaveInv, IInv, TypeOK, TasksInv, Task, Procs
<1> QED BY <1>1, <1>2, <1>3, ListKept

LEMMA OthersFeed ==
  ASSUME IInv, FedInv,
         \/ \E r \in Routes : Commit(r)
         \/ \E r \in Routes, d \in Drainers : HangsUpJoining(r, d)
         \/ \E p \in Drainers : DrainEnds(p)
         \/ \E p \in Procs : Join(p)
         \/ \E o \in Owners : Drop(o)
         \/ UNCHANGED vars
  PROVE  FedInv'
<1>0. pc \in [Procs -> {"idle", "reopen", "commit", "join", "take", "drain"}] /\ Routes \subseteq Procs
      /\ task \in [Procs -> Task] /\ Drainers \subseteq Procs
  BY DEF IInv, TypeOK, Procs
<1>1. UNCHANGED <<reg, handle, drained, failed, lost, spoiled>>
  BY DEF Commit, HangsUpJoining, DrainEnds, Join, Drop, vars, astray
<1>2. \A o \in Owners : owner'[o] = owner[o] \/ (o # reg /\ \A p \in Procs : task'[p].owner # o)
  BY DEF Commit, HangsUpJoining, DrainEnds, Join, Drop, vars, InUse, IInv, TypeOK
<1>3. \A p \in Procs : pc'[p] = "reopen" => pc[p] = "reopen"
  BY <1>0 DEF Commit, HangsUpJoining, DrainEnds, Join, Drop, vars
<1>4. \A p \in Procs : pc'[p] = "join" => \E q \in Procs : pc[q] = "join" /\ task'[p] = task[q]
  BY <1>0 DEF Commit, HangsUpJoining, DrainEnds, Join, Drop, vars
<1> QED BY <1>1, <1>2, <1>3, <1>4, BystandersFeed

LEMMA SubscribeFailsFeeds ==
  ASSUME IInv, FedInv, NEW r \in Routes, SubscribeFails(r)
  PROVE  FedInv'
<1>1. /\ reg' = NoOwner /\ UNCHANGED <<pc, task>> /\ owner' = Discarded
      /\ owner \in [Owners -> Record] /\ Routes \subseteq Procs
      /\ \A q \in Procs : pc[q] # "reopen"
  BY DEF SubscribeFails, RegistryFree, IInv, TypeOK, Procs
<1>2. \A o \in Owners : owner'[o].stop = owner[o].stop
  BY <1>1, DiscardedIs
<1>3. \A q \in Procs : pc'[q] = "join" => owner'[task'[q].owner].stop
  BY <1>1, <1>2, JoinsKept DEF FedInv
<1> QED BY <1>1, <1>3, NobodyReads

LEMMA NextFeeds == IInv /\ FedInv /\ [Next]_vars => FedInv'
<1> SUFFICES ASSUME IInv, FedInv, [Next]_vars PROVE FedInv'
  OBVIOUS
<1>1. ASSUME NEW r \in Routes, RouteStep(r) \/ SubscribeFails(r) \/ LoseHandle(r) PROVE FedInv'
  BY <1>1, SubscribeFeeds, RespawnFeeds, UnsubscribeFeeds, OthersFeed, SubscribeFailsFeeds,
     LoseHandleFeeds
  DEF RouteStep
<1>2. ASSUME NEW p \in Drainers, RequestStopAll(p) \/ DrainStep(p) PROVE FedInv'
  BY <1>2, RequestStopAllFeeds, TakeFeeds, UnsubscribeDrainedFeeds, OthersFeed DEF DrainStep
<1>3. ASSUME NEW p \in Procs, Join(p) PROVE FedInv'
  BY <1>3, OthersFeed
<1>4. ASSUME NEW o \in Owners,
             \/ ThreadStep(o) \/ DeviceFails(o)
             \/ \E s \in owner[o].subs : SenderFails(o, s)
      PROVE  FedInv'
  BY <1>4, ThreadFeeds, OthersFeed DEF ThreadStep
<1>5. ASSUME NEW r \in Routes, NEW d \in Drainers, HangsUp(r, d) \/ HangsUpJoining(r, d)
      PROVE  FedInv'
  BY <1>5, HangsUpFeeds, OthersFeed
<1>6. CASE UNCHANGED vars
  BY <1>6, OthersFeed
<1> QED BY <1>1, <1>2, <1>3, <1>4, <1>5, <1>6 DEF Next

\* The list the registry's thread goes by, and the one it is about to go by,
\* never name a subscription nobody holds, nor leave out one that looks alive,
\* but for those written down as lost or spoiled.
THEOREM Feeds == Spec => []FedInv
<1>1. Init => FedInv
  BY DEF Init, FedInv, LeaveInv, FeedInv, Procs
<1> QED BY <1>1, NextFeeds, Inductive, PTL DEF Spec

\* A route whose handle looks alive is on the list of the thread that reads
\* its device, or about to be, over any number of reopens, drains, failures of
\* the device, failed senders and dropped requests (capture.rs 112-121,
\* 337-338); but for one whose Add was lost in a reopen, and one that a late
\* unsubscribe met.
THEOREM HealthyIsServed == Spec => []Served
<1>1. IInv /\ FedInv => Served
  <2> SUFFICES ASSUME IInv, FedInv, NEW r \in Routes,
                      handle[r] # NoHandle, ~SendDead(handle[r]), Reading(handle[r].owner)
               PROVE  handle[r].sub \in owner[handle[r].owner].ahead \cup spoiled
    BY DEF Served
  <2>1. handle[r].owner \in Owners
    BY DEF IInv, TypeOK, Handles
  <2>2. handle[r].owner = reg /\ reg # NoOwner /\ Kept(reg)
    BY <2>1, ReaderIs DEF FedInv
  <2> QED BY <2>2 DEF FedInv, FeedInv, SendDead
<1> QED BY <1>1, Feeds, Inductive, PTL

\* A thread feeds no subscription whose route has left, nor does the thread
\* that takes its list over (capture.rs 567); but for one whose handle was lost
\* in a failed start, or whose Remove was, in a reopen.
THEOREM LeaversAreDropped == Spec => []NoZombie
<1>1. IInv /\ FedInv => NoZombie
  <2> SUFFICES ASSUME IInv, FedInv, NEW o \in Owners, Reading(o), NEW s \in owner[o].ahead
               PROVE  Held(s) \/ s \in lost \cup spoiled
    BY DEF NoZombie
  <2>1. o = reg /\ reg # NoOwner /\ Kept(reg)
    BY ReaderIs DEF FedInv
  <2>2. s \in Subs /\ s[1] \in Routes
    BY DEF IInv, TypeOK, Record, Subs
  <2>3. [owner |-> reg, sub |-> s] # NoHandle
    BY <2>1, <2>2, HandleIs
  <2>4. \/ handle[s[1]] = [owner |-> reg, sub |-> s]
        \/ [owner |-> reg, sub |-> s] \in drained
        \/ s \in lost \cup spoiled
    BY <2>1 DEF FedInv, LeaveInv
  <2> QED BY <2>2, <2>3, <2>4 DEF Held, Running
<1> QED BY <1>1, Feeds, Inductive, PTL
=============================================================================
