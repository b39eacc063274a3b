--------------------------- MODULE InterfaceChoice --------------------------
(***************************************************************************)
(* Which address an engine uses: iface.rs, the mDNS registration of        *)
(* discovery.rs, and the starts of senders that read the choice            *)
(* (routing.rs).                                                           *)
(*                                                                         *)
(* An operator pins an interface by name or leaves the choice to the       *)
(* engine; a reconciler looks every five seconds whether the address in    *)
(* use is still the one it should be.  Whoever changes the address writes  *)
(* it down, registers it with mDNS and stops every route, so that the      *)
(* supervisor starts it again with the new one.  Only the registration is  *)
(* under a lock.                                                           *)
(*                                                                         *)
(* Interfaces are numbered in the order of the system's enumeration.       *)
(* Loopback, link-local and IPv6 addresses count as none.  The save is one *)
(* step here (ConfigFile).  With an explicit --bind there is no            *)
(* reconciler; that case is left out.                                      *)
(***************************************************************************)
EXTENDS Naturals

CONSTANTS
  Nics,       (* how many interfaces                                       *)
  Addrs,
  Leases,     (* Leases[k]: what interface k may be given, None included   *)
  Operators,  (* tasks that call set_selected                              *)
  Rec,        (* the reconciler's task                                     *)
  Routes,     (* routes this engine sends for                              *)
  MaxChanges, (* a bound on what DHCP and cables do                        *)
  None        (* no address, no registration, loopback                     *)

ASSUME NicsAssumption == Nics \in Nat \ {0}
ASSUME LeasesAssumption == Leases \in [1..Nics -> SUBSET (Addrs \cup {None})]
ASSUME BoundAssumption == MaxChanges \in Nat
ASSUME NamesAssumption == None \notin Addrs /\ Rec \notin Operators

VARIABLES
  net,        (* the usable address of each interface, or None             *)
  addr,       (* EngineIdentity.addr                                       *)
  selected,   (* EngineState.selected_interface; 0 is automatic            *)
  saved,      (* the same in the configuration file                        *)
  boot,       (* the address main.rs handed to discovery::spawn, until it  *)
              (* has been used                                             *)
  advert,     (* what the mDNS daemon answers with                         *)
  mdns,       (* EngineState.mdns: "none", "set", or taken by the goodbye  *)
  lock,       (* who holds its lock: {} or one task                        *)
  task,       (* the moves under way: {} or one record per task            *)
  start,      (* the start of a route that has read its address: {} or one *)
  sender,     (* the address a running sender is pinned to: {} or one      *)
  changes,
  calm,       (* no more changes, requests, dropped requests, failures     *)
  clean       (* history: since the last move that began alone nothing has *)
              (* crossed it, failed or been dropped                        *)

world   == <<net, changes, calm>>
choice  == <<addr, selected, saved>>
mdnsVar == <<advert, mdns, lock>>
vars    == <<world, choice, boot, mdnsVar, task, start, sender, clean>>

Procs == Operators \cup {Rec}
Names == 0..Nics
Addr  == Addrs \cup {None}

\* A start under way, and whether the choice has changed since it looked.
Starts == [pin : Addr, old : BOOLEAN]
Moves  == [new : Addr, name : Names, stage : {"decide", "select", "persist", "mdns", "register", "drain"}]

TypeOK ==
  /\ net \in [1..Nics -> Addr]
  /\ addr \in Addr /\ boot \in Addr /\ advert \in Addr
  /\ selected \in Names /\ saved \in Names
  /\ mdns \in {"none", "set", "taken"}
  /\ lock \subseteq Procs /\ \A p, q \in lock : p = q
  /\ task \in [Procs -> SUBSET Moves] /\ \A p \in Procs : \A s, t \in task[p] : s = t
  /\ start \in [Routes -> SUBSET Starts] /\ sender \in [Routes -> SUBSET Addr]
  /\ changes \in 0..MaxChanges /\ calm \in BOOLEAN /\ clean \in BOOLEAN

-----------------------------------------------------------------------------
\* first_non_loopback_ipv4: None stands for loopback.
First == LET up == {k \in 1..Nics : net[k] # None}
         IN IF up = {} THEN None ELSE net[CHOOSE k \in up : \A j \in up : k <= j]

\* resolve, or the automatic choice.
Resolve(name) == IF name = 0 THEN First ELSE net[name]

\* Faulty variant of Desired: an address in use is kept whatever is pinned.
DesiredMutant(name, cur) ==
  IF \E k \in 1..Nics : net[k] = cur THEN cur
  ELSE IF Resolve(name) = None THEN cur ELSE Resolve(name)

\* desired_addr: what to use instead of the current address, or the same.
Desired(name, cur) ==
  IF \/ Resolve(name) = None
     \/ name = 0 /\ \E k \in 1..Nics : net[k] = cur
  THEN cur ELSE Resolve(name)

\* pick_advertise_ip, on the way up.
Init ==
  /\ net \in {w \in [1..Nics -> Addr] : \A k \in 1..Nics : w[k] \in Leases[k]}
  /\ selected \in Names
  /\ addr = IF Resolve(selected) # None THEN Resolve(selected) ELSE First
  /\ saved = selected /\ boot = addr
  /\ advert = None /\ mdns = "none" /\ lock = {}
  /\ task = [p \in Procs |-> {}]
  /\ start = [r \in Routes |-> {}] /\ sender = [r \in Routes |-> {}]
  /\ changes = 0 /\ calm = FALSE /\ clean = TRUE

NoMove == \A p \in Procs : task[p] = {}
Quiet  == mdns = "set" /\ NoMove /\ \A r \in Routes : start[r] = {}

Go(p, t)  == task' = [task EXCEPT ![p] = {t}]
Finish(p) == task' = [task EXCEPT ![p] = {}]

\* The choice changes: every start that has looked at it is out of date.
Outdate == start' = [r \in Routes |-> {[s EXCEPT !.old = TRUE] : s \in start[r]}]

\* A move begins.
Alone == clean' = (mdns = "set" /\ NoMove)

-----------------------------------------------------------------------------
(* set_selected: the head of an operator's move.                           *)

\* A name that has no address is refused; automatic never is.
Select(p) ==
  /\ ~calm /\ task[p] = {}
  /\ \E name \in Names :
       /\ name = 0 \/ Resolve(name) # None
       /\ addr' = Resolve(name)
       /\ Go(p, [new |-> Resolve(name), name |-> name, stage |-> "select"])
  /\ Outdate /\ Alone
  /\ UNCHANGED <<world, selected, saved, boot, mdnsVar, sender>>

SetSelected(p) == \E t \in task[p] :
  /\ t.stage = "select"
  /\ selected' = t.name
  /\ Outdate
  /\ Go(p, [t EXCEPT !.name = 0, !.stage = "persist"])
  /\ UNCHANGED <<world, addr, saved, boot, mdnsVar, sender, clean>>

\* Faulty variant of Persist: the save is forgotten.
PersistMutant(p) == \E t \in task[p] :
  /\ t.stage = "persist"
  /\ Go(p, [t EXCEPT !.stage = "mdns"])
  /\ UNCHANGED <<world, choice, boot, mdnsVar, start, sender, clean>>

\* The choice is on disk before anything else can fail.
Persist(p) == \E t \in task[p] :
  /\ t.stage = "persist"
  /\ saved' = selected
  /\ Go(p, [t EXCEPT !.stage = "mdns"])
  /\ UNCHANGED <<world, addr, selected, boot, mdnsVar, start, sender, clean>>

\* The request's connection closes and its handler is dropped at an await;
\* a lock it holds is released.
Dropped(p) == \E t \in task[p] :
  /\ ~calm /\ p # Rec
  /\ Finish(p)
  /\ lock' = lock \ {p} /\ clean' = FALSE
  /\ UNCHANGED <<world, choice, boot, advert, mdns, start, sender>>

-----------------------------------------------------------------------------
(* spawn_reconciler.                                                       *)

\* A tick: the selection is read under its lock.
Tick ==
  /\ task[Rec] = {}
  /\ Go(Rec, [new |-> None, name |-> selected, stage |-> "decide"])
  /\ UNCHANGED <<world, choice, boot, mdnsVar, start, sender, clean>>

\* Then the address and the interfaces, and if they differ a move begins.
\* It saves nothing, and so repairs no save.
Decide == \E t \in task[Rec] :
  /\ t.stage = "decide"
  /\ LET new == Desired(t.name, addr) IN
       IF new = addr
       THEN Finish(Rec) /\ UNCHANGED <<addr, start, clean>>
       ELSE /\ addr' = new
            /\ Go(Rec, [new |-> new, name |-> 0, stage |-> "mdns"])
            /\ Outdate
            /\ clean' = (/\ mdns = "set" /\ \A p \in Operators : task[p] = {}
                         /\ saved = selected)
  /\ UNCHANGED <<world, selected, saved, boot, mdnsVar, sender>>

-----------------------------------------------------------------------------
(* move_to: the tail of every move.                                        *)

\* Faulty variant of Unregister: the handle is looked at before the lock is
\* taken, so that nobody notices when it has been taken away.
UnregisterMutant(p) == \E t \in task[p] :
  /\ t.stage = "mdns" /\ mdns # "none" /\ lock = {}
  /\ lock' = {p} /\ advert' = None
  /\ Go(p, [t EXCEPT !.stage = "register"])
  /\ UNCHANGED <<world, choice, boot, mdns, start, sender, clean>>

\* reregister: the lock is taken and the old record withdrawn.
Unregister(p) == \E t \in task[p] :
  /\ t.stage = "mdns" /\ mdns = "set" /\ lock = {}
  /\ lock' = {p} /\ advert' = None
  /\ Go(p, [t EXCEPT !.stage = "register"])
  /\ UNCHANGED <<world, choice, boot, mdns, start, sender, clean>>

\* There is no registration yet, or none any more.
NotRegistered(p) == \E t \in task[p] :
  /\ t.stage = "mdns" /\ mdns # "set" /\ lock = {}
  /\ Go(p, [t EXCEPT !.new = None, !.stage = "drain"])
  /\ UNCHANGED <<world, choice, boot, mdnsVar, start, sender, clean>>

\* After the goodbye has gone out, or half a second: the new record.  A
\* failure is only logged.
Register(p) == \E t \in task[p] :
  /\ t.stage = "register"
  /\ lock' = {}
  /\ \/ advert' = t.new /\ clean' = clean
     \/ ~calm /\ advert' = advert /\ clean' = FALSE
  /\ Go(p, [t EXCEPT !.new = None, !.stage = "drain"])
  /\ UNCHANGED <<world, choice, boot, mdns, start, sender>>

\* Faulty variant of Drain: the routes are left running.
DrainMutant(p) == \E t \in task[p] :
  /\ t.stage = "drain"
  /\ Finish(p)
  /\ UNCHANGED <<world, choice, boot, mdnsVar, start, sender, clean>>

\* shutdown_all: the routes that are running are stopped.
Drain(p) == \E t \in task[p] :
  /\ t.stage = "drain"
  /\ sender' = [r \in Routes |-> {}]
  /\ Finish(p)
  /\ UNCHANGED <<world, choice, boot, mdnsVar, start, clean>>

-----------------------------------------------------------------------------
(* Discovery's own first registration, with the address it was handed: run *)
(* in discovery.rs.                                                        *)

FirstRegister ==
  /\ mdns = "none" /\ advert = None
  /\ advert' = boot
  /\ UNCHANGED <<world, choice, boot, mdns, lock, task, start, sender, clean>>

\* The handle is stashed, for reregister and for the goodbye.
Stash ==
  /\ mdns = "none" /\ advert # None /\ lock = {}
  /\ mdns' = "set" /\ boot' = None
  /\ UNCHANGED <<world, choice, advert, lock, task, start, sender, clean>>

\* The engine is told to stop: it takes the handle and says goodbye.  Other
\* tasks go on until the process ends.
Goodbye ==
  /\ ~calm /\ mdns = "set" /\ lock = {}
  /\ mdns' = "taken" /\ advert' = None
  /\ UNCHANGED <<world, choice, boot, lock, task, start, sender, clean>>

-----------------------------------------------------------------------------
(* The start of a route's sender: try_start_inner reads the selection and  *)
(* the address; once the pipeline is up, start_locked files it.            *)

Pin == IF selected = 0 THEN None ELSE addr

LookUp(r) ==
  /\ start[r] = {} /\ sender[r] = {}
  /\ start' = [start EXCEPT ![r] = {[pin |-> Pin, old |-> FALSE]}]
  /\ UNCHANGED <<world, choice, boot, mdnsVar, task, sender, clean>>

File(r) == \E s \in start[r] :
  /\ start' = [start EXCEPT ![r] = {}]
  /\ sender' = [sender EXCEPT ![r] = {s.pin}]
  /\ clean' = (clean /\ ~s.old)
  /\ UNCHANGED <<world, choice, boot, mdnsVar, task>>

-----------------------------------------------------------------------------
(* The world.                                                              *)

NetChange ==
  /\ ~calm /\ changes < MaxChanges /\ changes' = changes + 1
  /\ \E k \in 1..Nics : \E a \in Leases[k] : net' = [net EXCEPT ![k] = a]
  /\ UNCHANGED <<calm, choice, boot, mdnsVar, task, start, sender, clean>>

Calm == ~calm /\ calm' = TRUE
        /\ UNCHANGED <<net, changes, choice, boot, mdnsVar, task, start, sender, clean>>

Move(p) == \/ SetSelected(p) \/ Persist(p) \/ Unregister(p) \/ NotRegistered(p)
           \/ Register(p) \/ Drain(p)

Reconcile == Tick \/ Decide

Next == \/ \E p \in Procs : Move(p)
        \/ \E p \in Operators : Select(p) \/ Dropped(p)
        \/ Reconcile \/ FirstRegister \/ Stash \/ Goodbye
        \/ \E r \in Routes : LookUp(r) \/ File(r)
        \/ NetChange \/ Calm

Spec == Init /\ [][Next]_vars

\* A move goes on to its end: its waits are bounded, the lock's by the half
\* second its holder waits for the goodbye.  The tick is periodic.
Fairness == /\ \A p \in Operators : WF_vars(Move(p))
            /\ WF_vars(Reconcile \/ Move(Rec))

FairSpec == Spec /\ Fairness

-----------------------------------------------------------------------------
(* Properties.                                                             *)

\* A move that nothing crosses leaves the registration, the address in use,
\* the running senders and the saved choice in agreement, whatever they were
\* before (move_to, reregister).
MovedTogether ==
  Quiet /\ clean => /\ advert = addr
                    /\ \A r \in Routes : sender[r] \subseteq {Pin}
                    /\ saved = selected

\* Once the operator and the network keep still, the engine comes to use the
\* address of the pinned interface, if it has one, or else an address that
\* still exists, if any does, whichever moves have crossed (desired_addr,
\* spawn_reconciler).
AddressSettles == calm ~> [](
  IF selected # 0 THEN net[selected] \in {None, addr}
                  ELSE First # None => \E k \in 1..Nics : net[k] = addr)

\* An engine that has said goodbye is not advertised again: no move that is
\* still under way brings it back as a ghost.
GoodbyeIsLast == mdns = "taken" => advert = None
=============================================================================
