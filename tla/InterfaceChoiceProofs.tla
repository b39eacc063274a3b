------------------------- MODULE InterfaceChoiceProofs -------------------------
(***************************************************************************)
(* Proofs about InterfaceChoice, for any number of interfaces, addresses,  *)
(* operators and routes: an engine that has said goodbye stays silent, and *)
(* a move that nothing crosses leaves everything in agreement.             *)
(***************************************************************************)
EXTENDS InterfaceChoice, WellFoundedInduction, TLAPS

\* A task that has begun to move the engine.
Moving(p) == \E t \in task[p] : t.stage # "decide"

\* Only a task in the middle of its re-registration holds the lock, and it
\* found a registration.
LockInv ==
  /\ lock # {} => mdns = "set"
  /\ \A p \in Procs : \A t \in task[p] : t.stage = "register" => lock = {p}

\* A start that nothing has overtaken has read the choice as it is.
StartInv == \A r \in Routes : \A s \in start[r] : ~s.old => s.pin = Pin

\* What a move has settled by the stage it has come to.
Done(t) ==
  /\ t.stage \in {"select", "persist", "mdns", "register"} => t.new = addr
  /\ t.stage \in {"mdns", "register", "drain"} => saved = selected
  /\ t.stage = "drain" => advert = addr

Pinned == \A r \in Routes : sender[r] \subseteq {Pin}

\* Discovery has not registered yet, and nothing has moved.
Fresh == /\ \A p \in Procs : ~Moving(p)
         /\ boot = addr /\ advert \in {None, boot} /\ saved = selected /\ Pinned

\* At most one move, and what it has settled; without one, all agree.
Settled == /\ \A p, q \in Procs : Moving(p) /\ Moving(q) => p = q
           /\ \A p \in Procs : \A t \in task[p] : Done(t)
           /\ (\A p \in Procs : ~Moving(p)) => advert = addr /\ saved = selected /\ Pinned

CleanInv == clean => (mdns = "none" => Fresh) /\ (mdns = "set" => Settled)

IInv == TypeOK /\ LockInv /\ StartInv /\ GoodbyeIsLast /\ CleanInv

-----------------------------------------------------------------------------
(* What the helpers do.                                                    *)

\* A set of numbers has a least one.
LEMMA LeastExists ==
  ASSUME NEW S \in SUBSET Nat, S # {}
  PROVE  \E k \in S : \A j \in S : k <= j
<1> DEFINE R == OpToRel(<, Nat)
<1>1. IsWellFoundedOn(R, Nat)
  BY NatLessThanWellFounded
<1>2. PICK k \in S : \A j \in S : <<j, k>> \notin R
  <2> HIDE DEF R
  <2> QED BY <1>1, WFMin
<1>3. ASSUME NEW j \in S PROVE k <= j
  <2>1. j \in Nat /\ k \in Nat
    OBVIOUS
  <2>2. ~(j < k)
    BY <1>2, <2>1 DEF OpToRel
  <2> QED BY <2>1, <2>2
<1> QED BY <1>3

\* The choice of an address always comes to one, or to none.
LEMMA ResolveIs ==
  ASSUME net \in [1..Nics -> Addr], NEW name \in Names
  PROVE  Resolve(name) \in Addr /\ \A cur \in Addr : Desired(name, cur) \in Addr
<1>1. First \in Addr
  <2> DEFINE up == {k \in 1..Nics : net[k] # None}
             k0 == CHOOSE k \in up : \A j \in up : k <= j
  <2>1. CASE up = {}
    BY <2>1 DEF First, Addr
  <2>2. CASE up # {}
    <3>1. \E k \in up : \A j \in up : k <= j
      <4>1. up \in SUBSET Nat
        BY NicsAssumption
      <4> HIDE DEF up
      <4> QED BY <2>2, <4>1, LeastExists
    <3>2. k0 \in up
      BY <3>1
    <3>3. First = net[k0] /\ k0 \in 1..Nics
      BY <2>2, <3>2 DEF First
    <3> HIDE DEF k0
    <3> QED BY <3>3
  <2> QED BY <2>1, <2>2
<1>2. name # 0 => net[name] \in Addr
  BY NicsAssumption DEF Names
<1> QED BY <1>1, <1>2 DEF Resolve, Desired

LEMMA GoIs ==
  ASSUME TypeOK, NEW p \in Procs, NEW u \in Moves, Go(p, u)
  PROVE  /\ task' \in [Procs -> SUBSET Moves] /\ \A q \in Procs : \A s, t \in task'[q] : s = t
         /\ task'[p] = {u} /\ \A q \in Procs \ {p} : task'[q] = task[q]
         /\ u.stage # "decide" => Moving(p)'
         /\ u.stage = "decide" => ~Moving(p)'
         /\ \A q \in Procs \ {p} : Moving(q)' = Moving(q)
<1>1. task' \in [Procs -> SUBSET Moves] /\ task'[p] = {u} /\ \A q \in Procs \ {p} : task'[q] = task[q]
  BY DEF TypeOK, Go
<1>2. \A q \in Procs : \A s, t \in task'[q] : s = t
  BY <1>1 DEF TypeOK
<1> QED BY <1>1, <1>2 DEF Moving

LEMMA FinishIs ==
  ASSUME TypeOK, NEW p \in Procs, Finish(p)
  PROVE  /\ task' \in [Procs -> SUBSET Moves] /\ \A q \in Procs : \A s, t \in task'[q] : s = t
         /\ task'[p] = {} /\ ~Moving(p)'
         /\ \A q \in Procs \ {p} : task'[q] = task[q] /\ Moving(q)' = Moving(q)
<1>1. /\ task' \in [Procs -> SUBSET Moves] /\ task'[p] = {}
      /\ \A q \in Procs \ {p} : task'[q] = task[q]
  BY DEF TypeOK, Finish
<1> QED BY <1>1 DEF TypeOK, Moving

\* Every start under way has been overtaken.
LEMMA OutdateIs ==
  ASSUME TypeOK, Outdate
  PROVE  start' \in [Routes -> SUBSET Starts] /\ StartInv'
<1>1. ASSUME NEW s \in Starts
      PROVE  [s EXCEPT !.old = TRUE] \in Starts /\ [s EXCEPT !.old = TRUE].old = TRUE
  BY DEF Starts
<1>2. start' \in [Routes -> SUBSET Starts]
  BY <1>1 DEF TypeOK, Outdate
<1>3. ASSUME NEW r \in Routes, NEW s \in start'[r] PROVE s.old = TRUE
  <2>1. PICK s0 \in start[r] : s = [s0 EXCEPT !.old = TRUE]
    BY DEF Outdate
  <2>2. s0 \in Starts
    BY DEF TypeOK
  <2> QED BY <1>1, <2>1, <2>2
<1>4. StartInv'
  BY <1>3 DEF StartInv
<1> QED BY <1>2, <1>4

-----------------------------------------------------------------------------
(* The three ways a move changes what CleanInv says: it begins, it gets    *)
(* on, it ends.                                                            *)

LEMMA Began ==
  ASSUME TypeOK, NEW p \in Procs, NEW u \in Moves, Go(p, u), u.stage # "decide", mdns' = mdns,
         clean' => mdns = "set" /\ (\A q \in Procs \ {p} : ~Moving(q)) /\ Done(u)'
  PROVE  CleanInv'
<1> SUFFICES ASSUME clean' PROVE mdns' = "set" /\ Settled'
  BY DEF CleanInv
<1>1. \A q \in Procs \ {p} : ~Moving(q)' /\ task'[q] = task[q]
  BY GoIs
<1>2. task'[p] = {u} /\ Moving(p)'
  BY GoIs
<1>3. ASSUME NEW q \in Procs, NEW t \in task'[q] PROVE Done(t)'
  <2>1. CASE q = p
    BY <1>2, <2>1
  <2>2. CASE q # p
    <3>1. t.stage = "decide"
      BY <1>1, <2>2 DEF Moving
    <3> QED BY <3>1 DEF Done
  <2> QED BY <2>1, <2>2
<1> QED BY <1>1, <1>2, <1>3 DEF Settled

LEMMA Advanced ==
  ASSUME IInv, NEW p \in Procs, Moving(p), NEW u \in Moves, u.stage # "decide", Go(p, u),
         mdns' = mdns, clean' => clean,
         clean' /\ mdns = "set" => Done(u)'
  PROVE  CleanInv'
<1> SUFFICES ASSUME clean', mdns # "taken" PROVE mdns' = "set" /\ Settled'
  BY DEF CleanInv, IInv, TypeOK
<1>1. mdns = "set" /\ Settled
  BY DEF IInv, CleanInv, Fresh, TypeOK
<1>2. \A q \in Procs \ {p} : ~Moving(q)
  BY <1>1 DEF Settled
<1> QED BY <1>1, <1>2, Began DEF IInv, CleanInv

LEMMA Ended ==
  ASSUME IInv, NEW p \in Procs, Finish(p), clean' => clean,
         UNCHANGED <<choice, boot, advert, mdns>>,
         Pinned => Pinned',
         clean' /\ mdns = "set" /\ (\A q \in Procs \ {p} : ~Moving(q)) =>
           advert = addr /\ saved = selected /\ Pinned'
  PROVE  CleanInv'
<1>1. \A q \in Procs : Moving(q)' => Moving(q) /\ q # p
  BY FinishIs DEF IInv
<1>2. ASSUME clean', mdns = "none" PROVE Fresh'
  BY <1>1, <1>2 DEF IInv, CleanInv, Fresh, choice
<1>3. ASSUME clean', mdns = "set" PROVE Settled'
  <2>1. Settled
    BY <1>3 DEF IInv, CleanInv
  <2>2. ASSUME NEW q \in Procs, NEW t \in task'[q] PROVE Done(t)'
    <3>1. t \in task[q]
      BY FinishIs DEF IInv
    <3> QED BY <2>1, <3>1 DEF Settled, Done, choice
  <2>3. \A q, s \in Procs : Moving(q)' /\ Moving(s)' => q = s
    BY <1>1, <2>1 DEF Settled
  <2>4. ASSUME \A q \in Procs : ~Moving(q)' PROVE \A q \in Procs \ {p} : ~Moving(q)
    BY <2>4, FinishIs DEF IInv
  <2> QED BY <1>3, <2>2, <2>3, <2>4 DEF Settled, choice
<1> QED BY <1>2, <1>3 DEF CleanInv

-----------------------------------------------------------------------------
(* Moves                                                                   *)

LEMMA SelectInv == ASSUME IInv, NEW p \in Operators, Select(p) PROVE IInv'
<1>1. PICK name \in Names :
        /\ name = 0 \/ Resolve(name) # None
        /\ addr' = Resolve(name)
        /\ Go(p, [new |-> Resolve(name), name |-> name, stage |-> "select"])
  BY DEF Select
<1>2. p \in Procs /\ addr' \in Addr
  BY <1>1, ResolveIs DEF Procs, IInv, TypeOK
<1>3. PICK u \in Moves : u = [new |-> addr', name |-> name, stage |-> "select"]
  BY <1>2 DEF Moves
<1>4. Go(p, u) /\ u.stage = "select" /\ u.new = addr'
  BY <1>1, <1>3
<1>5. Outdate /\ Alone /\ UNCHANGED <<net, changes, calm, selected, saved, boot, advert, mdns, lock, sender>>
  BY DEF Select, world, mdnsVar
<1>6. TypeOK'
  <2>1. clean' \in BOOLEAN
    BY <1>5 DEF Alone
  <2> QED BY <1>2, <1>4, <1>5, <2>1, GoIs, OutdateIs DEF IInv, TypeOK
<1>7. LockInv' /\ GoodbyeIsLast'
  BY <1>2, <1>4, <1>5, GoIs DEF IInv, LockInv, GoodbyeIsLast
<1>8. CleanInv'
  <2>1. clean' => mdns = "set" /\ NoMove
    BY <1>5 DEF Alone
  <2>2. NoMove => \A q \in Procs : ~Moving(q)
    BY DEF NoMove, Moving
  <2>3. Done(u)'
    BY <1>4 DEF Done
  <2> QED BY <1>2, <1>4, <1>5, <2>1, <2>2, <2>3, Began DEF IInv
<1> QED BY <1>5, <1>6, <1>7, <1>8, OutdateIs DEF IInv

LEMMA SetSelectedInv == ASSUME IInv, NEW p \in Procs, SetSelected(p) PROVE IInv'
<1>1. PICK t \in task[p] :
        /\ t.stage = "select"
        /\ selected' = t.name
        /\ Go(p, [t EXCEPT !.name = 0, !.stage = "persist"])
  BY DEF SetSelected
<1>2. t \in Moves
  BY DEF IInv, TypeOK
<1>3. PICK u : u = [t EXCEPT !.name = 0, !.stage = "persist"]
  OBVIOUS
<1>4. u \in Moves /\ Go(p, u) /\ u.stage = "persist" /\ u.new = t.new /\ t.name \in Names
  <2>1. 0 \in Names
    BY NicsAssumption DEF Names
  <2> QED BY <1>1, <1>2, <1>3, <2>1 DEF Moves
<1>5. Outdate /\ UNCHANGED <<net, changes, calm, addr, saved, boot, advert, mdns, lock, sender, clean>>
  BY DEF SetSelected, world, mdnsVar
<1>6. TypeOK'
  BY <1>1, <1>4, <1>5, GoIs, OutdateIs DEF IInv, TypeOK
<1>7. LockInv' /\ GoodbyeIsLast'
  BY <1>4, <1>5, GoIs DEF IInv, LockInv, GoodbyeIsLast
<1>8. CleanInv'
  <2>1. Moving(p)
    BY <1>1 DEF Moving
  <2>2. clean' /\ mdns = "set" => Done(u)'
    BY <1>1, <1>4, <1>5 DEF IInv, CleanInv, Settled, Done
  <2> QED BY <1>4, <1>5, <2>1, <2>2, Advanced
<1> QED BY <1>5, <1>6, <1>7, <1>8, OutdateIs DEF IInv

LEMMA PersistInv == ASSUME IInv, NEW p \in Procs, Persist(p) PROVE IInv'
<1>1. PICK t \in task[p] : t.stage = "persist" /\ saved' = selected /\ Go(p, [t EXCEPT !.stage = "mdns"])
  BY DEF Persist
<1>2. t \in Moves
  BY DEF IInv, TypeOK
<1>3. PICK u : u = [t EXCEPT !.stage = "mdns"]
  OBVIOUS
<1>4. u \in Moves /\ Go(p, u) /\ u.stage = "mdns" /\ u.new = t.new
  BY <1>1, <1>2, <1>3 DEF Moves
<1>5. UNCHANGED <<net, changes, calm, addr, selected, boot, advert, mdns, lock, start, sender, clean>>
  BY DEF Persist, world, mdnsVar
<1>6. TypeOK'
  BY <1>1, <1>4, <1>5, GoIs DEF IInv, TypeOK
<1>7. LockInv' /\ GoodbyeIsLast' /\ StartInv'
  BY <1>4, <1>5, GoIs DEF IInv, LockInv, GoodbyeIsLast, StartInv, Pin
<1>8. CleanInv'
  <2>1. Moving(p)
    BY <1>1 DEF Moving
  <2>2. clean' /\ mdns = "set" => Done(u)'
    BY <1>1, <1>4, <1>5 DEF IInv, CleanInv, Settled, Done
  <2> QED BY <1>4, <1>5, <2>1, <2>2, Advanced
<1> QED BY <1>6, <1>7, <1>8 DEF IInv

LEMMA UnregisterInv == ASSUME IInv, NEW p \in Procs, Unregister(p) PROVE IInv'
<1>1. PICK t \in task[p] :
        /\ t.stage = "mdns" /\ mdns = "set" /\ lock = {}
        /\ lock' = {p} /\ advert' = None
        /\ Go(p, [t EXCEPT !.stage = "register"])
  BY DEF Unregister
<1>2. t \in Moves
  BY DEF IInv, TypeOK
<1>3. PICK u : u = [t EXCEPT !.stage = "register"]
  OBVIOUS
<1>4. u \in Moves /\ Go(p, u) /\ u.stage = "register" /\ u.new = t.new
  BY <1>1, <1>2, <1>3 DEF Moves
<1>5. UNCHANGED <<net, changes, calm, addr, selected, saved, boot, mdns, start, sender, clean>>
  BY DEF Unregister, world, choice
<1>6. TypeOK'
  BY <1>1, <1>4, <1>5, GoIs DEF IInv, TypeOK, Addr
<1>7. LockInv' /\ GoodbyeIsLast' /\ StartInv'
  BY <1>1, <1>4, <1>5, GoIs DEF IInv, LockInv, GoodbyeIsLast, StartInv, Pin
<1>8. CleanInv'
  <2>1. Moving(p)
    BY <1>1 DEF Moving
  <2>2. clean' /\ mdns = "set" => Done(u)'
    BY <1>1, <1>4, <1>5 DEF IInv, CleanInv, Settled, Done
  <2> QED BY <1>4, <1>5, <2>1, <2>2, Advanced
<1> QED BY <1>6, <1>7, <1>8 DEF IInv

LEMMA NotRegisteredInv == ASSUME IInv, NEW p \in Procs, NotRegistered(p) PROVE IInv'
<1>1. PICK t \in task[p] :
        /\ t.stage = "mdns" /\ mdns # "set" /\ lock = {}
        /\ Go(p, [t EXCEPT !.new = None, !.stage = "drain"])
  BY DEF NotRegistered
<1>2. t \in Moves
  BY DEF IInv, TypeOK
<1>3. PICK u : u = [t EXCEPT !.new = None, !.stage = "drain"]
  OBVIOUS
<1>4. u \in Moves /\ Go(p, u) /\ u.stage = "drain"
  BY <1>1, <1>2, <1>3 DEF Moves, Addr
<1>5. UNCHANGED <<net, changes, calm, addr, selected, saved, boot, advert, mdns, lock, start, sender, clean>>
  BY DEF NotRegistered, world, choice, mdnsVar
<1>6. TypeOK'
  BY <1>1, <1>4, <1>5, GoIs DEF IInv, TypeOK
<1>7. LockInv' /\ GoodbyeIsLast' /\ StartInv'
  BY <1>4, <1>5, GoIs DEF IInv, LockInv, GoodbyeIsLast, StartInv, Pin
<1>8. CleanInv'
  <2>1. Moving(p)
    BY <1>1 DEF Moving
  <2> QED BY <1>1, <1>4, <1>5, <2>1, Advanced
<1> QED BY <1>6, <1>7, <1>8 DEF IInv

LEMMA RegisterInv == ASSUME IInv, NEW p \in Procs, Register(p) PROVE IInv'
<1>1. PICK t \in task[p] :
        /\ t.stage = "register"
        /\ lock' = {}
        /\ \/ advert' = t.new /\ clean' = clean
           \/ ~calm /\ advert' = advert /\ clean' = FALSE
        /\ Go(p, [t EXCEPT !.new = None, !.stage = "drain"])
  BY DEF Register
<1>2. t \in Moves
  BY DEF IInv, TypeOK
<1>3. PICK u : u = [t EXCEPT !.new = None, !.stage = "drain"]
  OBVIOUS
<1>4. u \in Moves /\ Go(p, u) /\ u.stage = "drain"
  BY <1>1, <1>2, <1>3 DEF Moves, Addr
<1>5. UNCHANGED <<net, changes, calm, addr, selected, saved, boot, mdns, start, sender>>
  BY DEF Register, world, choice
<1>6. TypeOK'
  <2>1. advert' \in Addr
    BY <1>1, <1>2 DEF IInv, TypeOK, Moves
  <2>2. clean' \in BOOLEAN
    BY <1>1 DEF IInv, TypeOK
  <2> QED BY <1>1, <1>4, <1>5, <2>1, <2>2, GoIs DEF IInv, TypeOK
<1>7. LockInv' /\ GoodbyeIsLast' /\ StartInv'
  <2>1. lock = {p} /\ mdns = "set"
    BY <1>1 DEF IInv, LockInv
  <2>2. \A q \in Procs : \A w \in task'[q] : w.stage # "register"
    <3>1. \A q \in Procs \ {p} : \A w \in task[q] : w.stage # "register"
      BY <2>1 DEF IInv, LockInv
    <3> QED BY <1>4, <3>1, GoIs DEF IInv
  <2> QED BY <1>1, <1>5, <2>1, <2>2 DEF IInv, LockInv, GoodbyeIsLast, StartInv, Pin
<1>8. CleanInv'
  <2>1. Moving(p)
    BY <1>1 DEF Moving
  <2>2. clean' => clean
    BY <1>1
  <2>3. clean' /\ mdns = "set" => Done(u)'
    BY <1>1, <1>4, <1>5 DEF IInv, CleanInv, Settled, Done
  <2> QED BY <1>4, <1>5, <2>1, <2>2, <2>3, Advanced
<1> QED BY <1>6, <1>7, <1>8 DEF IInv

LEMMA DrainInv == ASSUME IInv, NEW p \in Procs, Drain(p) PROVE IInv'
<1>1. PICK t \in task[p] : t.stage = "drain"
  BY DEF Drain
<1>2. sender' = [r \in Routes |-> {}] /\ Finish(p) /\ Pinned'
  BY DEF Drain, Pinned
<1>3. UNCHANGED <<net, changes, calm, addr, selected, saved, boot, advert, mdns, lock, start, clean>>
  BY DEF Drain, world, choice, mdnsVar
<1>4. TypeOK'
  BY <1>2, <1>3, FinishIs DEF IInv, TypeOK
<1>5. LockInv' /\ GoodbyeIsLast' /\ StartInv'
  BY <1>2, <1>3, FinishIs DEF IInv, LockInv, GoodbyeIsLast, StartInv, Pin
<1>6. CleanInv'
  <2>1. clean /\ mdns = "set" => advert = addr /\ saved = selected
    BY <1>1 DEF IInv, CleanInv, Settled, Done
  <2> QED BY <1>2, <1>3, <2>1, Ended DEF choice
<1> QED BY <1>4, <1>5, <1>6 DEF IInv

LEMMA DroppedInv == ASSUME IInv, NEW p \in Operators, Dropped(p) PROVE IInv'
<1>1. /\ p \in Procs /\ Finish(p) /\ lock' = lock \ {p} /\ clean' = FALSE
      /\ UNCHANGED <<net, changes, calm, addr, selected, saved, boot, advert, mdns, start, sender>>
  BY DEF Dropped, Procs, world, choice
<1>2. TypeOK'
  BY <1>1, FinishIs DEF IInv, TypeOK
<1>3. LockInv' /\ GoodbyeIsLast' /\ StartInv'
  BY <1>1, FinishIs DEF IInv, LockInv, GoodbyeIsLast, StartInv, Pin
<1> QED BY <1>1, <1>2, <1>3 DEF IInv, CleanInv

-----------------------------------------------------------------------------
(* The reconciler                                                          *)

LEMMA TickInv == ASSUME IInv, Tick PROVE IInv'
<1>1. PICK u \in Moves : u = [new |-> None, name |-> selected, stage |-> "decide"]
  BY DEF IInv, TypeOK, Moves, Addr
<1>2. Go(Rec, u) /\ u.stage = "decide" /\ Rec \in Procs
  BY <1>1 DEF Tick, Procs
<1>3. UNCHANGED <<net, changes, calm, addr, selected, saved, boot, advert, mdns, lock, start, sender, clean>>
  BY DEF Tick, world, choice, mdnsVar
<1>4. \A q \in Procs : Moving(q)' = Moving(q)
  BY <1>2, GoIs DEF IInv, Tick, Moving
<1>5. TypeOK'
  BY <1>2, <1>3, GoIs DEF IInv, TypeOK
<1>6. LockInv' /\ GoodbyeIsLast' /\ StartInv'
  BY <1>2, <1>3, GoIs DEF IInv, LockInv, GoodbyeIsLast, StartInv, Pin
<1>7. \A q \in Procs : \A t \in task'[q] : t \in task[q] \/ Done(t)'
  <2>1. Done(u)'
    BY <1>2 DEF Done
  <2> QED BY <1>2, <2>1, GoIs DEF IInv
<1>8. CleanInv'
  BY <1>3, <1>4, <1>7 DEF IInv, CleanInv, Fresh, Settled, Done, Pinned, Pin
<1> QED BY <1>5, <1>6, <1>8 DEF IInv

LEMMA DecideInv == ASSUME IInv, Decide PROVE IInv'
<1>1. PICK t \in task[Rec] :
        /\ t.stage = "decide"
        /\ IF Desired(t.name, addr) = addr
           THEN Finish(Rec) /\ UNCHANGED <<addr, start, clean>>
           ELSE /\ addr' = Desired(t.name, addr)
                /\ Go(Rec, [new |-> Desired(t.name, addr), name |-> 0, stage |-> "mdns"])
                /\ Outdate
                /\ clean' = (/\ mdns = "set" /\ \A p \in Operators : task[p] = {}
                             /\ saved = selected)
  BY DEF Decide
<1>2. t \in Moves /\ Rec \in Procs /\ Desired(t.name, addr) \in Addr
  <2>1. t \in Moves /\ Rec \in Procs
    BY DEF IInv, TypeOK, Procs
  <2>2. t.name \in Names
    BY <2>1 DEF Moves
  <2> QED BY <2>1, <2>2, ResolveIs DEF IInv, TypeOK
<1>3. UNCHANGED <<net, changes, calm, selected, saved, boot, advert, mdns, lock, sender>>
  BY DEF Decide, world, mdnsVar
<1>4. CASE Desired(t.name, addr) = addr
  <2>1. Finish(Rec) /\ UNCHANGED <<addr, start, clean>>
    BY <1>1, <1>4
  <2>2. TypeOK'
    BY <1>2, <1>3, <2>1, FinishIs DEF IInv, TypeOK
  <2>3. LockInv' /\ GoodbyeIsLast' /\ StartInv'
    BY <1>2, <1>3, <2>1, FinishIs DEF IInv, LockInv, GoodbyeIsLast, StartInv, Pin
  <2>4. CleanInv'
    <3>1. ~Moving(Rec)
      BY <1>1, <1>2 DEF Moving, IInv, TypeOK
    <3>2. Pinned' = Pinned
      BY <1>3, <2>1 DEF Pinned, Pin
    <3>3. clean /\ mdns = "set" /\ (\A q \in Procs \ {Rec} : ~Moving(q)) =>
            advert = addr /\ saved = selected /\ Pinned
      BY <3>1 DEF IInv, CleanInv, Settled
    <3> QED BY <1>2, <1>3, <2>1, <3>2, <3>3, Ended DEF choice
  <2> QED BY <2>2, <2>3, <2>4 DEF IInv
<1>5. CASE Desired(t.name, addr) # addr
  <2>1. PICK u \in Moves : u = [new |-> Desired(t.name, addr), name |-> 0, stage |-> "mdns"]
    <3>1. 0 \in Names
      BY NicsAssumption DEF Names
    <3> QED BY <1>2, <3>1 DEF Moves
  <2>2. /\ addr' = Desired(t.name, addr) /\ Go(Rec, u) /\ Outdate
        /\ u.stage = "mdns" /\ u.new = addr'
    BY <1>1, <1>5, <2>1
  <2>3. clean' = (/\ mdns = "set" /\ \A p \in Operators : task[p] = {}
                  /\ saved = selected)
    BY <1>1, <1>5
  <2>4. TypeOK'
    <3>1. clean' \in BOOLEAN
      BY <2>3
    <3> QED BY <1>2, <1>3, <2>2, <3>1, GoIs, OutdateIs DEF IInv, TypeOK
  <2>5. LockInv' /\ GoodbyeIsLast' /\ StartInv'
    BY <1>2, <1>3, <2>2, GoIs, OutdateIs DEF IInv, LockInv, GoodbyeIsLast
  <2>6. CleanInv'
    <3>1. clean' => \A q \in Procs \ {Rec} : ~Moving(q)
      BY <2>3 DEF Procs, Moving
    <3>2. clean' => mdns = "set" /\ Done(u)'
      BY <1>3, <2>2, <2>3 DEF Done
    <3> QED BY <1>2, <1>3, <2>2, <3>1, <3>2, Began DEF IInv
  <2> QED BY <2>4, <2>5, <2>6 DEF IInv
<1> QED BY <1>4, <1>5

-----------------------------------------------------------------------------
(* Discovery, the starts of senders, and the world                         *)

LEMMA RegistrationInv == ASSUME IInv, FirstRegister \/ Stash \/ Goodbye PROVE IInv'
<1>1. UNCHANGED <<net, changes, addr, selected, saved, calm, lock, task, start, sender, clean>>
  BY DEF FirstRegister, Stash, Goodbye, world, choice
<1>2. /\ boot' \in Addr /\ advert' \in Addr /\ mdns' \in {"none", "set", "taken"}
      /\ lock # {} => mdns' = mdns
  BY DEF FirstRegister, Stash, Goodbye, IInv, TypeOK, Addr
<1>3. \/ mdns = "none" /\ mdns' = "none" /\ advert' = boot /\ boot' = boot
      \/ mdns = "none" /\ mdns' = "set" /\ advert # None /\ advert' = advert
      \/ mdns' = "taken" /\ advert' = None
  BY DEF FirstRegister, Stash, Goodbye
<1>4. \A q \in Procs : Moving(q)' = Moving(q)
  BY <1>1 DEF Moving
<1>5. TypeOK'
  BY <1>1, <1>2 DEF IInv, TypeOK
<1>6. LockInv' /\ GoodbyeIsLast' /\ StartInv'
  BY <1>1, <1>2, <1>3 DEF IInv, LockInv, GoodbyeIsLast, StartInv, Pin
<1>7. CleanInv'
  <2>1. CASE mdns = "none" /\ mdns' = "none" /\ advert' = boot /\ boot' = boot
    BY <1>1, <1>4, <2>1 DEF IInv, CleanInv, Fresh, Pinned, Pin
  <2>2. CASE mdns = "none" /\ mdns' = "set" /\ advert # None /\ advert' = advert
    <3>1. ASSUME clean PROVE Settled'
      <4>1. Fresh
        BY <2>2, <3>1 DEF IInv, CleanInv
      <4>2. \A q \in Procs : ~Moving(q)'
        BY <1>4, <4>1 DEF Fresh
      <4>3. \A q \in Procs : \A t \in task'[q] : Done(t)'
        BY <4>2 DEF Moving, Done
      <4> QED BY <1>1, <2>2, <4>1, <4>2, <4>3 DEF Fresh, Settled, Pinned, Pin
    <3> QED BY <1>1, <2>2, <3>1 DEF CleanInv
  <2>3. CASE mdns' = "taken" /\ advert' = None
    BY <2>3 DEF CleanInv
  <2> QED BY <1>3, <2>1, <2>2, <2>3
<1> QED BY <1>5, <1>6, <1>7 DEF IInv

LEMMA LookUpInv == ASSUME IInv, NEW r \in Routes, LookUp(r) PROVE IInv'
<1>1. PICK s : s = [pin |-> Pin, old |-> FALSE]
  OBVIOUS
<1>2. s \in Starts /\ s.pin = Pin
  BY <1>1 DEF Starts, Pin, IInv, TypeOK, Addr
<1>3. /\ start' = [start EXCEPT ![r] = {s}]
      /\ UNCHANGED <<net, changes, calm, addr, selected, saved, boot, advert, mdns, lock, task, sender, clean>>
  BY <1>1 DEF LookUp, world, choice, mdnsVar
<1>4. TypeOK'
  BY <1>2, <1>3 DEF IInv, TypeOK
<1>5. StartInv'
  BY <1>2, <1>3 DEF IInv, TypeOK, StartInv, Pin
<1>6. LockInv' /\ GoodbyeIsLast' /\ CleanInv'
  BY <1>3 DEF IInv, LockInv, GoodbyeIsLast, CleanInv, Fresh, Settled, Done, Moving, Pinned, Pin
<1> QED BY <1>4, <1>5, <1>6 DEF IInv

LEMMA FileInv == ASSUME IInv, NEW r \in Routes, File(r) PROVE IInv'
<1>1. PICK s \in start[r] : sender' = [sender EXCEPT ![r] = {s.pin}] /\ clean' = (clean /\ ~s.old)
  BY DEF File
<1>2. s \in Starts /\ s.pin \in Addr
  BY DEF IInv, TypeOK, Starts
<1>3. /\ start' = [start EXCEPT ![r] = {}]
      /\ UNCHANGED <<net, changes, calm, addr, selected, saved, boot, advert, mdns, lock, task>>
  BY DEF File, world, choice, mdnsVar
<1>4. clean' \in BOOLEAN /\ (clean' => clean /\ s.pin = Pin)
  BY <1>1 DEF IInv, StartInv
<1>5. TypeOK'
  BY <1>1, <1>2, <1>3, <1>4 DEF IInv, TypeOK
<1>6. StartInv' /\ LockInv' /\ GoodbyeIsLast'
  BY <1>3 DEF IInv, TypeOK, StartInv, LockInv, GoodbyeIsLast, Pin
<1>7. CleanInv'
  <2>1. clean' /\ Pinned => Pinned'
    BY <1>1, <1>3, <1>4 DEF IInv, TypeOK, Pinned, Pin
  <2>2. \A q \in Procs : Moving(q)' = Moving(q)
    BY <1>3 DEF Moving
  <2> QED BY <1>3, <1>4, <2>1, <2>2 DEF IInv, CleanInv, Fresh, Settled, Done
<1> QED BY <1>5, <1>6, <1>7 DEF IInv

LEMMA WorldInv == ASSUME IInv, NetChange \/ Calm \/ UNCHANGED vars PROVE IInv'
<1>1. UNCHANGED <<addr, selected, saved, boot, advert, mdns, lock, task, start, sender, clean>>
  BY DEF NetChange, Calm, choice, mdnsVar, vars
<1>2. net' \in [1..Nics -> Addr] /\ changes' \in 0..MaxChanges /\ calm' \in BOOLEAN
  <2>1. CASE NetChange
    <3>1. PICK k \in 1..Nics : \E a \in Leases[k] : net' = [net EXCEPT ![k] = a]
      BY <2>1 DEF NetChange
    <3>2. Leases[k] \subseteq Addr
      BY LeasesAssumption DEF Addr
    <3>3. net' \in [1..Nics -> Addr]
      BY <3>1, <3>2 DEF IInv, TypeOK
    <3> QED BY <2>1, <3>3, BoundAssumption DEF NetChange, IInv, TypeOK
  <2>2. CASE Calm \/ UNCHANGED vars
    BY <2>2 DEF Calm, vars, world, IInv, TypeOK
  <2> QED BY <2>1, <2>2
<1>3. TypeOK'
  BY <1>1, <1>2 DEF IInv, TypeOK
<1> QED BY <1>1, <1>3 DEF IInv, LockInv, StartInv, GoodbyeIsLast, CleanInv, Fresh, Settled, Done,
                        Moving, Pinned, Pin

-----------------------------------------------------------------------------
LEMMA InitInv == ASSUME Init PROVE IInv
<1>1. net \in [1..Nics -> Addr] /\ selected \in Names
  BY DEF Init
<1>2. addr \in Addr
  <2>1. Resolve(selected) \in Addr /\ First \in Addr
    <3>1. Resolve(selected) \in Addr
      BY <1>1, ResolveIs
    <3>2. 0 \in Names /\ First = Resolve(0)
      BY NicsAssumption DEF Names, Resolve
    <3> QED BY <1>1, <3>1, <3>2, ResolveIs
  <2> QED BY <2>1 DEF Init
<1>3. TypeOK
  <2>1. /\ task \in [Procs -> SUBSET Moves] /\ \A p \in Procs : \A s, t \in task[p] : s = t
        /\ start \in [Routes -> SUBSET Starts] /\ sender \in [Routes -> SUBSET Addr]
    BY DEF Init
  <2>2. changes \in 0..MaxChanges /\ calm \in BOOLEAN /\ clean \in BOOLEAN
    <3>1. changes = 0 /\ calm = FALSE /\ clean = TRUE
      BY DEF Init
    <3>2. 0 \in 0..MaxChanges
      BY BoundAssumption
    <3> QED BY <3>1, <3>2
  <2> QED BY <1>1, <1>2, <2>1, <2>2 DEF Init, TypeOK, Addr
<1> QED BY <1>3 DEF Init, IInv, LockInv, StartInv, GoodbyeIsLast, CleanInv, Fresh, Moving, Pinned

LEMMA NextInv == IInv /\ [Next]_vars => IInv'
<1> SUFFICES ASSUME IInv, [Next]_vars PROVE IInv'
  OBVIOUS
<1>1. ASSUME NEW p \in Procs, Move(p) PROVE IInv'
  BY <1>1, SetSelectedInv, PersistInv, UnregisterInv, NotRegisteredInv, RegisterInv, DrainInv DEF Move
<1>2. ASSUME NEW p \in Operators, Select(p) \/ Dropped(p) PROVE IInv'
  BY <1>2, SelectInv, DroppedInv
<1>3. CASE Reconcile
  BY <1>3, TickInv, DecideInv DEF Reconcile
<1>4. ASSUME NEW r \in Routes, LookUp(r) \/ File(r) PROVE IInv'
  BY <1>4, LookUpInv, FileInv
<1> QED BY <1>1, <1>2, <1>3, <1>4, RegistrationInv, WorldInv DEF Next

\* What has been settled at each stage of a move that nothing crosses.
THEOREM Inductive == Spec => []IInv
  BY InitInv, NextInv, PTL DEF Spec

\* Every variable keeps its type: the lock has one holder, a task one move.
THEOREM TypeCorrect == Spec => []TypeOK
<1>1. IInv => TypeOK
  BY DEF IInv
<1> QED BY <1>1, Inductive, PTL

\* However many moves are under way when the engine takes its registration
\* back, none of them registers again (discovery.rs, reregister).
THEOREM GoodbyeHolds == Spec => []GoodbyeIsLast
<1>1. IInv => GoodbyeIsLast
  BY DEF IInv
<1> QED BY <1>1, Inductive, PTL

\* After a move that nothing crossed, the registration, the address in use,
\* the running senders and the saved choice agree (iface.rs, move_to).
THEOREM MovedTogetherHolds == Spec => []MovedTogether
<1>1. IInv => MovedTogether
  <2>1. NoMove => \A p \in Procs : ~Moving(p)
    BY DEF NoMove, Moving
  <2> QED BY <2>1 DEF IInv, CleanInv, Settled, Pinned, MovedTogether, Quiet
<1> QED BY <1>1, Inductive, PTL
=============================================================================
