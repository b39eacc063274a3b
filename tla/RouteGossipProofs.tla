---------------------------- MODULE RouteGossipProofs ---------------------------
(***************************************************************************)
(* Proofs about RouteGossip, for any number of engines, ends, handlers and *)
(* messages: a change that nothing crosses brings both ends to one value.  *)
(***************************************************************************)
EXTENDS RouteGossip, TLAPS

\* What the ends come to while nothing has crossed: every end is there and
\* has saved it, or a handler or a message that will bring it there is on its
\* way; and nothing says anything else.  Handlers of engines that are no end
\* tell nobody and do not matter.
Settled(f, w) == routes[f] = w /\ saved[f] = w
Coming(f) == (\E x \in msgs : x.to = f) \/ (\E t \in Tasks : \E c \in task[t] : c.at = f)

Converging(w) ==
  /\ \A f \in Ends : Settled(f, w) \/ Coming(f)
  /\ \A x \in msgs : x.val = w
  /\ \A t \in Tasks : \A c \in task[t] :
       /\ ~c.tell
       /\ c.at \in Ends => c.val = w /\ (c.stage = "persist" => routes[c.at] = w)

\* The one handler that is going to tell the ends, and nothing else.
Telling(t) ==
  /\ msgs = {} /\ \A u \in Tasks \ {t} : task[u] = {}
  /\ \E c \in task[t] : c.tell /\ (c.stage = "persist" => routes[c.at] = c.val)

IInv == TypeOK /\ (clean => (\E w \in Entry : Converging(w)) \/ (\E t \in Tasks : Telling(t)))

-----------------------------------------------------------------------------
\* A request begins: it is told or not, as g and the table say.
LEMMA BeginIs ==
  ASSUME TypeOK, NEW t \in Tasks, NEW e \in Engines, NEW v \in Entry, NEW g \in BOOLEAN,
         Begin(t, e, v, g)
  PROVE  \E c \in Call :
           /\ task' = [task EXCEPT ![t] = {c}]
           /\ c.at = e /\ c.val = v
           /\ ~g \/ routes[e] = v => ~c.tell
           /\ g /\ routes[e] # v => c.tell
           /\ c.stage = "persist" => v = Gone
<1>0. PICK b \in BOOLEAN : b = (g /\ routes[e] # v)
  OBVIOUS
<1>1. PICK stage \in {"insert", "persist"} :
        stage = (IF v = Gone THEN "persist" ELSE "insert") /\ (stage = "persist" => v = Gone)
  OBVIOUS
<1>2. PICK c : c = [at |-> e, val |-> v, tell |-> b, stage |-> stage]
  OBVIOUS
<1>3. c \in Call
  BY <1>2 DEF Call
<1>4. task' = [task EXCEPT ![t] = {c}]
  BY <1>0, <1>1, <1>2 DEF Begin
<1>5. c.at = e /\ c.val = v /\ c.tell = b /\ c.stage = stage
  BY <1>2
<1>6. (~g \/ routes[e] = v => ~c.tell) /\ (g /\ routes[e] # v => c.tell)
  BY <1>0, <1>5
<1> QED BY <1>1, <1>3, <1>4, <1>5, <1>6

LEMMA BeginTypes ==
  ASSUME TypeOK, NEW t \in Tasks, NEW e \in Engines, NEW v \in Entry, NEW g \in BOOLEAN,
         Begin(t, e, v, g)
  PROVE  /\ routes' \in [Engines -> Entry] /\ (v = Gone => routes'[e] = Gone)
         /\ \A f \in Engines : routes'[f] = routes[f] \/ (f = e /\ v = Gone /\ routes'[f] = Gone)
         /\ task' \in [Tasks -> SUBSET Call] /\ \A u \in Tasks : \A c, d \in task'[u] : c = d
         /\ \A u \in Tasks \ {t} : task'[u] = task[u]
<1>1. routes' \in [Engines -> Entry] /\ (v = Gone => routes'[e] = Gone)
      /\ \A f \in Engines : routes'[f] = routes[f] \/ (f = e /\ v = Gone /\ routes'[f] = Gone)
  BY DEF Begin, TypeOK, Entry
<1>2. PICK c \in Call : task' = [task EXCEPT ![t] = {c}]
  BY BeginIs
<1> QED BY <1>1, <1>2 DEF TypeOK

-----------------------------------------------------------------------------
(* One lemma per action.                                                   *)

\* While everything is quiet and clean, the ends have what they agree on.
LEMMA QuietIs ==
  ASSUME IInv, Quiet, clean
  PROVE  \E w \in Entry : Converging(w) /\ \A f \in Ends : Settled(f, w)
BY DEF IInv, Quiet, Converging, Telling, Coming

LEMMA RequestInv == ASSUME IInv, NEW t \in Tasks, Request(t) PROVE IInv'
<1>1. PICK e \in Engines, v \in Entry :
        Begin(t, e, v, TRUE) /\ clean' = (Quiet /\ (clean \/ routes[e] # v))
  BY DEF Request
<1>2. UNCHANGED <<saved, msgs, calm>>
  BY DEF Request
<1>0. PICK g \in BOOLEAN : g # FALSE /\ Begin(t, e, v, g)
  BY <1>1
<1>3. PICK c \in Call :
        /\ task' = [task EXCEPT ![t] = {c}]
        /\ c.at = e /\ c.val = v
        /\ ~g \/ routes[e] = v => ~c.tell
        /\ g /\ routes[e] # v => c.tell
        /\ c.stage = "persist" => v = Gone
  BY <1>0, BeginIs DEF IInv
<1>4. /\ \A f \in Engines : routes'[f] = routes[f] \/ (f = e /\ v = Gone /\ routes'[f] = Gone)
      /\ v = Gone => routes'[e] = Gone
      /\ \A u \in Tasks \ {t} : task'[u] = task[u]
  BY <1>0, BeginTypes DEF IInv
<1>5. TypeOK' /\ task'[t] = {c}
  <2>1. /\ routes' \in [Engines -> Entry] /\ task' \in [Tasks -> SUBSET Call]
        /\ \A u \in Tasks : \A k, d \in task'[u] : k = d
    BY <1>0, BeginTypes DEF IInv
  <2>2. clean' \in BOOLEAN
    <3>1. clean' = TRUE \/ clean' = FALSE
      BY <1>1 DEF Quiet
    <3> QED BY <3>1
  <2> QED BY <1>2, <1>3, <2>1, <2>2 DEF IInv, TypeOK
<1>6. ASSUME clean', routes[e] # v PROVE Telling(t)'
  <2>1. c.tell /\ (c.stage = "persist" => routes'[c.at] = c.val)
    BY <1>0, <1>3, <1>4, <1>6
  <2>2. Quiet
    BY <1>1, <1>6
  <2>3. msgs' = {} /\ \A u \in Tasks \ {t} : task'[u] = {}
    BY <1>2, <1>4, <2>2 DEF Quiet
  <2> QED BY <1>5, <2>1, <2>3 DEF Telling
<1>7. ASSUME clean', routes[e] = v PROVE \E w \in Entry : Converging(w)'
  <2>1. PICK w \in Entry : Converging(w) /\ \A f \in Ends : Settled(f, w)
    BY <1>1, <1>7, QuietIs
  <2>2. e \in Ends => v = w
    BY <1>7, <2>1 DEF Settled
  <2>3. \A f \in Engines : routes'[f] = routes[f]
    BY <1>4, <1>7
  <2>4. \A f \in Ends : Settled(f, w)'
    BY <1>2, <2>1, <2>3, EndsAssumption DEF Settled
  <2>5. msgs' = {} /\ \A u \in Tasks \ {t} : task'[u] = {}
    BY <1>1, <1>2, <1>4, <1>7 DEF Quiet
  <2>6. ASSUME NEW u \in Tasks, NEW d \in task'[u]
        PROVE  ~d.tell /\ (d.at \in Ends => d.val = w /\ (d.stage = "persist" => routes'[d.at] = w))
    BY <1>3, <1>4, <1>5, <1>7, <2>2, <2>5, <2>6
  <2> QED BY <2>4, <2>5, <2>6 DEF Converging
<1> QED BY <1>5, <1>6, <1>7 DEF IInv

LEMMA DeliverInv == ASSUME IInv, NEW t \in Tasks, Deliver(t) PROVE IInv'
<1>1. PICK x \in msgs : Begin(t, x.to, x.val, FALSE) /\ msgs' = msgs \ {x}
  BY DEF Deliver
<1>2. UNCHANGED <<saved, calm, clean>>
  BY DEF Deliver
<1>3. x.to \in Ends /\ x.to \in Engines /\ x.val \in Entry
  BY EndsAssumption DEF IInv, TypeOK, Msg
<1>0. PICK g \in BOOLEAN : ~g /\ Begin(t, x.to, x.val, g)
  BY <1>1
<1>4. PICK c \in Call :
        /\ task' = [task EXCEPT ![t] = {c}]
        /\ c.at = x.to /\ c.val = x.val /\ ~c.tell
        /\ c.stage = "persist" => x.val = Gone
  BY <1>0, <1>3, BeginIs DEF IInv
<1>5. /\ \A f \in Engines : routes'[f] = routes[f] \/ (f = x.to /\ x.val = Gone /\ routes'[f] = Gone)
      /\ \A u \in Tasks \ {t} : task'[u] = task[u]
      /\ task[t] = {} /\ task'[t] = {c}
      /\ x.val = Gone => routes'[x.to] = Gone
  BY <1>0, <1>3, <1>4, BeginTypes DEF IInv, Begin, TypeOK
<1>6. TypeOK'
  BY <1>0, <1>1, <1>2, <1>3, BeginTypes DEF IInv, TypeOK
<1>7. ASSUME clean' PROVE \E w \in Entry : Converging(w)'
  <2>1. PICK w \in Entry : Converging(w)
    BY <1>2, <1>7 DEF IInv, Telling
  <2>2. x.val = w
    BY <2>1 DEF Converging
  <2>3. ASSUME NEW f \in Ends PROVE (Settled(f, w) \/ Coming(f))'
    <3>1. f \in Engines
      BY EndsAssumption
    <3>2. CASE f = x.to
      BY <1>4, <1>5, <3>2 DEF Coming
    <3>3. CASE f # x.to /\ Settled(f, w)
      BY <1>2, <1>5, <3>1, <3>3 DEF Settled
    <3>4. CASE f # x.to /\ \E y \in msgs : y.to = f
      BY <1>1, <3>4 DEF Coming
    <3>5. CASE \E u \in Tasks : \E d \in task[u] : d.at = f
      BY <1>5, <3>5 DEF Coming
    <3> QED BY <2>1, <3>2, <3>3, <3>4, <3>5 DEF Converging, Coming
  <2>4. ASSUME NEW u \in Tasks, NEW d \in task'[u]
        PROVE  ~d.tell /\ (d.at \in Ends => d.val = w /\ (d.stage = "persist" => routes'[d.at] = w))
    <3>1. CASE u = t
      BY <1>4, <1>5, <2>2, <2>4, <3>1
    <3>2. CASE u # t
      <4>1. d \in task[u] /\ d.at \in Engines
        BY <1>5, <3>2 DEF IInv, TypeOK, Call
      <4> QED BY <1>5, <2>1, <2>2, <4>1 DEF Converging
    <3> QED BY <3>1, <3>2
  <2> QED BY <1>1, <2>1, <2>3, <2>4 DEF Converging
<1> QED BY <1>6, <1>7 DEF IInv

LEMMA InsertInv == ASSUME IInv, NEW t \in Tasks, Insert(t) PROVE IInv'
<1>1. PICK c \in task[t] :
        /\ c.stage = "insert"
        /\ routes' = [routes EXCEPT ![c.at] = c.val]
        /\ task' = [task EXCEPT ![t] = {[c EXCEPT !.stage = "persist"]}]
        /\ UNCHANGED <<saved, msgs, calm, clean>>
  BY DEF Insert
<1>2. c \in Call /\ task \in [Tasks -> SUBSET Call] /\ routes \in [Engines -> Entry]
  BY DEF IInv, TypeOK
<1>3. PICK d \in Call : d = [c EXCEPT !.stage = "persist"]
  BY <1>2 DEF Call
<1>4. d.at = c.at /\ d.val = c.val /\ d.tell = c.tell /\ d.at \in Engines /\ d.val \in Entry
  BY <1>2, <1>3 DEF Call
<1>5. /\ routes' \in [Engines -> Entry] /\ routes'[d.at] = d.val
      /\ \A f \in Engines \ {d.at} : routes'[f] = routes[f]
      /\ task' \in [Tasks -> SUBSET Call] /\ task'[t] = {d}
      /\ \A u \in Tasks \ {t} : task'[u] = task[u]
  BY <1>1, <1>2, <1>3, <1>4
<1>6. task[t] = {c}
  BY <1>1 DEF IInv, TypeOK
<1>7. TypeOK'
  BY <1>1, <1>5 DEF IInv, TypeOK
<1>8. ASSUME NEW u \in Tasks, Telling(u) PROVE Telling(u)'
  BY <1>1, <1>4, <1>5, <1>6, <1>8 DEF Telling
<1>9. ASSUME NEW w \in Entry, Converging(w) PROVE Converging(w)'
  <2>1. ~d.tell /\ (d.at \in Ends => d.val = w)
    BY <1>1, <1>4, <1>9 DEF Converging
  <2>2. ASSUME NEW f \in Ends PROVE (Settled(f, w) \/ Coming(f))'
    <3>1. f \in Engines
      BY EndsAssumption
    <3>2. CASE Settled(f, w)
      BY <1>1, <1>5, <2>1, <3>1, <3>2 DEF Settled
    <3>3. CASE Coming(f)
      BY <1>1, <1>4, <1>5, <1>6, <3>3 DEF Coming
    <3> QED BY <1>9, <3>2, <3>3 DEF Converging
  <2>3. ASSUME NEW u \in Tasks, NEW k \in task'[u]
        PROVE  ~k.tell /\ (k.at \in Ends => k.val = w /\ (k.stage = "persist" => routes'[k.at] = w))
    <3>1. CASE u = t
      BY <1>5, <2>1, <2>3, <3>1
    <3>2. CASE u # t
      <4>1. k \in task[u] /\ k.at \in Engines
        BY <1>2, <1>5, <2>3, <3>2 DEF Call
      <4> QED BY <1>4, <1>5, <1>9, <2>1, <4>1 DEF Converging
    <3> QED BY <3>1, <3>2
  <2> QED BY <1>1, <1>9, <2>2, <2>3 DEF Converging
<1> QED BY <1>1, <1>7, <1>8, <1>9 DEF IInv

LEMMA SaveAndTellInv == ASSUME IInv, NEW t \in Tasks, SaveAndTell(t) PROVE IInv'
<1>1. PICK c \in task[t] :
        /\ c.stage = "persist"
        /\ saved' = [saved EXCEPT ![c.at] = routes[c.at]]
        /\ IF c.tell THEN Tell(c) ELSE UNCHANGED <<msgs, clean>>
        /\ task' = [task EXCEPT ![t] = {}]
        /\ UNCHANGED <<routes, calm>>
  BY DEF SaveAndTell, Finish
<1>2. /\ c \in Call /\ c.at \in Engines /\ c.val \in Entry
      /\ task[t] = {c}
  BY DEF IInv, TypeOK, Call
<1>3. /\ saved' \in [Engines -> Entry] /\ saved'[c.at] = routes[c.at]
      /\ \A f \in Engines \ {c.at} : saved'[f] = saved[f]
      /\ task' \in [Tasks -> SUBSET Call] /\ task'[t] = {}
      /\ \A u \in Tasks \ {t} : task'[u] = task[u]
  BY <1>1, <1>2 DEF IInv, TypeOK
<1>4. TypeOK'
  <2>1. msgs' \subseteq Msg /\ clean' \in BOOLEAN
    <3>1. CASE c.tell
      <4>1. PICK known \in SUBSET Targets(c.at) :
              /\ msgs' = msgs \cup {[to |-> e, val |-> c.val] : e \in known}
              /\ clean' = (clean /\ known = Targets(c.at))
        BY <1>1, <3>1 DEF Tell
      <4>2. \A e \in known : [to |-> e, val |-> c.val] \in Msg
        BY <1>2 DEF Targets, Msg
      <4> QED BY <4>1, <4>2 DEF IInv, TypeOK
    <3>2. CASE ~c.tell
      BY <1>1, <3>2 DEF IInv, TypeOK
    <3> QED BY <3>1, <3>2
  <2> QED BY <1>1, <1>3, <2>1 DEF IInv, TypeOK
<1>5. ASSUME clean' PROVE \E w \in Entry : Converging(w)'
  <2>1. clean
    BY <1>1, <1>5 DEF Tell
  <2>2. CASE c.tell
    <3>1. Telling(t) /\ msgs' = {[to |-> e, val |-> c.val] : e \in Targets(c.at)}
      <4>1. Telling(t)
        BY <1>2, <2>1, <2>2 DEF IInv, Converging, Telling
      <4> QED BY <1>1, <1>5, <2>2, <4>1 DEF Tell, Telling
    <3>2. routes[c.at] = c.val
      BY <1>1, <1>2, <3>1 DEF Telling
    <3>3. \A f \in Ends : (Settled(f, c.val) \/ Coming(f))'
      <4>1. ASSUME NEW f \in Ends, f # c.at PROVE Coming(f)'
        <5>1. [to |-> f, val |-> c.val] \in msgs'
          BY <3>1, <4>1 DEF Targets
        <5> QED BY <5>1 DEF Coming
      <4>2. c.at \in Ends => Settled(c.at, c.val)'
        BY <1>1, <1>3, <3>2 DEF Settled
      <4> QED BY <4>1, <4>2
    <3>4. \A u \in Tasks : task'[u] = {}
      BY <1>3, <3>1 DEF Telling
    <3> QED BY <1>2, <3>1, <3>3, <3>4 DEF Converging
  <2>3. CASE ~c.tell
    <3>1. msgs' = msgs
      BY <1>1, <2>3
    <3>2. PICK w \in Entry : Converging(w)
      BY <1>2, <2>1, <2>3 DEF IInv, Telling
    <3>3. ASSUME NEW f \in Ends PROVE (Settled(f, w) \/ Coming(f))'
      <4>1. f \in Engines
        BY EndsAssumption
      <4>2. CASE f = c.at
        BY <1>1, <1>3, <3>2, <4>2 DEF Converging, Settled
      <4>3. CASE f # c.at
        BY <1>1, <1>2, <1>3, <3>1, <3>2, <4>1, <4>3 DEF Converging, Settled, Coming
      <4> QED BY <4>2, <4>3
    <3> QED BY <1>1, <1>3, <3>1, <3>2, <3>3 DEF Converging
  <2> QED BY <2>2, <2>3
<1> QED BY <1>4, <1>5 DEF IInv

LEMMA RestartInv == ASSUME IInv, NEW e \in Engines, Restart(e) PROVE IInv'
<1>1. /\ routes' = [routes EXCEPT ![e] = saved[e]]
      /\ task' = [t \in Tasks |-> {c \in task[t] : c.at # e}]
      /\ clean' = (clean /\ Quiet)
      /\ UNCHANGED <<saved, msgs, calm>>
  BY DEF Restart
<1>2. TypeOK'
  BY <1>1 DEF IInv, TypeOK
<1>3. ASSUME clean' PROVE \E w \in Entry : Converging(w)'
  <2>1. PICK w \in Entry : Converging(w) /\ \A f \in Ends : Settled(f, w)
    BY <1>1, <1>3, QuietIs
  <2>2. \A f \in Ends : Settled(f, w)'
    BY <1>1, <2>1, EndsAssumption DEF IInv, TypeOK, Settled
  <2>3. msgs' = {} /\ \A t \in Tasks : task'[t] = {}
    BY <1>1, <1>3 DEF Quiet
  <2> QED BY <2>2, <2>3 DEF Converging
<1> QED BY <1>2, <1>3 DEF IInv

LEMMA InitInv == ASSUME Init PROVE IInv
<1>1. TypeOK
  BY DEF Init, TypeOK, Entry
<1>2. Converging(Gone) /\ Gone \in Entry
  BY EndsAssumption DEF Init, Converging, Settled, Entry
<1> QED BY <1>1, <1>2 DEF IInv

LEMMA NextInv == IInv /\ [Next]_vars => IInv'
<1> SUFFICES ASSUME IInv, [Next]_vars PROVE IInv'
  OBVIOUS
<1>1. ASSUME NEW t \in Tasks, Request(t) \/ Deliver(t) \/ Handle(t) PROVE IInv'
  BY <1>1, RequestInv, DeliverInv, InsertInv, SaveAndTellInv DEF Handle
<1>2. ASSUME NEW t \in Tasks, Dropped(t) PROVE IInv'
  BY <1>2 DEF Dropped, Finish, IInv, TypeOK
<1>3. CASE Lost
  BY <1>3 DEF Lost, IInv, TypeOK
<1>4. ASSUME NEW e \in Engines, Restart(e) PROVE IInv'
  BY <1>4, RestartInv
<1>5. CASE Calm \/ UNCHANGED vars
  <2>1. UNCHANGED <<routes, saved, task, msgs, clean>> /\ calm' \in BOOLEAN
    BY <1>5 DEF Calm, vars, IInv, TypeOK
  <2>2. TypeOK'
    BY <2>1 DEF IInv, TypeOK
  <2>3. ASSUME NEW w \in Entry, Converging(w) PROVE Converging(w)'
    BY <2>1, <2>3 DEF Converging, Settled, Coming
  <2>4. ASSUME NEW t \in Tasks, Telling(t) PROVE Telling(t)'
    BY <2>1, <2>4 DEF Telling
  <2> QED BY <2>1, <2>2, <2>3, <2>4 DEF IInv
<1> QED BY <1>1, <1>2, <1>3, <1>4, <1>5 DEF Next

-----------------------------------------------------------------------------
\* Where a change is that nothing has crossed.
THEOREM Inductive == Spec => []IInv
  BY InitInv, NextInv, PTL DEF Spec

\* Every variable keeps its type, and a handler serves one request.
THEOREM TypeCorrect == Spec => []TypeOK
<1>1. IInv => TypeOK
  BY DEF IInv
<1> QED BY <1>1, Inductive, PTL

\* A change that nothing crosses, and whose messages arrive, leaves all ends
\* with the same route, saved, however far apart they were (routing.rs
\* 760-817): the ends it names are told even when the engine that was asked is
\* none of them.
THEOREM EndsMeet == Spec => []EndsAgree
<1>1. IInv => EndsAgree
  BY QuietIs DEF EndsAgree, Settled
<1> QED BY <1>1, Inductive, PTL
=============================================================================
