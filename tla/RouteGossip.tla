----------------------------- MODULE RouteGossip ----------------------------
(***************************************************************************)
(* One route in the tables of several engines: apply_route, remove_route   *)
(* and gossip_add, gossip_remove of routing.rs, the HTTP handlers in front *)
(* of them, and the restart of an engine from its saved routes.            *)
(*                                                                         *)
(* A request changes the table of the engine it reaches, saves, and sends  *)
(* the change to the route's two ends, each time by a thread of its own:   *)
(* once, in no order, with a timeout of three seconds and no retry.  What  *)
(* arrives runs the same handler with gossip switched off.                 *)
(*                                                                         *)
(* A save is one step here; ConfigFile has its steps.  The workers that a  *)
(* change starts and stops are RouteLifecycle's.  The ends of the route    *)
(* are fixed: no command of the browser changes them.                      *)
(***************************************************************************)
EXTENDS Naturals, FiniteSets

CONSTANTS
  Engines,
  Ends,       (* the engines the route names                               *)
  Specs,      (* what the route may look like                              *)
  Tasks,      (* a bound on the handlers that run at once                  *)
  MaxMsgs,    (* a bound on the messages on their way                      *)
  Gone        (* no route                                                  *)

ASSUME EndsAssumption == Ends \subseteq Engines /\ Gone \notin Specs

VARIABLES
  routes,     (* EngineState.routes, per engine                            *)
  saved,      (* what each engine would restart with                       *)
  task,       (* the handlers: {} or one record per task                   *)
  msgs,       (* requests on their way from engine to engine               *)
  calm,       (* no more requests, kills or dropped handlers               *)
  clean       (* history: nothing has crossed, been lost, refused or cut   *)
              (* short since the last change that was made alone           *)

vars == <<routes, saved, task, msgs, calm, clean>>

Entry == Specs \cup {Gone}
Msg   == [to : Ends, val : Entry]
Call  == [at : Engines, val : Entry, tell : BOOLEAN, stage : {"insert", "persist"}]

TypeOK ==
  /\ routes \in [Engines -> Entry]
  /\ saved \in [Engines -> Entry]
  /\ task \in [Tasks -> SUBSET Call] /\ \A t \in Tasks : \A c, d \in task[t] : c = d
  /\ msgs \subseteq Msg
  /\ calm \in BOOLEAN /\ clean \in BOOLEAN

Init ==
  /\ routes = [e \in Engines |-> Gone]
  /\ saved = routes
  /\ task = [t \in Tasks |-> {}]
  /\ msgs = {}
  /\ calm = FALSE /\ clean = TRUE

-----------------------------------------------------------------------------
\* Nothing runs and nothing is on its way.
Quiet == msgs = {} /\ \A t \in Tasks : task[t] = {}

Finish(t) == task' = [task EXCEPT ![t] = {}]

(***************************************************************************)
(* The head of apply_route and remove_route.  The first asks whether the   *)
(* route is new or changed and then inserts it; the second takes it out at *)
(* once, and has something to tell the others if it was there.  Until a    *)
(* request gets this far it may as well be on its way.                     *)
(***************************************************************************)
Begin(t, e, v, g) ==
  /\ task[t] = {}
  /\ task' = [task EXCEPT ![t] = {[at |-> e, val |-> v, tell |-> g /\ routes[e] # v,
                                  stage |-> IF v = Gone THEN "persist" ELSE "insert"]}]
  /\ routes' = IF v = Gone THEN [routes EXCEPT ![e] = Gone] ELSE routes

-----------------------------------------------------------------------------
(* The requests, by a browser or by another engine's gossip.               *)

\* A change that is made while nothing else goes on puts an end to whatever
\* differed before; a request that changes nothing is not passed on.
Request(t) ==
  /\ ~calm /\ Cardinality(msgs) < MaxMsgs
  /\ \E e \in Engines, v \in Entry :
       /\ Begin(t, e, v, TRUE)
       /\ clean' = (Quiet /\ (clean \/ routes[e] # v))
  /\ UNCHANGED <<saved, msgs, calm>>

\* Faulty variant of Deliver: the receiver passes the change on.
DeliverMutant(t) ==
  /\ \E x \in msgs : Begin(t, x.to, x.val, TRUE) /\ msgs' = msgs \ {x}
  /\ UNCHANGED <<saved, calm, clean>>

Deliver(t) ==
  /\ \E x \in msgs : Begin(t, x.to, x.val, FALSE) /\ msgs' = msgs \ {x}
  /\ UNCHANGED <<saved, calm, clean>>

\* The far engine is down, does not answer in time, or refuses what its
\* ports do not allow (validate_route).
Lost ==
  /\ \E x \in msgs : msgs' = msgs \ {x}
  /\ clean' = FALSE
  /\ UNCHANGED <<routes, saved, task, calm>>

-----------------------------------------------------------------------------
(* The rest of apply_route and remove_route.                               *)

Insert(t) == \E c \in task[t] :
  /\ c.stage = "insert"
  /\ routes' = [routes EXCEPT ![c.at] = c.val]
  /\ task' = [task EXCEPT ![t] = {[c EXCEPT !.stage = "persist"]}]
  /\ UNCHANGED <<saved, msgs, calm, clean>>

\* gossip_targets: the ends other than this engine.
Targets(e) == Ends \ {e}

\* gossip_add, gossip_remove: to the targets it knows.
Tell(c) ==
  \E known \in SUBSET Targets(c.at) :
    /\ msgs' = msgs \cup {[to |-> e, val |-> c.val] : e \in known}
    /\ clean' = (clean /\ known = Targets(c.at))

\* Faulty variant of SaveAndTell: what is saved is what the request brought.
SaveAndTellMutant(t) == \E c \in task[t] :
  /\ c.stage = "persist"
  /\ saved' = [saved EXCEPT ![c.at] = IF c.tell THEN c.val ELSE @]
  /\ IF c.tell THEN Tell(c) ELSE UNCHANGED <<msgs, clean>>
  /\ Finish(t)
  /\ UNCHANGED <<routes, calm>>

\* persist, then the gossip.  (The wait for the route's lock in between, or
\* before the persist, is part of the message's way.)
SaveAndTell(t) == \E c \in task[t] :
  /\ c.stage = "persist"
  /\ saved' = [saved EXCEPT ![c.at] = routes[c.at]]
  /\ IF c.tell THEN Tell(c) ELSE UNCHANGED <<msgs, clean>>
  /\ Finish(t)
  /\ UNCHANGED <<routes, calm>>

\* The connection of the request closes, in gossip's case by its timeout,
\* and the handler is dropped at one of its awaits.
Dropped(t) == \E c \in task[t] :
  /\ ~calm /\ c.stage = "persist"
  /\ Finish(t)
  /\ clean' = FALSE
  /\ UNCHANGED <<routes, saved, msgs, calm>>

-----------------------------------------------------------------------------
(* An engine is killed and started again: main.rs inserts the saved routes *)
(* and tells nobody.                                                       *)

Restart(e) ==
  /\ ~calm
  /\ routes' = [routes EXCEPT ![e] = saved[e]]
  /\ task' = [t \in Tasks |-> {c \in task[t] : c.at # e}]
  /\ clean' = (clean /\ Quiet)
  /\ UNCHANGED <<saved, msgs, calm>>

Calm == ~calm /\ calm' = TRUE /\ UNCHANGED <<routes, saved, task, msgs, clean>>

-----------------------------------------------------------------------------
Handle(t) == Insert(t) \/ SaveAndTell(t)

Next == \/ \E t \in Tasks : Request(t) \/ Deliver(t) \/ Handle(t) \/ Dropped(t)
        \/ Lost \/ Calm
        \/ \E e \in Engines : Restart(e)

Spec == Init /\ [][Next]_vars

\* A handler that has started goes on, and a message arrives or is given up:
\* the three seconds see to it.
Fairness == /\ \A t \in Tasks : WF_vars(Handle(t))
            /\ WF_vars(Lost \/ \E t \in Tasks : Deliver(t))

FairSpec == Spec /\ Fairness

-----------------------------------------------------------------------------
(* Properties.                                                             *)

\* A change that nothing crosses, and whose messages arrive, leaves the two
\* ends with the same route and with the same to restart from, however far
\* apart they were before.
EndsAgree ==
  Quiet /\ clean => \A e, f \in Ends : routes[e] = routes[f] /\ saved[e] = routes[e]

\* Gossip dies out: engines never bounce a change between them for ever
\* (routing.rs 761-764).
GossipQuiesces == calm ~> []Quiet
=============================================================================
