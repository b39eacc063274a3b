----------------------------- MODULE EventStream ----------------------------
(***************************************************************************)
(* What a browser sees of a route: the broadcast of events and snapshots,  *)
(* the WebSocket sessions of control/ws.rs, and the copy of the state the  *)
(* browser keeps (store.ts).                                               *)
(*                                                                         *)
(* The table is changed first and the event is sent later, by whoever      *)
(* changed it, in no agreed order.  A session sends a snapshot, then       *)
(* subscribes; from then on it forwards what is broadcast, until it lags   *)
(* further behind than the channel's buffer, which ends the forwarding but *)
(* not the connection.                                                     *)
(*                                                                         *)
(* One route stands for the keyed parts of the picture whose every change  *)
(* is announced.  (Peers that check_peers_once refreshes and manual hosts  *)
(* are not: they reach a browser with the next snapshot.)  Of a session,   *)
(* the channel's buffer and the connection are one queue.  The statistics  *)
(* that travel on it too are left out: what they say is RouteLifecycle's.  *)
(***************************************************************************)
EXTENDS Naturals, Sequences

CONSTANTS
  Browsers,
  Tasks,      (* a bound on the handlers that run at once                  *)
  Specs,      (* what the route may look like                              *)
  Buffer,     (* messages a session may be behind                          *)
  Gone        (* no route                                                  *)

ASSUME BufferAssumption == Buffer \in Nat \ {0}

VARIABLES
  route,      (* EngineState.routes                                        *)
  task,       (* the handlers                                              *)
  session,    (* per browser: its phase, and the snapshot it is to send    *)
  stream,     (* the messages on their way to it                           *)
  store,      (* the browser's copy of the route                           *)
  calm,       (* no more commands, faults or disconnections                *)
  clean       (* history, per browser: since the last undisturbed snapshot *)
              (* nothing has crossed                                       *)

vars == <<route, task, session, stream, store, calm, clean>>

Entry == Specs \cup {Gone}

Msg == [kind : {"state", "route"}, val : Entry]

\* A handler: it is about to insert a value, to announce one (what UpdateSpec
\* changes is announced twice), or to broadcast a snapshot.  "whole": no
\* change has crossed the snapshot.
Handler == [stage : {"insert", "first", "second", "announce", "refresh"},
            val : Entry, whole : BOOLEAN]
Idle    == [stage |-> "idle"]

TypeOK ==
  /\ route \in Entry
  /\ task \in [Tasks -> Handler \cup {Idle}]
  /\ session \in [Browsers -> [phase : {"off", "greet", "live", "deaf"}, snap : Entry]]
  /\ stream \in [Browsers -> Seq(Msg)] /\ \A b \in Browsers : Len(stream[b]) <= Buffer
  /\ store \in [Browsers -> Entry]
  /\ calm \in BOOLEAN /\ clean \in [Browsers -> BOOLEAN]

Init ==
  /\ route \in Entry
  /\ task = [t \in Tasks |-> Idle]
  /\ session = [b \in Browsers |-> [phase |-> "off", snap |-> Gone]]
  /\ stream = [b \in Browsers |-> <<>>]
  /\ store = [b \in Browsers |-> Gone]
  /\ calm = FALSE /\ clean = [b \in Browsers |-> FALSE]

-----------------------------------------------------------------------------
Phase(b) == session[b].phase

\* Tasks whose change is in the table and not yet announced, or whose
\* snapshot is taken and not yet sent.
Pending == {t \in Tasks : task[t].stage \notin {"idle", "insert"}}

Room(b) == Len(stream[b]) < Buffer

\* Faulty variant of Send: a slow browser just misses a message.
SendMutant(x) ==
  /\ stream' = [b \in Browsers |-> IF Phase(b) = "live" /\ Room(b)
                                   THEN Append(stream[b], x) ELSE stream[b]]
  /\ UNCHANGED session

(***************************************************************************)
(* state.events.send.  A session that has no room has lagged: its receiver *)
(* reports that instead of the next message, and the loop that forwards    *)
(* ends.  Some of what was on its way may have been forwarded before.      *)
(***************************************************************************)
Send(x) ==
  /\ \E k \in 0..Buffer :
       /\ k = Buffer \/ \E b \in Browsers : Phase(b) = "live" /\ ~Room(b)
       /\ stream' = [b \in Browsers |->
            IF Phase(b) # "live" THEN stream[b]
            ELSE IF Room(b) THEN Append(stream[b], x) ELSE SubSeq(stream[b], 1, k)]
  /\ session' = [b \in Browsers |-> IF Phase(b) = "live" /\ ~Room(b)
                                    THEN [session[b] EXCEPT !.phase = "deaf"] ELSE session[b]]

Set(t, h) == task' = [task EXCEPT ![t] = h]

-----------------------------------------------------------------------------
(* Handlers: apply_route, remove_route, UpdateSpec, and the two commands   *)
(* that broadcast a snapshot.                                              *)

\* A change goes into the table.  It crosses every snapshot and every other
\* change that has not been sent yet.
Put(t, v, next) ==
  /\ route' = v
  /\ task' = [u \in Tasks |-> IF u = t THEN [stage |-> next, val |-> v, whole |-> TRUE]
                              ELSE IF task[u].stage = "refresh" THEN [task[u] EXCEPT !.whole = FALSE]
                              ELSE task[u]]
  /\ clean' = [b \in Browsers |-> clean[b] /\ Pending \ {t} = {} /\ Phase(b) # "greet"]

\* AddRoute, POST, RemoveRoute, DELETE.
Change(t) ==
  /\ ~calm /\ task[t] = Idle
  /\ \E v \in Entry : Put(t, v, "announce")
  /\ UNCHANGED <<session, stream, store, calm>>

\* UpdateSpec clones the route, if there is one, and applies the clone with
\* the new specification.
UpdateSpec(t) ==
  /\ ~calm /\ task[t] = Idle /\ route # Gone
  /\ \E v \in Specs : Set(t, [stage |-> "insert", val |-> v, whole |-> TRUE])
  /\ UNCHANGED <<route, session, stream, store, calm, clean>>

Insert(t) ==
  /\ task[t].stage = "insert"
  /\ Put(t, task[t].val, "first")
  /\ UNCHANGED <<session, stream, store, calm>>

\* Faulty variant of Announce: a removal is not announced.
AnnounceMutant(t) ==
  /\ task[t].stage \in {"first", "second", "announce"}
  /\ IF task[t].val = Gone THEN UNCHANGED <<session, stream>>
                           ELSE Send([kind |-> "route", val |-> task[t].val])
  /\ Set(t, IF task[t].stage = "first" THEN [task[t] EXCEPT !.stage = "second"] ELSE Idle)
  /\ UNCHANGED <<route, store, calm, clean>>

\* RouteAdded or RouteRemoved at the end of apply_route or remove_route, and
\* RouteUpdated after an apply_route for UpdateSpec.
Announce(t) ==
  /\ task[t].stage \in {"first", "second", "announce"}
  /\ Send([kind |-> "route", val |-> task[t].val])
  /\ Set(t, IF task[t].stage = "first" THEN [task[t] EXCEPT !.stage = "second"] ELSE Idle)
  /\ UNCHANGED <<route, store, calm, clean>>

\* The peer or browser that sent a request gives up, and the server drops its
\* handler: nothing is announced.
Dropped(t) ==
  /\ ~calm /\ task[t].stage \in {"announce", "refresh"}
  /\ Set(t, Idle)
  /\ clean' = IF task[t].stage = "announce" THEN [b \in Browsers |-> FALSE] ELSE clean
  /\ UNCHANGED <<route, session, stream, store, calm>>

\* rescan_and_broadcast, set_interface_and_broadcast: a snapshot of
\* everything is taken, and sent a few awaits later.
Refresh(t) ==
  /\ ~calm /\ task[t] = Idle
  /\ Set(t, [stage |-> "refresh", val |-> route, whole |-> Pending = {}])
  /\ UNCHANGED <<route, session, stream, store, calm, clean>>

SendSnapshot(t) ==
  /\ task[t].stage = "refresh"
  /\ Send([kind |-> "state", val |-> task[t].val])
  /\ clean' = [b \in Browsers |-> IF Phase(b) = "live"
                                  THEN task[t].whole /\ session'[b].phase = "live" ELSE clean[b]]
  /\ Set(t, Idle)
  /\ UNCHANGED <<route, store, calm>>

-----------------------------------------------------------------------------
(* A session: serve_socket, and the browser's end of it.                   *)

\* The browser connects, at first or 1.5 s after it lost a connection; the
\* session takes a snapshot.
Connect(b) ==
  /\ Phase(b) = "off"
  /\ session' = [session EXCEPT ![b] = [phase |-> "greet", snap |-> route]]
  /\ clean' = [clean EXCEPT ![b] = Pending = {}]
  /\ UNCHANGED <<route, task, stream, store, calm>>

\* It sends it, and subscribes to what is broadcast from now on.
Greet(b) ==
  /\ Phase(b) = "greet"
  /\ stream' = [stream EXCEPT ![b] = <<[kind |-> "state", val |-> session[b].snap]>>]
  /\ session' = [session EXCEPT ![b] = [phase |-> "live", snap |-> Gone]]
  /\ UNCHANGED <<route, task, store, calm, clean>>

Disconnect(b) ==
  /\ ~calm /\ Phase(b) # "off"
  /\ session' = [session EXCEPT ![b] = [phase |-> "off", snap |-> Gone]]
  /\ stream' = [stream EXCEPT ![b] = <<>>]
  /\ UNCHANGED <<route, task, store, calm, clean>>

\* Faulty variant of Receive: a snapshot adds what it has and takes nothing
\* away.
ReceiveMutant(b) ==
  /\ stream[b] # <<>>
  /\ LET x == Head(stream[b]) IN
       store' = [store EXCEPT ![b] =
         IF x.kind = "state" /\ x.val = Gone THEN @ ELSE x.val]
  /\ stream' = [stream EXCEPT ![b] = Tail(@)]
  /\ UNCHANGED <<route, task, session, calm, clean>>

\* applyServerMsg: a snapshot replaces all routes, an event one.
Receive(b) ==
  /\ stream[b] # <<>>
  /\ store' = [store EXCEPT ![b] = Head(stream[b]).val]
  /\ stream' = [stream EXCEPT ![b] = Tail(@)]
  /\ UNCHANGED <<route, task, session, calm, clean>>

-----------------------------------------------------------------------------
Calm == ~calm /\ calm' = TRUE
        /\ UNCHANGED <<route, task, session, stream, store, clean>>

-----------------------------------------------------------------------------
Handle(t) == Insert(t) \/ Announce(t) \/ SendSnapshot(t)

Serve(b)  == Connect(b) \/ Greet(b) \/ Receive(b)

Next == \/ \E t \in Tasks : Change(t) \/ UpdateSpec(t) \/ Refresh(t) \/ Handle(t)
                          \/ Dropped(t)
        \/ \E b \in Browsers : Serve(b) \/ Disconnect(b)
        \/ Calm

Spec == Init /\ [][Next]_vars

\* Handlers go on, browsers reconnect and read.
Fairness == /\ \A t \in Tasks : WF_vars(Handle(t))
            /\ \A b \in Browsers : WF_vars(Serve(b))

FairSpec == Spec /\ Fairness

-----------------------------------------------------------------------------
(* Properties.                                                             *)

\* A browser that is up to date, and whose last snapshot and the changes
\* since did not cross, shows the route as it is, however wrong its picture
\* was before (serve_socket, applyServerMsg).
PictureTrue == \A b \in Browsers :
  Phase(b) = "live" /\ stream[b] = <<>> /\ Pending = {} /\ clean[b] => store[b] = route

\* A browser that has to reconnect after the last change gets the whole
\* truth and keeps it (the 1.5 s reconnect of store.ts, the snapshot of
\* serve_socket).
ReconnectHeals == \A b \in Browsers :
  calm /\ Phase(b) = "off" /\ (\A t \in Tasks : task[t] = Idle) ~> [](store[b] = route)
=============================================================================
