----------------------------- MODULE PeerTable ------------------------------
(***************************************************************************)
(* What one engine knows of the others: discovery.rs, with the handler of  *)
(* a peer's pushed port list (control/mod.rs).                             *)
(*                                                                         *)
(* Several tasks write the one table `peers`, keyed by node id: the mDNS   *)
(* loop, the probes of hosts the operator named, the liveness check that   *)
(* walks a snapshot of the table every ten seconds, the operator's         *)
(* removals, and the peers themselves.  All but the last two ask an        *)
(* address first and act on the answer later, when the table may have      *)
(* changed.                                                                *)
(*                                                                         *)
(* An address stands for an address and control port.  What a record holds *)
(* besides its address is not told apart.  The engine's own announcements, *)
(* which it skips, are left out.                                           *)
(***************************************************************************)
EXTENDS Naturals

CONSTANTS
  Ids,        (* node ids of other engines                                 *)
  Addrs,
  Lan,        (* the addresses mDNS reaches                                *)
  Tenants,    (* Tenants[a]: the engines that address a may be given to    *)
  Home,       (* Home[i]: where engine i believes to be reachable          *)
  Threshold,  (* LIVENESS_FAILURE_THRESHOLD                                *)
  Nobody,     (* no answer, or no engine at an address                     *)
  Nowhere     (* no record                                                 *)

ASSUME AddrsAssumption == /\ Lan \subseteq Addrs
                          /\ Home \in [Ids -> Addrs]
                          /\ Tenants \in [Addrs -> SUBSET Ids]
ASSUME ThresholdAssumption == Threshold \in Nat \ {0}
ASSUME SentinelAssumption == Nobody \notin Ids /\ Nowhere \notin Addrs

VARIABLES
  at,         (* the world: which engine answers at an address             *)
  peers,      (* EngineState.peers: the address on record                  *)
  manual,     (* EngineState.manual_hosts                                  *)
  failures,   (* the liveness task's own counts                            *)
  fetched,    (* the answer a fetch_peer_state has got from an address and *)
              (* not yet acted upon, or Nobody                             *)
  todo,       (* what the liveness check has yet to ask; a set of records  *)
  asked,      (* the record it has asked for, with the answer: {} or one   *)
  checking,   (* it is between two ticks, or in one                        *)
  calm        (* no more changes of the world and no more lost requests    *)

check   == <<failures, todo, asked, checking>>
vars    == <<at, peers, manual, fetched, check, calm>>

Answer == Ids \cup {Nobody}

TypeOK ==
  /\ at \in [Addrs -> Answer]
  /\ peers \in [Ids -> Addrs \cup {Nowhere}]
  /\ manual \subseteq Addrs
  /\ failures \in [Ids -> 0..Threshold - 1]
  /\ fetched \in [Addrs -> Answer]
  /\ todo \in SUBSET [id : Ids, addr : Addrs]
  /\ asked \in SUBSET [id : Ids, addr : Addrs, reply : Answer]
  /\ checking \in BOOLEAN
  /\ calm \in BOOLEAN

Init ==
  /\ at \in {w \in [Addrs -> Answer] : \A a \in Addrs : w[a] \in Tenants[a] \cup {Nobody}}
  /\ peers = [i \in Ids |-> Nowhere]
  /\ manual = {}
  /\ failures = [i \in Ids |-> 0]
  /\ fetched = [a \in Addrs |-> Nobody]
  /\ todo = {} /\ asked = {} /\ checking = FALSE
  /\ calm = FALSE

-----------------------------------------------------------------------------
Known(i) == peers[i] # Nowhere

\* What GET /api/state at an address may come back with: the id of whoever
\* is there, or nothing, in time.
Reply(a) == {at[a]} \cup (IF calm THEN {} ELSE {Nobody})

\* state.peers.insert, at the address that answered (merge_reachable).
Record(i, a) == [peers EXCEPT ![i] = a]

-----------------------------------------------------------------------------
(* fetch_peer_state, by the mDNS loop or a probe.                          *)

\* A set of addresses is asked.  One answer per address is on its way at a
\* time: a bound.
Fetch(addrs) ==
  fetched' \in {f \in [Addrs -> Answer] : \A a \in Addrs :
                  IF a \in addrs /\ fetched[a] = Nobody THEN f[a] \in Reply(a)
                                                        ELSE f[a] = fetched[a]}

\* It comes back.
Fetched(a) ==
  /\ fetched[a] # Nobody
  /\ peers' = Record(fetched[a], a)
  /\ fetched' = [fetched EXCEPT ![a] = Nobody]
  /\ UNCHANGED <<at, manual, check, calm>>

-----------------------------------------------------------------------------
(* The mDNS loop.  (It waits for its fetch before it looks at the next      *)
(* event; here it does not.)                                               *)

\* ServiceResolved: the state is fetched from the address announced.
Resolve(a) ==
  /\ ~calm
  /\ Fetch({a})
  /\ UNCHANGED <<at, peers, manual, check, calm>>

\* ServiceRemoved: a goodbye, or a record that ran out.
Goodbye(i) ==
  /\ ~calm /\ Known(i)
  /\ peers' = [peers EXCEPT ![i] = Nowhere]
  /\ UNCHANGED <<at, manual, fetched, check, calm>>

-----------------------------------------------------------------------------
(* Hosts added by hand.                                                    *)

\* probe_manual: a fetch of its own for each of them.
AddManual(a) ==
  /\ ~calm
  /\ manual' = manual \cup {a}
  /\ Fetch({a})
  /\ UNCHANGED <<at, peers, check, calm>>

RemoveManual(a) ==
  /\ ~calm /\ a \in manual
  /\ manual' = manual \ {a}
  /\ peers' = [i \in Ids |-> IF peers[i] = a THEN Nowhere ELSE peers[i]]
  /\ UNCHANGED <<at, fetched, check, calm>>

-----------------------------------------------------------------------------
(* spawn_liveness_checker: check_peers_once, then reprobe_manual_hosts.    *)

\* The snapshot; counts of ids that have left are dropped.
Tick ==
  /\ ~checking /\ checking' = TRUE
  /\ todo' = {[id |-> i, addr |-> peers[i]] : i \in {j \in Ids : Known(j)}}
  /\ failures' = [i \in Ids |-> IF Known(i) THEN failures[i] ELSE 0]
  /\ UNCHANGED <<at, peers, manual, fetched, asked, calm>>

Ask ==
  /\ asked = {}
  /\ \E e \in todo : /\ todo' = todo \ {e}
                     /\ \E r \in Reply(e.addr) :
                          asked' = {[id |-> e.id, addr |-> e.addr, reply |-> r]}
  /\ UNCHANGED <<at, peers, manual, fetched, failures, checking, calm>>

\* Faulty variant of Answered: a stale id is left next to the real one.
AnsweredMutant(e) ==
  /\ e.reply # Nobody
  /\ failures' = [failures EXCEPT ![e.id] = 0]
  /\ peers' = Record(e.reply, e.addr)

\* The address answers: under its id, or under another one, which replaces it.
Answered(e) ==
  /\ e.reply # Nobody
  /\ failures' = [failures EXCEPT ![e.id] = 0]
  /\ peers' = [Record(e.reply, e.addr) EXCEPT ![e.id] = IF e.reply = e.id THEN @ ELSE Nowhere]

\* It does not; the last of Threshold failures drops the record.
Unanswered(e) ==
  /\ e.reply = Nobody
  /\ failures' = [failures EXCEPT ![e.id] = (@ + 1) % Threshold]
  /\ peers' = IF failures[e.id] + 1 = Threshold THEN [peers EXCEPT ![e.id] = Nowhere] ELSE peers

Judge ==
  /\ \E e \in asked : Answered(e) \/ Unanswered(e)
  /\ asked' = {}
  /\ UNCHANGED <<at, manual, fetched, todo, checking, calm>>

\* Faulty variant of Missing: nothing is ever missed.
MissingMutant == {}

\* The manual hosts no record points at.
Missing == {a \in manual : \A i \in Ids : peers[i] # a}

Reprobe ==
  /\ checking /\ todo = {} /\ asked = {}
  /\ Fetch(Missing)
  /\ checking' = FALSE
  /\ UNCHANGED <<at, peers, manual, failures, todo, asked, calm>>

-----------------------------------------------------------------------------
(* The peers and the world.                                                *)

\* peer_ports_handler: a peer's own description of itself, as it stands.
PortsPushed(i) ==
  /\ ~calm
  /\ peers' = Record(i, Home[i])
  /\ UNCHANGED <<at, manual, fetched, check, calm>>

\* An engine starts, stops, changes its id or its address.
Change(a) ==
  /\ ~calm
  /\ \E x \in (Tenants[a] \cup {Nobody}) \ {at[a]} : at' = [at EXCEPT ![a] = x]
  /\ UNCHANGED <<peers, manual, fetched, check, calm>>

Calm == ~calm /\ calm' = TRUE /\ UNCHANGED <<at, peers, manual, fetched, check>>

-----------------------------------------------------------------------------
CheckStep == Tick \/ Ask \/ Judge \/ Reprobe

Next ==
  \/ \E a \in Lan : Resolve(a)
  \/ \E i \in Ids : Goodbye(i) \/ PortsPushed(i)
  \/ \E a \in Addrs : AddManual(a) \/ RemoveManual(a) \/ Fetched(a) \/ Change(a)
  \/ CheckStep
  \/ Calm

Spec == Init /\ [][Next]_vars

(* Fairness: the liveness task's interval keeps ticking, and every request *)
(* comes back, its timeout at the latest.  Nothing is assumed of mDNS.     *)
FairSpec ==
  /\ Spec
  /\ WF_vars(CheckStep)
  /\ \A a \in Addrs : WF_vars(Fetched(a))

-----------------------------------------------------------------------------
\* Every record is true: the engine it names answers at its address.
Sound == \A i \in Ids : Known(i) => at[peers[i]] = i

\* Every host the operator named has a record, if it answers.
Complete == \A a \in manual : at[a] # Nobody => Known(at[a])

\* Once the world is still, every record comes true and stays so: dead peers
\* have left the table, moved ones and stale ids too, with no goodbye from
\* anybody (discovery.rs 198-202, 250-262).
TableSettles == calm ~> [](\A i \in Ids : Known(i) => at[peers[i]] = i)

\* A named host that answers is known from some point on, without the operator
\* and without mDNS, even if it had been dropped (discovery.rs 306-319).
ManualReturns ==
  calm ~> [](\A a \in manual : at[a] # Nobody => Known(at[a]))
=============================================================================
