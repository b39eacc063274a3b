---------------------------- MODULE EventStreamProofs ---------------------------
(***************************************************************************)
(* Proofs about EventStream, for any number of handlers and browsers, any  *)
(* buffer and any state: a browser whose news did not cross shows what the *)
(* engine has.                                                             *)
(***************************************************************************)
EXTENDS EventStream, SequenceTheorems, TLAPS

\* Handlers that have changed the table and still have to say so.
Announcers == {t \in Tasks : task[t].stage \in {"first", "second", "announce"}}

\* What a browser will show once it has read everything.
Final(b) == IF stream[b] = <<>> THEN store[b] ELSE stream[b][Len(stream[b])].val

\* A snapshot that nothing crossed is still right, and nobody is about to
\* announce anything that is not in it.
WholeInv == \A t \in Tasks :
  task[t].stage = "refresh" /\ task[t].whole => task[t].val = route /\ Announcers = {}

\* What nothing has crossed leads to the route as it is: the snapshot of a
\* session that greets, what is on its way to one that is live, or else what
\* is yet to be announced.
FreshInv == \A b \in Browsers : clean[b] =>
  /\ Phase(b) = "greet" => session[b].snap = route /\ Announcers = {}
  /\ Phase(b) = "live" =>
       /\ \A t \in Announcers : task[t].val = route
       /\ Announcers = {} => Final(b) = route

IInv == TypeOK /\ WholeInv /\ FreshInv

-----------------------------------------------------------------------------
(* What the helpers do.                                                    *)

\* Taking the first message away leaves the last one where it was.
LEMMA TailKeepsLast ==
  ASSUME NEW S, NEW q \in Seq(S), q # <<>>
  PROVE  IF Tail(q) = <<>> THEN q[Len(q)] = Head(q) ELSE Tail(q)[Len(Tail(q))] = q[Len(q)]
<1> DEFINE n == Len(q)
           m == Len(Tail(q))
<1>1. n \in Nat \ {0} /\ Tail(q) \in Seq(S) /\ m = n - 1
  BY EmptySeq, HeadTailProperties
<1>2. \A i \in 1..m : Tail(q)[i] = q[i + 1]
  BY HeadTailProperties
<1>3. CASE Tail(q) = <<>>
  <2>1. m = 0
    BY <1>3, EmptySeq
  <2> HIDE DEF m, n
  <2>2. n = 1
    BY <1>1, <2>1
  <2>3. Head(q) = q[1]
    OBVIOUS
  <2> QED BY <1>3, <2>2, <2>3 DEF n
<1>4. CASE Tail(q) # <<>>
  <2>1. m \in Nat \ {0}
    BY <1>1, <1>4, EmptySeq
  <2> HIDE DEF m, n
  <2>2. m \in 1..m /\ m + 1 = n
    BY <1>1, <2>1
  <2>3. Tail(q)[m] = q[n]
    BY <1>2, <2>2
  <2> QED BY <1>4, <2>3 DEF m, n
<1> QED BY <1>3, <1>4

\* Handlers as a type: their stage decides which fields they have.
LEMMA HandlerIs ==
  ASSUME TypeOK, NEW t \in Tasks
  PROVE  /\ task[t].stage = "idle" => task[t] = Idle
         /\ task[t].stage # "idle" => task[t] \in Handler
         /\ task[t].stage # "idle" => task[t].val \in Entry /\ task[t].whole \in BOOLEAN
BY DEF TypeOK, Handler, Idle

LEMMA MsgIs ==
  ASSUME NEW v \in Entry, NEW k \in {"state", "route"}
  PROVE  \E x \in Msg : x = [kind |-> k, val |-> v] /\ x.val = v
<1>1. [kind |-> k, val |-> v] \in Msg
  BY DEF Msg
<1> WITNESS [kind |-> k, val |-> v] \in Msg
<1> QED OBVIOUS

LEMMA SetIs ==
  ASSUME TypeOK, NEW t \in Tasks, NEW h \in Handler \cup {Idle}, Set(t, h)
  PROVE  /\ task' \in [Tasks -> Handler \cup {Idle}]
         /\ task'[t] = h
         /\ \A u \in Tasks \ {t} : task'[u] = task[u]
BY DEF TypeOK, Set

\* A session that was live and had room has the message at the end; one that
\* had none is deaf; nothing happens to the others.
LEMMA SendIs ==
  ASSUME TypeOK, NEW x \in Msg, Send(x)
  PROVE  /\ stream' \in [Browsers -> Seq(Msg)] /\ \A b \in Browsers : Len(stream'[b]) <= Buffer
         /\ session' \in [Browsers -> [phase : {"off", "greet", "live", "deaf"}, snap : Entry]]
         /\ \A b \in Browsers :
              /\ Phase(b)' = "live" => Phase(b) = "live" /\ stream'[b] = Append(stream[b], x)
              /\ Phase(b)' = "greet" => session'[b] = session[b] /\ Phase(b) = "greet"
<1>1. PICK k \in 0..Buffer :
        stream' = [b \in Browsers |->
            IF Phase(b) # "live" THEN stream[b]
            ELSE IF Room(b) THEN Append(stream[b], x) ELSE SubSeq(stream[b], 1, k)]
  BY DEF Send
<1>2. session' = [b \in Browsers |-> IF Phase(b) = "live" /\ ~Room(b)
                                    THEN [session[b] EXCEPT !.phase = "deaf"] ELSE session[b]]
  BY DEF Send
<1>3. ASSUME NEW b \in Browsers
      PROVE  stream'[b] \in Seq(Msg) /\ Len(stream'[b]) <= Buffer
  <2>1. stream[b] \in Seq(Msg) /\ Len(stream[b]) \in Nat /\ Len(stream[b]) <= Buffer /\ Buffer \in Nat
    BY BufferAssumption DEF TypeOK
  <2>2. CASE Phase(b) # "live"
    BY <1>1, <2>1, <2>2
  <2>3. CASE Phase(b) = "live" /\ Room(b)
    BY <1>1, <2>1, <2>3 DEF Room
  <2>4. CASE Phase(b) = "live" /\ ~Room(b)
    <3>1. stream'[b] = SubSeq(stream[b], 1, k) /\ Len(stream[b]) = Buffer
      BY <1>1, <2>1, <2>4 DEF Room
    <3>2. \A i \in 1..k : i \in 1..Len(stream[b])
      BY <2>1, <3>1
    <3>3. SubSeq(stream[b], 1, k) \in Seq(Msg) /\ Len(SubSeq(stream[b], 1, k)) = k
      BY <2>1, <3>1, <3>2
    <3> QED BY <2>1, <3>1, <3>3
  <2> QED BY <2>2, <2>3, <2>4
<1>4. ASSUME NEW b \in Browsers
      PROVE  /\ session'[b] \in [phase : {"off", "greet", "live", "deaf"}, snap : Entry]
             /\ session'[b] = session[b] \/ session'[b].phase = "deaf"
             /\ session'[b].phase = "live" => Phase(b) = "live" /\ Room(b)
  <2>1. session[b] \in [phase : {"off", "greet", "live", "deaf"}, snap : Entry]
    BY DEF TypeOK
  <2>2. CASE Phase(b) = "live" /\ ~Room(b)
    BY <1>2, <2>1, <2>2 DEF Phase
  <2>3. CASE ~(Phase(b) = "live" /\ ~Room(b))
    BY <1>2, <2>1, <2>3 DEF Phase
  <2> QED BY <2>2, <2>3
<1> QED BY <1>1, <1>2, <1>3, <1>4 DEF Phase

\* After a message, that is the final one.
LEMMA FinalIs ==
  ASSUME TypeOK, NEW b \in Browsers, NEW x \in Msg, stream'[b] = Append(stream[b], x)
  PROVE  Final(b)' = x.val
<1>1. stream[b] \in Seq(Msg)
  BY DEF TypeOK
<1>2. stream'[b] # <<>> /\ stream'[b][Len(stream'[b])] = x
  BY <1>1
<1> QED BY <1>2 DEF Final

\* A change of the table by t.
LEMMA PutIs ==
  ASSUME IInv, NEW t \in Tasks, NEW v \in Entry, NEW next \in {"first", "announce"},
         Put(t, v, next), task[t].stage \in {"idle", "insert"},
         UNCHANGED <<session, stream, store, calm>>
  PROVE  IInv'
<1>1. \A u \in Tasks \ {t} :
        /\ task'[u].stage = task[u].stage
        /\ task'[u] \in Handler \cup {Idle}
        /\ task'[u].stage = "refresh" => ~task'[u].whole
  <2> SUFFICES ASSUME NEW u \in Tasks, u # t
               PROVE  /\ task'[u].stage = task[u].stage
                      /\ task'[u] \in Handler \cup {Idle}
                      /\ task'[u].stage = "refresh" => ~task'[u].whole
    OBVIOUS
  <2>1. CASE task[u].stage = "refresh"
    <3>1. task[u] \in Handler
      BY <2>1, HandlerIs DEF IInv
    <3>2. task'[u] = [task[u] EXCEPT !.whole = FALSE]
      BY <2>1 DEF Put
    <3> QED BY <3>1, <3>2 DEF Handler
  <2>2. CASE task[u].stage # "refresh"
    <3>1. task'[u] = task[u]
      BY <2>2 DEF Put
    <3> QED BY <2>2, <3>1 DEF IInv, TypeOK
  <2> QED BY <2>1, <2>2
<1>2. task'[t] \in Handler /\ task'[t].stage = next /\ task'[t].val = v
  <2>1. task'[t] = [stage |-> next, val |-> v, whole |-> TRUE]
    BY DEF Put
  <2> QED BY <2>1 DEF Handler
<1>3. TypeOK'
  <2>1. task' \in [Tasks -> Handler \cup {Idle}]
    <3>1. DOMAIN task' = Tasks /\ task' = [u \in Tasks |-> task'[u]]
      BY DEF Put
    <3>2. \A u \in Tasks : task'[u] \in Handler \cup {Idle}
      BY <1>1, <1>2
    <3> QED BY <3>1, <3>2
  <2>2. route' \in Entry /\ clean' \in [Browsers -> BOOLEAN]
    BY DEF Put
  <2> QED BY <2>1, <2>2 DEF IInv, TypeOK
<1>4. WholeInv'
  <2>1. ASSUME NEW u \in Tasks, task'[u].stage = "refresh" PROVE ~task'[u].whole
    BY <1>1, <1>2, <2>1
  <2> QED BY <2>1 DEF WholeInv
<1>5. FreshInv'
  <2> SUFFICES ASSUME NEW b \in Browsers, clean'[b]
               PROVE  /\ Phase(b)' # "greet"
                      /\ \A u \in Announcers' : task'[u].val = route'
                      /\ Announcers' # {}
    BY DEF FreshInv
  <2>1. clean[b] /\ Pending \ {t} = {} /\ Phase(b) # "greet"
    BY DEF Put
  <2>2. Announcers' \subseteq {t}
    <3> SUFFICES ASSUME NEW u \in Tasks, u # t, task'[u].stage \in {"first", "second", "announce"}
                 PROVE  FALSE
      BY DEF Announcers
    <3> QED BY <1>1, <2>1 DEF Pending
  <2>3. t \in Announcers' /\ task'[t].val = route'
    BY <1>2 DEF Announcers, Put
  <2> QED BY <2>1, <2>2, <2>3 DEF Phase
<1> QED BY <1>3, <1>4, <1>5 DEF IInv

-----------------------------------------------------------------------------
(* Handlers                                                                *)

\* A task that takes up something it has nothing to announce of, or puts such
\* a thing down.
LEMMA QuietTask ==
  ASSUME IInv, NEW t \in Tasks, NEW h \in Handler \cup {Idle}, Set(t, h),
         t \notin Announcers, h.stage \notin {"first", "second", "announce"},
         h.stage = "refresh" /\ h.whole => h.val = route /\ Announcers = {},
         UNCHANGED <<route, session, stream, store, calm, clean>>
  PROVE  IInv'
<1>1. /\ task' \in [Tasks -> Handler \cup {Idle}] /\ task'[t] = h
      /\ \A u \in Tasks \ {t} : task'[u] = task[u]
  BY SetIs DEF IInv
<1>2. Announcers' = Announcers
  BY <1>1 DEF Announcers
<1>3. TypeOK'
  BY <1>1 DEF IInv, TypeOK
<1>4. WholeInv'
  <2>1. ASSUME NEW u \in Tasks, task'[u].stage = "refresh" /\ task'[u].whole
        PROVE  task'[u].val = route' /\ Announcers' = {}
    BY <1>1, <1>2, <2>1 DEF IInv, WholeInv
  <2> QED BY <2>1 DEF WholeInv
<1>5. FreshInv'
  <2>1. \A u \in Announcers : task'[u] = task[u]
    BY <1>1 DEF Announcers
  <2> QED BY <1>2, <2>1 DEF IInv, FreshInv, Phase, Final
<1> QED BY <1>3, <1>4, <1>5 DEF IInv

LEMMA ChangeInv == ASSUME IInv, NEW t \in Tasks, Change(t) PROVE IInv'
<1>1. task[t].stage = "idle"
  BY DEF Change, Idle
<1>2. PICK v \in Entry : Put(t, v, "announce")
  BY DEF Change
<1> QED BY <1>1, <1>2, PutIs DEF Change

LEMMA InsertInv == ASSUME IInv, NEW t \in Tasks, Insert(t) PROVE IInv'
<1>1. task[t].stage = "insert" /\ task[t].val \in Entry
  BY HandlerIs DEF Insert, IInv
<1> QED BY <1>1, PutIs DEF Insert

LEMMA UpdateSpecInv == ASSUME IInv, NEW t \in Tasks, UpdateSpec(t) PROVE IInv'
<1>1. PICK v \in Specs : Set(t, [stage |-> "insert", val |-> v, whole |-> TRUE])
  BY DEF UpdateSpec
<1>2. PICK h : h = [stage |-> "insert", val |-> v, whole |-> TRUE]
  OBVIOUS
<1>3. h \in Handler /\ h.stage = "insert"
  BY <1>2 DEF Handler, Entry
<1>4. t \notin Announcers
  BY DEF UpdateSpec, Idle, Announcers
<1> QED BY <1>1, <1>2, <1>3, <1>4, QuietTask DEF UpdateSpec

LEMMA RefreshInv == ASSUME IInv, NEW t \in Tasks, Refresh(t) PROVE IInv'
<1>1. PICK whole \in BOOLEAN : whole <=> Pending = {}
  OBVIOUS
<1>2. PICK h : h = [stage |-> "refresh", val |-> route, whole |-> whole]
  OBVIOUS
<1>3. h \in Handler /\ h.stage = "refresh" /\ h.val = route /\ h.whole = whole
  BY <1>2 DEF Handler, IInv, TypeOK
<1>4. Set(t, h)
  <2>1. whole = (Pending = {})
    BY <1>1
  <2> QED BY <1>2, <2>1 DEF Refresh
<1>5. Announcers \subseteq Pending /\ t \notin Announcers
  BY DEF Announcers, Pending, Refresh, Idle
<1> QED BY <1>1, <1>3, <1>4, <1>5, QuietTask DEF Refresh

LEMMA AnnounceInv == ASSUME IInv, NEW t \in Tasks, Announce(t) PROVE IInv'
<1>1. t \in Announcers /\ task[t] \in Handler /\ task[t].val \in Entry
  BY HandlerIs DEF Announce, Announcers, IInv
<1>2. PICK x \in Msg : x = [kind |-> "route", val |-> task[t].val] /\ x.val = task[t].val
  BY <1>1, MsgIs
<1>3. Send(x) /\ UNCHANGED <<route, store, calm, clean>>
  BY <1>2 DEF Announce
<1>4. PICK h \in Handler \cup {Idle} :
        /\ Set(t, h)
        /\ h.stage \in {"idle", "second"}
        /\ h.stage = "second" => h.val = task[t].val
  <2>1. CASE task[t].stage = "first"
    <3>1. PICK h : h = [task[t] EXCEPT !.stage = "second"]
      OBVIOUS
    <3>2. h \in Handler /\ h.stage = "second" /\ h.val = task[t].val
      BY <1>1, <3>1 DEF Handler
    <3> QED BY <2>1, <3>1, <3>2 DEF Announce
  <2>2. CASE task[t].stage # "first"
    BY <2>2 DEF Announce, Idle
  <2> QED BY <2>1, <2>2
<1>5. /\ task' \in [Tasks -> Handler \cup {Idle}] /\ task'[t] = h
      /\ \A u \in Tasks \ {t} : task'[u] = task[u]
  BY <1>4, SetIs DEF IInv
<1>6. TypeOK'
  BY <1>3, <1>5, SendIs DEF IInv, TypeOK
<1>7. WholeInv'
  BY <1>1, <1>4, <1>5 DEF IInv, WholeInv
<1>8. FreshInv'
  <2> SUFFICES ASSUME NEW b \in Browsers, clean'[b]
               PROVE  /\ Phase(b)' = "greet" => session'[b].snap = route' /\ Announcers' = {}
                      /\ Phase(b)' = "live" =>
                           /\ \A u \in Announcers' : task'[u].val = route'
                           /\ Announcers' = {} => Final(b)' = route'
    BY DEF FreshInv
  <2>1. Phase(b)' # "greet"
    BY <1>1, <1>3, SendIs DEF IInv, FreshInv
  <2>2. ASSUME Phase(b)' = "live"
        PROVE  (\A u \in Announcers' : task'[u].val = route') /\ Final(b)' = route'
    <3>1. Phase(b) = "live" /\ stream'[b] = Append(stream[b], x)
      BY <1>3, <2>2, SendIs DEF IInv
    <3>2. \A u \in Announcers : task[u].val = route
      BY <1>3, <3>1 DEF IInv, FreshInv
    <3>3. Final(b)' = route'
      BY <1>1, <1>2, <1>3, <3>1, <3>2, FinalIs DEF IInv
    <3>4. ASSUME NEW u \in Announcers' PROVE task'[u].val = route'
      BY <1>1, <1>3, <1>4, <1>5, <3>2 DEF Announcers
    <3> QED BY <3>3, <3>4
  <2> QED BY <2>1, <2>2
<1> QED BY <1>6, <1>7, <1>8 DEF IInv

LEMMA SendSnapshotInv == ASSUME IInv, NEW t \in Tasks, SendSnapshot(t) PROVE IInv'
<1>1. task[t] \in Handler /\ task[t].val \in Entry /\ t \notin Announcers /\ task[t].whole \in BOOLEAN
  BY HandlerIs DEF SendSnapshot, Announcers, IInv
<1>2. PICK x \in Msg : x = [kind |-> "state", val |-> task[t].val] /\ x.val = task[t].val
  BY <1>1, MsgIs
<1>3. /\ Send(x) /\ UNCHANGED <<route, store, calm>> /\ Set(t, Idle)
      /\ task[t].stage = "refresh"
      /\ clean' = [b \in Browsers |-> IF Phase(b) = "live"
                                  THEN task[t].whole /\ session'[b].phase = "live" ELSE clean[b]]
  BY <1>2 DEF SendSnapshot
<1>4. /\ task' \in [Tasks -> Handler \cup {Idle}] /\ task'[t] = Idle
      /\ \A u \in Tasks \ {t} : task'[u] = task[u]
  BY <1>3, SetIs DEF IInv
<1>5. Announcers' = Announcers
  BY <1>1, <1>4 DEF Announcers, Idle
<1>6. TypeOK'
  <2>1. clean' \in [Browsers -> BOOLEAN]
    BY <1>1, <1>3 DEF IInv, TypeOK
  <2> QED BY <1>3, <1>4, <2>1, SendIs DEF IInv, TypeOK
<1>7. WholeInv'
  BY <1>3, <1>4, <1>5 DEF IInv, WholeInv, Idle
<1>8. FreshInv'
  <2> SUFFICES ASSUME NEW b \in Browsers, clean'[b]
               PROVE  /\ Phase(b)' = "greet" => session'[b].snap = route' /\ Announcers' = {}
                      /\ Phase(b)' = "live" => Announcers' = {} /\ Final(b)' = route'
    BY DEF FreshInv
  <2>1. ASSUME Phase(b)' = "greet" PROVE session'[b].snap = route' /\ Announcers' = {}
    BY <1>3, <1>5, <2>1, SendIs DEF IInv, FreshInv
  <2>2. ASSUME Phase(b)' = "live" PROVE Announcers' = {} /\ Final(b)' = route'
    <3>1. Phase(b) = "live" /\ stream'[b] = Append(stream[b], x)
      BY <1>3, <2>2, SendIs DEF IInv
    <3>2. task[t].whole
      BY <1>3, <3>1
    <3>3. task[t].val = route /\ Announcers = {}
      BY <1>3, <3>2 DEF IInv, WholeInv
    <3> QED BY <1>2, <1>3, <1>5, <3>1, <3>3, FinalIs DEF IInv
  <2> QED BY <2>1, <2>2
<1> QED BY <1>6, <1>7, <1>8 DEF IInv

LEMMA DroppedInv == ASSUME IInv, NEW t \in Tasks, Dropped(t) PROVE IInv'
<1>1. Set(t, Idle) /\ UNCHANGED <<route, session, stream, store, calm>> /\ Idle.stage = "idle"
  BY DEF Dropped, Idle
<1>2. CASE task[t].stage = "refresh"
  <2>1. clean' = clean /\ t \notin Announcers
    BY <1>2 DEF Dropped, Announcers
  <2> QED BY <1>1, <2>1, QuietTask
<1>3. CASE task[t].stage = "announce"
  <2>1. clean' = [b \in Browsers |-> FALSE]
    BY <1>3 DEF Dropped
  <2>2. /\ task' \in [Tasks -> Handler \cup {Idle}] /\ task'[t] = Idle
        /\ \A u \in Tasks \ {t} : task'[u] = task[u]
    BY <1>1, SetIs DEF IInv
  <2>3. TypeOK' /\ FreshInv'
    BY <1>1, <2>1, <2>2 DEF IInv, TypeOK, FreshInv
  <2>4. WholeInv'
    <3>1. Announcers' \subseteq Announcers
      BY <1>1, <2>2 DEF Announcers
    <3> QED BY <1>1, <2>2, <3>1 DEF IInv, WholeInv
  <2> QED BY <2>3, <2>4 DEF IInv
<1> QED BY <1>2, <1>3 DEF Dropped

-----------------------------------------------------------------------------
(* Sessions                                                                *)

LEMMA ConnectInv == ASSUME IInv, NEW b \in Browsers, Connect(b) PROVE IInv'
<1>1. UNCHANGED <<route, task, stream, store, calm>> /\ Announcers' = Announcers
  BY DEF Connect, Announcers
<1>2. PICK w : w = [phase |-> "greet", snap |-> route]
  OBVIOUS
<1>3. /\ session' = [session EXCEPT ![b] = w] /\ w.phase = "greet" /\ w.snap = route
      /\ w \in [phase : {"off", "greet", "live", "deaf"}, snap : Entry]
  BY <1>2 DEF Connect, IInv, TypeOK
<1>4. clean' = [clean EXCEPT ![b] = Pending = {}]
  BY DEF Connect
<1>5. TypeOK' /\ WholeInv'
  BY <1>1, <1>3, <1>4 DEF IInv, TypeOK, WholeInv
<1>6. FreshInv'
  <2>1. Announcers \subseteq Pending
    BY DEF Announcers, Pending
  <2>2. ASSUME NEW c \in Browsers, c # b PROVE session'[c] = session[c] /\ clean'[c] = clean[c]
    BY <1>3, <1>4, <2>2 DEF IInv, TypeOK
  <2>3. session'[b] = w /\ (clean'[b] => Pending = {})
    BY <1>3, <1>4 DEF IInv, TypeOK
  <2> QED BY <1>1, <1>3, <2>1, <2>2, <2>3 DEF IInv, FreshInv, Phase, Final
<1> QED BY <1>5, <1>6 DEF IInv

LEMMA GreetInv == ASSUME IInv, NEW b \in Browsers, Greet(b) PROVE IInv'
<1>1. UNCHANGED <<route, task, store, calm, clean>> /\ Announcers' = Announcers
  BY DEF Greet, Announcers
<1>2. PICK w : w = [phase |-> "live", snap |-> Gone]
  OBVIOUS
<1>3. PICK x \in Msg : x = [kind |-> "state", val |-> session[b].snap] /\ x.val = session[b].snap
  <2>1. session[b].snap \in Entry
    BY DEF IInv, TypeOK
  <2> QED BY <2>1, MsgIs
<1>4. /\ session' = [session EXCEPT ![b] = w] /\ w.phase = "live"
      /\ w \in [phase : {"off", "greet", "live", "deaf"}, snap : Entry]
      /\ stream' = [stream EXCEPT ![b] = <<x>>]
  BY <1>2, <1>3 DEF Greet, Entry
<1>5. <<x>> \in Seq(Msg) /\ Len(<<x>>) = 1 /\ <<x>> # <<>> /\ <<x>>[1] = x /\ 1 <= Buffer
  BY BufferAssumption
<1>6. TypeOK' /\ WholeInv'
  BY <1>1, <1>4, <1>5 DEF IInv, TypeOK, WholeInv
<1>7. FreshInv'
  <2>1. ASSUME NEW c \in Browsers, c # b PROVE session'[c] = session[c] /\ stream'[c] = stream[c]
    BY <1>4, <2>1 DEF IInv, TypeOK
  <2>2. session'[b] = w /\ stream'[b] = <<x>>
    BY <1>4 DEF IInv, TypeOK
  <2>3. Final(b)' = session[b].snap
    BY <1>3, <1>5, <2>2 DEF Final
  <2>4. clean[b] => session[b].snap = route /\ Announcers = {}
    BY DEF IInv, FreshInv, Greet
  <2>5. ASSUME NEW c \in Browsers, c # b PROVE Phase(c)' = Phase(c) /\ Final(c)' = Final(c)
    BY <1>1, <2>1, <2>5 DEF Phase, Final
  <2> QED BY <1>1, <1>4, <2>1, <2>2, <2>3, <2>4, <2>5 DEF IInv, FreshInv, Phase
<1> QED BY <1>6, <1>7 DEF IInv

LEMMA DisconnectInv == ASSUME IInv, NEW b \in Browsers, Disconnect(b) PROVE IInv'
<1>1. UNCHANGED <<route, task, store, calm, clean>> /\ Announcers' = Announcers
  BY DEF Disconnect, Announcers
<1>2. PICK w : w = [phase |-> "off", snap |-> Gone]
  OBVIOUS
<1>3. /\ session' = [session EXCEPT ![b] = w] /\ w.phase = "off"
      /\ w \in [phase : {"off", "greet", "live", "deaf"}, snap : Entry]
      /\ stream' = [stream EXCEPT ![b] = <<>>]
  BY <1>2 DEF Disconnect, Entry
<1>4. TypeOK' /\ WholeInv'
  <2>1. <<>> \in Seq(Msg) /\ Len(<<>>) = 0 /\ 0 <= Buffer
    BY BufferAssumption
  <2> QED BY <1>1, <1>3, <2>1 DEF IInv, TypeOK, WholeInv
<1>5. FreshInv'
  <2>1. ASSUME NEW c \in Browsers, c # b PROVE Phase(c)' = Phase(c) /\ Final(c)' = Final(c)
                                                /\ session'[c] = session[c]
    BY <1>1, <1>3, <2>1 DEF IInv, TypeOK, Phase, Final
  <2>2. Phase(b)' = "off"
    BY <1>3 DEF IInv, TypeOK, Phase
  <2> QED BY <1>1, <2>1, <2>2 DEF IInv, FreshInv
<1> QED BY <1>4, <1>5 DEF IInv

LEMMA ReceiveInv == ASSUME IInv, NEW b \in Browsers, Receive(b) PROVE IInv'
<1>1. UNCHANGED <<route, task, session, calm, clean>> /\ Announcers' = Announcers
  BY DEF Receive, Announcers
<1>2. /\ stream[b] \in Seq(Msg) /\ stream[b] # <<>> /\ Len(stream[b]) <= Buffer
      /\ store' = [store EXCEPT ![b] = Head(stream[b]).val]
      /\ stream' = [stream EXCEPT ![b] = Tail(stream[b])]
  BY DEF Receive, IInv, TypeOK
<1>3. /\ Head(stream[b]) \in Msg /\ Tail(stream[b]) \in Seq(Msg) /\ Len(Tail(stream[b])) <= Buffer
      /\ Head(stream[b]).val \in Entry
  <2>1. Head(stream[b]) \in Msg /\ Tail(stream[b]) \in Seq(Msg) /\ Len(Tail(stream[b])) = Len(stream[b]) - 1
    BY <1>2, HeadTailProperties
  <2>2. Len(stream[b]) \in Nat /\ Buffer \in Nat
    BY <1>2, LenProperties, BufferAssumption
  <2>3. \A m \in Msg : m.val \in Entry
    BY DEF Msg
  <2> QED BY <1>2, <2>1, <2>2, <2>3
<1>4. TypeOK' /\ WholeInv'
  BY <1>1, <1>2, <1>3 DEF IInv, TypeOK, WholeInv
<1>5. Final(b)' = Final(b)
  <2>1. stream'[b] = Tail(stream[b]) /\ store'[b] = Head(stream[b]).val
    BY <1>2 DEF IInv, TypeOK
  <2>2. Final(b) = stream[b][Len(stream[b])].val
    BY <1>2 DEF Final
  <2>3. IF Tail(stream[b]) = <<>> THEN stream[b][Len(stream[b])] = Head(stream[b])
        ELSE Tail(stream[b])[Len(Tail(stream[b]))] = stream[b][Len(stream[b])]
    BY <1>2, TailKeepsLast
  <2> QED BY <2>1, <2>2, <2>3 DEF Final
<1>6. \A c \in Browsers : Phase(c)' = Phase(c) /\ Final(c)' = Final(c)
  BY <1>1, <1>2, <1>5 DEF IInv, TypeOK, Phase, Final
<1>7. FreshInv'
  BY <1>1, <1>6 DEF IInv, FreshInv
<1> QED BY <1>4, <1>7 DEF IInv

-----------------------------------------------------------------------------
LEMMA InitInv == ASSUME Init PROVE IInv
<1>1. \A t \in Tasks : task[t] = Idle /\ Idle.stage = "idle"
  BY DEF Init, Idle
<1>2. TypeOK
  <2>1. [phase |-> "off", snap |-> Gone] \in [phase : {"off", "greet", "live", "deaf"}, snap : Entry]
    BY DEF Entry
  <2>2. <<>> \in Seq(Msg) /\ Len(<<>>) = 0 /\ 0 <= Buffer
    BY BufferAssumption
  <2> QED BY <2>1, <2>2 DEF Init, TypeOK, Entry
<1>3. WholeInv /\ FreshInv
  BY <1>1 DEF Init, WholeInv, FreshInv
<1> QED BY <1>2, <1>3 DEF IInv

LEMMA NextInv == IInv /\ [Next]_vars => IInv'
<1> SUFFICES ASSUME IInv, [Next]_vars PROVE IInv'
  OBVIOUS
<1>1. ASSUME NEW t \in Tasks, Change(t) \/ UpdateSpec(t) \/ Refresh(t) \/ Handle(t) \/ Dropped(t)
      PROVE  IInv'
  BY <1>1, ChangeInv, UpdateSpecInv, RefreshInv, InsertInv, AnnounceInv, SendSnapshotInv, DroppedInv
     DEF Handle
<1>2. ASSUME NEW b \in Browsers, Serve(b) \/ Disconnect(b) PROVE IInv'
  BY <1>2, ConnectInv, GreetInv, ReceiveInv, DisconnectInv DEF Serve
<1>3. CASE Calm \/ UNCHANGED vars
  <2>1. UNCHANGED <<route, task, session, stream, store, clean>> /\ calm' \in BOOLEAN
    BY <1>3 DEF Calm, vars, IInv, TypeOK
  <2>2. Announcers' = Announcers
    BY <2>1 DEF Announcers
  <2> QED BY <2>1, <2>2 DEF IInv, TypeOK, WholeInv, FreshInv, Phase, Final
<1> QED BY <1>1, <1>2, <1>3 DEF Next

\* What is on its way to a browser that nothing has crossed.
THEOREM Inductive == Spec => []IInv
  BY InitInv, NextInv, PTL DEF Spec

\* Every variable keeps its type: a session is never further behind than the
\* channel's buffer.
THEOREM TypeCorrect == Spec => []TypeOK
<1>1. IInv => TypeOK
  BY DEF IInv
<1> QED BY <1>1, Inductive, PTL

\* A browser that has read everything, and whose last snapshot and the
\* changes since did not cross, shows the route as it is, whatever it showed
\* before and however many handlers were at work (ws.rs 47-75, store.ts).
THEOREM PictureHolds == Spec => []PictureTrue
<1>1. IInv => PictureTrue
  <2>1. Announcers \subseteq Pending
    BY DEF Announcers, Pending
  <2> QED BY <2>1 DEF IInv, FreshInv, PictureTrue, Final
<1> QED BY <1>1, Inductive, PTL
=============================================================================
