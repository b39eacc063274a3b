---------------------------- MODULE StreamSetup -----------------------------
(***************************************************************************)
(* The opening of streams between TWO engines: routes from a source engine *)
(* to a destination engine, which know of each other's choices only what   *)
(* the Route value says.  The source opens a roc sender towards the ports  *)
(* it computes, the destination opens its playback device and then binds   *)
(* the ports it computes, one after another, next to the workers of other  *)
(* routes.  routing.rs (try_start_inner, route_port, port_conflicts),      *)
(* transport/, audio/pcm.rs and audio/devices.rs, over StreamMath.         *)
(* The devices are the raw ones: a plughw port converts, and takes         *)
(* whatever a route asks for.                                              *)
(*                                                                         *)
(* Which tasks start and stop the halves, and when, is RouteLifecycle's: a *)
(* half that is not up may be started, a change takes it down.  The id of  *)
(* a route is its hash; the stream part of a Route value is a Spec.        *)
(***************************************************************************)
EXTENDS StreamMath, SequencesExt

CONSTANTS
  Routes,
  Hashes,     (* Hashes[r]: the values DefaultHasher may give route r      *)
  Offered,    (* Offered[r]: the Specs the operator may choose for r       *)
  Base,       (* the destination's audio port, as its record says          *)
  Worlds,     (* the devices and the links there may be                    *)
  Cards,      (* the destination's sound cards                             *)
  CardId,     (* CardId[c]: the card's id, or NoId                         *)
  Patched,    (* Patched[r]: the card route r was patched to               *)
  FirstSlot,  (* the cards' first numbering (others are renamings of it)   *)
  NoSpec, NoRoute, NoEntry

Engines == {"src", "dst"}
Slots   == 0..Cardinality(Cards) - 1

ASSUME BaseAssumption   == Base \in 0..U16 - 1
ASSUME NamesAssumption  == NoRoute \notin Routes
ASSUME HashesAssumption == \A r \in Routes : Hashes[r] \subseteq Nat
\* A route without channels is refused (routing.rs 397).
ASSUME OfferedAssumption == \A r \in Routes : \A s \in Offered[r] :
  /\ s # NoSpec /\ s.format \in Formats /\ s.fec \in BOOLEAN
  /\ s.rate \in Nat /\ s.channels \in Nat \ {0} /\ s.period \in Nat
  /\ s.from \in Nat /\ s.to \in Nat
ASSUME WorldsAssumption == \A w \in Worlds :
  /\ w.capture.formats \subseteq Formats /\ w.playback.formats \subseteq Formats
  /\ w.playback.buffer \in Nat \ {0} /\ w.mtu \in Nat /\ w.pinned \in BOOLEAN
ASSUME CardsAssumption ==
  \A c, d \in Cards : CardId[c] = CardId[d] /\ CardId[c] # NoId => c = d
ASSUME PatchedAssumption == \A r \in Routes : Patched[r] \in Cards

VARIABLES
  world,  (* what the devices can do, and the sender's link; never changes *)
  hash,   (* the hash of each route's id; never changes                    *)
  stored, (* the name of the port each route was patched to; never changes *)
  slot,   (* the index the kernel gave each card                           *)
  table,  (* local_ports of the destination: name -> what it is listed     *)
          (* with, or NoEntry                                              *)
  scan,   (* a rescan has emptied the table and not filled it yet          *)
  spec,   (* spec[e][r]: the route as engine e has it, or NoSpec           *)
  codecs, (* codecs[e]: the (rate, channels) registered with e's roc       *)
          (* context, in order                                             *)
  tx,     (* the sending half of a route, at the source                    *)
  rx,     (* the receiving half, at the destination                        *)
  calm    (* no more changes (for liveness only)                           *)

rigid == <<world, hash, stored>>
ports == <<slot, table, scan>>
vars  == <<rigid, ports, spec, codecs, tx, rx, calm>>

Down == [st |-> "down"]

Indexings == {f \in [Cards -> Slots] : \A c, d \in Cards : f[c] = f[d] => c = d}

ASSUME FirstAssumption == FirstSlot \in Indexings

\* The name ALSA knows a card by, and the cards' names altogether.
NameOf(c, index) == AlsaDevice(CardId[c], index[c])
Names == UNION {{NameOf(c, f) : c \in Cards} : f \in Indexings}

\* The card that answers to a name at present.
CardOf(name) == CHOOSE c \in Cards : IF name.by = "id" THEN CardId[c] = name.of
                                                      ELSE slot[c] = name.of

Port(r) == RoutePort(Base, hash[r])

\* Who is configured, and who is open, at the destination.
Configured == {r \in Routes : spec["dst"][r] # NoSpec}
Opened     == {r \in Routes : rx[r].st \in {"opened", "up"}}

BoundBy(r) == IF r \in Opened THEN rx[r].bound ELSE {}

TypeOK ==
  /\ world \in Worlds /\ hash \in [Routes -> UNION {Hashes[r] : r \in Routes}]
  /\ stored \in [Routes -> Names]
  /\ slot \in Indexings /\ scan \in BOOLEAN /\ calm \in BOOLEAN
  /\ DOMAIN table = Names
  /\ \A e \in Engines, r \in Routes : spec[e][r] \in Offered[r] \cup {NoSpec}
  /\ \A e \in Engines : IsInjective(codecs[e])
  /\ \A r \in Routes :
       /\ tx[r].st \in {"down", "up"} /\ rx[r].st \in {"down", "failed", "opened", "up"}
       /\ tx[r].st = "up" => tx[r].spec = spec["src"][r]
       /\ r \in Opened => /\ rx[r].spec = spec["dst"][r]
                          /\ rx[r].bound \subseteq 0..U16 - 1
                          /\ (rx[r].st = "up") = (rx[r].left = <<>>)
  /\ \A r, s \in Routes : r # s => BoundBy(r) \cap BoundBy(s) = {}

-----------------------------------------------------------------------------
(* The table of ports (audio/devices.rs).                                  *)

\* probe: a card that is in use cannot be asked, and is listed with
\* placeholders; a card that offers nothing we know is listed as S16.
Listing(busy) ==
  LET offered == IF busy THEN {} ELSE world.playback.formats \cap CandidateFormats
  IN  [failed |-> busy, formats |-> IF offered = {} THEN {"S16Le"} ELSE offered]

\* The table after an enumeration with these indices, while these are in use.
Enumerated(index, used) ==
  [n \in Names |-> LET named == {c \in Cards : NameOf(c, index) = n}
                   IN  IF named = {} THEN NoEntry ELSE Listing(named \subseteq used)]

InUse == {rx[r].card : r \in Opened}

\* refresh, in its two halves: the table is emptied, then filled.
RescanBegins ==
  /\ ~scan /\ ~calm
  /\ scan' = TRUE
  /\ table' = [n \in Names |-> NoEntry]
  /\ UNCHANGED <<rigid, slot, spec, codecs, tx, rx, calm>>

RescanEnds ==
  /\ scan
  /\ scan' = FALSE
  /\ table' = Enumerated(slot, InUse)
  /\ UNCHANGED <<rigid, slot, spec, codecs, tx, rx, calm>>

-----------------------------------------------------------------------------
(* The devices (audio/pcm.rs).                                             *)

\* The width the device is opened with: up to the window's far edge.
Width(s, offset) == offset + s.channels

\* pcm::open: width and rate are taken exactly or not at all, the format may
\* be another.
Opens(device, s, offset) ==
  /\ Width(s, offset) \in device.widths
  /\ s.rate \in device.rates
  /\ PickFormat(s.format, device.formats) # NoFormat

-----------------------------------------------------------------------------
(* roc's encodings (transport/mod.rs).                                     *)

Tuple(s) == <<s.rate, s.channels>>

\* Faulty variant of Ensure: rate and width are swapped on the way.
EnsureMutant(known, s) ==
  LET swapped == <<s.channels, s.rate>>
  IN  IF swapped \in ToSet(known) THEN known ELSE Append(known, swapped)

\* ensure_encoding: once per tuple.
Ensure(known, s) == IF Tuple(s) \in ToSet(known) THEN known ELSE Append(known, Tuple(s))

\* The tuple an id stands for: of two that have it, roc refuses the second.
Meaning(known, id) ==
  LET named == {i \in DOMAIN known : EncodingId(known[i][1], known[i][2]) = id}
  IN  IF named = {} THEN <<>> ELSE known[CHOOSE i \in named : \A j \in named : i <= j]

-----------------------------------------------------------------------------
(* The source: try_start_inner's first half, sender::open.                 *)

\* The cap follows the pinned interface; an mtu of 0 is one nobody can read.
MaxPayload ==
  IF world.pinned /\ world.mtu # 0 THEN MaxPayloadForMtu(world.mtu) ELSE DefaultMaxPayload

SenderFor(r, s) ==
  [st |-> "up", spec |-> s, id |-> EncodingId(s.rate, s.channels),
   frames |-> FramesPerPacket(s.period, s.channels, MaxPayload),
   format |-> PickFormat(s.format, world.capture.formats),
   to |-> {<<role, PortOf(Port(r), role)>> : role \in ToSet(Endpoints(s.fec))}]

\* The roc sender is opened first, then the capture device.
OpenSender(r) ==
  LET s == spec["src"][r] IN
  /\ s # NoSpec /\ tx[r] = Down
  /\ codecs' = [codecs EXCEPT !["src"] = Ensure(@, s)]
  /\ tx' = [tx EXCEPT ![r] = IF Opens(world.capture, s, s.from) THEN SenderFor(r, s) ELSE Down]
  /\ UNCHANGED <<rigid, ports, spec, rx, calm>>

-----------------------------------------------------------------------------
(* The destination: try_start_inner's second half, and the thread's run up *)
(* to its loop.                                                            *)

Failed(why, by) == [st |-> "failed", why |-> why, by |-> by]

ReceiverFor(r, s, c) ==
  [st |-> "opened", spec |-> s, card |-> c,
   format |-> PickFormat(s.format, world.playback.formats),
   queue |-> PlaybackDepth(world.playback.buffer, s.period, 2),
   bound |-> {}, left |-> Endpoints(s.fec)]

\* The port is looked up, the device opened, the queue's depth set, and the
\* encoding registered.
OpenDevice(r) ==
  LET s == spec["dst"][r]
      c == CardOf(stored[r])
  IN
  /\ s # NoSpec /\ rx[r] = Down
  /\ IF table[stored[r]] = NoEntry \/ c \in InUse \/ ~Opens(world.playback, s, s.to)
     THEN rx' = [rx EXCEPT ![r] = Failed("device", NoRoute)] /\ UNCHANGED codecs
     ELSE /\ rx' = [rx EXCEPT ![r] = ReceiverFor(r, s, c)]
          /\ codecs' = [codecs EXCEPT !["dst"] = Ensure(@, s)]
  /\ UNCHANGED <<rigid, ports, spec, tx, calm>>

\* receiver::open binds one endpoint after another, without SO_REUSEADDR; a
\* failure drops the receiver, and the device with it.
Bind(r) ==
  LET half == rx[r]
      p == PortOf(Port(r), Head(half.left))
      others == {s \in Routes \ {r} : p \in BoundBy(s)}
  IN
  /\ half.st = "opened"
  /\ IF others # {}
     THEN rx' = [rx EXCEPT ![r] = Failed("bind", CHOOSE s \in others : TRUE)]
     ELSE rx' = [rx EXCEPT ![r] =
            [half EXCEPT !.bound = half.bound \cup {p}, !.left = Tail(half.left),
                         !.st = IF Len(half.left) = 1 THEN "up" ELSE "opened"]]
  /\ UNCHANGED <<rigid, ports, spec, codecs, tx, calm>>

\* Faulty variant of PortConflicts: the routes it goes through are those the
\* source knows.
PortConflictsMutant(r) ==
  {s \in Routes \ {r} : spec["src"][s] # NoSpec /\ Port(s) = Port(r)}

\* port_conflicts: the routes named when a bind has failed.
PortConflicts(r) == {s \in Configured \ {r} : Port(s) = Port(r)}

\* Faulty variant of Reap: a port that is taken counts as taken for good.
ReapMutant(r) ==
  /\ rx[r].st = "failed" /\ rx[r].why = "device"
  /\ rx' = [rx EXCEPT ![r] = Down]
  /\ UNCHANGED <<rigid, ports, spec, codecs, tx, calm>>

\* The supervisor finds the half dead, explains it, and will try again.
Reap(r) ==
  /\ rx[r].st = "failed"
  /\ rx' = [rx EXCEPT ![r] = Down]
  /\ UNCHANGED <<rigid, ports, spec, codecs, tx, calm>>

-----------------------------------------------------------------------------
(* Changes.                                                                *)

\* A change or a removal of the route reaches one of its ends, which takes
\* its half down.
Change(e, r) ==
  /\ ~calm
  /\ \E s \in (Offered[r] \cup {NoSpec}) \ {spec[e][r]} : spec' = [spec EXCEPT ![e][r] = s]
  /\ tx' = IF e = "src" THEN [tx EXCEPT ![r] = Down] ELSE tx
  /\ rx' = IF e = "dst" THEN [rx EXCEPT ![r] = Down] ELSE rx
  /\ UNCHANGED <<rigid, ports, codecs, calm>>

\* The destination's machine restarts: the cards are numbered anew.
Reboot ==
  /\ ~calm
  /\ rx' = [r \in Routes |-> Down]
  /\ codecs' = [codecs EXCEPT !["dst"] = <<>>]
  /\ slot' \in Indexings
  /\ table' = Enumerated(slot', {})
  /\ scan' = FALSE
  /\ UNCHANGED <<rigid, spec, tx, calm>>

Calm == ~calm /\ calm' = TRUE /\ UNCHANGED <<rigid, ports, spec, codecs, tx, rx>>

-----------------------------------------------------------------------------
Init ==
  /\ world \in Worlds
  /\ hash \in {f \in [Routes -> UNION {Hashes[r] : r \in Routes}] : \A r \in Routes : f[r] \in Hashes[r]}
  /\ slot = FirstSlot
  /\ stored = [r \in Routes |-> NameOf(Patched[r], slot)]
  /\ table = Enumerated(slot, {})
  /\ scan = FALSE
  /\ spec = [e \in Engines |-> [r \in Routes |-> NoSpec]]
  /\ codecs = [e \in Engines |-> <<>>]
  /\ tx = [r \in Routes |-> Down]
  /\ rx = [r \in Routes |-> Down]
  /\ calm = FALSE

HalfStep(r) == OpenDevice(r) \/ Bind(r) \/ Reap(r)

Next ==
  \/ \E r \in Routes : OpenSender(r) \/ HalfStep(r)
  \/ \E e \in Engines, r \in Routes : Change(e, r)
  \/ RescanBegins \/ RescanEnds \/ Reboot
  \/ Calm

Spec == Init /\ [][Next]_vars

(* Fairness: the supervisors of both engines keep coming back to every     *)
(* route that is not up, threads run, and a rescan ends.                   *)
FairSpec ==
  /\ Spec
  /\ \A r \in Routes : WF_vars(OpenSender(r)) /\ WF_vars(HalfStep(r))
  /\ WF_vars(RescanEnds)

-----------------------------------------------------------------------------
(* Safety                                                                  *)

Sending(r)   == tx[r].st = "up"
Receiving(r) == rx[r].st = "up"
Carried(r)   == Sending(r) /\ Receiving(r) /\ tx[r].spec = rx[r].spec

\* A sender's packets arrive at its own route's receiver, or, endpoint for
\* endpoint, at that of a route in the same window: audio never lands in
\* another route's control channel (routing.rs 216-225).
HearsOnlyTwins == \A r, s \in Routes : Sending(s) =>
  \A e \in tx[s].to : e[2] \in BoundBy(r) =>
    Port(r) = Port(s) /\ e[2] = PortOf(Port(r), e[1])

\* A bind that failed is explained by the route that has the port, as long
\* as that is configured at all (routing.rs 278-308).
ConflictNamed == \A r \in Routes :
  rx[r].st = "failed" /\ rx[r].by \in Configured => rx[r].by \in PortConflicts(r)

\* Whether another tuple that the engine's roc context knows has the id.
Ambiguous(e, s) == \E t \in ToSet(codecs[e]) :
  t # Tuple(s) /\ EncodingId(t[1], t[2]) = EncodingId(s.rate, s.channels)

\* Two ends that have the same route agree, without having negotiated: the
\* sender's endpoints are the receiver's, and the id in its packets names the
\* tuple it sends, at both engines (transport/mod.rs 162-166).  Two tuples
\* with one id are the exception.
TrioMeets == \A r \in Routes : Carried(r) =>
  /\ {e[2] : e \in tx[r].to} = rx[r].bound
  /\ \A e \in Engines :
       ~Ambiguous(e, tx[r].spec) => Meaning(codecs[e], tx[r].id) = Tuple(tx[r].spec)

\* No packet is fragmented on the way the sender is pinned to, a period is a
\* whole number of packets, and roc is told their length (sender.rs 158-179).
PacketsFit == \A r \in Routes : Sending(r) =>
  LET s == tx[r].spec
      payload == tx[r].frames * s.channels * WireBytes
  IN  /\ s.period % tx[r].frames = 0
      /\ world.pinned /\ world.mtu >= 100 + MinPayload =>
           payload <= world.mtu - 100 \/ tx[r].frames = 1
      /\ ~world.pinned => payload <= DefaultMaxPayload \/ tx[r].frames = 1
      /\ PacketLength(tx[r].frames, s.rate) > 0

\* A device is opened in a format it has, one that its port was listed with,
\* and never in one that drops bits the route asked for when another would
\* have kept them (format.rs 20-47).  And it is the card the route was patched
\* to, however the cards have been numbered since, if that card has an id
\* (devices.rs 118-148).
DeviceHonest ==
  /\ \A r \in Routes : Sending(r) =>
       /\ tx[r].format \in world.capture.formats
       /\ \A f \in world.capture.formats :
            Resolution(tx[r].format) >= AtMost(AtMost(Resolution(f), Resolution(tx[r].spec.format)), 24)
  /\ \A r \in Opened :
       LET entry == table[stored[r]] IN
       /\ rx[r].format \in world.playback.formats
       /\ entry # NoEntry /\ ~entry.failed => rx[r].format \in entry.formats
       /\ \A f \in world.playback.formats :
            Resolution(rx[r].format) >= AtMost(AtMost(Resolution(f), Resolution(rx[r].spec.format)), 24)
       /\ CardId[Patched[r]] # NoId => rx[r].card = Patched[r]

AllSpecs == UNION {Offered[r] : r \in Routes}

\* Two frames of a device, every sample another number.
Frames(width) == [i \in 1..2 * width |-> i]

\* What the listener hears of those frames, for every window offered.
Carries == [s \in AllSpecs |->
  LET in    == Width(s, s.from)
      out   == Width(s, s.to)
      heard == Scatter(Extract(Frames(in), in, s.from, s.channels), s.channels, out, s.to)
  IN  /\ Len(heard) = 2 * out
      /\ \A f \in 0..1, c \in 1..out :
           heard[f * out + c] = IF c > s.to THEN Frames(in)[f * in + c - s.to + s.from] ELSE Silence]

\* Samples worth a look: both ends of the range, and the edges of the bytes.
Samples(f) ==
  LET top == CASE f = "S16Le" -> 32767 [] f = "S32Le" -> 2147483647 [] OTHER -> 8388607
  IN  {-top, -256, -255, -1, 0, 1, 127, 128, 255, 256, top - 1, top}

Survives == [f \in Formats \ {"F32Le"} |-> \A v \in Samples(f) :
  LET b == Pack(f, v) IN
  /\ Unpack(f, b) = v
  /\ f = "S24Le" => Unpack(f, [b EXCEPT ![4] = 0]) = v]

\* What the listener hears on each channel is what the source has on the
\* channel it was patched from, frame by frame, and nothing on the channels
\* next to the window (window.rs 1-35); and a device's samples are read as it
\* wrote them, whichever of its format's layouts it uses and whatever it
\* leaves in the padding (format.rs 91-130).
SignalCarried ==
  /\ \A r \in Routes : Carried(r) => Carries[tx[r].spec]
  /\ \A r \in Opened : rx[r].format # "F32Le" => Survives[rx[r].format]

Wakes == [w \in Worlds |-> [s \in AllSpecs |-> \A wish \in 2..BufferPeriods :
  LET buffer == w.playback.buffer
      q      == PlaybackDepth(buffer, s.period, wish)
  IN  /\ q.start <= buffer
      /\ q.availMin \in 1..buffer
      /\ \A k \in 0..BufferPeriods : k * s.period < q.start => buffer - k * s.period >= q.availMin]]

\* At whatever depth the governor asks for, the device gets to start, and
\* then wakes the thread: nobody waits for room that only the other can make
\* (pcm.rs 160-186).
DepthWakes == \A r \in Opened : Wakes[world][rx[r].spec]

(* Liveness                                                                *)

\* Both ends have the route, and nothing the code refuses stands against it:
\* no other route in its window or on its card, and devices that can do it.
Feasible(r) ==
  LET s == spec["dst"][r] IN
  /\ s # NoSpec /\ spec["src"][r] = s
  /\ table[stored[r]] # NoEntry
  /\ Opens(world.capture, s, s.from) /\ Opens(world.playback, s, s.to)
  /\ \A q \in Configured \ {r} : Port(q) # Port(r) /\ CardOf(stored[q]) # CardOf(stored[r])

\* Once nobody changes anything, every route that can be carried is,
\* whatever ports and devices were fought over before.
BothEndsMeet == \A r \in Routes : calm ~> [](Feasible(r) => Carried(r))
=============================================================================
