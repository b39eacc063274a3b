----------------------------- MODULE StreamMath -----------------------------
(***************************************************************************)
(* The arithmetic both ends of a route do on their own and have to agree   *)
(* on: the route's ports, the encoding's number, the packets, the sample   *)
(* formats, the channel windows, the depth of the playback queue, and the  *)
(* names of the devices.  Pure operators, as functions of their arguments. *)
(***************************************************************************)
EXTENDS Integers, Sequences

-----------------------------------------------------------------------------
(* Ports (routing.rs, transport/).  u16 arithmetic: the base is added with *)
(* saturation, the second and third port wrap in a release build.          *)

U16 == 65536

AtMost(n, bound)  == IF n > bound THEN bound ELSE n
AtLeast(n, bound) == IF n < bound THEN bound ELSE n

\* Faulty variant of RoutePort: the stride the code had before there was a
\* control port.
RoutePortMutant(base, hash) == AtMost(base + 3 + (hash % 1000) * 2, U16 - 1)

\* route_port: the hash of a route's id picks one of a thousand windows of
\* three ports.
RoutePort(base, hash) == AtMost(base + 3 + (hash % 1000) * 3, U16 - 1)

Roles == <<"source", "repair", "control">>

RoleOffset(role) == CASE role = "source" -> 0 [] role = "repair" -> 1 [] role = "control" -> 2

PortOf(port, role) == (port + RoleOffset(role)) % U16

\* The endpoints of a receiver, in the order it binds them, and those of a
\* sender, in the order it connects them.
Endpoints(fec) == IF fec THEN Roles ELSE <<"source", "control">>

-----------------------------------------------------------------------------
(* Encodings and packets (transport/mod.rs, transport/sender.rs).          *)

RateIndex(rate) == CASE rate = 44100 -> 0 [] rate = 48000 -> 1 [] rate = 88200 -> 2
                     [] rate = 96000 -> 3 [] OTHER -> 4

\* encoding_id_for.
EncodingId(rate, channels) ==
  100 + ((AtLeast(AtMost(channels, 32), 1) * 5 + RateIndex(rate)) % 27)

DefaultMaxPayload == 1400
MinPayload        == 128
WireBytes         == 4

MaxPayloadForMtu(mtu) == AtLeast(mtu - 100, MinPayload)

\* A bound for the halvings of a period; 2^20 frames are 22 s of audio.
MaxHalvings == 20

\* Faulty variant of FramesPerPacket: the period is the packet.
FramesPerPacketMutant(period, channels, cap) == AtLeast(period, 1)

\* frames_per_packet: the period, halved until it fits or is one frame.
FramesPerPacket(period, channels, cap) ==
  LET halved(k) == AtLeast(period, 1) \div 2^k
      small(k)  == halved(k) = 1 \/ halved(k) * AtLeast(channels, 1) * WireBytes <= cap
  IN  halved(CHOOSE k \in 0..MaxHalvings : small(k) /\ \A j \in 0..k - 1 : ~small(j))

\* packet_length_ns, in frames: nothing, roc's own choice, if the length is
\* none or more than a second.
PacketLength(frames, rate) == IF rate = 0 \/ frames > rate THEN 0 ELSE frames

-----------------------------------------------------------------------------
(* Sample formats (audio/format.rs, soundnet-protocol).                    *)

Formats  == {"S16Le", "S24Le3", "S24Le", "S32Le", "F32Le"}
NoFormat == "none"

BytesPerSample(f) == CASE f = "S16Le" -> 2 [] f = "S24Le3" -> 3 [] OTHER -> 4

\* How much of a sample survives in the format.
Resolution(f) == CASE f = "S16Le" -> 16 [] f \in {"S24Le3", "S24Le"} -> 24 [] OTHER -> 32

FallbackFormats == <<"S24Le3", "S24Le", "S32Le", "F32Le", "S16Le">>

\* Faulty variant of PickFormat: the order the code had before.
PickFormatMutant(requested, supported) ==
  LET order  == <<"S24Le3", "S16Le", "S24Le", "S32Le", "F32Le">>
      usable == {i \in 1..5 : order[i] \in supported}
  IN  IF requested \in supported THEN requested
      ELSE IF usable = {} THEN NoFormat ELSE order[CHOOSE i \in usable : \A j \in usable : i <= j]

\* pick_format.
PickFormat(requested, supported) ==
  LET usable == {i \in 1..5 : FallbackFormats[i] \in supported}
  IN  IF requested \in supported THEN requested
      ELSE IF usable = {} THEN NoFormat
      ELSE FallbackFormats[CHOOSE i \in usable : \A j \in usable : i <= j]

\* devices::CANDIDATE_FORMATS, what a port can be listed with.
CandidateFormats == {"S24Le3", "S24Le", "S16Le", "S32Le", "F32Le"}

\* f32_to_alsa: the little-endian bytes of a sample that has been scaled to
\* the format's range.  (F32Le carries the float's own bits and is left out.)
Pack(f, v) == [i \in 1..BytesPerSample(f) |-> (v \div 256^(i - 1)) % 256]

Signed(raw, bits) == IF raw >= 2^(bits - 1) THEN raw - 2^bits ELSE raw

\* Faulty variant of Unpack: a 24-bit sample is read as an unsigned one.
UnpackMutant(f, b) ==
  CASE f = "S16Le" -> Signed(b[1] + 256 * b[2], 16)
    [] f \in {"S24Le3", "S24Le"} -> b[1] + 256 * b[2] + 65536 * b[3]
    [] f = "S32Le" -> b[1] + 256 * b[2] + 65536 * b[3] + 16777216 * Signed(b[4], 8)

\* alsa_to_f32, up to the scaling: 24 bits are sign-extended from bit 23,
\* whatever the fourth byte holds.
Unpack(f, b) ==
  CASE f = "S16Le" -> Signed(b[1] + 256 * b[2], 16)
    [] f \in {"S24Le3", "S24Le"} -> Signed(b[1] + 256 * b[2] + 65536 * b[3], 24)
    [] f = "S32Le" -> b[1] + 256 * b[2] + 65536 * b[3] + 16777216 * Signed(b[4], 8)

-----------------------------------------------------------------------------
(* Channel windows (audio/window.rs), over interleaved buffers.            *)

Silence == 0

WindowFits(width, offset, channels) == width > 0 /\ channels > 0 /\ offset + channels <= width

\* extract: `channels` channels from `offset` on, out of a `width` wide buffer.
Extract(src, width, offset, channels) ==
  IF ~WindowFits(width, offset, channels) THEN <<>>
  ELSE [i \in 1..(Len(src) \div width) * channels |->
          src[((i - 1) \div channels) * width + offset + ((i - 1) % channels) + 1]]

\* Faulty variant of Scatter: the window always starts at the first channel.
ScatterMutant(src, channels, width, offset) ==
  IF ~WindowFits(width, offset, channels) THEN <<>>
  ELSE [i \in 1..(Len(src) \div channels) * width |->
          LET c == (i - 1) % width
          IN  IF c < channels THEN src[((i - 1) \div width) * channels + c + 1] ELSE Silence]

\* scatter: the inverse, with silence on every other channel.
Scatter(src, channels, width, offset) ==
  IF ~WindowFits(width, offset, channels) THEN <<>>
  ELSE [i \in 1..(Len(src) \div channels) * width |->
          LET c == ((i - 1) % width) - offset
          IN  IF c \in 0..channels - 1 THEN src[((i - 1) \div width) * channels + c + 1]
                                       ELSE Silence]

-----------------------------------------------------------------------------
(* The playback queue (audio/pcm.rs), lengths in frames.                   *)

BufferPeriods == 8

\* Faulty variant of PlaybackDepth: the start threshold may exceed the buffer.
PlaybackDepthMutant(buffer, period, wish) ==
  LET write == AtLeast(period, 1)
      depth == AtLeast(AtMost(wish, AtLeast(buffer \div write, 2)), 2)
  IN  [depth |-> depth, start |-> depth * write,
       availMin |-> AtLeast(buffer - (depth - 1) * write, 1)]

\* set_playback_depth: the depth applied, and the two software parameters.
PlaybackDepth(buffer, period, wish) ==
  LET write == AtLeast(period, 1)
      depth == AtLeast(AtMost(wish, AtLeast(buffer \div write, 2)), 2)
  IN  [depth |-> depth, start |-> AtMost(depth * write, buffer),
       availMin |-> AtLeast(buffer - (depth - 1) * write, 1)]

-----------------------------------------------------------------------------
(* Device names (audio/devices.rs).                                        *)

NoId == "no id"

\* Faulty variant of AlsaDevice: a card is named by its place.
AlsaDeviceMutant(id, index) == [by |-> "index", of |-> index]

\* alsa_device: a card is named by its id; by its index if it has none.
AlsaDevice(id, index) == IF id # NoId THEN [by |-> "id", of |-> id]
                                      ELSE [by |-> "index", of |-> index]
=============================================================================
