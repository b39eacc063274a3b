---------------------------- MODULE MCStreamSetup ---------------------------
(* StreamSetup on a small instance. *)
EXTENDS StreamSetup

CONSTANTS r1, r2, x, y

Stream(rate, channels, period, fec, format, from, to) ==
  [rate |-> rate, channels |-> channels, period |-> period, fec |-> fec,
   format |-> format, from |-> from, to |-> to]

(* Two specs with one encoding id; the second is the default one.         *)
Wide  == Stream(96000, 7, 512, FALSE, "S24Le3", 1, 0)
Plain == Stream(48000, 2, 128, TRUE, "S24Le3", 0, 6)

MCOffered == (r1 :> {Wide}) @@ (r2 :> {Plain})
MCHashes  == (r1 :> {0}) @@ (r2 :> {1, 1000})

Device(widths, formats, buffer) ==
  [widths |-> widths, rates |-> {48000, 96000}, formats |-> formats, buffer |-> buffer]

MCWorlds ==
  {[capture |-> Device(1..8, {"S16Le", "S24Le"}, 0), playback |-> Device(2..8, {"S24Le"}, 4096),
    mtu |-> 1280, pinned |-> TRUE],
   [capture |-> Device({2, 3, 8}, {"F32Le"}, 0), playback |-> Device({2, 8}, {"S16Le", "S32Le"}, 150),
    mtu |-> 1500, pinned |-> FALSE]}

MCCardId  == (x :> "USB") @@ (y :> NoId)
MCFirstSlot == (x :> 0) @@ (y :> 1)
MCPatched == (r1 :> x) @@ (r2 :> y)
=============================================================================
