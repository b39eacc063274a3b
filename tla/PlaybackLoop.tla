---------------------------- MODULE PlaybackLoop ----------------------------
(***************************************************************************)
(* The receive thread of one route: run() of recv.rs with the ramp of      *)
(* fade.rs and the DepthGovernor of pcm.rs.                                *)
(*                                                                         *)
(* Once around the loop: the stop flag; one period out of roc; the         *)
(* decision whether returning audio has to be ramped in; the ramp; the     *)
(* blocking write; the error budget; every MetricsEvery periods a look at  *)
(* whether a sender is connected.  What a period holds is abstracted to    *)
(* whether a sender exists and whether it plays, every length in           *)
(* milliseconds to a number of periods.                                    *)
(***************************************************************************)
EXTENDS Naturals

CONSTANTS
  SilenceBeforeFade, LongAbsence,  (* periods of silence                   *)
  Resume, Cold,                    (* lengths of the ramps, in periods     *)
  MetricsEvery, MaxErrors, StallWarnAfter,
  BufferPeriods,   (* PLAYBACK_BUFFER_PERIODS, what on_xrun stops at       *)
  DeviceDepth,     (* the periods the device's buffer really holds         *)
  Writes           (* a bound on the writes one period takes               *)

ASSUME LengthsAssumption ==
  /\ {SilenceBeforeFade, LongAbsence, Resume, Cold, MetricsEvery,
      MaxErrors, StallWarnAfter, BufferPeriods, DeviceDepth, Writes} \subseteq Nat \ {0}
  /\ MetricsEvery < SilenceBeforeFade /\ SilenceBeforeFade < LongAbsence
  /\ SilenceBeforeFade + Resume < Cold /\ Cold < LongAbsence
  /\ 2 <= DeviceDepth /\ 2 <= BufferPeriods

VARIABLES
  pc,         (* "top", "write", "end" of a period; "stopped", "failed"    *)
  stop,       (* RecvHandle's stop flag                                    *)
  sender,     (* what is at the other end: "gone", "quiet" or "loud"       *)
  wedged,     (* the device takes nothing, for as long as it likes        *)
  connected,  (* sender_connected: "yes", "no" or "unknown"                *)
  silent,     (* silent_frames, up to LongAbsence                          *)
  left,       (* Fade.remaining                                            *)
  healthy, errors, ticks, written,
  stalled,    (* the local counter; the published flag is its last value   *)
  depth, lastXrun,   (* DepthGovernor; lastXrun is "none", "recent", "old" *)
  applied,    (* the depth the device runs with                            *)
  (* history, read by the properties only *)
  away,       (* completed periods without a sender, in one run            *)
  absent,     (* such a run was long, and there was no audio since         *)
  steady      (* since the last audio there was a sender and no fault      *)

ramp    == <<silent, left>>
device  == <<healthy, errors, ticks, written, stalled, depth, lastXrun, applied>>
history == <<away, absent, steady>>
world   == <<stop, sender, wedged>>
vars    == <<pc, world, connected, ramp, device, history>>

Least(a, b) == IF a <= b THEN a ELSE b

\* A run of this many periods without a sender cannot be overlooked.
Unmissable == LongAbsence + MetricsEvery

TypeOK ==
  /\ pc \in {"top", "write", "end", "stopped", "failed"}
  /\ stop \in BOOLEAN /\ wedged \in BOOLEAN
  /\ sender \in {"gone", "quiet", "loud"}
  /\ connected \in {"yes", "no", "unknown"}
  /\ silent \in 0..LongAbsence
  /\ left \in 0..Cold
  /\ healthy \in BOOLEAN
  /\ errors \in 0..MaxErrors - 1 \/ pc = "failed"
  /\ ticks \in 0..MetricsEvery - 1
  /\ written \in 0..Writes
  /\ stalled \in 0..StallWarnAfter
  /\ depth \in 2..BufferPeriods /\ applied \in 2..BufferPeriods
  /\ lastXrun \in {"none", "recent", "old"}
  /\ absent \in BOOLEAN /\ steady \in BOOLEAN
  /\ away \in 0..Unmissable

\* set_playback_depth: as deep as the device's buffer goes.
Settled(want) == Least(want, DeviceDepth)

Init ==
  /\ pc = "top" /\ stop = FALSE /\ wedged = FALSE
  /\ sender \in {"gone", "quiet", "loud"}
  /\ connected = "unknown"
  /\ silent = 0
  /\ left = Cold
  /\ healthy = TRUE /\ errors = 0 /\ ticks = 0 /\ written = 0 /\ stalled = 0
  /\ depth = Settled(2) /\ applied = Settled(2) /\ lastXrun = "none"
  /\ away = 0 /\ absent = FALSE /\ steady = FALSE

-----------------------------------------------------------------------------
(* One period out of roc and through the ramp.                             *)

\* Faulty variant of ZerosMeanAbsence: the zeros are taken at their word.
ZerosMeanAbsenceMutant(readOk) == TRUE

\* A period of exact zeros means there is nobody there.
ZerosMeanAbsence(readOk) == ~readOk \/ connected # "yes"

\* Fade::arm, if the silence that ends here was long enough.
Armed ==
  IF silent < SilenceBeforeFade THEN left
  ELSE IF silent < LongAbsence THEN Resume ELSE Cold

\* Fade::apply moves the ramp on by one period, whatever the period holds.
Applied(n) == IF n = 0 THEN 0 ELSE n - 1

\* Faulty variant of Zeros: a connected sender's silence resets the count.
ZerosMutant(readOk) ==
  /\ silent' = IF ZerosMeanAbsence(readOk) THEN Least(silent + 1, LongAbsence) ELSE 0
  /\ left' = Applied(left)

Zeros(readOk) ==
  /\ silent' = IF ZerosMeanAbsence(readOk) THEN Least(silent + 1, LongAbsence) ELSE silent
  /\ left' = Applied(left)

Audio ==
  /\ left' = Applied(Armed)
  /\ silent' = 0

Read ==
  /\ pc = "top" /\ ~stop
  /\ \E readOk \in BOOLEAN :
       /\ \/ readOk /\ sender = "loud" /\ Audio
          \/ ~(readOk /\ sender = "loud") /\ Zeros(readOk)
       /\ healthy' = readOk
       /\ away' = IF sender = "gone" THEN away ELSE 0
       /\ absent' = IF readOk /\ sender = "loud" THEN FALSE ELSE absent
       /\ steady' = IF readOk /\ sender = "loud" THEN TRUE
                    ELSE steady /\ readOk /\ sender # "gone"
  /\ written' = 0
  /\ pc' = "write"
  /\ UNCHANGED <<world, connected, errors, ticks, stalled, depth, lastXrun, applied>>

LeaveLoop ==
  /\ pc = "top" /\ stop
  /\ pc' = "stopped"
  /\ UNCHANGED <<world, connected, ramp, device, history>>

-----------------------------------------------------------------------------
(* The blocking write.                                                     *)

\* Faulty variant of WaitTimesOut: the stop flag is not looked at.
WaitTimesOutMutant ==
  /\ pc = "write" /\ written < Writes
  /\ stalled' = Least(stalled + 1, StallWarnAfter)
  /\ UNCHANGED <<pc, world, connected, ramp, history, healthy, errors, ticks, written,
                 depth, lastXrun, applied>>

\* The device takes nothing for DEVICE_WAIT_TIMEOUT_MS.
WaitTimesOut ==
  /\ pc = "write" /\ written < Writes
  /\ stalled' = Least(stalled + 1, StallWarnAfter)
  /\ pc' = IF stop THEN "end" ELSE "write"
  /\ UNCHANGED <<world, connected, ramp, history, healthy, errors, ticks, written,
                 depth, lastXrun, applied>>

\* The device has room; the write takes all that is left of it, or some.
WriteSome ==
  /\ pc = "write" /\ ~wedged /\ written < Writes
  /\ stalled' = 0
  /\ \E n \in written + 1..Writes : written' = n
  /\ pc' = IF written' = Writes THEN "end" ELSE "write"
  /\ UNCHANGED <<world, connected, ramp, history, healthy, errors, ticks,
                 depth, lastXrun, applied>>

\* The device has room and writes nothing.
WriteNothing ==
  /\ pc = "write" /\ ~wedged /\ written < Writes
  /\ stalled' = 0 /\ healthy' = FALSE /\ steady' = FALSE
  /\ pc' = "end"
  /\ UNCHANGED <<world, connected, ramp, away, absent, errors, ticks, written,
                 depth, lastXrun, applied>>

\* DepthGovernor::on_xrun: a repeated xrun asks for one more period.
Deepens == lastXrun = "recent" /\ depth < BufferPeriods

\* note_xrun: on_xrun, set_playback_depth (which may fail) and settle.
NoteXrun ==
  /\ lastXrun' = "recent"
  /\ \/ ~Deepens /\ UNCHANGED <<depth, applied>>
     \/ /\ Deepens
        /\ \/ depth' = depth + 1 /\ UNCHANGED applied
           \/ applied' = Settled(depth + 1) /\ depth' = applied'

\* The wait or the write fails and snd_pcm_recover helps.
Xrun ==
  /\ pc = "write" /\ ~wedged /\ written < Writes
  /\ NoteXrun
  /\ healthy' = FALSE /\ steady' = FALSE
  /\ stalled' \in {stalled, 0}   \* the wait may have succeeded before
  /\ pc' = "end"
  /\ UNCHANGED <<world, connected, ramp, away, absent, errors, ticks, written>>

\* ... or it does not.
DeviceFails ==
  /\ pc = "write" /\ ~wedged /\ written < Writes
  /\ pc' = "failed"
  /\ UNCHANGED <<world, connected, ramp, device, history>>

-----------------------------------------------------------------------------
(* The end of a period.                                                    *)

EndUnhealthy ==
  /\ pc = "end" /\ ~healthy
  /\ errors' = errors + 1
  /\ pc' = IF errors' >= MaxErrors THEN "failed" ELSE "top"
  /\ UNCHANGED <<world, connected, ramp, away, absent, healthy, ticks, written,
                 stalled, depth, lastXrun, applied>>
  /\ steady' = FALSE

\* rx.query(), which may fail.
Query == connected' \in {"unknown", IF sender = "gone" THEN "no" ELSE "yes"}

EndHealthy ==
  /\ pc = "end" /\ healthy
  /\ errors' = 0
  /\ IF ticks + 1 >= MetricsEvery THEN ticks' = 0 /\ Query
                                  ELSE ticks' = ticks + 1 /\ UNCHANGED connected
  /\ away' = IF sender = "gone" THEN Least(away + 1, Unmissable) ELSE 0
  /\ absent' = (absent \/ away' = Unmissable)
  /\ steady' = (steady /\ ~(ticks' = 0 /\ connected' = "unknown"))
  /\ pc' = "top"
  /\ UNCHANGED <<world, ramp, healthy, written, stalled, depth, lastXrun,
                 applied>>

-----------------------------------------------------------------------------
(* The rest of the world.                                                  *)

Live == pc \in {"top", "write", "end"}

RequestStop ==
  /\ ~stop /\ stop' = TRUE
  /\ UNCHANGED <<pc, sender, wedged, connected, ramp, device, history>>

\* The far end connects, goes, plays or falls silent between two periods.
SenderChanges ==
  /\ pc = "top"
  /\ sender' \in {"gone", "quiet", "loud"} \ {sender}
  /\ UNCHANGED <<pc, stop, wedged, connected, ramp, device, history>>

\* USB pulled mid-stream, a driver stuck: it may come back, or not.
DeviceWedges ==
  /\ pc = "write" /\ written < Writes
  /\ wedged' = ~wedged
  /\ UNCHANGED <<pc, stop, sender, connected, ramp, device, history>>

\* DEEPEN_WINDOW passes without an xrun.
WindowElapses ==
  /\ Live /\ lastXrun = "recent" /\ lastXrun' = "old"
  /\ UNCHANGED <<pc, world, connected, ramp, history, healthy, errors, ticks, written,
                 stalled, depth, applied>>

Step == \/ Read \/ LeaveLoop
        \/ WaitTimesOut \/ WriteSome \/ WriteNothing \/ Xrun \/ DeviceFails
        \/ EndHealthy \/ EndUnhealthy

Next == Step \/ RequestStop \/ SenderChanges \/ DeviceWedges \/ WindowElapses

Spec == Init /\ [][Next]_vars

(* The thread runs; its only blocking call, the wait, is bounded.          *)
FairSpec == Spec /\ WF_vars(Step)

-----------------------------------------------------------------------------
(* Properties                                                              *)

\* The step that reads the first audio after silence.
Returns == pc = "top" /\ pc' = "write" /\ sender = "loud" /\ healthy'

\* The ramp that starts with this period, rather than one half done.
Begins(length) == left' = length - 1

\* Audio that comes back after a long absence starts the long ramp from
\* silence, wherever in the metrics cadence the sender went and whatever
\* silence it came back with (recv.rs 370-403).
AbsenceIsCold == [][Returns /\ absent => Begins(Cold)]_vars

\* A sender that never went away is not ramped in after a pause, however long
\* (recv.rs 356-369).
PauseIsSpared == [][Returns /\ steady => left' <= left]_vars

\* A stop request ends the thread, also on a device that takes nothing.
StopEnds == stop ~> ~Live
=============================================================================
