-------------------------- MODULE PlaybackLoopProofs --------------------------
(***************************************************************************)
(* Proofs about PlaybackLoop, for any lengths in the order the code has    *)
(* them in: what the silence counted says about the sender, wherever in    *)
(* the metrics cadence the sender came or went.                            *)
(***************************************************************************)
EXTENDS PlaybackLoop, TLAPS

InPeriod == pc \in {"write", "end"}

\* A connection that is believed in has been gone for less than a cadence; one
\* that is not has its absence counted, but for the cadence it took to notice.
CadenceInv ==
  /\ connected = "yes" => away <= ticks
  /\ silent = LongAbsence \/ away <= silent + MetricsEvery
  /\ InPeriod /\ sender = "gone" /\ connected # "yes" =>
       silent = LongAbsence \/ away < silent + MetricsEvery

\* A long absence has been counted in full, until audio is read.
AbsentInv == absent => silent = LongAbsence

\* With a sender that is there, silence is counted only until the next look at
\* the connection.
SteadyInv == steady =>
  /\ silent <= MetricsEvery
  /\ connected # "yes" => silent <= ticks /\ (pc = "top" => silent < ticks)
  /\ InPeriod => sender # "gone"

IInv == TypeOK /\ CadenceInv /\ AbsentInv /\ SteadyInv

-----------------------------------------------------------------------------
LEMMA Lengths ==
  /\ SilenceBeforeFade \in Nat \ {0} /\ LongAbsence \in Nat \ {0} /\ Resume \in Nat \ {0}
  /\ Cold \in Nat \ {0} /\ MetricsEvery \in Nat \ {0} /\ MaxErrors \in Nat \ {0}
  /\ StallWarnAfter \in Nat \ {0} /\ BufferPeriods \in Nat \ {0} /\ DeviceDepth \in Nat \ {0}
  /\ Writes \in Nat \ {0}
  /\ MetricsEvery < SilenceBeforeFade /\ SilenceBeforeFade < LongAbsence
  /\ Resume < Cold /\ Cold < LongAbsence /\ 2 <= DeviceDepth /\ 2 <= BufferPeriods
<1>1. /\ SilenceBeforeFade \in Nat \ {0} /\ LongAbsence \in Nat \ {0} /\ Resume \in Nat \ {0}
      /\ Cold \in Nat \ {0} /\ MetricsEvery \in Nat \ {0} /\ MaxErrors \in Nat \ {0}
      /\ StallWarnAfter \in Nat \ {0} /\ BufferPeriods \in Nat \ {0} /\ DeviceDepth \in Nat \ {0}
      /\ Writes \in Nat \ {0}
  BY LengthsAssumption
<1> QED BY <1>1, LengthsAssumption

LEMMA InRange ==
  /\ 0 \in 0..LongAbsence /\ Cold \in 0..Cold /\ 0 \in 0..MaxErrors - 1
  /\ 0 \in 0..MetricsEvery - 1 /\ 0 \in 0..Writes /\ 0 \in 0..StallWarnAfter
  /\ 0 \in 0..Unmissable /\ 2 \in 2..BufferPeriods
BY Lengths DEF Unmissable

LEMMA SettledIs ==
  ASSUME NEW want \in 2..BufferPeriods
  PROVE  Settled(want) \in 2..BufferPeriods
BY Lengths DEF Settled, Least

LEMMA InitInv == Init => IInv
<1> SUFFICES ASSUME Init PROVE IInv
  OBVIOUS
<1>1. Settled(2) \in 2..BufferPeriods
  BY SettledIs, InRange
<1>2. TypeOK
  BY <1>1, InRange DEF Init, TypeOK
<1> QED BY <1>2, Lengths DEF Init, IInv, CadenceInv, AbsentInv, SteadyInv, InPeriod

LEMMA ReadInv ==
  ASSUME IInv, Read
  PROVE  IInv'
<1>1. PICK readOk \in BOOLEAN :
        /\ \/ readOk /\ sender = "loud" /\ Audio
           \/ ~(readOk /\ sender = "loud") /\ Zeros(readOk)
        /\ healthy' = readOk
        /\ away' = IF sender = "gone" THEN away ELSE 0
        /\ absent' = IF readOk /\ sender = "loud" THEN FALSE ELSE absent
        /\ steady' = IF readOk /\ sender = "loud" THEN TRUE
                     ELSE steady /\ readOk /\ sender # "gone"
  BY DEF Read
<1>2. /\ pc = "top" /\ pc' = "write" /\ written' = 0
      /\ UNCHANGED <<stop, sender, wedged, connected, errors, ticks, stalled, depth, lastXrun, applied>>
  BY DEF Read, world
<1>3. CASE readOk /\ sender = "loud"
  <2>1. left' = Applied(Armed) /\ silent' = 0 /\ away' = 0 /\ absent' = FALSE /\ steady' = TRUE
        /\ healthy' = TRUE
    BY <1>1, <1>3 DEF Audio
  <2>2. left' \in 0..Cold
    BY <2>1, Lengths DEF Applied, Armed, IInv, TypeOK
  <2>3. TypeOK'
    BY <1>2, <2>1, <2>2, InRange DEF IInv, TypeOK
  <2>4. CadenceInv'
    BY <1>2, <1>3, <2>1, Lengths DEF IInv, TypeOK, CadenceInv
  <2>5. AbsentInv' /\ SteadyInv'
    BY <1>2, <1>3, <2>1, Lengths DEF IInv, TypeOK, AbsentInv, SteadyInv, InPeriod
  <2> QED BY <2>3, <2>4, <2>5 DEF IInv
<1>4. CASE ~(readOk /\ sender = "loud")
  <2>1. /\ silent' = IF ZerosMeanAbsence(readOk) THEN Least(silent + 1, LongAbsence) ELSE silent
        /\ left' = Applied(left) /\ absent' = absent
        /\ steady' = (steady /\ readOk /\ sender # "gone")
    BY <1>1, <1>4 DEF Zeros
  <2>2. left' \in 0..Cold
    BY <2>1, Lengths DEF Applied, IInv, TypeOK
  <2>3. /\ silent' \in 0..LongAbsence /\ silent <= silent'
        /\ connected # "yes" => silent' = LongAbsence \/ silent' = silent + 1
        /\ connected = "yes" /\ readOk => silent' = silent
        /\ silent' <= silent + 1
    <3>1. silent \in 0..LongAbsence
      BY DEF IInv, TypeOK
    <3>2. CASE ZerosMeanAbsence(readOk)
      <4>1. connected = "yes" => ~readOk
        BY <3>2 DEF ZerosMeanAbsence
      <4>2. silent' = Least(silent + 1, LongAbsence)
        BY <2>1, <3>2
      <4> QED BY <3>1, <4>1, <4>2, Lengths DEF Least
    <3>3. CASE ~ZerosMeanAbsence(readOk)
      BY <2>1, <3>1, <3>3, Lengths DEF ZerosMeanAbsence
    <3> QED BY <3>2, <3>3
  <2>4. away' \in 0..Unmissable /\ away' <= away /\ (sender = "gone" => away' = away)
        /\ away' \in Nat
    BY <1>1, Lengths DEF IInv, TypeOK, Unmissable
  <2>5. steady' \in BOOLEAN /\ healthy' \in BOOLEAN
    BY <1>1, <2>1
  <2>6. TypeOK'
    BY <1>2, <2>1, <2>2, <2>3, <2>4, <2>5, InRange DEF IInv, TypeOK
  <2>7. CadenceInv'
    <3>1. /\ silent \in Nat /\ away \in Nat /\ ticks \in Nat /\ silent' \in Nat
          /\ silent = LongAbsence => silent' = LongAbsence
      BY <2>3, Lengths DEF IInv, TypeOK, Unmissable
    <3>2. /\ connected = "yes" => away <= ticks
          /\ silent = LongAbsence \/ away <= silent + MetricsEvery
      BY DEF IInv, CadenceInv
    <3>3. connected' = "yes" => away' <= ticks'
      BY <1>2, <2>4, <3>1, <3>2
    <3>4. silent' = LongAbsence \/ away' <= silent' + MetricsEvery
      <4>1. PICK m \in Nat : m = MetricsEvery
        BY Lengths
      <4>2. CASE silent = LongAbsence
        BY <3>1, <4>2
      <4>3. CASE away <= silent + m
        <5>1. \A a, b, c, d \in Nat : a <= b /\ b <= c + m /\ c <= d => a <= d + m
          OBVIOUS
        <5> QED BY <2>3, <2>4, <3>1, <4>1, <4>3, <5>1
      <4> QED BY <3>2, <4>1, <4>2, <4>3
    <3>5. ASSUME sender' = "gone", connected' # "yes"
          PROVE  silent' = LongAbsence \/ away' < silent' + MetricsEvery
      <4>1. PICK m \in Nat : m = MetricsEvery
        BY Lengths
      <4>2. sender = "gone" /\ connected # "yes" /\ away' = away
        BY <1>2, <2>4, <3>5
      <4>3. silent' = LongAbsence \/ silent' = silent + 1
        BY <2>3, <4>2
      <4>4. CASE silent = LongAbsence
        BY <3>1, <4>4
      <4>5. CASE away <= silent + m /\ silent' = silent + 1
        BY <3>1, <4>1, <4>2, <4>5
      <4> QED BY <3>2, <4>1, <4>3, <4>4, <4>5
    <3> QED BY <3>3, <3>4, <3>5 DEF CadenceInv
  <2>8. AbsentInv'
    BY <2>1, <2>3 DEF IInv, TypeOK, AbsentInv
  <2>9. SteadyInv'
    <3> SUFFICES ASSUME steady'
                 PROVE  /\ silent' <= MetricsEvery
                        /\ connected' # "yes" => silent' <= ticks'
                        /\ InPeriod' => sender' # "gone"
      BY <1>2 DEF SteadyInv
    <3>1. steady /\ readOk /\ sender # "gone"
      BY <2>1
    <3>2. ticks \in 0..MetricsEvery - 1 /\ silent \in Nat /\ silent' \in Nat
      BY <2>3, Lengths DEF IInv, TypeOK
    <3>3. silent <= MetricsEvery /\ (connected # "yes" => silent < ticks)
      BY <1>2, <3>1 DEF IInv, SteadyInv, InPeriod
    <3> QED BY <1>2, <2>3, <3>1, <3>2, <3>3, Lengths DEF InPeriod
  <2> QED BY <2>6, <2>7, <2>8, <2>9 DEF IInv
<1> QED BY <1>1, <1>3, <1>4

\* What may change within a period, or between two, without a read or an end.
LEMMA Within ==
  ASSUME IInv, UNCHANGED <<connected, silent, left, ticks, away, absent>>,
         pc' = pc \/ (InPeriod /\ pc' = "end") \/ pc' \in {"stopped", "failed"},
         InPeriod' => sender' = sender,
         steady' \in BOOLEAN, steady' => steady, healthy' \in BOOLEAN,
         stop' \in BOOLEAN, wedged' \in BOOLEAN, sender' \in {"gone", "quiet", "loud"},
         errors' \in 0..MaxErrors - 1 \/ pc' = "failed",
         written' \in 0..Writes, stalled' \in 0..StallWarnAfter,
         depth' \in 2..BufferPeriods, applied' \in 2..BufferPeriods,
         lastXrun' \in {"none", "recent", "old"}
  PROVE  IInv'
<1>1. TypeOK'
  BY DEF IInv, TypeOK, InPeriod
<1>2. CadenceInv' /\ AbsentInv'
  BY DEF IInv, CadenceInv, AbsentInv, InPeriod
<1>3. SteadyInv'
  <2>0. SteadyInv /\ ticks \in Nat /\ silent \in Nat
    BY Lengths DEF IInv, TypeOK
  <2>1. CASE InPeriod'
    <3>1. InPeriod
      BY <2>1 DEF InPeriod
    <3> QED BY <2>0, <2>1, <3>1 DEF SteadyInv
  <2>2. CASE ~InPeriod'
    BY <2>0, <2>2 DEF SteadyInv, InPeriod
  <2> QED BY <2>1, <2>2
<1> QED BY <1>1, <1>2, <1>3 DEF IInv

LEMMA EndHealthyInv ==
  ASSUME IInv, EndHealthy
  PROVE  IInv'
<1>1. /\ pc = "end" /\ pc' = "top" /\ errors' = 0
      /\ UNCHANGED <<stop, sender, wedged, silent, left, healthy, written, stalled,
                     depth, lastXrun, applied>>
      /\ away' = IF sender = "gone" THEN Least(away + 1, Unmissable) ELSE 0
      /\ steady' = (steady /\ ~(ticks' = 0 /\ connected' = "unknown"))
  BY DEF EndHealthy, world, ramp
<1>2. /\ ticks \in 0..MetricsEvery - 1 /\ ticks \in Nat /\ silent \in Nat /\ away \in 0..Unmissable
      /\ silent <= LongAbsence /\ Unmissable \in Nat
  BY Lengths DEF IInv, TypeOK, Unmissable
<1>3. \/ ticks + 1 = MetricsEvery /\ ticks' = 0 /\ Query
      \/ ticks' = ticks + 1 /\ ticks' \in 0..MetricsEvery - 1 /\ connected' = connected
  BY <1>2, Lengths DEF EndHealthy
<1>4. away' \in 0..Unmissable /\ away' <= away + 1 /\ (sender # "gone" => away' = 0)
      /\ away' \in Nat
  BY <1>1, <1>2, Lengths DEF Least, Unmissable
<1>5. /\ connected' \in {"yes", "no", "unknown"} /\ ticks' \in 0..MetricsEvery - 1 /\ ticks' \in Nat
      /\ Query /\ sender = "gone" => connected' # "yes"
  BY <1>2, <1>3, InRange, Lengths DEF Query, IInv, TypeOK
<1>6. absent' \in BOOLEAN /\ (absent' => absent \/ away' = Unmissable)
  BY DEF EndHealthy
<1>7. steady' \in BOOLEAN
  BY <1>1
<1>8. TypeOK'
  BY <1>1, <1>4, <1>5, <1>6, <1>7, InRange DEF IInv, TypeOK
<1>9. /\ connected = "yes" => away <= ticks
      /\ silent = LongAbsence \/ away <= silent + MetricsEvery
      /\ sender = "gone" /\ connected # "yes" => silent = LongAbsence \/ away < silent + MetricsEvery
  BY <1>1 DEF IInv, CadenceInv, InPeriod
<1>10. connected' = "yes" => away' <= ticks'
  <2>1. CASE sender # "gone"
    BY <1>4, <1>5, <2>1
  <2>2. CASE sender = "gone"
    BY <1>2, <1>3, <1>4, <1>5, <1>9, <2>2
  <2> QED BY <2>1, <2>2
<1>11. silent = LongAbsence \/ away' <= silent + MetricsEvery
  <2>1. CASE sender # "gone"
    BY <1>2, <1>4, <2>1, Lengths
  <2>2. CASE sender = "gone" /\ connected # "yes"
    BY <1>2, <1>4, <1>9, <2>2, Lengths
  <2>3. CASE connected = "yes"
    BY <1>2, <1>4, <1>9, <2>3, Lengths
  <2> QED BY <2>1, <2>2, <2>3
<1>12. CadenceInv'
  BY <1>1, <1>10, <1>11 DEF CadenceInv, InPeriod
<1>13. AbsentInv'
  <2>1. CASE absent
    BY <1>1, <2>1 DEF IInv, AbsentInv
  <2>2. CASE away' = Unmissable
    BY <1>1, <1>2, <1>11, <2>2, Lengths DEF AbsentInv, Unmissable
  <2> QED BY <1>6, <2>1, <2>2 DEF AbsentInv
<1>14. SteadyInv'
  <2> SUFFICES ASSUME steady'
               PROVE  silent' <= MetricsEvery /\ (connected' # "yes" => silent' < ticks')
    BY <1>1, <1>2, <1>5 DEF SteadyInv, InPeriod
  <2>1. steady /\ ~(ticks' = 0 /\ connected' = "unknown")
    BY <1>1
  <2>2. /\ silent <= MetricsEvery /\ sender # "gone"
        /\ connected # "yes" => silent <= ticks
    BY <1>1, <1>2, <2>1 DEF IInv, SteadyInv, InPeriod
  <2>3. connected' # "yes" => ticks' = ticks + 1 /\ connected' = connected
    BY <1>3, <2>1, <2>2 DEF Query
  <2> QED BY <1>1, <1>2, <2>2, <2>3
<1> QED BY <1>8, <1>12, <1>13, <1>14 DEF IInv

\* The conditions are inductive.
LEMMA NextInv ==
  ASSUME IInv, [Next]_vars
  PROVE  IInv'
<1> USE DEF world, ramp, device, history
<1>0. TypeOK
  BY DEF IInv
<1>1. CASE LeaveLoop
  BY <1>0, <1>1, Within DEF LeaveLoop, TypeOK, InPeriod
<1>2. CASE WaitTimesOut
  <2>1. stalled' \in 0..StallWarnAfter
    BY <1>0, <1>2, Lengths DEF WaitTimesOut, TypeOK, Least
  <2> QED BY <1>0, <1>2, <2>1, Within DEF WaitTimesOut, TypeOK, InPeriod
<1>3. CASE WriteSome
  <2>1. written' \in 0..Writes
    BY <1>0, <1>3, Lengths DEF WriteSome, TypeOK
  <2> QED BY <1>0, <1>3, <2>1, InRange, Within DEF WriteSome, TypeOK, InPeriod
<1>4. CASE WriteNothing
  BY <1>0, <1>4, InRange, Within DEF WriteNothing, TypeOK, InPeriod
<1>5. CASE Xrun
  <2>1. depth' \in 2..BufferPeriods /\ applied' \in 2..BufferPeriods /\ lastXrun' = "recent"
    <3>1. depth \in 2..BufferPeriods /\ applied \in 2..BufferPeriods
      BY <1>0 DEF TypeOK
    <3>2. Deepens => depth + 1 \in 2..BufferPeriods /\ Settled(depth + 1) \in 2..BufferPeriods
      <4>1. Deepens => depth + 1 \in 2..BufferPeriods
        BY <3>1, Lengths DEF Deepens
      <4> QED BY <4>1, SettledIs
    <3> QED BY <1>5, <3>1, <3>2 DEF Xrun, NoteXrun
  <2> QED BY <1>0, <1>5, <2>1, InRange, Within DEF Xrun, TypeOK, InPeriod
<1>6. CASE DeviceFails
  BY <1>0, <1>6, Within DEF DeviceFails, TypeOK, InPeriod
<1>7. CASE EndUnhealthy
  <2>1. /\ pc = "end" /\ (pc' = "top" \/ pc' = "failed") /\ steady' = FALSE
        /\ UNCHANGED <<stop, sender, wedged, connected, silent, left, away, absent, healthy, ticks,
                       written, stalled, depth, lastXrun, applied>>
        /\ errors' \in 0..MaxErrors - 1 \/ pc' = "failed"
    <3>1. errors \in 0..MaxErrors - 1
      BY <1>0, <1>7 DEF EndUnhealthy, TypeOK
    <3> QED BY <1>7, <3>1, Lengths DEF EndUnhealthy
  <2>2. TypeOK'
    BY <1>0, <2>1 DEF TypeOK
  <2> QED BY <2>1, <2>2 DEF IInv, CadenceInv, AbsentInv, SteadyInv, InPeriod
<1>8. CASE RequestStop
  BY <1>0, <1>8, Within DEF RequestStop, TypeOK, InPeriod
<1>9. CASE SenderChanges
  BY <1>0, <1>9, Within DEF SenderChanges, TypeOK, InPeriod
<1>10. CASE DeviceWedges
  <2>1. wedged' \in BOOLEAN
    BY <1>10 DEF DeviceWedges
  <2> QED BY <1>0, <1>10, <2>1, Within DEF DeviceWedges, TypeOK, InPeriod
<1>11. CASE WindowElapses
  BY <1>0, <1>11, Within DEF WindowElapses, TypeOK, InPeriod
<1>12. CASE UNCHANGED vars
  BY <1>0, <1>12, Within DEF vars, TypeOK, InPeriod
<1> QED BY <1>1, <1>2, <1>3, <1>4, <1>5, <1>6, <1>7, <1>8, <1>9, <1>10, <1>11, <1>12,
           ReadInv, EndHealthyInv DEF Next, Step

THEOREM Inductive == Spec => []IInv
BY InitInv, NextInv, PTL DEF Spec

-----------------------------------------------------------------------------
\* Every variable keeps its type: the depth stays between two periods and what
\* the buffer has, the error budget is never exceeded by a thread that runs.
THEOREM TypeCorrect == Spec => []TypeOK
BY Inductive, PTL DEF IInv

\* The step that returns audio, and what it does to the ramp.
LEMMA ReturnIs ==
  ASSUME IInv, [Next]_vars, Returns
  PROVE  left' = Applied(Armed)
<1>1. pc = "top" /\ pc' = "write" /\ sender = "loud" /\ healthy'
  BY DEF Returns
<1>2. Read
  BY <1>1 DEF Next, Step, LeaveLoop, WaitTimesOut, WriteSome, WriteNothing, Xrun, DeviceFails,
    EndHealthy, EndUnhealthy, RequestStop, SenderChanges, DeviceWedges, WindowElapses, vars
<1>3. PICK readOk \in BOOLEAN :
        /\ \/ readOk /\ sender = "loud" /\ Audio
           \/ ~(readOk /\ sender = "loud") /\ Zeros(readOk)
        /\ healthy' = readOk
  BY <1>2 DEF Read
<1>4. readOk
  BY <1>1, <1>3
<1> QED BY <1>1, <1>3, <1>4 DEF Audio

\* Audio that comes back after a long absence starts the long ramp from
\* silence, wherever in the metrics cadence the sender went and whatever
\* silence it came back with (recv.rs 370-403).
THEOREM AbsenceStartsCold == Spec => AbsenceIsCold
<1>1. ASSUME IInv, [Next]_vars, Returns, absent PROVE Begins(Cold)
  <2>1. silent = LongAbsence
    BY <1>1 DEF IInv, AbsentInv
  <2>2. Armed = Cold
    BY <2>1, Lengths DEF Armed
  <2> QED BY <1>1, <2>2, ReturnIs, Lengths DEF Applied, Begins
<1>2. IInv /\ [Next]_vars => [Returns /\ absent => Begins(Cold)]_vars
  BY <1>1
<1> QED BY <1>2, Inductive, PTL DEF Spec, AbsenceIsCold

\* A sender that never went away is not ramped in after a pause, however long
\* (recv.rs 356-369).
THEOREM PausesAreSpared == Spec => PauseIsSpared
<1>1. ASSUME IInv, [Next]_vars, Returns, steady PROVE left' <= left
  <2>1. silent \in Nat /\ left \in Nat /\ silent <= MetricsEvery
    BY <1>1, Lengths DEF IInv, TypeOK, SteadyInv
  <2>2. Armed = left
    BY <2>1, Lengths DEF Armed
  <2> QED BY <1>1, <2>1, <2>2, ReturnIs DEF Applied
<1>2. IInv /\ [Next]_vars => [Returns /\ steady => left' <= left]_vars
  BY <1>1
<1> QED BY <1>2, Inductive, PTL DEF Spec, PauseIsSpared
=============================================================================
