--------------------------- MODULE Sensors_proofs ---------------------------
(***************************************************************************)
(* Proofs about Sensors, for every length of a frame, set of bytes and     *)
(* types, range of the clock and timeout.                                  *)
(***************************************************************************)
EXTENDS Sensors, SequenceTheorems, TLAPS

-----------------------------------------------------------------------------
(***************************************************************************)
(* ValuesAreFresh.                                                         *)
(***************************************************************************)
FlagTypes ==
  s_online \in BOOLEAN /\ s_imu_valid \in BOOLEAN /\ s_shtc3_valid \in BOOLEAN /\ due \subseteq Tasks
TimeTypes == elapsed \in 0..(W - 1) /\ age \in 0..(W + 1) /\ tempAge \in Nat
SensorTypes == FlagTypes /\ TimeTypes

\* A silence that the counter cannot tell from none, or one of at most n.
Within(n) == age <= n \/ age = W

\* The counter tells the age of the last frame until it wraps.
ClockInv == s_online /\ age # W => elapsed = age

\* What was handed over and shown is older by a period where the task is due.
PageInv ==
  /\ s_imu_valid => Within(Timeout + 1) /\ ("imu" \notin due => Within(Timeout))
  /\ shown["accel"] \/ shown["gyro"] => Within(Timeout + 1) /\ ("pages" \notin due => Within(Timeout))
  /\ shown["attitude"] => Within(Timeout + 2) /\ ("pages" \notin due => Within(Timeout + 1))
  /\ s_shtc3_valid => tempAge <= 1 /\ ("shtc3" \notin due => tempAge = 0)
  /\ shown["temp"] => tempAge <= 2 /\ ("pages" \notin due => tempAge <= 1)

FreshInv == SensorTypes /\ ClockInv /\ PageInv

\* Nothing is shown at the start.
LEMMA InitFresh == Init => FreshInv
<1> SUFFICES ASSUME Init PROVE FreshInv
  OBVIOUS
<1>1. SensorTypes
  <2>1. FlagTypes
    BY DEF Init, FlagTypes
  <2>2. elapsed = 0 /\ age = W + 1 /\ tempAge = W + 1
    BY DEF Init, Never
  <2> QED BY <2>1, <2>2, SensorsAssumption DEF SensorTypes, TimeTypes
<1>2. ClockInv
  BY DEF Init, ClockInv
<1>3. ~shown["accel"] /\ ~shown["gyro"] /\ ~shown["attitude"] /\ ~shown["temp"]
  BY DEF Init, Labels
<1>4. PageInv
  BY <1>3 DEF Init, PageInv
<1> QED BY <1>1, <1>2, <1>4 DEF FreshInv

\* A byte changes the driver's clock only when it ends an angle frame.
LEMMA FeedClock ==
  ASSUME NEW b, Feed(b)
  PROVE  \/ UNCHANGED <<s_online, elapsed, age>>
         \/ s_online' = TRUE /\ elapsed' = 0 /\ age' = 0
  BY DEF Feed, Apply, Keep

\* The IMU's line.
LEMMA LineFresh ==
  ASSUME FreshInv, Deliver \/ Disturb \/ NextFrame \/ Unplug PROVE FreshInv'
<1>1. \/ UNCHANGED <<s_online, elapsed, age>>
      \/ s_online' = TRUE /\ elapsed' = 0 /\ age' = 0
  BY FeedClock DEF Deliver, Disturb, NextFrame, Unplug, imuVars
<1>2. UNCHANGED pageVars
  BY DEF Deliver, Disturb, NextFrame, Unplug
<1>3. SensorTypes'
  <2>1. FlagTypes'
    BY <1>1, <1>2 DEF FreshInv, SensorTypes, FlagTypes, pageVars
  <2>2. tempAge' \in Nat
    BY <1>2 DEF FreshInv, SensorTypes, TimeTypes, pageVars
  <2>3. elapsed' \in 0..(W - 1) /\ age' \in 0..(W + 1)
    BY <1>1, SensorsAssumption DEF FreshInv, SensorTypes, TimeTypes
  <2> QED BY <2>1, <2>2, <2>3 DEF SensorTypes, TimeTypes
<1>4. ClockInv'
  BY <1>1 DEF FreshInv, ClockInv
<1>5. \A n \in Nat : Within(n) => Within(n)'
  BY <1>1 DEF Within
<1>6. PageInv'
  BY <1>2, <1>5, SensorsAssumption DEF FreshInv, PageInv, pageVars
<1> QED BY <1>3, <1>4, <1>6 DEF FreshInv

\* An IMU that is online has been heard within the timeout.
LEMMA OnlineIsFresh == ASSUME FreshInv, IsOnline PROVE Within(Timeout)
  BY SensorsAssumption DEF FreshInv, SensorTypes, TimeTypes, ClockInv, IsOnline, Within

\* A longer time allows more.
LEMMA WithinMore ==
  ASSUME SensorTypes, NEW m \in Nat, NEW n \in Nat, m <= n, Within(m) PROVE Within(n)
  BY SensorsAssumption DEF Within, SensorTypes, TimeTypes

\* The tasks and timers hand over what is fresh.
LEMMA ShowFresh == ASSUME FreshInv, Show, UNCHANGED imuVars PROVE FreshInv'
<1>1. UNCHANGED <<s_online, elapsed, age>>
  BY DEF imuVars
<1>2. ClockInv'
  BY <1>1 DEF FreshInv, ClockInv
<1>3. \A n : Within(n)' <=> Within(n)
  BY <1>1 DEF Within
<1>4. IsOnline \in BOOLEAN
  BY DEF IsOnline, FreshInv, SensorTypes, FlagTypes
<1>5. IsOnline => Within(Timeout) /\ Within(Timeout + 1)
  BY OnlineIsFresh, WithinMore, SensorsAssumption DEF FreshInv
<1>6. CASE ImuTask
  <2>1. SensorTypes'
    BY <1>1, <1>4, <1>6 DEF FreshInv, SensorTypes, FlagTypes, TimeTypes, ImuTask, Done, SetImuData
  <2>2. s_imu_valid' => IsOnline
    BY <1>6 DEF ImuTask, SetImuData
  <2>3. PageInv'
    BY <1>3, <1>5, <1>6, <2>2 DEF FreshInv, PageInv, ImuTask, Done
  <2> QED BY <1>2, <2>1, <2>3 DEF FreshInv
<1>7. CASE Shtc3Task
  <2>1. \/ s_shtc3_valid' = TRUE /\ tempAge' = 0
        \/ s_shtc3_valid' = FALSE /\ tempAge' = tempAge
    BY <1>7 DEF Shtc3Task, SetData, SetInvalid
  <2>2. SensorTypes'
    <3>1. FlagTypes'
      BY <1>1, <1>7, <2>1 DEF FreshInv, SensorTypes, FlagTypes, Shtc3Task, Done
    <3>2. tempAge' \in Nat
      BY <2>1 DEF FreshInv, SensorTypes, TimeTypes
    <3> QED BY <1>1, <3>1, <3>2 DEF FreshInv, SensorTypes, TimeTypes
  <2>3. PageInv'
    BY <1>3, <1>7, <2>1 DEF FreshInv, PageInv, Shtc3Task, Done
  <2> QED BY <1>2, <2>2, <2>3 DEF FreshInv
<1>8. CASE PageTimers
  <2>1. SensorTypes'
    BY <1>1, <1>8 DEF FreshInv, SensorTypes, FlagTypes, TimeTypes, PageTimers, Done
  <2>2. /\ shown'["attitude"] = s_imu_valid /\ shown'["temp"] = s_shtc3_valid
        /\ shown'["accel"] = IsOnline /\ shown'["gyro"] = IsOnline
    BY <1>8 DEF PageTimers, SensorTimer, AccelTimer, GyroTimer
  <2>3. due' \subseteq due /\ UNCHANGED <<s_imu_valid, s_shtc3_valid, tempAge>>
    BY <1>8 DEF PageTimers, Done
  <2>4. s_imu_valid => Within(Timeout + 2)
    BY WithinMore, SensorsAssumption DEF FreshInv, PageInv
  <2>5. s_shtc3_valid => tempAge <= 1 /\ tempAge <= 2
    BY DEF FreshInv, SensorTypes, TimeTypes, PageInv
  <2>6. s_imu_valid' => Within(Timeout + 1) /\ ("imu" \notin due' => Within(Timeout))
    BY <1>8 DEF PageTimers, Done, FreshInv, PageInv
  <2>7. s_shtc3_valid' => tempAge' <= 1 /\ ("shtc3" \notin due' => tempAge' = 0)
    BY <1>8 DEF PageTimers, Done, FreshInv, PageInv
  <2>8. PageInv'
    BY <1>3, <1>5, <2>2, <2>3, <2>4, <2>5, <2>6, <2>7 DEF FreshInv, PageInv
  <2> QED BY <1>2, <2>1, <2>8 DEF FreshInv
<1> QED BY <1>6, <1>7, <1>8 DEF Show

\* A period passes: everything is older by one.
LEMMA TickFresh == ASSUME FreshInv, Tick PROVE FreshInv'
<1>1. /\ due = {} /\ due' = Tasks
      /\ elapsed' = (elapsed + 1) % W
      /\ age' = IF age < W THEN age + 1 ELSE age
      /\ tempAge' = IF tempAge < 3 THEN tempAge + 1 ELSE tempAge
      /\ UNCHANGED <<s_online, s_imu_valid, s_shtc3_valid, shown>>
  BY DEF Tick
<1>2. elapsed' \in 0..(W - 1) /\ (elapsed < W - 1 => elapsed' = elapsed + 1)
  BY <1>1, SensorsAssumption DEF FreshInv, SensorTypes, TimeTypes
<1>3. SensorTypes'
  <2>1. FlagTypes'
    BY <1>1 DEF FreshInv, SensorTypes, FlagTypes
  <2>2. TimeTypes'
    BY <1>1, <1>2, SensorsAssumption DEF FreshInv, SensorTypes, TimeTypes
  <2> QED BY <2>1, <2>2 DEF SensorTypes
<1>4. ClockInv'
  <2>1. s_online' = s_online
    BY <1>1
  <2>2. age' # W => age # W /\ (elapsed = age => elapsed' = age')
    BY <1>1, <1>2, SensorsAssumption DEF FreshInv, SensorTypes, TimeTypes
  <2> QED BY <2>1, <2>2 DEF FreshInv, ClockInv
<1>5. \A n \in Nat : n < W /\ Within(n) => Within(n + 1)'
  BY <1>1, SensorsAssumption DEF FreshInv, SensorTypes, TimeTypes, Within
<1>6. Timeout \in Nat /\ Timeout + 1 < W /\ Timeout < W /\ Timeout + 1 + 1 = Timeout + 2
  BY SensorsAssumption
<1>7. s_imu_valid' => Within(Timeout + 1)'
  BY <1>1, <1>5, <1>6 DEF FreshInv, PageInv
<1>8. shown'["accel"] \/ shown'["gyro"] => Within(Timeout + 1)'
  BY <1>1, <1>5, <1>6 DEF FreshInv, PageInv
<1>9. shown'["attitude"] => Within(Timeout + 2)'
  BY <1>1, <1>5, <1>6 DEF FreshInv, PageInv
<1>10. (s_shtc3_valid' => tempAge' <= 1) /\ (shown'["temp"] => tempAge' <= 2)
  BY <1>1 DEF FreshInv, PageInv, SensorTypes, TimeTypes
<1>11. \A t \in Tasks : t \in due'
  BY <1>1
<1>12. PageInv'
  BY <1>7, <1>8, <1>9, <1>10, <1>11 DEF PageInv, Tasks
<1> QED BY <1>3, <1>4, <1>12 DEF FreshInv

\* No page shows a value of a sensor that has fallen silent for longer than the
\* timeout and the periods of the tasks, until the counter has wrapped.
THEOREM ShownIsFresh == Spec => []ValuesAreFresh
<1>1. FreshInv /\ [Next]_vars => FreshInv'
  <2> SUFFICES ASSUME FreshInv, [Next]_vars PROVE FreshInv'
    OBVIOUS
  <2>1. CASE UNCHANGED vars
    BY <2>1 DEF vars, imuVars, pageVars, FreshInv, SensorTypes, FlagTypes, TimeTypes, ClockInv, PageInv, Within
  <2> QED BY <2>1, LineFresh, ShowFresh, TickFresh DEF Next
<1>2. FreshInv => ValuesAreFresh
  BY DEF FreshInv, PageInv, Within, ValuesAreFresh
<1> QED BY <1>1, <1>2, InitFresh, PTL DEF Spec

-----------------------------------------------------------------------------
(***************************************************************************)
(* Recovers.                                                               *)
(***************************************************************************)
\* What a frame may hold: bytes, and the sums of bytes.
Vals == Byte \cup {SumOf(f) : f \in Bodies}

\* A frame less its sum.
LEMMA BodyFacts ==
  ASSUME NEW f \in Bodies
  PROVE  /\ f \in Seq(Vals) /\ Len(f) = FrameLen - 1
         /\ f[1] = Header /\ f[2] \in Types
<1>1. FrameLen - 1 \in Nat
  BY SensorsAssumption
<1>2. f \in [1..(FrameLen - 1) -> Vals] /\ f[1] = Header /\ f[2] \in {Angle, Accel}
  BY DEF Bodies, Vals
<1>3. f \in Seq(Vals) /\ Len(f) = FrameLen - 1
  BY <1>1, <1>2
<1> QED BY <1>2, <1>3, SensorsAssumption

\* A frame ends with its sum.
LEMMA FrameFacts ==
  ASSUME NEW c \in Frames
  PROVE  /\ c \in Seq(Vals) /\ Len(c) = FrameLen
         /\ c[1] = Header /\ c[2] \in Types
         /\ SumOf(Front(c)) = Last(c)
<1>1. PICK f \in Bodies : c = Append(f, SumOf(f))
  BY Zenon DEF Frames
<1>2. SumOf(f) \in Vals
  BY DEF Vals
<1>3. f \in Seq(Vals) /\ Len(f) = FrameLen - 1 /\ f[1] = Header /\ f[2] \in Types
  BY BodyFacts
<1>4. /\ c \in Seq(Vals) /\ Len(c) = FrameLen /\ c[1] = Header /\ c[2] \in Types
      /\ c[FrameLen] = SumOf(f)
  BY <1>1, <1>2, <1>3, SensorsAssumption
<1>5. Front(c) = f
  <2>1. \A i \in 1..(FrameLen - 1) : c[i] = f[i]
    BY <1>1, <1>2, <1>3, SensorsAssumption
  <2>2. Front(c) = SubSeq(c, 1, FrameLen - 1)
    BY <1>4 DEF Front
  <2> QED BY <1>3, <1>4, <2>1, <2>2, SensorsAssumption
<1> QED BY <1>4, <1>5 DEF Last

LineTypes ==
  /\ cur \in Frames /\ pos \in 0..FrameLen
  /\ frame \in Seq(Vals) /\ Len(frame) < FrameLen

\* During a clean frame the parser is at its beginning or inside a frame that
\* ends before this one does; then it waits for a header.
CatchingUp == intact /\ Clean /\ pos >= 1 => frame = << >> \/ Len(frame) >= pos

\* From then on it has what is on the line.
InStep ==
  /\ began /\ intact => synced
  /\ synced /\ pos < FrameLen => began /\ intact /\ frame = SubSeq(cur, 1, pos)
  /\ synced /\ pos = FrameLen => frame = << >> /\ (began /\ intact => taken)

SyncInv == LineTypes /\ CatchingUp /\ InStep

\* The parser starts anywhere in a frame.
LEMMA InitSync == Init => SyncInv
<1> SUFFICES ASSUME Init PROVE SyncInv
  OBVIOUS
<1>1. frame = << >> /\ cur \in Frames /\ pos \in 0..(FrameLen - 1)
  BY DEF Init
<1>2. LineTypes
  BY <1>1, SensorsAssumption DEF LineTypes
<1>3. intact = (pos = 0) /\ began = (pos = 0) /\ synced = (pos = 0)
  BY DEF Init
<1>4. CatchingUp
  BY <1>1, <1>3 DEF CatchingUp
<1>5. SubSeq(cur, 1, 0) = << >>
  BY <1>1, FrameFacts
<1>6. InStep
  <2>1. CASE pos = 0
    BY <1>1, <1>3, <1>5, <2>1, SensorsAssumption DEF InStep
  <2>2. CASE pos # 0
    BY <1>3, <2>2 DEF InStep
  <2> QED BY <2>1, <2>2
<1> QED BY <1>2, <1>4, <1>6 DEF SyncInv

\* A byte leaves less than a frame.
LEMMA FeedTypes ==
  ASSUME frame \in Seq(Vals), Len(frame) < FrameLen, NEW b \in Vals, Feed(b)
  PROVE  frame' \in Seq(Vals) /\ Len(frame') < FrameLen
<1> DEFINE f == Append(frame, b)
<1>1. f \in Seq(Vals) /\ Len(f) = Len(frame) + 1
  OBVIOUS
<1>2. \/ frame' = << >>
      \/ frame' = f /\ Len(f) < FrameLen
  BY <1>1, SensorsAssumption DEF Feed
<1>3. CASE frame' = << >>
  <2>1. << >> \in Seq(Vals) /\ Len(<< >>) = 0 /\ 0 < FrameLen
    BY SensorsAssumption
  <2> QED BY <1>3, <2>1
<1>4. CASE frame' = f /\ Len(f) < FrameLen
  BY <1>1, <1>4
<1> QED BY <1>2, <1>3, <1>4

\* A byte of a clean frame.
LEMMA FeedCatchesUp ==
  ASSUME LineTypes, CatchingUp, Clean, intact, pos < FrameLen, Feed(cur[pos + 1])
  PROVE  frame' = << >> \/ Len(frame') >= pos + 1
<1> DEFINE b == cur[pos + 1]
           f == Append(frame, b)
<1>1. cur \in Seq(Vals) /\ Len(cur) = FrameLen /\ cur[1] = Header /\ cur[2] \in Types
  BY FrameFacts DEF LineTypes
<1>2. pos \in Nat /\ pos + 1 \in 1..FrameLen
  BY SensorsAssumption DEF LineTypes
<1>3. b \in Vals
  BY <1>1, <1>2
<1>4. f \in Seq(Vals) /\ Len(f) = Len(frame) + 1 /\ Len(frame) \in Nat
  BY <1>3 DEF LineTypes
<1>5. frame = << >> => Len(frame) = 0
  OBVIOUS
<1>6. CASE Len(f) = 1 /\ frame' = (IF b = Header THEN f ELSE << >>)
  <2>1. CASE pos = 0
    BY <1>1, <1>4, <1>6, <2>1
  <2>2. CASE pos >= 1
    <3>1. b # Header
      BY <1>2, <2>2 DEF Clean
    <3> QED BY <1>6, <3>1
  <2> QED BY <1>2, <2>1, <2>2
<1>7. CASE Len(f) = 2 /\ frame' = (IF b \in Types THEN f ELSE << >>)
  <2>1. pos = 0 \/ pos = 1
    BY <1>2, <1>4, <1>5, <1>7 DEF CatchingUp
  <2> QED BY <1>1, <1>4, <1>7, <2>1
<1>8. CASE Len(f) \in 3..(FrameLen - 1) /\ frame' = f
  <2>1. pos = 0 \/ Len(frame) >= pos
    BY <1>2, <1>4, <1>5, <1>8 DEF CatchingUp
  <2> QED BY <1>2, <1>4, <1>8, <2>1
<1>9. CASE frame' = << >>
  BY <1>9
<1> QED BY <1>6, <1>7, <1>8, <1>9 DEF Feed

\* A byte of a frame the parser is in step with: the last one ends it, and its sum
\* is right.
LEMMA FeedInStep ==
  ASSUME LineTypes, pos < FrameLen, frame = SubSeq(cur, 1, pos), Feed(cur[pos + 1])
  PROVE  IF pos + 1 < FrameLen THEN frame' = SubSeq(cur, 1, pos + 1)
                               ELSE frame' = << >> /\ taken'
<1> DEFINE b == cur[pos + 1]
           f == Append(frame, b)
<1>1. /\ cur \in Seq(Vals) /\ Len(cur) = FrameLen /\ cur[1] = Header /\ cur[2] \in Types
      /\ SumOf(Front(cur)) = Last(cur)
  BY FrameFacts DEF LineTypes
<1>2. pos \in Nat /\ pos + 1 \in 1..FrameLen
  BY SensorsAssumption DEF LineTypes
<1>3. f = SubSeq(cur, 1, pos + 1) /\ Len(f) = pos + 1
  BY <1>1, <1>2
<1>4. CASE pos + 1 < FrameLen
  <2>1. pos + 1 = 1 => b = Header
    BY <1>1
  <2>2. pos + 1 = 2 => b \in Types
    BY <1>1
  <2>3. \/ Len(f) = 1 /\ frame' = (IF b = Header THEN f ELSE << >>)
        \/ Len(f) = 2 /\ frame' = (IF b \in Types THEN f ELSE << >>)
        \/ Len(f) \in 3..(FrameLen - 1) /\ frame' = f
        \/ Len(f) = FrameLen
    BY DEF Feed
  <2>4. frame' = f
    BY <1>2, <1>3, <1>4, <2>1, <2>2, <2>3
  <2> QED BY <1>3, <1>4, <2>4
<1>5. CASE pos + 1 = FrameLen
  <2>1. frame' = << >> /\ Apply(f)
    <3>1. \/ Len(f) = 1
          \/ Len(f) = 2
          \/ Len(f) \in 3..(FrameLen - 1)
          \/ Len(f) = FrameLen /\ frame' = << >> /\ Apply(f)
      BY Zenon DEF Feed
    <3> HIDE DEF f
    <3> QED BY <1>3, <1>5, <3>1, SensorsAssumption
  <2>2. f = cur
    BY <1>1, <1>3, <1>5, SubSeqFull
  <2>3. taken'
    BY <1>1, <2>1, <2>2 DEF Apply
  <2>4. ~(pos + 1 < FrameLen)
    BY <1>5, SensorsAssumption
  <2> QED BY <2>1, <2>3, <2>4, Zenon
<1>6. pos + 1 < FrameLen \/ pos + 1 = FrameLen
  BY <1>2, SensorsAssumption
<1> QED BY <1>4, <1>5, <1>6

\* A byte arrives as it was sent.
LEMMA DeliverSync == ASSUME SyncInv, Deliver PROVE SyncInv'
<1>1. /\ pos < FrameLen /\ pos' = pos + 1 /\ Feed(cur[pos + 1])
      /\ synced' = (synced \/ (pos + 1 = FrameLen /\ intact /\ Clean))
      /\ UNCHANGED <<cur, intact, began>>
  BY DEF Deliver
<1>2. LineTypes /\ CatchingUp /\ InStep
  BY DEF SyncInv
<1>3. cur \in Seq(Vals) /\ Len(cur) = FrameLen
  BY <1>2, FrameFacts DEF LineTypes
<1>4. pos \in Nat /\ pos + 1 \in 1..FrameLen
  BY <1>1, <1>2, SensorsAssumption DEF LineTypes
<1>5. LineTypes'
  <2>1. cur[pos + 1] \in Vals
    BY <1>3, <1>4
  <2>2. frame' \in Seq(Vals) /\ Len(frame') < FrameLen
    BY <1>1, <1>2, <2>1, FeedTypes DEF LineTypes
  <2>3. pos' \in 0..FrameLen
    BY <1>1, <1>4
  <2> QED BY <1>1, <1>2, <2>2, <2>3 DEF LineTypes
<1>6. Clean' = Clean
  BY <1>1 DEF Clean
<1>7. CatchingUp'
  BY <1>1, <1>2, <1>6, FeedCatchesUp DEF CatchingUp
<1>8. CASE synced
  <2>1. began /\ intact /\ frame = SubSeq(cur, 1, pos)
    BY <1>1, <1>2, <1>8 DEF InStep
  <2>2. IF pos + 1 < FrameLen THEN frame' = SubSeq(cur, 1, pos + 1)
                              ELSE frame' = << >> /\ taken'
    BY <1>1, <1>2, <2>1, FeedInStep
  <2>3. synced'
    BY <1>1, <1>8
  <2> QED BY <1>1, <1>4, <1>5, <1>7, <2>1, <2>2, <2>3, SensorsAssumption DEF InStep, SyncInv
<1>9. CASE ~synced /\ synced'
  <2>1. pos + 1 = FrameLen /\ intact /\ Clean
    BY <1>1, <1>9
  <2>2. frame' = << >>
    BY <1>1, <1>5, <1>6, <1>7, <2>1, SensorsAssumption DEF LineTypes, CatchingUp
  <2>3. ~(began /\ intact)
    BY <1>2, <1>9 DEF InStep
  <2> QED BY <1>1, <1>5, <1>7, <1>9, <2>1, <2>2, <2>3, SensorsAssumption DEF InStep, SyncInv
<1>10. CASE ~synced'
  <2>1. ~synced /\ ~(began /\ intact)
    BY <1>1, <1>2, <1>10 DEF InStep
  <2> QED BY <1>1, <1>5, <1>7, <1>10, <2>1 DEF InStep, SyncInv
<1> QED BY <1>8, <1>9, <1>10

\* What else happens on the line.
LEMMA LineSync == ASSUME SyncInv, Disturb \/ NextFrame \/ Unplug PROVE SyncInv'
<1>1. LineTypes /\ CatchingUp /\ InStep
  BY DEF SyncInv
<1>2. CASE Disturb
  <2>1. pos < FrameLen /\ pos' = pos + 1 /\ ~intact' /\ ~synced' /\ cur' = cur
    BY <1>2 DEF Disturb
  <2>2. frame' \in Seq(Vals) /\ Len(frame') < FrameLen
    BY <1>1, <1>2, FeedTypes DEF Disturb, LineTypes, imuVars, Vals
  <2>3. pos' \in 0..FrameLen
    BY <1>1, <2>1, SensorsAssumption DEF LineTypes
  <2> QED BY <1>1, <2>1, <2>2, <2>3 DEF LineTypes, CatchingUp, InStep, SyncInv
<1>3. CASE NextFrame
  <2>1. /\ pos = FrameLen /\ cur' \in Frames /\ pos' = 0
        /\ intact' /\ began' = synced /\ UNCHANGED <<synced, frame>>
    BY <1>3 DEF NextFrame
  <2>2. SubSeq(cur', 1, 0) = << >>
    BY <2>1, FrameFacts
  <2> QED BY <1>1, <2>1, <2>2, SensorsAssumption DEF LineTypes, CatchingUp, InStep, SyncInv
<1>4. CASE Unplug
  BY <1>1, <1>4 DEF Unplug, imuVars, LineTypes, CatchingUp, Clean, InStep, SyncInv
<1> QED BY <1>2, <1>3, <1>4

\* After one whole frame with no header byte inside, wherever the parser was, it
\* finds the start of the next, and takes every frame that arrives whole.
THEOREM ParserRecovers == Spec => []Recovers
<1>1. SyncInv /\ [Next]_vars => SyncInv'
  <2> SUFFICES ASSUME SyncInv, [Next]_vars PROVE SyncInv'
    OBVIOUS
  <2>1. CASE UNCHANGED <<lineVars, synced, frame, taken>>
    BY <2>1 DEF lineVars, LineTypes, CatchingUp, Clean, InStep, SyncInv
  <2> QED BY <2>1, DeliverSync, LineSync DEF Next, vars, imuVars, Tick
<1>2. SyncInv => Recovers
  BY SensorsAssumption DEF SyncInv, InStep, LineTypes, Recovers
<1> QED BY <1>1, <1>2, InitSync, PTL DEF Spec
=============================================================================
