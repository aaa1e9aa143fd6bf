------------------------------ MODULE Sensors -------------------------------
(***************************************************************************)
(* The sensors and their pages: the frame parser of the IMU (jy901s.c),    *)
(* the humidity sensor (shtc3.c), the tasks that hand the samples over     *)
(* (main.c) and the timers that show them (ui_sensor.c, ui_accel.c,        *)
(* ui_gyro.c).                                                             *)
(*                                                                         *)
(* The IMU streams frames  header | type | data | sum  without a gap; a    *)
(* header may also occur inside a frame.  Bytes are numbers below B.       *)
(***************************************************************************)
EXTENDS Integers, SequencesExt

CONSTANTS
  FrameLen,                    \* JY901S_FRAME_LEN
  B,                           \* byte values: 256
  Header,                      \* 0x55
  Types,                       \* 0x50..0x59, the header among them
  Angle, Accel,                \* JY901S_ID_ANGLE; a type that is only kept
  W,                           \* values of the millisecond counter: 2^32
  Timeout,                     \* of jy901s_is_online(): 1000
  MaxFaults                    \* bound: bytes lost or changed on the line

ASSUME SensorsAssumption ==
  /\ FrameLen \in Nat /\ FrameLen >= 3 /\ B \in Nat \ {0}
  /\ Types \subseteq 0..(B - 1) /\ Header \in Types
  /\ {Angle, Accel} \subseteq Types \ {Header}
  /\ W \in Nat /\ Timeout \in 0..(W - 3)
  /\ MaxFaults \in Nat

Byte == 0..(B - 1)
Never == W + 1
Tasks == {"imu", "shtc3", "pages"}
Labels == {"attitude", "temp", "accel", "gyro"}

VARIABLES
  cur, pos,                    \* the frame on the line, and how far it is sent
  plugged,                     \* the IMU is there
  frame,                       \* jy901s_task: fpos is its length
  s_online,
  elapsed,                     \* now - last_update_ms, as the counter tells it
  s_imu_valid, s_shtc3_valid,
  shown,                       \* the labels that show values, not dashes
  due,                         \* tasks and timers whose period is over
  age, tempAge,                \* history: ticks since the last angle frame, and
                               \* since the last good read of the SHTC3
  intact, began, taken,        \* history: the frame on the line came whole so far,
                               \* was awaited, was applied to s_data
  synced,                      \* history: a clean frame came since the last fault
  faults

lineVars == <<cur, pos, plugged, intact, began, faults>>
imuVars  == <<frame, s_online, elapsed, age, taken>>
pageVars == <<s_imu_valid, s_shtc3_valid, shown, due, tempAge>>
vars == <<lineVars, synced, imuVars, pageVars>>

\* Low byte of the sum of what comes before.
SumOf(bytes) == FoldLeft(LAMBDA x, y : (x + y) % B, 0, bytes)
Bodies ==
  {f \in [1..(FrameLen - 1) -> Byte] : f[1] = Header /\ f[2] \in {Angle, Accel}}
Frames == {Append(f, SumOf(f)) : f \in Bodies}

\* jy901s_init() and the tasks start while the IMU is anywhere in a frame.
Init ==
  /\ cur \in Frames /\ pos \in 0..(FrameLen - 1) /\ plugged = TRUE
  /\ intact = (pos = 0) /\ began = (pos = 0) /\ synced = (pos = 0)
  /\ frame = << >> /\ taken = FALSE /\ s_online = FALSE
  /\ elapsed = 0 /\ age = Never /\ tempAge = Never
  /\ s_imu_valid = FALSE /\ s_shtc3_valid = FALSE
  /\ shown = [label \in Labels |-> FALSE]
  /\ due = Tasks /\ faults = 0

-----------------------------------------------------------------------------
(***************************************************************************)
(* jy901s_task().                                                          *)
(***************************************************************************)
\* jy901s_parse_frame(): a frame with a wrong sum changes nothing; an angle
\* frame is also the sign of life.
Apply(f) ==
  IF SumOf(Front(f)) = Last(f)
  THEN /\ taken' = (f = cur)
       /\ IF f[2] = Angle
          THEN s_online' = TRUE /\ elapsed' = 0 /\ age' = 0
          ELSE UNCHANGED <<s_online, elapsed, age>>
  ELSE UNCHANGED <<taken, s_online, elapsed, age>>

Keep == UNCHANGED <<taken, s_online, elapsed, age>>

\* Mutant: any byte may start a frame.
FeedAny(b) ==
  LET f == Append(frame, b) IN
  \/ Len(f) = 1 /\ frame' = f /\ Keep
  \/ Len(f) = 2 /\ frame' = (IF b \in Types THEN f ELSE << >>) /\ Keep
  \/ Len(f) \in 3..(FrameLen - 1) /\ frame' = f /\ Keep
  \/ Len(f) = FrameLen /\ frame' = << >> /\ Apply(f)

\* The byte that is no type is not looked at again as a header.
Feed(b) ==
  LET f == Append(frame, b) IN
  \/ Len(f) = 1 /\ frame' = (IF b = Header THEN f ELSE << >>) /\ Keep
  \/ Len(f) = 2 /\ frame' = (IF b \in Types THEN f ELSE << >>) /\ Keep
  \/ Len(f) \in 3..(FrameLen - 1) /\ frame' = f /\ Keep
  \/ Len(f) = FrameLen /\ frame' = << >> /\ Apply(f)

\* Of the frame on the line, after its byte number i.
Clean == \A i \in 2..FrameLen : cur[i] # Header

Deliver ==
  /\ plugged /\ pos < FrameLen
  /\ pos' = pos + 1
  /\ Feed(cur[pos + 1])
  /\ synced' = (synced \/ (pos + 1 = FrameLen /\ intact /\ Clean))
  /\ UNCHANGED <<cur, plugged, intact, began, faults, pageVars>>

\* The line loses or changes a byte (also an overrun of the UART buffer).
Disturb ==
  /\ plugged /\ pos < FrameLen /\ faults < MaxFaults
  /\ faults' = faults + 1 /\ pos' = pos + 1
  /\ intact' = FALSE /\ synced' = FALSE
  /\ \/ UNCHANGED imuVars
     \/ \E b \in Byte \ {cur[pos + 1]} : Feed(b)
  /\ UNCHANGED <<cur, plugged, began, pageVars>>

NextFrame ==
  /\ plugged /\ pos = FrameLen
  /\ cur' \in Frames /\ pos' = 0
  /\ intact' = TRUE /\ began' = synced /\ taken' = FALSE
  /\ UNCHANGED <<plugged, synced, faults, frame, s_online, elapsed, age, pageVars>>

\* The IMU falls silent, within a frame or between two.
Unplug ==
  /\ plugged
  /\ plugged' = FALSE
  /\ UNCHANGED <<cur, pos, intact, began, faults, synced, imuVars, pageVars>>

-----------------------------------------------------------------------------
(***************************************************************************)
(* The tasks of main.c and the timers of the pages.                        *)
(***************************************************************************)
\* Mutant: an IMU once seen is online.
OnceOnline == s_online

\* jy901s_is_online(): unsigned, so the age is modulo W.
IsOnline == s_online /\ elapsed <= Timeout

Done(t) == t \in due /\ due' = due \ {t}

\* ui_sensor_set_imu_data(): the flag is written after the values.
SetImuData(online) == s_imu_valid' = online

\* imu_task()
ImuTask ==
  /\ Done("imu")
  /\ SetImuData(IsOnline)
  /\ UNCHANGED <<s_shtc3_valid, shown, tempAge>>

\* What shtc3_getdata() may return.  A wake-up that fails is not looked at, the
\* sensor sleeps either way.
Results == {"ESP_OK", "the measurement fails", "the read fails", "a CRC is wrong"}

\* ui_sensor_set_data(), ui_sensor_set_invalid()
SetData == s_shtc3_valid' = TRUE /\ tempAge' = 0
SetInvalid == s_shtc3_valid' = FALSE /\ UNCHANGED tempAge

\* shtc3_task()
Shtc3Task ==
  /\ Done("shtc3")
  /\ \E ret \in Results : IF ret = "ESP_OK" THEN SetData ELSE SetInvalid
  /\ UNCHANGED <<s_imu_valid, shown>>

\* The timers of the LVGL task: sensor_display_timer_cb() shows what the tasks
\* left, accel_timer_cb() and gyro_timer_cb() ask the driver themselves.
SensorTimer == shown'["attitude"] = s_imu_valid /\ shown'["temp"] = s_shtc3_valid
AccelTimer == shown'["accel"] = IsOnline
GyroTimer == shown'["gyro"] = IsOnline

PageTimers ==
  /\ Done("pages")
  /\ shown' \in [Labels -> BOOLEAN]
  /\ SensorTimer /\ AccelTimer /\ GyroTimer
  /\ UNCHANGED <<s_imu_valid, s_shtc3_valid, tempAge>>

\* A tick is longer than every period.
Tick ==
  /\ due = {} /\ due' = Tasks
  /\ elapsed' = (elapsed + 1) % W
  /\ age' = IF age < W THEN age + 1 ELSE age
  /\ tempAge' = IF tempAge < 3 THEN tempAge + 1 ELSE tempAge
  /\ UNCHANGED <<frame, taken, s_online, s_imu_valid, s_shtc3_valid, shown>>

Show == ImuTask \/ Shtc3Task \/ PageTimers
Next ==
  \/ Deliver \/ Disturb \/ NextFrame \/ Unplug
  \/ Show /\ UNCHANGED <<lineVars, synced, imuVars>>
  \/ Tick /\ UNCHANGED <<lineVars, synced>>
Spec == Init /\ [][Next]_vars

-----------------------------------------------------------------------------
\* The parser finds the frames again: after one whole frame with no header
\* byte inside, wherever it was before, it stands at the start of a frame, and
\* every frame that arrives whole from then on is taken (jy901s.c, although a
\* byte that breaks a frame is not tried as the header of the next).
Recovers ==
  pos = FrameLen /\ synced =>
    /\ frame = << >>
    /\ began /\ intact => taken

\* A page shows values only of a sensor that is alive: an angle frame at most
\* the timeout and one or two periods ago, a reading at most two.  Not so
\* for the IMU when it has been silent for as long as the counter counts
\* (49.7 days): s_online is never cleared.
ValuesAreFresh ==
  /\ shown["accel"] \/ shown["gyro"] => age <= Timeout + 1 \/ age = W
  /\ shown["attitude"] => age <= Timeout + 2 \/ age = W
  /\ shown["temp"] => tempAge <= 2
=============================================================================
