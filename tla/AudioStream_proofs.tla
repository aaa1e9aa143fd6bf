------------------------- MODULE AudioStream_proofs -------------------------
(***************************************************************************)
(* The sample path loses, repeats and tears no frame, delivers a track     *)
(* that is not cut short to its last whole frame, and implements a bounded *)
(* queue of frames, for every size of the ring, of the FIFO, of the        *)
(* buffers and of the track.                                               *)
(***************************************************************************)
EXTENDS AudioStream, SequenceTheorems, TLAPS

-----------------------------------------------------------------------------
(* Division by a positive constant: slot numbers are counters modulo a      *)
(* capacity, byte counts are turned into whole frames.                      *)

\* Quotient and remainder.
LEMMA DivMod ==
  ASSUME NEW N \in Nat \ {0}, NEW a \in Int
  PROVE  /\ a \div N \in Int
         /\ a % N \in 0 .. N - 1
         /\ a = N * (a \div N) + (a % N)
BY SMT

\* A multiple of N strictly between -N and N is zero.
LEMMA SmallMultiple ==
  ASSUME NEW N \in Nat \ {0}, NEW k \in Int, -N < N * k, N * k < N
  PROVE  k = 0
<1>1. CASE k >= 1
  <2>1. N * k >= N * 1
    BY <1>1
  <2> QED BY <2>1
<1>2. CASE k <= -1
  <2>1. N * k <= N * (-1)
    BY <1>2
  <2> QED BY <2>1
<1> QED BY <1>1, <1>2

\* Quotient and remainder are unique.
LEMMA DivModUnique ==
  ASSUME NEW N \in Nat \ {0}, NEW k \in Int, NEW d \in 0 .. N - 1
  PROVE  /\ (N * k + d) % N = d
         /\ (N * k + d) \div N = k
<1> DEFINE x == N * k + d
           q == x \div N
           r == x % N
<1>1. x = N * q + r /\ q \in Int /\ r \in 0 .. N - 1
  <2>1. x \in Int
    OBVIOUS
  <2> HIDE DEF x
  <2> QED BY <2>1, DivMod
<1> HIDE DEF q, r
<1>2. r - d = N * (k - q)
  BY <1>1
<1>3. k - q = 0
  <2>1. k - q \in Int /\ -N < N * (k - q) /\ N * (k - q) < N
    BY <1>1, <1>2
  <2> QED BY <2>1, SmallMultiple
<1>4. q = k /\ r = d
  BY <1>1, <1>2, <1>3
<1> QED BY <1>4 DEF q, r

\* Two counters less than N apart share a slot only if they are equal.
LEMMA ModUnique ==
  ASSUME NEW N \in Nat \ {0}, NEW a \in Int, NEW b \in Int,
         a <= b, b < a + N, a % N = b % N
  PROVE  a = b
<1> DEFINE q == a \div N
           r == b \div N
<1>1. a = N * q + (a % N) /\ b = N * r + (b % N) /\ q \in Int /\ r \in Int
  BY DivMod
<1> HIDE DEF q, r
<1>2. b - a = N * (r - q)
  BY <1>1
<1>3. r - q = 0
  <2>1. r - q \in Int /\ -N < N * (r - q) /\ N * (r - q) < N
    BY <1>1, <1>2
  <2> QED BY <2>1, SmallMultiple
<1> QED BY <1>2, <1>3

\* The distance from counter h of the slot of counter p, when p is within the
\* N counters from h on, and when it is within the N counters before h.
LEMMA SlotDistance ==
  ASSUME NEW N \in Nat \ {0}, NEW h \in Int, NEW p \in Int
  PROVE  /\ h <= p /\ p < h + N => ((p % N) - h) % N = p - h
         /\ h - N <= p /\ p < h => ((p % N) - h) % N = p - h + N
<1> DEFINE q == p \div N
<1>1. p = N * q + (p % N) /\ q \in Int /\ p % N \in Int
  BY DivMod
<1> HIDE DEF q
<1>2. ASSUME h <= p, p < h + N
      PROVE  ((p % N) - h) % N = p - h
  <2>1. (p % N) - h = N * (-q) + (p - h)
    BY <1>1
  <2>2. p - h \in 0 .. N - 1 /\ -q \in Int
    BY <1>1, <1>2
  <2> QED BY <2>1, <2>2, DivModUnique
<1>3. ASSUME h - N <= p, p < h
      PROVE  ((p % N) - h) % N = p - h + N
  <2>1. (p % N) - h = N * (-q - 1) + (p - h + N)
    BY <1>1
  <2>2. p - h + N \in 0 .. N - 1 /\ -q - 1 \in Int
    BY <1>1, <1>3
  <2> QED BY <2>1, <2>2, DivModUnique
<1> QED BY <1>2, <1>3

\* Multiples of N.
LEMMA Multiples ==
  ASSUME NEW N \in Nat \ {0}
  PROVE  /\ \A k \in Int : (k * N) % N = 0 /\ (k * N) \div N = k
         /\ \A a \in Int : a % N = 0 => a = (a \div N) * N
<1>1. ASSUME NEW k \in Int
      PROVE  (k * N) % N = 0 /\ (k * N) \div N = k
  <2>1. k * N = N * k + 0 /\ 0 \in 0 .. N - 1
    OBVIOUS
  <2> QED BY <2>1, DivModUnique
<1>2. ASSUME NEW a \in Int, a % N = 0
      PROVE  a = (a \div N) * N
  BY <1>2, DivMod
<1> QED BY <1>1, <1>2

\* Sums and differences of multiples.
LEMMA MultiplesAdd ==
  ASSUME NEW N \in Nat \ {0}, NEW a \in Int, NEW b \in Int,
         a % N = 0, b % N = 0
  PROVE  (a + b) % N = 0 /\ (a - b) % N = 0
<1> DEFINE q == a \div N
           r == b \div N
<1>1. a = q * N /\ b = r * N /\ q \in Int /\ r \in Int
  BY Multiples, DivMod
<1> HIDE DEF q, r
<1>2. a + b = (q + r) * N /\ a - b = (q - r) * N
  BY <1>1
<1> QED BY <1>1, <1>2, Multiples

\* The whole frames in at most w frames' worth of bytes.
LEMMA WholeFrames ==
  ASSUME NEW N \in Nat \ {0}, NEW got \in Nat, NEW w \in Nat, got <= w * N
  PROVE  /\ got \div N \in Nat
         /\ got \div N <= w
         /\ (got \div N) * N <= got
         /\ got < (got \div N) * N + N
<1> DEFINE q == got \div N
<1>1. got = N * q + (got % N) /\ q \in Int /\ got % N \in 0 .. N - 1
  BY DivMod
<1> HIDE DEF q
<1>2. q >= 0
  <2> SUFFICES ASSUME q <= -1 PROVE FALSE
    BY <1>1
  <2>1. N * q <= N * (-1)
    BY <1>1
  <2> QED BY <1>1, <2>1
<1>3. q <= w
  <2> SUFFICES ASSUME q >= w + 1 PROVE FALSE
    BY <1>1
  <2>1. N * q >= N * (w + 1)
    BY <1>1
  <2>2. N * (w + 1) = w * N + N
    OBVIOUS
  <2> QED BY <1>1, <2>1, <2>2
<1>4. q * N <= got /\ got < q * N + N
  BY <1>1
<1> QED BY <1>1, <1>2, <1>3, <1>4 DEF q

\* Whole frames are counted by natural numbers.
LEMMA DivNat ==
  ASSUME NEW N \in Nat \ {0}, NEW a \in Nat
  PROVE  a \div N \in Nat
<1>1. a <= a * N
  OBVIOUS
<1> QED BY <1>1, WholeFrames

\* Whole frames before a place h frames and g bytes on.
LEMMA DivShift ==
  ASSUME NEW N \in Nat \ {0}, NEW h \in Int, NEW g \in Int
  PROVE  (h * N + g) \div N = h + (g \div N)
<1> DEFINE q == g \div N
           r == g % N
<1>1. q \in Int /\ r \in 0 .. N - 1 /\ g = N * q + r
  BY DivMod
<1> HIDE DEF q, r
<1>2. h * N + g = N * (h + q) + r
  BY <1>1
<1>3. h + q \in Int
  BY <1>1
<1>4. (N * (h + q) + r) \div N = h + q
  BY <1>1, <1>3, DivModUnique
<1> QED BY <1>2, <1>4 DEF q

\* A longer run holds no fewer whole frames, and less than a frame none.
LEMMA DivOrder ==
  ASSUME NEW N \in Nat \ {0}, NEW a \in Nat, NEW b \in Nat
  PROVE  /\ a <= b => a \div N <= b \div N
         /\ a < N <=> a \div N = 0
<1> DEFINE p == a \div N
           q == b \div N
<1>1. /\ p \in Int /\ q \in Int /\ a % N \in 0 .. N - 1 /\ b % N \in 0 .. N - 1
      /\ a = N * p + (a % N) /\ b = N * q + (b % N)
  BY DivMod
<1>2. a <= b => p <= q
  <2> HIDE DEF p, q
  <2> SUFFICES ASSUME a <= b, p >= q + 1 PROVE FALSE
    BY <1>1
  <2>1. N * p >= N * (q + 1)
    BY <1>1
  <2>2. N * (q + 1) = N * q + N
    BY <1>1
  <2> QED BY <1>1, <2>1, <2>2
<1>3. a < N => p = 0
  <2> SUFFICES ASSUME a < N PROVE p = 0
    OBVIOUS
  <2>1. a = N * 0 + a /\ a \in 0 .. N - 1 /\ 0 \in Int
    OBVIOUS
  <2> QED BY <2>1, DivModUnique
<1>4. p = 0 => a < N
  BY <1>1
<1> QED BY <1>2, <1>3, <1>4

-----------------------------------------------------------------------------
(* The constants, and the initial state *)

LEMMA ConstantTypes ==
  /\ RingFrames \in Nat \ {0} /\ MinFree \in 1 .. RingFrames
  /\ ReadFrames \in Nat \ {0} /\ StageFrames \in Nat \ {0}
  /\ Budget \in Nat \ {0} /\ FrameBytes \in Nat \ {0}
  /\ RaBytes \in Nat \ {0} /\ RaChunk \in 1 .. RaBytes
  /\ RaLow \in 1 .. RaBytes
BY SizesAssumption

LEMMA InitIInv == Init => IInv
<1> SUFFICES ASSUME Init PROVE IInv
  OBVIOUS
<1>1. SourceTypeOK /\ RefillTypeOK
  <2>1. /\ file \in [bytes : Nat, declared : Nat]
        /\ remaining \in Nat \cup {Unknown}
        /\ ra \in [0 .. RaBytes - 1 -> Int]
        /\ batch \in Seq(Frame)
    BY FilesAssumption DEF Init
  <2> QED
    BY <2>1 DEF Init, SourceTypeOK, RefillTypeOK
<1>2. RingTypeOK /\ StopTypeOK /\ TaskTypeOK
  <2>1. Junk \in Frame
    BY DEF Junk, Frame
  <2>2. /\ ring \in [0 .. RingFrames - 1 -> Frame]
        /\ stage \in Seq(Frame) /\ out \in Seq(Frame)
    BY <2>1 DEF Init
  <2> QED
    BY <2>2 DEF Init, RingTypeOK, StopTypeOK, TaskTypeOK
<1>3. BatchInPush /\ RingHoldsStream /\ BatchHoldsStream
  BY ConstantTypes
     DEF Init, BatchInPush, RingHoldsStream, BatchHoldsStream, RingUsed
<1>4. FifoHoldsFile /\ ReadAligned
  BY DEF Init, FifoHoldsFile, ReadAligned
<1>5. StageHoldsStream /\ DeliveredInOrder
  BY DEF Init, StageHoldsStream, DeliveredInOrder
<1> QED
  BY <1>1, <1>2, <1>3, <1>4, <1>5 DEF IInv, TypeOK

-----------------------------------------------------------------------------
(* Parts of the invariant a step leaves alone *)

LEMMA TypesKept ==
  ASSUME TypeOK
  PROVE  /\ UNCHANGED sourceVars => SourceTypeOK'
         /\ UNCHANGED <<lv, refillVars>> => RefillTypeOK'
         /\ UNCHANGED <<ring, head, tail, eos, drain>> => RingTypeOK'
         /\ UNCHANGED <<stopVars, cut>> => StopTypeOK'
         /\ UNCHANGED taskVars => TaskTypeOK'
BY DEF TypeOK, SourceTypeOK, RefillTypeOK, RingTypeOK, StopTypeOK, TaskTypeOK,
       sourceVars, refillVars, stopVars, taskVars

LEMMA RingKept ==
  ASSUME IInv, UNCHANGED <<batch, written, ring, head, tail>>
  PROVE  RingHoldsStream' /\ BatchHoldsStream'
BY DEF IInv, RingHoldsStream, BatchHoldsStream, RingUsed

LEMMA SourceKept ==
  ASSUME IInv, UNCHANGED <<sourceVars, batch, head>>, lv = "off" => lv' = "off"
  PROVE  FifoHoldsFile' /\ ReadAligned'
BY DEF IInv, FifoHoldsFile, ReadAligned, RaAvail, FifoClosed, sourceVars

LEMMA StageKept ==
  ASSUME IInv, UNCHANGED <<taskVars, head, tail>>
  PROVE  StageHoldsStream' /\ DeliveredInOrder'
BY DEF IInv, StageHoldsStream, DeliveredInOrder, RingUsed, taskVars

-----------------------------------------------------------------------------
(* Steps that move no data *)

LEMMA RefillDoneIInv == IInv /\ RefillDone => IInv'
<1> SUFFICES ASSUME IInv, RefillDone PROVE IInv'
  OBVIOUS
<1>1. RefillTypeOK' /\ BatchInPush'
  BY DEF IInv, TypeOK, RefillTypeOK, BatchInPush, RefillDone, refillVars,
         taskVars
<1> QED
  BY <1>1, TypesKept, RingKept, SourceKept, StageKept
     DEF IInv, TypeOK, RefillDone, refillVars, taskVars

LEMMA StartTaskIInv == IInv /\ StartTask => IInv'
<1> SUFFICES ASSUME IInv, StartTask PROVE IInv'
  OBVIOUS
<1>1. RefillTypeOK' /\ BatchInPush'
  BY DEF IInv, TypeOK, RefillTypeOK, BatchInPush, StartTask, refillVars
<1>2. TaskTypeOK'
  BY DEF IInv, TypeOK, TaskTypeOK, StartTask
<1>3. StageHoldsStream' /\ DeliveredInOrder'
  BY DEF IInv, StartTask, StageHoldsStream, DeliveredInOrder
<1> QED
  BY <1>1, <1>2, <1>3, TypesKept, RingKept, SourceKept
     DEF IInv, TypeOK, StartTask, refillVars

LEMMA PollIInv == IInv /\ Poll => IInv'
<1> SUFFICES ASSUME IInv, Poll PROVE IInv'
  OBVIOUS
<1>1. RefillTypeOK' /\ BatchInPush'
  BY ConstantTypes
     DEF IInv, TypeOK, RefillTypeOK, BatchInPush, Poll, taskVars
<1>2. StopTypeOK'
  BY DEF IInv, TypeOK, StopTypeOK, Poll
<1> QED
  BY <1>1, <1>2, TypesKept, RingKept, SourceKept, StageKept
     DEF IInv, TypeOK, Poll, taskVars

LEMMA DrainIInv == IInv /\ (DrainCheck \/ DrainElapsed) => IInv'
<1> SUFFICES ASSUME IInv, DrainCheck \/ DrainElapsed PROVE IInv'
  OBVIOUS
<1>1. RefillTypeOK' /\ BatchInPush'
  BY DEF IInv, TypeOK, RefillTypeOK, BatchInPush, DrainCheck, DrainElapsed,
         refillVars, taskVars
<1>2. RingTypeOK'
  BY DEF IInv, TypeOK, RingTypeOK, DrainCheck, DrainElapsed
<1>3. StopTypeOK'
  BY DEF IInv, TypeOK, StopTypeOK, DrainCheck, DrainElapsed, RequestStop,
         stopVars
<1> QED
  BY <1>1, <1>2, <1>3, TypesKept, RingKept, SourceKept, StageKept
     DEF IInv, TypeOK, DrainCheck, DrainElapsed, refillVars, taskVars

LEMMA UserStopIInv == IInv /\ UserStop => IInv'
<1> SUFFICES ASSUME IInv, UserStop PROVE IInv'
  OBVIOUS
<1>1. StopTypeOK' /\ BatchInPush'
  BY DEF IInv, TypeOK, StopTypeOK, BatchInPush, UserStop, RequestStop,
         refillVars, taskVars
<1> QED
  BY <1>1, TypesKept, RingKept, SourceKept, StageKept
     DEF IInv, TypeOK, UserStop, refillVars, taskVars

LEMMA WaitIInv == IInv /\ Wait => IInv'
<1> SUFFICES ASSUME IInv, Wait PROVE IInv'
  OBVIOUS
<1>1. StopTypeOK' /\ TaskTypeOK' /\ BatchInPush'
  BY DEF IInv, TypeOK, StopTypeOK, TaskTypeOK, BatchInPush, Wait, refillVars
<1>2. StageHoldsStream' /\ DeliveredInOrder'
  BY DEF IInv, Wait, StageHoldsStream, DeliveredInOrder
<1> QED
  BY <1>1, <1>2, TypesKept, RingKept, SourceKept
     DEF IInv, TypeOK, Wait, refillVars

LEMMA WriteFailsIInv == IInv /\ WriteFails => IInv'
<1> SUFFICES ASSUME IInv, WriteFails PROVE IInv'
  OBVIOUS
<1>1. StopTypeOK' /\ TaskTypeOK' /\ BatchInPush'
  BY DEF IInv, TypeOK, StopTypeOK, TaskTypeOK, BatchInPush, WriteFails,
         refillVars
<1>2. StageHoldsStream' /\ DeliveredInOrder'
  BY DEF IInv, WriteFails, StageHoldsStream, DeliveredInOrder
<1> QED
  BY <1>1, <1>2, TypesKept, RingKept, SourceKept
     DEF IInv, TypeOK, WriteFails, refillVars

LEMMA StutterIInv == IInv /\ UNCHANGED vars => IInv'
<1> SUFFICES ASSUME IInv, UNCHANGED vars PROVE IInv'
  OBVIOUS
<1>1. BatchInPush'
  BY DEF IInv, BatchInPush, vars, refillVars, taskVars
<1> QED
  BY <1>1, TypesKept, RingKept, SourceKept, StageKept
     DEF IInv, TypeOK, vars, refillVars

\* The audio task takes a chunk no longer than what is queued.
LEMMA CheckIInv == IInv /\ Check => IInv'
<1> SUFFICES ASSUME IInv, Check PROVE IInv'
  OBVIOUS
<1>1. RingUsed \in Nat
  BY DEF IInv, TypeOK, RingTypeOK, RingHoldsStream, RingUsed
<1>2. TaskTypeOK' /\ BatchInPush'
  <2>1. used' \in Nat /\ stage' \in Seq(Frame) /\ out' \in Seq(Frame)
    <3>1. CASE stopReq
      BY <3>1 DEF IInv, TypeOK, TaskTypeOK, Check
    <3>2. CASE ~stopReq
      <4>1. stage' = <<>> /\ used' = Least(RingUsed, StageFrames)
        BY <3>2 DEF Check
      <4> QED
        BY <1>1, <4>1, ConstantTypes
           DEF IInv, TypeOK, TaskTypeOK, Check, Least
    <3> QED
      BY <3>1, <3>2
  <2>2. task' \in {"check", "wait", "gather", "exit"} /\ task # "none"
    BY DEF Check
  <2>3. BatchInPush'
    BY <2>2 DEF IInv, BatchInPush, Check, refillVars
  <2> QED
    BY <2>1, <2>2, <2>3 DEF TaskTypeOK
<1>3. StageHoldsStream' /\ DeliveredInOrder'
  <2>1. \/ used' <= RingUsed' /\ used' \in Nat
        \/ task' = "exit"
    BY <1>1, ConstantTypes DEF Check, Least, RingUsed
  <2> QED
    BY <2>1 DEF IInv, TypeOK, Check, StageHoldsStream, DeliveredInOrder
<1> QED
  BY <1>2, <1>3, TypesKept, RingKept, SourceKept
     DEF IInv, TypeOK, Check, refillVars

-----------------------------------------------------------------------------
(* A new track starts from empty buffers, an ended one leaves them empty *)

LEMMA StartIInv == \A f \in Files : IInv /\ Start(f) => IInv'
<1> SUFFICES ASSUME NEW f \in Files, IInv, Start(f) PROVE IInv'
  OBVIOUS
<1>1. SourceTypeOK' /\ RefillTypeOK'
  <2>1. /\ file' \in [bytes : Nat, declared : Nat]
        /\ remaining' \in Nat \cup {Unknown}
        /\ ra' \in [0 .. RaBytes - 1 -> Int]
    BY FilesAssumption DEF Start
  <2> QED
    BY <2>1, ConstantTypes
       DEF IInv, TypeOK, SourceTypeOK, RefillTypeOK, Start
<1>2. RingTypeOK' /\ StopTypeOK' /\ TaskTypeOK'
  <2>1. Junk \in Frame
    BY DEF Junk, Frame
  <2>2. ring' \in [0 .. RingFrames - 1 -> Frame]
    BY <2>1 DEF Start
  <2>3. out' \in Seq(Frame)
    BY DEF Start
  <2>4. RingTypeOK'
    BY <2>2 DEF Start, RingTypeOK
  <2>5. StopTypeOK'
    BY DEF IInv, TypeOK, StopTypeOK, Start
  <2>6. TaskTypeOK'
    BY <2>3 DEF IInv, TypeOK, TaskTypeOK, Start
  <2> QED
    BY <2>4, <2>5, <2>6
<1>3. batch' = <<>> /\ written' = 0 /\ BatchInPush'
  BY DEF IInv, BatchInPush, Start
<1>4. RingHoldsStream' /\ BatchHoldsStream'
  BY <1>3, ConstantTypes DEF Start, RingHoldsStream, BatchHoldsStream, RingUsed
<1>5. FifoHoldsFile'
  BY ConstantTypes DEF Start, FifoHoldsFile, RaAvail
<1>6. ReadAligned'
  <2>1. (head + Len(batch))' * FrameBytes = 0 /\ 0 % FrameBytes = 0
    BY <1>3, ConstantTypes, Multiples DEF Start
  <2> QED
    BY <1>1, <2>1 DEF Start, ReadAligned, SourceTypeOK
<1>7. StageHoldsStream' /\ DeliveredInOrder'
  BY DEF Start, StageHoldsStream, DeliveredInOrder
<1> QED
  BY <1>1, <1>2, <1>3, <1>4, <1>5, <1>6, <1>7 DEF IInv, TypeOK

LEMMA TeardownIInv == IInv /\ Teardown => IInv'
<1> SUFFICES ASSUME IInv, Teardown PROVE IInv'
  OBVIOUS
<1>1. SourceTypeOK' /\ RefillTypeOK'
  BY DEF IInv, TypeOK, SourceTypeOK, RefillTypeOK, Teardown, refillVars
<1>2. RingTypeOK' /\ StopTypeOK' /\ TaskTypeOK'
  <2>1. stage' \in Seq(Frame) /\ out' \in Seq(Frame)
    BY DEF Teardown
  <2>2. TaskTypeOK'
    BY <2>1 DEF TaskTypeOK, Teardown
  <2> QED
    BY <2>2 DEF IInv, TypeOK, RingTypeOK, StopTypeOK, Teardown
<1>3. batch' = <<>> /\ written' = 0 /\ BatchInPush'
  BY DEF IInv, BatchInPush, Teardown, refillVars
<1>4. RingHoldsStream' /\ BatchHoldsStream'
  BY <1>3, ConstantTypes
     DEF Teardown, RingHoldsStream, BatchHoldsStream, RingUsed
<1>5. FifoHoldsFile' /\ ReadAligned'
  BY DEF Teardown, FifoHoldsFile, ReadAligned
<1>6. StageHoldsStream' /\ DeliveredInOrder'
  BY DEF Teardown, StageHoldsStream, DeliveredInOrder
<1> QED
  BY <1>1, <1>2, <1>3, <1>4, <1>5, <1>6 DEF IInv, TypeOK

-----------------------------------------------------------------------------
(* The two copies on the ring *)

\* The slot written is not the slot of an unread frame: the batch was cut to
\* the room in the ring, and the audio task only adds to that room.
LEMMA PushFrameIInv == IInv /\ PushFrame => IInv'
<1> SUFFICES ASSUME IInv, PushFrame PROVE IInv'
  OBVIOUS
<1> DEFINE m == head + written
<1>1. /\ head \in Nat /\ tail \in Nat /\ written \in Nat /\ m \in Nat
      /\ Len(batch) \in Nat /\ written + 1 \in 1 .. Len(batch)
      /\ batch[written + 1] \in Frame
      /\ ring \in [0 .. RingFrames - 1 -> Frame]
  BY DEF IInv, TypeOK, RingTypeOK, RefillTypeOK, PushFrame
<1>2. m % RingFrames \in 0 .. RingFrames - 1
  <2>1. m \in Int /\ RingFrames \in Nat \ {0}
    BY <1>1, ConstantTypes
  <2> HIDE DEF m
  <2> QED
    BY <2>1, DivMod
<1>3. ring' = [ring EXCEPT ![m % RingFrames] = batch[written + 1]]
  BY DEF PushFrame
<1>4. RingTypeOK'
  BY <1>1, <1>2, <1>3 DEF IInv, TypeOK, RingTypeOK, PushFrame
<1>5. RefillTypeOK' /\ BatchInPush'
  BY <1>1 DEF IInv, TypeOK, RefillTypeOK, BatchInPush, PushFrame, taskVars
<1>6. RingHoldsStream'
  <2>1. ASSUME NEW n \in tail .. m
        PROVE  ring'[n % RingFrames] = FrameAt(n)
    <3>1. CASE n = m
      <4>1. batch[written + 1] = FrameAt(m)
        BY <1>1 DEF IInv, BatchHoldsStream
      <4> QED
        BY <1>1, <1>2, <1>3, <3>1, <4>1
    <3>2. CASE n # m
      <4>1. n \in Int /\ n <= m /\ m < n + RingFrames
        BY <1>1, ConstantTypes DEF IInv, RingHoldsStream, RingUsed
      <4>2. n % RingFrames # m % RingFrames
        <5>1. m \in Int /\ RingFrames \in Nat \ {0}
          BY <1>1, ConstantTypes
        <5> HIDE DEF m
        <5> QED
          BY <3>2, <4>1, <5>1, ModUnique
      <4>3. n % RingFrames \in 0 .. RingFrames - 1
        BY <4>1, ConstantTypes, DivMod
      <4>4. ring[n % RingFrames] = FrameAt(n)
        BY <1>1, <3>2 DEF IInv, RingHoldsStream
      <4> QED
        BY <1>1, <1>3, <4>2, <4>3, <4>4
    <3> QED
      BY <3>1, <3>2
  <2>2. /\ head' = head /\ tail' = tail /\ batch' = batch
        /\ (head + written - 1)' = m
    BY <1>1 DEF PushFrame
  <2> QED
    BY <2>1, <2>2 DEF IInv, RingHoldsStream, RingUsed
<1>7. BatchHoldsStream'
  BY DEF IInv, BatchHoldsStream, PushFrame
<1> QED
  BY <1>4, <1>5, <1>6, <1>7, TypesKept, SourceKept, StageKept
     DEF IInv, TypeOK, PushFrame, taskVars

LEMMA PublishIInv == IInv /\ Publish => IInv'
<1> SUFFICES ASSUME IInv, Publish PROVE IInv'
  OBVIOUS
<1>1. /\ head \in Nat /\ tail \in Nat /\ Len(batch) \in Nat
      /\ budget \in Nat /\ head' = head + Len(batch) /\ tail' = tail
      /\ batch' = <<>> /\ written' = 0 /\ Len(batch') = 0
      /\ written = Len(batch)
  BY DEF IInv, TypeOK, RingTypeOK, RefillTypeOK, Publish
<1>2. RefillTypeOK' /\ BatchInPush'
  BY <1>1 DEF IInv, TypeOK, RefillTypeOK, BatchInPush, Publish, taskVars
<1>3. RingTypeOK' /\ StopTypeOK'
  BY <1>1 DEF IInv, TypeOK, RingTypeOK, StopTypeOK, Publish
<1>4. RingHoldsStream' /\ BatchHoldsStream'
  BY <1>1, ConstantTypes
     DEF IInv, RingHoldsStream, BatchHoldsStream, RingUsed, Publish
<1>5. FifoHoldsFile'
  BY DEF IInv, FifoHoldsFile, RaAvail, Publish, sourceVars
<1>6. ReadAligned'
  <2>1. head' + Len(batch') = head + Len(batch)
    BY <1>1
  <2> QED
    BY <2>1 DEF IInv, ReadAligned, FifoClosed, Publish, sourceVars
<1>7. StageHoldsStream' /\ DeliveredInOrder'
  <2>1. RingUsed <= RingUsed' /\ RingUsed \in Int /\ RingUsed' \in Int
    BY <1>1 DEF RingUsed
  <2>2. task' = task /\ used' = used /\ stage' = stage /\ out' = out
    BY DEF Publish, taskVars
  <2>3. used \in Nat
    BY DEF IInv, TypeOK, TaskTypeOK
  <2> QED
    BY <1>1, <2>1, <2>2, <2>3 DEF IInv, StageHoldsStream, DeliveredInOrder
<1> QED
  BY <1>2, <1>3, <1>4, <1>5, <1>6, <1>7, TypesKept
     DEF IInv, TypeOK, Publish

\* The frame copied is one of those that were queued when the chunk was sized.
LEMMA GatherIInv == IInv /\ Gather => IInv'
<1> SUFFICES ASSUME IInv, Gather PROVE IInv'
  OBVIOUS
<1> DEFINE n == tail + Len(stage)
<1>1. /\ head \in Nat /\ tail \in Nat /\ used \in Nat /\ Len(stage) \in Nat
      /\ stage \in Seq(Frame) /\ out \in Seq(Frame) /\ written \in Nat
      /\ ring \in [0 .. RingFrames - 1 -> Frame] /\ n \in Nat
  BY DEF IInv, TypeOK, RingTypeOK, RefillTypeOK, TaskTypeOK
<1>2. used <= head - tail /\ Len(stage) < used /\ Len(out) = tail
  BY DEF IInv, StageHoldsStream, RingUsed, Gather
<1>3. ring[n % RingFrames] = FrameAt(n)
  BY <1>1, <1>2 DEF IInv, RingHoldsStream
<1>4. ring[n % RingFrames] \in Frame
  BY <1>1, ConstantTypes, DivMod
<1>5. /\ stage' = Append(stage, ring[n % RingFrames])
      /\ stage' \in Seq(Frame) /\ Len(stage') = Len(stage) + 1
  BY <1>1, <1>4 DEF Gather
<1>6. TaskTypeOK' /\ BatchInPush'
  BY <1>5 DEF IInv, TypeOK, TaskTypeOK, BatchInPush, Gather, refillVars
<1>7. StageHoldsStream' /\ DeliveredInOrder'
  <2>1. ASSUME NEW i \in 1 .. Len(stage')
        PROVE  stage'[i] = FrameAt(Len(out) + i - 1)
    <3>1. CASE i = Len(stage) + 1
      BY <1>1, <1>2, <1>3, <1>5, <3>1
    <3>2. CASE i # Len(stage) + 1
      <4>1. i \in 1 .. Len(stage) /\ stage'[i] = stage[i]
        BY <1>1, <1>4, <1>5, <3>2
      <4> QED
        BY <4>1 DEF IInv, StageHoldsStream, Gather
    <3> QED
      BY <3>1, <3>2
  <2>2. /\ task' = "gather" /\ out' = out /\ tail' = tail /\ head' = head
        /\ used' = used
    BY DEF Gather
  <2>3. Len(stage') <= used' /\ used' <= RingUsed'
    BY <1>1, <1>2, <1>5, <2>2 DEF RingUsed
  <2>4. StageHoldsStream'
    BY <1>2, <2>1, <2>2, <2>3 DEF StageHoldsStream
  <2>5. DeliveredInOrder'
    BY <2>2 DEF IInv, DeliveredInOrder
  <2> QED
    BY <2>4, <2>5
<1> QED
  BY <1>6, <1>7, TypesKept, RingKept, SourceKept
     DEF IInv, TypeOK, Gather, refillVars

LEMMA ReleaseIInv == IInv /\ Release => IInv'
<1> SUFFICES ASSUME IInv, Release PROVE IInv'
  OBVIOUS
<1>1. /\ head \in Nat /\ tail \in Nat /\ used \in Nat /\ written \in Nat
      /\ Len(batch) \in Nat
      /\ used <= head - tail /\ Len(stage) = used /\ Len(out) = tail
      /\ head' = head /\ tail' = tail + used
  BY DEF IInv, TypeOK, RingTypeOK, RefillTypeOK, TaskTypeOK, StageHoldsStream,
         RingUsed, Release
<1>2. RingTypeOK' /\ TaskTypeOK' /\ BatchInPush'
  BY <1>1 DEF IInv, TypeOK, RingTypeOK, TaskTypeOK, BatchInPush, Release,
              refillVars
<1>3. RingHoldsStream' /\ BatchHoldsStream'
  <2>1. batch' = batch /\ written' = written /\ ring' = ring
    BY DEF Release, refillVars
  <2>2. BatchHoldsStream'
    BY <1>1, <2>1 DEF IInv, BatchHoldsStream
  <2>3. /\ tail' <= head' /\ head' - tail' + Len(batch') <= RingFrames
        /\ tail' .. head' + written' - 1 \subseteq tail .. head + written - 1
    BY <1>1, <2>1, ConstantTypes DEF IInv, RingHoldsStream, RingUsed
  <2> QED
    BY <2>1, <2>2, <2>3 DEF IInv, RingHoldsStream, RingUsed
<1>4. StageHoldsStream' /\ DeliveredInOrder'
  BY <1>1 DEF IInv, StageHoldsStream, DeliveredInOrder, Release
<1> QED
  BY <1>2, <1>3, <1>4, TypesKept, SourceKept
     DEF IInv, TypeOK, Release, refillVars

LEMMA WriteDoneIInv == IInv /\ WriteDone => IInv'
<1> SUFFICES ASSUME IInv, WriteDone PROVE IInv'
  OBVIOUS
<1>1. /\ stage \in Seq(Frame) /\ out \in Seq(Frame)
      /\ Len(stage) \in Nat /\ Len(out) \in Nat
      /\ Len(out) + Len(stage) = tail
  BY DEF IInv, TypeOK, TaskTypeOK, StageHoldsStream, WriteDone
<1>2. /\ out' = out \o stage /\ out' \in Seq(Frame)
      /\ Len(out') = Len(out) + Len(stage)
      /\ stage' = <<>> /\ stage' \in Seq(Frame) /\ task' = "check"
      /\ tail' = tail
  BY <1>1 DEF WriteDone
<1>3. TaskTypeOK' /\ BatchInPush'
  BY <1>2 DEF IInv, TaskTypeOK, BatchInPush, WriteDone, refillVars
<1>4. DeliveredInOrder'
  <2>1. ASSUME NEW n \in 1 .. Len(out')
        PROVE  out'[n] = FrameAt(n - 1)
    <3>1. CASE n <= Len(out)
      <4>1. out'[n] = out[n]
        BY <1>1, <1>2, <3>1
      <4> QED
        BY <1>1, <3>1, <4>1 DEF IInv, DeliveredInOrder
    <3>2. CASE n > Len(out)
      <4>1. /\ out'[n] = stage[n - Len(out)]
            /\ n - Len(out) \in 1 .. Len(stage)
        BY <1>1, <1>2, <3>2
      <4>2. stage[n - Len(out)] = FrameAt(Len(out) + (n - Len(out)) - 1)
        BY <4>1 DEF IInv, StageHoldsStream, WriteDone
      <4>3. Len(out) + (n - Len(out)) - 1 = n - 1
        BY <1>1
      <4> QED
        BY <4>1, <4>2, <4>3
    <3> QED
      BY <1>1, <1>2, <3>1, <3>2
  <2> QED
    BY <2>1 DEF DeliveredInOrder
<1>5. StageHoldsStream'
  BY <1>1, <1>2 DEF StageHoldsStream
<1> QED
  BY <1>3, <1>4, <1>5, TypesKept, RingKept, SourceKept
     DEF IInv, TypeOK, WriteDone, refillVars

-----------------------------------------------------------------------------
(* Reading the source *)

\* What one round of the refill takes is a run of whole frames at the read
\* position, or nothing.
LEMMA FrameRun ==
  ASSUME NEW at \in Nat, NEW i \in Nat \ {0}, NEW k \in 0 .. FrameBytes - 1
  PROVE  /\ at * FrameBytes + (i - 1) * FrameBytes + k
              = (at + i - 1) * FrameBytes + k
         /\ \A frames \in Nat : i <= frames =>
              at * FrameBytes + (i - 1) * FrameBytes + k
                < (at + frames) * FrameBytes
<1>1. FrameBytes \in Nat \ {0} /\ k \in Nat /\ k < FrameBytes
  BY ConstantTypes
<1>2. at * FrameBytes + (i - 1) * FrameBytes = (at + i - 1) * FrameBytes
  BY <1>1
<1>3. ASSUME NEW frames \in Nat, i <= frames
      PROVE  (at + i - 1) * FrameBytes + k < (at + frames) * FrameBytes
  <2>1. (at + i - 1) * FrameBytes + FrameBytes = (at + i) * FrameBytes
    BY <1>1
  <2>2. (at + i) * FrameBytes <= (at + frames) * FrameBytes
    BY <1>1, <1>3
  <2> QED
    BY <1>1, <2>1, <2>2
<1> QED
  BY <1>1, <1>2, <1>3

LEMMA FillReadIInv ==
  ASSUME IInv, Fill, fifo, RaAvail < RaLow, ~raEof, FillRead
  PROVE  SourceTypeOK' /\ FifoHoldsFile' /\ ReadAligned'
<1> DEFINE room == Least(RaBytes - RaAvail, RaChunk)
           want == IF remaining = Unknown THEN room ELSE Least(room, remaining)
<1>1. PICK got \in ReadResults(want) :
        /\ ra' = [i \in 0 .. RaBytes - 1 |->
                   LET offset == (i - raHead) % RaBytes
                   IN  IF offset < got THEN fpos + offset ELSE ra[i]]
        /\ raHead' = raHead + got
        /\ fpos' = fpos + got
        /\ remaining' = IF remaining = Unknown THEN Unknown
                                               ELSE remaining - got
        /\ raEof' = (got < want)
        /\ UNCHANGED <<file, fifo, raTail>>
  BY DEF FillRead
<1>2. /\ fpos \in Nat /\ raHead \in Nat /\ raTail \in Nat
      /\ remaining \in Nat \/ remaining = Unknown
      /\ ra \in [0 .. RaBytes - 1 -> Int] /\ file.bytes \in Nat
      /\ head \in Nat /\ Len(batch) \in Nat
  BY DEF IInv, TypeOK, SourceTypeOK, RingTypeOK, RefillTypeOK
<1>3. lv = "fill" /\ lv' = "refill" /\ batch' = batch /\ head' = head
  BY DEF Fill, refillVars
<1>4. /\ fpos = raHead /\ fpos <= file.bytes
      /\ raTail <= raHead /\ raHead - raTail <= RaBytes
      /\ \A p \in raTail .. raHead - 1 : ra[p % RaBytes] = p
  BY <1>3 DEF IInv, FifoHoldsFile, ReadAligned, RaAvail
<1>5. room \in Nat /\ room > 0 /\ raHead + room <= raTail + RaBytes
  BY <1>2, <1>4, ConstantTypes DEF Least, RaAvail
<1>6. want \in Nat /\ want <= room /\ want > 0
      /\ (remaining # Unknown => remaining \in Nat /\ want <= remaining)
  BY <1>2, <1>5 DEF Least, FillRead, Unknown
<1>7. got \in Nat /\ got <= want /\ fpos + got <= file.bytes
  <2> HIDE DEF want
  <2> QED
    BY <1>2, <1>4, <1>6 DEF ReadResults, Least
<1> HIDE DEF want
<1>8. SourceTypeOK'
  <2>1. ra' \in [0 .. RaBytes - 1 -> Int]
    <3>1. \A i \in 0 .. RaBytes - 1 : (i - raHead) % RaBytes \in Int
      BY <1>2, ConstantTypes, DivMod
    <3> QED
      BY <1>1, <1>2, <3>1
  <2>2. remaining' \in Nat \cup {Unknown}
    BY <1>1, <1>2, <1>6, <1>7
  <2>3. raEof' \in BOOLEAN
    BY <1>1
  <2> QED
    BY <1>1, <1>2, <1>7, <2>1, <2>2, <2>3
       DEF IInv, TypeOK, SourceTypeOK
<1>9. FifoHoldsFile'
  <2>1. ASSUME NEW p \in raTail .. raHead + got - 1
        PROVE  ra'[p % RaBytes] = p
    <3>1. p \in Int /\ RaBytes \in Nat \ {0} /\ raHead \in Int
      BY <1>2, <1>7, ConstantTypes
    <3>2. p % RaBytes \in 0 .. RaBytes - 1
      BY <3>1, DivMod
    <3>3. CASE p >= raHead
      <4>1. raHead <= p /\ p < raHead + RaBytes /\ p - raHead < got
        BY <1>2, <1>4, <1>5, <1>6, <1>7, <3>1, <3>3
      <4>2. ((p % RaBytes) - raHead) % RaBytes = p - raHead
        BY <3>1, <4>1, SlotDistance
      <4>3. fpos + (p - raHead) = p
        BY <1>2, <1>4, <3>1
      <4> QED
        BY <1>1, <3>2, <4>1, <4>2, <4>3
    <3>4. CASE p < raHead
      <4>1. raHead - RaBytes <= p /\ p - raHead + RaBytes >= got
        BY <1>2, <1>4, <1>5, <1>6, <1>7, <3>1, <3>4
      <4>2. ((p % RaBytes) - raHead) % RaBytes = p - raHead + RaBytes
        BY <3>1, <3>4, <4>1, SlotDistance
      <4>3. ~(p - raHead + RaBytes < got)
        BY <1>7, <3>1, <4>1
      <4>4. ra'[p % RaBytes] = ra[p % RaBytes]
        BY <1>1, <3>2, <4>2, <4>3
      <4> QED
        BY <1>4, <3>1, <3>4, <4>4
    <3> QED
      BY <3>1, <3>3, <3>4
  <2>2. raTail' = raTail /\ raHead' = raHead + got
    BY <1>1
  <2>3. raTail <= raHead + got /\ raHead + got - raTail <= RaBytes
    BY <1>2, <1>4, <1>5, <1>6, <1>7, ConstantTypes
  <2>4. \A p \in raTail' .. raHead' - 1 : ra'[p % RaBytes] = p
    BY <1>2, <1>7, <2>1, <2>2
  <2>5. raTail' <= raHead' /\ RaAvail' <= RaBytes
    BY <1>2, <1>7, <2>2, <2>3, ConstantTypes DEF RaAvail
  <2> QED
    BY <2>4, <2>5 DEF FifoHoldsFile
<1>10. ReadAligned'
  <2>1. remaining # 0
    BY <1>6 DEF Unknown
  <2>2. /\ raHead % FrameBytes = 0
        /\ raTail = (head + Len(batch)) * FrameBytes
    BY <1>3, <2>1 DEF IInv, ReadAligned, FifoClosed
  <2>3. FifoClosed' \/ raHead' % FrameBytes = 0
    <3> SUFFICES ASSUME ~FifoClosed' PROVE raHead' % FrameBytes = 0
      OBVIOUS
    <3>1. got = want
      <4>1. ~(got < want)
        BY <1>1 DEF FifoClosed
      <4> QED
        BY <1>6, <1>7, <4>1
    <3>2. want = room
      BY <1>1, <1>2, <1>5, <1>6, <3>1 DEF FifoClosed, want, Least
    <3>3. /\ FrameBytes \in Nat \ {0} /\ RaBytes \in Int /\ RaChunk \in Int
          /\ head + Len(batch) \in Int /\ raTail \in Int /\ raHead \in Int
          /\ room \in Int
      BY <1>2, <1>5, ConstantTypes
    <3>4. raTail % FrameBytes = 0
      BY <2>2, <3>3, Multiples
    <3>5. (raHead - raTail) % FrameBytes = 0
      BY <2>2, <3>3, <3>4, MultiplesAdd
    <3>6. (RaBytes - (raHead - raTail)) % FrameBytes = 0
      <4>1. raHead - raTail \in Int
        BY <3>3
      <4> QED
        BY <3>3, <3>5, <4>1, AlignmentAssumption, MultiplesAdd
    <3>7. room % FrameBytes = 0
      <4>1. room = RaBytes - (raHead - raTail) \/ room = RaChunk
        BY DEF Least, RaAvail
      <4> HIDE DEF room
      <4> QED
        BY <3>6, <4>1, AlignmentAssumption
    <3> HIDE DEF room
    <3>8. (raHead + room) % FrameBytes = 0
      BY <2>2, <3>3, <3>7, MultiplesAdd
    <3> QED
      BY <1>1, <3>1, <3>2, <3>8
  <2>4. /\ fpos' = raHead' /\ fpos' <= file'.bytes /\ raTail' = raTail
        /\ fifo' = fifo /\ head' + Len(batch') = head + Len(batch)
    BY <1>1, <1>2, <1>3, <1>4, <1>7
  <2> QED
    BY <2>2, <2>3, <2>4 DEF ReadAligned
<1> QED
  BY <1>8, <1>9, <1>10

LEMMA FillIInv == IInv /\ Fill => IInv'
<1> SUFFICES ASSUME IInv, Fill PROVE IInv'
  OBVIOUS
<1>1. SourceTypeOK' /\ FifoHoldsFile' /\ ReadAligned'
  <2>1. CASE ~(fifo /\ RaAvail < RaLow /\ ~raEof)
    BY <2>1, TypesKept, SourceKept DEF IInv, TypeOK, Fill, refillVars
  <2>2. CASE fifo /\ RaAvail < RaLow /\ ~raEof /\ FillRead
    BY <2>2, FillReadIInv
  <2>3. CASE fifo /\ RaAvail < RaLow /\ ~raEof /\ FillAtEnd
    <3>1. SourceTypeOK'
      BY <2>3 DEF IInv, TypeOK, SourceTypeOK, FillAtEnd
    <3>2. FifoHoldsFile'
      BY <2>3 DEF IInv, FifoHoldsFile, RaAvail, FillAtEnd, Fill
    <3>3. ReadAligned'
      BY <2>3 DEF IInv, ReadAligned, FifoClosed, FillAtEnd, Fill, refillVars
    <3> QED
      BY <3>1, <3>2, <3>3
  <2> QED
    BY <2>1, <2>2, <2>3 DEF Fill
<1>2. RefillTypeOK' /\ BatchInPush'
  BY DEF IInv, TypeOK, RefillTypeOK, BatchInPush, Fill, refillVars, taskVars
<1>3. cut' \in BOOLEAN
  BY DEF IInv, TypeOK, StopTypeOK, Fill, FillAtEnd, FillRead
<1>4. StopTypeOK'
  BY <1>3 DEF IInv, TypeOK, StopTypeOK, Fill, stopVars
<1> QED
  BY <1>1, <1>2, <1>4, TypesKept, RingKept, StageKept
     DEF IInv, TypeOK, Fill, refillVars, taskVars

\* A batch whose frames are given one by one is a sequence of frames.
LEMMA BatchType ==
  ASSUME NEW n \in Nat, NEW b, NEW at \in Nat,
         b = [i \in 1 .. n |-> b[i]],
         \A i \in 1 .. n : b[i] = FrameAt(at + i - 1)
  PROVE  /\ b \in Seq(Frame) /\ Len(b) = n
         /\ n = 0 => b = <<>>
<1>1. \A i \in 1 .. n : b[i] \in Frame
  <2> SUFFICES ASSUME NEW i \in 1 .. n PROVE FrameAt(at + i - 1) \in Frame
    OBVIOUS
  <2>1. \A k \in 0 .. FrameBytes - 1 : (at + i - 1) * FrameBytes + k \in Int
    BY ConstantTypes
  <2> QED
    BY <2>1 DEF FrameAt, Frame
<1>2. b \in [1 .. n -> Frame]
  BY <1>1
<1>3. b \in Seq(Frame) /\ Len(b) = n
  BY <1>2
<1> QED
  BY <1>3

LEMMA TakeFifoIInv == IInv /\ TakeFifo => IInv'
<1> SUFFICES ASSUME IInv, TakeFifo PROVE IInv'
  OBVIOUS
<1> DEFINE want   == Least(Least(RingFree, ReadFrames), budget)
           got    == Least(want * FrameBytes, RaAvail)
           frames == got \div FrameBytes
<1>1. /\ lv = "refill" /\ fifo /\ budget > 0 /\ RingFree >= MinFree
      /\ raTail' = raTail + got
      /\ batch' = [i \in 1 .. frames |->
                    [k \in 0 .. FrameBytes - 1 |->
                      ra[(raTail + (i - 1) * FrameBytes + k) % RaBytes]]]
      /\ written' = 0
      /\ last' = (frames < want)
      /\ eos' = (eos \/ (frames = 0 /\ raEof))
      /\ lv' = IF frames = 0 THEN "drain" ELSE "push"
      /\ UNCHANGED <<file, fpos, remaining, fifo, ra, raHead, raEof, budget,
                     ring, head, tail, drain, stopVars, taskVars, cut>>
  BY DEF TakeFifo
<1>2. /\ raHead \in Nat /\ raTail \in Nat /\ head \in Nat /\ tail \in Nat
      /\ budget \in Nat /\ batch = <<>> /\ written = 0
  BY <1>1 DEF IInv, TypeOK, SourceTypeOK, RingTypeOK, RefillTypeOK, BatchInPush
<1>3. /\ FrameBytes \in Nat \ {0} /\ RaBytes \in Nat \ {0}
      /\ RingFrames \in Nat \ {0} /\ ReadFrames \in Nat \ {0}
  BY ConstantTypes
<1>4. /\ raTail <= raHead /\ fpos = raHead /\ fpos <= file.bytes
      /\ \A p \in raTail .. raHead - 1 : ra[p % RaBytes] = p
      /\ FifoClosed \/ raHead % FrameBytes = 0
      /\ \/ raTail = head * FrameBytes
         \/ raTail = raHead /\ FifoClosed
      /\ RaAvail <= RaBytes
  <2>1. Len(batch) = 0 /\ head + Len(batch) = head
    BY <1>2
  <2>2. /\ raTail <= raHead /\ RaAvail <= RaBytes
        /\ \A p \in raTail .. raHead - 1 : ra[p % RaBytes] = p
    BY <1>1 DEF IInv, FifoHoldsFile
  <2>3. /\ fpos = raHead /\ fpos <= file.bytes
        /\ FifoClosed \/ raHead % FrameBytes = 0
        /\ \/ raTail = (head + Len(batch)) * FrameBytes
           \/ raTail = raHead /\ FifoClosed
    BY <1>1 DEF IInv, ReadAligned
  <2>4. (head + Len(batch)) * FrameBytes = head * FrameBytes
    BY <2>1
  <2>5. \/ raTail = head * FrameBytes
        \/ raTail = raHead /\ FifoClosed
    BY <2>3, <2>4
  <2> QED
    BY <2>2, <2>3, <2>5
<1>5. /\ want \in Nat \ {0} /\ head - tail + want <= RingFrames
  BY <1>1, <1>2, <1>3, ConstantTypes DEF Least, RingFree, RingUsed
<1>6. /\ got \in Nat /\ raTail + got <= raHead /\ got <= want * FrameBytes
      /\ got = want * FrameBytes \/ raTail + got = raHead
  <2>1. want * FrameBytes \in Nat
    <3> HIDE DEF want
    <3> QED
      BY <1>3, <1>5
  <2> HIDE DEF want
  <2> QED
    BY <1>2, <1>4, <2>1 DEF Least, RaAvail
<1> HIDE DEF want, got
<1>7. /\ frames \in Nat /\ frames <= want /\ frames * FrameBytes <= got
  <2>1. want \in Nat
    BY <1>5
  <2> QED
    BY <1>3, <1>6, <2>1, WholeFrames
<1>8. \/ frames = 0 /\ raTail + got = raHead /\ FifoClosed
      \/ /\ raTail = head * FrameBytes
         /\ \/ raTail + got = (head + frames) * FrameBytes
            \/ raTail + got = raHead /\ FifoClosed
  <2>1. CASE raTail = raHead /\ FifoClosed
    <3>1. got = 0
      BY <1>2, <1>6, <2>1
    <3>2. frames = 0
      <4>1. frames * FrameBytes <= 0
        BY <1>7, <3>1
      <4> HIDE DEF frames
      <4> QED
        BY <1>3, <1>7, <4>1
    <3> QED
      BY <1>2, <2>1, <3>1, <3>2
  <2>2. CASE raTail = head * FrameBytes /\ ~FifoClosed
    <3>1. got = frames * FrameBytes
      <4>1. CASE got = want * FrameBytes
        <5>1. want \in Int /\ frames = (want * FrameBytes) \div FrameBytes
          BY <1>5, <4>1
        <5>2. frames = want
          BY <1>3, <5>1, Multiples
        <5> QED
          BY <4>1, <5>2
      <4>2. CASE raTail + got = raHead
        <5>1. /\ got = raHead - raTail /\ raHead \in Int /\ raTail \in Int
              /\ head \in Int /\ got \in Int
          BY <1>2, <1>6, <4>2
        <5>2. raTail % FrameBytes = 0
          BY <1>3, <2>2, <5>1, Multiples
        <5>3. got % FrameBytes = 0
          BY <1>3, <1>4, <2>2, <5>1, <5>2, MultiplesAdd
        <5> QED
          BY <1>3, <5>1, <5>3, Multiples
      <4> QED
        BY <1>6, <4>1, <4>2
    <3> HIDE DEF frames
    <3>2. head * FrameBytes + frames * FrameBytes = (head + frames) * FrameBytes
      BY <1>2, <1>3, <1>7
    <3> QED
      BY <2>2, <3>1, <3>2
  <2>3. CASE raTail = head * FrameBytes /\ FifoClosed
    <3>1. CASE raTail + got = raHead
      BY <2>3, <3>1
    <3>2. CASE got = want * FrameBytes
      <4>1. want \in Int /\ frames = (want * FrameBytes) \div FrameBytes
        BY <1>5, <3>2
      <4>2. frames = want
        BY <1>3, <4>1, Multiples
      <4>3. head * FrameBytes + want * FrameBytes = (head + want) * FrameBytes
        BY <1>2, <1>3, <1>5
      <4> QED
        BY <2>3, <3>2, <4>2, <4>3
    <3> QED
      BY <1>6, <3>1, <3>2
  <2> QED
    BY <1>4, <2>1, <2>2, <2>3
<1> HIDE DEF frames
<1>9. \A i \in 1 .. frames : batch'[i] = FrameAt(head + i - 1)
  <2> SUFFICES ASSUME NEW i \in 1 .. frames
               PROVE  batch'[i] = FrameAt(head + i - 1)
    OBVIOUS
  <2>1. raTail = head * FrameBytes /\ i \in Nat \ {0} /\ i <= frames
    BY <1>7, <1>8
  <2>2. ASSUME NEW k \in 0 .. FrameBytes - 1
        PROVE  ra[(raTail + (i - 1) * FrameBytes + k) % RaBytes]
                 = (head + i - 1) * FrameBytes + k
    <3> DEFINE p == raTail + (i - 1) * FrameBytes + k
    <3>1. p = (head + i - 1) * FrameBytes + k
      BY <1>2, <2>1, FrameRun
    <3>2. p < (head + frames) * FrameBytes
      BY <1>2, <1>7, <2>1, FrameRun
    <3>3. (head + frames) * FrameBytes
            = head * FrameBytes + frames * FrameBytes
      BY <1>2, <1>3, <1>7
    <3>4. (i - 1) * FrameBytes + k \in Nat
      BY <1>3, <2>1
    <3>5. p \in Nat /\ raTail <= p
      <4> DEFINE d == (i - 1) * FrameBytes + k
      <4>1. p = raTail + d
        BY <1>2, <1>3, <2>1
      <4>2. d \in Nat
        BY <3>4
      <4> HIDE DEF p, d
      <4> QED
        BY <1>2, <4>1, <4>2
    <3> HIDE DEF p
    <3>6. frames * FrameBytes \in Nat /\ head * FrameBytes \in Nat
      BY <1>2, <1>3, <1>7
    <3>7. p < raHead
      BY <1>2, <1>6, <1>7, <2>1, <3>2, <3>3, <3>5, <3>6
    <3>8. ra[p % RaBytes] = p
      BY <1>2, <1>4, <3>5, <3>7
    <3> QED
      BY <3>1, <3>8 DEF p
  <2>3. batch'[i] = [k \in 0 .. FrameBytes - 1 |->
                      ra[(raTail + (i - 1) * FrameBytes + k) % RaBytes]]
    BY <1>1
  <2> QED
    BY <2>2, <2>3 DEF FrameAt
<1>10. /\ batch' \in Seq(Frame) /\ Len(batch') = frames
       /\ frames = 0 => batch' = <<>>
  <2>1. batch' = [i \in 1 .. frames |-> batch'[i]]
    BY <1>1
  <2> QED
    BY <1>2, <1>7, <1>9, <2>1, BatchType
<1>11. SourceTypeOK' /\ FifoHoldsFile'
  <2>1. raTail' \in Nat /\ raTail' <= raHead /\ raTail <= raTail'
    BY <1>1, <1>2, <1>6
  <2>2. SourceTypeOK'
    BY <1>1, <2>1 DEF IInv, TypeOK, SourceTypeOK
  <2>3. raHead' = raHead /\ ra' = ra
    BY <1>1
  <2>4. raTail' <= raHead' /\ RaAvail' <= RaBytes
    <3>1. raHead - raTail <= RaBytes
      BY <1>4 DEF RaAvail
    <3>2. raHead - raTail' <= RaBytes
      <4>1. ASSUME NEW a \in Int, NEW b \in Int, NEW c \in Int, NEW n \in Int,
                   a - b <= n, b <= c
            PROVE  a - c <= n
        BY <4>1
      <4>2. /\ raHead \in Int /\ raTail \in Int /\ raTail' \in Int
            /\ RaBytes \in Int
        BY <1>2, <1>3, <2>1
      <4> QED
        BY <2>1, <3>1, <4>1, <4>2
    <3>3. raTail' <= raHead'
      BY <2>1, <2>3
    <3> QED
      BY <2>3, <3>2, <3>3 DEF RaAvail
  <2>5. \A q \in raTail' .. raHead' - 1 : ra'[q % RaBytes] = q
    BY <1>2, <1>4, <2>1, <2>3
  <2> QED
    BY <2>2, <2>4, <2>5 DEF FifoHoldsFile
<1>12. RefillTypeOK' /\ RingTypeOK'
  <2>1. last' \in BOOLEAN /\ eos' \in BOOLEAN
    BY <1>1 DEF IInv, TypeOK, RingTypeOK
  <2>2. lv' \in {"drain", "push"}
    BY <1>1
  <2> QED
    BY <1>1, <1>10, <2>1, <2>2 DEF IInv, TypeOK, RefillTypeOK, RingTypeOK
<1>13. BatchInPush' /\ BatchHoldsStream'
  <2>1. written' <= Len(batch')
    BY <1>1, <1>7, <1>10
  <2>2. lv' # "push" => batch' = <<>> /\ written' = 0
    BY <1>1, <1>10
  <2>3. head' = head
    BY <1>1
  <2>4. BatchHoldsStream'
    BY <1>9, <1>10, <2>3 DEF BatchHoldsStream
  <2> QED
    BY <1>1, <2>1, <2>2, <2>4 DEF BatchInPush
<1>14. RingHoldsStream'
  <2>1. /\ ring' = ring /\ head' = head /\ tail' = tail /\ written' = written
    BY <1>1, <1>2
  <2>2. RingUsed' + Len(batch') <= RingFrames
    BY <1>2, <1>3, <1>5, <1>7, <1>10, <2>1 DEF RingUsed
  <2> QED
    BY <2>1, <2>2 DEF IInv, RingHoldsStream
<1>15. ReadAligned'
  <2>1. head' + Len(batch') = head + frames
    BY <1>1, <1>10
  <2>2. FifoClosed' = FifoClosed
    BY <1>1 DEF FifoClosed
  <2>3. \/ raTail' = (head' + Len(batch')) * FrameBytes
        \/ raTail' = raHead' /\ FifoClosed'
    BY <1>1, <1>8, <2>1, <2>2
  <2>4. fpos' = fpos /\ raHead' = raHead /\ file' = file /\ fifo' = fifo
    BY <1>1
  <2>5. FifoClosed' \/ raHead' % FrameBytes = 0
    BY <1>4, <2>2, <2>4
  <2>6. fifo' /\ fpos' = raHead' /\ fpos' <= file'.bytes
    BY <1>1, <1>4
  <2> QED
    BY <2>3, <2>5, <2>6 DEF ReadAligned
<1> QED
  BY <1>1, <1>11, <1>12, <1>13, <1>14, <1>15, TypesKept, StageKept
     DEF IInv, TypeOK, stopVars, taskVars

LEMMA TakeDirectIInv ==
  ASSUME ~TornReads, IInv, TakeDirect
  PROVE  IInv'
<1> DEFINE room == Least(RingFree, ReadFrames)
           want == FramesLeft(room)
           frames(got) == got \div FrameBytes
<1>1. PICK got \in DirectResults(want * FrameBytes) :
        /\ fpos' = fpos + got
        /\ remaining' = IF remaining = Unknown THEN Unknown
                        ELSE remaining - frames(got) * FrameBytes
        /\ batch' = [i \in 1 .. frames(got) |->
                      [k \in 0 .. FrameBytes - 1 |->
                        fpos + (i - 1) * FrameBytes + k]]
        /\ written' = 0
        /\ last' = (frames(got) < want)
        /\ eos' = (eos \/ frames(got) = 0)
        /\ lv' = IF frames(got) = 0 THEN "drain" ELSE "push"
        /\ cut' = (cut \/ ReadFails(want * FrameBytes, got))
  BY DEF TakeDirect
<1>2. /\ lv = "refill" /\ ~fifo /\ budget > 0 /\ RingFree >= MinFree
      /\ UNCHANGED <<file, fifo, ra, raHead, raTail, raEof, budget, ring,
                     head, tail, drain, stopVars, taskVars>>
  BY DEF TakeDirect
<1>3. /\ head \in Nat /\ tail \in Nat /\ batch = <<>> /\ written = 0
      /\ fpos \in Nat /\ file.bytes \in Nat
      /\ remaining \in Nat \/ remaining = Unknown
  BY <1>2 DEF IInv, TypeOK, SourceTypeOK, RingTypeOK, RefillTypeOK, BatchInPush
<1>4. /\ FrameBytes \in Nat \ {0} /\ RingFrames \in Nat \ {0}
      /\ ReadFrames \in Nat \ {0}
  BY ConstantTypes
<1>5. /\ fpos <= file.bytes
      /\ fpos = head * FrameBytes \/ fpos = file.bytes
  <2>1. Len(batch) = 0 /\ head + Len(batch) = head
    BY <1>3
  <2>2. /\ fpos <= file.bytes
        /\ fpos = (head + Len(batch)) * FrameBytes \/ fpos = file.bytes
    BY <1>2 DEF IInv, ReadAligned
  <2>3. (head + Len(batch)) * FrameBytes = head * FrameBytes
    BY <2>1
  <2> QED
    BY <2>2, <2>3
<1>6. room \in Nat /\ head - tail + room <= RingFrames
  BY <1>2, <1>3, <1>4, ConstantTypes DEF Least, RingFree, RingUsed
<1>7. /\ want \in Nat /\ want <= room
      /\ remaining \in Nat => want * FrameBytes <= remaining
  <2>1. CASE remaining = Unknown
    BY <1>6, <2>1 DEF Unknown, FramesLeft
  <2>2. CASE remaining \in Nat
    <3> DEFINE q == remaining \div FrameBytes
    <3>1. q \in Nat /\ q * FrameBytes <= remaining
      <4>1. remaining <= remaining * FrameBytes
        BY <1>4, <2>2
      <4> QED
        BY <1>4, <2>2, <4>1, WholeFrames
    <3>2. want = Least(room, q)
      BY <2>2 DEF Unknown, FramesLeft
    <3> HIDE DEF q, room, want
    <3>3. want \in Nat /\ want <= room /\ want <= q
      BY <1>6, <3>1, <3>2 DEF Least
    <3>4. want * FrameBytes <= q * FrameBytes
      BY <1>4, <3>1, <3>3
    <3>5. want * FrameBytes \in Nat /\ q * FrameBytes \in Nat
      BY <1>4, <3>1, <3>3
    <3> QED
      BY <2>2, <3>1, <3>3, <3>4, <3>5
  <2> QED
    BY <1>3, <2>1, <2>2
<1> HIDE DEF room, want
<1>8. want * FrameBytes \in Nat
  BY <1>4, <1>7
<1>9. /\ got \in Nat /\ got <= want * FrameBytes /\ fpos + got <= file.bytes
      /\ \/ got = want * FrameBytes
         \/ fpos + got = file.bytes
         \/ got % FrameBytes = 0
  <2> DEFINE full == want * FrameBytes
  <2>1. full \in Nat /\ got \in DirectResults(full)
    BY <1>8
  <2> HIDE DEF full
  <2>2. /\ got \in Nat /\ got <= full /\ fpos + got <= file.bytes
    BY <1>3, <1>5, <2>1 DEF DirectResults, ReadResults, Least
  <2>3. got = Least(full, file.bytes - fpos) \/ got % FrameBytes = 0
    BY <2>1 DEF DirectResults
  <2>4. got = full \/ fpos + got = file.bytes \/ got % FrameBytes = 0
    BY <1>3, <2>1, <2>2, <2>3 DEF Least
  <2> QED
    BY <2>2, <2>4 DEF full
<1> DEFINE n == frames(got)
<1>10. n \in Nat /\ n <= want /\ n * FrameBytes <= got
  BY <1>4, <1>7, <1>9, WholeFrames
<1>11. /\ n > 0 => fpos = head * FrameBytes
       /\ \/ fpos + got = (head + n) * FrameBytes
          \/ fpos + got = file.bytes
  <2>1. CASE fpos = file.bytes
    <3>1. got = 0
      BY <1>3, <1>9, <2>1
    <3>2. n * FrameBytes <= 0
      BY <1>10, <3>1
    <3> HIDE DEF n
    <3>3. n = 0
      BY <1>4, <1>10, <3>2
    <3> QED
      BY <1>3, <2>1, <3>1, <3>3
  <2>2. CASE fpos = head * FrameBytes
    <3>1. CASE got % FrameBytes = 0
      <4>1. got = n * FrameBytes
        BY <1>4, <1>9, <3>1, Multiples
      <4> HIDE DEF n
      <4>2. head * FrameBytes + n * FrameBytes = (head + n) * FrameBytes
        BY <1>3, <1>4, <1>10
      <4> QED
        BY <2>2, <4>1, <4>2
    <3>2. CASE fpos + got = file.bytes
      BY <2>2, <3>2
    <3>3. CASE got = want * FrameBytes
      <4>1. want \in Int
        BY <1>7
      <4>2. got % FrameBytes = 0
        BY <1>4, <3>3, <4>1, Multiples
      <4> QED
        BY <3>1, <4>2
    <3> QED
      BY <1>9, <3>1, <3>2, <3>3
  <2> QED
    BY <1>5, <2>1, <2>2
<1> HIDE DEF n, frames
<1>12. \A i \in 1 .. n : batch'[i] = FrameAt(head + i - 1)
  <2> SUFFICES ASSUME NEW i \in 1 .. n
               PROVE  batch'[i] = FrameAt(head + i - 1)
    OBVIOUS
  <2>1. fpos = head * FrameBytes /\ i \in Nat \ {0} /\ i <= n
    BY <1>10, <1>11
  <2>2. \A k \in 0 .. FrameBytes - 1 :
          fpos + (i - 1) * FrameBytes + k = (head + i - 1) * FrameBytes + k
    BY <1>3, <2>1, FrameRun
  <2>3. batch'[i] = [k \in 0 .. FrameBytes - 1 |->
                      fpos + (i - 1) * FrameBytes + k]
    BY <1>1 DEF n
  <2> QED
    BY <2>2, <2>3 DEF FrameAt
<1>13. /\ batch' \in Seq(Frame) /\ Len(batch') = n
       /\ n = 0 => batch' = <<>>
  <2>1. batch' = [i \in 1 .. n |-> batch'[i]]
    BY <1>1 DEF n
  <2> QED
    BY <1>3, <1>10, <1>12, <2>1, BatchType
<1>14. SourceTypeOK' /\ FifoHoldsFile'
  <2>1. fpos' \in Nat
    BY <1>1, <1>3, <1>9
  <2>2. remaining' \in Nat \cup {Unknown}
    <3>1. CASE remaining = Unknown
      BY <1>1, <3>1
    <3>2. CASE remaining \in Nat
      <4>1. n * FrameBytes \in Nat /\ n * FrameBytes <= remaining
        BY <1>4, <1>7, <1>8, <1>9, <1>10, <3>2
      <4>2. remaining' = remaining - n * FrameBytes
        BY <1>1, <3>2 DEF Unknown, n
      <4> QED
        BY <3>2, <4>1, <4>2
    <3> QED
      BY <1>3, <3>1, <3>2
  <2> QED
    BY <1>2, <2>1, <2>2 DEF IInv, TypeOK, SourceTypeOK, FifoHoldsFile
<1>15. RefillTypeOK' /\ RingTypeOK' /\ StopTypeOK'
  <2>1. last' \in BOOLEAN
    BY <1>1
  <2>2. eos' \in BOOLEAN
    BY <1>1 DEF IInv, TypeOK, RingTypeOK
  <2>3. cut' \in BOOLEAN
    BY <1>1 DEF IInv, TypeOK, StopTypeOK
  <2>4. lv' \in {"drain", "push"} /\ written' = 0
    BY <1>1
  <2>5. RefillTypeOK'
    BY <1>2, <1>13, <2>1, <2>4 DEF IInv, TypeOK, RefillTypeOK
  <2>6. RingTypeOK'
    BY <1>2, <2>2 DEF IInv, TypeOK, RingTypeOK
  <2>7. stopReq' = stopReq /\ stopping' = stopping /\ ready' = ready
    BY <1>2 DEF stopVars
  <2>8. StopTypeOK'
    BY <2>3, <2>7 DEF IInv, TypeOK, StopTypeOK
  <2> QED
    BY <2>5, <2>6, <2>8
<1>16. BatchInPush' /\ BatchHoldsStream'
  <2>1. written' = 0 /\ written' <= Len(batch')
    <3>1. written' = 0
      BY <1>1
    <3>2. Len(batch') \in Nat
      BY <1>10, <1>13
    <3> QED
      BY <3>1, <3>2
  <2>2. lv' # "push" => batch' = <<>>
    BY <1>1, <1>13 DEF n
  <2>3. head' = head /\ lv' # "off"
    BY <1>1, <1>2
  <2>4. BatchHoldsStream'
    BY <1>12, <1>13, <2>3 DEF BatchHoldsStream
  <2> QED
    BY <2>1, <2>2, <2>3, <2>4 DEF BatchInPush
<1>17. RingHoldsStream'
  <2>1. ring' = ring /\ head' = head /\ tail' = tail /\ written' = written
    BY <1>1, <1>2, <1>3
  <2>2. RingUsed' + Len(batch') <= RingFrames
    BY <1>3, <1>4, <1>6, <1>7, <1>10, <1>13, <2>1 DEF RingUsed
  <2> QED
    BY <2>1, <2>2 DEF IInv, RingHoldsStream
<1>18. ReadAligned'
  <2>1. (head' + Len(batch')) * FrameBytes = (head + n) * FrameBytes
    BY <1>2, <1>13
  <2>2. file' = file /\ ~fifo' /\ fpos' = fpos + got
    BY <1>1, <1>2
  <2>3. fpos' = (head' + Len(batch')) * FrameBytes \/ fpos' = file'.bytes
    BY <1>11, <2>1, <2>2
  <2>4. fpos' <= file'.bytes
    BY <1>9, <2>2
  <2> QED
    BY <2>2, <2>3, <2>4 DEF ReadAligned
<1> QED
  BY <1>2, <1>14, <1>15, <1>16, <1>17, <1>18, TypesKept, StageKept
     DEF IInv, TypeOK, taskVars

-----------------------------------------------------------------------------
(* The safety properties *)

LEMMA NextIInv ==
  ASSUME ~TornReads, IInv, [Next]_vars
  PROVE  IInv'
<1>1. CASE \E f \in Files : Start(f)
  BY <1>1, StartIInv
<1>2. CASE Producer
  BY <1>2, FillIInv, RefillDoneIInv, TakeFifoIInv, TakeDirectIInv,
     PushFrameIInv, PublishIInv, StartTaskIInv, PollIInv, DrainIInv,
     TeardownIInv
     DEF Producer
<1>3. CASE Consumer
  BY <1>3, CheckIInv, WaitIInv, GatherIInv, ReleaseIInv, WriteDoneIInv,
     WriteFailsIInv
     DEF Consumer
<1>4. CASE UserStop
  BY <1>4, UserStopIInv
<1>5. CASE UNCHANGED vars
  BY <1>5, StutterIInv
<1> QED
  BY <1>1, <1>2, <1>3, <1>4, <1>5 DEF Next

\* The strengthening of the safety properties is invariant, unless a failing
\* direct read (no read-ahead FIFO) may stop inside a frame.
THEOREM Invariance ==
  ASSUME ~TornReads
  PROVE  Spec => []IInv
<1>1. Init => IInv
  BY InitIInv
<1>2. IInv /\ [Next]_vars => IInv'
  BY NextIInv
<1> QED
  BY <1>1, <1>2, PTL DEF Spec

\* Every variable of the player's sample path keeps its type.
THEOREM TypeCorrect ==
  ASSUME ~TornReads
  PROVE  Spec => []TypeOK
<1>1. IInv => TypeOK
  BY DEF IInv
<1> QED
  BY <1>1, Invariance, PTL

\* ring_push_convert() and audio_task never touch the same slot, and every
\* published slot holds its frame of the file, for every ring and buffer size.
THEOREM RingIsSafe ==
  ASSUME ~TornReads
  PROVE  Spec => []RingHoldsStream
<1>1. IInv => RingHoldsStream
  BY DEF IInv
<1> QED
  BY <1>1, Invariance, PTL

\* ra_fill() and ra_take() keep the bytes of the file in place, across the wrap
\* of the FIFO and after short reads.
THEOREM FifoIsSafe ==
  ASSUME ~TornReads
  PROVE  Spec => []FifoHoldsFile
<1>1. IInv => FifoHoldsFile
  BY DEF IInv
<1> QED
  BY <1>1, Invariance, PTL

\* The I2S driver is handed the frames of the track in order, none lost,
\* repeated or torn, whatever the interleaving of the two tasks.
THEOREM Delivery ==
  ASSUME ~TornReads
  PROVE  Spec => []DeliveredInOrder
<1>1. IInv => DeliveredInOrder
  BY DEF IInv
<1> QED
  BY <1>1, Invariance, PTL

-----------------------------------------------------------------------------
(* A track that ends by itself is delivered whole *)

\* A stop is requested by the user, by a failure, or once the ring has drained,
\* and nothing enters or leaves the ring afterwards.
LEMMA StopStep ==
  ASSUME IInv, StopInv, [Next]_vars
  PROVE  StopInv'
<1> USE DEF StopInv, sourceVars, refillVars, stopVars, taskVars
<1>1. CASE \E f \in Files : Start(f)
  BY <1>1 DEF Start
<1>2. CASE Fill
  <2>1. cut => cut'
    BY <1>2 DEF Fill, FillAtEnd, FillRead
  <2>2. /\ lv = "fill" /\ lv' = "refill"
        /\ UNCHANGED <<stopping, stopReq, eos, head, tail>>
    BY <1>2 DEF Fill
  <2> QED BY <2>1, <2>2
<1>3. CASE TakeFifo \/ TakeDirect
  <2>1. /\ cut => cut'
        /\ lv = "refill" /\ lv' # "off"
        /\ UNCHANGED <<stopping, stopReq>>
    BY <1>3 DEF TakeFifo, TakeDirect
  <2> QED BY <2>1
<1>4. CASE RefillDone \/ PushFrame \/ Publish \/ StartTask
  BY <1>4 DEF RefillDone, PushFrame, Publish, StartTask
<1>5. CASE Poll \/ DrainCheck
  BY <1>5 DEF Poll, DrainCheck
<1>6. CASE DrainElapsed
  BY <1>6 DEF IInv, TypeOK, RingTypeOK, DrainElapsed, RequestStop, RingUsed
<1>7. CASE UserStop
  BY <1>7 DEF UserStop, RequestStop
<1>8. CASE Teardown
  BY <1>8 DEF Teardown
<1>9. CASE Check \/ Wait \/ Gather \/ WriteDone \/ WriteFails
  BY <1>9 DEF Check, Wait, Gather, WriteDone, WriteFails
<1>10. CASE Release
  <2>1. used <= head - tail /\ used \in Nat /\ head \in Nat /\ tail \in Nat
    BY <1>10 DEF IInv, TypeOK, RingTypeOK, TaskTypeOK, StageHoldsStream, RingUsed, Release
  <2>2. head = tail => tail' = tail
    BY <1>10, <2>1 DEF Release
  <2> QED BY <1>10, <2>2 DEF Release
<1>11. CASE UNCHANGED vars
  BY <1>11 DEF vars
<1> QED
  BY <1>1, <1>2, <1>3, <1>4, <1>5, <1>6, <1>7, <1>8, <1>9, <1>10, <1>11
     DEF Next, Producer, Consumer

\* The staging buffer of the audio task is empty between two rounds.
LEMMA TaskStep ==
  ASSUME IInv, StopInv, TaskInv, [Next]_vars
  PROVE  TaskInv'
<1> USE DEF TaskInv, sourceVars, refillVars, stopVars, taskVars
<1>0. /\ Len(stage) \in Nat /\ Len(out) \in Nat /\ tail \in Nat
      /\ stage = <<>> => Len(stage) = 0
      /\ StageFrames \in Nat \ {0} /\ RingUsed \in Nat
      /\ lv = "off" => task = "none"
  BY ConstantTypes DEF IInv, TypeOK, TaskTypeOK, RingTypeOK, RingHoldsStream, RingUsed, BatchInPush
<1>1. CASE \E f \in Files : Start(f)
  BY <1>1 DEF Start
<1>2. CASE Fill
  BY <1>2 DEF Fill, FillAtEnd, FillRead, StopInv
<1>3. CASE TakeFifo \/ TakeDirect
  BY <1>3 DEF TakeFifo, TakeDirect, StopInv
<1>4. CASE RefillDone \/ PushFrame \/ Publish \/ StartTask
  BY <1>4 DEF RefillDone, PushFrame, Publish, StartTask
<1>5. CASE Poll \/ DrainCheck
  BY <1>5 DEF Poll, DrainCheck
<1>6. CASE DrainElapsed \/ UserStop
  BY <1>6 DEF DrainElapsed, UserStop, RequestStop
<1>8. CASE Teardown
  BY <1>8 DEF Teardown
<1>9. CASE Check
  BY <1>0, <1>9 DEF Check, Least, IInv, StageHoldsStream
<1>10. CASE Wait \/ Gather \/ WriteDone
  BY <1>10 DEF Wait, Gather, WriteDone
<1>11. CASE Release \/ WriteFails
  BY <1>11 DEF Release, WriteFails, IInv, StageHoldsStream
<1>12. CASE UNCHANGED vars
  BY <1>12 DEF vars
<1> QED
  BY <1>1, <1>2, <1>3, <1>4, <1>5, <1>6, <1>8, <1>9, <1>10, <1>11, <1>12
     DEF Next, Producer, Consumer

\* A step that reads nothing keeps what is known of the source.
LEMMA SourceSame ==
  ASSUME SourceInv, UNCHANGED <<sourceVars, eos>>, cut => cut',
         (head + Len(batch))' = head + Len(batch),
         lv' = "push" /\ last' => lv = "push" /\ last, lv = "off" => lv' = "off"
  PROVE  SourceInv'
BY DEF SourceInv, AtEnd, DirectDone, sourceVars

\* The counters and positions before a refill reads.
LEMMA SourceTypes ==
  ASSUME IInv
  PROVE  /\ fpos \in Nat /\ raHead \in Nat /\ raTail \in Nat /\ head \in Nat
         /\ tail \in Nat /\ budget \in Nat /\ Len(batch) \in Nat
         /\ file.bytes \in Nat /\ file.declared \in Nat
         /\ remaining \in Nat \/ remaining = Unknown
         /\ Unknown \notin Nat
         /\ lv # "push" => batch = <<>> /\ Len(batch) = 0
BY DEF IInv, TypeOK, SourceTypeOK, RingTypeOK, RefillTypeOK, BatchInPush, Unknown

\* ra_fill(): bytes that enter the FIFO leave the file and the declared size,
\* and the end is reported at the end only.
LEMMA FillSource ==
  ASSUME IInv, SourceInv, Fill
  PROVE  SourceInv'
<1>1. /\ lv = "fill" /\ lv' = "refill" /\ UNCHANGED <<batch, head, eos, last>>
  BY DEF Fill, refillVars
<1>2. CASE ~(fifo /\ RaAvail < RaLow /\ ~raEof)
  <2>1. UNCHANGED <<sourceVars, cut>>
    BY <1>2 DEF Fill
  <2> QED BY <1>1, <2>1, SourceSame
<1>3. CASE fifo /\ RaAvail < RaLow /\ ~raEof
  <2>1. /\ raTail \div FrameBytes = head + Len(batch)
        /\ remaining = IF file.declared = 0 THEN Unknown ELSE file.declared - fpos
        /\ file.declared # 0 => remaining \in Nat
        /\ ~eos /\ fpos <= file.bytes
    BY <1>1, <1>3 DEF SourceInv, IInv, ReadAligned
  <2>2. CASE FillAtEnd
    <3>1. fpos = Limit(file)
      BY <2>1, <2>2, SourceTypes DEF FillAtEnd, Limit, Least
    <3> QED
      BY <1>1, <1>3, <2>1, <2>2, <3>1 DEF FillAtEnd, SourceInv, AtEnd
  <2>3. CASE FillRead
    <3> DEFINE room == Least(RaBytes - RaAvail, RaChunk)
               want == IF remaining = Unknown THEN room ELSE Least(room, remaining)
    <3>1. PICK got \in ReadResults(want) :
            /\ raHead' = raHead + got
            /\ fpos' = fpos + got
            /\ remaining' = IF remaining = Unknown THEN Unknown
                                                   ELSE remaining - got
            /\ raEof' = (got < want)
            /\ cut' = (cut \/ ReadFails(want, got))
            /\ UNCHANGED <<file, fifo, raTail>>
      BY <2>3 DEF FillRead
    <3>2. room \in Int /\ want > 0
      BY <2>3, SourceTypes, ConstantTypes DEF Least, RaAvail, FillRead
    <3>3. want \in Nat /\ (remaining # Unknown => want <= remaining)
      BY <3>2, SourceTypes DEF Least
    <3> HIDE DEF want
    <3>4. got \in Nat /\ got <= want /\ fpos + got <= file.bytes
      BY <2>1, <3>3, SourceTypes DEF ReadResults, Least
    <3>5. /\ remaining' = IF file'.declared = 0 THEN Unknown
                                                ELSE file'.declared - fpos'
          /\ file'.declared # 0 => remaining' \in Nat
      <4>1. CASE file.declared = 0
        BY <2>1, <3>1, <4>1
      <4>2. CASE file.declared # 0
        <5>1. remaining \in Nat /\ remaining # Unknown
          BY <2>1, <4>2, SourceTypes
        <5>2. remaining' = remaining - got /\ got <= remaining
          BY <3>1, <3>3, <3>4, <5>1, SourceTypes
        <5>3. remaining = file.declared - fpos /\ fpos' = fpos + got /\ file' = file
          BY <2>1, <3>1, <4>2
        <5>4. remaining - got \in Nat
          BY <3>4, <5>1, <5>2
        <5>5. remaining - got = file.declared - (fpos + got)
          BY <3>4, <5>3, SourceTypes
        <5> QED
          BY <4>2, <5>2, <5>3, <5>4, <5>5
      <4> QED
        BY <4>1, <4>2
    <3>6. ASSUME raEof', ~cut' PROVE fpos' = Limit(file')
      <4>1. got < want /\ ~ReadFails(want, got)
        BY <3>1, <3>6
      <4>2. fpos + got = file.bytes
        BY <3>3, <3>4, <4>1, SourceTypes DEF ReadFails, Least
      <4>3. file.declared # 0 => fpos + got < file.declared
        <5> SUFFICES ASSUME file.declared # 0
                     PROVE  fpos + got < file.declared
          OBVIOUS
        <5>1. remaining \in Nat /\ want <= remaining
          BY <2>1, <3>3, SourceTypes
        <5>2. remaining = file.declared - fpos
          BY <2>1
        <5> QED
          BY <3>3, <3>4, <4>1, <5>1, <5>2, SourceTypes
      <4> QED
        BY <3>1, <4>2, <4>3, SourceTypes DEF Limit, Least
    <3> QED
      BY <1>1, <1>3, <2>1, <3>1, <3>5, <3>6 DEF SourceInv, AtEnd
  <2> QED
    BY <1>3, <2>2, <2>3 DEF Fill
<1> QED
  BY <1>2, <1>3

\* A new track has its whole declared size ahead.
LEMMA StartSource ==
  ASSUME NEW f \in Files, IInv, SourceInv, Start(f)
  PROVE  SourceInv'
<1>1. /\ lv = "off" /\ lv' = "fill" /\ file' = f /\ fpos' = 0 /\ raTail' = 0
      /\ remaining' = IF f.declared = 0 THEN Unknown ELSE f.declared
      /\ raEof' = FALSE /\ head' = 0 /\ eos' = FALSE /\ raHead' = 0
      /\ batch' = batch
  BY DEF Start
<1>2. /\ batch' = <<>> /\ head' + Len(batch') = 0
      /\ f.declared \in Nat
  BY <1>1, FilesAssumption, SourceTypes
<1>3. 0 \div FrameBytes = 0 /\ 0 * FrameBytes = 0
  BY ConstantTypes, DivOrder
<1>4. file'.declared # 0 => remaining' \in Nat
  BY <1>1, <1>2
<1>5. remaining' = IF file'.declared = 0 THEN Unknown ELSE file'.declared - 0
  BY <1>1, <1>2
<1>6. remaining' = IF file'.declared = 0 THEN Unknown
                   ELSE file'.declared - (head' + Len(batch')) * FrameBytes
  BY <1>2, <1>3, <1>5
<1> QED
  BY <1>1, <1>2, <1>3, <1>4, <1>5, <1>6 DEF SourceInv, AtEnd

\* ra_take(): a batch is short only when it empties the FIFO.
LEMMA TakeFifoSource ==
  ASSUME IInv, SourceInv, TakeFifo
  PROVE  SourceInv'
<1> DEFINE want   == Least(Least(RingFree, ReadFrames), budget)
           got    == Least(want * FrameBytes, RaAvail)
           frames == got \div FrameBytes
<1>1. /\ lv = "refill" /\ fifo /\ budget > 0 /\ RingFree >= MinFree
      /\ raTail' = raTail + got
      /\ batch' = [i \in 1 .. frames |->
                    [k \in 0 .. FrameBytes - 1 |->
                      ra[(raTail + (i - 1) * FrameBytes + k) % RaBytes]]]
      /\ last' = (frames < want)
      /\ eos' = (eos \/ (frames = 0 /\ raEof))
      /\ lv' = IF frames = 0 THEN "drain" ELSE "push"
      /\ UNCHANGED <<file, fpos, remaining, fifo, raHead, raEof, head, cut>>
  BY DEF TakeFifo
<1>2. /\ raTail \div FrameBytes = head
      /\ raTail <= raHead
      /\ \/ raTail = head * FrameBytes
         \/ raTail = raHead
      /\ eos => raTail = raHead
      /\ eos => raEof
  <2>1. Len(batch) = 0 /\ head + Len(batch) = head
    BY <1>1, SourceTypes
  <2>2. raTail <= raHead
    BY <1>1 DEF IInv, FifoHoldsFile
  <2>3. raTail = (head + Len(batch)) * FrameBytes \/ raTail = raHead
    BY <1>1 DEF IInv, ReadAligned
  <2>4. raTail \div FrameBytes = head + Len(batch)
    BY <1>1 DEF SourceInv
  <2>5. eos => raTail = raHead /\ raEof
    BY <1>1 DEF SourceInv, AtEnd
  <2> QED
    BY <2>1, <2>2, <2>3, <2>4, <2>5
<1>3. want \in Nat \ {0}
  BY <1>1, SourceTypes, ConstantTypes DEF Least, RingFree, RingUsed
<1>4. /\ got \in Nat /\ raTail + got <= raHead /\ got <= want * FrameBytes
      /\ got = want * FrameBytes \/ raTail + got = raHead
  <2>1. want * FrameBytes \in Nat
    <3> HIDE DEF want
    <3> QED
      BY <1>3, ConstantTypes
  <2> HIDE DEF want
  <2> QED
    BY <1>2, <2>1, SourceTypes DEF Least, RaAvail
<1> HIDE DEF want, got
<1>5. frames \in Nat
  BY <1>3, <1>4, ConstantTypes, WholeFrames
<1>6. (raTail + got) \div FrameBytes = head + frames
  <2>1. CASE raTail = head * FrameBytes
    <3>1. (head * FrameBytes + got) \div FrameBytes = head + (got \div FrameBytes)
      <4>1. head \in Int /\ got \in Int /\ FrameBytes \in Nat \ {0}
        BY <1>4, ConstantTypes, SourceTypes
      <4> QED
        BY <4>1, DivShift
    <3> QED
      BY <2>1, <3>1
  <2>2. CASE raTail = raHead
    <3>1. got = 0
      BY <1>4, <2>2, SourceTypes
    <3>2. frames = 0
      BY <3>1, ConstantTypes, DivOrder
    <3> QED
      BY <1>2, <3>1, <3>2, SourceTypes
  <2> QED
    BY <1>2, <2>1, <2>2
<1>7. frames < want => raTail + got = raHead
  <2> SUFFICES ASSUME got = want * FrameBytes PROVE frames = want
    BY <1>3, <1>4, <1>5
  <2> QED
    BY <1>3, ConstantTypes, Multiples
<1> HIDE DEF frames
<1>8. Len(batch') = frames
  BY <1>1, <1>5
<1>9. /\ raTail' \div FrameBytes = head' + Len(batch')
      /\ eos' => raEof'
  BY <1>1, <1>2, <1>6, <1>8
<1>10. eos' \/ (lv' = "push" /\ last') => raTail' = raHead'
  <2>1. CASE eos
    BY <1>1, <1>2, <1>4, <2>1, SourceTypes
  <2>2. CASE frames < want
    BY <1>1, <1>7, <2>2
  <2>3. CASE frames = 0
    BY <1>3, <2>2, <2>3
  <2> QED
    BY <1>1, <2>1, <2>2, <2>3
<1>11. lv' # "off"
  BY <1>1
<1> QED
  BY <1>1, <1>9, <1>10, <1>11 DEF SourceInv, AtEnd

\* A direct read is short only at the end of the file or, unless it failed,
\* when less than a frame is declared.
LEMMA TakeDirectSource ==
  ASSUME ~TornReads, IInv, SourceInv, TakeDirect
  PROVE  SourceInv'
<1> DEFINE room == Least(RingFree, ReadFrames)
           want == FramesLeft(room)
           left == file.bytes - fpos
           frames(got) == got \div FrameBytes
<1>1. PICK got \in DirectResults(want * FrameBytes) :
        /\ fpos' = fpos + got
        /\ remaining' = IF remaining = Unknown THEN Unknown
                        ELSE remaining - frames(got) * FrameBytes
        /\ batch' = [i \in 1 .. frames(got) |->
                      [k \in 0 .. FrameBytes - 1 |->
                        fpos + (i - 1) * FrameBytes + k]]
        /\ last' = (frames(got) < want)
        /\ eos' = (eos \/ frames(got) = 0)
        /\ lv' = IF frames(got) = 0 THEN "drain" ELSE "push"
        /\ cut' = (cut \/ ReadFails(want * FrameBytes, got))
  BY DEF TakeDirect
<1>2. /\ lv = "refill" /\ ~fifo /\ budget > 0 /\ RingFree >= MinFree
      /\ UNCHANGED <<file, fifo, head>>
  BY DEF TakeDirect
<1>3. /\ fpos \div FrameBytes = head
      /\ remaining = IF file.declared = 0 THEN Unknown
                     ELSE file.declared - head * FrameBytes
      /\ file.declared # 0 => remaining \in Nat
      /\ eos /\ ~cut => DirectDone
      /\ fpos <= file.bytes
      /\ fpos = head * FrameBytes \/ fpos = file.bytes
  <2>1. Len(batch) = 0 /\ head + Len(batch) = head
    BY <1>2, SourceTypes
  <2>2. /\ fpos <= file.bytes
        /\ fpos = (head + Len(batch)) * FrameBytes \/ fpos = file.bytes
    BY <1>2 DEF IInv, ReadAligned
  <2>3. /\ fpos \div FrameBytes = head + Len(batch)
        /\ remaining = IF file.declared = 0 THEN Unknown
                       ELSE file.declared - (head + Len(batch)) * FrameBytes
        /\ file.declared # 0 => remaining \in Nat
        /\ eos /\ ~cut => DirectDone
    BY <1>2 DEF SourceInv, AtEnd
  <2> QED
    BY <2>1, <2>2, <2>3
<1>4. room \in Nat \ {0}
  BY <1>2, SourceTypes, ConstantTypes DEF Least, RingFree, RingUsed
<1>5. /\ want \in Nat
      /\ remaining \in Nat => want * FrameBytes <= remaining
      /\ want = 0 => remaining \in Nat /\ remaining < FrameBytes
  <2>1. CASE remaining = Unknown
    BY <1>4, <2>1, SourceTypes DEF FramesLeft
  <2>2. CASE remaining \in Nat
    <3> DEFINE q == remaining \div FrameBytes
    <3>1. q \in Nat /\ q * FrameBytes <= remaining
      <4>1. remaining <= remaining * FrameBytes
        BY <2>2, ConstantTypes
      <4> QED
        BY <2>2, <4>1, ConstantTypes, WholeFrames
    <3>2. want = Least(room, q)
      BY <2>2, SourceTypes DEF FramesLeft
    <3>3. q = 0 => remaining < FrameBytes
      BY <2>2, ConstantTypes, DivOrder
    <3> HIDE DEF q, room, want
    <3>4. want \in Nat /\ want <= q /\ (want = 0 => q = 0)
      BY <1>4, <3>1, <3>2 DEF Least
    <3>5. want * FrameBytes <= q * FrameBytes
      BY <3>1, <3>4, ConstantTypes
    <3>6. want * FrameBytes \in Nat /\ q * FrameBytes \in Nat
      BY <3>1, <3>4, ConstantTypes
    <3>7. want * FrameBytes <= remaining
      BY <2>2, <3>1, <3>5, <3>6
    <3> QED
      BY <2>2, <3>3, <3>4, <3>7
  <2> QED
    BY SourceTypes, <2>1, <2>2
<1> HIDE DEF room, want
<1> DEFINE full == want * FrameBytes
<1>6. full \in Nat
  BY <1>5, ConstantTypes
<1>7. got \in DirectResults(full)
  OBVIOUS
<1> HIDE DEF full
<1>8. /\ got \in Nat /\ got <= full /\ fpos + got <= file.bytes
      /\ got = full \/ fpos + got = file.bytes \/ ReadFails(full, got)
  <2>1. /\ got \in Nat /\ got <= full /\ fpos + got <= file.bytes
    BY <1>3, <1>6, <1>7, SourceTypes DEF DirectResults, ReadResults, Least
  <2>2. got = full \/ fpos + got = file.bytes \/ ReadFails(full, got)
    BY <1>3, <1>6, <2>1, SourceTypes DEF ReadFails, Least
  <2> QED
    BY <2>1, <2>2
<1> DEFINE n == frames(got)
<1>9. n \in Nat /\ n * FrameBytes <= got
  BY <1>5, <1>8, ConstantTypes, WholeFrames DEF full
<1>10. got = full => n = want
  BY <1>5, ConstantTypes, Multiples DEF full
<1>11. (fpos + got) \div FrameBytes = head + n
  <2>1. CASE fpos = head * FrameBytes
    <3>1. (head * FrameBytes + got) \div FrameBytes = head + (got \div FrameBytes)
      <4>1. head \in Int /\ got \in Int /\ FrameBytes \in Nat \ {0}
        BY <1>8, ConstantTypes, SourceTypes
      <4> QED
        BY <4>1, DivShift
    <3> QED
      BY <2>1, <3>1
  <2>2. CASE fpos = file.bytes
    <3>1. got = 0
      BY <1>8, <2>2, SourceTypes
    <3>2. n = 0
      BY <3>1, ConstantTypes, DivOrder
    <3> QED
      BY <1>3, <3>1, <3>2, SourceTypes
  <2> QED
    BY <1>3, <2>1, <2>2
<1>12. /\ fpos' = fpos + got
       /\ remaining' = IF remaining = Unknown THEN Unknown
                       ELSE remaining - n * FrameBytes
       /\ last' = (n < want)
       /\ eos' = (eos \/ n = 0)
       /\ lv' = IF n = 0 THEN "drain" ELSE "push"
       /\ cut' = (cut \/ ReadFails(full, got))
       /\ Len(batch') = n
  BY <1>1, <1>9 DEF full
<1> HIDE DEF n, frames
<1>13. /\ remaining' = IF file'.declared = 0 THEN Unknown
                       ELSE file'.declared - (head' + Len(batch')) * FrameBytes
       /\ file'.declared # 0 => remaining' \in Nat
  <2>1. CASE file.declared = 0
    BY <1>2, <1>3, <1>12, <2>1
  <2>2. CASE file.declared # 0
    <3>1. remaining \in Nat /\ remaining # Unknown
      BY <1>3, <2>2, SourceTypes
    <3>2. remaining' = remaining - n * FrameBytes
      BY <1>12, <3>1
    <3>3. n * FrameBytes \in Nat /\ head * FrameBytes \in Nat
      BY <1>9, ConstantTypes, SourceTypes
    <3>4. n * FrameBytes <= remaining
      BY <1>5, <1>6, <1>8, <1>9, <3>1, <3>3 DEF full
    <3>5. remaining' \in Nat
      BY <3>1, <3>2, <3>3, <3>4
    <3>6. (head + n) * FrameBytes = head * FrameBytes + n * FrameBytes
      BY <1>9, ConstantTypes, SourceTypes
    <3>7. remaining' = file.declared - (head * FrameBytes + n * FrameBytes)
      BY <1>3, <2>2, <3>2, <3>3, SourceTypes
    <3> QED
      BY <1>2, <1>12, <2>2, <3>5, <3>6, <3>7
  <2> QED
    BY <2>1, <2>2
<1>14. ASSUME AtEnd', ~cut'
       PROVE  DirectDone'
  <2>1. ~cut /\ ~ReadFails(full, got)
    BY <1>12, <1>14
  <2>2. CASE fpos + got = file.bytes
    BY <1>2, <1>12, <2>2 DEF DirectDone
  <2>3. CASE got = full /\ fpos + got # file.bytes
    <3>1. n = want
      BY <1>10, <2>3
    <3>2. eos \/ n = 0
      <4>1. ~(n < want)
        BY <1>5, <3>1
      <4>2. ~last'
        BY <1>12, <4>1
      <4> QED
        BY <1>12, <1>14, <4>2 DEF AtEnd
    <3>3. fpos # file.bytes
      BY <1>8, <2>3, SourceTypes
    <3>4. remaining \in Nat /\ remaining < FrameBytes
      <4>1. CASE eos
        BY <1>3, <2>1, <3>3, <4>1, SourceTypes DEF DirectDone
      <4>2. CASE n = 0
        BY <1>5, <3>1, <4>2
      <4> QED
        BY <3>2, <4>1, <4>2
    <3>5. /\ remaining' = remaining - n * FrameBytes
          /\ n * FrameBytes \in Nat
      BY <1>9, <1>12, <3>4, ConstantTypes, SourceTypes
    <3>6. file.declared # 0
      BY <1>3, <3>4, SourceTypes
    <3>7. remaining' \in Nat
      BY <1>2, <1>13, <3>6
    <3>8. remaining' < FrameBytes
      BY <3>4, <3>5, <3>7, ConstantTypes
    <3> QED
      BY <3>7, <3>8 DEF DirectDone, Unknown
  <2> QED
    BY <1>8, <2>1, <2>2, <2>3
<1>15. /\ fpos' \div FrameBytes = head' + Len(batch')
       /\ ~fifo'
  BY <1>2, <1>11, <1>12
<1> QED
  BY <1>13, <1>14, <1>15 DEF SourceInv

\* Every step keeps the source and the counters together.
LEMMA SourceStep ==
  ASSUME ~TornReads, IInv, SourceInv, [Next]_vars
  PROVE  SourceInv'
<1> USE DEF refillVars, stopVars, taskVars
<1>1. CASE \E f \in Files : Start(f)
  BY <1>1, StartSource
<1>2. CASE Fill
  BY <1>2, FillSource
<1>3. CASE TakeFifo
  BY <1>3, TakeFifoSource
<1>4. CASE TakeDirect
  BY <1>4, TakeDirectSource
<1>5. CASE Publish
  <2>1. /\ lv = "push" /\ UNCHANGED <<sourceVars, last, cut>>
        /\ eos' = (eos \/ (last /\ (fifo => raEof)))
        /\ lv' = IF last THEN "drain" ELSE "refill"
        /\ batch' = <<>> /\ head' = head + Len(batch)
    BY <1>5 DEF Publish
  <2>2. head' + Len(batch') = head + Len(batch)
    BY <2>1, SourceTypes
  <2>3. AtEnd' => AtEnd
    BY <2>1 DEF AtEnd
  <2>4. fifo /\ eos' => eos \/ raEof
    BY <2>1
  <2> QED
    BY <2>1, <2>2, <2>3, <2>4 DEF SourceInv, DirectDone, sourceVars
<1>6. CASE RefillDone \/ StartTask \/ Poll
  BY <1>6, SourceSame DEF RefillDone, StartTask, Poll
<1>7. CASE PushFrame
  BY <1>7, SourceSame DEF PushFrame
<1>8. CASE DrainCheck \/ DrainElapsed \/ UserStop
  BY <1>8, SourceSame DEF DrainCheck, DrainElapsed, UserStop
<1>9. CASE Teardown
  BY <1>9 DEF Teardown, SourceInv
<1>10. CASE Check \/ Wait \/ Gather \/ Release \/ WriteDone \/ WriteFails
  BY <1>10, SourceSame DEF Check, Wait, Gather, Release, WriteDone, WriteFails
<1>11. CASE UNCHANGED vars
  BY <1>11, SourceSame DEF vars
<1> QED
  BY <1>1, <1>2, <1>3, <1>4, <1>5, <1>6, <1>7, <1>8, <1>9, <1>10, <1>11
     DEF Next, Producer, Consumer

\* The four parts together are inductive.
LEMMA NextEndInv ==
  ASSUME ~TornReads, EndInv, [Next]_vars
  PROVE  EndInv'
BY NextIInv, SourceStep, StopStep, TaskStep DEF EndInv

\* They hold before the first track.
LEMMA InitEndInv == Init => EndInv
BY InitIInv DEF Init, EndInv, SourceInv, StopInv, TaskInv

\* A track that ended by itself: the source is exhausted, and everything
\* before it is empty.
LEMMA EndedWhole == EndInv => EndsWhole
<1> SUFFICES ASSUME EndInv, stopping, task = "exit", ~cut
             PROVE  Len(out) = TrackFrames(file)
  BY DEF EndsWhole
<1> USE DEF EndInv
<1>1. /\ lv = "idle" /\ stopReq /\ eos /\ head = tail /\ AtEnd
      /\ Len(out) + Len(stage) = tail /\ stage = <<>>
  BY DEF StopInv, TaskInv, AtEnd
<1>2. Len(out) = head /\ head + Len(batch) = head
  <2>1. /\ Len(stage) = 0 /\ Len(batch) = 0 /\ Len(out) \in Nat
    BY <1>1, SourceTypes DEF IInv, TypeOK, TaskTypeOK
  <2> QED
    BY <1>1, <2>1, SourceTypes
<1>3. /\ TrackFrames(file) = Limit(file) \div FrameBytes
      /\ fpos <= file.bytes
  BY <1>1 DEF TrackFrames, Limit, IInv, ReadAligned
<1>4. CASE fifo
  <2>1. /\ fpos = Limit(file) /\ raTail = raHead /\ fpos = raHead
        /\ raTail \div FrameBytes = head
    BY <1>1, <1>2, <1>4 DEF SourceInv, IInv, ReadAligned
  <2> QED
    BY <1>2, <1>3, <2>1
<1>5. CASE ~fifo
  <2>1. /\ fpos \div FrameBytes = head
        /\ remaining = IF file.declared = 0 THEN Unknown
                       ELSE file.declared - head * FrameBytes
        /\ file.declared # 0 => remaining \in Nat
        /\ DirectDone
    BY <1>1, <1>2, <1>5 DEF SourceInv
  <2>2. CASE file.declared = 0
    BY <1>2, <1>3, <2>1, <2>2 DEF DirectDone, Limit
  <2>3. CASE file.declared # 0
    <3>1. /\ file.declared = head * FrameBytes + remaining
          /\ remaining \in Nat
      <4>1. head * FrameBytes \in Nat
        BY SourceTypes, ConstantTypes
      <4> QED
        BY <2>1, <2>3, <4>1, SourceTypes
    <3>2. file.declared \div FrameBytes = head + (remaining \div FrameBytes)
      <4>1. /\ head \in Int /\ remaining \in Int
            /\ FrameBytes \in Nat \ {0}
        BY <3>1, ConstantTypes, SourceTypes
      <4>2. (head * FrameBytes + remaining) \div FrameBytes
              = head + (remaining \div FrameBytes)
        BY <4>1, DivShift
      <4> QED
        BY <3>1, <4>2
    <3>3. fpos \div FrameBytes <= file.bytes \div FrameBytes
      BY <1>3, SourceTypes, ConstantTypes, DivOrder
    <3>4. remaining < FrameBytes <=> remaining \div FrameBytes = 0
      BY <3>1, ConstantTypes, DivOrder
    <3>5. remaining \div FrameBytes \in Nat
      BY <3>1, ConstantTypes, DivNat
    <3>6. /\ file.bytes <= file.declared =>
              file.bytes \div FrameBytes <= file.declared \div FrameBytes
          /\ file.declared <= file.bytes =>
              file.declared \div FrameBytes <= file.bytes \div FrameBytes
      BY SourceTypes, ConstantTypes, DivOrder
    <3>7. CASE fpos = file.bytes
      <4>1. CASE file.bytes < file.declared
        BY <1>2, <1>3, <2>1, <2>3, <3>7, <4>1 DEF Limit, Least
      <4>2. CASE ~(file.bytes < file.declared)
        <5>1. /\ TrackFrames(file) = head + (remaining \div FrameBytes)
              /\ TrackFrames(file) <= head
          BY <1>3, <2>1, <2>3, <3>2, <3>6, <3>7, <4>2, SourceTypes DEF Limit, Least
        <5>2. TrackFrames(file) = head
          BY <3>5, <5>1, SourceTypes
        <5> QED
          BY <1>2, <5>2
      <4> QED
        BY <4>1, <4>2
    <3>8. CASE remaining < FrameBytes
      <4>1. file.declared \div FrameBytes = head
        BY <3>2, <3>4, <3>8, SourceTypes
      <4>2. CASE file.bytes < file.declared
        <5>1. TrackFrames(file) = file.bytes \div FrameBytes
          BY <1>3, <2>3, <4>2 DEF Limit, Least
        <5>2. /\ file.bytes \div FrameBytes \in Nat
              /\ file.bytes <= file.declared
          <6>1. /\ file.bytes \in Nat /\ file.declared \in Nat
                /\ FrameBytes \in Nat \ {0}
            BY SourceTypes, ConstantTypes
          <6> QED
            BY <4>2, <6>1, DivNat
        <5>3. TrackFrames(file) = head
          BY <2>1, <3>3, <3>6, <4>1, <5>1, <5>2, SourceTypes
        <5> QED
          BY <1>2, <5>3
      <4>3. CASE ~(file.bytes < file.declared)
        BY <1>2, <1>3, <2>3, <4>1, <4>3 DEF Limit, Least
      <4> QED
        BY <4>2, <4>3
    <3> QED
      BY <2>1, <3>7, <3>8 DEF DirectDone
  <2> QED
    BY <2>2, <2>3
<1> QED
  BY <1>4, <1>5

\* A track that ends by itself has handed every whole frame of its data to the
\* I2S driver when the audio task exits, for every size of the track and of the
\* buffers, with and without the read-ahead FIFO.
THEOREM TrackEndsWhole ==
  ASSUME ~TornReads
  PROVE  Spec => []EndsWhole
<1>1. Init => EndInv
  BY InitEndInv
<1>2. EndInv /\ [Next]_vars => EndInv'
  BY NextEndInv
<1>3. EndInv => EndsWhole
  BY EndedWhole
<1> QED
  BY <1>1, <1>2, <1>3, PTL DEF Spec

-----------------------------------------------------------------------------
(* The sample path is a bounded queue *)

\* The chunk on its way to the driver.
Staged == IF task \in {"write", "exit"} THEN stage ELSE <<>>

\* The n frames of the track from number a on.
Run(a, n) == [i \in 1 .. n |-> FrameAt(a + i - 1)]

\* A run is a sequence of frames.
LEMMA RunType ==
  ASSUME NEW a \in Nat, NEW n \in Nat
  PROVE  Run(a, n) \in Seq(Frame) /\ Len(Run(a, n)) = n
<1>1. ASSUME NEW i \in 1 .. n
      PROVE  FrameAt(a + i - 1) \in Frame
  BY ConstantTypes DEF FrameAt, Frame
<1> QED
  BY <1>1 DEF Run

\* The unread slots of the ring hold the frames that follow s_tail.
LEMMA QueuedIsRun == IInv => RingUsed \in Nat /\ Queued = Run(tail, RingUsed)
<1> SUFFICES ASSUME IInv PROVE RingUsed \in Nat /\ Queued = Run(tail, RingUsed)
  OBVIOUS
<1>1. /\ head \in Nat /\ tail \in Nat /\ tail <= head /\ written \in Nat
      /\ \A n \in tail .. head + written - 1 :
           ring[n % RingFrames] = FrameAt(n)
  BY DEF IInv, TypeOK, RingTypeOK, RefillTypeOK, RingHoldsStream
<1>2. RingUsed \in Nat /\ RingUsed = head - tail
  BY <1>1 DEF RingUsed
<1>3. ASSUME NEW n \in 1 .. RingUsed
      PROVE  ring[(tail + n - 1) % RingFrames] = FrameAt(tail + n - 1)
  BY <1>1, <1>2
<1> QED
  BY <1>2, <1>3 DEF Queued, Run

\* The same after a step.
LEMMA QueuedIsRunNext ==
  IInv' => (RingUsed \in Nat /\ Queued = Run(tail, RingUsed))'
BY QueuedIsRun, PTL

\* The frames the queue was ever given are those below s_head.
LEMMA GivenIsHead ==
  ASSUME EndInv
  PROVE  Abstract!Given = head
<1> USE DEF EndInv
<1>1. /\ Queued = Run(tail, RingUsed) /\ RingUsed \in Nat
      /\ Len(Queued) = RingUsed
  BY QueuedIsRun, RunType, SourceTypes
<1>2. Len(out) + Len(Staged) = tail
  <2>1. CASE task \in {"write", "exit"}
    BY <2>1 DEF Staged, IInv, StageHoldsStream, TaskInv
  <2>2. CASE task \notin {"write", "exit"}
    <3>1. Len(out) = tail
      BY <2>2 DEF IInv, TypeOK, TaskTypeOK, StageHoldsStream
    <3>2. Staged = <<>>
      BY <2>2 DEF Staged
    <3> QED
      BY <3>1, <3>2, SourceTypes
  <2> QED
    BY <2>1, <2>2
<1>3. Abstract!Given = Len(out) + Len(Staged) + Len(Queued)
  BY DEF Abstract!Given, Staged
<1> QED
  BY <1>1, <1>2, <1>3, SourceTypes DEF RingUsed

\* A sequence is a run if it holds the frames of one.
LEMMA RunEqual ==
  ASSUME NEW a \in Nat, NEW n \in Nat, NEW s \in Seq(Frame), Len(s) = n,
         \A i \in 1 .. n : s[i] = FrameAt(a + i - 1)
  PROVE  s = Run(a, n)
<1>1. Run(a, n) \in Seq(Frame) /\ Len(Run(a, n)) = n
  BY RunType
<1>2. \A i \in 1 .. n : s[i] = Run(a, n)[i]
  BY DEF Run
<1> QED
  BY <1>1, <1>2, SeqEqual

\* Two adjoining runs make one.
LEMMA RunConcat ==
  ASSUME NEW a \in Nat, NEW m \in Nat, NEW n \in Nat
  PROVE  Run(a, m) \o Run(a + m, n) = Run(a, m + n)
<1> DEFINE joint == Run(a, m) \o Run(a + m, n)
<1>1. /\ Run(a, m) \in Seq(Frame) /\ Len(Run(a, m)) = m
      /\ Run(a + m, n) \in Seq(Frame) /\ Len(Run(a + m, n)) = n
  BY RunType
<1>2. /\ joint \in Seq(Frame) /\ Len(joint) = m + n
      /\ \A i \in 1 .. m : joint[i] = Run(a, m)[i]
      /\ \A i \in 1 .. m + n : i > m => joint[i] = Run(a + m, n)[i - m]
  BY <1>1
<1>3. ASSUME NEW i \in 1 .. m + n
      PROVE  joint[i] = FrameAt(a + i - 1)
  <2>1. CASE i <= m
    <3>1. Run(a, m)[i] = FrameAt(a + i - 1)
      BY <2>1 DEF Run
    <3>2. joint[i] = Run(a, m)[i]
      BY <1>2, <2>1
    <3> HIDE DEF joint
    <3> QED
      BY <3>1, <3>2
  <2>2. CASE i > m
    <3>1. i - m \in 1 .. n /\ a + m + (i - m) - 1 = a + i - 1
      BY <2>2
    <3>2. Run(a + m, n)[i - m] = FrameAt(a + m + (i - m) - 1)
      BY <3>1 DEF Run
    <3>3. joint[i] = Run(a + m, n)[i - m]
      BY <1>2, <2>2
    <3> HIDE DEF joint
    <3> QED
      BY <3>1, <3>2, <3>3
  <2>3. i <= m \/ i > m
    OBVIOUS
  <2> HIDE DEF joint
  <2> QED
    BY <2>1, <2>2, <2>3
<1> HIDE DEF joint
<1>4. m + n \in Nat
  OBVIOUS
<1>5. joint = Run(a, m + n)
  BY <1>2, <1>3, <1>4, RunEqual
<1> QED
  BY <1>5 DEF joint

\* A run may be cut anywhere.
LEMMA RunCut ==
  ASSUME NEW a \in Nat, NEW m \in Nat, NEW n \in Nat, m <= n
  PROVE  /\ SubSeq(Run(a, n), 1, m) = Run(a, m)
         /\ SubSeq(Run(a, n), m + 1, n) = Run(a + m, n - m)
<1> DEFINE s == Run(a, n)
<1>1. /\ s \in Seq(Frame) /\ Len(s) = n
      /\ \A i \in 1 .. n : s[i] = FrameAt(a + i - 1)
  BY RunType DEF Run
<1> HIDE DEF s
<1>2. SubSeq(s, 1, m) = Run(a, m)
  <2> DEFINE t == SubSeq(s, 1, m)
  <2>1. /\ t \in Seq(Frame) /\ Len(t) = m
        /\ \A i \in 1 .. m : t[i] = s[i]
    BY <1>1
  <2> HIDE DEF t
  <2>2. \A i \in 1 .. m : t[i] = FrameAt(a + i - 1)
    BY <1>1, <2>1
  <2>3. t = Run(a, m)
    BY <2>1, <2>2, RunEqual
  <2> QED
    BY <2>3 DEF t
<1>3. SubSeq(s, m + 1, n) = Run(a + m, n - m)
  <2> DEFINE t == SubSeq(s, m + 1, n)
  <2>1. /\ t \in Seq(Frame) /\ Len(t) = n - m
        /\ \A i \in 1 .. n - m : t[i] = s[m + i]
    BY <1>1
  <2> HIDE DEF t
  <2>2. ASSUME NEW i \in 1 .. n - m
        PROVE  t[i] = FrameAt(a + m + i - 1)
    <3>1. m + i \in 1 .. n /\ a + (m + i) - 1 = a + m + i - 1
      OBVIOUS
    <3>2. t[i] = s[m + i] /\ s[m + i] = FrameAt(a + (m + i) - 1)
      BY <1>1, <2>1, <3>1
    <3> QED
      BY <3>1, <3>2
  <2>3. n - m \in Nat /\ a + m \in Nat
    OBVIOUS
  <2>4. t = Run(a + m, n - m)
    BY <2>1, <2>2, <2>3, RunEqual
  <2> QED
    BY <2>4 DEF t
<1> QED
  BY <1>2, <1>3 DEF s

\* A step that moves none of the indices is invisible to the queue.
LEMMA SameQueue ==
  ASSUME IInv, IInv', UNCHANGED <<head, tail>>
  PROVE  UNCHANGED Queued
<1>1. Queued = Run(tail, RingUsed) /\ Queued' = Run(tail', RingUsed')
  BY QueuedIsRun, QueuedIsRunNext
<1> QED
  BY <1>1 DEF RingUsed

\* Such a step is a stutter of the queue if it leaves the staged chunk alone.
LEMMA StutterMaps ==
  ASSUME IInv, IInv', UNCHANGED <<head, tail, out, Staged>>
  PROVE  UNCHANGED Abstract!fifoVars
BY SameQueue DEF Abstract!fifoVars, Staged

\* The publication of s_head is the push of the whole batch.
LEMMA PublishMaps ==
  ASSUME EndInv, IInv', Publish
  PROVE  [Abstract!Next]_(Abstract!fifoVars)
<1> DEFINE n == Len(batch)
<1>1. /\ head' = head + n /\ tail' = tail /\ UNCHANGED <<out, Staged>>
      /\ n \in Nat /\ head \in Nat /\ tail \in Nat /\ RingUsed + n <= RingFrames
      /\ RingUsed \in Nat
  BY SourceTypes, QueuedIsRun, QueuedIsRunNext
     DEF Publish, taskVars, Staged, EndInv, IInv, RingHoldsStream
<1>2. CASE n = 0
  <2>1. UNCHANGED <<head, tail, out, Staged>>
    BY <1>1, <1>2
  <2> QED
    BY <2>1, StutterMaps DEF EndInv
<1>3. CASE n # 0
  <2>1. /\ Queued = Run(tail, RingUsed) /\ Queued' = Run(tail, RingUsed + n)
        /\ Len(Queued) = RingUsed
    <3>1. RingUsed' = RingUsed + n
      BY <1>1 DEF RingUsed
    <3>2. Queued = Run(tail, RingUsed) /\ Queued' = Run(tail', RingUsed')
      BY QueuedIsRun, QueuedIsRunNext DEF EndInv
    <3> QED
      BY <1>1, <3>1, <3>2, RunType
  <2>2. tail + RingUsed = head
    BY <1>1 DEF RingUsed
  <2>3. Queued' = Queued \o Run(head, n)
    BY <1>1, <2>1, <2>2, RunConcat
  <2>4. Run(head, n) = [i \in 1 .. n |-> FrameAt(Abstract!Given + i - 1)]
    BY GivenIsHead DEF Run
  <2>5. n \in 1 .. RingFrames
    BY <1>1, <1>3, ConstantTypes
  <2>6. Abstract!Push(n)
    BY <1>1, <2>1, <2>3, <2>4 DEF Abstract!Push, Staged
  <2> QED
    BY <2>5, <2>6 DEF Abstract!Next
<1> QED
  BY <1>2, <1>3

\* Giving the gathered slots back is the pop of one chunk.
LEMMA ReleaseMaps ==
  ASSUME EndInv, IInv', Release
  PROVE  Abstract!Next
<1>1. /\ task = "gather" /\ task' = "write" /\ tail' = tail + used
      /\ head' = head /\ out' = out /\ stage' = stage /\ Len(stage) = used
      /\ Staged = <<>> /\ Staged' = stage
  BY DEF Release, Staged
<1>2. /\ used \in 1 .. StageFrames /\ used <= RingUsed /\ Len(out) = tail
      /\ stage \in Seq(Frame)
      /\ \A i \in 1 .. Len(stage) : stage[i] = FrameAt(Len(out) + i - 1)
  BY <1>1 DEF EndInv, TaskInv, IInv, StageHoldsStream, TypeOK, TaskTypeOK
<1>3. used \in Nat /\ RingUsed \in Nat /\ tail \in Nat /\ head \in Nat
  BY <1>2, SourceTypes, QueuedIsRun, QueuedIsRunNext DEF EndInv
<1>4. stage = Run(tail, used)
  BY <1>1, <1>2, <1>3, RunEqual
<1>5. /\ Queued = Run(tail, RingUsed) /\ Len(Queued) = RingUsed
      /\ Queued' = Run(tail + used, RingUsed - used)
  <2>1. RingUsed' = RingUsed - used
    BY <1>1, <1>3 DEF RingUsed
  <2>2. Queued = Run(tail, RingUsed) /\ Queued' = Run(tail', RingUsed')
    BY QueuedIsRun, QueuedIsRunNext DEF EndInv
  <2> QED
    BY <1>1, <1>3, <2>1, <2>2, RunType
<1>6. /\ SubSeq(Queued, 1, used) = stage
      /\ SubSeq(Queued, used + 1, Len(Queued)) = Queued'
  <2>1. used <= RingUsed
    BY <1>2
  <2>2. /\ SubSeq(Run(tail, RingUsed), 1, used) = Run(tail, used)
        /\ SubSeq(Run(tail, RingUsed), used + 1, RingUsed)
             = Run(tail + used, RingUsed - used)
    BY <1>3, <2>1, RunCut
  <2> QED
    BY <1>4, <1>5, <2>2
<1>7. Abstract!Pop(used)
  BY <1>1, <1>2, <1>5, <1>6 DEF Abstract!Pop, Staged
<1> QED
  BY <1>2, <1>7 DEF Abstract!Next

\* An I2S write delivers the chunk, which is never empty.
LEMMA WriteDoneMaps ==
  ASSUME EndInv, IInv', WriteDone
  PROVE  Abstract!Next
<1>1. /\ task = "write" /\ task' = "check" /\ out' = out \o stage
      /\ head' = head /\ tail' = tail
      /\ Staged = stage /\ Staged' = <<>>
  BY DEF WriteDone, Staged
<1>2. stage # <<>>
  BY <1>1 DEF EndInv, TaskInv, IInv, StageHoldsStream
<1>3. Queued' = Queued
  BY <1>1, SameQueue DEF EndInv
<1>4. Abstract!Deliver
  BY <1>1, <1>2, <1>3 DEF Abstract!Deliver, Staged
<1> QED
  BY <1>4 DEF Abstract!Next

\* The start and the end of a track empty the queue.
LEMMA ResetMaps ==
  ASSUME head' = 0, tail' = 0, out' = <<>>, task' = "none", IInv'
  PROVE  Abstract!Next
<1>1. Queued' = Run(0, 0)
  <2>1. Queued' = Run(tail', RingUsed')
    BY QueuedIsRun, QueuedIsRunNext
  <2> QED
    BY <2>1 DEF RingUsed
<1>2. Queued' = <<>>
  BY <1>1 DEF Run
<1>3. Staged' = <<>>
  BY DEF Staged
<1> QED
  BY <1>2, <1>3 DEF Abstract!Next, Abstract!Reset, Staged

\* Every step is a step of the queue or a stutter.
LEMMA NextMaps ==
  ASSUME EndInv, EndInv', [Next]_vars
  PROVE  [Abstract!Next]_(Abstract!fifoVars)
<1> USE DEF EndInv
<1>1. CASE \E f \in Files : Start(f)
  <2>1. head' = 0 /\ tail' = 0 /\ out' = <<>> /\ task' = "none"
    BY <1>1 DEF Start
  <2> QED
    BY <2>1, ResetMaps
<1>2. CASE Teardown
  <2>1. head' = 0 /\ tail' = 0 /\ out' = <<>> /\ task' = "none"
    BY <1>2 DEF Teardown
  <2> QED
    BY <2>1, ResetMaps
<1>3. CASE Publish
  BY <1>3, PublishMaps
<1>4. CASE Release
  BY <1>4, ReleaseMaps
<1>5. CASE WriteDone
  BY <1>5, WriteDoneMaps
<1>6. CASE Fill \/ RefillDone \/ TakeFifo \/ TakeDirect \/ PushFrame
  <2>1. UNCHANGED <<head, tail, out, Staged>>
    BY <1>6 DEF Fill, RefillDone, TakeFifo, TakeDirect, PushFrame, taskVars,
                Staged
  <2> QED
    BY <2>1, StutterMaps
<1>7. CASE StartTask \/ Poll \/ DrainCheck \/ DrainElapsed \/ UserStop
  <2>1. UNCHANGED <<head, tail, out, Staged>>
    BY <1>7 DEF StartTask, Poll, DrainCheck, DrainElapsed, UserStop, taskVars,
                Staged
  <2> QED
    BY <2>1, StutterMaps
<1>8. CASE Check \/ Wait \/ Gather \/ WriteFails
  <2>1. UNCHANGED <<head, tail, out, Staged>>
    BY <1>8 DEF Check, Wait, Gather, WriteFails, TaskInv, Staged
  <2> QED
    BY <2>1, StutterMaps
<1>9. CASE UNCHANGED vars
  <2>1. UNCHANGED <<head, tail, out, Staged>>
    BY <1>9 DEF vars, taskVars, Staged
  <2> QED
    BY <2>1, StutterMaps
<1> QED
  BY <1>1, <1>2, <1>3, <1>4, <1>5, <1>6, <1>7, <1>8, <1>9
     DEF Next, Producer, Consumer

\* The queue is empty at first.
LEMMA InitMaps == Init => Abstract!Init
BY DEF Init, Abstract!Init, Queued, RingUsed, Staged

\* The ring, its two indices, the unlocked copies of the two tasks and the
\* staging buffer implement the bounded first-in first-out queue of FrameFifo.
THEOREM Refinement ==
  ASSUME ~TornReads
  PROVE  Spec => ImplementsFifo
<1>1. Init => EndInv
  BY InitEndInv
<1>2. EndInv /\ [Next]_vars => EndInv'
  BY NextEndInv
<1>3. EndInv /\ EndInv' /\ [Next]_vars => [Abstract!Next]_(Abstract!fifoVars)
  BY NextMaps
<1>4. Init => Abstract!Init
  BY InitMaps
<1> QED
  BY <1>1, <1>2, <1>3, <1>4, PTL DEF Spec, ImplementsFifo, Abstract!Spec
=============================================================================
