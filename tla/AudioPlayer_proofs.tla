------------------------- MODULE AudioPlayer_proofs -------------------------
(***************************************************************************)
(* Proofs about AudioPlayer: the inductive invariant IInv holds whatever   *)
(* the tracks, the number of audio tasks, the size of the ring and the     *)
(* length of a track are, and the safety properties follow from it.        *)
(***************************************************************************)
EXTENDS AudioPlayer, TLAPS

\* What IInv says beyond the types.
Logic ==
  /\ Ownership
  /\ AliveIsTrue
  /\ FileOnMountedCard
  /\ StateIsTrue
  /\ LatestIsServed

\* The initial states satisfy the invariant.
LEMMA InitIInv == Init => IInv
<1> SUFFICES ASSUME Init PROVE IInv
  OBVIOUS
<1>1. TypeOK
  <2>1. PlayerTypeOK /\ DeviceTypeOK
    BY DEF Init, PlayerTypeOK, DeviceTypeOK
  <2>2. StreamTypeOK
    <3>1. left \in 0 .. Blocks /\ queued \in 0 .. RingSize
      BY SizesAssumption DEF Init
    <3>2. ring \in BOOLEAN /\ fifo \in BOOLEAN
      BY DEF Init
    <3>3. eos \in BOOLEAN /\ drain \in BOOLEAN
      BY DEF Init
    <3> QED BY <3>1, <3>2, <3>3 DEF StreamTypeOK
  <2>3. TaskTypeOK
    BY DEF Init, TaskTypeOK, PcStates
  <2> QED BY <2>1, <2>2, <2>3 DEF TypeOK
<1>2. Logic
  BY DEF Init, Logic, Ownership, Starting, AliveIsTrue, Playing,
         FileOnMountedCard, StateIsTrue, LatestIsServed
<1> QED BY <1>1, <1>2 DEF IInv, Logic

\* What a refill leaves in its types: it never overfills the ring.
LEMMA RefillTypes ==
  ASSUME StreamTypeOK, NEW n \in 0 .. RingSize, NEW how, Refill(n, how)
  PROVE  /\ left' \in 0 .. Blocks /\ queued' \in 0 .. RingSize
         /\ eos' \in BOOLEAN
<1>1. left' \in 0 .. Blocks /\ queued' \in 0 .. RingSize
  <2>1. queued' \in 0 .. RingSize
    BY SizesAssumption DEF Refill, Room, StreamTypeOK
  <2>2. left' = left - n \/ left' = 0
    BY DEF Refill
  <2>3. left' \in 0 .. Blocks
    BY <2>2, SizesAssumption DEF Refill, StreamTypeOK
  <2> QED BY <2>1, <2>3
<1>2. eos' \in BOOLEAN
  BY DEF Refill, StreamTypeOK
<1> QED BY <1>1, <1>2

\* player_start() fails early, or owns the file it opened.
LEMMA StartOpenStep == ASSUME IInv, StartOpen PROVE IInv'
<1>1. PlayerTypeOK' /\ DeviceTypeOK'
  <2>1. PlayerTypeOK'
    BY DEF IInv, TypeOK, PlayerTypeOK, StartOpen, StartFails, playerVars
  <2>2. DeviceTypeOK'
    BY DEF IInv, TypeOK, DeviceTypeOK, StartOpen, driverVars, cardVars
  <2> QED BY <2>1, <2>2
<1>2. StreamTypeOK'
  <2>1. ring' \in BOOLEAN /\ fifo' \in BOOLEAN
    BY DEF IInv, TypeOK, StreamTypeOK, StartOpen
  <2>2. left' \in 0 .. Blocks /\ queued' \in 0 .. RingSize
    <3>1. \/ left' = left /\ queued' = queued
          \/ left' = Blocks /\ queued' = 0
      BY DEF StartOpen
    <3>2. left \in 0 .. Blocks /\ queued \in 0 .. RingSize
      BY DEF IInv, TypeOK, StreamTypeOK
    <3> QED BY <3>1, <3>2, SizesAssumption
  <2>3. eos' \in BOOLEAN /\ drain' \in BOOLEAN
    BY DEF IInv, TypeOK, StreamTypeOK, StartOpen
  <2> QED BY <2>1, <2>2, <2>3 DEF StreamTypeOK
<1>3. TaskTypeOK'
  BY DEF IInv, TypeOK, TaskTypeOK, PcStates, StartOpen, StartFails,
         playerVars, streamVars, driverVars, cardVars
<1>4. Logic'
  BY SizesAssumption DEF IInv, TypeOK, PlayerTypeOK, TaskTypeOK,
         DeviceTypeOK, PcStates, Logic, Ownership, Starting, AliveIsTrue,
         Playing, FileOnMountedCard, StateIsTrue, LatestIsServed, StartOpen,
         StartFails, playerVars, streamVars, driverVars, cardVars
<1> QED BY <1>1, <1>2, <1>3, <1>4 DEF IInv, Logic, TypeOK

\* The prefill, whatever the card answers.
LEMMA PrefillStep == ASSUME IInv, Prefill PROVE IInv'
<1>1. PlayerTypeOK' /\ DeviceTypeOK'
  <2>1. PlayerTypeOK'
    BY DEF IInv, TypeOK, PlayerTypeOK, Prefill, Refill, Refills, playerVars
  <2>2. DeviceTypeOK'
    BY DEF IInv, TypeOK, DeviceTypeOK, Prefill, driverVars, cardVars
  <2> QED BY <2>1, <2>2
<1>2. StreamTypeOK'
  BY RefillTypes DEF IInv, TypeOK, StreamTypeOK, Prefill, Refills,
         playerVars, streamVars
<1>3. TaskTypeOK'
  BY DEF IInv, TypeOK, TaskTypeOK, PcStates, Prefill, Refill, Refills, Room,
         playerVars, streamVars, driverVars, cardVars
<1>4. Logic'
  BY SizesAssumption DEF IInv, TypeOK, PlayerTypeOK, TaskTypeOK,
         DeviceTypeOK, PcStates, Logic, Ownership, Starting, AliveIsTrue,
         Playing, FileOnMountedCard, StateIsTrue, LatestIsServed, Prefill,
         Refill, Refills, Room, playerVars, streamVars, driverVars, cardVars
<1> QED BY <1>1, <1>2, <1>3, <1>4 DEF IInv, Logic, TypeOK

\* The supply and the I2S channel come up, or the file is closed.
LEMMA StartI2SStep == ASSUME IInv, StartI2S PROVE IInv'
<1>1. PlayerTypeOK' /\ DeviceTypeOK'
  <2>1. PlayerTypeOK'
    BY DEF IInv, TypeOK, PlayerTypeOK, StartI2S, StartFails, playerVars
  <2>2. DeviceTypeOK'
    BY DEF IInv, TypeOK, DeviceTypeOK, StartI2S, driverVars, cardVars
  <2> QED BY <2>1, <2>2
<1>2. StreamTypeOK'
  BY DEF IInv, TypeOK, StreamTypeOK, StartI2S, StartFails, streamVars
<1>3. TaskTypeOK'
  BY DEF IInv, TypeOK, TaskTypeOK, PcStates, StartI2S, StartFails,
         playerVars, streamVars, driverVars, cardVars
<1>4. Logic'
  BY SizesAssumption DEF IInv, TypeOK, PlayerTypeOK, TaskTypeOK,
         DeviceTypeOK, PcStates, Logic, Ownership, Starting, AliveIsTrue,
         Playing, FileOnMountedCard, StateIsTrue, LatestIsServed, StartI2S,
         StartFails, playerVars, streamVars, driverVars, cardVars
<1> QED BY <1>1, <1>2, <1>3, <1>4 DEF IInv, Logic, TypeOK

\* The audio task is created, or all is taken down again: nobody was alive,
\* because the phase is idle.
LEMMA StartTaskStep == ASSUME IInv, StartTask PROVE IInv'
<1>1. PlayerTypeOK' /\ DeviceTypeOK'
  <2>1. PlayerTypeOK'
    BY DEF IInv, TypeOK, PlayerTypeOK, StartTask, StartFails, playerVars
  <2>2. DeviceTypeOK'
    BY DEF IInv, TypeOK, DeviceTypeOK, StartTask, I2SDown, driverVars,
           cardVars
  <2> QED BY <2>1, <2>2
<1>2. StreamTypeOK'
  BY DEF IInv, TypeOK, StreamTypeOK, StartTask, StartFails, I2SDown,
         streamVars
<1>3. TaskTypeOK'
  BY DEF IInv, TypeOK, TaskTypeOK, PcStates, StartTask, StartFails, I2SDown,
         playerVars, streamVars, driverVars, cardVars
<1>4. Logic'
  BY SizesAssumption DEF IInv, TypeOK, PlayerTypeOK, TaskTypeOK,
         DeviceTypeOK, PcStates, Logic, Ownership, Starting, AliveIsTrue,
         Playing, FileOnMountedCard, StateIsTrue, LatestIsServed, StartTask,
         StartFails, I2SDown, playerVars, streamVars, driverVars, cardVars
<1> QED BY <1>1, <1>2, <1>3, <1>4 DEF IInv, Logic, TypeOK

\* The teardown: the task is gone, so the channel and the ring may go.
LEMMA PollStoppingStep == ASSUME IInv, PollStopping PROVE IInv'
<1>1. PlayerTypeOK' /\ DeviceTypeOK'
  BY SizesAssumption DEF IInv, TypeOK, PlayerTypeOK, DeviceTypeOK,
         PollStopping, TaskIsGone, I2SDown, playerVars, streamVars,
         driverVars, cardVars
<1>2. StreamTypeOK'
  <2>1. ring' \in BOOLEAN /\ fifo' \in BOOLEAN
    BY DEF IInv, TypeOK, StreamTypeOK, PollStopping
  <2>2. left' \in 0 .. Blocks /\ queued' \in 0 .. RingSize
    BY SizesAssumption DEF IInv, TypeOK, StreamTypeOK, PollStopping
  <2>3. eos' \in BOOLEAN /\ drain' \in BOOLEAN
    BY DEF IInv, TypeOK, StreamTypeOK, PollStopping
  <2> QED BY <2>1, <2>2, <2>3 DEF StreamTypeOK
<1>3. TaskTypeOK'
  BY DEF IInv, TypeOK, TaskTypeOK, PcStates, PollStopping, TaskIsGone,
         I2SDown, playerVars, streamVars, driverVars, cardVars
<1>4. Logic'
  BY SizesAssumption DEF IInv, TypeOK, PlayerTypeOK, TaskTypeOK,
         DeviceTypeOK, PcStates, Logic, Ownership, Starting, AliveIsTrue,
         Playing, FileOnMountedCard, StateIsTrue, LatestIsServed,
         PollStopping, TaskIsGone, I2SDown, playerVars, streamVars,
         driverVars, cardVars
<1> QED BY <1>1, <1>2, <1>3, <1>4 DEF IInv, Logic, TypeOK

\* The queued track is the latest request, and is taken.
LEMMA StartPendingStep == ASSUME IInv, StartPending PROVE IInv'
<1>1. TypeOK'
  BY SizesAssumption DEF IInv, TypeOK, PlayerTypeOK, StreamTypeOK,
         TaskTypeOK, DeviceTypeOK, PcStates, StartPending, playerVars,
         streamVars, driverVars, cardVars
<1>2. Logic'
  BY SizesAssumption DEF IInv, TypeOK, PlayerTypeOK, TaskTypeOK,
         DeviceTypeOK, PcStates, Logic, Ownership, Starting, AliveIsTrue,
         Playing, FileOnMountedCard, StateIsTrue, LatestIsServed,
         StartPending, playerVars, streamVars, driverVars, cardVars
<1> QED BY <1>1, <1>2 DEF IInv, Logic

\* An I2S error becomes a stop.
LEMMA PollErrorStep == ASSUME IInv, PollError PROVE IInv'
<1>1. TypeOK'
  BY SizesAssumption DEF IInv, TypeOK, PlayerTypeOK, StreamTypeOK,
         TaskTypeOK, DeviceTypeOK, PcStates, PollError, RequestStop,
         playerVars, streamVars, driverVars, cardVars
<1>2. Logic'
  BY SizesAssumption DEF IInv, TypeOK, PlayerTypeOK, TaskTypeOK,
         DeviceTypeOK, PcStates, Logic, Ownership, Starting, AliveIsTrue,
         Playing, FileOnMountedCard, StateIsTrue, LatestIsServed, PollError,
         RequestStop, playerVars, streamVars, driverVars, cardVars
<1> QED BY <1>1, <1>2 DEF IInv, Logic

\* A refill while playing.
LEMMA PollRefillStep == ASSUME IInv, PollRefill PROVE IInv'
<1>1. PlayerTypeOK' /\ DeviceTypeOK'
  <2>1. PlayerTypeOK'
    BY DEF IInv, TypeOK, PlayerTypeOK, PollRefill, Refill, Refills,
           playerVars
  <2>2. DeviceTypeOK'
    BY DEF IInv, TypeOK, DeviceTypeOK, PollRefill, driverVars, cardVars
  <2> QED BY <2>1, <2>2
<1>2. StreamTypeOK'
  BY RefillTypes DEF IInv, TypeOK, StreamTypeOK, PollRefill, Refills,
         playerVars, streamVars
<1>3. TaskTypeOK'
  BY DEF IInv, TypeOK, TaskTypeOK, PcStates, PollRefill, Refill, Refills,
         Room, playerVars, streamVars, driverVars, cardVars
<1>4. Logic'
  BY SizesAssumption DEF IInv, TypeOK, PlayerTypeOK, TaskTypeOK,
         DeviceTypeOK, PcStates, Logic, Ownership, Starting, AliveIsTrue,
         Playing, FileOnMountedCard, StateIsTrue, LatestIsServed, PollRefill,
         Refill, Refills, Room, playerVars, streamVars, driverVars, cardVars
<1> QED BY <1>1, <1>2, <1>3, <1>4 DEF IInv, Logic, TypeOK

\* The drain test starts or restarts its wait.
LEMMA PollDrainStep == ASSUME IInv, PollDrain PROVE IInv'
<1>1. TypeOK'
  BY SizesAssumption DEF IInv, TypeOK, PlayerTypeOK, StreamTypeOK,
         TaskTypeOK, DeviceTypeOK, PcStates, PollDrain, playerVars,
         streamVars, driverVars, cardVars
<1>2. Logic'
  BY SizesAssumption DEF IInv, TypeOK, PlayerTypeOK, TaskTypeOK,
         DeviceTypeOK, PcStates, Logic, Ownership, Starting, AliveIsTrue,
         Playing, FileOnMountedCard, StateIsTrue, LatestIsServed, PollDrain,
         playerVars, streamVars, driverVars, cardVars
<1> QED BY <1>1, <1>2 DEF IInv, Logic

\* The end of a track is a stop.
LEMMA PollDrainedStep == ASSUME IInv, PollDrained PROVE IInv'
<1>1. PlayerTypeOK' /\ DeviceTypeOK'
  BY SizesAssumption DEF IInv, TypeOK, PlayerTypeOK, DeviceTypeOK,
         PollDrained, RequestStop, playerVars, streamVars, driverVars,
         cardVars
<1>2. StreamTypeOK'
  BY DEF IInv, TypeOK, StreamTypeOK, PollDrained, RequestStop, streamVars
<1>3. TaskTypeOK'
  BY DEF IInv, TypeOK, TaskTypeOK, PcStates, PollDrained, RequestStop,
         playerVars, streamVars, driverVars, cardVars
<1>4. Logic'
  BY SizesAssumption DEF IInv, TypeOK, PlayerTypeOK, TaskTypeOK,
         DeviceTypeOK, PcStates, Logic, Ownership, Starting, AliveIsTrue,
         Playing, FileOnMountedCard, StateIsTrue, LatestIsServed,
         PollDrained, RequestStop, playerVars, streamVars, driverVars,
         cardVars
<1> QED BY <1>1, <1>2, <1>3, <1>4 DEF IInv, Logic, TypeOK

\* A tap stops, queues or plays; with the phase idle nothing is queued.
LEMMA TapStep == ASSUME NEW f \in Tracks, IInv, Tap(f) PROVE IInv'
<1>1. PlayerTypeOK' /\ DeviceTypeOK'
  BY SizesAssumption DEF IInv, TypeOK, PlayerTypeOK, DeviceTypeOK, Tap, Stop,
         Play, RequestStop, playerVars, streamVars, driverVars, cardVars
<1>2. StreamTypeOK'
  BY DEF IInv, TypeOK, StreamTypeOK, Tap, Stop, Play, RequestStop, streamVars
<1>3. TaskTypeOK'
  BY DEF IInv, TypeOK, TaskTypeOK, PcStates, Tap, Stop, Play, RequestStop,
         playerVars, streamVars, driverVars, cardVars
<1>4. Logic'
  BY SizesAssumption DEF IInv, TypeOK, PlayerTypeOK, TaskTypeOK,
         DeviceTypeOK, PcStates, Logic, Ownership, Starting, AliveIsTrue,
         Playing, FileOnMountedCard, StateIsTrue, LatestIsServed, Tap, Stop,
         Play, RequestStop, playerVars, streamVars, driverVars, cardVars
<1> QED BY <1>1, <1>2, <1>3, <1>4 DEF IInv, Logic, TypeOK

\* The stop button drops what is queued.
LEMMA StopButtonStep == ASSUME IInv, StopButton PROVE IInv'
<1>1. PlayerTypeOK' /\ DeviceTypeOK'
  BY SizesAssumption DEF IInv, TypeOK, PlayerTypeOK, DeviceTypeOK,
         StopButton, Stop, RequestStop, playerVars, streamVars, driverVars,
         cardVars
<1>2. StreamTypeOK'
  BY DEF IInv, TypeOK, StreamTypeOK, StopButton, Stop, RequestStop,
         streamVars
<1>3. TaskTypeOK'
  BY DEF IInv, TypeOK, TaskTypeOK, PcStates, StopButton, Stop, RequestStop,
         playerVars, streamVars, driverVars, cardVars
<1>4. Logic'
  BY SizesAssumption DEF IInv, TypeOK, PlayerTypeOK, TaskTypeOK,
         DeviceTypeOK, PcStates, Logic, Ownership, Starting, AliveIsTrue,
         Playing, FileOnMountedCard, StateIsTrue, LatestIsServed, StopButton,
         Stop, RequestStop, playerVars, streamVars, driverVars, cardVars
<1> QED BY <1>1, <1>2, <1>3, <1>4 DEF IInv, Logic, TypeOK

\* Deleting a file changes the card only.
LEMMA DeleteStep == ASSUME NEW f \in Tracks, IInv, Delete(f) PROVE IInv'
<1>1. TypeOK'
  BY SizesAssumption DEF IInv, TypeOK, PlayerTypeOK, StreamTypeOK,
         TaskTypeOK, DeviceTypeOK, PcStates, Delete, playerVars, streamVars,
         driverVars, cardVars
<1>2. Logic'
  BY SizesAssumption DEF IInv, TypeOK, PlayerTypeOK, TaskTypeOK,
         DeviceTypeOK, PcStates, Logic, Ownership, Starting, AliveIsTrue,
         Playing, FileOnMountedCard, StateIsTrue, LatestIsServed, Delete,
         playerVars, streamVars, driverVars, cardVars
<1> QED BY <1>1, <1>2 DEF IInv, Logic

\* Another page is shown.
LEMMA ShowPageStep == ASSUME IInv, ShowPage PROVE IInv'
<1>1. TypeOK'
  BY SizesAssumption DEF IInv, TypeOK, PlayerTypeOK, StreamTypeOK,
         TaskTypeOK, DeviceTypeOK, PcStates, ShowPage, playerVars,
         streamVars, driverVars, cardVars
<1>2. Logic'
  BY SizesAssumption DEF IInv, TypeOK, PlayerTypeOK, TaskTypeOK,
         DeviceTypeOK, PcStates, Logic, Ownership, Starting, AliveIsTrue,
         Playing, FileOnMountedCard, StateIsTrue, LatestIsServed, ShowPage,
         playerVars, streamVars, driverVars, cardVars
<1> QED BY <1>1, <1>2 DEF IInv, Logic

\* The volume is unmounted only when the player has no file open.
LEMMA SdPollGoneStep == ASSUME IInv, SdPollGone PROVE IInv'
<1>1. PlayerTypeOK' /\ DeviceTypeOK'
  BY SizesAssumption DEF IInv, TypeOK, PlayerTypeOK, DeviceTypeOK,
         SdPollGone, Active, Stop, RequestStop, playerVars, streamVars,
         driverVars, cardVars
<1>2. StreamTypeOK'
  BY DEF IInv, TypeOK, StreamTypeOK, SdPollGone, Active, Stop, RequestStop,
         streamVars
<1>3. TaskTypeOK'
  BY DEF IInv, TypeOK, TaskTypeOK, PcStates, SdPollGone, Active, Stop,
         RequestStop, playerVars, streamVars, driverVars, cardVars
<1>4. Logic'
  BY SizesAssumption DEF IInv, TypeOK, PlayerTypeOK, TaskTypeOK,
         DeviceTypeOK, PcStates, Logic, Ownership, Starting, AliveIsTrue,
         Playing, FileOnMountedCard, StateIsTrue, LatestIsServed, SdPollGone,
         Active, Stop, RequestStop, playerVars, streamVars, driverVars,
         cardVars
<1> QED BY <1>1, <1>2, <1>3, <1>4 DEF IInv, Logic, TypeOK

\* A card is mounted, or is not.
LEMMA SdPollMountStep == ASSUME IInv, SdPollMount PROVE IInv'
<1>1. TypeOK'
  BY SizesAssumption DEF IInv, TypeOK, PlayerTypeOK, StreamTypeOK,
         TaskTypeOK, DeviceTypeOK, PcStates, SdPollMount, playerVars,
         streamVars, driverVars, cardVars
<1>2. Logic'
  BY SizesAssumption DEF IInv, TypeOK, PlayerTypeOK, TaskTypeOK,
         DeviceTypeOK, PcStates, Logic, Ownership, Starting, AliveIsTrue,
         Playing, FileOnMountedCard, StateIsTrue, LatestIsServed,
         SdPollMount, playerVars, streamVars, driverVars, cardVars
<1> QED BY <1>1, <1>2 DEF IInv, Logic

\* Moving the card changes nothing the player knows of.
LEMMA MoveCardStep == ASSUME IInv, MoveCard PROVE IInv'
<1>1. TypeOK'
  BY SizesAssumption DEF IInv, TypeOK, PlayerTypeOK, StreamTypeOK,
         TaskTypeOK, DeviceTypeOK, PcStates, MoveCard, playerVars,
         streamVars, driverVars, cardVars
<1>2. Logic'
  BY SizesAssumption DEF IInv, TypeOK, PlayerTypeOK, TaskTypeOK,
         DeviceTypeOK, PcStates, Logic, Ownership, Starting, AliveIsTrue,
         Playing, FileOnMountedCard, StateIsTrue, LatestIsServed, MoveCard,
         playerVars, streamVars, driverVars, cardVars
<1> QED BY <1>1, <1>2 DEF IInv, Logic

\* The audio task leaves, takes a chunk or waits.
LEMMA TaskLoopStep == ASSUME NEW t \in Tasks, IInv, TaskLoop(t) PROVE IInv'
<1>1. TypeOK'
  BY SizesAssumption DEF IInv, TypeOK, PlayerTypeOK, StreamTypeOK,
         TaskTypeOK, DeviceTypeOK, PcStates, TaskLoop, playerVars,
         streamVars, driverVars, cardVars
<1>2. Logic'
  BY SizesAssumption DEF IInv, TypeOK, PlayerTypeOK, TaskTypeOK,
         DeviceTypeOK, PcStates, Logic, Ownership, Starting, AliveIsTrue,
         Playing, FileOnMountedCard, StateIsTrue, LatestIsServed, TaskLoop,
         playerVars, streamVars, driverVars, cardVars
<1> QED BY <1>1, <1>2 DEF IInv, Logic

\* The audio task writes, or asks for the stop itself.
LEMMA TaskWriteStep == ASSUME NEW t \in Tasks, IInv, TaskWrite(t) PROVE IInv'
<1>1. PlayerTypeOK' /\ DeviceTypeOK'
  BY SizesAssumption DEF IInv, TypeOK, PlayerTypeOK, DeviceTypeOK, TaskWrite,
         playerVars, streamVars, driverVars, cardVars
<1>2. StreamTypeOK'
  BY DEF IInv, TypeOK, StreamTypeOK, TaskWrite, streamVars
<1>3. TaskTypeOK'
  BY DEF IInv, TypeOK, TaskTypeOK, PcStates, TaskWrite, playerVars,
         streamVars, driverVars, cardVars
<1>4. Logic'
  BY SizesAssumption DEF IInv, TypeOK, PlayerTypeOK, TaskTypeOK,
         DeviceTypeOK, PcStates, Logic, Ownership, Starting, AliveIsTrue,
         Playing, FileOnMountedCard, StateIsTrue, LatestIsServed, TaskWrite,
         playerVars, streamVars, driverVars, cardVars
<1> QED BY <1>1, <1>2, <1>3, <1>4 DEF IInv, Logic, TypeOK

\* The audio task says that it is gone: it was the only one.
LEMMA TaskLeaveStep == ASSUME NEW t \in Tasks, IInv, TaskLeave(t) PROVE IInv'
<1>1. PlayerTypeOK' /\ DeviceTypeOK'
  BY SizesAssumption DEF IInv, TypeOK, PlayerTypeOK, DeviceTypeOK, TaskLeave,
         playerVars, streamVars, driverVars, cardVars
<1>2. StreamTypeOK'
  BY DEF IInv, TypeOK, StreamTypeOK, TaskLeave, streamVars
<1>3. TaskTypeOK'
  BY DEF IInv, TypeOK, TaskTypeOK, PcStates, TaskLeave, playerVars,
         streamVars, driverVars, cardVars
<1>4. Logic'
  BY SizesAssumption DEF IInv, TypeOK, PlayerTypeOK, TaskTypeOK,
         DeviceTypeOK, PcStates, Logic, Ownership, Starting, AliveIsTrue,
         Playing, FileOnMountedCard, StateIsTrue, LatestIsServed, TaskLeave,
         playerVars, streamVars, driverVars, cardVars
<1> QED BY <1>1, <1>2, <1>3, <1>4 DEF IInv, Logic, TypeOK

\* The audio task is deleted.
LEMMA TaskDiesStep == ASSUME NEW t \in Tasks, IInv, TaskDies(t) PROVE IInv'
<1>1. TypeOK'
  BY SizesAssumption DEF IInv, TypeOK, PlayerTypeOK, StreamTypeOK,
         TaskTypeOK, DeviceTypeOK, PcStates, TaskDies, playerVars,
         streamVars, driverVars, cardVars
<1>2. Logic'
  BY SizesAssumption DEF IInv, TypeOK, PlayerTypeOK, TaskTypeOK,
         DeviceTypeOK, PcStates, Logic, Ownership, Starting, AliveIsTrue,
         Playing, FileOnMountedCard, StateIsTrue, LatestIsServed, TaskDies,
         playerVars, streamVars, driverVars, cardVars
<1> QED BY <1>1, <1>2 DEF IInv, Logic

\* Every step preserves the invariant.
LEMMA NextIInv == IInv /\ [Next]_vars => IInv'
<1> SUFFICES ASSUME IInv, [Next]_vars PROVE IInv'
  OBVIOUS
<1>1. CASE StartStep
  BY <1>1, StartOpenStep, PrefillStep, StartI2SStep, StartTaskStep
     DEF StartStep
<1>2. CASE Poll
  BY <1>2, PollStoppingStep, StartPendingStep, PollErrorStep, PollRefillStep,
     PollDrainStep, PollDrainedStep DEF Poll
<1>3. CASE SdPoll
  BY <1>3, SdPollGoneStep, SdPollMountStep DEF SdPoll
<1>4. CASE User
  BY <1>4, TapStep, DeleteStep, StopButtonStep, ShowPageStep, MoveCardStep
     DEF User
<1>5. ASSUME NEW t \in Tasks, AudioTask(t) PROVE IInv'
  BY <1>5, TaskLoopStep, TaskWriteStep, TaskLeaveStep, TaskDiesStep
     DEF AudioTask
<1>6. CASE UNCHANGED vars
  BY <1>6 DEF IInv, TypeOK, PlayerTypeOK, StreamTypeOK, TaskTypeOK,
     DeviceTypeOK, Ownership, AliveIsTrue, Playing, FileOnMountedCard,
     StateIsTrue, LatestIsServed, vars, playerVars, streamVars, driverVars,
     cardVars
<1> QED BY <1>1, <1>2, <1>3, <1>4, <1>5, <1>6 DEF Next

\* The invariant holds in every reachable state.
THEOREM Invariance == Spec => []IInv
  BY InitIInv, NextIInv, PTL DEF Spec

\* Every variable of the player, of the driver and of the card keeps its type.
THEOREM TypeCorrect == Spec => []TypeOK
<1>1. IInv => TypeOK BY DEF IInv
<1> QED BY <1>1, Invariance, PTL

\* The ring is never freed and the I2S channel never deleted under an audio task
\* that may still use them, and two tasks never share them: player_teardown()
\* waits for s_task_alive, which is claimed before the task exists and dropped
\* after its last write.
THEOREM WritersAreSafe == Spec => []WriterIsSafe
<1>1. IInv => WriterIsSafe
  BY DEF IInv, TypeOK, TaskTypeOK, Ownership, AliveIsTrue, WriterIsSafe, Playing
<1> QED BY <1>1, Invariance, PTL

\* When the player is idle, after a stop, an end, an error or a start that failed
\* half way, neither the file nor the channel nor the supply nor the task is left.
THEOREM NothingStaysOpen == Spec => []NothingLeftOpen
<1>1. IInv => NothingLeftOpen
  BY DEF IInv, TypeOK, TaskTypeOK, Ownership, Starting, AliveIsTrue,
         NothingLeftOpen, Playing
<1> QED BY <1>1, Invariance, PTL

\* The SD page never unmounts the volume of a file the player has open.
THEOREM VolumeOutlivesFile == Spec => []FileOnMountedCard
<1>1. IInv => FileOnMountedCard BY DEF IInv
<1> QED BY <1>1, Invariance, PTL

\* The state and the error code shown to the user agree with what is open.
THEOREM StatusIsHonest == Spec => []StatusIsTrue
<1>1. IInv => StatusIsTrue
  BY SizesAssumption DEF IInv, Ownership, Starting, StateIsTrue,
         StatusIsTrue
<1> QED BY <1>1, Invariance, PTL

\* Only the latest request plays or waits to be played.
THEOREM LatestWins == Spec => []LatestRequestPlays
<1>1. IInv => LatestRequestPlays
  BY DEF IInv, LatestIsServed, LatestRequestPlays
<1> QED BY <1>1, Invariance, PTL
=============================================================================
