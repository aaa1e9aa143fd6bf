---------------------------- MODULE AudioStream ----------------------------
(***************************************************************************)
(* The sample path of the WAV player (src/main/app/audio_player.c), from   *)
(* the SD card to the I2S driver.                                          *)
(*                                                                         *)
(*   LVGL task  : SD card -> read-ahead FIFO (s_ra) -> scratch -> ring     *)
(*   audio task : ring -> staging buffer (s_stage) -> I2S                  *)
(*                                                                         *)
(* The two tasks share the ring and the indices s_head and s_tail; only    *)
(* the indices are protected by the spinlock.  Slots are therefore written *)
(* and copied one frame per step, so that every interleaving of the two    *)
(* copies is explored.  A byte of the file is represented by its offset in *)
(* the PCM data, a frame by the offsets of its bytes: a lost, repeated,    *)
(* torn or misaligned frame is visible in the value.                       *)
(***************************************************************************)
EXTENDS Integers, Sequences

CONSTANTS
  RingFrames,   \* s_ring_frames: capacity of the ring
  MinFree,      \* MIN_FREE_TO_READ
  ReadFrames,   \* READ_FRAMES: capacity of the scratch buffer
  StageFrames,  \* STAGE_FRAMES: capacity of the staging buffer
  Budget,       \* PRODUCE_BUDGET_FRAMES: frames one poll may pull
  FrameBytes,   \* bytes_per_frame: 2 (mono) or 4 (stereo) in the code
  RaBytes,      \* AUDIO_RA_BYTES: capacity of the read-ahead FIFO
  RaChunk,      \* AUDIO_RA_CHUNK: most bytes of one SD read
  RaLow,        \* AUDIO_RA_LOW_WATER
  Files,        \* tracks: PCM bytes on the card, size declared in the header
  Disturbed,    \* TRUE: SD reads and I2S writes may fail, the user may stop
  TornReads     \* TRUE: a failing direct read may end in the middle of a frame

ASSUME SizesAssumption ==
  /\ RingFrames \in Nat \ {0}
  /\ MinFree \in 1 .. RingFrames
  /\ ReadFrames \in Nat \ {0}
  /\ StageFrames \in Nat \ {0}
  /\ Budget \in Nat \ {0}
  /\ FrameBytes \in Nat \ {0}
  /\ RaBytes \in Nat \ {0}
  /\ RaChunk \in 1 .. RaBytes
  /\ RaLow \in 1 .. RaBytes
  /\ Disturbed \in BOOLEAN /\ TornReads \in BOOLEAN

\* The FIFO holds a whole number of frames, and so does an SD read.
ASSUME AlignmentAssumption ==
  /\ RaBytes % FrameBytes = 0
  /\ RaChunk % FrameBytes = 0

ASSUME FilesAssumption ==
  Files \subseteq [bytes : Nat, declared : Nat]

VARIABLES
  file,        \* the track being streamed
  fpos,        \* bytes read from the file so far
  remaining,   \* s_data_remaining
  fifo,        \* s_ra # NULL: the read-ahead FIFO could be allocated
  ra,          \* s_ra: the bytes in the read-ahead FIFO
  raHead, raTail, raEof,
  lv,          \* where the LVGL task is in the player code
  budget,      \* frames the current refill may still pull
  batch,       \* s_scratch: frames to push
  written,     \* frames of batch already converted into the ring
  last,        \* the batch was shorter than wanted: the refill ends with it
  ring,        \* s_ring
  head, tail,  \* s_head, s_tail: monotonic frame counters
  eos,         \* s_eos
  drain,       \* s_drain_tick # 0
  stopReq,     \* s_stop_req
  stopping,    \* s_phase = PH_STOPPING
  ready,       \* s_ring_ready
  task,        \* where the audio task is
  used,        \* local variable of the audio task
  stage,       \* s_stage
  out,         \* every frame the I2S driver has accepted for this track
  cut          \* history: stopped by the user or by an SD or I2S failure

sourceVars == <<file, fpos, remaining, fifo, ra, raHead, raTail, raEof>>
refillVars == <<budget, batch, written, last>>
stopVars   == <<stopReq, stopping, ready>>
taskVars   == <<task, used, stage, out>>
vars == <<sourceVars, lv, refillVars, ring, head, tail, eos, drain,
          stopVars, taskVars, cut>>

-----------------------------------------------------------------------------
\* DATA_UNKNOWN: a header size of zero means "until the end of the file".
Unknown == -1

Least(a, b) == IF a < b THEN a ELSE b

\* The frame number n of a track, as the offsets of its bytes.
FrameAt(n) == [k \in 0 .. FrameBytes - 1 |-> n * FrameBytes + k]

\* What an uninitialised slot of the ring holds.
Junk == [k \in 0 .. FrameBytes - 1 |-> -1]

\* The frames a player of the whole track delivers.
TrackFrames(f) ==
  (IF f.declared = 0 THEN f.bytes ELSE Least(f.bytes, f.declared))
    \div FrameBytes

\* Mutant: off by one in the room left in the ring.
RingFreeOff == RingFrames - (head - tail) + 1

RaAvail  == raHead - raTail
RingUsed == head - tail
RingFree == RingFrames - RingUsed

\* Bytes fread() can return for a request of `want` bytes.
ReadResults(want) ==
  LET most == Least(want, file.bytes - fpos)
  IN  IF Disturbed THEN 0 .. most ELSE {most}

\* The same for a direct read: stdio gives up at a multiple of its buffer size
\* in the file, a frame boundary unless the PCM data starts at an odd place.
DirectResults(want) ==
  {got \in ReadResults(want) :
     got = Least(want, file.bytes - fpos) \/ got % FrameBytes = 0 \/ TornReads}

\* A read that returns less than the file holds is a card failure.
ReadFails(want, got) == got < Least(want, file.bytes - fpos)

-----------------------------------------------------------------------------
Init ==
  /\ file \in Files
  /\ fpos = 0
  /\ remaining = 0
  /\ fifo = FALSE
  /\ ra = [i \in 0 .. RaBytes - 1 |-> -1]
  /\ raHead = 0 /\ raTail = 0 /\ raEof = FALSE
  /\ lv = "off"
  /\ budget = 0 /\ batch = <<>> /\ written = 0 /\ last = FALSE
  /\ ring = [i \in 0 .. RingFrames - 1 |-> Junk]
  /\ head = 0 /\ tail = 0
  /\ eos = FALSE /\ drain = FALSE
  /\ stopReq = FALSE /\ stopping = FALSE /\ ready = FALSE
  /\ task = "none" /\ used = 0 /\ stage = <<>>
  /\ out = <<>> /\ cut = FALSE

-----------------------------------------------------------------------------
(* LVGL task *)

\* player_start() up to the prefill: reset the streaming state, then refill
\* with the whole ring as budget.  The ring has just been allocated, and what
\* the FIFO holds of an earlier track counts as junk.
Start(f) ==
  /\ lv = "off"
  /\ file' = f
  /\ fpos' = 0
  /\ remaining' = IF f.declared = 0 THEN Unknown ELSE f.declared
  /\ fifo' \in BOOLEAN
  /\ ra' = [i \in 0 .. RaBytes - 1 |-> -1]
  /\ raHead' = 0 /\ raTail' = 0 /\ raEof' = FALSE
  /\ ring' = [i \in 0 .. RingFrames - 1 |-> Junk]
  /\ head' = 0 /\ tail' = 0
  /\ eos' = FALSE /\ drain' = FALSE
  /\ stopReq' = FALSE
  /\ lv' = "fill" /\ budget' = RingFrames
  /\ task' = "none" /\ out' = <<>> /\ cut' = FALSE
  /\ UNCHANGED <<batch, written, last, stopping, ready, used, stage>>

\* ra_fill() finds the declared data exhausted.
FillAtEnd ==
  /\ remaining = 0
  /\ raEof' = TRUE
  /\ UNCHANGED <<file, fpos, remaining, fifo, ra, raHead, raTail, cut>>

\* Mutant: a short read counts in full.
FillReadUnchecked ==
  LET room == Least(RaBytes - RaAvail, RaChunk)
  IN  /\ room > 0
      /\ \E got \in ReadResults(room) :
           /\ ra' = [i \in 0 .. RaBytes - 1 |->
                      LET offset == (i - raHead) % RaBytes
                      IN  IF offset < got THEN fpos + offset ELSE ra[i]]
           /\ fpos' = fpos + got
      /\ raHead' = raHead + room
      /\ UNCHANGED <<file, remaining, fifo, raTail, raEof, cut>>

\* ra_fill() reads from the card, in at most two spans around the wrap.
FillRead ==
  LET room == Least(RaBytes - RaAvail, RaChunk)
      want == IF remaining = Unknown THEN room ELSE Least(room, remaining)
  IN  /\ want > 0
      /\ \E got \in ReadResults(want) :
           /\ ra' = [i \in 0 .. RaBytes - 1 |->
                      LET offset == (i - raHead) % RaBytes
                      IN  IF offset < got THEN fpos + offset ELSE ra[i]]
           /\ raHead' = raHead + got
           /\ fpos' = fpos + got
           /\ remaining' = IF remaining = Unknown THEN Unknown
                                                  ELSE remaining - got
           /\ raEof' = (got < want)
           /\ cut' = (cut \/ ReadFails(want, got))
           /\ UNCHANGED <<file, fifo, raTail>>

\* First step of a refill: in FIFO mode one SD read when the FIFO runs low.
Fill ==
  /\ lv = "fill"
  /\ lv' = "refill"
  /\ IF fifo /\ RaAvail < RaLow /\ ~raEof
     THEN FillAtEnd \/ FillRead
     ELSE UNCHANGED <<sourceVars, cut>>
  /\ UNCHANGED <<refillVars, ring, head, tail, eos, drain, stopVars, taskVars>>

\* The refill loop ends: budget spent, or the ring is full enough.
RefillDone ==
  /\ lv = "refill"
  /\ budget = 0 \/ RingFree < MinFree
  /\ lv' = "drain"
  /\ UNCHANGED <<sourceVars, refillVars, ring, head, tail, eos, drain,
                 stopVars, taskVars, cut>>

\* One round of producer_refill_fifo(): ra_take() into the scratch buffer.
TakeFifo ==
  LET want   == Least(Least(RingFree, ReadFrames), budget)
      got    == Least(want * FrameBytes, RaAvail)
      frames == got \div FrameBytes
  IN  /\ lv = "refill" /\ fifo
      /\ budget > 0 /\ RingFree >= MinFree
      /\ raTail' = raTail + got
      /\ batch' = [i \in 1 .. frames |->
                    [k \in 0 .. FrameBytes - 1 |->
                      ra[(raTail + (i - 1) * FrameBytes + k) % RaBytes]]]
      /\ written' = 0
      /\ last' = (frames < want)
      /\ eos' = (eos \/ (frames = 0 /\ raEof))
      /\ lv' = IF frames = 0 THEN "drain" ELSE "push"
      /\ UNCHANGED <<file, fpos, remaining, fifo, ra, raHead, raEof, budget,
                     ring, head, tail, drain, stopVars, taskVars, cut>>

\* Frames that the declared data still holds; the mutant does not clamp.
FramesLeftUnclamped(room) == room
FramesLeft(room) ==
  IF remaining = Unknown THEN room ELSE Least(room, remaining \div FrameBytes)

\* One round of producer_refill_direct(): read the card into the scratch.
TakeDirect ==
  LET want == FramesLeft(Least(RingFree, ReadFrames))
  IN  /\ lv = "refill" /\ ~fifo
      /\ budget > 0 /\ RingFree >= MinFree
      /\ \E got \in DirectResults(want * FrameBytes) :
           LET frames == got \div FrameBytes
           IN  /\ fpos' = fpos + got
               /\ remaining' = IF remaining = Unknown THEN Unknown
                               ELSE remaining - frames * FrameBytes
               /\ batch' = [i \in 1 .. frames |->
                             [k \in 0 .. FrameBytes - 1 |->
                               fpos + (i - 1) * FrameBytes + k]]
               /\ written' = 0
               /\ last' = (frames < want)
               /\ eos' = (eos \/ frames = 0)
               /\ lv' = IF frames = 0 THEN "drain" ELSE "push"
               /\ cut' = (cut \/ ReadFails(want * FrameBytes, got))
      /\ UNCHANGED <<file, fifo, ra, raHead, raTail, raEof, budget, ring,
                     head, tail, drain, stopVars, taskVars>>

\* ring_push_convert(): one frame of the scratch into its slot, lock not held.
PushFrame ==
  /\ lv = "push" /\ written < Len(batch)
  /\ ring' = [ring EXCEPT ![(head + written) % RingFrames] =
                            batch[written + 1]]
  /\ written' = written + 1
  /\ UNCHANGED <<sourceVars, lv, budget, batch, last, head, tail, eos, drain,
                 stopVars, taskVars, cut>>

\* Mutant: the frames are published before they have been converted.
PublishEarly ==
  /\ lv = "push"
  /\ head' = head + Len(batch)
  /\ ready' = TRUE
  /\ budget' = IF Len(batch) >= budget THEN 0 ELSE budget - Len(batch)
  /\ eos' = (eos \/ (last /\ (fifo => raEof)))
  /\ lv' = IF last THEN "drain" ELSE "refill"
  /\ batch' = <<>> /\ written' = 0
  /\ UNCHANGED <<sourceVars, last, ring, tail, drain, stopReq, stopping,
                 taskVars, cut>>

\* The end of ring_push_convert() and of the round: publish the frames, wake
\* the audio task, and leave the loop after a short batch.
Publish ==
  /\ lv = "push" /\ written = Len(batch)
  /\ head' = head + Len(batch)
  /\ ready' = TRUE
  /\ budget' = IF Len(batch) >= budget THEN 0 ELSE budget - Len(batch)
  /\ eos' = (eos \/ (last /\ (fifo => raEof)))
  /\ lv' = IF last THEN "drain" ELSE "refill"
  /\ batch' = <<>> /\ written' = 0
  /\ UNCHANGED <<sourceVars, last, ring, tail, drain, stopReq, stopping,
                 taskVars, cut>>

\* player_start() after the prefill: the audio task is created.
StartTask ==
  /\ lv = "drain" /\ task = "none"
  /\ task' = "check" /\ used' = 0 /\ stage' = <<>>
  /\ lv' = "idle"
  /\ UNCHANGED <<sourceVars, refillVars, ring, head, tail, eos, drain,
                 stopVars, out, cut>>

\* audio_player_poll() while playing: refill, unless the audio task reported
\* an I2S error, which request_stop() turns into the stopping phase.
Poll ==
  /\ lv = "idle" /\ ~stopping
  /\ IF stopReq
     THEN /\ stopping' = TRUE /\ ready' = TRUE
          /\ UNCHANGED <<lv, budget>>
     ELSE /\ lv' = "fill" /\ budget' = Budget
          /\ UNCHANGED <<stopping, ready>>
  /\ UNCHANGED <<sourceVars, batch, written, last, ring, head, tail, eos,
                 drain, stopReq, taskVars, cut>>

RequestStop ==
  /\ stopReq' = TRUE /\ ready' = TRUE /\ stopping' = TRUE

\* The end-of-file test that ends a poll: once the stream has ended and the
\* ring is empty, wait (some polls) before the track is stopped.
DrainCheck ==
  /\ lv = "drain" /\ task # "none"
  /\ drain' = (eos /\ RingUsed = 0)
  /\ lv' = "idle"
  /\ UNCHANGED <<sourceVars, refillVars, ring, head, tail, eos, stopVars,
                 taskVars, cut>>

\* Mutant: the end of the stream alone stops the track.
DrainElapsedUndrained ==
  /\ lv = "drain" /\ task # "none"
  /\ eos
  /\ RequestStop
  /\ lv' = "idle"
  /\ UNCHANGED <<sourceVars, refillVars, ring, head, tail, eos, drain,
                 taskVars, cut>>

\* The same test when DRAIN_WAIT_MS have passed since it first succeeded.
DrainElapsed ==
  /\ lv = "drain" /\ task # "none"
  /\ eos /\ RingUsed = 0 /\ drain
  /\ RequestStop
  /\ lv' = "idle"
  /\ UNCHANGED <<sourceVars, refillVars, ring, head, tail, eos, drain,
                 taskVars, cut>>

\* audio_player_stop(), from a callback of the user interface.
UserStop ==
  /\ Disturbed
  /\ lv = "idle" /\ ~stopping
  /\ RequestStop
  /\ cut' = TRUE
  /\ UNCHANGED <<sourceVars, lv, refillVars, ring, head, tail, eos, drain,
                 taskVars>>

\* audio_player_poll() while stopping: player_teardown() once the task is gone.
Teardown ==
  /\ lv = "idle" /\ stopping /\ task = "exit"
  /\ lv' = "off"
  /\ ready' = FALSE /\ stopReq' = FALSE /\ stopping' = FALSE
  /\ eos' = FALSE /\ drain' = FALSE
  /\ remaining' = 0
  /\ head' = 0 /\ tail' = 0
  /\ raHead' = 0 /\ raTail' = 0 /\ raEof' = FALSE
  /\ task' = "none" /\ used' = 0 /\ stage' = <<>> /\ out' = <<>>
  /\ cut' = FALSE
  /\ UNCHANGED <<file, fpos, fifo, ra, refillVars, ring>>

-----------------------------------------------------------------------------
(* Audio task *)

\* Mutant: the loop does not look at s_stop_req.
CheckDeaf ==
  /\ task = "check"
  /\ used' = Least(RingUsed, StageFrames)
  /\ stage' = <<>>
  /\ task' = IF RingUsed = 0 THEN "wait" ELSE "gather"
  /\ UNCHANGED <<sourceVars, lv, refillVars, ring, head, tail, eos, drain,
                 stopVars, out, cut>>

\* Top of the loop: leave on a stop request, else see what is queued.
Check ==
  /\ task = "check"
  /\ IF stopReq
     THEN task' = "exit" /\ UNCHANGED <<used, stage>>
     ELSE /\ used' = Least(RingUsed, StageFrames)
          /\ stage' = <<>>
          /\ task' = IF RingUsed = 0 THEN "wait" ELSE "gather"
  /\ UNCHANGED <<sourceVars, lv, refillVars, ring, head, tail, eos, drain,
                 stopVars, out, cut>>

\* xSemaphoreTake(s_ring_ready, 20 ms): woken by a push, or timed out.
Wait ==
  /\ task = "wait"
  /\ task' = "check" /\ ready' = FALSE
  /\ UNCHANGED <<sourceVars, lv, refillVars, ring, head, tail, eos, drain,
                 stopReq, stopping, used, stage, out, cut>>

\* Mutant: the copy starts at the first slot instead of s_tail.
GatherFromZero ==
  /\ task = "gather" /\ Len(stage) < used
  /\ stage' = Append(stage, ring[Len(stage) % RingFrames])
  /\ UNCHANGED <<sourceVars, lv, refillVars, ring, head, tail, eos, drain,
                 stopVars, task, used, out, cut>>

\* memcpy() from the ring into the staging buffer, one frame per step.
Gather ==
  /\ task = "gather" /\ Len(stage) < used
  /\ stage' = Append(stage, ring[(tail + Len(stage)) % RingFrames])
  /\ UNCHANGED <<sourceVars, lv, refillVars, ring, head, tail, eos, drain,
                 stopVars, task, used, out, cut>>

\* The gathered slots are given back before the I2S write.
Release ==
  /\ task = "gather" /\ Len(stage) = used
  /\ tail' = tail + used
  /\ task' = "write"
  /\ UNCHANGED <<sourceVars, lv, refillVars, ring, head, eos, drain,
                 stopVars, used, stage, out, cut>>

\* max98357a_write() returns once the driver has taken the whole chunk.
WriteDone ==
  /\ task = "write"
  /\ out' = out \o stage
  /\ task' = "check"
  /\ stage' = <<>> /\ used' = 0
  /\ UNCHANGED <<sourceVars, lv, refillVars, ring, head, tail, eos, drain,
                 stopVars, cut>>

\* max98357a_write() fails: the task asks for the stop itself and exits.
WriteFails ==
  /\ Disturbed
  /\ task = "write"
  /\ stopReq' = TRUE
  /\ task' = "exit"
  /\ cut' = TRUE
  /\ UNCHANGED <<sourceVars, lv, refillVars, ring, head, tail, eos, drain,
                 stopping, ready, used, stage, out>>

-----------------------------------------------------------------------------
Producer ==
  \/ Fill \/ RefillDone \/ TakeFifo \/ TakeDirect \/ PushFrame \/ Publish
  \/ StartTask \/ Poll \/ DrainCheck \/ DrainElapsed \/ Teardown

Consumer ==
  \/ Check \/ Wait \/ Gather \/ Release \/ WriteDone \/ WriteFails

Next ==
  \/ \E f \in Files : Start(f)
  \/ Producer
  \/ UserStop
  \/ Consumer

Spec == Init /\ [][Next]_vars

\* The LVGL timer polls for ever, the audio task is scheduled for ever, and
\* the tick count passes DRAIN_WAIT_MS.  Nobody has to start or stop a track.
Fairness ==
  /\ WF_vars(Producer)
  /\ WF_vars(Consumer)
  /\ SF_vars(DrainElapsed)

FairSpec == Spec /\ Fairness
-----------------------------------------------------------------------------
(* Properties *)

Frame == [0 .. FrameBytes - 1 -> Int]

SourceTypeOK ==
  /\ file \in [bytes : Nat, declared : Nat]
  /\ fpos \in Nat
  /\ remaining \in Nat \cup {Unknown}
  /\ fifo \in BOOLEAN
  /\ ra \in [0 .. RaBytes - 1 -> Int]
  /\ raHead \in Nat /\ raTail \in Nat /\ raEof \in BOOLEAN

RefillTypeOK ==
  /\ lv \in {"off", "fill", "refill", "push", "drain", "idle"}
  /\ budget \in Nat
  /\ batch \in Seq(Frame)
  /\ written \in Nat /\ last \in BOOLEAN

RingTypeOK ==
  /\ ring \in [0 .. RingFrames - 1 -> Frame]
  /\ head \in Nat /\ tail \in Nat
  /\ eos \in BOOLEAN /\ drain \in BOOLEAN

StopTypeOK ==
  /\ stopReq \in BOOLEAN /\ stopping \in BOOLEAN
  /\ ready \in BOOLEAN /\ cut \in BOOLEAN

TaskTypeOK ==
  /\ task \in {"none", "check", "wait", "gather", "write", "exit"}
  /\ used \in Nat
  /\ stage \in Seq(Frame)
  /\ out \in Seq(Frame)

\* Every variable stays in its type.
TypeOK ==
  SourceTypeOK /\ RefillTypeOK /\ RingTypeOK /\ StopTypeOK /\ TaskTypeOK

\* The ring never overflows, counting the batch being converted into it, and
\* every slot between s_tail and the slot being written holds the frame of the
\* file it stands for: a push never lands in a span the audio task is still
\* copying, and an overrun, a torn frame or a frame cut across two reads of
\* the FIFO never gets published.
RingHoldsStream ==
  /\ tail <= head
  /\ RingUsed + Len(batch) <= RingFrames
  /\ \A n \in tail .. head + written - 1 :
       ring[n % RingFrames] = FrameAt(n)

\* The read-ahead FIFO does not overflow and holds, between its two indices, the
\* bytes of the file at their places, across the wrap of an SD read in two spans
\* and after short reads.
FifoHoldsFile ==
  fifo /\ lv # "off" =>
    /\ raTail <= raHead /\ RaAvail <= RaBytes
    /\ \A p \in raTail .. raHead - 1 : ra[p % RaBytes] = p

\* What the I2S driver has accepted is the beginning of the track: no frame is
\* lost, repeated, reordered or torn between the card and the driver, whatever
\* the interleaving of the two tasks and whatever reads fail.
DeliveredInOrder ==
  \A n \in 1 .. Len(out) : out[n] = FrameAt(n - 1)

\* A track that ends by itself has handed every whole frame to the driver when
\* the audio task exits: neither the drain test of audio_player_poll() nor the
\* end-of-stream flag stops the track with frames left in the FIFO, in the ring
\* or in the staging buffer.
EndsWhole ==
  stopping /\ task = "exit" /\ ~cut => Len(out) = TrackFrames(file)

\* The unread frames of the ring, oldest first.
Queued == [n \in 1 .. RingUsed |-> ring[(tail + n - 1) % RingFrames]]

Abstract ==
  INSTANCE FrameFifo
    WITH Capacity <- RingFrames, ChunkLimit <- StageFrames, queue <- Queued,
         staged <- IF task \in {"write", "exit"} THEN stage ELSE <<>>

\* The ring, its indices and the staging buffer implement the bounded queue.
ImplementsFifo == Abstract!Spec

\* Every track that is started is torn down: it ends, fails or is stopped, and
\* the stop is noticed even by an audio task that waits on an empty ring.
TrackEnds == (lv # "off") ~> (lv = "off")

-----------------------------------------------------------------------------
(* Inductive invariant: what relates the stages of the path to each other  *)

\* Nothing more can enter the FIFO.
FifoClosed == raEof \/ remaining = 0

\* A batch exists only while it is pushed.
BatchInPush ==
  /\ written <= Len(batch)
  /\ lv # "push" => batch = <<>> /\ written = 0
  /\ lv = "off" => task = "none"

\* The batch holds the frames that follow s_head.
BatchHoldsStream ==
  \A i \in 1 .. Len(batch) : batch[i] = FrameAt(head + i - 1)

\* The file, or the FIFO, is read at a frame boundary: the one after the batch.
\* Only a closed source can end inside a frame.
ReadAligned ==
  lv # "off" =>
    /\ fpos <= file.bytes
    /\ fifo => /\ fpos = raHead
               /\ FifoClosed \/ raHead % FrameBytes = 0
               /\ \/ raTail = (head + Len(batch)) * FrameBytes
                  \/ raTail = raHead /\ FifoClosed
    /\ ~fifo => \/ fpos = (head + Len(batch)) * FrameBytes
                \/ fpos = file.bytes

\* The staging buffer holds the frames that follow what was delivered.
StageHoldsStream ==
  /\ task = "gather" => Len(stage) <= used /\ used <= RingUsed
  /\ task \in {"none", "check", "wait", "gather"} => Len(out) = tail
  /\ task = "write" => Len(out) + Len(stage) = tail /\ Len(stage) = used
  /\ task \in {"gather", "write"} =>
       \A i \in 1 .. Len(stage) : stage[i] = FrameAt(Len(out) + i - 1)

IInv ==
  /\ TypeOK
  /\ BatchInPush
  /\ RingHoldsStream
  /\ BatchHoldsStream
  /\ FifoHoldsFile
  /\ ReadAligned
  /\ StageHoldsStream
  /\ DeliveredInOrder

-----------------------------------------------------------------------------
(* What is left of the source, for the end of a track                      *)

\* The bytes of a track that are PCM data.
Limit(f) == IF f.declared = 0 THEN f.bytes ELSE Least(f.bytes, f.declared)

\* The refill found no more to take.
AtEnd == eos \/ (lv = "push" /\ last)

\* The file ends, or less than a frame of the declared data is left.
DirectDone == fpos = file.bytes \/ (remaining # Unknown /\ remaining < FrameBytes)

\* The source, the FIFO and s_head count the same bytes, and nothing but an
\* exhausted source (or a failing card) makes the refill report the end.
SourceInv ==
  lv # "off" =>
    /\ file.declared # 0 => remaining \in Nat
    /\ fifo =>
         /\ raTail \div FrameBytes = head + Len(batch)
         /\ remaining = IF file.declared = 0 THEN Unknown ELSE file.declared - fpos
         /\ raEof /\ ~cut => fpos = Limit(file)
         /\ AtEnd => raTail = raHead
         /\ eos => raEof
    /\ ~fifo =>
         /\ fpos \div FrameBytes = head + Len(batch)
         /\ remaining = IF file.declared = 0 THEN Unknown
                        ELSE file.declared - (head + Len(batch)) * FrameBytes
         /\ AtEnd /\ ~cut => DirectDone

\* A track is stopped by the user, by a failure, or with the ring empty at the
\* end of the stream; the stopping phase refills nothing.
StopInv ==
  /\ stopping => stopReq /\ lv = "idle"
  /\ stopReq /\ ~cut /\ lv # "off" => stopping /\ eos /\ head = tail

\* The audio task exits only on request, and only a failed write leaves frames
\* in the staging buffer.
TaskInv ==
  /\ task \in {"check", "wait"} => stage = <<>>
  /\ task \in {"gather", "write"} => used \in 1 .. StageFrames
  /\ task = "exit" => stopReq /\ Len(out) + Len(stage) = tail
  /\ task = "exit" /\ ~cut => stage = <<>>

EndInv == IInv /\ SourceInv /\ StopInv /\ TaskInv
=============================================================================
