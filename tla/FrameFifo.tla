----------------------------- MODULE FrameFifo -----------------------------
(***************************************************************************)
(* What the sample path of the player promises: a bounded first-in         *)
(* first-out queue of the frames of one track, a chunk of which may be on  *)
(* its way to the I2S driver, and the frames the driver has accepted.      *)
(* Frames enter in file order, each exactly once; nothing is said about    *)
(* slots, indices or the tasks that move the frames.                       *)
(***************************************************************************)
EXTENDS Integers, Sequences

CONSTANTS
  Capacity,    \* frames the queue can hold
  ChunkLimit,  \* frames one I2S write can carry
  FrameAt(_)   \* the frames of the track, numbered from 0

VARIABLES queue, staged, out

fifoVars == <<queue, staged, out>>

Given == Len(out) + Len(staged) + Len(queue)

Init == queue = <<>> /\ staged = <<>> /\ out = <<>>

\* The next n frames of the track enter the queue.
Push(n) ==
  /\ Len(queue) + n <= Capacity
  /\ queue' = queue \o [i \in 1 .. n |-> FrameAt(Given + i - 1)]
  /\ UNCHANGED <<staged, out>>

\* The oldest n frames leave the queue as one chunk.
Pop(n) ==
  /\ staged = <<>>
  /\ n <= Len(queue)
  /\ staged' = SubSeq(queue, 1, n)
  /\ queue' = SubSeq(queue, n + 1, Len(queue))
  /\ UNCHANGED out

\* The driver accepts the chunk.
Deliver ==
  /\ staged # <<>>
  /\ out' = out \o staged
  /\ staged' = <<>>
  /\ UNCHANGED queue

\* The track is over: whatever is left of it is dropped.
Reset == queue' = <<>> /\ staged' = <<>> /\ out' = <<>>

Next ==
  \/ \E n \in 1 .. Capacity : Push(n)
  \/ \E n \in 1 .. ChunkLimit : Pop(n)
  \/ Deliver
  \/ Reset

Spec == Init /\ [][Next]_fifoVars
=============================================================================
