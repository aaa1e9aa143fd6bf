---------------------------- MODULE AudioPlayer ----------------------------
(***************************************************************************)
(* The life of a track: the WAV player's state machine                     *)
(* (src/main/app/audio_player.c), the I2S amplifier driver it brings up    *)
(* and down (src/main/drv/max98357a.c), the audio task it creates per      *)
(* track, and the callbacks of the user interface that play, stop, unmount *)
(* and delete under it (src/main/gui/ui_player.c, ui_sd.c, ui_files.c).    *)
(*                                                                         *)
(* All but the audio task runs on the LVGL task, where a callback is not   *)
(* interrupted by another: lv says how far the current one is.  What is    *)
(* streamed is counted in blocks; the sample path itself is the subject of *)
(* AudioStream.                                                            *)
(***************************************************************************)
EXTENDS Integers, FiniteSets

CONSTANTS
  Tracks,   \* WAV files, by name
  Tasks,    \* identities for the audio tasks
  Blocks,   \* blocks of PCM data in a track
  RingSize, \* blocks the ring can hold
  None      \* no track

ASSUME SizesAssumption ==
  /\ Blocks \in Nat \ {0} /\ RingSize \in Nat \ {0}
  /\ None \notin Tracks

VARIABLES
  lv,         \* where the LVGL task is: "idle" between two callbacks
  opening,    \* the path player_start() was called with
  phase,      \* s_phase
  state,      \* s_state
  lastError,  \* s_last_error: "ok", or an error
  name,       \* s_file: the track shown as current
  fp,         \* s_fp: the open file
  pending,    \* s_pending, s_pending_path
  ring,       \* s_ring # NULL
  left,       \* blocks of the open file not read yet
  queued,     \* blocks in the ring
  fifo,       \* s_ra # NULL
  eos,        \* s_eos
  drain,      \* s_drain_tick # 0
  stopReq,    \* s_stop_req
  alive,      \* s_task_alive
  pc,         \* where each audio task is
  i2s,        \* the I2S channel: "off", "on", or "stuck" half deleted
  amp,        \* the amplifier's supply
  card,       \* a card is in the slot
  mounted,    \* s_card # NULL
  disk,       \* the tracks on the card
  sdPage,     \* the SD page is the one on the screen
  wanted      \* history: what the user last asked for, None after a stop

playerVars == <<opening, phase, state, lastError, name, fp, pending>>
streamVars == <<ring, left, queued, fifo, eos, drain>>
driverVars == <<i2s, amp>>
cardVars   == <<card, mounted, disk, sdPage>>
vars == <<lv, playerVars, streamVars, stopReq, alive, pc, driverVars, cardVars,
          wanted>>

-----------------------------------------------------------------------------
Init ==
  /\ lv = "idle" /\ opening = None
  /\ phase = "idle" /\ state = "idle" /\ lastError = "ok"
  /\ name = None /\ fp = None /\ pending = None
  /\ ring = FALSE /\ left = 0 /\ queued = 0 /\ fifo = FALSE
  /\ eos = FALSE /\ drain = FALSE
  /\ stopReq = FALSE /\ alive = FALSE
  /\ pc = [t \in Tasks |-> "none"]
  /\ i2s = "off" /\ amp = FALSE
  /\ card \in BOOLEAN /\ mounted \in {FALSE, card}
  /\ disk = Tracks /\ sdPage = FALSE
  /\ wanted = None

-----------------------------------------------------------------------------
(* Refilling the ring *)

\* free_frames
Room == RingSize - queued

\* producer_refill(): n blocks move from the card to the ring, then the source
\* goes on, ends without an error being reported (end of the file, or a short
\* read), or fails with data still expected.  A failed FIFO drops the rest of
\* the file; a direct refill flags the end but would read on.
Refill(n, how) ==
  /\ n <= left /\ n <= Room
  /\ queued' = queued + n
  /\ \/ /\ how = "more"
        /\ left > 0 /\ queued = 0 => n > 0
        /\ left' = left - n
        /\ \/ left > n /\ eos' = eos
           \/ left = n /\ eos' \in {eos, TRUE}
        /\ left = 0 /\ queued = 0 => eos'
        /\ UNCHANGED <<state, lastError>>
     \/ /\ how \in {"ends", "fails"}
        /\ left > n
        /\ left' = IF fifo THEN 0 ELSE left - n
        /\ eos' = (eos \/ ~fifo)
        /\ IF how = "fails"
           THEN state' = "error" /\ lastError' = "error"
           ELSE UNCHANGED <<state, lastError>>

Refills == (0 .. RingSize) \X {"more", "ends", "fails"}

-----------------------------------------------------------------------------
(* player_start() *)

\* The common exit of a failed start; the mutant reports no error code.
StartFailsQuietly ==
  /\ lastError' = "ok" /\ state' = "error" /\ phase' = "idle"
  /\ lv' = "idle"

StartFails ==
  /\ lastError' = "error" /\ state' = "error" /\ phase' = "idle"
  /\ lv' = "idle"

\* fopen(), wav_parse() and the allocations, in this order; the ring stays
\* allocated when the semaphore cannot be created.
StartOpen ==
  /\ lv = "start"
  /\ \/ /\ StartFails
        /\ ring' \in {ring, TRUE}
        /\ fifo' \in IF ring' THEN {fifo, TRUE} ELSE {fifo}
        /\ UNCHANGED <<name, fp, left, queued, eos, drain, stopReq>>
     \/ /\ mounted /\ opening \in disk
        /\ fp' = opening /\ name' = opening
        /\ ring' = TRUE /\ fifo' \in {fifo, TRUE}
        /\ left' = Blocks /\ queued' = 0
        /\ eos' = FALSE /\ drain' = FALSE /\ stopReq' = FALSE
        /\ lastError' = "ok"
        /\ lv' = "prefill"
        /\ UNCHANGED <<phase, state>>
  /\ UNCHANGED <<opening, pending, alive, pc, driverVars, cardVars, wanted>>

\* ring_prefill(), with no I2S running yet.
Prefill ==
  /\ lv = "prefill"
  /\ \E r \in Refills : Refill(r[1], r[2])
  /\ lv' = "i2s"
  /\ UNCHANGED <<opening, phase, name, fp, pending, ring, fifo, drain, stopReq,
                 alive, pc, driverVars, cardVars, wanted>>

\* power_on() and max98357a_init(), which refuses a channel that is not off.
StartI2S ==
  /\ lv = "i2s"
  /\ \/ /\ i2s = "off"
        /\ i2s' = "on" /\ amp' = TRUE
        /\ lv' = "task"
        /\ UNCHANGED <<fp, phase, state, lastError>>
     \/ /\ StartFails
        /\ amp' = FALSE /\ fp' = None
        /\ UNCHANGED i2s
  /\ UNCHANGED <<opening, name, pending, streamVars, stopReq, alive, pc,
                 cardVars, wanted>>

\* Mutant: the start is abandoned, or the track torn down, with I2S running.
I2SLeft == UNCHANGED i2s

\* max98357a_deinit(): a channel that cannot be deleted stays marked started.
I2SDown == i2s' \in IF i2s = "on" THEN {"off", "stuck"} ELSE {i2s}

\* s_task_alive is claimed before the task exists.
StartTask ==
  /\ lv = "task"
  /\ \/ /\ \E t \in Tasks :
             pc[t] = "none" /\ pc' = [pc EXCEPT ![t] = "loop"]
        /\ alive' = TRUE
        /\ phase' = "playing" /\ state' = "playing"
        /\ lv' = "idle"
        /\ UNCHANGED <<fp, lastError, driverVars>>
     \/ /\ StartFails
        /\ I2SDown /\ amp' = FALSE
        /\ fp' = None
        /\ alive' = FALSE
        /\ UNCHANGED pc
  /\ UNCHANGED <<opening, name, pending, streamVars, stopReq, cardVars, wanted>>

-----------------------------------------------------------------------------
(* audio_player_poll() *)

\* request_stop(); the mutant does not tell the audio task.
RequestStopUntold ==
  IF phase = "playing"
  THEN phase' = "stopping" /\ UNCHANGED stopReq
  ELSE UNCHANGED <<stopReq, phase>>

RequestStop ==
  IF phase = "playing"
  THEN stopReq' = TRUE /\ phase' = "stopping"
  ELSE UNCHANGED <<stopReq, phase>>

\* What the teardown waits for; the mutant is content with having asked.
TaskWasTold == stopReq
TaskIsGone == ~alive

\* Stopping: once the audio task has let go, player_teardown(); the track that
\* was queued meanwhile is looked at next.
PollStopping ==
  /\ lv = "idle" /\ phase = "stopping" /\ TaskIsGone
  /\ I2SDown /\ amp' = FALSE
  /\ fp' = None /\ ring' = FALSE
  /\ stopReq' = FALSE /\ eos' = FALSE /\ drain' = FALSE
  /\ left' = 0 /\ queued' = 0
  /\ phase' = "idle"
  /\ state' = IF state = "playing" THEN "idle" ELSE state
  /\ lv' = "pending"
  /\ UNCHANGED <<opening, lastError, name, pending, fifo, alive, pc, cardVars,
                 wanted>>

\* start_pending(), after a teardown or from an idle poll.
StartPending ==
  /\ lv = "pending" \/ (lv = "idle" /\ phase = "idle")
  /\ IF pending = None
     THEN lv' = "idle" /\ UNCHANGED opening
     ELSE lv' = "start" /\ opening' = pending
  /\ pending' = None
  /\ UNCHANGED <<phase, state, lastError, name, fp, streamVars, stopReq, alive,
                 pc, driverVars, cardVars, wanted>>

\* Playing, and the audio task has reported an I2S error.
PollError ==
  /\ lv = "idle" /\ phase = "playing" /\ stopReq
  /\ lastError' = "error" /\ state' = "error"
  /\ RequestStop
  /\ UNCHANGED <<lv, opening, name, fp, pending, streamVars, alive, pc,
                 driverVars, cardVars, wanted>>

\* Playing: refill the ring, then test for the end of the track.
PollRefill ==
  /\ lv = "idle" /\ phase = "playing" /\ ~stopReq
  /\ \E r \in Refills : Refill(r[1], r[2])
  /\ lv' = "drain"
  /\ UNCHANGED <<opening, phase, name, fp, pending, ring, fifo, drain, stopReq,
                 alive, pc, driverVars, cardVars, wanted>>

PollDrain ==
  /\ lv = "drain"
  /\ drain' = (eos /\ queued = 0)
  /\ lv' = "idle"
  /\ UNCHANGED <<playerVars, ring, left, queued, fifo, eos, stopReq, alive, pc,
                 driverVars, cardVars, wanted>>

\* The same test when DRAIN_WAIT_MS are over.
PollDrained ==
  /\ lv = "drain"
  /\ eos /\ queued = 0 /\ drain
  /\ RequestStop
  /\ lv' = "idle"
  /\ UNCHANGED <<opening, state, lastError, name, fp, pending, streamVars,
                 alive, pc, driverVars, cardVars, wanted>>

Poll ==
  \/ PollStopping \/ StartPending \/ PollError \/ PollRefill \/ PollDrain
  \/ PollDrained

-----------------------------------------------------------------------------
(* Callbacks of the user interface *)

\* audio_player_is_active(); one mutant counts only the playing phase, the other
\* looks at the state shown to the user.
ActiveWhilePlaying == phase = "playing"
ActiveByState == state # "idle"
Active == phase # "idle" \/ pending # None

\* audio_player_stop(); the mutant keeps the queued track.
StopThisOne ==
  /\ UNCHANGED pending
  /\ RequestStop
  /\ wanted' = None

Stop ==
  /\ pending' = None
  /\ RequestStop
  /\ wanted' = None

\* audio_player_play(f)
Play(f) ==
  /\ IF phase # "idle"
     THEN /\ pending' = f
          /\ RequestStop
          /\ UNCHANGED <<lv, opening>>
     ELSE /\ lv' = "start" /\ opening' = f
          /\ UNCHANGED <<pending, stopReq, phase>>
  /\ wanted' = f

\* A tap on a row of the player page: the playing track is stopped.
Tap(f) ==
  /\ lv = "idle" /\ ~sdPage
  /\ IF state = "playing" /\ name = f
     THEN Stop /\ UNCHANGED <<lv, opening>>
     ELSE Play(f)
  /\ UNCHANGED <<state, lastError, name, fp, streamVars, alive, pc, driverVars,
                 cardVars>>

\* The stop button of the player page.
StopButton ==
  /\ lv = "idle" /\ ~sdPage
  /\ Stop
  /\ UNCHANGED <<lv, opening, state, lastError, name, fp, streamVars, alive, pc,
                 driverVars, cardVars>>

\* do_delete_selected() of the files page.
Delete(f) ==
  /\ lv = "idle" /\ ~sdPage
  /\ ~(state = "playing" /\ name = f)
  /\ mounted /\ card
  /\ disk' = disk \ {f}
  /\ UNCHANGED <<lv, playerVars, streamVars, stopReq, alive, pc, driverVars,
                 card, mounted, sdPage, wanted>>

ShowPage ==
  /\ lv = "idle"
  /\ sdPage' = ~sdPage
  /\ UNCHANGED <<lv, playerVars, streamVars, stopReq, alive, pc, driverVars,
                 card, mounted, disk, wanted>>

\* The 1 s timer of the SD page finds a mounted card that does not answer: it
\* unmounts, but never under an active player, which it stops instead.
SdPollGone ==
  /\ lv = "idle" /\ sdPage /\ mounted
  /\ IF Active
     THEN Stop /\ UNCHANGED mounted
     ELSE mounted' = FALSE /\ UNCHANGED <<pending, stopReq, phase, wanted>>
  /\ UNCHANGED <<lv, opening, state, lastError, name, fp, streamVars, alive, pc,
                 driverVars, card, disk, sdPage>>

\* The same timer finds a card and mounts it.
SdPollMount ==
  /\ lv = "idle" /\ sdPage /\ ~mounted
  /\ ~Active /\ card
  /\ mounted' \in BOOLEAN
  /\ UNCHANGED <<lv, playerVars, streamVars, stopReq, alive, pc, driverVars,
                 card, disk, sdPage, wanted>>

\* The card is pulled out or put in.
MoveCard ==
  /\ card' = ~card
  /\ UNCHANGED <<lv, playerVars, streamVars, stopReq, alive, pc, driverVars,
                 mounted, disk, sdPage, wanted>>

-----------------------------------------------------------------------------
(* Audio task *)

\* Top of the loop of audio_task(): leave on a stop request, take a chunk, or
\* wait for one.
TaskLoop(t) ==
  /\ pc[t] = "loop"
  /\ IF stopReq
     THEN pc' = [pc EXCEPT ![t] = "leave"] /\ UNCHANGED queued
     ELSE \/ /\ \E n \in 1 .. queued : queued' = queued - n
             /\ pc' = [pc EXCEPT ![t] = "write"]
          \/ queued = 0 /\ UNCHANGED <<pc, queued>>
  /\ UNCHANGED <<lv, playerVars, ring, left, fifo, eos, drain, stopReq, alive,
                 driverVars, cardVars, wanted>>

\* max98357a_write(): a failure makes the task ask for the stop and exit.
TaskWrite(t) ==
  /\ pc[t] = "write"
  /\ \/ i2s = "on" /\ pc' = [pc EXCEPT ![t] = "loop"] /\ UNCHANGED stopReq
     \/ pc' = [pc EXCEPT ![t] = "leave"] /\ stopReq' = TRUE
  /\ UNCHANGED <<lv, playerVars, streamVars, alive, driverVars, cardVars,
                 wanted>>

\* s_task_alive = false, the last thing the player is told.
TaskLeave(t) ==
  /\ pc[t] = "leave"
  /\ alive' = FALSE
  /\ pc' = [pc EXCEPT ![t] = "dying"]
  /\ UNCHANGED <<lv, playerVars, streamVars, stopReq, driverVars, cardVars,
                 wanted>>

\* vTaskDelete(), possibly after the next track has started.
TaskDies(t) ==
  /\ pc[t] = "dying"
  /\ pc' = [pc EXCEPT ![t] = "none"]
  /\ UNCHANGED <<lv, playerVars, streamVars, stopReq, alive, driverVars,
                 cardVars, wanted>>

AudioTask(t) == TaskLoop(t) \/ TaskWrite(t) \/ TaskLeave(t) \/ TaskDies(t)

-----------------------------------------------------------------------------
StartStep == StartOpen \/ Prefill \/ StartI2S \/ StartTask

User ==
  \/ \E f \in Tracks : Tap(f) \/ Delete(f)
  \/ StopButton \/ ShowPage \/ MoveCard

SdPoll == SdPollGone \/ SdPollMount

Next ==
  \/ StartStep
  \/ Poll
  \/ SdPoll
  \/ User
  \/ \E t \in Tasks : AudioTask(t)

Spec == Init /\ [][Next]_vars

\* A callback runs to its end, both LVGL timers come round again and again
\* whatever else is due, a chunk is written or fails, the tick count goes on.
Fairness ==
  /\ WF_vars(StartStep)
  /\ SF_vars(Poll)
  /\ SF_vars(PollDrained)
  /\ SF_vars(~card /\ SdPollGone)
  /\ \A t \in Tasks : WF_vars(AudioTask(t))

FairSpec == Spec /\ Fairness
-----------------------------------------------------------------------------
(* Properties *)

PcStates == {"none", "loop", "write", "leave", "dying"}

PlayerTypeOK ==
  /\ lv \in {"idle", "start", "prefill", "i2s", "task", "pending", "drain"}
  /\ opening \in Tracks \cup {None} /\ name \in Tracks \cup {None}
  /\ fp \in Tracks \cup {None} /\ pending \in Tracks \cup {None}
  /\ phase \in {"idle", "playing", "stopping"}
  /\ state \in {"idle", "playing", "error"}
  /\ lastError \in {"ok", "error"}
  /\ wanted \in Tracks \cup {None}

StreamTypeOK ==
  /\ ring \in BOOLEAN /\ fifo \in BOOLEAN
  /\ left \in 0 .. Blocks /\ queued \in 0 .. RingSize
  /\ eos \in BOOLEAN /\ drain \in BOOLEAN

TaskTypeOK ==
  /\ stopReq \in BOOLEAN /\ alive \in BOOLEAN
  /\ pc \in [Tasks -> PcStates]

DeviceTypeOK ==
  /\ i2s \in {"off", "on", "stuck"} /\ amp \in BOOLEAN
  /\ card \in BOOLEAN /\ mounted \in BOOLEAN /\ sdPage \in BOOLEAN
  /\ disk \subseteq Tracks

\* Every variable stays in its type.
TypeOK == PlayerTypeOK /\ StreamTypeOK /\ TaskTypeOK /\ DeviceTypeOK

Playing(t) == pc[t] \in {"loop", "write", "leave"}

\* A task that may still touch the ring or the I2S channel finds them there: the
\* channel is never deleted, nor the ring freed, under a writer, and two tasks
\* never share them.
WriterIsSafe ==
  /\ \A t \in Tasks : Playing(t) => ring /\ i2s = "on" /\ amp
  /\ \A t, u \in Tasks : Playing(t) /\ Playing(u) => t = u

\* audio_player.h: on failure, and after a stop, "nothing is left open": neither
\* the file nor the I2S channel nor the supply, and no task is left running.
NothingLeftOpen ==
  phase = "idle" /\ lv = "idle" =>
    /\ fp = None /\ i2s # "on" /\ ~amp
    /\ \A t \in Tasks : ~Playing(t)

\* ui_sd.c never unmounts the volume under the player: a file that is open is
\* open on a mounted card, through every stop, error and removal.
FileOnMountedCard == fp # None => mounted

\* What the player reports is true: PLAYING means that the file is open and I2S
\* is running, and an error state comes with an error code.
StatusIsTrue ==
  /\ state = "playing" => fp # None /\ i2s = "on" /\ name = fp
  /\ lv = "idle" /\ state = "error" => lastError # "ok"

\* What plays is what was asked for last: a newer request replaces a queued one,
\* a stop drops it, and no track comes back by itself.
LatestRequestPlays ==
  /\ phase = "playing" => fp = wanted
  /\ pending # None => pending = wanted

\* A stop takes effect, however it races with the end of the track, an I2S error
\* or a failing card, unless the user asks for a track meanwhile.
StopTakesEffect ==
  (wanted = None) ~> (wanted # None \/ (phase = "idle" /\ fp = None))

\* A queued track is started, or replaced, or dropped by a stop.
PendingIsServed ==
  \A f \in Tracks :
    (pending = f) ~> (pending # f)

\* Both kinds of request take effect, whatever the two tasks are doing.
RequestsTakeEffect == StopTakesEffect /\ PendingIsServed

\* A card that is pulled out while the SD page is shown is unmounted, although
\* the player has a file open on it.
RemovedCardUnmounts ==
  (~card /\ mounted /\ sdPage) ~> (card \/ ~mounted \/ ~sdPage)

\* ui_files.c: "Never unlink a file the player still has open".
OpenFileExists == fp # None => fp \in disk
-----------------------------------------------------------------------------
(* Inductive invariant: what the player owns in each of its phases         *)

Starting == {"prefill", "i2s", "task"}

\* What is up and what is down, between callbacks and inside of one.
Ownership ==
  /\ lv \in {"start", "pending"} \cup Starting => phase = "idle"
  /\ lv = "drain" => phase # "idle"
  /\ phase = "idle" /\ lv \notin Starting =>
       fp = None /\ i2s # "on" /\ ~amp
  /\ lv \in {"prefill", "i2s"} => i2s # "on" /\ ~amp
  /\ lv = "task" \/ phase # "idle" => i2s = "on" /\ amp
  /\ lv \in Starting \/ phase # "idle" =>
       fp \in Tracks /\ name = fp /\ ring

\* s_task_alive speaks for the one task that may use the ring and the channel.
AliveIsTrue ==
  /\ alive => phase # "idle"
  /\ \A t \in Tasks : Playing(t) => alive
  /\ \A t, u \in Tasks : Playing(t) /\ Playing(u) => t = u

\* The states shown to the user, in the middle of a start too.
StateIsTrue ==
  /\ state = "playing" => phase # "idle"
  /\ state = "error" /\ lv \notin Starting => lastError # "ok"

\* The request that is being served is the latest.
LatestIsServed ==
  /\ pending # None =>
       pending = wanted /\ (phase = "stopping" \/ lv = "pending")
  /\ lv = "start" => opening \in Tracks /\ opening = wanted
  /\ lv \in Starting \/ phase = "playing" => fp = wanted

IInv ==
  /\ TypeOK
  /\ Ownership
  /\ AliveIsTrue
  /\ FileOnMountedCard
  /\ StateIsTrue
  /\ LatestIsServed
=============================================================================
