# Small_Screen: TLA+ models and proofs

Small_Screen is the firmware of an ESP32-S3 desk display (ESP-IDF, FreeRTOS,
LVGL): an SD card with a file browser, gallery and WAV player, an HTTP server
for uploads and downloads, WiFi and MQTT with their configuration pages, BLE and
MQTT feeds of a PC's performance counters, sensors, time and power management.
This directory holds TLA+ specifications of its concurrent parts, the TLC
configurations that check them on small instances, and proofs, checked by
TLAPS, of what matters most for instances of every size.

    tlc -workers 2 -config AudioStream.cfg MCAudioStream
    tlapm AudioStream_proofs.tla

## 1. The system

The firmware has no tests; its documents are the README of the repository
(section 4: architecture) and the comments of the headers, and these are what
the properties are taken from. What runs concurrently:

| task | created in | what it does |
|---|---|---|
| `lvgl_task` | `main.c:316` | all of LVGL: page switches, callbacks of buttons and timers; **all** the SD I/O, the player's state machine and the upload server's commands, driven by a 10 ms timer (`ui_sd.c:203`); a 1 s timer probes the card (`ui_sd.c:142`) |
| `audio_play` | per track, `audio_player.c:939` | moves frames from the ring to I2S |
| httpd task | `upload_server.c:611` | HTTP handlers; posts commands to the LVGL task |
| `key_task` | `main.c:418` | debounces keys every 10 ms, requests page switches |
| `shtc3_task`, `imu_task`, `heartbeat` | `main.c` | sensors; telemetry over MQTT |
| esp_event task | SDK | WiFi and IP events (`wifi_manager.c:293`) |
| esp-mqtt task | SDK | MQTT events (`mqtt_manager.c:177`) |
| NimBLE host task | SDK | BLE events and writes (`ble_perf.c:206`) |
| esp_timer task | SDK | MQTT's poll of the WiFi state (`mqtt_manager.c:289`) |

### Components

**WAV player, sample path** (`audio_player.c`). State: the file position, the
bytes of declared data left, an optional read-ahead FIFO in PSRAM (`s_ra`), a
scratch buffer, the ring with its monotonic indices `s_head`, `s_tail`, the
staging buffer, the flags `s_eos`, `s_drain_tick`, `s_stop_req`. The LVGL task
reads and converts, the audio task copies out and writes to I2S; the slots are
shared without a lock, only the indices are protected. Hard: the two copies
interleave; FIFO, ring and reads all wrap or stop short at different places, in
the middle of a frame too; the end of a track is a race between `s_eos`, an empty
ring, the chunk being written and the drain wait. Correct when I2S gets exactly
the frames of the track, in order, and every track ends.

**WAV player, life of a track** (`audio_player.c`, `max98357a.c`, callbacks in
`ui_player.c`, `ui_sd.c`, `ui_files.c`). State: phase, shown state and error,
open file, a pending track, the audio task and its `s_task_alive`, the I2S
channel, the amplifier's supply, the mounted card. Operations: play, stop, poll,
start (eleven ways to fail), teardown; taps, the delete button, the SD page's
timer. Hard: a track is torn down by one task while another may still write; a
start fails half way; a stop, an error and the end of the track race; a newer
request arrives during a teardown; the card goes away. Correct when nothing is
used after it was closed, nothing stays open, the latest request wins, and stops
and queued tracks are served.

**HTTP upload and download server** (`upload_server.c`). State: a mailbox of one
struct, a queue of one command, a binary semaphore; the open file; running, stop
and phase flags. Hard: both waits of a command time out after 5 s; what timed
out may be executed later; `upload_server_stop()` on the LVGL task blocks the
task that executes commands. Correct when an upload is saved whole or not at all,
a saved file is never touched again, and neither side hangs.

**WiFi manager and pages** (`wifi_manager.c`, `ui_nearby_wifi.c`,
`ui_saved_wifi.c`, `ui_wifi.c`). State: connection state, candidate network,
list of saved networks (five), sweep index, retry count, pending scan, a flag
that swallows the event of a deliberate disconnect. Callbacks of the user
interface (LVGL task) race with WiFi and IP events (event task); little is
locked. Correct when a network is saved only after it gave an address, the
sweep over saved networks makes progress, a scan that breaks the link restores
it, and nothing connects with the radio off.

**MQTT manager and pages** (`mqtt_manager.c`, `ui_mqtt*.c`). State: client handle,
state, configuration, telemetry interval, command history, subscription slots.
Four tasks use the client handle: the WiFi poll makes the client, the user
interface replaces, stops and starts it, the sensor task publishes, the esp-mqtt
task delivers. Hard: none of it is locked, and every test of the handle is apart
from its use. Correct when there is one client with the configuration shown and
all its subscriptions, the status is true, the history lists the last commands,
the interval survives a restart, and a client comes up whenever WiFi does.

**PC performance over BLE and MQTT** (`ble_perf.c`, `pc_perf_src.c`,
`pc_perf_mqtt.c`, `ui_pc_perf*.c`). State: a reassembly buffer, connection and
advertising flags, the last sample, the chosen source. The page's timer on the
LVGL task starts and stops advertising and ends the link; the NimBLE host task
handles the radio's events and advertises again. Correct when a sample is one
frame of the link it is shown for, the flags follow the radio, the PC can find
the page while it is open and the radio is quiet when it is not.

**Tasks and page switching** (`main.c`, `key.c`, `ui_home.c`, the open and close
callbacks). State: the switch request handed to `lvgl_task` by `key_task` and by
callbacks, the index of the KEY2 cycle, the debouncer's counters, the deep-sleep
presses and their window. Hard: request and index are written by two tasks on two
cores in two steps, and read and cleared in two. Correct when the page asked for
last is shown, the cycle goes on from the page on the screen, every press is
served, and the device sleeps only when it is meant to.

**System information** (`ui_sysinfo.c`). State: a snapshot of every task's
run-time counter. Correct when the shares are those of the time since the last
refresh, across wraps of the counters and tasks that come and go, and the lists
are complete and in order.

**Display port and LCD driver** (`lv_port_disp.c`, `lcd_driver.c`): a flush waits
for its completion for one second; the completion of an abandoned flush may be
taken for the next one's.

**SD card driver, SD page, file browser** (`sd_card.c`, `sd_file.c`,
`ui_sd.c`, `ui_files.c`): mounted card, card presence, page state; the page's
timer mounts and unmounts under the users of the volume.

**Sensors** (`jy901s.c`, `shtc3.c`, `ui_sensor.c`, `ui_accel.c`, `ui_gyro.c`).
State: the bytes of a frame so far, the time of the last angle frame, what the
tasks handed to the pages. Correct when the parser finds the frames again after
lost bytes and the pages show no value of a sensor that has fallen silent.

**Time, power, LED**, **gallery**: straight-line SDK calls, labels and layout.

The hazards of each, with their lines, are in `PROJECT.json`.

## 2. The modules

| module | what it is |
|---|---|
| `FrameFifo` | abstract: a bounded queue of the frames of one track, a chunk in flight, the frames delivered |
| `AudioStream` | the sample path, frame by frame, with both tasks |
| `AudioStream_proofs` | proofs for every size of the buffers |
| `AudioPlayer` | the player's state machine, the I2S driver, the audio tasks, the user and the card |
| `AudioPlayer_proofs` | proofs for every set of tracks and tasks |
| `UploadServer` | mailbox, handlers, commands, start and stop |
| `UploadServer_proofs` | proofs for every set of names and sizes and number of requests, with and without a stalled LVGL task |
| `WifiManager` | connection state machine, saved networks, NVS, and the WiFi driver |
| `WifiManager_proofs` | proofs for every set of networks and length of the list |
| `MqttManager` | client life cycle with four tasks, configuration, interval, history, subscriptions |
| `MqttManager_proofs` | proofs for every number of clients, configurations, slots and intervals |
| `PcPerf` | the BLE peripheral with its two tasks, frames across notifications and links, the choice of the source |
| `PcPerf_proofs` | proofs for every frame size and any number of links, bytes, visits and faults |
| `Pages` | buttons, page switching between two tasks, the index of the cycle, deep sleep |
| `Pages_proofs` | proofs for every tree of pages, number of scans and window |
| `SysInfo` | shares of the CPU from wrapping counters, and the lists of the System pages |
| `Sensors` | the IMU's frame parser, and what the pages show of the sensors |
| `Sensors_proofs` | proofs for every frame length, stream, timeout and range of the clock |
| `MCAudioStream`, `MCUploadServer`, `MCWifiManager`, `MCMqttManager`, `MCPages`, `MCSysInfo` | the files, names, lists, trees and symmetries of the checked instances |

`AudioStream` and `AudioPlayer` are two views of the same source. The first looks
inside the buffers and knows one track at a time and one way to stop; the second
counts *blocks* in the ring and knows everything around the buffers. They meet
in three places: `Refill` of `AudioPlayer` stands for `Fill` to `Publish` of
`AudioStream`, `TaskLoop`/`TaskWrite` for `Check` to `WriteFails`, and
`StartOpen` for `Start`.

### AudioStream

A byte of the file is its offset in the PCM data and a frame the function of its
bytes' offsets: a frame that is lost, repeated, torn or shifted has the wrong
value. Sample values, volume scaling and the copy of a mono sample to both
channels are abstracted away: they map one frame to one frame.

| action | code |
|---|---|
| `Start` | `player_start()` up to the prefill, on a ring just allocated; the FIFO may or may not be there |
| `Fill` = `FillAtEnd` or `FillRead` | `ra_fill()`, called by `producer_refill_fifo()` below the low-water mark; one span or two around the wrap, any short result |
| `TakeFifo` | a round of `producer_refill_fifo()`: `ra_take()` into the scratch |
| `TakeDirect` | a round of `producer_refill_direct()`: the clamp to the declared size, `fread()`, and the end-of-stream test |
| `PushFrame`, `Publish` | `ring_push_convert()`: one frame per step without the lock, then `s_head` with it, the wake-up, and the end of the round |
| `RefillDone`, `DrainCheck`, `DrainElapsed` | the exits of the loop, and the end-of-track test of `audio_player_poll()` |
| `StartTask`, `Poll`, `UserStop`, `Teardown` | the audio task is created, polls while playing, a stop, `player_teardown()` |
| `Check`, `Wait`, `Gather`, `Release`, `WriteDone`, `WriteFails` | the loop of `audio_task()`: the copy out of the ring is one frame per step, `s_tail` moves after it, before the I2S write |

A direct `fread()` that fails returns what stdio had gathered. stdio gives up at
a multiple of its buffer, which is a frame boundary as long as the PCM data
starts at an even place; `TornReads` says whether it may end anywhere.

`s_head` and `s_tail` are 32-bit counters in the code and naturals in the model.
All uses are differences and remainders by the ring size (a power of two), which
wrap harmlessly, and both are reset per track: 2^32 frames last a day of
playback at 48 kHz.

### AudioPlayer

All but the audio tasks runs on the LVGL task, where a callback is not
interrupted by another: `lv` says where inside a callback it is, so that audio
tasks, the user's hand on the card and I2S can act in between. `User`, `SdPoll`
and a new poll start only from `lv = "idle"`. `StartOpen`, `Prefill`, `StartI2S`,
`StartTask` are `player_start()` with its failing exits; `PollStopping`,
`StartPending`, `PollError`, `PollRefill`, `PollDrain`, `PollDrained` are the
branches of `audio_player_poll()`; `TaskLoop`, `TaskWrite`, `TaskLeave`,
`TaskDies` the audio task, which lives on after it has cleared `s_task_alive`;
`Tap`, `StopButton`, `Delete`, `ShowPage`, `SdPollGone`, `SdPollMount`,
`MoveCard` the user interface and the user. A probe of the card that fails
although the card is there is an `SdPollGone` as well. `max98357a_deinit()` may
fail and leave the channel `"stuck"`, after which every start fails: this is
what the code does.

`Refill` is the producer seen from outside: it moves blocks, then goes on, or
ends the stream silently, or reports a failure. One read moves at least a block
when it neither ends nor fails and the ring is empty: that is the `MIN_FREE_TO_READ`
rule, and without it the model could refill nothing for ever.

`wanted` is a history variable: the user's last request.

### UploadServer

`PollTake` and `PollExec` are `upload_server_poll()`; the eight commands
(`OpenWrite` ... `List`) are the `do_*()` functions; `Request`, `Post`, `Acked`,
`Timeout`, `ReceiveLoop`, `Receive`, `SendLoop` with `Returned` are the handlers
around `send_cmd()`; `Start`, `StopBegins`, `StopEnds` are the button's callback,
with `httpd_stop()` between the last two. A file is the list of chunks
`<<request, index>>` it received, and `done` once `FINISH` closed it. Requests
rejected before their first command change nothing and are left out; a client
that goes away while a page is sent only makes the handler leave. `late` is a
history variable: some command has timed out. `Timeout` is possible only when
the LVGL task does not poll for 5 s: while it stops the server, or, under
`Stalls`, in a callback that takes that long.

### WifiManager

`StaStart`, `Dropped` ... `GiveUp`, `ScanDone`, `GotIp` are the branches of
`event_handler()`; `HandlerConnects`, `HandlerStores`, `Remember`, `Reanchor` what
is left of a branch after it has waited for the driver or for NVS. The calls of
the pages are `RadioOn`, `RadioOff`, `ConnectBegins` (new or saved), `Forget`,
`Disconnect`, `Scan`, and each goes on step by step (`CallStep`) with the rest of
the function: `lv` says where it is. `Choose` to `ConnectNet` are
`wifi_manager_connect_new()` and `wifi_manager_connect_saved()`, which differ in
where the network comes from (`Chosen`) and in whether it is to be saved. `Driver` and
`DriverConnect`, `DriverConfig`, `DriverDisconnect` are the WiFi driver as the
manager's comments and checks describe it: no connect while it is not idle, no
configuration while it is connecting, an event only when there was something to drop.
`Reboot` takes away everything but `nvs` and `last`.

The two tasks meet without a lock. The event task of the SDK has priority 20 and
runs on core 0, to which `main.c` pins the LVGL task with priority 5: the handler
cannot be interrupted by a call except where it blocks, and an event waits for no
call (`Prompt`). A call can be interrupted anywhere; it is split at each call of
the driver and where it acts on a state it has looked at before.

`crossed` is a history variable: a call ran while a handler waited in its middle,
or a handler ran between the look and the act of a connecting call. It says exactly
which interleavings the manager does not survive; the finding `WifiManagerSave` is
such a crossing. `overtaken`, `tried`, `worked`, `gaveUp` and `unsaved` are histories too.

### MqttManager

Every test of shared state and its use are steps of their own. `StartTest`,
`StartInit`, `StartAssign`, `StartRun` are `mqtt_start()`, on the esp_timer task
(`WifiPoll`) or on the LVGL task; `SetCfg`, `Destroy`, `Clear`, `CheckWifi` are
`mqtt_manager_set_cfg()` with `mqtt_teardown()`; `Disconnect`, `Stopped`,
`Connect` the buttons of the status page; `SaveInterval`, `CommandInterval` with
their stores `mqtt_manager_set_interval()` on two tasks; `HistoryRead`,
`HistoryCopy` the history page's timer; `TelemetryTest`, `TelemetryPublish` the
sensor task; `Online`, `SubscribeAll`, `Break`, `Offline`, `Command`, `Answer`
the client's own task. A client is the number of the `esp_mqtt_client_init()`
that made it and keeps the configuration it was made with. `Reboot` is the
remote command: NVS is what is left.

`excused` records what the code does not guard against: the two tasks in
`mqtt_start()` at once (`overlap`; both find no client and both make one), a
configuration that could not be stored (`unsaved`: it is shown but the old client
goes on), a new configuration in a gap of WiFi shorter than the poll (`unseen`:
the client is gone, the poll sees no edge and starts none until the user presses
connect), two tasks storing an interval at once or a failed store (`interval`),
no memory for a client (`failed`). Each property names the ones it depends on.

### PcPerf

A task's call is a list of steps (`todo`), so that the two tasks interleave
between any two of them. `Plan` is what `pc_perf_timer_cb()` does on a tick;
`StartWanted` to `StopRadio` are `pc_perf_advertise_start()` and `_stop()`,
`AdvFields`, `AdvStart`, `AdvFlag` `pc_perf_advertise()` on either task,
`EndTest`, `Terminate`, `Forget` `pc_perf_disconnect()`; `OnSync`, `OnConnect`,
`OnConnectFailed`, `OnDisconnect`, `OnAdvComplete`, `Readvertise` the host's
callbacks; `Write` the GATT write with `frame_feed()`. A byte the PC sends is its
link and its position there, so a frame glued together from two is visible.
`excused` again records what is unguarded: two tasks in the advertising calls or
the end of one run handled after the next has begun (`race`: `s_advertising` may
then stay set with the radio off), a refused call (`fault`), a link that ends
inside a frame or a write longer than one (`cut`), the flags of a link cleared
while it is still up (`ghost`), NVS that fails (`unsaved`).

### Pages

`KeyScan` is a scan of both buttons with the choice `key_task` makes from the
edges; `KeyRequest` its second write. `ReadRequest` and `TakeRequest` are the two
halves of the switch in `lvgl_task`; `TapEntry`, `TapOpen`, `TapClose` the
callbacks, of which those that set the index first are finished by
`CallbackRequest`. `TapSleep`, `SleepTimeout`, `ClockTimer` are the callbacks of
the home page. A screen is its main page and sub-page. `last`, `lost`, `crossed`,
`presses` and `gap` are histories: what was asked for last; that it was wiped
between the read and the clear; that the tasks were between their two writes at
once or a tap replaced a pending request of KEY2.

### SysInfo

`CountTasks` and `Collect` are the two calls of a refresh, between which tasks may
come and go. `Delta`, `DeltaTotal` are the unsigned differences and their 32-bit
sum, modulo `W`; `SelectionSort` with `CpuRows` and `StackRows` are the two sorts
of the code, on whatever order the kernel lists the tasks in. `since` is the time
a task really ran. `Doubtful` says what counters cannot tell: more ticks in the
window than a counter holds (two cores fill 32 bits of microseconds in about 36
minutes, so the first refresh after a longer stay elsewhere may be wrong), a
handle taken over by a new task, a list that came back empty.

### Sensors

`Feed` is the parser's step on a byte, `Apply` `jy901s_parse_frame()`. The line
(`Deliver`, `Disturb`, `NextFrame`, `Unplug`) sends frames whose data may contain
the header byte; bytes are lost or changed. `ImuTask`, `Shtc3Task` and the page
timers run once per tick in any order; the clock is modulo `W`. `age` is the true
age of the last frame: once it reaches `W` the counter has wrapped and a silent
IMU looks alive again, since `s_online` is never cleared; the property says so.

## 3. What is checked

| run | states | what it shows |
|---|---|---|
| `AudioStream` | 46 k | type, ring, FIFO and delivery invariants; a track that ends by itself has delivered every whole frame; the path implements `FrameFifo`; every track ends |
| `AudioPlayer` | 107 k | no use after close, nothing left open, no unmount under an open file, an honest status, latest request wins; stops and queued tracks take effect, a removed card is unmounted |
| `AudioPlayerUnlink` | violation | the file browser deletes the file the player has open |
| `UploadServer` | 430 k | until a command times out the mailbox serializes and uploads are saved whole or removed; saved files stay in any case; stop and handler return |
| `WifiManager` | 521 k | the saved list is sound and NVS current; unless call and handler cross, state and link settle on what was chosen, and attempts end: connected, given up or superseded |
| `WifiManagerSweep` | violation | after a network was forgotten the sweep gives up too early |
| `WifiManagerSave` | violation | a network is saved that never gave an address |
| `MqttManager` | 751 k | one client, with the configuration shown and every topic; a true status, a current history, an interval that survives a restart; a client once WiFi is up |
| `PcPerf` | 464 k | samples are whole frames of their link; the flags follow the radio; the page can be found while it is open on BLE, and the radio is quiet otherwise |
| `Pages` | 151 k | the page asked for last is shown, the cycle stays in step, sleep takes three presses in a row, every press and request is served |
| `SysInfo` | 1.9 M | shares and load of every refresh, and the two lists |
| `Sensors` | 5.0 M | the parser recovers; no page shows a value of a silent sensor |

Each violation contradicts a sentence of the repository, quoted in
`PROJECT.json`; in all three the code is short of what its comment promises:

* *AudioPlayerUnlink.* `do_delete_selected()` refuses to delete the file while
  the state is `PLAYING`; after an error the state is `ERROR` at once, the file is
  closed only after the audio task has gone.
* *WifiManagerSweep.* `wifi_manager_forget()` sets `s_candidate_idx` to 0 with one
  network tried, wherever the network in use stands in the list; the next failure
  goes to its neighbours from there, may come to the one that has just failed, and
  counts it as tried.
* *WifiManagerSave.* The user enters a network while another is connecting. GOT_IP
  of that other one compares `s_ssid` with `s_pending_ssid`; both are the new name
  already.

Other behaviours of the code that its comments do not lead one to expect are not
runs of their own: the passing properties exclude them by name, and dropping the
exclusion makes TLC show them.

* A direct `fread()` that fails inside a frame shifts all later ones (`TornReads`).
* A stop of the upload server in the middle of a WRITE lets the WRITE and the
  ABORT after it time out: the partial file stays, and the ack of the late WRITE
  answers the first command of the next session (`late`).
* A link that drops and is handled between the look and the act of a connecting call
  leaves the WiFi state CONNECTING with no event to come (`crossed`); a switch made
  while a scan runs and another attempt is under way is not applied (`overtaken`).
* `main.c:529` says that the MQTT client starts automatically once WiFi is up; not
  so after a change of configuration in a short gap (`unseen`).
* A request for a page made between the read and the clear of `s_switch_req` is lost
  (`lost`), and the cycle may go out of step when a button and a tap cross
  (`crossed`).
* After two tasks met in the advertising calls `s_advertising` may stay set with the
  radio off, and the page then shows "advertising" for as long as it is open
  (`race`).
* After a long stay away the first refresh of a System page may show shares that do
  not add up (`Doubtful`).

**Bounds.** `AudioStream`: a frame of two bytes, so that halves exist; a ring of
4 with read, stage and poll sizes of 3, 3 and 4, which do not divide it; a FIFO
of 8 bytes filled by 4, so that a read wraps; tracks of 7 to 15 bytes go around
ring and FIFO more than once, with a header that declares less, more or nothing
and data that ends in half a frame. A longer track repeats these positions; the
proofs remove the bound. `AudioPlayer`: two tracks (playing and requested; a third
would replace the second), two audio tasks (one dying while the next starts;
a third cannot be created before the first is gone, which the proof shows to be
irrelevant), tracks of two blocks through a ring of one. `UploadServer`: three
requests, because a command of one upload can be executed in the next and a
third can then suffer from it; one name, which makes every upload collide; sizes
of none and two chunks. `MaxRequests` bounds `Request` and nothing else.
`WifiManager`: three networks for a list of two, so that saving one drops another;
one retry, which tells the first failure from the last; two calls or reboots
(`MaxCalls`), the least that lets a call meet what another has left behind, with
any number of failures, drops and scans between them. The invariants have also
been checked with three calls (9.3 million states), too many for the liveness
properties. The sweep needs a list of three to skip one.
`MqttManager`: two clients, so that one replaces another; one call of the user
(a connect is free), one drop, three commands through a history of two, so that
the ring wraps; a requested interval out of range. The run follows behaviours up
to the moment two tasks meet in `mqtt_start()` (`NoOverlap`), after which only
`IntervalKept` and `HandleIsLive` still speak. `PcPerf`: frames of two bytes, so
that a write cuts one; two links, two visits, one failing call. `Pages`: three
main pages, so that the next differs from the one before, one sub-page of each
kind; two scans for a press; a window of one tick. `SysInfo`: two cores and two
other tasks, counters of four values and at most two ticks between refreshes,
which wraps a counter and, with two cores, fills the sum; an array shorter than
the number of tasks. `Sensors`: frames of four bytes over four byte values, the
header among the types; two faults; a clock of six values with a timeout of two.
The proofs remove the bounds of the properties they are about (section 4).

**Deadlock** is checked in every run but those of `WifiManager`: with the radio
off, or disconnected and nothing to retry, that system rests until the next call,
and the calls are bounded.

**Fairness.** The LVGL task's timers and the tasks of FreeRTOS run again and
again (`WF` on the LVGL task's producer side and on each audio task), a blocked
wait times out (`WF` of `Handler`, which includes `Timeout`), and the ticks pass
`DRAIN_WAIT_MS` (`SF` of the elapsed drain test, since the test is polled and the
unelapsed outcome is another disjunct of the same poll). In `AudioPlayer` and
`UploadServer` the polls are strongly fair: a callback of the user's may be running
at any moment, but the timers are served between callbacks. In `WifiManager` the driver
ends an attempt and a scan (the SDK's own timeouts), the event task handles its events and
a call runs to its end. In `MqttManager` the poll fires, the tasks go on with what they
are in, and a started client connects while WiFi is up, as esp-mqtt's own reconnect
does. In `PcPerf` and `Pages` the two tasks run. No user action, no
card movement, no lost link, no failure, no connection of the PC and no request is fair:
the system may be left alone.

**Sensitivity.** For each property `PROJECT.json` lists a mutant: a definition
replaced by a plausible bug (`RingFreeOff`, `PublishEarly`, `TaskIsGone` that only
asks, `LinkGoneOnly` that keeps the sample, ...) under which the run fails.
The mutated forms stand next to the originals, in comments marked *Mutant*.

## 4. What is proved

Everything below holds for every value of the constants that satisfies the named
assumptions.

**AudioStream_proofs**, under `SizesAssumption` (positive sizes, reads and marks
within the buffers), `AlignmentAssumption` (the FIFO and an SD read hold whole
frames; so they do in the code: 8 KiB multiples, frames of 2 or 4 bytes),
`FilesAssumption`, and `~TornReads` (section 2 says where that holds):
`TypeCorrect`, `RingIsSafe` (`RingHoldsStream`), `FifoIsSafe` (`FifoHoldsFile`),
`Delivery` (`DeliveredInOrder`), `TrackEndsWhole` (`EndsWhole`), `Refinement`
(`ImplementsFifo`).

`DeliveredInOrder` is not inductive: it speaks of the output, and what the audio
task is about to write was read from slots that were converted from a batch that
was taken out of the FIFO. `IInv` has a conjunct for each station and one for
each joint: the batch holds the frames that follow `s_head` (`BatchHoldsStream`);
the source stands at the frame after the batch unless it is exhausted
(`ReadAligned`, where the alignment assumption enters: only a closed source may
end inside a frame); the staging buffer holds the frames that follow the output,
and its slots are given back only when it is full (`StageHoldsStream`). The ring
stays intact because the batch fits into the free part (`RingUsed + Len(batch) <=
RingFrames`), so the slot written differs modulo the size from every slot in use:
the lemmas on `%` and `\div` at the head of the module say so.

`TrackEndsWhole` adds to `IInv` an account of the bytes (`EndInv`): the source, the
FIFO and `s_head` count the same bytes, and only a source that is exhausted or a
card that failed reports an end (`SourceInv`). Unless it was cut short, a track stops
when the end is reported and the ring is empty (`StopInv`), and the audio task leaves
because it was asked to, with nothing staged (`TaskInv`): all of the track is out.

`Refinement` maps `AudioStream` to `FrameFifo` step by step: `Publish` is a push of the
frames between the old and the new `s_head`, `Release` takes a chunk out of the
queue, `WriteDone` delivers it, `Start` and `Teardown` reset, and every other step,
each frame converted or copied included, is a stutter. The queue is the run of frames
from `s_tail` to `s_head`, and `IInv` says that these are what the ring holds; `RunConcat`
and `RunCut` say how runs are joined and cut.

**AudioPlayer_proofs**, under `SizesAssumption` alone: `TypeCorrect`,
`WritersAreSafe` (`WriterIsSafe`), `NothingStaysOpen` (`NothingLeftOpen`),
`VolumeOutlivesFile` (`FileOnMountedCard`), `StatusIsHonest` (`StatusIsTrue`),
`LatestWins` (`LatestRequestPlays`). `IInv` says what the player owns at each
point of a callback (`Ownership`), that `s_task_alive` speaks for the one task that
may use the channel (`AliveIsTrue`), and which request is being served
(`LatestIsServed`): a teardown waits for `~alive`, hence for every writer.

**WifiManager_proofs**, under `BoundsAssumption` (a list of at least one, what NVS
holds at the first boot is a sound list): `NvsCurrent` (`NvsIsCurrent`), which is
inductive as it stands: both tasks change the list, but each has the store ahead of
it, and a store writes the list as it is then, not as it was when it changed.
`SavedListIsSound` (`SavedListSound`), from `ListInv`, which adds that only a network
(never "none") is about to be saved; its lemmas say what adding a network
(`WithNetType`) and forgetting one (`ForgottenType`) do to a list without
repetitions. That the row of a call stays valid needs that lists grow or keep
their length in every step of the event task, and only calls shorten them.
`TypeCorrect` (`TypeOK`) needs no more.

`StatusIsTrue` (`StatusSettles`) and `LinkIsTheChosen` (`LinkIsChosen`) are proved
under `Prompt`, which section 2 derives from priorities and cores. They speak of a
manager at rest; in between, the state shown and the driver differ by what is on
its way, and the invariant says by what. Unless a call has crossed a handler:

- `QueueInv`: an event of each kind waits at most once, GOT_IP never behind a
  DISCONNECTED that ends its link, STA_START alone;
- `StateInv`: the state shown against the driver, for each event that may wait and
  each point of a handler or a call;
- `RadioInv`: the switch against the driver under it, and the calls that need it on;
- `CallInv`: what a connecting call has looked at is still so when it acts on it;
- `ManualInv`: the mark of a disconnect of the manager's own outlives its event only
  where it can do no harm;
- `CfgInv`: the driver has a network whenever it may have to connect.

`Prompt` enters in one place: a call goes on only when the queue is empty and no handler
runs, so the lemmas on calls (`CallSettled`, `CallFollowed`) start from an empty queue.
`Followed` carries the second theorem: a link is to the network the driver has been
given, which is the active one, or the event is on its way after which the handler
will give it.
The whole was checked by TLC, on the instance of `WifiManager` with two networks and
three calls, before it was proved.

**UploadServer_proofs**, under `BoundsAssumption` (a natural number of requests,
sizes that are naturals), whatever `Stalls` says. `SavedStays` (`SavedFilesStay`) holds in every
behaviour, late commands included. Two facts carry it. No name is given twice: files
are numbered below the number of requests, less those still to be opened
(`NamesInv`), so `unique_name()` finds a free one, and a smallest one since the
naturals are well founded. And `do_abort()` spares what is saved (`AbortInv`):
however late an ABORT is executed, the OPEN_WRITE of its own upload comes before
it in the queue of one and resets the path in `s_io`; `Spared`, `SparedNext`
and `SparedLast` say it for the command in execution, the one in the mailbox and
the one to come. `MailboxIsSerial` (`MailboxSerializes`) needs `MailInv`, which
says at which point of `send_cmd()` the queue, the semaphore and the LVGL task
hold the one command there is. `AllOrNothing` (`SavedWhole`) rests on both, with
`StageInv`: what the file on the card and the request in `s_io` are at each stage
of the handler.

**MqttManager_proofs**, under `MqttAssumption`: `ClientIsSound` (`ClientSound`),
`StatusTrue` (`StatusIsTrue`), `IntervalSurvives` (`IntervalKept`), `HandleLive`
(`HandleIsLive`), `HistoryLatest` (`HistoryIsLatest`). Until the two tasks meet in
`mqtt_start()`, `StartInv` says that one of them at most is past its test, that it found no client and holds a client
of its own, not yet started, between init and assignment; hence a started client
is the one in `s_client` (`LiveClients`). From it follow the configuration
(`CfgInv`), the topics (`SubsInv`, since CONNECTED subscribes `s_client`, not the
client the event is of) and the flag (`StatusInv`, which is silent between the end
of a session and the assignment after it). `LinkInv` says that what ends a client
has waited for its task. `IntervalInv` and `HandleInv` need no such condition: the
handle is safe from what others hold because each client is made by one call and
held by one task. `HistInv` adds the ring of commands: the position and the count follow
from the number of commands taken, each slot holds the last command that fell to it,
one of them perhaps not counted yet, and what the page has read between two commands
is what to copy (`RingInv`). That no two commands are under way is `OneCommand`: only the
one started client has a session, and it handles one command at a time.

**PcPerf_proofs**, under `PcPerfAssumption` (frames of at least one byte):
`TypeCorrect` (`TypeOK`), `SampleIsWhole` (`SampleWhole`), `FlagsTellTheTruth`
(`FlagsAreTrue`). `LinkInv` relates the link, the events on their way and what the
host knows: the events come in the order of what they tell (`Ordered`), a connection
still to be told of is the last one made (`Numbered`).
`FrameInv` says that the bytes in the frame buffer are the last ones sent on the link,
from a frame's first byte on, and that sample and screen show a whole frame, unless
something was cut: what was sent before the buffer is a multiple of the frame size.
`DataInv` is the rest of the types. `BootInv` speaks of
the time before the host has synchronised, and `AdvInv` of the points of the two tasks'
calls at which `s_advertising` and the radio may differ, as long as the tasks have not
met in them and no call was refused (`Clean`); `TodoInv` bounds what is left of a call.

**Pages_proofs**, under `PagesAssumption` (every sub-page has its main page in a
cycle of at least one, a press takes at least one scan): `TypeCorrect`, `LastIsShown` (`LastRequestShows`),
`CycleStaysInSync` (`CycleInSync`), `SleepIsAskedFor` (`SleepIsMeant`). `LastInv`
says that the page asked for last waits in the request or is on the screen;
`CycleInv` that the index is that of the page to which the requests on their way
lead (`Target`), at each of the points between the two writes of a task and the
two reads of the other; `SleepInv` that the window opened with the last press, that
what is left of it and the time since add up to it, and that `s_ds_count` counts no
more presses than there were.

**Sensors_proofs**, under `SensorsAssumption`: `ShownIsFresh` (`ValuesAreFresh`) and
`ParserRecovers` (`Recovers`). `FreshInv` says that the counter tells the age of the
last frame until it wraps and that a flag or label that is due to be refreshed is
older by one period at most. `SyncInv` (`LineTypes`, `CatchingUp`, `InStep`) says
where in a frame the parser may think it is for each position of the line: anywhere
after a fault, then behind by at most the frame that was clean, then in step.

The temporal part of each of these theorems is one application of the rule for
invariants or for steps; everything else is a statement about one step.

**Only model-checked**: the liveness properties and everything under fairness
(`TrackEnds`, `RequestsTakeEffect`, `RemovedCardUnmounts`, `CallsReturn`, `AttemptsEnd`,
`ComesUp`, `RadioGoesQuiet`, `Findable`, `KeysServed`), which this prover does not
reach; and `SharesTrue` of `SysInfo`, which adds up the shares of a set of tasks and
orders their rows by a sort: a fold and a recursive function, and what these compute
for every set or sequence takes induction over data. Of the types a proof states the part its argument needs
(`Types`); `TypeOK`, where a module has one, is the whole.

## 5. Not modelled yet, and the plan

1. `CardUsers`: the SD page's timer and the file browser against an upload or
   download in progress (joins `UploadServer` with the card part of `AudioPlayer`).
2. `DisplayFlush`: the completion of a flush against its timeout.
3. The readers of what another task writes piece by piece: the sample of
   `ble_perf.c:364`, the gallery's picture buffer (`ui_gallery.c:57`).
4. The parts of modelled components that are left out: the values and the MQTT path of
   the PC's performance, the subscribe and publish forms, LED, time, touch and I2C.

Theorems to come: that the 32-bit difference of `SysInfo` is the time run as long
as less than a period has passed, apart from the sums; an abstract
specification of the upload server's cards and files, and of a client's life in
`MqttManager`, with their refinements.

Left out for good: HTML, JSON and label formatting, layout and fonts, the WAV
header's fields (one nondeterministic failure), register-level I/O, the SDK
beyond what its callers rely on, the volume control (one atomic value) and the
telemetry of the player.
