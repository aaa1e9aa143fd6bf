------------------------------ MODULE PcPerf -------------------------------
(***************************************************************************)
(* PC performance over BLE: the peripheral (ble_perf.c), the choice of the *)
(* source (pc_perf_src.c) and the two pages (ui_pc_perf.c,                 *)
(* ui_pc_perf_cfg.c).                                                      *)
(*                                                                         *)
(* The LVGL task asks for advertising, stops it and ends the link from the *)
(* timer of the page; the NimBLE host task handles the events of the radio *)
(* and re-advertises.  Both work on the same flags without a lock.  What a *)
(* task still has to do in the call it is in is a list of steps.           *)
(*                                                                         *)
(* A byte the PC sends is the connection it came on and its position in    *)
(* what was sent there; every FrameSize-th byte starts a frame.            *)
(***************************************************************************)
EXTENDS Integers, Sequences

CONSTANTS
  FrameSize,     \* FRAME_SIZE
  MaxConns, MaxBytes, MaxVisits, MaxFaults      \* bounds

ASSUME PcPerfAssumption ==
  /\ FrameSize \in Nat \ {0}
  /\ {MaxConns, MaxBytes, MaxVisits, MaxFaults} \subseteq Nat

NONE == 0                      \* BLE_HS_CONN_HANDLE_NONE
Conns == 1..MaxConns
Sources == {"MQTT", "BLE", "OFF"}
Bytes == [conn : Conns, pos : Nat]
NoSample == << >>

VARIABLES
  radio,                       \* the controller advertises
  link,                        \* the connection there is, or NONE
  conns,                       \* connections made so far
  sent,                        \* bytes the PC has sent on this one
  events,                      \* of the radio, to the host task
  started,                     \* the host task runs
  s_host_synced, s_adv_wanted, s_advertising,
  connected, s_conn_handle,    \* s_data.connected
  valid, sample, stale,        \* s_data: the values, and their age
  s_bin,
  s_init_done, s_ble_started,
  s_src, nvsSrc,
  visible,                     \* the page is on screen
  shown,                       \* what it shows
  todo,                        \* per task: the rest of the call it is in
  excused,                     \* history: what has happened that the code does not guard
  visits, faults               \* counters for the bounds

airVars  == <<radio, link, conns, sent, events, started>>
advVars  == <<s_host_synced, s_adv_wanted, s_advertising>>
linkVars == <<connected, s_conn_handle>>
dataVars == <<valid, sample, stale, s_bin>>
initVars == <<s_init_done, s_ble_started>>
srcVars  == <<s_src, nvsSrc>>
pageVars == <<visible, shown, visits>>
vars == <<airVars, advVars, linkVars, dataVars, initVars, srcVars, pageVars,
          todo, excused, faults>>

Tasks == {"ui", "host"}

Event(kind) == [kind |-> kind, conn |-> NONE]

\* load(), pc_perf_src_get(): NVS, over the default MQTT.
Loaded == s_src \in Sources /\ nvsSrc = s_src

Init ==
  /\ radio = FALSE /\ link = NONE /\ conns = 0 /\ sent = 0 /\ events = << >>
  /\ started = FALSE
  /\ s_host_synced = FALSE /\ s_adv_wanted = FALSE /\ s_advertising = FALSE
  /\ connected = FALSE /\ s_conn_handle = NONE
  /\ valid = FALSE /\ sample = NoSample /\ stale = FALSE /\ s_bin = << >>
  /\ s_init_done = FALSE /\ s_ble_started = FALSE
  /\ Loaded
  /\ visible = FALSE /\ shown = NoSample /\ visits = 0
  /\ todo = [t \in Tasks |-> << >>]
  /\ excused = {} /\ faults = 0

Excuse(what) == excused' = excused \cup what

-----------------------------------------------------------------------------
\* The task is in the part of a call that starts or stops the radio.
AdvSteps == {"wanted", "advertise", "adv_start", "adv_on", "adv_off",
             "start_test", "stop_test", "adv_stop"}

Meets(t) == IF \E o \in Tasks \ {t} : todo[o] # << >> /\ Head(todo[o]) \in AdvSteps
            THEN {"race"} ELSE {}

(***************************************************************************)
(* Steps: task t does the first thing on its list and goes on with then.   *)
(***************************************************************************)
Step(t, op, then) ==
  /\ todo[t] # << >> /\ Head(todo[t]) = op
  /\ todo' = [todo EXCEPT ![t] = then \o Tail(@)]

\* pc_perf_advertise(): the fields; a failure returns with the flag as it was.
AdvFields(t) ==
  /\ \/ Step(t, "advertise", <<"adv_start">>) /\ Excuse(Meets(t)) /\ UNCHANGED faults
     \/ /\ faults < MaxFaults
        /\ faults' = faults + 1
        /\ Step(t, "advertise", << >>)
        /\ Excuse({"fault"})
  /\ UNCHANGED <<airVars, advVars, linkVars, dataVars, initVars, srcVars, pageVars>>

\* The stack takes one run, and none until the one link there may be
\* (CONFIG_BT_NIMBLE_MAX_CONNECTIONS) is gone for the host too.
MayAdvertise ==
  ~radio /\ link = NONE /\ \A i \in 1..Len(events) : events[i].kind # "DISCONNECT"

\* ble_gap_adv_start(), refused to the second of two tasks.
AdvStart(t) ==
  /\ \/ /\ MayAdvertise
        /\ Step(t, "adv_start", <<"adv_on">>)
        /\ radio' = TRUE
        /\ UNCHANGED <<faults, excused>>
     \/ /\ ~MayAdvertise
        /\ Step(t, "adv_start", <<"adv_off">>)
        /\ UNCHANGED <<radio, faults, excused>>
     \/ /\ faults < MaxFaults
        /\ faults' = faults + 1
        /\ Step(t, "adv_start", <<"adv_off">>)
        /\ Excuse({"fault"})
        /\ UNCHANGED radio
  /\ UNCHANGED <<link, conns, sent, events, started, advVars, linkVars, dataVars,
                 initVars, srcVars, pageVars>>

\* The flag follows its result; on success the link may be up by then.
AdvFlag(t) ==
  /\ \/ /\ Step(t, "adv_on", << >>)
        /\ s_advertising' = TRUE
        /\ Excuse(IF radio THEN {} ELSE {"race"})
     \/ /\ Step(t, "adv_off", << >>)
        /\ s_advertising' = FALSE
        /\ UNCHANGED excused
  /\ UNCHANGED <<airVars, s_host_synced, s_adv_wanted, linkVars, dataVars, initVars,
                 srcVars, pageVars, faults>>

(***************************************************************************)
(* The LVGL task.                                                          *)
(***************************************************************************)
\* pc_perf_advertise_start(): the wish, the tests.
StartWanted ==
  /\ Step("ui", "start", <<"start_test">>)
  /\ s_adv_wanted' = TRUE
  /\ UNCHANGED <<airVars, s_host_synced, s_advertising, linkVars, dataVars, initVars,
                 srcVars, pageVars, excused, faults>>

StartTest ==
  /\ Step("ui", "start_test",
          IF ~s_host_synced \/ connected \/ s_advertising THEN << >> ELSE <<"advertise">>)
  /\ Excuse(Meets("ui"))
  /\ UNCHANGED <<airVars, advVars, linkVars, dataVars, initVars, srcVars, pageVars, faults>>

\* pc_perf_advertise_stop(): the wish, the test, the flag, the radio.
StopWanted ==
  /\ Step("ui", "stop", <<"stop_test">>)
  /\ s_adv_wanted' = FALSE
  /\ UNCHANGED <<airVars, s_host_synced, s_advertising, linkVars, dataVars, initVars,
                 srcVars, pageVars, excused, faults>>

StopTest ==
  /\ Step("ui", "stop_test", IF s_advertising THEN <<"adv_stop">> ELSE << >>)
  /\ s_advertising' = FALSE
  /\ Excuse(Meets("ui"))
  /\ UNCHANGED <<airVars, s_host_synced, s_adv_wanted, linkVars, dataVars, initVars,
                 srcVars, pageVars, faults>>

StopRadio ==
  /\ Step("ui", "adv_stop", << >>)
  /\ radio' = FALSE
  /\ Excuse(Meets("ui"))
  /\ UNCHANGED <<link, conns, sent, events, started, advVars, linkVars, dataVars,
                 initVars, srcVars, pageVars, faults>>

\* pc_perf_disconnect(): the test, the termination, the flags.
EndTest ==
  /\ Step("ui", "disconnect",
          IF ~connected \/ s_conn_handle = NONE THEN << >> ELSE <<"terminate", "forget">>)
  /\ UNCHANGED <<airVars, advVars, linkVars, dataVars, initVars, srcVars, pageVars,
                 excused, faults>>

Terminate ==
  /\ Step("ui", "terminate", << >>)
  /\ IF link # NONE /\ link = s_conn_handle
     THEN /\ link' = NONE
          /\ events' = Append(events, Event("DISCONNECT"))
     ELSE UNCHANGED <<link, events>>
  /\ UNCHANGED <<radio, conns, sent, started, advVars, linkVars, dataVars, initVars,
                 srcVars, pageVars, excused, faults>>

Forget ==
  /\ Step("ui", "forget", << >>)
  /\ connected' = FALSE /\ valid' = FALSE /\ s_conn_handle' = NONE
  /\ Excuse(IF link # NONE THEN {"ghost"} ELSE {})
  /\ UNCHANGED <<airVars, advVars, sample, stale, s_bin, initVars, srcVars, pageVars,
                 faults>>

\* pc_perf_init(), once, even if it fails.
InitBle ==
  /\ Step("ui", "init", << >>)
  /\ s_init_done' = TRUE
  /\ \/ /\ s_init_done
        /\ UNCHANGED <<started, events, faults, excused>>
     \/ /\ ~s_init_done
        /\ started' = TRUE
        /\ events' = Append(events, Event("SYNC"))
        /\ UNCHANGED <<faults, excused>>
     \/ /\ ~s_init_done /\ faults < MaxFaults
        /\ faults' = faults + 1
        /\ Excuse({"fault"})
        /\ UNCHANGED <<started, events>>
  /\ UNCHANGED <<radio, link, conns, sent, advVars, linkVars, dataVars, s_ble_started,
                 srcVars, pageVars>>

\* Mutant: a hidden page does nothing.
PlanVisible ==
  CASE ~visible -> << >>
    [] visible /\ s_src = "BLE" ->
         (IF s_ble_started THEN << >> ELSE <<"init">>) \o <<"start", "render">>
    [] OTHER -> <<"disconnect", "stop", "render">>

\* pc_perf_timer_cb(): what the page does every tick.
Plan ==
  CASE ~visible /\ s_ble_started ->
         <<"stop">> \o (IF s_src # "BLE" THEN <<"disconnect">> ELSE << >>)
    [] ~visible /\ ~s_ble_started -> << >>
    [] visible /\ s_src = "BLE" ->
         (IF s_ble_started THEN << >> ELSE <<"init">>) \o <<"start", "render">>
    [] OTHER -> <<"disconnect", "stop", "render">>

Tick ==
  /\ todo["ui"] = << >>
  /\ todo' = [todo EXCEPT !["ui"] = Plan]
  /\ s_ble_started' = (s_ble_started \/ (visible /\ s_src = "BLE"))
  /\ UNCHANGED <<airVars, advVars, linkVars, dataVars, s_init_done, srcVars, pageVars,
                 excused, faults>>

Fresh == connected /\ valid /\ ~stale

\* render_rows(): the values of a fresh sample of a link, else dashes.
Rows == IF s_src = "BLE" /\ Fresh THEN sample ELSE NoSample

\* pc_perf_get_data() copies the values one by one; the model copies them at
\* once.
Render ==
  /\ Step("ui", "render", << >>)
  /\ shown' = Rows
  /\ UNCHANGED <<airVars, advVars, linkVars, dataVars, initVars, srcVars, visible,
                 visits, excused, faults>>

\* pc_perf_src_set(): RAM, then NVS, which may fail.
SrcSet(src, saved) ==
  /\ s_src' = src
  /\ nvsSrc' = IF saved THEN src ELSE nvsSrc

\* option_click_cb(): back to the page; if NVS failed the choice page stays.
Choose(src) ==
  /\ todo["ui"] = << >>
  /\ ~visible
  /\ visits < MaxVisits /\ visits' = visits + 1
  /\ \/ SrcSet(src, TRUE) /\ visible' = TRUE /\ UNCHANGED <<faults, excused>>
     \/ /\ faults < MaxFaults
        /\ faults' = faults + 1
        /\ SrcSet(src, FALSE)
        /\ Excuse({"unsaved"})
        /\ UNCHANGED visible
  /\ UNCHANGED <<airVars, advVars, linkVars, dataVars, initVars, shown, todo>>

\* The user opens another page.
Leave ==
  /\ todo["ui"] = << >>
  /\ visible
  /\ visible' = FALSE
  /\ UNCHANGED <<airVars, advVars, linkVars, dataVars, initVars, srcVars, shown, visits,
                 todo, excused, faults>>

-----------------------------------------------------------------------------
(***************************************************************************)
(* The host task: pc_perf_on_sync(), pc_perf_gap_event().                  *)
(***************************************************************************)
Handle(kind) ==
  /\ todo["host"] = << >>
  /\ events # << >> /\ Head(events).kind = kind
  /\ events' = Tail(events)

\* The end of a run is handled when the next one has begun, or is beginning.
Overlaps == Meets("host") \cup (IF radio THEN {"race"} ELSE {})
Late == Excuse(Overlaps)

\* A handler ends with the test of the wish.
Wanted == todo' = [todo EXCEPT !["host"] = <<"wanted">>]

Readvertise ==
  /\ Step("host", "wanted", IF s_adv_wanted THEN <<"advertise">> ELSE << >>)
  /\ Excuse(Meets("host"))
  /\ UNCHANGED <<airVars, advVars, linkVars, dataVars, initVars, srcVars, pageVars, faults>>

\* pc_perf_on_sync(): without an address the host stays unsynced.
OnSync ==
  /\ Handle("SYNC")
  /\ \/ s_host_synced' = TRUE /\ Wanted /\ UNCHANGED <<excused, faults>>
     \/ /\ faults < MaxFaults
        /\ faults' = faults + 1
        /\ Excuse({"fault"})
        /\ UNCHANGED <<s_host_synced, todo>>
  /\ UNCHANGED <<radio, link, conns, sent, started, s_adv_wanted, s_advertising,
                 linkVars, dataVars, initVars, srcVars, pageVars>>

\* Mutant: the flag stays although the stack has stopped.
OnConnectBeacons ==
  /\ Handle("CONNECT") /\ Late
  /\ connected' = TRUE
  /\ s_conn_handle' = Head(events).conn
  /\ UNCHANGED <<radio, link, conns, sent, started, s_host_synced, s_adv_wanted,
                 s_advertising, dataVars,
                 initVars, srcVars, pageVars, todo, faults>>

OnConnect ==
  /\ Handle("CONNECT") /\ Late
  /\ connected' = TRUE
  /\ s_conn_handle' = Head(events).conn
  /\ s_advertising' = FALSE
  /\ UNCHANGED <<radio, link, conns, sent, started, s_host_synced, s_adv_wanted, dataVars,
                 initVars, srcVars, pageVars, todo, faults>>

OnConnectFailed ==
  /\ Handle("FAILED") /\ Late
  /\ connected' = FALSE
  /\ Wanted
  /\ UNCHANGED <<radio, link, conns, sent, started, advVars, s_conn_handle, dataVars,
                 initVars, srcVars, pageVars, faults>>

\* Mutant: the sample stays valid.
LinkGoneOnly == connected' = FALSE /\ s_conn_handle' = NONE /\ UNCHANGED valid

\* Mutant: the link stays "connected".
LinkGoneUnsaid == valid' = FALSE /\ s_conn_handle' = NONE /\ UNCHANGED connected

LinkGone == connected' = FALSE /\ valid' = FALSE /\ s_conn_handle' = NONE

OnDisconnect ==
  /\ Handle("DISCONNECT")
  /\ LinkGone
  /\ s_advertising' = FALSE
  /\ Wanted
  /\ Excuse((IF s_bin # << >> THEN {"cut"} ELSE {}) \cup Overlaps)
  /\ UNCHANGED <<radio, link, conns, sent, started, s_host_synced, s_adv_wanted, sample,
                 stale, s_bin, initVars, srcVars, pageVars, faults>>

OnAdvComplete ==
  /\ Handle("ADV_COMPLETE") /\ Late
  /\ s_advertising' = FALSE
  /\ Wanted
  /\ UNCHANGED <<radio, link, conns, sent, started, s_host_synced, s_adv_wanted, linkVars,
                 dataVars, initVars, srcVars, pageVars, faults>>

\* parse_binary() takes a frame by its first two bytes.
IsHeader(b) == b.pos % FrameSize = 0

\* What stays in the buffer once a full one has been parsed.
Remaining(fed) ==
  IF Len(fed) >= FrameSize THEN SubSeq(fed, FrameSize + 1, Len(fed)) ELSE fed

\* pc_perf_data_access_cb(), frame_feed(): a write of n bytes, of which the
\* first FrameSize are kept; they fill the buffer, at most once.
Write(n) ==
  /\ todo["host"] = << >> /\ events = << >>
  /\ link # NONE
  /\ sent + n <= MaxBytes
  /\ sent' = sent + n
  /\ LET kept == IF n > FrameSize THEN FrameSize ELSE n
         fed  == s_bin \o [i \in 1..kept |-> [conn |-> link, pos |-> sent + i - 1]]
         take == Len(fed) >= FrameSize /\ IsHeader(fed[1])
     IN  /\ s_bin' = Remaining(fed)
         /\ sample' = IF take THEN SubSeq(fed, 1, FrameSize) ELSE sample
         /\ valid' = (valid \/ take)
         /\ stale' = (stale /\ ~take)
         /\ Excuse(IF kept < n THEN {"cut"} ELSE {})
  /\ UNCHANGED <<radio, link, conns, events, started, advVars, linkVars, initVars,
                 srcVars, pageVars, todo, faults>>

-----------------------------------------------------------------------------
(* The environment: the radio, the PC and time.                            *)
Air == UNCHANGED <<started, advVars, linkVars, dataVars, initVars, srcVars, pageVars,
                   todo, excused, faults>>

PcConnects ==
  /\ radio /\ conns < MaxConns
  /\ radio' = FALSE
  /\ conns' = conns + 1 /\ link' = conns + 1 /\ sent' = 0
  /\ events' = Append(events, [kind |-> "CONNECT", conn |-> conns + 1])
  /\ Air

\* A connection fails, or the run ends by itself.
RunEnds(kind) ==
  /\ radio /\ conns < MaxConns
  /\ radio' = FALSE
  /\ conns' = conns + 1
  /\ events' = Append(events, Event(kind))
  /\ UNCHANGED <<link, sent>>
  /\ Air

LinkDrops ==
  /\ link # NONE
  /\ link' = NONE
  /\ events' = Append(events, Event("DISCONNECT"))
  /\ UNCHANGED <<radio, conns, sent>>
  /\ Air

\* PC_PERF_STALE_MS pass without a frame.
Ages ==
  /\ valid /\ ~stale
  /\ stale' = TRUE
  /\ UNCHANGED <<airVars, advVars, linkVars, valid, sample, s_bin, initVars, srcVars,
                 pageVars, todo, excused, faults>>

Advertise(t) == AdvFields(t) \/ AdvStart(t) \/ AdvFlag(t)

UiSteps ==
  \/ Advertise("ui") \/ StartWanted \/ StartTest \/ StopWanted \/ StopTest \/ StopRadio
  \/ EndTest \/ Terminate \/ Forget \/ InitBle \/ Tick \/ Render

HostSteps ==
  \/ Advertise("host") \/ Readvertise \/ OnSync \/ OnConnect \/ OnConnectFailed
  \/ OnDisconnect \/ OnAdvComplete

Next ==
  \/ UiSteps \/ HostSteps
  \/ \E src \in Sources : Choose(src)
  \/ Leave
  \/ \E n \in 1..FrameSize+1 : Write(n)
  \/ PcConnects \/ RunEnds("FAILED") \/ RunEnds("ADV_COMPLETE") \/ LinkDrops \/ Ages

Spec == Init /\ [][Next]_vars

\* The timer of the page runs and the host task handles its events.
FairSpec == Spec /\ WF_vars(UiSteps) /\ WF_vars(HostSteps)

-----------------------------------------------------------------------------
(***************************************************************************)
(* Properties                                                              *)
(***************************************************************************)
Settled == (\A t \in Tasks : todo[t] = << >>) /\ events = << >>

(* The types; the buffer never holds a whole frame.                        *)
TypeOK ==
  /\ {radio, started, s_host_synced, s_adv_wanted, s_advertising, connected, valid, stale,
      s_init_done, s_ble_started, visible} \subseteq BOOLEAN
  /\ {link, conns, s_conn_handle} \subseteq 0..MaxConns
  /\ sent \in 0..MaxBytes
  /\ s_bin \in Seq(Bytes) /\ Len(s_bin) < FrameSize
  /\ sample \in Seq(Bytes) /\ Len(sample) \in {0, FrameSize}
  /\ {s_src, nvsSrc} \subseteq Sources

\* f is a frame as the PC sent it on connection c.
Whole(f, c) ==
  /\ f[1].pos % FrameSize = 0
  /\ \A i \in 1..FrameSize : f[i] = [conn |-> c, pos |-> f[1].pos + i - 1]

(* Until a link ended in the middle of a frame, or a write was longer than *)
(* one, the sample of a link is a frame the PC sent on that link, and what *)
(* the page shows is a frame.                                              *)
SampleWhole ==
  "cut" \notin excused =>
    /\ valid => /\ Whole(sample, sample[1].conn)
                /\ connected => sample[1].conn = s_conn_handle
    /\ shown # NoSample => Whole(shown, shown[1].conn)

(* Once the events are handled and no call is in progress, the flag tells  *)
(* whether the radio advertises, and the handle which link there is; until *)
(* two tasks met, or the stack refused a call.                             *)
FlagsAreTrue ==
  Settled =>
    /\ {"race", "fault"} \cap excused = {} => (s_advertising <=> radio)
    /\ "ghost" \notin excused => s_conn_handle = link /\ (connected <=> link # NONE)

(* A page that is left for good, or whose source is not BLE any more, ends *)
(* the advertising, and the latter the link as well.                       *)
RadioGoesQuiet ==
  /\ <>[](~visible /\ {"race", "fault"} \cap excused = {}) => <>[]~radio
  /\ <>[](s_src # "BLE" /\ {"race", "fault", "ghost"} \cap excused = {})
       => <>[](~radio /\ link = NONE)

(* A page that stays open on BLE can be found by the PC or has its link,   *)
(* with the same exceptions.                                               *)
Findable ==
  <>[](visible /\ s_src = "BLE" /\ {"race", "fault", "ghost"} \cap excused = {})
    => []<>(radio \/ link # NONE \/ conns = MaxConns)
=============================================================================
