---------------------------- MODULE MqttManager ----------------------------
(***************************************************************************)
(* The MQTT manager (mqtt_manager.c) and its pages (ui_mqtt*.c).           *)
(*                                                                         *)
(* Four tasks work on one client handle without a lock: the esp_timer task *)
(* polls the WiFi state and starts the client, the LVGL task replaces,     *)
(* stops and starts it and lists the commands received, the sensor task    *)
(* publishes telemetry, and the task of the client itself handles events.  *)
(* Every test of shared state and its use are steps of their own.          *)
(*                                                                         *)
(* A configuration is a model value; a command is its number since boot.   *)
(* A client is the number of the esp_mqtt_client_init() call that made it. *)
(***************************************************************************)
EXTENDS Integers, Sequences, FiniteSets

CONSTANTS
  Cfgs,          \* the configurations the user may enter
  DefaultCfg,    \* the one of Kconfig
  CmdTopic,      \* devices/<id>/cmd
  PerfTopic,     \* the topic pc_perf_mqtt_init() registers
  NoTopic,       \* an unused slot
  NSlots,        \* MQTT_EXT_SUB_MAX
  NHist,         \* MQTT_CMD_HISTORY_MAX
  Steps,         \* telemetry intervals of the page, in seconds
  Requested,     \* those a command asks for
  DefaultInterval,
  MaxClients, MaxCalls, MaxDrops, MaxCmds, MaxPublish, MaxFaults  \* bounds

ASSUME MqttAssumption ==
  /\ DefaultCfg \in Cfgs
  /\ NoTopic \notin {CmdTopic, PerfTopic}
  /\ NSlots \in Nat \ {0}
  /\ NHist \in Nat \ {0}
  /\ Steps \subseteq 1..3600 /\ Requested \subseteq Int
  /\ DefaultInterval \in 1..3600
  /\ {MaxClients, MaxCalls, MaxDrops, MaxCmds, MaxPublish, MaxFaults} \subseteq Nat

NULL == 0
Handles == 1..MaxClients

VARIABLES
  wifi,                  \* wifi_manager_is_connected()
  s_wifi_was_connected,
  s_client,              \* NULL or a handle
  client,                \* what became of each handle, and its configuration
  link,                  \* its connection: "down", "up", "lost" (event to come)
  ev,                    \* its task: "idle" or where it is in the event handler
  subs,                  \* the topics its session is subscribed to
  s_mqtt_connected,
  s_cfg, nvsCfg,
  s_interval, nvsInterval,
  storing,               \* local: the interval each task is about to store
  s_ext_subs,            \* topic of each slot
  s_cmd_hist, s_cmd_hist_pos, s_cmd_hist_count,
  received,              \* commands received since boot
  shown,                 \* the list on the history page
  s_publish_count, countLabel,
  pc,                    \* where the tasks are
  made,                  \* local: the client esp_mqtt_client_init() returned
  rd,                    \* local: position and count read for the history list
  excused,               \* history: what has happened that the code does not guard
  calls, drops, faults   \* counters for the bounds

clientVars  == <<s_client, client, link, ev, subs, s_mqtt_connected>>
cfgVars     == <<s_cfg, nvsCfg>>
intervalVars == <<s_interval, nvsInterval, storing>>
histVars    == <<s_cmd_hist, s_cmd_hist_pos, s_cmd_hist_count, received>>
pageVars    == <<shown, countLabel, rd>>
taskVars    == <<pc, made>>
bounds      == <<calls, drops, faults>>
vars == <<wifi, s_wifi_was_connected, clientVars, cfgVars, intervalVars,
          s_ext_subs, histVars, pageVars, s_publish_count, taskVars, excused, bounds>>

Starters == {"poll", "ui"}     \* the tasks that call mqtt_start()
Page     == NULL               \* the LVGL task, as a caller of
Setters  == {Page} \cup Handles \* mqtt_manager_set_interval(); or a client's

Live == {h \in Handles : client[h].st \in {"stopped", "started"}}

(***************************************************************************)
(* mqtt_manager_subscribe(): a topic keeps its slot, or takes the first    *)
(* free one; a full table refuses it.                                      *)
(***************************************************************************)
Subscribed(slots, topic) ==
  LET free == {i \in 1..NSlots : slots[i] = NoTopic}
  IN  IF free = {} \/ \E i \in 1..NSlots : slots[i] = topic THEN slots
      ELSE [slots EXCEPT ![CHOOSE i \in free : \A j \in free : i <= j] = topic]

(***************************************************************************)
(* Boot: app_main() loads the configuration, then pc_perf_mqtt_init()      *)
(* registers its topic.                                                    *)
(***************************************************************************)
NoClients == [h \in Handles |-> [st |-> "none", cfg |-> DefaultCfg]]
AllIdle   == [poll |-> "idle", ui |-> "idle", tel |-> "idle", page |-> "idle"]
BootSubs  == Subscribed([i \in 1..NSlots |-> NoTopic], PerfTopic)
NoRead    == [pos |-> 0, count |-> 0, seen |-> 0, clean |-> TRUE]

Init ==
  /\ wifi = FALSE /\ s_wifi_was_connected = FALSE
  /\ s_client = NULL /\ client = NoClients
  /\ link = [h \in Handles |-> "down"] /\ ev = [h \in Handles |-> "idle"]
  /\ subs = [h \in Handles |-> {}] /\ s_mqtt_connected = FALSE
  /\ s_cfg = DefaultCfg /\ nvsCfg = DefaultCfg
  /\ s_interval = DefaultInterval /\ nvsInterval = DefaultInterval
  /\ storing = [t \in Setters |-> 0]
  /\ s_ext_subs = BootSubs
  /\ s_cmd_hist = [i \in 0..NHist-1 |-> 0]
  /\ s_cmd_hist_pos = 0 /\ s_cmd_hist_count = 0 /\ received = 0
  /\ shown = << >> /\ countLabel = 0 /\ rd = NoRead /\ s_publish_count = 0
  /\ pc = AllIdle /\ made = [t \in Starters |-> NULL]
  /\ excused = {}
  /\ calls = 0 /\ drops = 0 /\ faults = 0

\* A restart: what is loaded is what NVS has.
Boot ==
  /\ wifi' = FALSE /\ s_wifi_was_connected' = FALSE
  /\ s_client' = NULL /\ client' = NoClients
  /\ link' = [h \in Handles |-> "down"] /\ ev' = [h \in Handles |-> "idle"]
  /\ subs' = [h \in Handles |-> {}] /\ s_mqtt_connected' = FALSE
  /\ s_cfg' = nvsCfg /\ s_interval' = nvsInterval
  /\ storing' = [t \in Setters |-> 0]
  /\ s_ext_subs' = BootSubs
  /\ s_cmd_hist' = [i \in 0..NHist-1 |-> 0]
  /\ s_cmd_hist_pos' = 0 /\ s_cmd_hist_count' = 0 /\ received' = 0
  /\ shown' = << >> /\ countLabel' = 0 /\ rd' = NoRead /\ s_publish_count' = 0
  /\ pc' = AllIdle /\ made' = [t \in Starters |-> NULL]
  /\ excused' = {}
  /\ UNCHANGED <<nvsCfg, nvsInterval>>

Goto(t, where) == pc' = [pc EXCEPT ![t] = where]

Excuse(what) == excused' = excused \cup what

-----------------------------------------------------------------------------
(***************************************************************************)
(* mqtt_start() on task t: the test, esp_mqtt_client_init() with the       *)
(* configuration of this moment, the assignment, the start.                *)
(***************************************************************************)
Other(t) == IF t = "poll" THEN "ui" ELSE "poll"

\* mqtt_start() was called on t and has not returned.
Starting(t) == pc[t] \in {"start", "init", "assign", "run"}

\* The task goes on after mqtt_start() returned.
AfterStart(t) ==
  /\ Goto(t, "idle")
  /\ IF t = "poll" THEN s_wifi_was_connected' = TRUE ELSE UNCHANGED s_wifi_was_connected

StartTest(t) ==
  /\ pc[t] = "start"
  /\ IF s_client # NULL THEN AfterStart(t)
                        ELSE Goto(t, "init") /\ UNCHANGED s_wifi_was_connected
  /\ Excuse(IF Starting(Other(t)) THEN {"overlap"} ELSE {})
  /\ UNCHANGED <<wifi, clientVars, cfgVars, intervalVars, s_ext_subs, histVars,
                 pageVars, s_publish_count, made, bounds>>

StartInit(t) ==
  /\ pc[t] = "init"
  /\ \/ \E h \in Handles :
          /\ client[h].st = "none"
          /\ \A g \in 1..h-1 : client[g].st # "none"
          /\ client' = [client EXCEPT ![h] = [st |-> "stopped", cfg |-> s_cfg]]
          /\ made' = [made EXCEPT ![t] = h]
          /\ Goto(t, "assign")
          /\ UNCHANGED <<s_client, s_wifi_was_connected, faults, excused>>
     \/ /\ faults < MaxFaults         \* out of memory: s_client is assigned NULL
        /\ faults' = faults + 1
        /\ s_client' = NULL
        /\ AfterStart(t)
        /\ Excuse({"failed"})
        /\ UNCHANGED <<client, made>>
  /\ UNCHANGED <<wifi, link, ev, subs, s_mqtt_connected, cfgVars, intervalVars,
                 s_ext_subs, histVars, pageVars, s_publish_count, calls, drops>>

StartAssign(t) ==
  /\ pc[t] = "assign"
  /\ s_client' = made[t]
  /\ made' = [made EXCEPT ![t] = NULL]
  /\ Goto(t, "run")
  /\ UNCHANGED <<wifi, s_wifi_was_connected, client, link, ev, subs, s_mqtt_connected,
                 cfgVars, intervalVars, s_ext_subs, histVars, pageVars,
                 s_publish_count, excused, bounds>>

\* esp_mqtt_client_start(): nothing happens on NULL or on a started client.
StartedClient(h) ==
  IF h # NULL /\ client[h].st = "stopped"
  THEN [client EXCEPT ![h].st = "started"] ELSE client

StartRun(t) ==
  /\ pc[t] = "run"
  /\ client' = StartedClient(s_client)
  /\ AfterStart(t)
  /\ UNCHANGED <<wifi, s_client, link, ev, subs, s_mqtt_connected, cfgVars,
                 intervalVars, s_ext_subs, histVars, pageVars, s_publish_count,
                 made, excused, bounds>>

(***************************************************************************)
(* wifi_poll_cb(), every two seconds on the esp_timer task.                *)
(***************************************************************************)
WifiPoll ==
  /\ pc["poll"] = "idle"
  /\ IF wifi /\ ~s_wifi_was_connected
     THEN Goto("poll", "start") /\ UNCHANGED s_wifi_was_connected
     ELSE s_wifi_was_connected' = wifi /\ UNCHANGED pc
  /\ UNCHANGED <<wifi, clientVars, cfgVars, intervalVars, s_ext_subs, histVars,
                 pageVars, s_publish_count, made, excused, bounds>>

-----------------------------------------------------------------------------
(***************************************************************************)
(* The LVGL task: the configuration page saves, the status page connects   *)
(* and disconnects, the interval page saves.                               *)
(***************************************************************************)
UiIdle == pc["ui"] = "idle" /\ pc["page"] = "idle"

UiCall ==
  /\ UiIdle
  /\ calls < MaxCalls
  /\ calls' = calls + 1

\* The poll is in mqtt_start() when the LVGL task changes the client.
Meets == IF Starting("poll") THEN {"overlap"} ELSE {}

\* mqtt_manager_set_cfg(): the configuration in RAM, then in NVS.
SetCfg(c) ==
  /\ UiCall
  /\ s_cfg' = c
  /\ \/ /\ nvsCfg' = c
        /\ Goto("ui", "destroy")
        /\ UNCHANGED <<faults, excused>>
     \/ /\ faults < MaxFaults           \* not stored: the client is kept
        /\ faults' = faults + 1
        /\ Excuse({"unsaved"})
        /\ UNCHANGED <<nvsCfg, pc>>
  /\ UNCHANGED <<wifi, s_wifi_was_connected, clientVars, intervalVars, s_ext_subs,
                 histVars, pageVars, s_publish_count, made, drops>>

\* The client is gone: no task of it, no session.
Gone(h, st) ==
  /\ ev[h] = "idle"                     \* both calls wait for the client's task
  /\ client' = [client EXCEPT ![h].st = st]
  /\ link' = [link EXCEPT ![h] = "down"]
  /\ subs' = [subs EXCEPT ![h] = {}]

\* mqtt_teardown(): esp_mqtt_client_destroy(), ...
Destroy ==
  /\ pc["ui"] = "destroy"
  /\ \/ /\ s_client = NULL
        /\ s_mqtt_connected' = FALSE
        /\ Goto("ui", "check")
        /\ UNCHANGED <<client, link, subs>>
     \/ /\ s_client # NULL
        /\ Gone(s_client, "destroyed")
        /\ Goto("ui", "clear")
        /\ UNCHANGED s_mqtt_connected
  /\ Excuse(Meets)
  /\ UNCHANGED <<wifi, s_wifi_was_connected, s_client, ev, cfgVars, intervalVars,
                 s_ext_subs, histVars, pageVars, s_publish_count, made, bounds>>

\* Mutant: the handle is left.
ClearFlagOnly ==
  /\ pc["ui"] = "clear"
  /\ s_mqtt_connected' = FALSE
  /\ Goto("ui", "check")
  /\ UNCHANGED <<wifi, s_wifi_was_connected, s_client, client, link, ev, subs, cfgVars,
                 intervalVars, s_ext_subs, histVars, pageVars, s_publish_count,
                 made, excused, bounds>>

\* ... after it the handle and the flag.
Clear ==
  /\ pc["ui"] = "clear"
  /\ s_client' = NULL
  /\ s_mqtt_connected' = FALSE
  /\ Goto("ui", "check")
  /\ UNCHANGED <<wifi, s_wifi_was_connected, client, link, ev, subs, cfgVars,
                 intervalVars, s_ext_subs, histVars, pageVars, s_publish_count,
                 made, excused, bounds>>

\* Mutant: the start is left to the poll.
CheckWifiLater ==
  /\ pc["ui"] = "check"
  /\ Goto("ui", "idle")
  /\ Excuse(IF ~wifi /\ (s_wifi_was_connected \/ Starting("poll")) THEN {"unseen"} ELSE {})
  /\ UNCHANGED <<wifi, s_wifi_was_connected, clientVars, cfgVars, intervalVars,
                 s_ext_subs, histVars, pageVars, s_publish_count, made, bounds>>

\* mqtt_start() if WiFi is up at this moment; else the poll will see an edge,
\* unless WiFi is back before it looks.
CheckWifi ==
  /\ pc["ui"] = "check"
  /\ Goto("ui", IF wifi THEN "start" ELSE "idle")
  /\ Excuse(IF ~wifi /\ (s_wifi_was_connected \/ Starting("poll")) THEN {"unseen"} ELSE {})
  /\ UNCHANGED <<wifi, s_wifi_was_connected, clientVars, cfgVars, intervalVars,
                 s_ext_subs, histVars, pageVars, s_publish_count, made, bounds>>

\* mqtt_manager_disconnect()
Disconnect ==
  /\ UiCall
  /\ s_mqtt_connected                       \* connect_click_cb()
  /\ s_client # NULL
  /\ Gone(s_client, "stopped")
  /\ Goto("ui", "stopped")
  /\ Excuse(Meets)
  /\ UNCHANGED <<wifi, s_wifi_was_connected, s_client, ev, s_mqtt_connected, cfgVars,
                 intervalVars, s_ext_subs, histVars, pageVars, s_publish_count,
                 made, drops, faults>>

\* Mutant: the flag is left.
StoppedUnsaid ==
  /\ pc["ui"] = "stopped"
  /\ Goto("ui", "idle")
  /\ UNCHANGED <<wifi, s_wifi_was_connected, clientVars, cfgVars, intervalVars, s_ext_subs,
                 histVars, pageVars, s_publish_count, made, excused, bounds>>

Stopped ==
  /\ pc["ui"] = "stopped"
  /\ s_mqtt_connected' = FALSE
  /\ Goto("ui", "idle")
  /\ UNCHANGED <<wifi, s_wifi_was_connected, s_client, client, link, ev, subs, cfgVars,
                 intervalVars, s_ext_subs, histVars, pageVars, s_publish_count,
                 made, excused, bounds>>

\* mqtt_manager_connect(): the client there is is started; without one, and
\* with WiFi, mqtt_start().
Connect ==
  /\ UiIdle
  /\ ~s_mqtt_connected                      \* connect_click_cb()
  /\ \/ /\ s_client # NULL
        /\ client' = StartedClient(s_client)
        /\ UNCHANGED pc
     \/ /\ s_client = NULL
        /\ wifi
        /\ Goto("ui", "start")
        /\ UNCHANGED client
  /\ UNCHANGED <<wifi, s_wifi_was_connected, s_client, link, ev, subs, s_mqtt_connected,
                 cfgVars, intervalVars, s_ext_subs, histVars, pageVars,
                 s_publish_count, made, excused, bounds>>

(***************************************************************************)
(* mqtt_manager_set_interval() on the LVGL task or on that of the client:  *)
(* clamped, in RAM, then in NVS if that works.                             *)
(***************************************************************************)
Clamped(v) == IF v < 1 THEN 1 ELSE IF v > 3600 THEN 3600 ELSE v

\* Mutant: NVS gets the value as asked for.
SetIntervalRaw(t, v) ==
  /\ s_interval' = Clamped(v)
  /\ storing' = [storing EXCEPT ![t] = v]
  /\ Excuse(IF \E o \in Setters \ {t} : storing[o] # 0 THEN {"interval"} ELSE {})
  /\ UNCHANGED nvsInterval

SetInterval(t, v) ==
  /\ s_interval' = Clamped(v)
  /\ storing' = [storing EXCEPT ![t] = Clamped(v)]
  /\ Excuse(IF \E o \in Setters \ {t} : storing[o] # 0 THEN {"interval"} ELSE {})
  /\ UNCHANGED nvsInterval

StoreInterval(t) ==
  /\ storing' = [storing EXCEPT ![t] = 0]
  /\ \/ nvsInterval' = storing[t] /\ UNCHANGED <<faults, excused>>
     \/ /\ faults < MaxFaults
        /\ faults' = faults + 1
        /\ Excuse({"interval"})
        /\ UNCHANGED nvsInterval
  /\ UNCHANGED s_interval

\* save_click_cb() of the interval page
SaveInterval(v) ==
  /\ UiCall
  /\ SetInterval(Page, v)
  /\ Goto("ui", "store")
  /\ UNCHANGED <<wifi, s_wifi_was_connected, clientVars, cfgVars, s_ext_subs,
                 histVars, pageVars, s_publish_count, made, drops, faults>>

SaveStores ==
  /\ pc["ui"] = "store"
  /\ StoreInterval(Page)
  /\ Goto("ui", "idle")
  /\ UNCHANGED <<wifi, s_wifi_was_connected, clientVars, cfgVars, s_ext_subs,
                 histVars, pageVars, s_publish_count, made, calls, drops>>

-----------------------------------------------------------------------------
(***************************************************************************)
(* The command history page: history_timer_cb() reads the position and the *)
(* count, then copies the entries, when the publish counter has changed.   *)
(***************************************************************************)
\* A command is being entered in the ring.
Entering == \E h \in Handles : ev[h] = "entered"

HistoryRead ==
  /\ UiIdle
  /\ countLabel # s_publish_count
  /\ countLabel' = s_publish_count
  /\ rd' = [pos |-> s_cmd_hist_pos, count |-> s_cmd_hist_count, seen |-> received,
            clean |-> ~Entering]
  /\ Goto("page", "copy")
  /\ UNCHANGED <<wifi, s_wifi_was_connected, clientVars, cfgVars, intervalVars, s_ext_subs,
                 histVars, shown, s_publish_count, made, excused, bounds>>

\* Mutant: the list starts at the next slot to write.
ListedFromPos(hist, pos, count) == [i \in 1..count |-> hist[(pos + i - 1) % NHist]]

\* mqtt_manager_get_cmd_history()
Listed(hist, pos, count) ==
  LET start == (pos + NHist - count) % NHist
  IN  [i \in 1..count |-> hist[(start + i - 1) % NHist]]

HistoryCopy ==
  /\ pc["page"] = "copy"
  /\ shown' = Listed(s_cmd_hist, rd.pos, rd.count)
  /\ rd' = [NoRead EXCEPT !.seen = rd.seen,
                        !.clean = rd.clean /\ ~Entering /\ received = rd.seen]
  /\ Goto("page", "idle")
  /\ UNCHANGED <<wifi, s_wifi_was_connected, clientVars, cfgVars, intervalVars, s_ext_subs,
                 histVars, countLabel, s_publish_count, made, excused, bounds>>

-----------------------------------------------------------------------------
(***************************************************************************)
(* The sensor task: mqtt_manager_publish_telemetry() tests the handle and  *)
(* the flag, formats, and publishes on the handle of that later moment.    *)
(***************************************************************************)
TelemetryTest ==
  /\ pc["tel"] = "idle"
  /\ s_client # NULL /\ s_mqtt_connected
  /\ Goto("tel", "publish")
  /\ UNCHANGED <<wifi, s_wifi_was_connected, clientVars, cfgVars, intervalVars, s_ext_subs,
                 histVars, pageVars, s_publish_count, made, excused, bounds>>

TelemetryPublish ==
  /\ pc["tel"] = "publish"
  /\ Goto("tel", "idle")
  /\ IF s_client # NULL /\ link[s_client] = "up" /\ s_publish_count < MaxPublish
     THEN s_publish_count' = s_publish_count + 1
     ELSE UNCHANGED s_publish_count
  /\ UNCHANGED <<wifi, s_wifi_was_connected, clientVars, cfgVars, intervalVars, s_ext_subs,
                 histVars, pageVars, made, excused, bounds>>

-----------------------------------------------------------------------------
(***************************************************************************)
(* The client's task: sessions and commands.                               *)
(***************************************************************************)
\* CONNECTED: the flag, ...
Online(h) ==
  /\ client[h].st = "started" /\ link[h] = "down" /\ ev[h] = "idle"
  /\ wifi
  /\ link' = [link EXCEPT ![h] = "up"]
  /\ s_mqtt_connected' = TRUE
  /\ ev' = [ev EXCEPT ![h] = "connected"]
  /\ UNCHANGED <<wifi, s_wifi_was_connected, s_client, client, subs, cfgVars, intervalVars,
                 s_ext_subs, histVars, pageVars, s_publish_count, taskVars, excused, bounds>>

\* Mutant: the registered topics are left out.
SubscribeCmd(h) ==
  /\ ev[h] = "connected"
  /\ ev' = [ev EXCEPT ![h] = "idle"]
  /\ subs' = IF s_client = NULL THEN subs ELSE [subs EXCEPT ![s_client] = {CmdTopic}]
  /\ UNCHANGED <<wifi, s_wifi_was_connected, s_client, client, link, s_mqtt_connected,
                 cfgVars, intervalVars, s_ext_subs, histVars, pageVars, s_publish_count,
                 taskVars, excused, bounds>>

\* ... then the command topic and every registered topic, on s_client.
SubscribeAll(h) ==
  /\ ev[h] = "connected"
  /\ ev' = [ev EXCEPT ![h] = "idle"]
  /\ subs' = IF s_client = NULL THEN subs
             ELSE [subs EXCEPT ![s_client] =
                     ({CmdTopic} \cup {s_ext_subs[i] : i \in 1..NSlots}) \ {NoTopic}]
  /\ UNCHANGED <<wifi, s_wifi_was_connected, s_client, client, link, s_mqtt_connected,
                 cfgVars, intervalVars, s_ext_subs, histVars, pageVars, s_publish_count,
                 taskVars, excused, bounds>>

\* The session breaks: with WiFi, or at the broker.
Break(h) ==
  /\ link[h] = "up" /\ ev[h] = "idle"
  /\ IF wifi THEN drops < MaxDrops /\ drops' = drops + 1 ELSE UNCHANGED drops
  /\ link' = [link EXCEPT ![h] = "lost"]
  /\ subs' = [subs EXCEPT ![h] = {}]
  /\ UNCHANGED <<wifi, s_wifi_was_connected, s_client, client, ev, s_mqtt_connected,
                 cfgVars, intervalVars, s_ext_subs, histVars, pageVars, s_publish_count,
                 taskVars, excused, calls, faults>>

\* DISCONNECTED
Offline(h) ==
  /\ link[h] = "lost"
  /\ link' = [link EXCEPT ![h] = "down"]
  /\ s_mqtt_connected' = FALSE
  /\ UNCHANGED <<wifi, s_wifi_was_connected, s_client, client, ev, subs, cfgVars,
                 intervalVars, s_ext_subs, histVars, pageVars, s_publish_count,
                 taskVars, excused, bounds>>

\* DATA on the command topic; cmd_history_add() writes the text, ...
Command(h) ==
  /\ link[h] = "up" /\ ev[h] = "idle"
  /\ CmdTopic \in subs[h]
  /\ received < MaxCmds
  /\ received' = received + 1
  /\ s_cmd_hist' = [s_cmd_hist EXCEPT ![s_cmd_hist_pos] = received + 1]
  /\ ev' = [ev EXCEPT ![h] = "entered"]
  /\ UNCHANGED <<wifi, s_wifi_was_connected, s_client, client, link, subs, s_mqtt_connected,
                 cfgVars, intervalVars, s_ext_subs, s_cmd_hist_pos, s_cmd_hist_count,
                 pageVars, s_publish_count, taskVars, excused, bounds>>

\* ... then moves the position and the count.
Entered(h, then) ==
  /\ ev[h] = "entered"
  /\ s_cmd_hist_pos' = (s_cmd_hist_pos + 1) % NHist
  /\ s_cmd_hist_count' = IF s_cmd_hist_count < NHist THEN s_cmd_hist_count + 1
                                                     ELSE s_cmd_hist_count
  /\ ev' = [ev EXCEPT ![h] = then]
  /\ UNCHANGED <<s_cmd_hist, received>>

\* handle_cmd(): ping, and what it does not know
Answer(h) ==
  /\ Entered(h, "idle")
  /\ UNCHANGED <<wifi, s_wifi_was_connected, s_client, client, link, subs, s_mqtt_connected,
                 cfgVars, intervalVars, s_ext_subs, pageVars, s_publish_count, taskVars,
                 excused, bounds>>

\* set_interval
CommandInterval(h, v) ==
  /\ Entered(h, "store")
  /\ SetInterval(h, v)
  /\ UNCHANGED <<wifi, s_wifi_was_connected, s_client, client, link, subs, s_mqtt_connected,
                 cfgVars, s_ext_subs, pageVars, s_publish_count, taskVars, bounds>>

CommandStores(h) ==
  /\ ev[h] = "store"
  /\ StoreInterval(h)
  /\ ev' = [ev EXCEPT ![h] = "idle"]
  /\ UNCHANGED <<wifi, s_wifi_was_connected, s_client, client, link, subs, s_mqtt_connected,
                 cfgVars, s_ext_subs, histVars, pageVars, s_publish_count, taskVars,
                 calls, drops>>

\* reboot: NVS is all that is left.
Reboot ==
  /\ \E h \in Handles : ev[h] = "entered"
  /\ Boot
  /\ UNCHANGED bounds

-----------------------------------------------------------------------------
(* The environment: WiFi comes and goes.                                   *)
WifiUp ==
  /\ ~wifi
  /\ wifi' = TRUE
  /\ UNCHANGED <<s_wifi_was_connected, clientVars, cfgVars, intervalVars, s_ext_subs,
                 histVars, pageVars, s_publish_count, taskVars, excused, bounds>>

WifiDown ==
  /\ wifi
  /\ drops < MaxDrops
  /\ drops' = drops + 1
  /\ wifi' = FALSE
  /\ UNCHANGED <<s_wifi_was_connected, clientVars, cfgVars, intervalVars, s_ext_subs,
                 histVars, pageVars, s_publish_count, taskVars, excused, calls, faults>>

Start(t) == StartTest(t) \/ StartInit(t) \/ StartAssign(t) \/ StartRun(t)

UiSteps == Destroy \/ Clear \/ CheckWifi \/ Stopped \/ SaveStores

Session(h) == Online(h) \/ SubscribeAll(h) \/ Offline(h)

Cmds(h) == Answer(h) \/ CommandStores(h) \/ \E v \in Requested : CommandInterval(h, v)

Next ==
  \/ WifiPoll \/ UiSteps
  \/ \E t \in Starters : Start(t)
  \/ \E c \in Cfgs : SetCfg(c)
  \/ \E v \in Steps : SaveInterval(v)
  \/ Disconnect \/ Connect
  \/ HistoryRead \/ HistoryCopy
  \/ TelemetryTest \/ TelemetryPublish
  \/ \E h \in Handles : Session(h) \/ Break(h) \/ Command(h) \/ Cmds(h)
  \/ Reboot
  \/ WifiUp \/ WifiDown

Spec == Init /\ [][Next]_vars

\* The timer fires every two seconds, the tasks run, the client reconnects.
FairSpec ==
  /\ Spec
  /\ WF_vars(WifiPoll)
  /\ WF_vars(UiSteps)
  /\ \A t \in Starters : WF_vars(Start(t))
  /\ \A h \in Handles : WF_vars(Session(h)) /\ WF_vars(Cmds(h))

-----------------------------------------------------------------------------
(***************************************************************************)
(* Properties                                                              *)
(***************************************************************************)
(* The types; the ring's position and count stay in it and a subscribed    *)
(* topic is one there is.                                                  *)
TypeOK ==
  /\ {wifi, s_wifi_was_connected, s_mqtt_connected} \subseteq BOOLEAN
  /\ s_client \in {NULL} \cup Handles
  /\ client \in [Handles -> [st : {"none", "stopped", "started", "destroyed"}, cfg : Cfgs]]
  /\ link \in [Handles -> {"down", "up", "lost"}]
  /\ ev \in [Handles -> {"idle", "connected", "entered", "store"}]
  /\ subs \in [Handles -> SUBSET {CmdTopic, PerfTopic}]
  /\ {s_cfg, nvsCfg} \subseteq Cfgs
  /\ {s_interval, nvsInterval} \subseteq 1..3600
  /\ storing \in [Setters -> 0..3600]
  /\ s_ext_subs \in [1..NSlots -> {NoTopic, PerfTopic}]
  /\ s_cmd_hist \in [0..NHist-1 -> 0..MaxCmds]
  /\ s_cmd_hist_pos \in 0..NHist-1 /\ s_cmd_hist_count \in 0..NHist
  /\ received \in 0..MaxCmds
  /\ s_publish_count \in 0..MaxPublish /\ countLabel \in 0..MaxPublish
  /\ excused \subseteq {"overlap", "unsaved", "unseen", "interval", "failed"}

\* set_cfg() is replacing the client.
Replacing == pc["ui"] \in {"destroy", "clear"}

Settled == pc["ui"] = "idle" /\ pc["poll"] = "idle"

(* Until the poll and the LVGL task meet in mqtt_start() or a save fails,  *)
(* there is at most one client; between calls it is the one in s_client,   *)
(* it has the configuration shown, and its session has every topic.        *)
ClientSound ==
  {"overlap", "unsaved"} \cap excused = {} =>
    /\ Cardinality(Live) <= 1
    /\ Settled => Live = {s_client} \ {NULL}
    /\ \A h \in Live :
         /\ ~Replacing => client[h].cfg = s_cfg
         /\ link[h] = "up" /\ ev[h] # "connected" => subs[h] = {CmdTopic, PerfTopic}

(* Between calls, and until two tasks met in mqtt_start(), "Connected" on  *)
(* the page means a session whose end has not been told yet.               *)
StatusIsTrue ==
  Settled /\ "overlap" \notin excused =>
    (s_mqtt_connected <=> \E h \in Live : link[h] \in {"up", "lost"})

\* The last n commands received when k had been, oldest first.
LastOf(k, n) == [i \in 1..n |-> k - n + i]

(* Unless a command came while the page read the ring, or two clients were *)
(* started, the list shows the last commands of that moment, all that fit, *)
(* oldest first.                                                           *)
HistoryIsLatest ==
  pc["page"] = "idle" /\ rd.clean /\ "overlap" \notin excused =>
    shown = LastOf(rd.seen, IF rd.seen < NHist THEN rd.seen ELSE NHist)

(* Unless two tasks set the interval at once or a store failed, the one in *)
(* use is the one that comes back after a restart.                         *)
IntervalKept ==
  "interval" \notin excused /\ (\A t \in Setters : storing[t] = 0) =>
    s_interval = nvsInterval

(* The handle others test and use is that of a destroyed client only while *)
(* set_cfg() is between destroying it and clearing it.                     *)
HandleIsLive ==
  s_client # NULL /\ client[s_client].st = "destroyed" => pc["ui"] = "clear"

(* Once WiFi is up for good there is a client, until set_cfg() has met a   *)
(* gap in WiFi that the poll did not see, or a start failed.               *)
HandlesLeft == \E h \in Handles : client[h].st = "none"

ComesUp ==
  <>[](wifi /\ {"unseen", "failed"} \cap excused = {} /\ HandlesLeft) => <>[](s_client # NULL)
=============================================================================
