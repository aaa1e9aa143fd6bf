------------------------ MODULE MqttManager_proofs -------------------------
(***************************************************************************)
(* Proofs about MqttManager, for every set of configurations and           *)
(* intervals, number of clients, slots and faults.                         *)
(***************************************************************************)
EXTENDS MqttManager, FiniteSetTheorems, TLAPS

Client == [st : {"none", "stopped", "started", "destroyed"}, cfg : Cfgs]
Places == {"idle", "start", "init", "assign", "run", "destroy", "clear", "check",
           "stopped", "store", "copy", "publish"}

\* TypeOK, of the variables the properties are about.
Types ==
  /\ s_client \in Handles \cup {NULL}
  /\ client \in [Handles -> Client]
  /\ link \in [Handles -> {"down", "up", "lost"}]
  /\ ev \in [Handles -> {"idle", "connected", "entered", "store"}]
  /\ subs \in [Handles -> SUBSET {CmdTopic, PerfTopic, NoTopic}]
  /\ s_cfg \in Cfgs /\ nvsCfg \in Cfgs
  /\ storing \in [Setters -> Int]
  /\ s_ext_subs = BootSubs
  /\ pc \in [{"poll", "ui", "tel", "page"} -> Places]
  /\ made \in [Starters -> Handles \cup {NULL}]

\* A client that is not started has no session and handles nothing.
LinkInv ==
  \A h \in Handles : client[h].st # "started" => link[h] = "down" /\ ev[h] = "idle"

\* What each task holds is a client of its own, and only set_cfg() holds one it
\* has destroyed.
HandleInv ==
  /\ s_client # NULL => client[s_client].st # "none"
  /\ s_client # NULL /\ client[s_client].st = "destroyed" => pc["ui"] = "clear"
  /\ \A t \in Starters : made[t] # NULL =>
       /\ client[made[t]].st \notin {"none", "destroyed"}
       /\ made[t] # s_client
       /\ made[t] # made[Other(t)]

\* A task that is storing an interval stores the one in use.
IntervalInv ==
  /\ pc["ui"] = "store" => storing[Page] # 0
  /\ \A h \in Handles : ev[h] = "store" => storing[h] # 0
  /\ "interval" \notin excused =>
       /\ (\A t \in Setters : storing[t] = 0) => s_interval = nvsInterval
       /\ \A t \in Setters : storing[t] # 0 =>
            storing[t] = s_interval /\ \A o \in Setters \ {t} : storing[o] = 0

Busy(t) == pc[t] \in {"init", "assign", "run"}

\* Until two tasks meet in mqtt_start(), one of them at most is past its test, and
\* it has found no client; the client of disconnect() is left stopped.
StartInv ==
  "overlap" \notin excused =>
    /\ ~(Busy("poll") /\ Busy("ui"))
    /\ \A t \in Starters : pc[t] \in {"init", "assign"} => s_client = NULL
    /\ \A t \in Starters : made[t] # NULL =>
         pc[t] = "assign" /\ client[made[t]].st = "stopped"
    /\ pc["ui"] \in {"clear", "stopped"} => s_client # NULL /\ ~Busy("poll")
    /\ pc["ui"] = "clear" => client[s_client].st = "destroyed"
    /\ pc["ui"] = "stopped" => client[s_client].st = "stopped"
    /\ \A h \in Live : h = s_client \/ h = made["poll"] \/ h = made["ui"]

\* Outside set_cfg() the clients have the configuration shown.
CfgInv ==
  {"overlap", "unsaved"} \cap excused = {} /\ ~Replacing =>
    \A h \in Live : client[h].cfg = s_cfg

\* Sessions have their topics.
SubsInv ==
  "overlap" \notin excused =>
    \A h \in Live : link[h] = "up" /\ ev[h] # "connected" => subs[h] = {CmdTopic, PerfTopic}

\* Outside the calls that end a session the flag tells whether there is one.
StatusInv ==
  "overlap" \notin excused /\ pc["ui"] \notin {"clear", "stopped"} =>
    (s_mqtt_connected <=> \E h \in Live : link[h] \in {"up", "lost"})

IInv == /\ Types /\ LinkInv /\ HandleInv /\ IntervalInv /\ StartInv
        /\ CfgInv /\ SubsInv /\ StatusInv

-----------------------------------------------------------------------------
(* Facts about the constants. *)

LEMMA Constants ==
  /\ DefaultCfg \in Cfgs /\ NoTopic \notin {CmdTopic, PerfTopic}
  /\ Steps \subseteq Int /\ Requested \subseteq Int
<1>1. \A m \in 1 .. 3600 : m \in Int
  OBVIOUS
<1> QED BY <1>1, MqttAssumption

\* An interval in use is at least a second.
LEMMA ClampedType == \A v \in Int : Clamped(v) \in Int /\ Clamped(v) # 0
BY DEF Clamped

\* The table of topics of boot has room for the one of the PC's performance.
LEMMA BootTopics ==
  ({CmdTopic} \cup {BootSubs[i] : i \in 1 .. NSlots}) \ {NoTopic} = {CmdTopic, PerfTopic}
<1> DEFINE slots == [i \in 1 .. NSlots |-> NoTopic]
           free == {i \in 1 .. NSlots : slots[i] = NoTopic}
           first == CHOOSE i \in free : \A j \in free : i <= j
<1>1. NSlots \in Nat \ {0}
  BY MqttAssumption
<1>2. free = 1 .. NSlots /\ 1 \in free /\ \A j \in free : 1 <= j
  BY <1>1
<1>3. first \in 1 .. NSlots
  BY <1>2
<1>4. ~\E i \in 1 .. NSlots : slots[i] = PerfTopic
  BY Constants
<1>5. BootSubs = [slots EXCEPT ![first] = PerfTopic]
  BY <1>2, <1>4, Zenon DEF BootSubs, Subscribed
<1> HIDE DEF first, free
<1>6. /\ \A i \in 1 .. NSlots : BootSubs[i] \in {NoTopic, PerfTopic}
      /\ BootSubs[first] = PerfTopic
  BY <1>3, <1>5
<1> QED BY <1>3, <1>6, Constants

\* What the handler of CONNECTED does: the client in s_client gets both topics.
LEMMA SubscribeEffect ==
  ASSUME Types, NEW h \in Handles, SubscribeAll(h)
  PROVE  /\ subs' = IF s_client = NULL THEN subs
                    ELSE [subs EXCEPT ![s_client] = {CmdTopic, PerfTopic}]
         /\ ev[h] = "connected"
         /\ ev' = [ev EXCEPT ![h] = "idle"]
         /\ UNCHANGED <<s_client, client, link, s_cfg, nvsCfg, storing, s_ext_subs, pc,
                        made, excused>>
<1>1. ({CmdTopic} \cup {s_ext_subs[i] : i \in 1 .. NSlots}) \ {NoTopic} = {CmdTopic, PerfTopic}
  <2>1. s_ext_subs = BootSubs
    BY DEF Types
  <2> QED BY <2>1, BootTopics, Zenon
<1>2. subs' = IF s_client = NULL THEN subs
              ELSE [subs EXCEPT ![s_client] = {CmdTopic, PerfTopic}]
  BY <1>1, Zenon DEF SubscribeAll
<1> QED BY <1>2 DEF SubscribeAll, cfgVars, intervalVars, taskVars

\* What set_cfg() does to the client it destroys.
LEMMA DestroyEffect ==
  ASSUME Types, Destroy, s_client # NULL
  PROVE  /\ client' \in [Handles -> Client]
         /\ client'[s_client].st = "destroyed"
         /\ \A h \in Handles : h # s_client => client'[h] = client[h]
         /\ link' = [link EXCEPT ![s_client] = "down"]
         /\ subs' = [subs EXCEPT ![s_client] = {}]
         /\ pc' = [pc EXCEPT !["ui"] = "clear"]
         /\ pc["ui"] = "destroy"
         /\ "overlap" \notin excused' => "overlap" \notin excused /\ ~Starting("poll")
         /\ UNCHANGED <<s_client, made, ev, s_cfg, nvsCfg, storing, s_ext_subs,
                        s_mqtt_connected>>
<1> DEFINE c == [client[s_client] EXCEPT !.st = "destroyed"]
<1>1. s_client \in Handles /\ c \in Client /\ c.st = "destroyed"
  BY DEF Types, Client
<1>2. client' = [client EXCEPT ![s_client] = c]
  BY DEF Destroy, Gone
<1> HIDE DEF c
<1>3. /\ client' \in [Handles -> Client]
      /\ client'[s_client].st = "destroyed"
      /\ \A h \in Handles : h # s_client => client'[h] = client[h]
  BY <1>1, <1>2 DEF Types
<1> QED BY <1>3 DEF Destroy, Gone, Goto, Excuse, Meets, cfgVars, intervalVars

-----------------------------------------------------------------------------
(* The invariants, action by action. *)

\* Until two tasks meet in mqtt_start(), which clients there may be.
LEMMA LiveClients ==
  ASSUME Types, LinkInv, HandleInv, StartInv, "overlap" \notin excused
  PROVE  /\ \A h \in Handles : client[h].st = "started" => h = s_client
         /\ \A h \in Live : h # s_client => link[h] = "down"
         /\ pc["ui"] = "clear" => Live = {}
         /\ s_client = NULL /\ ~Starting("poll") /\ pc["ui"] = "destroy" => Live = {}
         /\ pc["ui"] = "stopped" => \A h \in Live : link[h] = "down"
<1>1. \A h \in Handles : h # NULL
  BY DEF Handles, NULL
<1>2. \A h \in Handles : client[h].st = "started" => h = s_client
  BY <1>1 DEF StartInv, Live, Starters, NULL, Types
<1>3. \A h \in Live : h # s_client => link[h] = "down"
  BY <1>2 DEF LinkInv, Live
<1>4. pc["ui"] = "clear" => Live = {}
  BY <1>1 DEF StartInv, Live, Starters, Busy
<1>5. s_client = NULL /\ ~Starting("poll") /\ pc["ui"] = "destroy" => Live = {}
  BY <1>1 DEF StartInv, Live, Starters, Starting
<1>6. pc["ui"] = "stopped" => \A h \in Live : link[h] = "down"
  BY <1>3 DEF StartInv, LinkInv, Types
<1> QED BY <1>2, <1>3, <1>4, <1>5, <1>6

\* The types.
LEMMA TypesStep ==
  ASSUME Types, [Next]_vars PROVE Types'
<1> USE DEF clientVars, cfgVars, intervalVars, histVars, pageVars, taskVars,
            bounds, Goto, Excuse, Types, NULL, Page, Setters, Starters,
            Client, Places
<1>0. CASE UNCHANGED vars
  BY <1>0 DEF vars
<1>1. CASE HistoryRead
  BY <1>1 DEF HistoryRead, UiIdle
<1>2. CASE HistoryCopy
  BY <1>2 DEF HistoryCopy
<1>3. CASE TelemetryTest
  BY <1>3 DEF TelemetryTest
<1>4. CASE TelemetryPublish
  BY <1>4 DEF TelemetryPublish
<1>5. CASE WifiUp
  BY <1>5 DEF WifiUp
<1>6. CASE WifiDown
  BY <1>6 DEF WifiDown
<1>7. CASE WifiPoll
  BY <1>7 DEF WifiPoll
<1>8. CASE \E t \in Starters : StartTest(t)
  BY <1>8 DEF StartTest, AfterStart, Starting, Other
<1>9. CASE Clear
  BY <1>9 DEF Clear
<1>10. CASE CheckWifi
  BY <1>10 DEF CheckWifi, Starting
<1>11. CASE Stopped
  BY <1>11 DEF Stopped
<1>12. CASE \E h \in Handles : Online(h)
  BY <1>12 DEF Online
<1>13. CASE \E h \in Handles : Break(h)
  BY <1>13 DEF Break
<1>14. CASE \E h \in Handles : Offline(h)
  BY <1>14 DEF Offline
<1>15. CASE \E h \in Handles : Command(h)
  BY <1>15 DEF Command
<1>16. CASE \E h \in Handles : Answer(h)
  BY <1>16 DEF Answer, Entered
<1>17. CASE Boot
  BY <1>17, Constants DEF Boot, NoClients, AllIdle
<1>18. CASE \E t \in Starters : StartInit(t)
  BY <1>18 DEF StartInit, AfterStart
<1>19. CASE \E t \in Starters : StartAssign(t)
  BY <1>19 DEF StartAssign
<1>20. CASE \E t \in Starters : StartRun(t)
  BY <1>20 DEF StartRun, StartedClient, AfterStart
<1>21. CASE \E c \in Cfgs : SetCfg(c)
  BY <1>21 DEF SetCfg, UiCall, UiIdle
<1>22. CASE Destroy
  <2>1. CASE s_client = NULL
    BY <1>22, <2>1, LiveClients DEF Destroy, Gone, Meets, Starting
  <2>2. CASE s_client # NULL
    BY <1>22, <2>2, DestroyEffect DEF Starting
  <2> QED BY <2>1, <2>2
<1>23. CASE Disconnect
  BY <1>23 DEF Disconnect, UiCall, Gone, Meets, Starting, UiIdle
<1>24. CASE Connect
  BY <1>24 DEF Connect, UiIdle, StartedClient
<1>25. CASE \E v \in Steps : SaveInterval(v)
  <2>1. PICK v \in Steps : SaveInterval(v)
    BY <1>25
  <2>2. Clamped(v) \in Int /\ Clamped(v) # 0
    BY Constants, ClampedType
  <2> QED BY <2>1, <2>2 DEF SaveInterval, UiCall, SetInterval, UiIdle
<1>26. CASE SaveStores
  BY <1>26 DEF SaveStores, StoreInterval
<1>27. CASE \E h \in Handles : SubscribeAll(h)
  <2>1. PICK h \in Handles : SubscribeAll(h)
    BY <1>27
  <2> QED BY <2>1, SubscribeEffect
<1>28. CASE \E h \in Handles, v \in Requested : CommandInterval(h, v)
  <2>1. PICK h \in Handles, v \in Requested : CommandInterval(h, v)
    BY <1>28
  <2>2. Clamped(v) \in Int /\ Clamped(v) # 0
    BY Constants, ClampedType
  <2> QED BY <2>1, <2>2 DEF CommandInterval, Entered, SetInterval
<1>29. CASE \E h \in Handles : CommandStores(h)
  BY <1>29 DEF CommandStores, StoreInterval
<1> QED BY <1>0, <1>1, <1>2, <1>3, <1>4, <1>5, <1>6, <1>7, <1>8, <1>9, <1>10,
        <1>11, <1>12, <1>13, <1>14, <1>15, <1>16, <1>17, <1>18, <1>19, <1>20,
        <1>21, <1>22, <1>23, <1>24, <1>25, <1>26, <1>27, <1>28, <1>29 DEF Next,
        Start, UiSteps, Session, Cmds, Reboot

\* What ends a client ends its session, and both wait for its task.
LEMMA LinkStep ==
  ASSUME Types, LinkInv, [Next]_vars PROVE LinkInv'
<1> USE DEF clientVars, cfgVars, intervalVars, histVars, pageVars, taskVars,
            bounds, Goto, Excuse, Types, LinkInv, NULL
<1>0. CASE UNCHANGED vars \/ HistoryRead \/ HistoryCopy
  BY <1>0 DEF vars, HistoryRead, UiIdle, HistoryCopy
<1>1. CASE TelemetryTest \/ TelemetryPublish \/ WifiUp
  BY <1>1 DEF TelemetryTest, TelemetryPublish, WifiUp
<1>2. CASE WifiDown \/ WifiPoll
  BY <1>2 DEF WifiDown, WifiPoll
<1>3. CASE (\E t \in Starters : StartTest(t)) \/ (\E t \in Starters :
            StartAssign(t)) \/ (\E c \in Cfgs : SetCfg(c))
  BY <1>3 DEF StartTest, AfterStart, Starting, Other, StartAssign, SetCfg,
       UiCall, UiIdle
<1>4. CASE Clear \/ CheckWifi \/ Stopped
  BY <1>4 DEF Clear, CheckWifi, Starting, Stopped
<1>5. CASE (\E v \in Steps : SaveInterval(v)) \/ SaveStores
  BY <1>5 DEF SaveInterval, UiCall, SetInterval, UiIdle, SaveStores,
       StoreInterval
<1>6. CASE (\E h \in Handles : SubscribeAll(h)) \/ (\E h \in Handles :
            Break(h)) \/ (\E h \in Handles : Offline(h))
  BY <1>6 DEF SubscribeAll, Break, Offline
<1>7. CASE (\E h \in Handles : Command(h)) \/ (\E h \in Handles : Answer(h))
            \/ (\E h \in Handles, v \in Requested : CommandInterval(h, v))
  BY <1>7 DEF Command, Answer, Entered, CommandInterval, SetInterval
<1>8. CASE \E h \in Handles : CommandStores(h)
  BY <1>8 DEF CommandStores, StoreInterval
<1>9. CASE Boot
  BY <1>9 DEF Boot, NoClients, AllIdle
<1>10. CASE \E t \in Starters : StartInit(t)
  BY <1>10 DEF StartInit, AfterStart
<1>11. CASE \E t \in Starters : StartRun(t)
  BY <1>11 DEF StartRun, StartedClient, AfterStart
<1>12. CASE Destroy
  BY <1>12 DEF Destroy, Gone, Meets, Starting
<1>13. CASE Disconnect
  BY <1>13 DEF Disconnect, UiCall, Gone, Meets, Starting, UiIdle
<1>14. CASE Connect
  BY <1>14 DEF Connect, UiIdle, StartedClient
<1>15. CASE \E h \in Handles : Online(h)
  BY <1>15 DEF Online
<1> QED BY <1>0, <1>1, <1>2, <1>3, <1>4, <1>5, <1>6, <1>7, <1>8, <1>9, <1>10,
        <1>11, <1>12, <1>13, <1>14, <1>15 DEF Next, Start, UiSteps, Session,
        Cmds, Reboot

\* esp_mqtt_client_init() returns a client of its own; destroy and clear are two steps.
LEMMA HandleStep ==
  ASSUME Types, HandleInv, [Next]_vars PROVE HandleInv'
<1> USE DEF clientVars, cfgVars, intervalVars, histVars, pageVars, taskVars,
            bounds, Goto, Excuse, Types, HandleInv, Starters, Other, NULL,
            Client
<1>0. CASE UNCHANGED vars \/ HistoryRead \/ HistoryCopy
  BY <1>0 DEF vars, HistoryRead, UiIdle, HistoryCopy
<1>1. CASE TelemetryTest \/ TelemetryPublish \/ WifiUp
  BY <1>1 DEF TelemetryTest, TelemetryPublish, WifiUp
<1>2. CASE WifiDown \/ WifiPoll
  BY <1>2 DEF WifiDown, WifiPoll
<1>3. CASE (\E t \in Starters : StartTest(t)) \/ (\E c \in Cfgs : SetCfg(c))
            \/ CheckWifi
  BY <1>3 DEF StartTest, AfterStart, Starting, Other, SetCfg, UiCall, UiIdle,
       CheckWifi
<1>4. CASE Stopped \/ (\E v \in Steps : SaveInterval(v)) \/ SaveStores
  BY <1>4 DEF Stopped, SaveInterval, UiCall, SetInterval, UiIdle, SaveStores,
       StoreInterval
<1>5. CASE (\E h \in Handles : Online(h)) \/ (\E h \in Handles :
            SubscribeAll(h)) \/ (\E h \in Handles : Break(h))
  BY <1>5 DEF Online, SubscribeAll, Break
<1>6. CASE (\E h \in Handles : Offline(h)) \/ (\E h \in Handles : Command(h))
            \/ (\E h \in Handles : Answer(h))
  BY <1>6 DEF Offline, Command, Answer, Entered
<1>7. CASE (\E h \in Handles, v \in Requested : CommandInterval(h, v)) \/ (\E
            h \in Handles : CommandStores(h))
  BY <1>7 DEF CommandInterval, Entered, SetInterval, CommandStores,
       StoreInterval
<1>8. CASE Boot
  BY <1>8 DEF Boot, NoClients, AllIdle
<1>9. CASE \E t \in Starters : StartInit(t)
  BY <1>9 DEF StartInit, AfterStart
<1>10. CASE \E t \in Starters : StartAssign(t)
  BY <1>10 DEF StartAssign
<1>11. CASE \E t \in Starters : StartRun(t)
  BY <1>11 DEF StartRun, StartedClient, AfterStart
<1>12. CASE Destroy
  <2>1. CASE s_client = NULL
    BY <1>12, <2>1, LiveClients DEF Destroy, Gone, Meets, Starting
  <2>2. CASE s_client # NULL
    BY <1>12, <2>2, DestroyEffect DEF Starting
  <2> QED BY <2>1, <2>2
<1>13. CASE Clear
  BY <1>13 DEF Clear
<1>14. CASE Disconnect
  BY <1>14 DEF Disconnect, UiCall, Gone, Meets, Starting, UiIdle
<1>15. CASE Connect
  <2>1. CASE s_client = NULL
    BY <1>15, <2>1 DEF Connect, UiIdle, StartedClient
  <2>2. CASE s_client # NULL
    BY <1>15, <2>2 DEF Connect, UiIdle, StartedClient
  <2> QED BY <2>1, <2>2
<1> QED BY <1>0, <1>1, <1>2, <1>3, <1>4, <1>5, <1>6, <1>7, <1>8, <1>9, <1>10,
        <1>11, <1>12, <1>13, <1>14, <1>15 DEF Next, Start, UiSteps, Session,
        Cmds, Reboot

\* The interval is stored by the task that set it.
LEMMA IntervalStep ==
  ASSUME Types, IntervalInv, [Next]_vars PROVE IntervalInv'
<1> USE DEF clientVars, cfgVars, intervalVars, histVars, pageVars, taskVars,
            bounds, Goto, Excuse, Types, IntervalInv, NULL, Page, Setters,
            Handles
<1>0. CASE UNCHANGED vars
  BY <1>0 DEF vars
<1>1. CASE HistoryRead
  BY <1>1 DEF HistoryRead, UiIdle
<1>2. CASE HistoryCopy
  BY <1>2 DEF HistoryCopy
<1>3. CASE TelemetryTest
  BY <1>3 DEF TelemetryTest
<1>4. CASE TelemetryPublish
  BY <1>4 DEF TelemetryPublish
<1>5. CASE WifiUp
  BY <1>5 DEF WifiUp
<1>6. CASE WifiDown
  BY <1>6 DEF WifiDown
<1>7. CASE WifiPoll
  BY <1>7 DEF WifiPoll
<1>8. CASE \E t \in Starters : StartTest(t)
  BY <1>8 DEF StartTest, AfterStart, Starting, Other
<1>9. CASE \E t \in Starters : StartInit(t)
  BY <1>9 DEF StartInit, AfterStart
<1>10. CASE \E t \in Starters : StartAssign(t)
  BY <1>10 DEF StartAssign
<1>11. CASE \E t \in Starters : StartRun(t)
  BY <1>11 DEF StartRun, StartedClient, AfterStart
<1>12. CASE \E c \in Cfgs : SetCfg(c)
  BY <1>12 DEF SetCfg, UiCall, UiIdle
<1>13. CASE Destroy
  BY <1>13 DEF Destroy, Gone, Meets, Starting
<1>14. CASE Clear
  BY <1>14 DEF Clear
<1>15. CASE CheckWifi
  BY <1>15 DEF CheckWifi, Starting
<1>16. CASE Disconnect
  BY <1>16 DEF Disconnect, UiCall, Gone, Meets, Starting, UiIdle
<1>17. CASE Stopped
  BY <1>17 DEF Stopped
<1>18. CASE Connect
  BY <1>18 DEF Connect, UiIdle, StartedClient
<1>19. CASE \E h \in Handles : Online(h)
  BY <1>19 DEF Online
<1>20. CASE \E h \in Handles : SubscribeAll(h)
  BY <1>20 DEF SubscribeAll
<1>21. CASE \E h \in Handles : Break(h)
  BY <1>21 DEF Break
<1>22. CASE \E h \in Handles : Offline(h)
  BY <1>22 DEF Offline
<1>23. CASE \E h \in Handles : Command(h)
  BY <1>23 DEF Command
<1>24. CASE \E h \in Handles : Answer(h)
  BY <1>24 DEF Answer, Entered
<1>25. CASE Boot
  BY <1>25 DEF Boot, NoClients, AllIdle
<1>26. CASE \E v \in Steps : SaveInterval(v)
  <2>1. PICK v \in Steps : SaveInterval(v)
    BY <1>26
  <2>2. Clamped(v) \in Int /\ Clamped(v) # 0
    BY Constants, ClampedType
  <2> QED BY <2>1, <2>2 DEF SaveInterval, UiCall, SetInterval, UiIdle
<1>27. CASE SaveStores
  BY <1>27 DEF SaveStores, StoreInterval
<1>28. CASE \E h \in Handles, v \in Requested : CommandInterval(h, v)
  <2>1. PICK h \in Handles, v \in Requested : CommandInterval(h, v)
    BY <1>28
  <2>2. Clamped(v) \in Int /\ Clamped(v) # 0
    BY Constants, ClampedType
  <2> QED BY <2>1, <2>2 DEF CommandInterval, Entered, SetInterval
<1>29. CASE \E h \in Handles : CommandStores(h)
  BY <1>29 DEF CommandStores, StoreInterval
<1> QED BY <1>0, <1>1, <1>2, <1>3, <1>4, <1>5, <1>6, <1>7, <1>8, <1>9, <1>10,
        <1>11, <1>12, <1>13, <1>14, <1>15, <1>16, <1>17, <1>18, <1>19, <1>20,
        <1>21, <1>22, <1>23, <1>24, <1>25, <1>26, <1>27, <1>28, <1>29 DEF Next,
        Start, UiSteps, Session, Cmds, Reboot

\* Two tasks past the test in mqtt_start() is what "overlap" records.
LEMMA StartStep ==
  ASSUME Types, HandleInv, StartInv, [Next]_vars PROVE StartInv'
<1> USE DEF clientVars, cfgVars, intervalVars, histVars, pageVars, taskVars,
            bounds, Goto, Excuse, Types, HandleInv, StartInv, Busy, Live,
            NULL, Starters, Other
<1>0. CASE UNCHANGED vars \/ HistoryRead \/ HistoryCopy
  BY <1>0 DEF vars, HistoryRead, UiIdle, HistoryCopy
<1>1. CASE TelemetryTest \/ TelemetryPublish \/ WifiUp
  BY <1>1 DEF TelemetryTest, TelemetryPublish, WifiUp
<1>2. CASE WifiDown
  BY <1>2 DEF WifiDown
<1>3. CASE (\E v \in Steps : SaveInterval(v)) \/ SaveStores
  BY <1>3 DEF SaveInterval, UiCall, SetInterval, UiIdle, SaveStores,
       StoreInterval
<1>4. CASE (\E h \in Handles : Online(h)) \/ (\E h \in Handles :
            SubscribeAll(h)) \/ (\E h \in Handles : Break(h))
  BY <1>4 DEF Online, SubscribeAll, Break
<1>5. CASE (\E h \in Handles : Offline(h)) \/ (\E h \in Handles : Command(h))
            \/ (\E h \in Handles : Answer(h))
  BY <1>5 DEF Offline, Command, Answer, Entered
<1>6. CASE (\E h \in Handles, v \in Requested : CommandInterval(h, v)) \/ (\E
            h \in Handles : CommandStores(h))
  BY <1>6 DEF CommandInterval, Entered, SetInterval, CommandStores,
       StoreInterval
<1>7. CASE Boot
  BY <1>7 DEF Boot, NoClients, AllIdle
<1>8. CASE WifiPoll
  BY <1>8 DEF WifiPoll
<1>9. CASE \E t \in Starters : StartTest(t)
  BY <1>9 DEF StartTest, AfterStart, Starting, Other
<1>10. CASE \E t \in Starters : StartInit(t)
  BY <1>10 DEF StartInit, AfterStart
<1>11. CASE \E t \in Starters : StartAssign(t)
  BY <1>11 DEF StartAssign
<1>12. CASE \E t \in Starters : StartRun(t)
  BY <1>12 DEF StartRun, StartedClient, AfterStart
<1>13. CASE \E c \in Cfgs : SetCfg(c)
  BY <1>13 DEF SetCfg, UiCall, UiIdle
<1>14. CASE Destroy
  <2>1. CASE s_client = NULL
    BY <1>14, <2>1, LiveClients DEF Destroy, Gone, Meets, Starting
  <2>2. CASE s_client # NULL
    BY <1>14, <2>2, DestroyEffect DEF Starting
  <2> QED BY <2>1, <2>2
<1>15. CASE Clear
  BY <1>15 DEF Clear
<1>16. CASE CheckWifi
  BY <1>16 DEF CheckWifi, Starting
<1>17. CASE Disconnect
  BY <1>17 DEF Disconnect, UiCall, Gone, Meets, Starting, UiIdle
<1>18. CASE Stopped
  BY <1>18 DEF Stopped
<1>19. CASE Connect
  BY <1>19 DEF Connect, UiIdle, StartedClient
<1> QED BY <1>0, <1>1, <1>2, <1>3, <1>4, <1>5, <1>6, <1>7, <1>8, <1>9, <1>10,
        <1>11, <1>12, <1>13, <1>14, <1>15, <1>16, <1>17, <1>18, <1>19 DEF Next,
        Start, UiSteps, Session, Cmds, Reboot

\* The configuration of a client is the one of when it was made.
LEMMA CfgStep ==
  ASSUME Types, LinkInv, HandleInv, StartInv, CfgInv, [Next]_vars PROVE CfgInv'
<1> USE DEF clientVars, cfgVars, intervalVars, histVars, pageVars, taskVars,
            bounds, Goto, Excuse, Types, HandleInv, StartInv, CfgInv, Busy,
            Live, Replacing, Starters, NULL, Client
<1>0. CASE UNCHANGED vars \/ HistoryRead \/ HistoryCopy
  BY <1>0 DEF vars, HistoryRead, UiIdle, HistoryCopy
<1>1. CASE TelemetryTest \/ TelemetryPublish \/ WifiUp
  BY <1>1 DEF TelemetryTest, TelemetryPublish, WifiUp
<1>2. CASE WifiDown \/ WifiPoll
  BY <1>2 DEF WifiDown, WifiPoll
<1>3. CASE (\E t \in Starters : StartAssign(t)) \/ CheckWifi \/ Stopped
  BY <1>3 DEF StartAssign, CheckWifi, Starting, Stopped
<1>4. CASE (\E v \in Steps : SaveInterval(v)) \/ SaveStores
  BY <1>4 DEF SaveInterval, UiCall, SetInterval, UiIdle, SaveStores,
       StoreInterval
<1>5. CASE (\E h \in Handles : Online(h)) \/ (\E h \in Handles :
            SubscribeAll(h)) \/ (\E h \in Handles : Break(h))
  BY <1>5 DEF Online, SubscribeAll, Break
<1>6. CASE (\E h \in Handles : Offline(h)) \/ (\E h \in Handles : Command(h))
            \/ (\E h \in Handles : Answer(h))
  BY <1>6 DEF Offline, Command, Answer, Entered
<1>7. CASE (\E h \in Handles, v \in Requested : CommandInterval(h, v)) \/ (\E
            h \in Handles : CommandStores(h))
  BY <1>7 DEF CommandInterval, Entered, SetInterval, CommandStores,
       StoreInterval
<1>8. CASE Boot
  BY <1>8 DEF Boot, NoClients, AllIdle
<1>9. CASE \E t \in Starters : StartTest(t)
  BY <1>9 DEF StartTest, AfterStart, Starting, Other
<1>10. CASE \E t \in Starters : StartInit(t)
  BY <1>10 DEF StartInit, AfterStart
<1>11. CASE \E t \in Starters : StartRun(t)
  BY <1>11 DEF StartRun, StartedClient, AfterStart
<1>12. CASE \E c \in Cfgs : SetCfg(c)
  BY <1>12 DEF SetCfg, UiCall, UiIdle
<1>13. CASE Destroy
  <2>1. CASE s_client = NULL
    BY <1>13, <2>1, LiveClients DEF Destroy, Gone, Meets, Starting
  <2>2. CASE s_client # NULL
    BY <1>13, <2>2, DestroyEffect DEF Starting
  <2> QED BY <2>1, <2>2
<1>14. CASE Clear
  BY <1>14, LiveClients DEF Clear
<1>15. CASE Disconnect
  BY <1>15 DEF Disconnect, UiCall, Gone, Meets, Starting, UiIdle
<1>16. CASE Connect
  <2>1. CASE s_client = NULL
    BY <1>16, <2>1 DEF Connect, UiIdle, StartedClient
  <2>2. CASE s_client # NULL
    BY <1>16, <2>2 DEF Connect, UiIdle, StartedClient
  <2> QED BY <2>1, <2>2
<1> QED BY <1>0, <1>1, <1>2, <1>3, <1>4, <1>5, <1>6, <1>7, <1>8, <1>9, <1>10,
        <1>11, <1>12, <1>13, <1>14, <1>15, <1>16 DEF Next, Start, UiSteps,
        Session, Cmds, Reboot

\* A session is subscribed by its own task, which finds its client in s_client.
LEMMA SubsStep ==
  ASSUME Types, LinkInv, HandleInv, StartInv, SubsInv, [Next]_vars PROVE SubsInv'
<1> USE DEF clientVars, cfgVars, intervalVars, histVars, pageVars, taskVars,
            bounds, Goto, Excuse, Types, LinkInv, HandleInv, StartInv,
            SubsInv, Busy, Live, Starters, NULL
<1>0. CASE UNCHANGED vars \/ HistoryRead \/ HistoryCopy
  BY <1>0 DEF vars, HistoryRead, UiIdle, HistoryCopy
<1>1. CASE TelemetryTest \/ TelemetryPublish \/ WifiUp
  BY <1>1 DEF TelemetryTest, TelemetryPublish, WifiUp
<1>2. CASE WifiDown \/ WifiPoll
  BY <1>2 DEF WifiDown, WifiPoll
<1>3. CASE (\E t \in Starters : StartAssign(t)) \/ (\E c \in Cfgs : SetCfg(c))
            \/ Clear
  BY <1>3 DEF StartAssign, SetCfg, UiCall, UiIdle, Clear
<1>4. CASE CheckWifi \/ Stopped \/ (\E v \in Steps : SaveInterval(v))
  BY <1>4 DEF CheckWifi, Starting, Stopped, SaveInterval, UiCall, SetInterval,
       UiIdle
<1>5. CASE SaveStores
  BY <1>5 DEF SaveStores, StoreInterval
<1>6. CASE (\E h \in Handles : Command(h)) \/ (\E h \in Handles : Answer(h))
            \/ (\E h \in Handles, v \in Requested : CommandInterval(h, v))
  BY <1>6 DEF Command, Answer, Entered, CommandInterval, SetInterval
<1>7. CASE \E h \in Handles : CommandStores(h)
  BY <1>7 DEF CommandStores, StoreInterval
<1>8. CASE Boot
  BY <1>8 DEF Boot, NoClients, AllIdle
<1>9. CASE \E t \in Starters : StartTest(t)
  BY <1>9 DEF StartTest, AfterStart, Starting, Other
<1>10. CASE \E t \in Starters : StartInit(t)
  BY <1>10 DEF StartInit, AfterStart
<1>11. CASE \E t \in Starters : StartRun(t)
  BY <1>11 DEF StartRun, StartedClient, AfterStart
<1>12. CASE Destroy
  BY <1>12 DEF Destroy, Gone, Meets, Starting
<1>13. CASE Disconnect
  BY <1>13 DEF Disconnect, UiCall, Gone, Meets, Starting, UiIdle
<1>14. CASE Connect
  BY <1>14 DEF Connect, UiIdle, StartedClient
<1>15. CASE \E h \in Handles : Online(h)
  BY <1>15 DEF Online
<1>16. CASE \E h \in Handles : SubscribeAll(h)
  <2>1. PICK h \in Handles : SubscribeAll(h)
    BY <1>16
  <2>2. client[h].st = "started"
    BY <2>1, SubscribeEffect DEF LinkInv
  <2>3. "overlap" \notin excused => h = s_client /\ h # NULL
    BY <2>2, LiveClients DEF Handles, NULL
  <2>4. CASE "overlap" \notin excused
    BY <2>1, <2>3, <2>4, SubscribeEffect DEF SubsInv, Live, Types
  <2>5. CASE "overlap" \in excused
    BY <2>1, <2>5, SubscribeEffect DEF SubsInv
  <2> QED BY <2>4, <2>5
<1>17. CASE \E h \in Handles : Break(h)
  BY <1>17 DEF Break
<1>18. CASE \E h \in Handles : Offline(h)
  BY <1>18 DEF Offline
<1> QED BY <1>0, <1>1, <1>2, <1>3, <1>4, <1>5, <1>6, <1>7, <1>8, <1>9, <1>10,
        <1>11, <1>12, <1>13, <1>14, <1>15, <1>16, <1>17, <1>18 DEF Next,
        Start, UiSteps, Session, Cmds, Reboot

\* The flag follows the events, and the calls that end a session.
LEMMA StatusStep ==
  ASSUME Types, LinkInv, HandleInv, StartInv, StatusInv, [Next]_vars PROVE StatusInv'
<1> USE DEF clientVars, cfgVars, intervalVars, histVars, pageVars, taskVars,
            bounds, Goto, Excuse, Types, LinkInv, HandleInv, StartInv,
            StatusInv, Busy, Live, Starters, NULL
<1>0. CASE UNCHANGED vars \/ HistoryRead \/ HistoryCopy
  BY <1>0 DEF vars, HistoryRead, UiIdle, HistoryCopy
<1>1. CASE TelemetryTest \/ TelemetryPublish \/ WifiUp
  BY <1>1 DEF TelemetryTest, TelemetryPublish, WifiUp
<1>2. CASE WifiDown \/ WifiPoll
  BY <1>2 DEF WifiDown, WifiPoll
<1>3. CASE (\E t \in Starters : StartAssign(t)) \/ (\E c \in Cfgs : SetCfg(c))
            \/ (\E v \in Steps : SaveInterval(v))
  BY <1>3 DEF StartAssign, SetCfg, UiCall, UiIdle, SaveInterval, SetInterval
<1>4. CASE SaveStores
  BY <1>4 DEF SaveStores, StoreInterval
<1>5. CASE (\E h \in Handles : SubscribeAll(h)) \/ (\E h \in Handles :
            Command(h)) \/ (\E h \in Handles : Answer(h))
  BY <1>5 DEF SubscribeAll, Command, Answer, Entered
<1>6. CASE (\E h \in Handles, v \in Requested : CommandInterval(h, v)) \/ (\E
            h \in Handles : CommandStores(h))
  BY <1>6 DEF CommandInterval, Entered, SetInterval, CommandStores,
       StoreInterval
<1>7. CASE Boot
  BY <1>7 DEF Boot, NoClients, AllIdle
<1>8. CASE \E t \in Starters : StartTest(t)
  BY <1>8 DEF StartTest, AfterStart, Starting, Other
<1>9. CASE \E t \in Starters : StartInit(t)
  BY <1>9 DEF StartInit, AfterStart
<1>10. CASE \E t \in Starters : StartRun(t)
  BY <1>10 DEF StartRun, StartedClient, AfterStart
<1>11. CASE Destroy
  <2>1. CASE s_client = NULL
    BY <1>11, <2>1, LiveClients DEF Destroy, Gone, Meets, Starting
  <2>2. CASE s_client # NULL
    BY <1>11, <2>2, DestroyEffect DEF Starting
  <2> QED BY <2>1, <2>2
<1>12. CASE Clear
  BY <1>12, LiveClients DEF Clear
<1>13. CASE CheckWifi
  BY <1>13 DEF CheckWifi, Starting
<1>14. CASE Disconnect
  BY <1>14 DEF Disconnect, UiCall, Gone, Meets, Starting, UiIdle
<1>15. CASE Stopped
  BY <1>15, LiveClients DEF Stopped
<1>16. CASE Connect
  BY <1>16 DEF Connect, UiIdle, StartedClient
<1>17. CASE \E h \in Handles : Online(h)
  BY <1>17 DEF Online
<1>18. CASE \E h \in Handles : Break(h)
  BY <1>18 DEF Break
<1>19. CASE \E h \in Handles : Offline(h)
  BY <1>19, LiveClients DEF Offline
<1> QED BY <1>0, <1>1, <1>2, <1>3, <1>4, <1>5, <1>6, <1>7, <1>8, <1>9, <1>10,
        <1>11, <1>12, <1>13, <1>14, <1>15, <1>16, <1>17, <1>18, <1>19 DEF Next,
        Start, UiSteps, Session, Cmds, Reboot

-----------------------------------------------------------------------------
\* Init, a boot with the configuration of Kconfig, has no client.
LEMMA InitInv == ASSUME Init PROVE IInv
<1>1. /\ s_client = NULL /\ client = NoClients /\ link = [h \in Handles |-> "down"]
      /\ ev = [h \in Handles |-> "idle"] /\ subs = [h \in Handles |-> {}]
      /\ storing = [t \in Setters |-> 0] /\ pc = AllIdle
      /\ made = [t \in Starters |-> NULL] /\ s_cfg = DefaultCfg /\ nvsCfg = DefaultCfg
      /\ s_ext_subs = BootSubs /\ s_mqtt_connected = FALSE /\ s_interval = nvsInterval
  BY DEF Init
<1>2. Types
  BY <1>1, Constants DEF Types, NoClients, AllIdle, Client, Places, Setters, Starters
<1>3. LinkInv /\ HandleInv /\ IntervalInv
  BY <1>1 DEF LinkInv, HandleInv, IntervalInv, AllIdle, Page, Setters, Starters, NULL
<1>4. Live = {}
  BY <1>1 DEF Live, NoClients
<1>5. StartInv
  BY <1>1, <1>4 DEF StartInv, Busy, AllIdle, Starters, NULL
<1>6. CfgInv /\ SubsInv /\ StatusInv
  BY <1>1, <1>4 DEF CfgInv, SubsInv, StatusInv
<1> QED BY <1>2, <1>3, <1>5, <1>6 DEF IInv

\* The parts together are preserved by every step, a reboot among them.
LEMMA StepInv == ASSUME IInv, [Next]_vars PROVE IInv'
BY TypesStep, LinkStep, HandleStep, IntervalStep, StartStep, CfgStep, SubsStep,
   StatusStep DEF IInv

\* They hold in every state.
LEMMA Inductive == Spec => []IInv
<1>1. Init => IInv
  BY InitInv
<1>2. IInv /\ [Next]_vars => IInv'
  BY StepInv
<1> QED BY <1>1, <1>2, PTL DEF Spec

-----------------------------------------------------------------------------
(* The handle that telemetry tests and uses without a lock is never that of *)
(* a client mqtt_teardown() has destroyed, but for the moment before        *)
(* s_client is cleared.                                                     *)
THEOREM HandleLive == Spec => []HandleIsLive
<1>1. IInv => HandleIsLive
  BY DEF IInv, HandleInv, HandleIsLive
<1> QED BY <1>1, Inductive, PTL

(* mqtt_manager_set_interval() leaves in NVS the interval in use, however   *)
(* the interval page and the command set_interval follow one another,       *)
(* unless they overlap or nvs_set fails; a reboot brings it back.           *)
THEOREM IntervalSurvives == Spec => []IntervalKept
<1>1. IInv => IntervalKept
  BY DEF IInv, IntervalInv, IntervalKept
<1> QED BY <1>1, Inductive, PTL

(* However the poll, the pages and the client's events interleave, the      *)
(* status page says "Connected" of a session there is, until wifi_poll_cb() *)
(* meets the LVGL task in mqtt_start().                                     *)
THEOREM StatusTrue == Spec => []StatusIsTrue
<1>1. IInv => StatusIsTrue
  BY DEF IInv, StatusInv, StatusIsTrue, Settled
<1> QED BY <1>1, Inductive, PTL

\* Until two tasks meet in mqtt_start() there is one client at most.
LEMMA LiveSame ==
  ASSUME IInv, "overlap" \notin excused, NEW g \in Live, NEW h \in Live
  PROVE  g = h
<1>1. g # NULL /\ h # NULL
  BY DEF Live, Handles, NULL
<1> QED BY <1>1 DEF IInv, StartInv, Starters, Busy

\* So the one in s_client is all there is, between calls.
LEMMA OneLive ==
  ASSUME IInv, "overlap" \notin excused
  PROVE  /\ Cardinality(Live) <= 1
         /\ Settled => Live = {s_client} \ {NULL}
<1> USE DEF IInv
<1>1. ASSUME NEW g \in Live, NEW h \in Live PROVE g = h
  BY LiveSame DEF IInv
<1>2. Cardinality(Live) <= 1
  <2>1. CASE Live = {}
    <3>1. Cardinality(Live) = 0
      BY <2>1, FS_EmptySet, Zenon
    <3> QED BY <3>1
  <2>2. CASE Live # {}
    <3>1. PICK h : h \in Live
      BY <2>2
    <3>2. Live = {h}
      BY <1>1, <3>1
    <3>3. Cardinality(Live) = 1
      BY <3>2, FS_Singleton, Zenon
    <3> QED BY <3>3
  <2> QED BY <2>1, <2>2
<1>3. ASSUME Settled PROVE Live = {s_client} \ {NULL}
  <2>1. Live \subseteq {s_client}
    <3>1. \A t \in Starters : made[t] = NULL
      BY <1>3 DEF StartInv, Starters, Settled
    <3>2. \A h \in Live : h # NULL
      BY DEF Live, Handles, NULL
    <3> QED BY <3>1, <3>2 DEF StartInv, Starters
  <2>2. s_client # NULL => s_client \in Live
    BY <1>3 DEF HandleInv, Settled, Live, Types, Client
  <2>3. NULL \notin Live
    BY DEF Live, Handles, NULL
  <2> QED BY <2>1, <2>2, <2>3
<1> QED BY <1>2, <1>3

(* Whatever the poll, the pages and the broker do, until wifi_poll_cb()     *)
(* meets the LVGL task in mqtt_start() or a save fails: one client at most, *)
(* the one in s_client between calls, with the configuration shown and, in  *)
(* a session, subscribed to the commands and to the PC's performance.       *)
THEOREM ClientIsSound == Spec => []ClientSound
<1>1. ASSUME IInv PROVE ClientSound
  <2>1. SUFFICES ASSUME {"overlap", "unsaved"} \cap excused = {}
                 PROVE  /\ Cardinality(Live) <= 1
                        /\ Settled => Live = {s_client} \ {NULL}
                        /\ \A h \in Live :
                             /\ ~Replacing => client[h].cfg = s_cfg
                             /\ link[h] = "up" /\ ev[h] # "connected"
                                  => subs[h] = {CmdTopic, PerfTopic}
    BY DEF ClientSound
  <2>2. "overlap" \notin excused
    BY <2>1
  <2>3. \A h \in Live :
          /\ ~Replacing => client[h].cfg = s_cfg
          /\ link[h] = "up" /\ ev[h] # "connected" => subs[h] = {CmdTopic, PerfTopic}
    BY <1>1, <2>1, <2>2 DEF IInv, CfgInv, SubsInv
  <2> QED BY <1>1, <2>2, <2>3, OneLive
<1> QED BY <1>1, Inductive, PTL

-----------------------------------------------------------------------------
(* Slots of the command ring: counters modulo its size. *)

\* Quotient and remainder.
LEMMA DivMod ==
  ASSUME NEW N \in Nat \ {0}, NEW a \in Int
  PROVE  /\ a \div N \in Int
         /\ a % N \in 0 .. N - 1
         /\ a = N * (a \div N) + (a % N)
BY SMT

\* Two counters a multiple of N and less than N apart are equal.
LEMMA SameSlot ==
  ASSUME NEW N \in Nat \ {0}, NEW k \in Int, NEW d \in Int, NEW r \in 0 .. N - 1,
         NEW s \in 0 .. N - 1, r - s = N * k
  PROVE  k = 0 /\ r = s
<1>1. CASE k >= 1
  <2>1. N * k >= N * 1
    BY <1>1
  <2> QED BY <2>1
<1>2. CASE k <= -1
  <2>1. N * k <= N * (-1)
    BY <1>2
  <2> QED BY <2>1
<1>3. CASE k = 0
  BY <1>3
<1> QED BY <1>1, <1>2, <1>3

\* Whole turns of the ring lead to the same slot.
LEMMA WholeTurns ==
  ASSUME NEW N \in Nat \ {0}, NEW a \in Int, NEW k \in Int
  PROVE  (a + N * k) % N = a % N
<1> DEFINE b == a + N * k
           p == a \div N
           q == b \div N
           r == a % N
           s == b % N
<1>1. /\ a = N * p + r /\ p \in Int /\ r \in 0 .. N - 1
      /\ b = N * q + s /\ q \in Int /\ s \in 0 .. N - 1
  <2>1. b \in Int
    OBVIOUS
  <2> HIDE DEF b
  <2> QED BY <2>1, DivMod
<1>2. b = a + N * k
  OBVIOUS
<1> HIDE DEF p, q, r, s, b
<1>3. r - s = N * (q - p - k)
  BY <1>1, <1>2
<1>4. q - p - k \in Int
  BY <1>1
<1>5. r = s
  BY <1>1, <1>3, <1>4, SameSlot
<1> QED BY <1>5 DEF r, s, b

\* A number below N is its own slot, and N is slot 0.
LEMMA FirstTurn ==
  ASSUME NEW N \in Nat \ {0}, NEW a \in 0 .. N - 1
  PROVE  a % N = a /\ N % N = 0
<1>1. a % N = a
  <2> DEFINE q == a \div N
  <2>1. a = N * q + (a % N) /\ q \in Int /\ a % N \in 0 .. N - 1
    BY DivMod
  <2> HIDE DEF q
  <2>2. a - (a % N) = N * q
    BY <2>1
  <2> QED BY <2>1, <2>2, SameSlot
<1>2. N % N = 0
  <2>1. (0 + N * 1) % N = 0 % N
    BY WholeTurns
  <2>2. 0 % N = 0
    <3> DEFINE q == 0 \div N
    <3>1. 0 = N * q + (0 % N) /\ q \in Int /\ 0 % N \in 0 .. N - 1
      BY DivMod
    <3> HIDE DEF q
    <3>2. 0 - (0 % N) = N * q
      BY <3>1
    <3> QED BY <3>1, <3>2, SameSlot
  <2> QED BY <2>1, <2>2
<1> QED BY <1>1, <1>2

\* A distance from a slot may be counted from its number.
LEMMA SlotPlus ==
  ASSUME NEW N \in Nat \ {0}, NEW a \in Int, NEW d \in Int
  PROVE  ((a % N) + d) % N = (a + d) % N
<1> DEFINE q == a \div N
           r == a % N
<1>1. a = N * q + r /\ q \in Int /\ r \in Int
  BY DivMod
<1> HIDE DEF q, r
<1>2. r + d = (a + d) + N * (-q)
  <2>1. N * (-q) = -(N * q) /\ N * q \in Int
    BY <1>1
  <2> QED BY <1>1, <2>1
<1>3. a + d \in Int /\ -q \in Int
  BY <1>1
<1> QED BY <1>2, <1>3, WholeTurns DEF r

\* Counters less than N apart are in slots of their own.
LEMMA OwnSlot ==
  ASSUME NEW N \in Nat \ {0}, NEW a \in Int, NEW b \in Int, a < b, b < a + N
  PROVE  a % N # b % N
<1> SUFFICES ASSUME a % N = b % N PROVE FALSE
  OBVIOUS
<1> DEFINE p == a \div N
           q == b \div N
<1>1. /\ a = N * p + (a % N) /\ p \in Int /\ a % N \in 0 .. N - 1
      /\ b = N * q + (b % N) /\ q \in Int /\ b % N \in 0 .. N - 1
  BY DivMod
<1> HIDE DEF p, q
<1>2. b - a = N * (q - p) /\ q - p \in Int
  BY <1>1
<1>3. b - a \in 0 .. N - 1 /\ 0 \in 0 .. N - 1 /\ (b - a) - 0 = N * (q - p)
  BY <1>2
<1>4. b - a = 0
  BY <1>2, <1>3, SameSlot
<1> QED BY <1>4

-----------------------------------------------------------------------------
(* The command ring and the list on the history page. *)

\* The commands the ring has taken, and those of k it still holds.
Taken == IF Entering THEN received - 1 ELSE received
Kept(k) == IF k < NHist THEN k ELSE NHist

HistTypes ==
  /\ received \in Nat
  /\ s_cmd_hist \in [0 .. NHist - 1 -> Int]
  /\ s_cmd_hist_pos \in 0 .. NHist - 1 /\ s_cmd_hist_count \in 0 .. NHist
  /\ rd.seen \in Nat /\ rd.clean \in BOOLEAN

\* Until two clients are started the position and the count say what the ring
\* has taken, its slots hold the last commands, one of them perhaps not counted
\* yet, and what the page read between two commands is what to copy.
RingInv ==
  "overlap" \notin excused =>
    /\ Taken \in Nat
    /\ s_cmd_hist_pos = Taken % NHist
    /\ s_cmd_hist_count = Kept(Taken)
    /\ \A k \in 1 .. received :
         k > received - NHist => s_cmd_hist[(k - 1) % NHist] = k
    /\ pc["page"] = "copy" /\ rd.clean =>
         rd.pos = rd.seen % NHist /\ rd.count = Kept(rd.seen)
    /\ pc["page"] = "idle" /\ rd.clean => shown = LastOf(rd.seen, Kept(rd.seen))

HistInv == HistTypes /\ RingInv


\* The ring has a slot.
LEMMA HistConstants == NHist \in Nat \ {0} /\ MaxCmds \in Nat
BY MqttAssumption

\* One client handles one command at a time.
LEMMA OneCommand ==
  ASSUME IInv, "overlap" \notin excused, NEW g \in Handles, NEW h \in Handles,
         ev[g] = "entered", link[h] = "up" \/ ev[h] # "idle"
  PROVE  g = h
<1>1. client[g].st = "started" /\ client[h].st = "started"
  BY DEF IInv, LinkInv
<1>2. g \in Live /\ h \in Live
  BY <1>1 DEF Live
<1> QED BY <1>2, LiveSame

\* A step that leaves the ring and the list alone.
LEMMA HistSame ==
  ASSUME HistInv, UNCHANGED <<histVars, shown, rd>>, Entering' = Entering,
         pc'["page"] = pc["page"], "overlap" \notin excused' => "overlap" \notin excused
  PROVE  HistInv'
BY DEF HistInv, HistTypes, RingInv, histVars, Taken

\* cmd_history_add() overwrites the oldest command only.
LEMMA CommandHist ==
  ASSUME IInv, HistInv, NEW h \in Handles, Command(h)
  PROVE  HistInv'
<1> USE DEF HistInv
<1>1. /\ link[h] = "up" /\ ev[h] = "idle"
      /\ received' = received + 1
      /\ s_cmd_hist' = [s_cmd_hist EXCEPT ![s_cmd_hist_pos] = received + 1]
      /\ ev' = [ev EXCEPT ![h] = "entered"]
      /\ UNCHANGED <<s_cmd_hist_pos, s_cmd_hist_count, rd, shown, pc, excused>>
  BY DEF Command, pageVars, taskVars
<1>2. HistTypes'
  BY <1>1 DEF HistTypes
<1>3. ASSUME "overlap" \notin excused'
      PROVE  RingInv'
  <2>1. "overlap" \notin excused
    BY <1>1, <1>3
  <2>2. ~Entering
    BY <1>1, <2>1, OneCommand DEF Entering
  <2>3. Entering'
    BY <1>1 DEF Entering, IInv, Types
  <2>4. Taken = received /\ Taken' = received /\ received \in Nat
    BY <1>1, <2>2, <2>3 DEF Taken, HistTypes
  <2>5. s_cmd_hist_pos = received % NHist
    BY <2>1, <2>4 DEF RingInv
  <2>6. ASSUME NEW k \in 1 .. received', k > received' - NHist
        PROVE  s_cmd_hist'[(k - 1) % NHist] = k
    <3>1. CASE k = received + 1
      <4>1. received % NHist \in 0 .. NHist - 1
        BY <2>4, HistConstants, DivMod
      <4>2. (k - 1) % NHist = received % NHist
        BY <2>4, <3>1
      <4> QED BY <1>1, <2>5, <3>1, <4>1, <4>2 DEF HistTypes
    <3>2. CASE k # received + 1
      <4>1. /\ k \in 1 .. received /\ k > received - NHist
            /\ k - 1 < received /\ received < (k - 1) + NHist
        BY <1>1, <2>4, <2>6, <3>2, HistConstants
      <4>2. (k - 1) % NHist # received % NHist
        <5>1. k - 1 \in Int /\ received \in Int
          BY <2>4, <4>1
        <5> QED BY <4>1, <5>1, HistConstants, OwnSlot
      <4>3. (k - 1) % NHist \in 0 .. NHist - 1
        BY <4>1, HistConstants, DivMod
      <4>4. s_cmd_hist[(k - 1) % NHist] = k
        BY <2>1, <4>1 DEF RingInv
      <4> QED BY <1>1, <2>5, <4>2, <4>3, <4>4 DEF HistTypes
    <3> QED BY <3>1, <3>2
  <2> QED BY <1>1, <2>1, <2>4, <2>6 DEF RingInv
<1> QED BY <1>2, <1>3 DEF RingInv

\* Then the position and the count follow.
LEMMA EnteredHist ==
  ASSUME IInv, HistInv, NEW h \in Handles, NEW then, then # "entered",
         Entered(h, then), UNCHANGED <<rd, shown, pc>>,
         "overlap" \notin excused' => "overlap" \notin excused
  PROVE  HistInv'
<1> USE DEF HistInv
<1>1. /\ ev[h] = "entered"
      /\ s_cmd_hist_pos' = (s_cmd_hist_pos + 1) % NHist
      /\ s_cmd_hist_count' = IF s_cmd_hist_count < NHist THEN s_cmd_hist_count + 1
                                                         ELSE s_cmd_hist_count
      /\ ev' = [ev EXCEPT ![h] = then]
      /\ UNCHANGED <<s_cmd_hist, received>>
  BY DEF Entered
<1>2. HistTypes'
  <2>1. (s_cmd_hist_pos + 1) % NHist \in 0 .. NHist - 1
    <3>1. s_cmd_hist_pos + 1 \in Int
      BY HistConstants DEF HistTypes
    <3> QED BY <3>1, HistConstants, DivMod
  <2>2. s_cmd_hist_count' \in 0 .. NHist
    BY <1>1, HistConstants DEF HistTypes
  <2> QED BY <1>1, <2>1, <2>2 DEF HistTypes
<1>3. ASSUME "overlap" \notin excused'
      PROVE  RingInv'
  <2>1. "overlap" \notin excused
    BY <1>3
  <2>2. Entering /\ Taken = received - 1
    BY <1>1 DEF Entering, Taken
  <2>3. ~Entering'
    <3>1. \A g \in Handles : ev[g] = "entered" => g = h
      BY <1>1, <2>1, OneCommand
    <3> QED BY <1>1, <3>1 DEF Entering, IInv, Types
  <2>4. Taken' = received /\ received \in Nat /\ received - 1 \in Nat
    BY <1>1, <2>1, <2>2, <2>3 DEF Taken, HistTypes, RingInv
  <2>5. s_cmd_hist_pos' = received % NHist
    <3>1. s_cmd_hist_pos = (received - 1) % NHist
      BY <2>1, <2>2 DEF RingInv
    <3>2. (((received - 1) % NHist) + 1) % NHist = ((received - 1) + 1) % NHist
      <4>1. received - 1 \in Int /\ 1 \in Int
        BY <2>4
      <4> QED BY <4>1, HistConstants, SlotPlus
    <3> QED BY <1>1, <2>4, <3>1, <3>2
  <2>6. s_cmd_hist_count' = Kept(received)
    <3>1. s_cmd_hist_count = Kept(received - 1)
      BY <2>1, <2>2 DEF RingInv
    <3> QED BY <1>1, <2>4, <3>1, HistConstants DEF Kept
  <2> QED BY <1>1, <2>1, <2>4, <2>5, <2>6 DEF RingInv
<1> QED BY <1>2, <1>3 DEF RingInv

\* What mqtt_manager_get_cmd_history() copies out of the ring.
LEMMA ListedIsLast ==
  ASSUME NEW hist, NEW k \in Nat,
         \A c \in 1 .. k : c > k - NHist => hist[(c - 1) % NHist] = c
  PROVE  Listed(hist, k % NHist, Kept(k)) = LastOf(k, Kept(k))
<1> DEFINE n == Kept(k)
           start == ((k % NHist) + NHist - n) % NHist
<1>1. NHist \in Nat \ {0} /\ k % NHist \in 0 .. NHist - 1
  BY HistConstants, DivMod
<1>2. n \in Nat /\ n <= k /\ n <= NHist
  BY <1>1 DEF Kept
<1>3. start = (k - n) % NHist
  <2>1. (k % NHist) + NHist - n = (k % NHist) + (NHist - n) /\ NHist - n \in Int
    BY <1>1, <1>2
  <2>2. ((k % NHist) + (NHist - n)) % NHist = (k + (NHist - n)) % NHist
    <3>1. k \in Int /\ NHist - n \in Int
      BY <2>1
    <3> QED BY <1>1, <3>1, SlotPlus
  <2>3. k + (NHist - n) = (k - n) + NHist * 1 /\ k - n \in Int
    BY <1>1, <1>2
  <2>4. ((k - n) + NHist * 1) % NHist = (k - n) % NHist
    <3>1. k - n \in Int /\ 1 \in Int
      BY <2>3
    <3> QED BY <1>1, <3>1, WholeTurns
  <2> HIDE DEF n
  <2> QED BY <2>1, <2>2, <2>3, <2>4
<1> HIDE DEF n, start
<1>4. ASSUME NEW i \in 1 .. n
      PROVE  hist[(start + i - 1) % NHist] = k - n + i
  <2>1. ((k - n) % NHist) + (i - 1) = start + i - 1
    <3>1. (k - n) % NHist \in Int
      BY <1>1, <1>2, DivMod
    <3> QED BY <1>2, <1>3, <3>1
  <2>2. (((k - n) % NHist) + (i - 1)) % NHist = ((k - n) + (i - 1)) % NHist
    <3>1. k - n \in Int /\ i - 1 \in Int
      BY <1>2
    <3> QED BY <1>1, <3>1, SlotPlus
  <2>3. /\ (k - n) + (i - 1) = (k - n + i) - 1
        /\ k - n + i \in 1 .. k /\ k - n + i > k - NHist
    BY <1>1, <1>2
  <2>4. hist[((k - n + i) - 1) % NHist] = k - n + i
    BY <2>3
  <2> QED BY <2>1, <2>2, <2>3, <2>4
<1>5. Listed(hist, k % NHist, n) = [i \in 1 .. n |-> hist[(start + i - 1) % NHist]]
  BY DEF Listed, start
<1> QED BY <1>4, <1>5 DEF LastOf, n

\* What the page reads first.
LEMMA ReadHist ==
  ASSUME IInv, HistInv, HistoryRead
  PROVE  HistInv'
<1> USE DEF HistInv
<1>1. /\ rd' = [pos |-> s_cmd_hist_pos, count |-> s_cmd_hist_count,
                seen |-> received, clean |-> ~Entering]
      /\ pc' = [pc EXCEPT !["page"] = "copy"]
      /\ UNCHANGED <<histVars, shown, ev, excused>>
  BY DEF HistoryRead, Goto, clientVars
<1>2. pc'["page"] = "copy"
  BY <1>1 DEF IInv, Types
<1>3. Entering' = Entering /\ Taken' = Taken
  BY <1>1 DEF Entering, Taken, histVars
<1>4. rd'.clean => Taken = received
  BY <1>1 DEF Taken
<1>5. Entering \in BOOLEAN
  BY DEF Entering
<1>6. HistTypes'
  BY <1>1, <1>5 DEF HistTypes, histVars
<1> QED BY <1>1, <1>2, <1>3, <1>4, <1>6 DEF RingInv, histVars

\* And copies.
LEMMA CopyHist ==
  ASSUME IInv, HistInv, HistoryCopy
  PROVE  HistInv'
<1> USE DEF HistInv
<1>1. /\ pc["page"] = "copy"
      /\ shown' = Listed(s_cmd_hist, rd.pos, rd.count)
      /\ rd' = [NoRead EXCEPT !.seen = rd.seen,
                        !.clean = rd.clean /\ ~Entering /\ received = rd.seen]
      /\ pc' = [pc EXCEPT !["page"] = "idle"]
      /\ UNCHANGED <<histVars, ev, excused>>
  BY DEF HistoryCopy, Goto, clientVars
<1>2. pc'["page"] = "idle"
  BY <1>1 DEF IInv, Types
<1>3. Entering' = Entering /\ Taken' = Taken
  BY <1>1 DEF Entering, Taken, histVars
<1>4. /\ rd'.seen = rd.seen
      /\ rd'.clean = (rd.clean /\ ~Entering /\ received = rd.seen)
  BY <1>1 DEF NoRead
<1>5. HistTypes'
  <2>1. (rd.clean /\ ~Entering /\ received = rd.seen) \in BOOLEAN
    BY DEF Entering
  <2> QED BY <1>1, <1>4, <2>1 DEF HistTypes, histVars
<1>6. ASSUME "overlap" \notin excused, rd.clean, received = rd.seen
      PROVE  shown' = LastOf(rd.seen, Kept(rd.seen))
  <2>1. rd.pos = rd.seen % NHist /\ rd.count = Kept(rd.seen) /\ rd.seen \in Nat
    BY <1>1, <1>6 DEF RingInv, HistTypes
  <2>2. \A c \in 1 .. rd.seen : c > rd.seen - NHist => s_cmd_hist[(c - 1) % NHist] = c
    BY <1>6 DEF RingInv
  <2> QED BY <1>1, <2>1, <2>2, ListedIsLast
<1> QED BY <1>1, <1>2, <1>3, <1>4, <1>5, <1>6 DEF RingInv, histVars

\* The ring and the list at boot.
Fresh ==
  /\ s_cmd_hist = [i \in 0 .. NHist - 1 |-> 0] /\ s_cmd_hist_pos = 0
  /\ s_cmd_hist_count = 0 /\ received = 0 /\ rd = NoRead /\ shown = << >>
  /\ ev = [h \in Handles |-> "idle"] /\ pc = AllIdle

LEMMA FreshHist == Fresh => HistInv
<1> SUFFICES ASSUME Fresh PROVE HistInv
  OBVIOUS
<1> USE DEF Fresh
<1>1. ~Entering
  BY DEF Entering
<1>2. Taken = 0
  BY <1>1 DEF Taken
<1>3. 0 % NHist = 0
  BY HistConstants, FirstTurn
<1>4. Kept(0) = 0
  BY HistConstants DEF Kept
<1>5. LastOf(0, 0) = << >>
  BY DEF LastOf
<1>6. HistTypes
  BY HistConstants DEF HistTypes, NoRead
<1>7. pc["page"] = "idle" /\ rd.seen = 0
  BY DEF AllIdle, NoRead
<1> QED BY <1>2, <1>3, <1>4, <1>5, <1>6, <1>7 DEF HistInv, RingInv

LEMMA FreshHistNext == Fresh' => HistInv'
BY FreshHist, PTL

\* Every step keeps the ring and the list right, a reboot among them.
LEMMA HistStep ==
  ASSUME IInv, HistInv, [Next]_vars PROVE HistInv'
<1> USE DEF clientVars, cfgVars, intervalVars, histVars, pageVars, taskVars,
            bounds, Goto, Excuse, IInv, Types, Entering
<1>0. CASE UNCHANGED vars
  BY <1>0, HistSame DEF vars
<1>1. CASE HistoryRead
  BY <1>1, ReadHist
<1>2. CASE HistoryCopy
  BY <1>2, CopyHist
<1>3. CASE TelemetryTest
  BY <1>3, HistSame DEF TelemetryTest
<1>4. CASE TelemetryPublish
  BY <1>4, HistSame DEF TelemetryPublish
<1>5. CASE WifiUp
  BY <1>5, HistSame DEF WifiUp
<1>6. CASE WifiDown
  BY <1>6, HistSame DEF WifiDown
<1>7. CASE WifiPoll
  BY <1>7, HistSame DEF WifiPoll
<1>8. CASE \E t \in Starters : StartTest(t)
  BY <1>8, HistSame DEF StartTest, AfterStart, Starters
<1>9. CASE \E t \in Starters : StartInit(t)
  BY <1>9, HistSame DEF StartInit, AfterStart, Starters
<1>10. CASE \E t \in Starters : StartAssign(t)
  BY <1>10, HistSame DEF StartAssign, Starters
<1>11. CASE \E t \in Starters : StartRun(t)
  BY <1>11, HistSame DEF StartRun, AfterStart, Starters
<1>12. CASE \E c \in Cfgs : SetCfg(c)
  BY <1>12, HistSame DEF SetCfg, UiCall
<1>13. CASE Destroy
  BY <1>13, HistSame DEF Destroy, Gone
<1>14. CASE Clear
  BY <1>14, HistSame DEF Clear
<1>15. CASE CheckWifi
  BY <1>15, HistSame DEF CheckWifi
<1>16. CASE Disconnect
  BY <1>16, HistSame DEF Disconnect, UiCall, Gone
<1>17. CASE Stopped
  BY <1>17, HistSame DEF Stopped
<1>18. CASE Connect
  BY <1>18, HistSame DEF Connect
<1>19. CASE \E h \in Handles : Online(h)
  BY <1>19, HistSame DEF Online
<1>20. CASE \E h \in Handles : SubscribeAll(h)
  BY <1>20, HistSame DEF SubscribeAll
<1>21. CASE \E h \in Handles : Break(h)
  BY <1>21, HistSame DEF Break
<1>22. CASE \E h \in Handles : Offline(h)
  BY <1>22, HistSame DEF Offline
<1>23. CASE \E h \in Handles : Command(h)
  BY <1>23, CommandHist
<1>24. CASE \E h \in Handles : Answer(h)
  BY <1>24, EnteredHist DEF Answer
<1>25. CASE Boot
  BY <1>25, FreshHistNext DEF Boot, Fresh
<1>26. CASE \E v \in Steps : SaveInterval(v)
  BY <1>26, HistSame DEF SaveInterval, UiCall, SetInterval
<1>27. CASE SaveStores
  BY <1>27, HistSame DEF SaveStores, StoreInterval
<1>28. CASE \E h \in Handles, v \in Requested : CommandInterval(h, v)
  BY <1>28, EnteredHist DEF CommandInterval, SetInterval
<1>29. CASE \E h \in Handles : CommandStores(h)
  BY <1>29, HistSame DEF CommandStores, StoreInterval
<1> QED BY <1>0, <1>1, <1>2, <1>3, <1>4, <1>5, <1>6, <1>7, <1>8, <1>9, <1>10,
        <1>11, <1>12, <1>13, <1>14, <1>15, <1>16, <1>17, <1>18, <1>19, <1>20,
        <1>21, <1>22, <1>23, <1>24, <1>25, <1>26, <1>27, <1>28, <1>29 DEF Next,
        Start, UiSteps, Session, Cmds, Reboot

(* Unless a command arrived while history_timer_cb() was reading the ring,  *)
(* or two clients were started, the page lists the last commands received   *)
(* at that moment, as many as the ring holds, oldest first: before and      *)
(* after the ring wraps, and after a reboot.                                *)
THEOREM HistoryLatest == Spec => []HistoryIsLatest
<1>1. Init => IInv /\ HistInv
  BY InitInv, FreshHist DEF Init, Fresh
<1>2. IInv /\ HistInv /\ [Next]_vars => (IInv /\ HistInv)'
  BY StepInv, HistStep
<1>3. HistInv => HistoryIsLatest
  BY DEF HistInv, RingInv, HistoryIsLatest, Kept
<1> QED BY <1>1, <1>2, <1>3, PTL DEF Spec
=============================================================================
