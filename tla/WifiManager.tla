---------------------------- MODULE WifiManager ----------------------------
(***************************************************************************)
(* The WiFi manager (src/main/app/wifi_manager.c), the calls the pages of  *)
(* the user interface make (src/main/gui/ui_nearby_wifi.c, ui_saved_wifi.c, *)
(* ui_wifi.c), and the WiFi driver and NVS of the SDK as the manager uses  *)
(* them.                                                                   *)
(*                                                                         *)
(*   LVGL task  : calls of the user interface, one at a time               *)
(*   event task : event_handler(), one event at a time, in order           *)
(*   driver     : connects, fails, loses the link, scans; posts events     *)
(*                                                                         *)
(* The two tasks share the manager's variables, most of them without a lock. *)
(* A call is split where another task can run and matters: at each call    *)
(* of the SDK, and between looking at the state and acting on it.  The event *)
(* task has the higher priority and runs on the LVGL task's core, so the   *)
(* handler is split only where it waits for the driver or for NVS.         *)
(*                                                                         *)
(* A network stands for its name and password.  Signal strength, addresses, *)
(* reasons and counters shown to the user are left out.                    *)
(***************************************************************************)
EXTENDS Integers, Sequences

CONSTANTS
  Nets,      \* networks
  None,      \* no network
  MaxSaved,  \* WIFI_MAX_SAVED_CREDS
  MaxRetry,  \* WIFI_MAX_RETRY
  Saved,     \* what NVS may hold at the first boot: list of networks, last one
  MaxCalls,  \* calls and reboots a run may make
  Prompt     \* TRUE: an event waits for no call; FALSE: other handlers of the
             \* event loop may keep it waiting

NetOrNone == Nets \cup {None}

\* Lists of networks that fit in the array, none of them twice.
Lists == {list \in UNION {[1 .. n -> Nets] : n \in 0 .. MaxSaved} :
            \A i, j \in DOMAIN list : list[i] = list[j] => i = j}

ASSUME BoundsAssumption ==
  /\ None \notin Nets
  /\ Saved \subseteq [list : Lists, last : NetOrNone]
  /\ MaxSaved \in Nat \ {0} /\ MaxRetry \in Nat /\ MaxCalls \in Nat
  /\ Prompt \in BOOLEAN

VARIABLES
  state,      \* s_info.state
  retry,      \* s_retry_cnt
  auto,       \* s_auto_reconnect
  radio,      \* s_radio_on
  manual,     \* s_manual_switch
  scanning,   \* s_scan_in_progress
  pending,    \* s_pending_save, s_pending_ssid: the unsaved attempt, or None
  active,     \* s_has_creds, s_ssid: the network to connect to, or None
  creds,      \* s_creds
  cand,       \* s_candidate_idx, counted from 1
  attempted,  \* s_attempted
  nvs, last,  \* NVS: the list of networks, the last one that connected
  drv,        \* driver: its state, and the network it is on
  cfg,        \* driver: the network configured
  dscan,      \* driver: a scan is running
  events,     \* events posted to the event task
  ev,         \* event task: "idle", or what is left of the handler
  lv,         \* LVGL task: what is left of the call
  waiting,    \* s_wait_result of the nearby page
  calls,      \* calls and reboots so far
  crossed,    \* history: a call ran while the handler waited for the driver
  overtaken,  \* history: a scan took the place of a switch of networks
  unsaved,    \* history: NVS refused the last list
  worked,     \* history: networks that gave an address, or were saved at first
  tried,      \* history: networks that failed since the sweep began
  gaveUp      \* history: the last event ended the sweep

linkVars == <<state, retry, auto, manual>>
credVars == <<pending, active, creds>>
sweepVars == <<cand, attempted>>
nvsVars  == <<nvs, last, unsaved>>
drvVars  == <<drv, cfg, dscan>>
uiVars   == <<lv, waiting, calls>>
sweepHistory == <<tried, gaveUp>>
vars == <<linkVars, radio, scanning, credVars, sweepVars, nvsVars, drvVars,
          events, ev, uiVars, crossed, overtaken, worked, sweepHistory>>

-----------------------------------------------------------------------------
Elements(list) == {list[i] : i \in 1 .. Len(list)}

\* The place of a network in a list, the first place when it is not there.
Place(list, n) ==
  IF n \in Elements(list) THEN CHOOSE i \in 1 .. Len(list) : list[i] = n ELSE 1

Idle == [at |-> "idle", net |-> None, row |-> 0, new |-> FALSE, seen |-> "none"]
At(step) == [lv EXCEPT !.at = step]

-----------------------------------------------------------------------------
(* The WiFi driver, as its caller sees it *)

NotLinked == [st |-> "idle", net |-> None]
Stopped   == [st |-> "off", net |-> None]
Event(kind) == [kind |-> kind, net |-> drv.net]

\* esp_wifi_connect(): refused unless the station is idle.
DriverConnect ==
  drv' = IF drv.st = "idle" /\ cfg # None THEN [st |-> "connecting", net |-> cfg]
                                          ELSE drv

\* esp_wifi_disconnect(): an event follows only if there is something to drop.
DriverDisconnect ==
  IF drv.st \in {"connecting", "online"}
  THEN drv' = NotLinked /\ events' = Append(events, Event("DISCONNECTED"))
  ELSE UNCHANGED <<drv, events>>

\* esp_wifi_set_config(): refused while the station is connecting.
ConfigRefused == drv.st = "connecting"
DriverConfig(n) == cfg' = IF ConfigRefused THEN cfg ELSE n

\* A connection attempt ends, a link is lost, a scan is over.
DriverOnline ==
  /\ drv.st = "connecting"
  /\ drv' = [drv EXCEPT !.st = "online"]
  /\ events' = Append(events, Event("GOT_IP"))
  /\ UNCHANGED <<cfg, dscan>>

DriverDrops ==
  /\ drv.st \in {"connecting", "online"}
  /\ drv' = NotLinked
  /\ events' = Append(events, Event("DISCONNECTED"))
  /\ UNCHANGED <<cfg, dscan>>

DriverScanned ==
  /\ dscan
  /\ dscan' = FALSE
  /\ events' = Append(events, Event("SCAN_DONE"))
  /\ UNCHANGED <<drv, cfg>>

Driver ==
  /\ DriverOnline \/ DriverDrops \/ DriverScanned
  /\ UNCHANGED <<linkVars, radio, scanning, credVars, sweepVars, nvsVars, ev,
                 uiVars, crossed, overtaken, worked, sweepHistory>>

-----------------------------------------------------------------------------
\* wifi_manager_init() with creds_load(): the list of NVS, the network that
\* connected last as the first candidate, and the driver started.
Boot(list, l) ==
  LET start == Place(list, l)
      first == IF list = <<>> THEN None ELSE list[start]
  IN  /\ state' = "DISCONNECTED" /\ retry' = 0 /\ auto' = TRUE
      /\ manual' = FALSE /\ radio' = TRUE /\ scanning' = FALSE
      /\ pending' = None /\ active' = first /\ creds' = list
      /\ cand' = start /\ attempted' = 1
      /\ drv' = NotLinked /\ cfg' = first /\ dscan' = FALSE
      /\ events' = <<[kind |-> "STA_START", net |-> None]>>
      /\ ev' = "idle" /\ lv' = Idle /\ waiting' = FALSE
      /\ tried' = {} /\ gaveUp' = FALSE

Init ==
  \E s \in Saved :
    LET start == Place(s.list, s.last)
        first == IF s.list = <<>> THEN None ELSE s.list[start]
    IN  /\ state = "DISCONNECTED" /\ retry = 0 /\ auto = TRUE
        /\ manual = FALSE /\ radio = TRUE /\ scanning = FALSE
        /\ pending = None /\ active = first /\ creds = s.list
        /\ cand = start /\ attempted = 1
        /\ nvs = s.list /\ last = s.last /\ unsaved = FALSE
        /\ drv = NotLinked /\ cfg = first /\ dscan = FALSE
        /\ events = <<[kind |-> "STA_START", net |-> None]>>
        /\ ev = "idle" /\ lv = Idle /\ waiting = FALSE /\ calls = 0
        /\ crossed = FALSE /\ overtaken = FALSE /\ worked = Elements(s.list)
        /\ tried = {} /\ gaveUp = FALSE

\* The power fails and comes back, at any point of any call or handler.
Reboot ==
  /\ calls < MaxCalls /\ calls' = calls + 1
  /\ Boot(nvs, last)
  /\ unsaved' = FALSE /\ crossed' = FALSE /\ overtaken' = FALSE
  /\ UNCHANGED <<nvs, last, worked>>

-----------------------------------------------------------------------------
(* Event task: event_handler() *)

Handle(kind) ==
  /\ ev = "idle" /\ events # <<>> /\ Head(events).kind = kind
  /\ events' = Tail(events)

\* WIFI_EVENT_STA_START
StaStart ==
  /\ Handle("STA_START")
  /\ IF active # None
     THEN state' = "CONNECTING" /\ DriverConnect
     ELSE state' = "DISCONNECTED" /\ UNCHANGED drv
  /\ gaveUp' = FALSE
  /\ UNCHANGED <<retry, auto, manual, radio, scanning, credVars, sweepVars,
                 nvsVars, cfg, dscan, ev, worked, tried>>

\* WIFI_EVENT_STA_DISCONNECTED: a disconnect of our own is recognised by
\* s_manual_switch, which the event clears.
Suspended == ~auto \/ scanning \/ ~radio

\* The network the event is about has failed, unless we dropped it.
Failed == IF manual THEN tried ELSE tried \cup {Head(events).net}

\* Mutant: the state shown is left as it was.
DroppedUnsaid ==
  /\ Handle("DISCONNECTED")
  /\ manual' = FALSE /\ tried' = Failed /\ gaveUp' = FALSE
  /\ Suspended
  /\ UNCHANGED <<state, retry, auto, radio, scanning, credVars, sweepVars,
                 nvsVars, drvVars, ev, worked>>

\* No reconnect: asked to stay away, scanning, or radio off.
Dropped ==
  /\ Handle("DISCONNECTED")
  /\ manual' = FALSE /\ tried' = Failed /\ gaveUp' = FALSE
  /\ Suspended
  /\ state' = IF radio THEN "DISCONNECTED" ELSE "OFF"
  /\ UNCHANGED <<retry, auto, radio, scanning, credVars, sweepVars, nvsVars,
                 drvVars, ev, worked>>

\* Mutant: the attempt that was stopped is made again.
SwitchedUnapplied ==
  /\ Handle("DISCONNECTED")
  /\ manual' = FALSE /\ tried' = Failed /\ gaveUp' = FALSE
  /\ ~Suspended /\ manual
  /\ ev' = "connect"
  /\ UNCHANGED <<state, retry, auto, radio, scanning, credVars, sweepVars,
                 nvsVars, drvVars, worked>>

\* A switch of networks: apply the credentials, which may be refused, ...
Switched ==
  /\ Handle("DISCONNECTED")
  /\ manual' = FALSE /\ tried' = Failed /\ gaveUp' = FALSE
  /\ ~Suspended /\ manual
  /\ DriverConfig(active)
  /\ ev' = "connect"
  /\ UNCHANGED <<state, retry, auto, radio, scanning, credVars, sweepVars,
                 nvsVars, drv, dscan, worked>>

\* ... then connect.  The sweep to the next network ends in the same way.
HandlerConnects ==
  /\ ev = "connect"
  /\ retry' = 0 /\ state' = "CONNECTING"
  /\ DriverConnect
  /\ ev' = "idle"
  /\ UNCHANGED <<auto, manual, radio, scanning, credVars, sweepVars, nvsVars,
                 cfg, dscan, events, worked, sweepHistory>>

\* retry_limit: an unsaved attempt gets a single try.
RetryLimit == IF pending # None THEN 0 ELSE MaxRetry

Failure ==
  /\ Handle("DISCONNECTED")
  /\ manual' = FALSE /\ tried' = Failed
  /\ ~Suspended /\ ~manual

Retry ==
  /\ Failure
  /\ retry < RetryLimit
  /\ retry' = retry + 1 /\ state' = "CONNECTING" /\ gaveUp' = FALSE
  /\ DriverConnect
  /\ UNCHANGED <<auto, radio, scanning, credVars, sweepVars, nvsVars, cfg,
                 dscan, ev, worked>>

\* An unsaved attempt is discarded.
UnsavedFails ==
  /\ Failure
  /\ retry >= RetryLimit /\ pending # None
  /\ pending' = None /\ active' = None
  /\ state' = "DISCONNECTED" /\ gaveUp' = FALSE
  /\ UNCHANGED <<retry, auto, radio, scanning, creds, sweepVars, nvsVars,
                 drvVars, ev, worked>>

\* creds_advance(): the next saved network, unless this sweep has had them all.
MoreToTry == attempted < Len(creds)
Anchor == IF cand > Len(creds) /\ creds # <<>> THEN 1 ELSE cand

NextNetwork ==
  /\ Failure
  /\ retry >= RetryLimit /\ pending = None
  /\ MoreToTry
  /\ cand' = (Anchor % Len(creds)) + 1
  /\ attempted' = attempted + 1
  /\ active' = creds[cand']
  /\ retry' = 0
  /\ DriverConfig(active')
  /\ IF ConfigRefused
     THEN state' = "DISCONNECTED" /\ gaveUp' = TRUE /\ UNCHANGED ev
     ELSE ev' = "connect" /\ gaveUp' = FALSE /\ UNCHANGED state
  /\ UNCHANGED <<auto, radio, scanning, pending, creds, nvsVars, drv, dscan,
                 worked>>

\* Mutant: the state goes on saying CONNECTING.
GiveUpSilently ==
  /\ Failure
  /\ retry >= RetryLimit /\ pending = None
  /\ ~MoreToTry
  /\ cand' = Anchor
  /\ gaveUp' = TRUE
  /\ UNCHANGED <<state, retry, auto, radio, scanning, credVars, attempted,
                 nvsVars, drvVars, ev, worked>>

GiveUp ==
  /\ Failure
  /\ retry >= RetryLimit /\ pending = None
  /\ ~MoreToTry
  /\ cand' = Anchor
  /\ state' = "DISCONNECTED" /\ gaveUp' = TRUE
  /\ UNCHANGED <<retry, auto, radio, scanning, credVars, attempted, nvsVars,
                 drvVars, ev, worked>>

\* WIFI_EVENT_SCAN_DONE: resume the connection that the scan dropped.
ScanDone ==
  /\ Handle("SCAN_DONE")
  /\ scanning' = FALSE /\ gaveUp' = FALSE
  /\ IF auto /\ active # None /\ state \notin {"CONNECTED", "CONNECTING"}
     THEN state' = "CONNECTING" /\ DriverConnect
     ELSE UNCHANGED <<state, drv>>
  /\ UNCHANGED <<retry, auto, manual, radio, credVars, sweepVars, nvsVars, cfg,
                 dscan, ev, worked, tried>>

\* Mutant: the list is not kept within its array.
WithNetUnbounded(list, n) ==
  IF n \in Elements(list) THEN list ELSE Append(list, n)

\* creds_update(): the list with a network added, the oldest dropped if need be.
WithNet(list, n) ==
  IF n \in Elements(list) THEN list
  ELSE Append(IF Len(list) < MaxSaved THEN list ELSE Tail(list), n)

\* IP_EVENT_STA_GOT_IP: save the network if it is the unsaved one, ...
GotIp ==
  /\ Handle("GOT_IP")
  /\ state' = "CONNECTED" /\ retry' = 0
  /\ worked' = worked \cup {Head(events).net}
  /\ tried' = {} /\ gaveUp' = FALSE
  /\ IF pending # None /\ active = pending
     THEN creds' = WithNet(creds, pending) /\ ev' = "store"
     ELSE UNCHANGED creds /\ ev' = "remember"
  /\ UNCHANGED <<auto, manual, radio, scanning, pending, active, sweepVars,
                 nvsVars, drvVars>>

\* creds_store(), from either task.
StoreList == nvs' = creds /\ unsaved' = FALSE /\ UNCHANGED last
StoreFails == unsaved' = TRUE /\ UNCHANGED <<nvs, last>>

\* Mutant: the new list stays in RAM.
HandlerForgets ==
  /\ ev = "store"
  /\ ev' = "remember"
  /\ UNCHANGED <<linkVars, radio, scanning, credVars, sweepVars, nvsVars, drvVars,
                 events, worked, sweepHistory>>

HandlerStores ==
  /\ ev = "store"
  /\ StoreList \/ StoreFails
  /\ ev' = "remember"
  /\ UNCHANGED <<linkVars, radio, scanning, credVars, sweepVars, drvVars,
                 events, worked, sweepHistory>>

\* ... the attempt is over, and the network is remembered as the last one, ...
Remember ==
  /\ ev = "remember"
  /\ pending' = None
  /\ last' \in {last, active}
  /\ ev' = "anchor"
  /\ UNCHANGED <<linkVars, radio, scanning, active, creds, sweepVars, nvs,
                 unsaved, drvVars, events, worked, sweepHistory>>

\* ... and the next sweep starts from it.
Reanchor ==
  /\ ev = "anchor"
  /\ cand' = Place(creds, active) /\ attempted' = 1
  /\ ev' = "idle"
  /\ UNCHANGED <<linkVars, radio, scanning, credVars, nvsVars, drvVars, events,
                 worked, sweepHistory>>

Handler ==
  /\ \/ StaStart \/ Dropped \/ Switched \/ Retry \/ UnsavedFails
     \/ NextNetwork \/ GiveUp \/ ScanDone \/ GotIp
     \/ HandlerConnects \/ HandlerStores \/ Remember \/ Reanchor
  /\ crossed' = (crossed \/ lv.at \in {"decide", "switch", "connect"})
  /\ overtaken' = (overtaken \/ (Dropped /\ manual /\ scanning /\ active # cfg))
  /\ UNCHANGED uiVars

-----------------------------------------------------------------------------
(* LVGL task: the calls *)

Call == lv = Idle /\ calls < MaxCalls /\ calls' = calls + 1

\* wifi_manager_set_radio(true), from the button or as the first part of a
\* connect: the driver is started, and the handler of STA_START connects.
RadioUp ==
  /\ drv' = NotLinked
  /\ events' = Append(events, Event("STA_START"))
  /\ radio' = TRUE /\ retry' = 0 /\ auto' = TRUE /\ manual' = FALSE
  /\ state' = IF active = None THEN "DISCONNECTED" ELSE state

RadioOn ==
  /\ Call
  /\ ~radio
  /\ RadioUp \/ UNCHANGED <<drv, events, radio, linkVars>>
  /\ UNCHANGED <<lv, waiting, scanning, credVars, sweepVars, nvsVars, cfg,
                 dscan, ev, worked, sweepHistory>>

\* wifi_manager_set_radio(false): nothing may reconnect from here on ...
RadioOff ==
  /\ Call
  /\ radio
  /\ pending' = None /\ auto' = FALSE /\ retry' = 0 /\ manual' = TRUE
  /\ radio' = FALSE /\ scanning' = FALSE /\ state' = "OFF"
  /\ DriverDisconnect
  /\ lv' = At("stop")
  /\ UNCHANGED <<waiting, active, creds, sweepVars, nvsVars, cfg, dscan, ev,
                 worked, sweepHistory>>

\* ... and the driver is stopped, which ends a scan without an event.
RadioStops ==
  /\ lv.at = "stop"
  /\ \/ /\ drv' = Stopped /\ dscan' = FALSE
        /\ events' = IF drv.st = "idle" THEN events
                     ELSE Append(events, Event("DISCONNECTED"))
        /\ UNCHANGED <<radio, state>>
     \/ /\ radio' = TRUE /\ state' = "DISCONNECTED"
        /\ UNCHANGED <<drv, dscan, events>>
  /\ lv' = Idle
  /\ UNCHANGED <<retry, auto, manual, scanning, credVars, sweepVars, nvsVars,
                 cfg, ev, waiting, calls, worked, sweepHistory>>

\* wifi_manager_connect_new() from the password view, which allows one attempt
\* at a time, and wifi_manager_connect_saved() from a row: radio first.
ConnectBegins ==
  /\ Call
  /\ \/ /\ ~waiting
        /\ \E n \in Nets :
             lv' = [Idle EXCEPT !.at = "choose", !.net = n, !.new = TRUE]
     \/ \E i \in 1 .. Len(creds) :
          lv' = [Idle EXCEPT !.at = "choose", !.row = i]
  /\ IF radio THEN UNCHANGED <<drv, events, radio, linkVars>> ELSE RadioUp
  /\ UNCHANGED <<waiting, scanning, credVars, sweepVars, nvsVars, cfg, dscan, ev,
                 worked, sweepHistory>>

\* A saved network is looked up by its row, in the list as it is by then.
Chosen == IF lv.new THEN lv.net ELSE creds[lv.row]

\* The network becomes the active one, and the state is looked at.
Choose ==
  /\ lv.at = "choose"
  /\ active' = Chosen
  /\ pending' = IF lv.new THEN lv.net ELSE None
  /\ auto' = TRUE /\ retry' = 0
  /\ cand' = IF lv.new THEN Place(creds, lv.net) ELSE lv.row
  /\ attempted' = 1
  /\ tried' = {} /\ gaveUp' = FALSE
  /\ lv' = [lv EXCEPT !.at = "decide",
              !.seen = IF state # "CONNECTED" THEN state
                       ELSE IF drv = [st |-> "online", net |-> Chosen]
                            THEN "this one" ELSE "another one"]
  /\ UNCHANGED <<state, manual, radio, scanning, creds, nvsVars, drvVars, events,
                 ev, waiting, calls, worked>>

\* Connected to this network: the link is kept.
KeepLink ==
  /\ lv.at = "decide" /\ lv.seen = "this one"
  /\ pending' = IF lv.new THEN None ELSE pending
  /\ lv' = Idle /\ waiting' = (waiting \/ lv.new)
  /\ UNCHANGED <<linkVars, radio, scanning, active, creds, sweepVars, nvsVars,
                 drvVars, events, ev, calls, worked, sweepHistory>>

\* Connecting: stop the attempt, the handler of its event connects anew.
StopAttempt ==
  /\ lv.at = "decide" /\ lv.seen = "CONNECTING"
  /\ manual' = TRUE
  /\ DriverDisconnect
  /\ lv' = Idle /\ waiting' = (waiting \/ lv.new)
  /\ UNCHANGED <<state, retry, auto, radio, scanning, credVars, sweepVars,
                 nvsVars, cfg, dscan, ev, calls, worked, sweepHistory>>

\* Otherwise the credentials are applied; if they are refused, the call fails.
ApplyNet ==
  /\ lv.at = "decide" /\ lv.seen \notin {"this one", "CONNECTING"}
  /\ DriverConfig(active)
  /\ lv' = IF ConfigRefused THEN Idle
           ELSE At(IF lv.seen = "another one" THEN "switch" ELSE "connect")
  /\ UNCHANGED <<linkVars, radio, scanning, credVars, sweepVars, nvsVars, drv,
                 dscan, events, ev, waiting, calls, worked, sweepHistory>>

\* Connected to another network: drop the link ...
SwitchNet ==
  /\ lv.at = "switch"
  /\ state' = "CONNECTING" /\ manual' = TRUE
  /\ DriverDisconnect
  /\ lv' = Idle /\ waiting' = (waiting \/ lv.new)
  /\ UNCHANGED <<retry, auto, radio, scanning, credVars, sweepVars, nvsVars, cfg,
                 dscan, ev, calls, worked, sweepHistory>>

\* ... and not connected: connect at once.
ConnectNet ==
  /\ lv.at = "connect"
  /\ state' = "CONNECTING" /\ manual' = FALSE
  /\ DriverConnect
  /\ lv' = Idle /\ waiting' = (waiting \/ lv.new)
  /\ UNCHANGED <<retry, auto, radio, scanning, credVars, sweepVars, nvsVars, cfg,
                 dscan, events, ev, calls, worked, sweepHistory>>

\* wifi_manager_forget(): out of the list, ...
Forget ==
  /\ Call
  /\ \E i \in 1 .. Len(creds) :
       /\ creds' = SubSeq(creds, 1, i - 1) \o SubSeq(creds, i + 1, Len(creds))
       /\ pending' = IF pending = creds[i] THEN None ELSE pending
       /\ lv' = [Idle EXCEPT !.at = "store", !.net = creds[i],
                   !.seen = IF active = creds[i] THEN "active" ELSE "none"]
  /\ cand' = 1 /\ attempted' = 1
  /\ UNCHANGED <<linkVars, radio, scanning, active, nvsVars, drvVars, events, ev,
                 waiting, worked, sweepHistory>>

\* ... out of NVS, ...
ForgetStores ==
  /\ lv.at = "store"
  /\ \/ StoreList /\ lv' = At("clear")
     \/ StoreFails /\ lv' = Idle
  /\ UNCHANGED <<linkVars, radio, scanning, credVars, sweepVars, drvVars, events,
                 ev, waiting, calls, worked, sweepHistory>>

\* ... and if it was the active one, the link is dropped for good.
ForgetClears ==
  /\ lv.at = "clear"
  /\ last' = IF last = lv.net THEN None ELSE last
  /\ IF lv.seen = "active"
     THEN /\ active' = None /\ auto' = FALSE /\ retry' = 0
          /\ IF state \in {"CONNECTED", "CONNECTING"}
             THEN manual' = TRUE /\ DriverDisconnect
             ELSE UNCHANGED <<manual, drv, events>>
          /\ state' = "DISCONNECTED"
     ELSE UNCHANGED <<active, linkVars, drv, events>>
  /\ lv' = Idle
  /\ UNCHANGED <<radio, scanning, pending, creds, sweepVars, nvs, unsaved, cfg,
                 dscan, ev, waiting, calls, worked, sweepHistory>>

\* wifi_manager_disconnect(), from the back button of the password view.
Disconnect ==
  /\ Call
  /\ waiting /\ waiting' = FALSE
  /\ pending' = None /\ auto' = FALSE
  /\ state' = "DISCONNECTED" /\ manual' = TRUE
  /\ DriverDisconnect
  /\ UNCHANGED <<lv, retry, radio, scanning, active, creds, sweepVars, nvsVars,
                 cfg, dscan, ev, worked, sweepHistory>>

\* wifi_manager_scan_start(): drop the link, ...
Scan ==
  /\ Call
  /\ radio /\ ~scanning
  /\ IF state \in {"CONNECTED", "CONNECTING"}
     THEN manual' = TRUE /\ DriverDisconnect
     ELSE UNCHANGED <<manual, drv, events>>
  /\ lv' = At("flag")
  /\ UNCHANGED <<state, retry, auto, radio, scanning, credVars, sweepVars,
                 nvsVars, cfg, dscan, ev, waiting, worked, sweepHistory>>

\* ... suspend the reconnects, ...
ScanFlag ==
  /\ lv.at = "flag"
  /\ scanning' = TRUE
  /\ lv' = At("scan")
  /\ UNCHANGED <<linkVars, radio, credVars, sweepVars, nvsVars, drvVars, events,
                 ev, waiting, calls, worked, sweepHistory>>

\* ... and scan, which the driver refuses while it is connecting.
ScanStarts ==
  /\ lv.at = "scan"
  /\ IF drv.st = "connecting"
     THEN scanning' = FALSE /\ UNCHANGED dscan
     ELSE dscan' = TRUE /\ UNCHANGED scanning
  /\ lv' = Idle
  /\ UNCHANGED <<linkVars, radio, credVars, sweepVars, nvsVars, drv, cfg, events,
                 ev, waiting, calls, worked, sweepHistory>>

\* The nearby page's timer: the attempt has succeeded, or was given up.
PollResult ==
  /\ lv = Idle /\ waiting
  /\ state = "CONNECTED" \/ (state = "DISCONNECTED" /\ active = None)
  /\ waiting' = FALSE
  /\ UNCHANGED <<linkVars, radio, scanning, credVars, sweepVars, nvsVars, drvVars,
                 events, ev, lv, calls, worked, sweepHistory>>

CallStep ==
  \/ RadioStops \/ Choose \/ KeepLink \/ StopAttempt \/ ApplyNet \/ SwitchNet
  \/ ConnectNet \/ ForgetStores \/ ForgetClears \/ ScanFlag \/ ScanStarts

\* The event task is busy, or has nothing to do.
LvglRuns == Prompt => ev # "idle" \/ events = <<>>

Lvgl ==
  /\ LvglRuns
  /\ \/ RadioOn \/ RadioOff \/ ConnectBegins \/ Forget \/ Disconnect \/ Scan
     \/ PollResult
     \/ CallStep /\ UNCHANGED calls
  /\ crossed' = (crossed \/ ev # "idle") /\ UNCHANGED overtaken

-----------------------------------------------------------------------------
Next == Driver \/ Reboot \/ Handler \/ Lvgl

Spec == Init /\ [][Next]_vars

\* An attempt or a scan ends, a handler and a call run to their end.  Nobody has
\* to make a call, no link has to be lost.
Fairness ==
  /\ WF_vars(drv.st = "connecting" /\ Driver)
  /\ WF_vars(DriverScanned /\ Driver)
  /\ WF_vars(Handler)
  /\ WF_vars(CallStep /\ Lvgl)

FairSpec == Spec /\ Fairness
-----------------------------------------------------------------------------
(* Properties *)

LvSteps == {"idle", "choose", "decide", "switch", "connect", "store", "clear",
            "stop", "flag", "scan"}
Calls == [at : LvSteps, net : NetOrNone, row : 0 .. MaxSaved, new : BOOLEAN,
          seen : {"none", "active", "DISCONNECTED", "CONNECTING", "OFF",
                  "this one", "another one"}]
Events == [kind : {"STA_START", "DISCONNECTED", "SCAN_DONE", "GOT_IP"},
           net : NetOrNone]

\* Every variable stays in its type.
TypeOK ==
  /\ state \in {"DISCONNECTED", "CONNECTING", "CONNECTED", "OFF"}
  /\ retry \in 0 .. MaxRetry
  /\ auto \in BOOLEAN /\ radio \in BOOLEAN /\ manual \in BOOLEAN
  /\ scanning \in BOOLEAN /\ dscan \in BOOLEAN /\ waiting \in BOOLEAN
  /\ crossed \in BOOLEAN /\ overtaken \in BOOLEAN /\ unsaved \in BOOLEAN /\ gaveUp \in BOOLEAN
  /\ pending \in NetOrNone /\ active \in NetOrNone /\ cfg \in NetOrNone
  /\ last \in NetOrNone
  /\ creds \in Seq(Nets) /\ nvs \in Seq(Nets)
  /\ cand \in 1 .. MaxSaved /\ attempted \in 1 .. MaxSaved
  /\ drv \in [st : {"off", "idle", "connecting", "online"}, net : NetOrNone]
  /\ events \in Seq(Events)
  /\ ev \in {"idle", "connect", "store", "remember", "anchor"}
  /\ lv \in Calls /\ calls \in 0 .. MaxCalls
  /\ worked \subseteq NetOrNone /\ tried \subseteq NetOrNone

\* The saved list never outgrows its array nor names a network twice, in RAM or
\* in NVS, and the row a call was made for is still in it when the call reads it.
SavedListSound ==
  /\ creds \in Lists /\ nvs \in Lists
  /\ lv.at = "choose" /\ ~lv.new => lv.row \in 1 .. Len(creds)

AtRest == lv = Idle /\ ev = "idle" /\ events = <<>>

\* When both tasks are at rest and no event is on its way, the state shown is
\* what the driver does.
StatusSettles ==
  AtRest /\ ~crossed =>
    /\ state = "CONNECTED" <=> drv.st = "online"
    /\ state = "CONNECTING" <=> drv.st = "connecting"
    /\ state = "OFF" => drv.st = "off"

\* At rest, the link is one to the network chosen last, by the user or by the
\* sweep: never to a forgotten one, or to the one before a switch.
LinkIsChosen ==
  /\ AtRest /\ ~crossed /\ ~overtaken
  /\ drv.st \in {"connecting", "online"}
  => drv.net = active

\* NVS holds the list in RAM, unless a task is about to store it or NVS refused:
\* two tasks that change and store the list never leave an older one behind.
NvsIsCurrent ==
  lv.at # "store" /\ ev # "store" /\ ~unsaved => nvs = creds

\* A connection attempt comes to an end, whatever is called meanwhile.
AttemptEnds == (state = "CONNECTING") ~> (state # "CONNECTING" \/ crossed)

\* An unsaved attempt ends: it is saved, discarded or superseded.
UnsavedEnds ==
  \A n \in Nets : (pending = n) ~> (pending # n \/ crossed)

\* No attempt is left hanging, saved or not.
AttemptsEnd == AttemptEnds /\ UnsavedEnds

\* wifi_manager.c: "All saved networks failed" when the sweep ends.
AllTried == gaveUp => Elements(creds) \subseteq tried

\* wifi_manager.h: "on failure ... nothing is stored, so a wrong password leaves
\* no record behind".
SavedWorked == Elements(creds) \subseteq worked
=============================================================================
