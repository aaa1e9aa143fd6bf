------------------------------- MODULE Pages --------------------------------
(***************************************************************************)
(* The two buttons (key.c), the switching of pages (main.c), the home menu *)
(* with its deep-sleep button (ui_home.c, power.c).                        *)
(*                                                                         *)
(* key_task scans the buttons and asks for a page through s_switch_req;    *)
(* lvgl_task takes the request, loads the screen and runs LVGL's timers,   *)
(* whose callbacks ask for pages the same way.  Neither takes a lock, and  *)
(* the two run on different cores.                                         *)
(***************************************************************************)
EXTENDS Integers, FiniteSets

CONSTANTS
  NPages,                      \* main pages of the KEY2 cycle: 7
  SubPages,                    \* the pages that open from a main page
  Parent,                      \* that main page, per sub-page
  CloseKeepsCur,               \* those whose Back leaves s_cur_page alone
  NoBack,                      \* those without one: the slide show
  Scans,                       \* KEY_DEBOUNCE_SCANS
  Window                       \* DS_PRESS_WINDOW_MS, in ticks of the model

\* main.c: accel, gyro (of page 0), CPU, stack and about (of page 5) close
\* without setting s_cur_page; saved, nearby (1), the five MQTT pages (2),
\* preset, custom (3), files, player (4) and the BLE config (6) set it.
ASSUME PagesAssumption ==
  /\ NPages \in Nat \ {0}
  /\ Parent \in [SubPages -> 0..(NPages - 1)]
  /\ CloseKeepsCur \subseteq SubPages /\ NoBack \subseteq SubPages
  /\ Scans \in Nat \ {0}
  /\ Window \in Nat

MainPages == 0..(NPages - 1)
Home == -1
NONE == -2
NoSub == "-"
Main(p) == [main |-> p, sub |-> NoSub]
Sub(s) == [main |-> Parent[s], sub |-> s]
HomeScreen == Main(Home)
NoRequest == Main(NONE)
Screens == {HomeScreen} \cup {Main(p) : p \in MainPages} \cup {Sub(s) : s \in SubPages}

Keys == {2, 3}                 \* KEY_ID_2, KEY_ID_3
Required == 3                  \* DS_PRESS_REQUIRED
Paused == -1
Clock == 0

VARIABLES
  s_keys,                      \* per key: stable_level = 0, counter, press_edge
  s_cur_page, s_switch_req,
  keyPc, kcur,                 \* key_task, between its two writes
  scr,                         \* the active screen
  lvPc, req,                   \* lvgl_task, and its copy of the request
  cb,                          \* the request the running callback will make
  s_ds_count, dsLeft,          \* the deep-sleep window, or Paused
  s_clock_label,               \* the clock, or the presses that are missing
  asleep,
  last, lost, crossed,         \* history: the last request; it was wiped;
                               \* the page index met another task's request
  presses, gap                 \* history: presses on this visit, each within the
                               \* window of the one before; ticks since the last

keyVars == <<s_keys, keyPc, kcur>>
lvVars  == <<scr, lvPc, req, cb>>
reqVars == <<s_cur_page, s_switch_req, last, lost, crossed>>
dsVars  == <<s_ds_count, dsLeft, s_clock_label, presses, gap>>
vars == <<keyVars, lvVars, reqVars, dsVars, asleep>>

\* key_init()
Released == [k \in Keys |-> [down |-> FALSE, counter |-> 0, press_edge |-> FALSE]]

\* ui_home_create(): the timer of the window is made paused.
HomeCreated == s_ds_count = 0 /\ dsLeft = Paused /\ s_clock_label = Clock

\* app_main(): every screen is created, the home screen is loaded, then the
\* tasks start.
Init ==
  /\ s_keys = Released /\ keyPc = "scan" /\ kcur = 0
  /\ s_cur_page = 0 /\ s_switch_req = NoRequest
  /\ scr = HomeScreen /\ lvPc = "read" /\ req = NoRequest /\ cb = NoRequest
  /\ HomeCreated /\ presses = 0 /\ gap = 0
  /\ asleep = FALSE
  /\ last = HomeScreen /\ lost = FALSE /\ crossed = FALSE

-----------------------------------------------------------------------------
(***************************************************************************)
(* key_scan(), key_pressed_edge() and key_task().                          *)
(***************************************************************************)
\* One key whose pin reads low when down.
Debounced(k, down) ==
  IF down = k.down THEN [k EXCEPT !.counter = 0]
  ELSE IF k.counter + 1 < Scans THEN [k EXCEPT !.counter = @ + 1]
  ELSE [down |-> down, counter |-> 0, press_edge |-> k.press_edge \/ down]

\* Mutant: asking leaves the edge.
EdgeKept(keys, k) == keys

\* key_pressed_edge(): asking takes the edge.
EdgeTaken(keys, k) == [keys EXCEPT ![k].press_edge = FALSE]

\* Mutant: a request that is pending is not replaced.
RequestIfNone(s) ==
  /\ s_switch_req' = IF s_switch_req = NoRequest THEN s ELSE s_switch_req
  /\ last' = s /\ lost' = FALSE

\* s_switch_req = s, whatever it was.
Request(s) ==
  /\ s_switch_req' = s
  /\ last' = s /\ lost' = FALSE

CallbackOpen == cb # NoRequest

\* One scan.  KEY2 first: the index moves at once, the request follows;
\* an edge of KEY3 waits for the next scan.
KeyScan ==
  /\ ~asleep /\ keyPc = "scan"
  /\ \E pins \in [Keys -> BOOLEAN] :
       LET scanned == [k \in Keys |-> Debounced(s_keys[k], pins[k])] IN
       \/ /\ scanned[2].press_edge
          /\ s_keys' = EdgeTaken(scanned, 2)
          /\ s_cur_page' = (s_cur_page + 1) % NPages
          /\ kcur' = s_cur_page'
          /\ keyPc' = "request"
          /\ crossed' = CallbackOpen
          /\ UNCHANGED <<s_switch_req, last, lost>>
       \/ /\ ~scanned[2].press_edge /\ scanned[3].press_edge
          /\ s_keys' = EdgeTaken(scanned, 3)
          /\ Request(HomeScreen)
          /\ UNCHANGED <<s_cur_page, kcur, keyPc, crossed>>
       \/ /\ \A k \in Keys : ~scanned[k].press_edge
          /\ s_keys' = scanned
          /\ UNCHANGED <<reqVars, kcur, keyPc>>
  /\ UNCHANGED <<lvVars, dsVars, asleep>>

\* The switch over s_cur_page, which the build may have in a register or
\* read again.
KeyRequest ==
  /\ ~asleep /\ keyPc = "request"
  /\ \E p \in {kcur, s_cur_page} : Request(Main(p))
  /\ keyPc' = "scan" /\ kcur' = 0
  /\ crossed' = (crossed \/ CallbackOpen)
  /\ UNCHANGED <<s_keys, s_cur_page, lvVars, dsVars, asleep>>

-----------------------------------------------------------------------------
(***************************************************************************)
(* lvgl_task().                                                            *)
(***************************************************************************)
At(pc) == ~asleep /\ lvPc = pc

ReadRequest ==
  /\ At("read")
  /\ req' = s_switch_req
  /\ lvPc' = IF s_switch_req = NoRequest THEN "timers" ELSE "take"
  /\ UNCHANGED <<scr, cb, keyVars, reqVars, dsVars, asleep>>

\* s_switch_req = SWITCH_NONE, whatever it has become since it was read.
Overwritten == s_switch_req # req

\* ui_home_reset_hint(), clock_update_label()
ResetHint == s_ds_count' = 0 /\ s_clock_label' = Clock

\* The screen loaded is that of the request read; no other task looks at it.
TakeRequest ==
  /\ At("take")
  /\ s_switch_req' = NoRequest
  /\ lost' = (lost \/ Overwritten)
  /\ crossed' = (crossed \/ Overwritten)
  /\ scr' = req
  /\ IF req = HomeScreen THEN ResetHint ELSE UNCHANGED <<s_ds_count, s_clock_label>>
  /\ presses' = 0 /\ gap' = 0
  /\ lvPc' = "timers" /\ req' = NoRequest
  /\ UNCHANGED <<s_cur_page, last, cb, dsLeft, keyVars, asleep>>

(***************************************************************************)
(* The callbacks that lv_timer_handler() runs.                             *)
(***************************************************************************)
\* A callback that only asks for a page: any request of key_task still
\* pending is replaced, but what it did to the page index stays.
Open(s) ==
  /\ Request(s)
  /\ crossed' = (crossed \/ s_switch_req # NoRequest)
  /\ lvPc' = "read"
  /\ UNCHANGED <<s_cur_page, scr, req, cb, keyVars>>

\* Mutant: a callback that only asks.
ReturnWithout(p) ==
  /\ cb' = Main(p)
  /\ crossed' = (keyPc = "request")
  /\ UNCHANGED <<s_cur_page, s_switch_req, last, lost, lvPc, scr, req, keyVars>>

\* A callback that sets the page index first, then asks.
ReturnTo(p) ==
  /\ s_cur_page' = p
  /\ cb' = Main(p)
  /\ crossed' = (keyPc = "request")
  /\ UNCHANGED <<s_switch_req, last, lost, lvPc, scr, req, keyVars>>

Tappable == At("timers") /\ ~CallbackOpen

\* home_open_page()
TapEntry ==
  /\ Tappable /\ scr = HomeScreen
  /\ \E p \in MainPages : ReturnTo(p)
  /\ UNCHANGED <<dsVars, asleep>>

\* The *_open() callbacks.
TapOpen ==
  /\ Tappable
  /\ \E s \in SubPages : scr = Main(Parent[s]) /\ Open(Sub(s))
  /\ UNCHANGED <<dsVars, asleep>>

\* The *_close() callbacks.  The slide show has no button: KEY2 and KEY3
\* leave it.
TapClose ==
  /\ Tappable
  /\ \E s \in SubPages \ NoBack :
       /\ scr = Sub(s)
       /\ IF s \in CloseKeepsCur THEN Open(Main(Parent[s])) ELSE ReturnTo(Parent[s])
  /\ UNCHANGED <<dsVars, asleep>>

\* The second half of a callback that set the page index.
CallbackRequest ==
  /\ At("timers") /\ CallbackOpen
  /\ Request(cb)
  /\ cb' = NoRequest /\ lvPc' = "read"
  /\ crossed' = (crossed \/ keyPc = "request")
  /\ UNCHANGED <<s_cur_page, scr, req, keyVars, dsVars, asleep>>

\* power_deep_sleep() stops the radio and the modules, and does not return:
\* waking is a reset.
DeepSleep == asleep' = TRUE

\* deepsleep_click_cb(): every press starts the window again; the third sleeps.
TapSleep ==
  /\ Tappable /\ scr = HomeScreen
  /\ presses' = IF presses < Required THEN presses + 1 ELSE Required
  /\ gap' = 0
  /\ IF s_ds_count + 1 < Required
     THEN /\ s_ds_count' = s_ds_count + 1 /\ s_clock_label' = Required - s_ds_count'
          /\ dsLeft' = Window
          /\ UNCHANGED asleep
     ELSE ResetHint /\ dsLeft' = Paused /\ DeepSleep
  /\ lvPc' = "read"
  /\ UNCHANGED <<scr, req, cb, keyVars, reqVars>>

\* Mutant: the timeout stops the timer and keeps the count.
SleepTimeoutKeeps ==
  /\ At("timers") /\ dsLeft = 0
  /\ dsLeft' = Paused
  /\ UNCHANGED <<s_ds_count, s_clock_label, presses, gap, lvVars, keyVars, reqVars, asleep>>

\* ds_timeout_cb()
SleepTimeout ==
  /\ At("timers") /\ dsLeft = 0
  /\ ResetHint /\ dsLeft' = Paused
  /\ UNCHANGED <<presses, gap, lvVars, keyVars, reqVars, asleep>>

\* clock_timer_cb(): only on the home page, and not over the hint.
ClockTimer ==
  /\ At("timers")
  /\ scr = HomeScreen /\ s_ds_count = 0
  /\ s_clock_label' = Clock
  /\ UNCHANGED <<s_ds_count, dsLeft, presses, gap, lvVars, keyVars, reqVars, asleep>>

\* Time passes when no timer is due.
Tick ==
  /\ ~asleep /\ dsLeft # 0
  /\ dsLeft' = IF dsLeft = Paused THEN Paused ELSE dsLeft - 1
  /\ IF gap < Window /\ presses > 0
     THEN gap' = gap + 1 /\ UNCHANGED presses
     ELSE gap' = 0 /\ presses' = 0
  /\ presses > 0 \/ dsLeft # Paused
  /\ UNCHANGED <<s_ds_count, s_clock_label, keyVars, lvVars, reqVars, asleep>>

\* KEY1 wakes the chip: app_main() runs again.
Wake ==
  /\ asleep
  /\ s_keys' = Released /\ keyPc' = "scan" /\ kcur' = 0
  /\ s_cur_page' = 0 /\ s_switch_req' = NoRequest
  /\ scr' = HomeScreen /\ lvPc' = "read" /\ req' = NoRequest /\ cb' = NoRequest
  /\ s_ds_count' = 0 /\ dsLeft' = Paused /\ s_clock_label' = Clock
  /\ presses' = 0 /\ gap' = 0
  /\ asleep' = FALSE
  /\ last' = HomeScreen /\ lost' = FALSE /\ crossed' = FALSE

HandlerReturns ==
  /\ Tappable /\ dsLeft # 0
  /\ lvPc' = "read"
  /\ UNCHANGED <<scr, req, cb, keyVars, reqVars, dsVars, asleep>>

KeyTask == KeyScan \/ KeyRequest
LvglTask ==
  \/ ReadRequest \/ TakeRequest
  \/ TapEntry \/ TapOpen \/ TapClose \/ CallbackRequest
  \/ TapSleep \/ SleepTimeout \/ ClockTimer \/ HandlerReturns
Next == KeyTask \/ LvglTask \/ Tick \/ Wake

Spec == Init /\ [][Next]_vars

\* Both tasks run for ever.
FairSpec ==
  /\ Spec
  /\ WF_vars(KeyTask) /\ WF_vars(LvglTask)

-----------------------------------------------------------------------------
TypeOK ==
  /\ s_keys \in [Keys -> [down : BOOLEAN, counter : 0..(Scans - 1), press_edge : BOOLEAN]]
  /\ {s_cur_page, kcur} \subseteq MainPages
  /\ {s_switch_req, req, cb} \subseteq Screens \cup {NoRequest}
  /\ {scr, last} \subseteq Screens
  /\ keyPc \in {"scan", "request"}
  /\ lvPc \in {"read", "take", "timers"}
  /\ {s_ds_count, s_clock_label} \subseteq 0..(Required - 1) /\ dsLeft \in Paused..Window
  /\ presses \in 0..Required /\ gap \in 0..Window
  /\ {lost, crossed, asleep} \subseteq BOOLEAN

\* Nothing is under way between the two tasks.
Settled ==
  /\ s_switch_req = NoRequest /\ keyPc = "scan"
  /\ lvPc \in {"read", "timers"} /\ ~CallbackOpen

\* The last page asked for, by a button or on the screen, is the page on the
\* screen, unless the request came between the read and the clear of
\* s_switch_req (main.c, lvgl_task).
LastRequestShows == Settled /\ ~lost => scr = last

\* The index of the KEY2 cycle is that of the page on the screen or of its
\* parent: the next KEY2 goes to the page after it ("so the cycle stays in
\* sync", main.c).  Also for the pages whose Back does not set it.  Not so
\* when the two tasks were between their two writes at once, or a tap
\* replaced the request of a KEY2 press.
CycleInSync ==
  Settled /\ ~crossed => scr = HomeScreen \/ s_cur_page = scr.main

\* The device sleeps only after three presses on one visit of the home page,
\* each within the window of the one before it ("accident protection",
\* ui_home.c): a page switch or the timeout forgets the earlier ones.  Until
\* then the label of the home page tells how many are missing.
SleepIsMeant ==
  /\ asleep => presses >= Required
  /\ s_clock_label = IF s_ds_count > 0 THEN Required - s_ds_count ELSE Clock

\* A press of KEY3 is not forgotten behind presses of KEY2, and no request
\* stays: lvgl_task takes it (key.c, main.c).
KeysServed ==
  /\ s_keys[3].press_edge ~> (last = HomeScreen \/ asleep)
  /\ (s_switch_req # NoRequest) ~> (s_switch_req = NoRequest \/ asleep)
=============================================================================
