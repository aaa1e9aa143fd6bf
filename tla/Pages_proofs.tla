---------------------------- MODULE Pages_proofs ----------------------------
(***************************************************************************)
(* Proofs about Pages, for every number of pages, tree of sub-pages,       *)
(* number of scans and window.  Each of the three safety properties has an *)
(* invariant of its own, which the type invariant makes inductive.         *)
(***************************************************************************)
EXTENDS Pages, TLAPS

KeyRecord == [down : BOOLEAN, counter : 0..(Scans - 1), press_edge : BOOLEAN]

\* TypeOK, in the form the leaves use.
KeyTypes == s_keys \in [Keys -> KeyRecord] /\ keyPc \in {"scan", "request"} /\ kcur \in MainPages
PageTypes ==
  /\ s_cur_page \in MainPages
  /\ s_switch_req \in Screens \cup {NoRequest}
  /\ scr \in Screens /\ last \in Screens
  /\ lost \in BOOLEAN /\ crossed \in BOOLEAN
LvTypes ==
  /\ lvPc \in {"read", "take", "timers"}
  /\ req \in Screens \cup {NoRequest} /\ cb \in Screens \cup {NoRequest}
  /\ lvPc = "take" => req # NoRequest
SleepTypes ==
  /\ s_ds_count \in 0..2 /\ s_clock_label \in 0..2
  /\ dsLeft \in -1..Window
  /\ presses \in 0..3 /\ gap \in 0..Window
  /\ asleep \in BOOLEAN

Types == KeyTypes /\ PageTypes /\ LvTypes /\ SleepTypes

\* The screens there are, and the one there is not.
LEMMA ScreenFacts ==
  /\ NoRequest \notin Screens
  /\ HomeScreen \in Screens
  /\ \A p \in MainPages : Main(p) \in Screens /\ Main(p).main = p /\ Main(p) # HomeScreen
  /\ \A s \in SubPages : /\ Sub(s) \in Screens /\ Sub(s).main = Parent[s]
                         /\ Parent[s] \in MainPages
                         /\ Sub(s) # HomeScreen
<1>1. \A s \in SubPages : Parent[s] \in MainPages
  BY PagesAssumption DEF MainPages
<1>2. \A p \in MainPages : p \in Nat
  BY PagesAssumption DEF MainPages
<1>3. NoRequest # HomeScreen
  BY DEF NoRequest, HomeScreen, Main, NONE, Home
<1>4. \A p \in MainPages : Main(p) # NoRequest /\ Main(p) # HomeScreen /\ Main(p).main = p
  BY <1>2 DEF NoRequest, HomeScreen, Main, NONE, Home
<1>5. \A s \in SubPages : /\ Sub(s) # NoRequest /\ Sub(s) # HomeScreen
                          /\ Sub(s).main = Parent[s]
  BY <1>1, <1>2 DEF NoRequest, HomeScreen, Main, Sub, NONE, Home
<1> QED BY <1>1, <1>3, <1>4, <1>5 DEF Screens

\* The page after the last is the first.
LEMMA NextPage == ASSUME NEW p \in MainPages PROVE (p + 1) % NPages \in MainPages
  BY PagesAssumption DEF MainPages

\* One scan of a key.
LEMMA DebouncedType ==
  ASSUME NEW k \in KeyRecord, NEW d \in BOOLEAN PROVE Debounced(k, d) \in KeyRecord
  BY PagesAssumption DEF KeyRecord, Debounced

\* A scan of both keys, and the edge taken from one of them.
LEMMA ScanType ==
  ASSUME NEW keys \in [Keys -> KeyRecord], NEW k \in Keys
  PROVE  EdgeTaken(keys, k) \in [Keys -> KeyRecord]
  BY DEF EdgeTaken, KeyRecord

-----------------------------------------------------------------------------
\* The types hold at the start.
LEMMA InitTypes == Init => Types
<1> SUFFICES ASSUME Init PROVE Types
  OBVIOUS
<1>1. 0 \in MainPages
  BY PagesAssumption DEF MainPages
<1>2. KeyTypes
  BY <1>1, PagesAssumption DEF Init, KeyTypes, KeyRecord, Released
<1>3. PageTypes
  BY <1>1, ScreenFacts DEF Init, PageTypes
<1>4. LvTypes
  BY DEF Init, LvTypes
<1>5. SleepTypes
  <2>1. s_ds_count = 0 /\ dsLeft = -1 /\ s_clock_label = 0 /\ presses = 0 /\ gap = 0
    BY DEF Init, HomeCreated, Paused, Clock
  <2>2. asleep \in BOOLEAN
    BY DEF Init
  <2> QED BY <2>1, <2>2, PagesAssumption DEF SleepTypes
<1> QED BY <1>2, <1>3, <1>4, <1>5 DEF Types

\* key_task keeps the types.
LEMMA KeyTaskTypes == ASSUME Types, KeyTask PROVE Types'
<1> USE DEF Types
<1>1. CASE KeyScan
  <2>1. LvTypes' /\ SleepTypes'
    BY <1>1 DEF KeyScan, LvTypes, SleepTypes, lvVars, dsVars
  <2> PICK pins \in [Keys -> BOOLEAN] :
        LET scanned == [k \in Keys |-> Debounced(s_keys[k], pins[k])] IN
        \/ /\ scanned[2].press_edge
           /\ s_keys' = EdgeTaken(scanned, 2)
           /\ s_cur_page' = (s_cur_page + 1) % NPages
           /\ kcur' = s_cur_page'
           /\ keyPc' = "request"
           /\ crossed' = CallbackOpen
           /\ UNCHANGED <<s_switch_req, last, lost>>
        \/ /\ ~scanned[2].press_edge /\ scanned[3].press_edge
           /\ s_keys' = EdgeTaken(scanned, 3)
           /\ Request(HomeScreen)
           /\ UNCHANGED <<s_cur_page, kcur, keyPc, crossed>>
        \/ /\ \A k \in Keys : ~scanned[k].press_edge
           /\ s_keys' = scanned
           /\ UNCHANGED <<reqVars, kcur, keyPc>>
    BY <1>1 DEF KeyScan
  <2> DEFINE scanned == [k \in Keys |-> Debounced(s_keys[k], pins[k])]
  <2>2. scanned \in [Keys -> KeyRecord]
    BY DebouncedType DEF KeyTypes
  <2> HIDE DEF scanned
  <2>3. EdgeTaken(scanned, 2) \in [Keys -> KeyRecord] /\ EdgeTaken(scanned, 3) \in [Keys -> KeyRecord]
    BY <2>2, ScanType DEF Keys
  <2>4. \/ /\ s_keys' = EdgeTaken(scanned, 2)
           /\ s_cur_page' = (s_cur_page + 1) % NPages
           /\ kcur' = s_cur_page'
           /\ keyPc' = "request"
           /\ crossed' = CallbackOpen
           /\ UNCHANGED <<s_switch_req, last, lost>>
        \/ /\ s_keys' = EdgeTaken(scanned, 3)
           /\ Request(HomeScreen)
           /\ UNCHANGED <<s_cur_page, kcur, keyPc, crossed>>
        \/ /\ s_keys' = scanned
           /\ UNCHANGED <<reqVars, kcur, keyPc>>
    BY DEF scanned
  <2>5. KeyTypes'
    BY <2>2, <2>3, <2>4, NextPage DEF KeyTypes, PageTypes
  <2>6. PageTypes'
    BY <1>1, <2>4, NextPage, ScreenFacts
       DEF KeyScan, PageTypes, Request, reqVars, CallbackOpen, lvVars
  <2> QED BY <2>1, <2>5, <2>6
<1>2. CASE KeyRequest
  <2>1. 0 \in MainPages
    BY PagesAssumption DEF MainPages
  <2>2. KeyTypes'
    BY <1>2, <2>1 DEF KeyRequest, KeyTypes
  <2>3. PageTypes'
    <3>1. PICK p \in MainPages : Request(Main(p))
      BY <1>2 DEF KeyRequest, KeyTypes, PageTypes
    <3>2. s_switch_req' \in Screens /\ last' \in Screens /\ lost' = FALSE
      BY <3>1, ScreenFacts DEF Request
    <3>3. crossed' \in BOOLEAN
      BY <1>2 DEF KeyRequest, PageTypes, CallbackOpen
    <3> QED BY <1>2, <3>2, <3>3 DEF KeyRequest, PageTypes, lvVars
  <2>4. LvTypes' /\ SleepTypes'
    BY <1>2 DEF KeyRequest, LvTypes, SleepTypes, lvVars, dsVars
  <2> QED BY <2>2, <2>3, <2>4
<1> QED BY <1>1, <1>2 DEF KeyTask

\* A request, wherever it comes from, is a page.
LEMMA RequestTypes ==
  ASSUME NEW p \in Screens, Request(p)
  PROVE  /\ s_switch_req' \in Screens \cup {NoRequest}
         /\ last' \in Screens /\ lost' \in BOOLEAN
  BY DEF Request

\* lvgl_task takes a request and loads the screen.
LEMMA TakeTypes == ASSUME Types, ReadRequest \/ TakeRequest PROVE Types'
<1>1. CASE ReadRequest
  <2>1. LvTypes'
    BY <1>1 DEF ReadRequest, Types, LvTypes, PageTypes
  <2>2. KeyTypes' /\ PageTypes' /\ SleepTypes'
    BY <1>1 DEF ReadRequest, Types, KeyTypes, PageTypes, SleepTypes, keyVars, reqVars, dsVars
  <2> QED BY <2>1, <2>2 DEF Types
<1>2. CASE TakeRequest
  <2>1. LvTypes' /\ KeyTypes'
    BY <1>2 DEF TakeRequest, Types, LvTypes, KeyTypes, keyVars
  <2>2. PageTypes'
    BY <1>2 DEF TakeRequest, Types, PageTypes, LvTypes, At, Overwritten
  <2>3. s_ds_count' \in 0..2 /\ s_clock_label' \in 0..2
    BY <1>2 DEF TakeRequest, Types, SleepTypes, ResetHint, Clock
  <2>4. presses' \in 0..3 /\ gap' \in 0..Window
    BY <1>2, PagesAssumption DEF TakeRequest
  <2>5. dsLeft' \in -1..Window /\ asleep' \in BOOLEAN
    BY <1>2 DEF TakeRequest, Types, SleepTypes
  <2> QED BY <2>1, <2>2, <2>3, <2>4, <2>5 DEF Types, SleepTypes
<1> QED BY <1>1, <1>2

\* The two forms of a callback that asks for a page.
LEMMA OpenTypes ==
  ASSUME Types, NEW s \in Screens, Open(s) PROVE KeyTypes' /\ PageTypes' /\ LvTypes'
<1>1. PageTypes'
  BY RequestTypes DEF Open, Types, PageTypes
<1>2. KeyTypes' /\ LvTypes'
  BY DEF Open, Types, KeyTypes, LvTypes, keyVars
<1> QED BY <1>1, <1>2

\* As above, for a callback in two steps.
LEMMA ReturnTypes ==
  ASSUME Types, Tappable, NEW p \in MainPages, ReturnTo(p)
  PROVE  KeyTypes' /\ PageTypes' /\ LvTypes'
<1>1. PageTypes' /\ KeyTypes'
  BY DEF ReturnTo, Types, PageTypes, KeyTypes, keyVars
<1>2. LvTypes'
  BY ScreenFacts DEF ReturnTo, Types, LvTypes
<1> QED BY <1>1, <1>2

\* The callbacks of the pages.
LEMMA TapTypes == ASSUME Types, TapEntry \/ TapOpen \/ TapClose \/ CallbackRequest PROVE Types'
<1>1. SleepTypes'
  BY DEF Types, SleepTypes, TapEntry, TapOpen, TapClose, CallbackRequest, dsVars
<1>2. CASE TapEntry
  BY <1>2, <1>1, ReturnTypes DEF TapEntry, Types
<1>3. CASE TapOpen
  BY <1>3, <1>1, OpenTypes, ScreenFacts DEF TapOpen, Types
<1>4. CASE TapClose
  <2>1. PICK s \in SubPages \ NoBack :
          IF s \in CloseKeepsCur THEN Open(Main(Parent[s])) ELSE ReturnTo(Parent[s])
    BY <1>4 DEF TapClose
  <2>2. Tappable
    BY <1>4 DEF TapClose
  <2>3. Parent[s] \in MainPages /\ Main(Parent[s]) \in Screens
    BY ScreenFacts
  <2> QED BY <2>1, <2>2, <2>3, <1>1, OpenTypes, ReturnTypes DEF Types
<1>5. CASE CallbackRequest
  <2>1. cb \in Screens
    BY <1>5 DEF CallbackRequest, CallbackOpen, Types, LvTypes
  <2>2. PageTypes'
    BY <1>5, <2>1, RequestTypes DEF CallbackRequest, Types, PageTypes
  <2>3. KeyTypes' /\ LvTypes'
    BY <1>5 DEF CallbackRequest, Types, KeyTypes, LvTypes, keyVars
  <2> QED BY <1>1, <2>2, <2>3 DEF Types
<1> QED BY <1>2, <1>3, <1>4, <1>5

\* The deep-sleep button, the clock and time.
LEMMA HomeTypes ==
  ASSUME Types, TapSleep \/ SleepTimeout \/ ClockTimer \/ HandlerReturns \/ Tick
  PROVE  Types'
<1>1. KeyTypes' /\ PageTypes' /\ LvTypes'
  BY DEF Types, KeyTypes, PageTypes, LvTypes, TapSleep, SleepTimeout, ClockTimer,
         HandlerReturns, Tick, keyVars, reqVars, lvVars
<1>2. CASE TapSleep
  <2>1. presses' \in 0..3 /\ gap' \in 0..Window
    BY <1>2, PagesAssumption DEF TapSleep, Types, SleepTypes, Required
  <2>2. s_ds_count' \in 0..2 /\ s_clock_label' \in 0..2
    BY <1>2 DEF TapSleep, Types, SleepTypes, Required, ResetHint, Clock
  <2>3. dsLeft' \in -1..Window
    BY <1>2, PagesAssumption DEF TapSleep, Paused
  <2>4. asleep' \in BOOLEAN
    BY <1>2 DEF TapSleep, Types, SleepTypes, DeepSleep
  <2> QED BY <1>1, <2>1, <2>2, <2>3, <2>4 DEF Types, SleepTypes
<1>3. CASE SleepTimeout
  <2>1. s_ds_count' = 0 /\ s_clock_label' = 0 /\ dsLeft' = -1
    BY <1>3 DEF SleepTimeout, ResetHint, Clock, Paused
  <2>2. presses' \in 0..3 /\ gap' \in 0..Window /\ asleep' \in BOOLEAN
    BY <1>3 DEF SleepTimeout, Types, SleepTypes
  <2> QED BY <1>1, <2>1, <2>2, PagesAssumption DEF Types, SleepTypes
<1>4. CASE ClockTimer
  BY <1>1, <1>4 DEF ClockTimer, Types, SleepTypes, Clock
<1>5. CASE HandlerReturns
  BY <1>1, <1>5 DEF HandlerReturns, Types, SleepTypes, dsVars
<1>6. CASE Tick
  <2>1. dsLeft' \in -1..Window
    BY <1>6, PagesAssumption DEF Tick, Types, SleepTypes, Paused
  <2>2. presses' \in 0..3 /\ gap' \in 0..Window
    BY <1>6, PagesAssumption DEF Tick, Types, SleepTypes
  <2>3. s_ds_count' \in 0..2 /\ s_clock_label' \in 0..2 /\ asleep' \in BOOLEAN
    BY <1>6 DEF Tick, Types, SleepTypes
  <2> QED BY <1>1, <2>1, <2>2, <2>3 DEF Types, SleepTypes
<1> QED BY <1>2, <1>3, <1>4, <1>5, <1>6

\* Waking is a restart.
LEMMA WakeTypes == ASSUME Wake PROVE Types'
<1>1. 0 \in MainPages
  BY PagesAssumption DEF MainPages
<1>2. KeyTypes'
  BY <1>1, PagesAssumption DEF Wake, KeyTypes, KeyRecord, Released
<1>3. PageTypes' /\ LvTypes'
  BY <1>1, ScreenFacts DEF Wake, PageTypes, LvTypes
<1>4. s_ds_count' = 0 /\ dsLeft' = -1 /\ s_clock_label' = 0 /\ presses' = 0 /\ gap' = 0
  BY DEF Wake, Paused, Clock
<1>5. asleep' \in BOOLEAN
  BY DEF Wake
<1> QED BY <1>2, <1>3, <1>4, <1>5, PagesAssumption DEF Types, SleepTypes

\* Every step keeps the types.
LEMMA NextTypes == Types /\ [Next]_vars => Types'
<1> SUFFICES ASSUME Types, [Next]_vars PROVE Types'
  OBVIOUS
<1>1. CASE KeyTask
  BY <1>1, KeyTaskTypes
<1>2. CASE LvglTask \/ Tick
  BY <1>2, TakeTypes, TapTypes, HomeTypes DEF LvglTask
<1>3. CASE Wake
  BY <1>3, WakeTypes
<1>4. CASE UNCHANGED vars
  BY <1>4 DEF vars, keyVars, lvVars, reqVars, dsVars, Types, KeyTypes, PageTypes, LvTypes,
              SleepTypes
<1> QED BY <1>1, <1>2, <1>3, <1>4 DEF Next

\* The types hold in every reachable state.
LEMMA AlwaysTypes == Spec => []Types
  BY InitTypes, NextTypes, PTL DEF Spec

\* Every variable of the two tasks keeps its type: the page index stays in the
\* cycle, the counter of the debouncer and that of the presses below their limits.
THEOREM TypeCorrect == Spec => []TypeOK
<1>1. Types => TypeOK
  BY DEF Types, KeyTypes, PageTypes, LvTypes, SleepTypes, TypeOK, KeyRecord, Required, Paused
<1> QED BY <1>1, AlwaysTypes, PTL

-----------------------------------------------------------------------------
(***************************************************************************)
(* LastRequestShows.                                                       *)
(***************************************************************************)
\* The last request is still waiting, or is on the screen.
LastInv ==
  /\ lvPc = "take" => s_switch_req # NoRequest
  /\ ~lost => last = IF s_switch_req # NoRequest THEN s_switch_req ELSE scr

\* A request waits from then on.
LEMMA RequestWaits ==
  ASSUME NEW p \in Screens, Request(p) PROVE LastInv'
  BY ScreenFacts DEF Request, LastInv

\* key_task: a request waits, or nothing about it changes.
LEMMA LastKey == ASSUME Types, LastInv, KeyTask PROVE LastInv'
<1>1. CASE KeyScan
  <2>1. Request(HomeScreen) \/ UNCHANGED <<s_switch_req, last, lost>>
    BY <1>1 DEF KeyScan, reqVars
  <2>2. UNCHANGED <<scr, lvPc>>
    BY <1>1 DEF KeyScan, lvVars
  <2>3. CASE Request(HomeScreen)
    BY <2>3, RequestWaits, ScreenFacts
  <2>4. CASE UNCHANGED <<s_switch_req, last, lost>>
    BY <2>2, <2>4 DEF LastInv
  <2> QED BY <2>1, <2>3, <2>4
<1>2. CASE KeyRequest
  <2>1. PICK p \in MainPages : Request(Main(p))
    BY <1>2 DEF KeyRequest, Types, KeyTypes, PageTypes
  <2> QED BY <2>1, RequestWaits, ScreenFacts
<1> QED BY <1>1, <1>2 DEF KeyTask

\* lvgl_task: what it reads and clears is what waits, or is lost.
LEMMA LastLvgl == ASSUME Types, LastInv, LvglTask PROVE LastInv'
<1>1. CASE ReadRequest
  BY <1>1 DEF ReadRequest, LastInv, reqVars
<1>2. CASE TakeRequest
  BY <1>2 DEF TakeRequest, At, Overwritten, LastInv
<1>3. ASSUME NEW p \in Screens, Open(p) PROVE LastInv'
  BY <1>3, RequestWaits DEF Open
<1>4. ASSUME NEW p \in MainPages, ReturnTo(p) PROVE LastInv'
  BY <1>4 DEF ReturnTo, LastInv
<1>5. CASE TapEntry \/ TapOpen \/ TapClose
  BY <1>3, <1>4, <1>5, ScreenFacts DEF TapEntry, TapOpen, TapClose
<1>6. CASE CallbackRequest
  <2>1. cb \in Screens
    BY <1>6 DEF CallbackRequest, CallbackOpen, Types, LvTypes
  <2> QED BY <1>6, <2>1, RequestWaits DEF CallbackRequest
<1>7. CASE TapSleep \/ SleepTimeout \/ ClockTimer \/ HandlerReturns
  BY <1>7 DEF TapSleep, SleepTimeout, ClockTimer, HandlerReturns, reqVars, lvVars, LastInv
<1> QED BY <1>1, <1>2, <1>5, <1>6, <1>7 DEF LvglTask

\* The page asked for last, by a button or on the screen, is shown once nothing is
\* under way, unless it was wiped between the read and the clear of s_switch_req.
THEOREM LastIsShown == Spec => []LastRequestShows
<1>1. Init => LastInv
  BY DEF Init, LastInv
<1>2. Types /\ LastInv /\ [Next]_vars => LastInv'
  <2> SUFFICES ASSUME Types, LastInv, [Next]_vars PROVE LastInv'
    OBVIOUS
  <2>1. CASE Tick
    BY <2>1 DEF Tick, reqVars, lvVars, LastInv
  <2>2. CASE Wake
    BY <2>2 DEF Wake, LastInv
  <2>3. CASE UNCHANGED vars
    BY <2>3 DEF vars, reqVars, lvVars, LastInv
  <2> QED BY <2>1, <2>2, <2>3, LastKey, LastLvgl DEF Next
<1>3. LastInv => LastRequestShows
  BY DEF LastInv, LastRequestShows, Settled
<1> QED BY <1>1, <1>2, <1>3, AlwaysTypes, PTL DEF Spec

-----------------------------------------------------------------------------
(***************************************************************************)
(* CycleInSync.                                                            *)
(***************************************************************************)
\* Where the requests under way lead.
Target ==
  IF CallbackOpen THEN cb ELSE IF s_switch_req # NoRequest THEN s_switch_req ELSE scr

\* The index is that of the page they lead to, or the home page is; key_task
\* between its two writes will ask for the page of the index.
CycleInv ==
  /\ CallbackOpen => lvPc = "timers"
  /\ lvPc = "take" => s_switch_req # NoRequest
  /\ ~crossed =>
       /\ keyPc = "request" => kcur = s_cur_page /\ ~CallbackOpen
       /\ keyPc = "scan" => Target = HomeScreen \/ s_cur_page = Target.main

\* key_task moves the index, then asks for its page.
LEMMA CycleKey == ASSUME Types, CycleInv, KeyTask PROVE CycleInv'
<1>1. CASE KeyScan
  <2>1. UNCHANGED <<scr, lvPc, cb>>
    BY <1>1 DEF KeyScan, lvVars
  <2>2. \/ /\ kcur' = s_cur_page' /\ keyPc' = "request" /\ crossed' = CallbackOpen
           /\ UNCHANGED s_switch_req
        \/ /\ keyPc = "scan" /\ Request(HomeScreen) /\ UNCHANGED <<s_cur_page, kcur, keyPc, crossed>>
        \/ UNCHANGED <<s_switch_req, s_cur_page, crossed, kcur, keyPc>>
    BY <1>1 DEF KeyScan, reqVars
  <2> QED BY <2>1, <2>2, ScreenFacts DEF CycleInv, CallbackOpen, Target, Request
<1>2. CASE KeyRequest
  <2>1. PICK p \in {kcur, s_cur_page} : Request(Main(p))
    BY <1>2 DEF KeyRequest
  <2>2. p \in MainPages
    BY DEF Types, KeyTypes, PageTypes
  <2>3. Main(p) # NoRequest /\ Main(p).main = p
    BY <2>2, ScreenFacts
  <2> QED BY <1>2, <2>1, <2>3 DEF KeyRequest, lvVars, CycleInv, CallbackOpen, Target, Request
<1> QED BY <1>1, <1>2 DEF KeyTask

\* A page of the same main page is asked for.
LEMMA CycleOpen ==
  ASSUME Types, CycleInv, Tappable, NEW p \in Screens, Open(p),
         scr # HomeScreen, p.main = scr.main
  PROVE  CycleInv'
<1>1. p # NoRequest
  BY ScreenFacts
<1> QED BY <1>1 DEF Types, KeyTypes, Open, Request, CycleInv, CallbackOpen, Target, Tappable, keyVars

\* A callback sets the index of the page it will ask for.
LEMMA CycleReturn ==
  ASSUME Types, CycleInv, Tappable, NEW p \in MainPages, ReturnTo(p) PROVE CycleInv'
<1>1. Main(p) # NoRequest /\ Main(p).main = p
  BY ScreenFacts
<1> QED BY <1>1 DEF ReturnTo, CycleInv, CallbackOpen, Target, Tappable, At, keyVars

\* lvgl_task.
LEMMA CycleLvgl == ASSUME Types, CycleInv, LvglTask PROVE CycleInv'
<1>1. CASE ReadRequest
  BY <1>1 DEF ReadRequest, At, keyVars, reqVars, CycleInv, CallbackOpen, Target
<1>2. CASE TakeRequest
  BY <1>2 DEF TakeRequest, At, Overwritten, keyVars, CycleInv, CallbackOpen, Target
<1>3. CASE TapEntry
  BY <1>3, CycleReturn DEF TapEntry
<1>4. CASE TapOpen
  BY <1>4, CycleOpen, ScreenFacts DEF TapOpen
<1>5. CASE TapClose
  <2>1. PICK s \in SubPages \ NoBack :
          /\ scr = Sub(s)
          /\ IF s \in CloseKeepsCur THEN Open(Main(Parent[s])) ELSE ReturnTo(Parent[s])
    BY <1>5 DEF TapClose
  <2>2. Tappable
    BY <1>5 DEF TapClose
  <2>3. CASE Open(Main(Parent[s]))
    BY <2>1, <2>2, <2>3, CycleOpen, ScreenFacts
  <2>4. CASE ReturnTo(Parent[s])
    BY <2>2, <2>4, CycleReturn, ScreenFacts
  <2> QED BY <2>1, <2>3, <2>4
<1>6. CASE CallbackRequest
  BY <1>6 DEF CallbackRequest, Request, keyVars, CycleInv, CallbackOpen, Target
<1>7. CASE TapSleep \/ SleepTimeout \/ ClockTimer \/ HandlerReturns
  BY <1>7 DEF TapSleep, SleepTimeout, ClockTimer, HandlerReturns, Tappable, At, keyVars,
              reqVars, lvVars, CycleInv, CallbackOpen, Target
<1> QED BY <1>1, <1>2, <1>3, <1>4, <1>5, <1>6, <1>7 DEF LvglTask

\* The index of the KEY2 cycle is that of the page on the screen or of its parent,
\* also after a Back that does not set it, unless the two tasks crossed.
THEOREM CycleStaysInSync == Spec => []CycleInSync
<1>1. Init => CycleInv
  BY DEF Init, CycleInv, CallbackOpen, Target
<1>2. Types /\ CycleInv /\ [Next]_vars => CycleInv'
  <2> SUFFICES ASSUME Types, CycleInv, [Next]_vars PROVE CycleInv'
    OBVIOUS
  <2>1. CASE Tick
    BY <2>1 DEF Tick, keyVars, reqVars, lvVars, CycleInv, CallbackOpen, Target
  <2>2. CASE Wake
    BY <2>2 DEF Wake, CycleInv, CallbackOpen, Target
  <2>3. CASE UNCHANGED vars
    BY <2>3 DEF vars, keyVars, reqVars, lvVars, CycleInv, CallbackOpen, Target
  <2> QED BY <2>1, <2>2, <2>3, CycleKey, CycleLvgl DEF Next
<1>3. CycleInv => CycleInSync
  BY DEF CycleInv, CycleInSync, Settled, Target
<1> QED BY <1>1, <1>2, <1>3, AlwaysTypes, PTL DEF Spec

-----------------------------------------------------------------------------
(***************************************************************************)
(* SleepIsMeant.                                                           *)
(***************************************************************************)
\* On the home page the window is open as long as a press counts, it started with
\* the last press, and every press counted was made on this visit.
SleepInv ==
  /\ s_ds_count > 0 /\ scr = HomeScreen =>
       dsLeft # -1 /\ dsLeft + gap = Window /\ presses >= s_ds_count
  /\ s_clock_label = IF s_ds_count > 0 THEN 3 - s_ds_count ELSE 0
  /\ asleep => presses >= 3

\* A press opens the window again and counts, or sleeps.
LEMMA SleepTap == ASSUME Types, SleepInv, TapSleep PROVE SleepInv'
<1>1. s_ds_count \in 0..2 /\ presses \in 0..3 /\ ~asleep /\ scr = HomeScreen /\ scr' = scr
  BY DEF Types, SleepTypes, TapSleep, Tappable, At
<1>2. presses' = IF presses < 3 THEN presses + 1 ELSE 3
  BY DEF TapSleep, Required
<1>3. s_ds_count > 0 => presses >= s_ds_count
  BY <1>1 DEF SleepInv
<1>4. CASE s_ds_count + 1 < 3
  <2>1. /\ s_ds_count' = s_ds_count + 1 /\ s_clock_label' = 3 - s_ds_count'
        /\ dsLeft' = Window /\ gap' = 0 /\ asleep' = asleep
    BY <1>4 DEF TapSleep, Required
  <2> QED BY <1>1, <1>2, <1>3, <2>1, PagesAssumption DEF SleepInv
<1>5. CASE ~(s_ds_count + 1 < 3)
  <2>1. s_ds_count' = 0 /\ s_clock_label' = 0
    BY <1>5 DEF TapSleep, Required, ResetHint, Clock
  <2> QED BY <1>1, <1>2, <1>3, <1>5, <2>1 DEF SleepInv
<1> QED BY <1>4, <1>5

\* The window and the time since the last press add up.
LEMMA SleepTick == ASSUME Types, SleepInv, Tick PROVE SleepInv'
<1>1. /\ s_ds_count \in 0..2 /\ presses \in 0..3 /\ gap \in 0..Window /\ dsLeft \in -1..Window
      /\ ~asleep /\ dsLeft # 0
      /\ UNCHANGED <<s_ds_count, s_clock_label, scr, asleep>>
  BY DEF Types, SleepTypes, Tick, lvVars
<1>2. dsLeft' = IF dsLeft = -1 THEN -1 ELSE dsLeft - 1
  BY DEF Tick, Paused
<1>3. IF gap < Window /\ presses > 0
      THEN gap' = gap + 1 /\ presses' = presses
      ELSE gap' = 0 /\ presses' = 0
  BY DEF Tick
<1> QED BY <1>1, <1>2, <1>3, PagesAssumption DEF SleepInv

\* What does not touch the window.
LEMMA SleepOther ==
  ASSUME Types, SleepInv, UNCHANGED <<dsVars, scr, asleep>> PROVE SleepInv'
  BY DEF SleepInv, dsVars

\* The device sleeps only after three presses on one visit of the home page, each
\* within the window of the one before it, and the label tells how many are missing.
THEOREM SleepIsAskedFor == Spec => []SleepIsMeant
<1>1. Init => SleepInv
  BY DEF Init, HomeCreated, SleepInv, Clock
<1>2. Types /\ SleepInv /\ [Next]_vars => SleepInv'
  <2> SUFFICES ASSUME Types, SleepInv, [Next]_vars PROVE SleepInv'
    OBVIOUS
  <2>1. CASE KeyTask
    BY <2>1, SleepOther DEF KeyTask, KeyScan, KeyRequest, lvVars
  <2>2. CASE TakeRequest
    <3>1. ~asleep /\ asleep' = asleep /\ scr' = req
      BY <2>2 DEF TakeRequest, At
    <3>2. CASE req = HomeScreen
      BY <2>2, <3>1, <3>2 DEF TakeRequest, ResetHint, Clock, SleepInv
    <3>3. CASE req # HomeScreen
      BY <2>2, <3>1, <3>3 DEF TakeRequest, SleepInv
    <3> QED BY <3>2, <3>3
  <2>3. CASE SleepTimeout
    BY <2>3 DEF SleepTimeout, At, ResetHint, Clock, SleepInv
  <2>4. CASE ClockTimer
    BY <2>4 DEF ClockTimer, At, Clock, SleepInv, lvVars
  <2>5. CASE TapEntry \/ TapOpen \/ TapClose \/ CallbackRequest \/ ReadRequest \/ HandlerReturns
    BY <2>5, SleepOther DEF TapEntry, TapOpen, TapClose, CallbackRequest, ReadRequest,
         HandlerReturns, Open, ReturnTo
  <2>6. CASE Wake
    BY <2>6 DEF Wake, SleepInv, Clock
  <2>7. CASE UNCHANGED vars
    BY <2>7, SleepOther DEF vars, lvVars
  <2> QED BY <2>1, <2>2, <2>3, <2>4, <2>5, <2>6, <2>7, SleepTap, SleepTick DEF Next, LvglTask
<1>3. Types /\ SleepInv => SleepIsMeant
  BY DEF Types, SleepTypes, SleepInv, SleepIsMeant, Required, Clock
<1> QED BY <1>1, <1>2, <1>3, AlwaysTypes, PTL DEF Spec
=============================================================================
