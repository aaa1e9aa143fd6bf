------------------------------ MODULE SysInfo -------------------------------
(***************************************************************************)
(* The System pages (ui_sysinfo.c): the share of the CPU each task took    *)
(* since the last refresh, from FreeRTOS's run-time counters.              *)
(*                                                                         *)
(* Only the page on the screen refreshes, so the window between two        *)
(* refreshes is as long as the user stays elsewhere.  Tasks come and go    *)
(* meanwhile, also between the two calls that count and list them, and a   *)
(* new task may get the handle of one that is gone.                        *)
(***************************************************************************)
EXTENDS Integers, SequencesExt

CONSTANTS
  Handles,                     \* task handles
  Idle,                        \* IDLE0 and IDLE1, which are always there
  W,                           \* values of a run-time counter: 2^32
  MAX_TASKS,
  Hwm,                         \* per handle: the least free stack since boot
  MaxWindow                    \* bound: ticks between two refreshes

ASSUME SysInfoAssumption ==
  /\ Idle \subseteq Handles /\ IsFiniteSet(Handles)
  /\ W \in Nat \ {0} /\ MAX_TASKS \in Nat
  /\ Hwm \in [Handles -> Nat]
  /\ MaxWindow \in Nat

Cores == Cardinality(Idle)
Mil == 1000
Pages == {"main", "cpu", "stack", "other"}

VARIABLES
  alive,                       \* the tasks there are
  run,                         \* their ulRunTimeCounter
  page,                        \* the page on the screen
  uiPc, counted,               \* the timer callback, between its two calls
  s_prev,                      \* the snapshot: counters by handle
  pct, idle_mil,               \* what the last refresh found: the shares
  rows,                        \* and the tasks the page lists, from the top
  since,                       \* history: ticks a task has run since the refresh
  window, reused, missed       \* history: ticks since then; handles taken over
                               \* since then; it listed nothing
vars == <<alive, run, page, uiPc, counted, s_prev, pct, idle_mil, rows,
          since, window, reused, missed>>

kernelVars == <<alive, run>>
uiVars == <<uiPc, counted, s_prev, pct, idle_mil, rows>>

Init ==
  /\ alive = Idle
  /\ run = [h \in Handles |-> 0] /\ since = [h \in Handles |-> 0]
  /\ page = "other"
  /\ uiPc = "timer" /\ counted = 0
  /\ s_prev = << >> /\ pct = << >> /\ idle_mil = 0 /\ rows = << >>
  /\ window = 0 /\ reused = {} /\ missed = FALSE

-----------------------------------------------------------------------------
(***************************************************************************)
(* FreeRTOS, and the user.                                                 *)
(***************************************************************************)
\* One tick of every core.
Tick ==
  /\ window < MaxWindow
  /\ window' = window + 1
  /\ \E running \in kSubset(Cores, alive) :
       /\ run' = [h \in Handles |-> IF h \in running THEN (run[h] + 1) % W ELSE run[h]]
       /\ since' = [h \in Handles |-> IF h \in running THEN since[h] + 1 ELSE since[h]]
  /\ UNCHANGED <<alive, page, uiVars, reused, missed>>

Create ==
  /\ \E h \in Handles \ alive :
       /\ alive' = alive \cup {h}
       /\ reused' = IF h \in DOMAIN s_prev THEN reused \cup {h} ELSE reused
  /\ UNCHANGED <<run, page, uiVars, since, window, missed>>

Delete ==
  /\ \E h \in alive \ Idle :
       /\ alive' = alive \ {h}
       /\ run' = [run EXCEPT ![h] = 0] /\ since' = [since EXCEPT ![h] = 0]
  /\ UNCHANGED <<page, uiVars, window, reused, missed>>

\* Of what a page shows, what it showed on an earlier visit is left out.
Switch ==
  /\ uiPc = "timer"
  /\ page' \in Pages \ {page}
  /\ pct' = << >> /\ idle_mil' = 0 /\ rows' = << >>
  /\ UNCHANGED <<kernelVars, uiPc, counted, s_prev, since, window, reused, missed>>

-----------------------------------------------------------------------------
(***************************************************************************)
(* sysinfo_collect(): what uxTaskGetSystemState() lists.                   *)
(***************************************************************************)
\* The list is empty when the tasks are more than the array was said to hold.
Listed == IF Cardinality(alive) <= counted THEN alive ELSE {}

Prev(h) == IF h \in DOMAIN s_prev THEN s_prev[h] ELSE 0

\* Mutant: the raw timer, one core's worth of time.
DeltaTotalRaw(tasks) == window % W

\* Unsigned: right across one wrap of the counter.
Delta(h) == (run[h] - Prev(h)) % W
DeltaTotal(tasks) == MapThenSumSet(Delta, tasks) % W

\* Per mille of the sum of all deltas.
Share(part, total) == IF total > 0 THEN (part * Mil) \div total ELSE 0
Shares(tasks) == [h \in tasks |-> Share(Delta(h), DeltaTotal(tasks))]

Snapshot(tasks) == [h \in tasks |-> run[h]]

(***************************************************************************)
(* The selection sorts, smallest key first: position i takes the first of  *)
(* the best that are left, and what was there takes its place.             *)
(***************************************************************************)
Best(s, i, key) ==
  CHOOSE b \in i..Len(s) :
    /\ \A j \in i..Len(s) : key[s[b]] <= key[s[j]]
    /\ \A j \in i..(b - 1) : key[s[b]] < key[s[j]]

Swapped(s, i, j) == [s EXCEPT ![i] = s[j], ![j] = s[i]]

SelectionSort(seq, key) ==
  LET sorted[i \in 0..Len(seq)] ==
        IF i = 0 THEN seq
        ELSE Swapped(sorted[i - 1], i, Best(sorted[i - 1], i, key))
  IN  sorted[Len(seq)]

(***************************************************************************)
(* The three timers, of which the visible page's collects.                 *)
(***************************************************************************)
CountTasks ==
  /\ uiPc = "timer" /\ page # "other"
  /\ counted' = Min({Cardinality(alive), MAX_TASKS})
  /\ uiPc' = "collect"
  /\ UNCHANGED <<kernelVars, page, s_prev, pct, idle_mil, rows, since, window,
                 reused, missed>>

\* sysinfo_main_timer_cb() shows the load only; sysinfo_cpu_timer_cb() lists the
\* busy tasks, the busiest first, with one IDLE row after them;
\* sysinfo_stack_timer_cb() every task, the one with least stack left first.
CpuRows(listed, share) ==
  SelectionSort(SelectSeq(listed, LAMBDA h : h \notin Idle), [h \in ToSet(listed) |-> -share[h]])

StackRows(listed) == SelectionSort(listed, Hwm)

Rows(listed, share) ==
  CASE page = "cpu" -> CpuRows(listed, share)
    [] page = "stack" -> StackRows(listed)
    [] OTHER -> << >>

Collect ==
  /\ uiPc = "collect"
  /\ pct' = Shares(Listed)
  /\ idle_mil' = MapThenSumSet(LAMBDA h : pct'[h], Listed \cap Idle)
  /\ \E listed \in SetToSeqs(Listed) : rows' = Rows(listed, pct')
  /\ s_prev' = Snapshot(Listed)
  /\ missed' = (Listed = {})
  /\ uiPc' = "timer" /\ counted' = 0
  /\ since' = [h \in Handles |-> 0] /\ window' = 0 /\ reused' = {}
  /\ UNCHANGED <<kernelVars, page>>

\* sysinfo_main_timer_cb()
BusyMil == IF idle_mil > Mil THEN 0 ELSE Mil - idle_mil

Next == Tick \/ Create \/ Delete \/ Switch \/ CountTasks \/ Collect
Spec == Init /\ [][Next]_vars

-----------------------------------------------------------------------------
\* What the counters cannot tell: more ticks in the window than a counter
\* holds, a new task behind an old handle, a list that came empty now or the
\* last time.
Ticks == MapThenSumSet(LAMBDA h : since[h], alive)
Doubtful == Ticks >= W \/ reused # {} \/ missed \/ missed'

Collected == uiPc = "collect" /\ uiPc' = "timer"

\* The rows are the tasks of the page, each once, in its order.
RowsAre(tasks, Before(_, _)) ==
  /\ IsInjective(rows) /\ ToSet(rows) = tasks
  /\ \A i, j \in DOMAIN rows : i < j => Before(rows[i], rows[j])

\* A refresh shows of every task the share of the CPU time it took since the
\* last refresh, and of the load what the idle tasks left; the shares add up
\* to all there was but for the rounding ("all rows add up to ~1000",
\* ui_sysinfo.c), in whatever order the kernel lists the tasks.  The CPU page
\* lists the busy tasks by what they took, the stack page all of them.
SharesTrue ==
  [][Collected /\ ~Doubtful =>
       /\ \A h \in alive : pct'[h] = Share(since[h], Ticks)
       /\ BusyMil' \in 0..Mil
       /\ page = "cpu" =>
            RowsAre(alive \ Idle, LAMBDA x, y : pct[x] >= pct[y])'
       /\ page = "stack" => RowsAre(alive, LAMBDA x, y : Hwm[x] <= Hwm[y])'
       /\ Ticks > 0 => MapThenSumSet(LAMBDA h : pct'[h], alive) \in
                         (Mil - Cardinality(alive))..Mil]_vars

=============================================================================
