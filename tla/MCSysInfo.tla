----------------------------- MODULE MCSysInfo -----------------------------
(* A small instance of SysInfo: two cores, two other tasks.               *)
EXTENDS SysInfo

CONSTANTS idle0, idle1, a, b

MCHwm == idle0 :> 2 @@ idle1 :> 2 @@ a :> 1 @@ b :> 1

\* The two idle tasks differ in nothing, nor do the others.
TaskSymmetry == Permutations({idle0, idle1}) \cup Permutations({a, b})
=============================================================================
