------------------------------ MODULE MCPages ------------------------------
(* A small instance of Pages: three main pages, three sub-pages, one of   *)
(* each kind: a Back that leaves s_cur_page alone, a Back that sets it,    *)
(* and the slide show, which has none.                                     *)
EXTENDS Pages, TLC

CONSTANTS accel, files, gallery

MCParent == accel :> 0 @@ files :> 2 @@ gallery :> 2
=============================================================================
