--------------------------- MODULE MCWifiManager ---------------------------
(* Small instances of WifiManager.                                         *)
EXTENDS WifiManager

CONSTANTS a, b, c

\* Nothing saved, or a full list that was last connected to its second network.
MCSaved == {[list |-> <<>>, last |-> None], [list |-> <<a, b>>, last |-> b]}

\* A list of three.
MCSavedThree == {[list |-> <<a, b, c>>, last |-> c]}
=============================================================================
