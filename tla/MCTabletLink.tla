---------------------------- MODULE MCTabletLink ----------------------------
(* Instances of TabletLink for TLC, with the sizes of btIncludes.hpp. *)
EXTENDS TabletLink

BT_EXPECTED_DATA_READSIZE == 4
BT_TAB_ACK_SIZE == 3
=============================================================================
