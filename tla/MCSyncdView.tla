---------------------------- MODULE MCSyncdView ----------------------------
(* A switch that comes with one object d, one object a that only OA        *)
(* creates, and one attribute value x besides the default; or only the     *)
(* switch, with that attribute value.                                      *)
EXTENDS SyncdView

CONSTANTS d, a, x

MCVid == {d, a}
MCDefault == {d}
MCValue == {x}
NoPort == {}
NoVid == {}
NoDefault == {}
=============================================================================
