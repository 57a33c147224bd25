------------------------- MODULE MCLinkEventDamping -------------------------
(* One port.  A single flap starts damping in HardConfig, two close ones   *)
(* in SoftConfig.                                                          *)
EXTENDS LinkEventDamping

CONSTANT p1

MCPort == {p1}
SoftConfig == {[half |-> 1, max |-> 2, suppress |-> 3, reuse |-> 1, flap |-> 2]}
HardConfig == {[half |-> 1, max |-> 2, suppress |-> 3, reuse |-> 1, flap |-> 3]}
BothConfigs == SoftConfig \cup HardConfig
=============================================================================
