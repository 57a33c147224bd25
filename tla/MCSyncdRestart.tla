---- MODULE MCSyncdRestart ----
EXTENDS SyncdRestart

\* Bound: where entries may be of unknown types there is no upgrade.
MCNext == Next /\ (upgraded' => otherEntry = {})

MCSpec == Init /\ [][MCNext]_vars

\* Ids other than those of the switch are interchangeable.
Symmetry == Permutations(Vid \ {SwitchVid}) \cup Permutations(UserRid)
====
