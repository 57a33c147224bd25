----------------------------- MODULE MCFlexCounter -----------------------------
(* Two objects, two counters; a prefix that matches one of them.            *)
EXTENDS FlexCounter

CONSTANTS x, y, a, b

MCVid == {x, y}
MCRemovable == {x}
MCStat == {a, b}
MCPrefix == {"A"}
MCPrefixOf == [s \in MCStat |-> IF s = a THEN "A" ELSE "B"]
MCLists == {{a, b}}
MCBulkChoices == {{a, b}, {a}}
MCDoubtful == {b}
================================================================================
