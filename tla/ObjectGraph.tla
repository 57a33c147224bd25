------------------------------ MODULE ObjectGraph ------------------------------
(***************************************************************************)
(* What the metadata checks (saimeta::Meta) promise: the objects of the    *)
(* switches form a graph in which every reference leads to an object of    *)
(* the same switch.  An object goes only when nothing refers to it, or     *)
(* with its switch.  Objects that the switch made by itself may become     *)
(* known at any step.                                                      *)
(***************************************************************************)
CONSTANTS Oid, Entry, Switch, SwitchOf, Attr

VARIABLE objects   \* partial function from Oid and Entry to [Attr -> SUBSET Oid]

Key == Oid \cup Entry
NoAttrs == [a \in Attr |-> {}]
Refs(attrs) == UNION {attrs[a] : a \in Attr}

Init == objects = <<>>

\* Objects are created or become known, or get new attributes.
Update ==
    /\ DOMAIN objects \subseteq DOMAIN objects'
    /\ \A k \in DOMAIN objects' :
        \/ k \in DOMAIN objects /\ objects'[k] = objects[k]
        \/ /\ k \in Key /\ objects'[k] \in [Attr -> SUBSET Oid]
           /\ Refs(objects'[k]) \subseteq DOMAIN objects'
           /\ \A o \in Refs(objects'[k]) : SwitchOf[o] = SwitchOf[k]

\* The others keep their attributes; those that become known have none.
KeepOthers ==
    \A k \in DOMAIN objects' :
        IF k \in DOMAIN objects THEN objects'[k] = objects[k] ELSE k \in Oid /\ objects'[k] = NoAttrs

\* Objects to which nothing refers go, and none to which one that goes refers.
Remove ==
    /\ \A k \in DOMAIN objects : Refs(objects[k]) \subseteq DOMAIN objects'
    /\ KeepOthers

RemoveSwitch(s) ==
    /\ DOMAIN objects' = {k \in DOMAIN objects : SwitchOf[k] # s}
    /\ KeepOthers

Clear == objects' = <<>>

Next ==
    \/ Update
    \/ Remove
    \/ \E s \in Switch : RemoveSwitch(s)
    \/ Clear

Spec == Init /\ [][Next]_objects

\* Every reference leads to an object that is there, of the same switch.
Closed ==
    \A k \in DOMAIN objects :
        /\ Refs(objects[k]) \subseteq DOMAIN objects
        /\ \A o \in Refs(objects[k]) : SwitchOf[o] = SwitchOf[k]
================================================================================
