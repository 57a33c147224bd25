-------------------------- MODULE MCViewTransition --------------------------
(* Small views for ViewTransition: one port; groups g1, g2 and member m1 of   *)
(* the current view, some of which the temporary view may know too; new      *)
(* groups h1, h2 and a new member n1.                                        *)
EXTENDS ViewTransition

CONSTANTS p, g1, g2, h1, h2, m1, n1, a, b

MCPorts == {p}
MCGroups == {g1, g2, h1, h2}
MCMembers == {m1, n1}
MCVals == {a, b}

Obj(up, ref, val) == [up |-> up, ref |-> ref, val |-> val]

\* the views with these groups (a function to their values) and members; a member
\* belongs to one of ups and refers to one of refs, and one of keyed may have an entry
ViewsWith(vals, members, ups, refs, keyed, entries) ==
    LET groups == DOMAIN vals
        G == [g \in groups |-> Obj(Absent, NullId, vals[g])]
    IN  {G @@ (p :> Obj(Absent, r, Absent)) @@ M @@ E :
            r \in groups \cup {NullId},
            M \in [members -> {Obj(u, s, Absent) : u \in ups \cap (groups \cup {Absent}),
                                                   s \in refs \cap (groups \cup {NullId})}],
            E \in UNION {[{Entry(m) : m \in K} -> {o \in entries : o.ref \in groups \cup {NullId}}] :
                           K \in SUBSET (keyed \cap members)}}

MCCurrentViews ==
    UNION {ViewsWith(vals, members, {g1}, {g2, NullId}, {m1}, {Obj(Absent, g1, Absent)}) :
             vals \in {g1 :> a, (g1 :> a) @@ (g2 :> a), (g1 :> a) @@ (g2 :> Absent)},
             members \in {{}, {m1}}}

MCTempViews ==
    UNION {ViewsWith(vals, members, {Absent, h1}, {h1, NullId}, {m1, n1},
                     {Obj(Absent, NullId, Absent), Obj(Absent, h1, a)}) :
             vals \in {g1 :> Absent, h1 :> b, (g1 :> a) @@ (h1 :> a), (h1 :> a) @@ (h2 :> b)},
             members \in {{}, {m1}, {n1}}}
=============================================================================
