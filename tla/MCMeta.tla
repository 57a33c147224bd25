--------------------------------- MODULE MCMeta ---------------------------------
(* A switch s with a port p that has a queue q; the client may create a queue u *)
(* and another object b.  FDB entry e is on b.  A second switch t has entry f.  *)
EXTENDS Meta, TLC

CONSTANTS s, t, p, q, u, b, e, f, k

MCOid == {s, t, p, q, u, b}
MCSwitch == {s, t}
MCPort == {p}
MCEntry == {e, f}
MCSwitchOf == [x \in MCOid \cup MCEntry |-> IF x \in {t, f} THEN t ELSE s]
MCDefault == {p, q}
MCHome == [x \in MCOid |-> IF x = q THEN p ELSE NoPort]
MCMember == e :> {s, b} @@ f :> {t}
MCAttrKey == {k}
================================================================================
