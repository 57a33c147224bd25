------------------------- MODULE MCOidTranslator -------------------------
(* A small instance of OidTranslator for TLC.                              *)
EXTENDS OidTranslator, TLC

CONSTANTS r1, r2

MCRid == {r1, r2}
Symmetry == Permutations(MCRid)

=============================================================================
