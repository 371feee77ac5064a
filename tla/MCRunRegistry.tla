--------------------------- MODULE MCRunRegistry ---------------------------
(* Small instances of RunRegistry.                                         *)
EXTENDS RunRegistry

CONSTANTS r1, r2, u1, u2, l1, l2
=============================================================================
