------------------------- MODULE MCIdentityKeeper -------------------------
(***************************************************************************)
(* The instance of IdentityKeeper that TLC checks.                         *)
(***************************************************************************)
EXTENDS IdentityKeeper, TLC

CONSTANTS a1, a2, r1, r2, n1, n2

MCAddress == {a1, a2}
MCRole == {r1, r2}
MCName == {n1, n2}

Interchangeable ==
    Permutations(MCAddress) \cup Permutations(MCRole) \cup Permutations(MCName)
===========================================================================
