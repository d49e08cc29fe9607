-------------------------- MODULE MCOracleKeeper --------------------------
(***************************************************************************)
(* The instance of OracleKeeper that TLC checks.                           *)
(***************************************************************************)
EXTENDS OracleKeeper, TLC

CONSTANTS c1, c2, o1, o2, v1, v2

MCCategory == {c1, c2}
MCOracle == {o1, o2}
MCValue == {v1, v2}
MCMaxAges == {0, 1}

Interchangeable ==
    Permutations(MCCategory) \cup Permutations(MCOracle) \cup Permutations(MCValue)
===========================================================================
