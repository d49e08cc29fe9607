-------------------------- MODULE MCEnergyKeeper --------------------------
(***************************************************************************)
(* The instance of EnergyKeeper that TLC checks.                           *)
(***************************************************************************)
EXTENDS EnergyKeeper, TLC

CONSTANTS c1, c2, s1, s2, h1

MCCategory == {c1, c2}
MCSubmitter == {s1, s2}
\* A text, and the one that is hashed for a pair of it: <<text, text>> has the
\* root of the batch of the second alone.
MCDataHash == {h1, {keccak256(h1)}}
MCBatchSizes == {2, 3}

\* The categories are interchangeable; so are the submitters, of whom the
\* parameters hold any set.
Interchangeable == Permutations(MCCategory) \cup Permutations(MCSubmitter)
===========================================================================
