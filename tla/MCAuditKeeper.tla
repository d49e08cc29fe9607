--------------------------- MODULE MCAuditKeeper ---------------------------
(***************************************************************************)
(* The instance of AuditKeeper that TLC checks.                            *)
(***************************************************************************)
EXTENDS AuditKeeper, TLC

CONSTANTS a1, a2, e1, e2

MCActor == {a1, a2}
MCEventType == {e1, e2}
MCDataSize == {1, 2}
MCMaxDataSizes == {0, 1}

Interchangeable == Permutations(MCActor) \cup Permutations(MCEventType)
===========================================================================
