-------------------------- MODULE MCEventIndexer --------------------------
(***************************************************************************)
(* The instances of EventIndexer that TLC checks: with two polls at a time *)
(* (EventIndexerOverlap.cfg) and with one (EventIndexerSerial.cfg).        *)
(***************************************************************************)
EXTENDS EventIndexer, TLC

CONSTANTS p1, p2, t1, t2

OnePair == {p1}
TwoPairs == {p1, p2}
OnePoll == {t1}
TwoPolls == {t1, t2}

Interchangeable == Permutations(TwoPolls)
===========================================================================
