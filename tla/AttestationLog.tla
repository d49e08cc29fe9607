-------------------------- MODULE AttestationLog --------------------------
(***************************************************************************)
(* What an on-chain registry of attestations promises, whatever keeps it:  *)
(* entries are numbered 1, 2, 3, ... without gaps in the order they were   *)
(* accepted, one submission adds its entries together or not at all, and   *)
(* no entry is ever changed or removed.                                    *)
(***************************************************************************)
EXTENDS Naturals, Sequences

CONSTANT Submission(_)   \* is this sequence of entries one whole submission

VARIABLE log

Init == log = << >>

\* The entries a step adds.
added == SubSeq(log', Len(log) + 1, Len(log'))

Accept ==
    /\ Len(log') > Len(log)
    /\ SubSeq(log', 1, Len(log)) = log
    /\ Submission(added)

Spec == Init /\ [][Accept]_log
===========================================================================
