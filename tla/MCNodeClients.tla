--------------------------- MODULE MCNodeClients ---------------------------
(***************************************************************************)
(* The instance of NodeClients that TLC checks.                            *)
(***************************************************************************)
EXTENDS NodeClients

CONSTANTS w1, w2, w1lower, w2lower, contract, h1, h2, zero, x

MCAccount == {w1, w2}
MCReceiver == {w1, w2, contract}
MCDataHash == {h1, h2, zero}

\* A heading, a row of three groups with an empty cell in the last, and a
\* row with one group, whose record is that of the first group again.
MCSheet ==
    << <<"time", "meter", "value", "time", "meter", "value", "time", "meter", "value">>,
       <<"noon", "m1", "5", "noon", "m2", "5", "noon", "m3", Empty>>,
       <<"noon", "m1", "5", Empty, Empty, Empty, Empty, Empty, Empty>> >>

MCRecordHash ==
    [r \in [time : {"noon"}, meter : {"m1", "m2"}, value : {"5"}] |->
        IF r.meter = "m1" THEN h1 ELSE h2]

\* The text x hashes to h1; a hash that is hashed gives another.
MCHashOf == [s \in {x} \cup MCDataHash |-> IF s = h1 THEN h2 ELSE h1]

MCLower == [a \in MCReceiver |-> CASE a = w1 -> w1lower [] a = w2 -> w2lower
                                   [] a = contract -> contract]
MCWatched == {w1lower, w2}

MCMaxFaults == [p \in Programs |-> IF p = "uploader" THEN 2 ELSE 1]
MCMaxRestarts == [p \in Programs |-> IF p = "uploader" THEN 1 ELSE 0]

MCCaller == {"first", "second"}
===========================================================================
