----------------------------- MODULE PoolFetch ------------------------------
(***************************************************************************)
(* How the pages list the factory's pairs: the number of pairs is read,    *)
(* then pair by pair its tokens, reserves and supply, and the balance of   *)
(* the account that was connected when the fetch began.  Every read may    *)
(* see a later chain.  A fetch is not cancelled: when the account changes  *)
(* another one starts, and the one that ends last is what the page shows.  *)
(* A read that fails ends the fetch and leaves the rows as they were.      *)
(***************************************************************************)
EXTENDS WagmiHooks

VARIABLES
    fetches,            \* the fetches under way
    rows,               \* the pairs shown
    loading             \* is the spinner shown?

fetchVars == <<fetches, rows, loading>>

NewFetch(a) == [for |-> a, len |-> -1, got |-> << >>, row |-> << >>]

\* What a fetch changes; every step is one of its reads.
Advance(f, g) == fetches' = (fetches \ {f}) \cup {g}

StartFetch(a) ==
    /\ fetches' = fetches \cup {NewFetch(a)}
    /\ loading' = TRUE
    /\ UNCHANGED rows

\* allPairsLength
ReadLength(f) ==
    /\ f.len = -1
    /\ Advance(f, [f EXCEPT !.len = Len(chain.allPairs)])
    /\ UNCHANGED <<rows, loading>>

\* The tokens, reserves and supply of the next pair.
ReadPair(f) ==
    /\ Len(f.got) < f.len /\ f.row = << >>
    /\ LET p == chain.allPairs[Len(f.got) + 1] IN
        Advance(f, [f EXCEPT !.row = <<[pair |-> p, reserve |-> chain.reserve[p],
                                        supply |-> chain.supply[p], userLp |-> 0]>>])
    /\ UNCHANGED <<rows, loading>>

\* The account's pool tokens, and the row is complete.
ReadBalance(f) ==
    /\ f.row # << >>
    /\ LET lp == IF f.for = Nobody THEN 0 ELSE chain.bal[f.row[1].pair][f.for]
       IN Advance(f, [f EXCEPT !.got = Append(@, [f.row[1] EXCEPT !.userLp = lp]), !.row = << >>])
    /\ UNCHANGED <<rows, loading>>

FinishFetch(f) ==
    /\ f.len = Len(f.got)
    /\ fetches' = fetches \ {f}
    /\ rows' = f.got
    /\ loading' = FALSE

FailFetch(f) ==
    /\ fetches' = fetches \ {f}
    /\ loading' = FALSE
    /\ UNCHANGED rows

FetchStep ==
    \E f \in fetches : ReadLength(f) \/ ReadPair(f) \/ ReadBalance(f) \/ FinishFetch(f) \/ FailFetch(f)

FetchInit ==
    /\ fetches = {NewFetch(account)}
    /\ rows = << >>
    /\ loading = TRUE

\* The percentage of the pool that a row says the account has, rounded.
Share(row) == IF row.supply > 0 THEN (row.userLp * 100) \div row.supply ELSE 0

\* The type of the fetches.
FetchTypeOK ==
    /\ loading \in BOOLEAN
    /\ \A i \in 1..Len(rows) : rows[i].pair \in Pair /\ rows[i].userLp \in Nat
===========================================================================
