--------------------------- MODULE EVMSupervisor ---------------------------
(***************************************************************************)
(* runEVMServicesSupervised of chain/cmd/energychaind/cmd/evm_server.go:   *)
(* the goroutine that starts the transaction indexer and the JSON-RPC      *)
(* server, waits until they stop, and starts them again after a delay that *)
(* grows, until the node shuts down.                                       *)
(*                                                                         *)
(* The services run under a context of their own.  When a start fails, the *)
(* context is cancelled but nobody waits for what was started already: it  *)
(* lingers until it has seen the cancellation, and holds its port.  The    *)
(* database of the indexer is opened by every attempt, closed by none, and *)
(* lets one process open it once.                                          *)
(***************************************************************************)
EXTENDS Integers, Sequences

CONSTANTS
    MaxShift,       \* 3: the delay is doubled so often at most
    MaxFailures     \* bound: how often a service fails

ASSUME SupervisorAssumption == MaxShift \in Nat /\ MaxFailures \in Nat

VARIABLES
    enableIndexer,  \* JSONRPC.EnableIndexer
    supPc,          \* where the supervisor is
    tries,          \* the attempts made, as far as the delay depends on them
    parentDone,     \* has the node begun to shut down?
    port,           \* who holds the port: nobody, this attempt, or an earlier one
    cancelled,      \* has the earlier one been cancelled?
    databaseOpen,   \* does the process hold the indexer's database?
    failures        \* the number of failures of services

supVars == <<enableIndexer, supPc, tries, parentDone, port, cancelled, databaseOpen, failures>>

\* The length of the delay before an attempt, in units of 3 s.
Delay(n) == IF n = 0 THEN 0 ELSE 2 ^ (IF n - 1 > MaxShift THEN MaxShift ELSE n - 1)

NextTry == tries' = IF tries > MaxShift THEN tries ELSE tries + 1

\* The head of the loop: return, or go on after the delay, which the
\* shutdown cuts short.
BeginAttempt ==
    /\ supPc = "loop"
    /\ supPc' = IF parentDone THEN "returned" ELSE IF Delay(tries) > 0 THEN "delay" ELSE "open"
    /\ UNCHANGED <<enableIndexer, tries, parentDone, port, cancelled, databaseOpen, failures>>

EndDelay ==
    /\ supPc = "delay"
    /\ supPc' = IF parentDone THEN "returned" ELSE "open"
    /\ UNCHANGED <<enableIndexer, tries, parentDone, port, cancelled, databaseOpen, failures>>

\* The database is locked by whoever opened it first, this process too.
OpenIndexerDB ==
    /\ supPc = "open"
    /\ IF enableIndexer
       THEN IF databaseOpen
            THEN supPc' = "loop" /\ NextTry /\ UNCHANGED databaseOpen
            ELSE supPc' = "start" /\ databaseOpen' = TRUE /\ UNCHANGED tries
       ELSE supPc' = "start" /\ UNCHANGED <<tries, databaseOpen>>
    /\ UNCHANGED <<enableIndexer, parentDone, port, cancelled, failures>>

\* Mutant of StartJSONRPC: a failed start does not cancel the context.
StartJSONRPCUncancelled ==
    /\ supPc = "start"
    /\ \/ /\ port = "free"
          /\ port' = "held"
          /\ supPc' = "serving"
          /\ UNCHANGED <<tries, cancelled, failures>>
       \/ /\ port = "free"
          /\ failures < MaxFailures
          /\ failures' = failures + 1
          /\ port' = "lingering"
          /\ supPc' = "loop"
          /\ NextTry
          /\ UNCHANGED cancelled
       \/ /\ port # "free"
          /\ supPc' = "loop"
          /\ NextTry
          /\ UNCHANGED <<port, cancelled, failures>>
    /\ UNCHANGED <<enableIndexer, parentDone, databaseOpen>>

\* The server starts; or it fails after it has taken the port; or it finds
\* the port in use.  In the last two cases evmCancel is called.
StartJSONRPC ==
    /\ supPc = "start"
    /\ \/ /\ port = "free"
          /\ port' = "held"
          /\ supPc' = "serving"
          /\ UNCHANGED <<tries, cancelled, failures>>
       \/ /\ port = "free"
          /\ failures < MaxFailures
          /\ failures' = failures + 1
          /\ port' = "lingering"
          /\ cancelled' = TRUE
          /\ supPc' = "loop"
          /\ NextTry
       \/ /\ port # "free"
          /\ supPc' = "loop"
          /\ NextTry
          /\ UNCHANGED <<port, cancelled, failures>>
    /\ UNCHANGED <<enableIndexer, parentDone, databaseOpen>>

\* What a failed start left behind sees the cancellation and ends.
LingeringEnds ==
    /\ port = "lingering"
    /\ cancelled
    /\ port' = "free"
    /\ cancelled' = FALSE
    /\ UNCHANGED <<enableIndexer, supPc, tries, parentDone, databaseOpen, failures>>

\* A service fails; the group cancels the others.
ServiceFails ==
    /\ supPc = "serving"
    /\ failures < MaxFailures
    /\ failures' = failures + 1
    /\ supPc' = "stopping"
    /\ UNCHANGED <<enableIndexer, tries, parentDone, port, cancelled, databaseOpen>>

\* The shutdown of the node reaches the services by their context.
ServicesSeeShutdown ==
    /\ supPc = "serving"
    /\ parentDone
    /\ supPc' = "stopping"
    /\ UNCHANGED <<enableIndexer, tries, parentDone, port, cancelled, databaseOpen, failures>>

\* Wait returns when all of the group have ended.
WaitReturns ==
    /\ supPc = "stopping"
    /\ port' = "free"
    /\ IF parentDone
       THEN supPc' = "returned" /\ UNCHANGED tries
       ELSE supPc' = "loop" /\ NextTry
    /\ UNCHANGED <<enableIndexer, parentDone, cancelled, databaseOpen, failures>>

ShutDown ==
    /\ ~parentDone
    /\ parentDone' = TRUE
    /\ UNCHANGED <<enableIndexer, supPc, tries, port, cancelled, databaseOpen, failures>>

SupervisorInit ==
    /\ enableIndexer \in BOOLEAN
    /\ supPc = "loop"
    /\ tries = 0
    /\ parentDone = FALSE
    /\ port = "free"
    /\ cancelled = FALSE
    /\ databaseOpen = FALSE
    /\ failures = 0

SupervisorStep ==
    BeginAttempt \/ EndDelay \/ OpenIndexerDB \/ StartJSONRPC
        \/ LingeringEnds \/ ServicesSeeShutdown \/ WaitReturns

SupervisorNext == SupervisorStep \/ ServiceFails \/ ShutDown

---------------------------------------------------------------------------
(* Properties *)

\* The type of the supervisor's state.
SupervisorTypeOK ==
    /\ enableIndexer \in BOOLEAN
    /\ supPc \in {"loop", "delay", "open", "start", "serving", "stopping", "returned"}
    /\ tries \in 0..(MaxShift + 1)
    /\ parentDone \in BOOLEAN
    /\ port \in {"free", "held", "lingering"}
    /\ cancelled \in BOOLEAN
    /\ databaseOpen \in BOOLEAN
    /\ failures \in 0..MaxFailures

\* After any failure the services come up again, until the node shuts down;
\* then the supervisor returns, also out of a delay.  With the indexer
\* enabled only the second half holds: the database stays open from the
\* first attempt on and no later attempt gets past it
\* (evm_server.go:409-505).
ServicesComeBack ==
    /\ []<>(supPc = "serving" \/ parentDone \/ enableIndexer)
    /\ parentDone ~> supPc = "returned"
===========================================================================
