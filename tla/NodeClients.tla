---------------------------- MODULE NodeClients ----------------------------
(***************************************************************************)
(* The programs that send transactions to the node, each together with the *)
(* node: an upload script, the command-line tool in several terminals, or  *)
(* an exchange with the SDK; and the supervisor that keeps the services up *)
(* which those programs talk to.  What the node does to a program, losing  *)
(* its requests and replies among it, does not depend on the others, so    *)
(* that a behaviour runs one of them.  The insert queue only delays a      *)
(* transaction: it is modelled for the uploader, which fills the pool.     *)
(***************************************************************************)
EXTENDS AttestationUploader, EnergyCli, EnergySdk, EVMSupervisor

CONSTANTS
    MaxFaults,      \* bound: program -> the requests and replies that get lost
    MaxRestarts     \* bound: program -> the restarts of the RPC node

Programs == {"uploader", "cli", "sdk", "supervisor"}

ASSUME ClientsAssumption == MaxFaults \in [Programs -> Nat] /\ MaxRestarts \in [Programs -> Nat]

VARIABLE program

vars == <<program, nodeVars, faults, uploaderVars, calls, shown, certificates, commands,
          indexed, scanned, deposits, payments, sends, supVars>>

Init ==
    /\ program \in Programs
    /\ NodeInit
    /\ faults = MaxFaults[program]
    /\ restarts = MaxRestarts[program]
    /\ exclusive => program = "uploader"
    /\ UploaderInit
    /\ SignerInit
    /\ CliInit
    /\ SdkInit
    /\ SupervisorInit

cliOnly == <<shown, certificates, commands>>
sdkOnly == <<indexed, scanned, deposits, payments, sends>>

NodeStep ==
    /\ program # "supervisor"
    /\ NodeNext
    /\ UNCHANGED <<program, faults, uploaderVars, calls, cliOnly, sdkOnly, supVars>>

UploaderStep ==
    /\ program = "uploader"
    /\ UploaderNext
    /\ UNCHANGED <<program, calls, cliOnly, sdkOnly, supVars>>

CliStep ==
    /\ program = "cli"
    /\ CliNext
    /\ UNCHANGED <<program, uploaderVars, sdkOnly, supVars>>

SdkStep ==
    /\ program = "sdk"
    /\ SdkNext
    /\ UNCHANGED <<program, uploaderVars, cliOnly, supVars>>

SupStep ==
    /\ program = "supervisor"
    /\ SupervisorNext
    /\ UNCHANGED <<program, nodeVars, faults, uploaderVars, calls, cliOnly, sdkOnly>>

Next == NodeStep \/ UploaderStep \/ CliStep \/ SdkStep \/ SupStep

\* The node's as in EvmNode.  Of the supervisor: goroutines go on and timers
\* run out, what a failed start left behind among them; a service need not
\* fail and the node need not shut down.
Fairness ==
    /\ NodeFairness
    /\ WF_supVars(program = "supervisor" /\ SupervisorStep)
    /\ WF_supVars(program = "supervisor" /\ LingeringEnds)

Spec == Init /\ [][Next]_vars /\ Fairness

\* The type of the whole state.
TypeOK ==
    /\ program \in Programs
    /\ NodeTypeOK
    /\ UploaderTypeOK
    /\ SignerTypeOK
    /\ CliTypeOK
    /\ SdkTypeOK
    /\ SupervisorTypeOK

\* ServicesComeBack of the behaviours that run the supervisor.
SupervisorServes == program = "supervisor" => ServicesComeBack
===========================================================================
