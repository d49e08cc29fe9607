----------------------------- MODULE EnergyCli -----------------------------
(***************************************************************************)
(* The command-line tool cli/bin/energy-cli.js, run in several terminals:  *)
(* hash, attest, batch-attest, verify, query and info.                     *)
(*                                                                         *)
(* What a command prints is kept in "shown" as far as it says something    *)
(* about the chain; a certificate that was printed is kept for good.  A    *)
(* string that is written as a hash, "0x" and 64 digits, is that hash.     *)
(***************************************************************************)
EXTENDS EthersSigner

CONSTANTS
    Text,               \* the strings that are not written as a hash
    HashOf,             \* string or hash -> its keccak256
    CliContract,        \* the address given by --contract
    MaxItems,           \* bound: the items of a batch file
    MaxCommands,        \* bound: the commands given
    Nothing

ASSUME CliAssumption ==
    /\ Text \cap DataHash = {}
    /\ HashOf \in [Text \cup DataHash -> DataHash]
    /\ CliContract \in Receiver
    /\ "general" \in DataType
    /\ MaxItems \in Nat
    /\ MaxCommands \in Nat

VARIABLES
    shown,          \* terminal -> what its last command printed
    certificates,   \* history: the hashes and submitters of all certificates
    commands        \* the number of commands given

cliVars == <<calls, shown, certificates, commands>>

\* What the options name: a file, a string, a hash, or nothing usable.
Source == [kind : {"file", "data"}, item : Text \cup DataHash]
            \cup [kind : {"hash"}, item : DataHash]

hashData(s) == HashOf[s]

\* The choice between --hash, --file and --data, of attest and of verify.
SourceHash(src) == IF src.kind = "hash" THEN src.item ELSE hashData(src.item)

\* The items of a batch file: what is written as a hash is taken as it is.
BatchHashes(items) ==
    [i \in DOMAIN items |-> IF items[i] \in DataHash THEN items[i] ELSE hashData(items[i])]

Show(t, what) == shown' = [shown EXCEPT ![t] = what]

NewCommand == commands < MaxCommands /\ commands' = commands + 1

Idle(t) == calls[t].pc = "idle"

---------------------------------------------------------------------------
(* Commands that need no chain, and those that end before they reach it *)

\* resolveOpts and getWriteContract without an address or a key, a file that
\* is not there, a batch that is no list, no option at all.
ExitEarly(t) ==
    /\ Idle(t)
    /\ NewCommand
    /\ Show(t, [kind |-> "error"])
    /\ UNCHANGED <<nodeVars, faults, calls, certificates>>

HashCommand(t, src) ==
    /\ Idle(t)
    /\ src.kind \in {"file", "data"}
    /\ NewCommand
    /\ Show(t, [kind |-> "hash", hash |-> hashData(src.item)])
    /\ UNCHANGED <<nodeVars, faults, calls, certificates>>

---------------------------------------------------------------------------
(* Writing *)

CliTx(key, op, hashes) ==
    [from |-> key, nonce |-> 0, op |-> op, to |-> CliContract, hashes |-> hashes,
     dataType |-> "general", item |-> 0]

Attest(t, key, src) ==
    /\ NewCommand
    /\ Populate(t, CliTx(key, "attest", <<SourceHash(src)>>))
    /\ Show(t, Nothing)
    /\ UNCHANGED certificates

BatchAttest(t, key, items) ==
    /\ NewCommand
    /\ Populate(t, CliTx(key, "batch", BatchHashes(items)))
    /\ Show(t, Nothing)
    /\ UNCHANGED certificates

Deliver(t) ==
    /\ Broadcast(t) \/ Receipt(t)
    /\ UNCHANGED <<shown, certificates, commands>>

\* What attest and batch-attest print after wait, or in their catch.
PrintOutcome(t) ==
    /\ \/ /\ calls[t].pc = "confirmed"
          /\ certificates' = certificates \cup
                {[hash |-> calls[t].tx.hashes[i], submitter |-> calls[t].tx.from] :
                    i \in 1..Len(calls[t].tx.hashes)}
          /\ Show(t, [kind |-> "attested", submitter |-> calls[t].tx.from])
       \/ /\ calls[t].pc = "thrown"
          /\ Show(t, [kind |-> "failure"])
          /\ UNCHANGED certificates
    /\ EndCall(t)
    /\ UNCHANGED <<nodeVars, faults, commands>>

---------------------------------------------------------------------------
(* Reading *)

\* A command that asks the chain and prints the answer, or its catch.
Ask(t, answer) ==
    /\ Idle(t)
    /\ NewCommand
    /\ \/ Show(t, answer) /\ UNCHANGED faults
       \/ Show(t, [kind |-> "failure"]) /\ ConnectionFails
    /\ UNCHANGED <<nodeVars, calls, certificates>>

VerifyAnswer(h) ==
    IF Contract!verifyByHash(h).exists
    THEN [kind |-> "verified", hash |-> h,
          submitter |-> Contract!verifyByHash(h).a.submitter]
    ELSE [kind |-> "absent", hash |-> h]

Verify(t, src) == Ask(t, VerifyAnswer(SourceHash(src)))

\* The attestations of a list are asked for one by one after the list; they
\* never change, so one answer stands for them.
QueryAnswers ==
    {[kind |-> "total", total |-> totalAttestations]}
    \cup {IF id \in 1..totalAttestations
          THEN [kind |-> "listed", list |-> <<attestations[id]>>]
          ELSE [kind |-> "failure"] : id \in 0..(totalAttestations + 1)}
    \cup {[kind |-> "listed", list |-> [i \in DOMAIN ids |-> attestations[ids[i]]]] :
            ids \in {submitterAttestations[a] : a \in Account}
                        \cup {typeAttestations[d] : d \in DataType}}

Query(t) == \E answer \in QueryAnswers : Ask(t, answer)

\* info prints what it can read and does not fail.
Info(t) ==
    /\ Idle(t)
    /\ NewCommand
    /\ \/ Show(t, [kind |-> "info", block |-> Len(executed), total |-> totalAttestations])
          /\ UNCHANGED faults
       \/ Show(t, [kind |-> "info"]) /\ ConnectionFails
    /\ UNCHANGED <<nodeVars, calls, certificates>>

CliInit ==
    /\ shown = [t \in Caller |-> Nothing]
    /\ certificates = {}
    /\ commands = 0

Batches == UNION {[1..n -> Text \cup DataHash] : n \in 0..MaxItems}

CliNext ==
    \E t \in Caller :
        \/ ExitEarly(t)
        \/ \E src \in Source : HashCommand(t, src) \/ Verify(t, src)
        \/ \E key \in Account, src \in Source : Attest(t, key, src)
        \/ \E key \in Account, items \in Batches : BatchAttest(t, key, items)
        \/ Deliver(t)
        \/ PrintOutcome(t)
        \/ Query(t)
        \/ Info(t)

---------------------------------------------------------------------------
(* Properties *)

\* The type of the tool's state.
CliTypeOK ==
    /\ \A c \in certificates : c.hash \in DataHash /\ c.submitter \in Account
    /\ DOMAIN shown = Caller
    /\ commands \in 0..MaxCommands

\* A certificate tells the truth: the chain has the hash, under the
\* submitter the certificate names, for ever, whatever other terminals
\* attest at the same time, with the same key or hash (energy-cli.js:134-158,
\* 211-225); a transaction in the pool is not replaced by one of a higher fee
\* here, see CanAccept.  So does the answer of verify, as long as it stays on screen.
CertificateIsTrue ==
    /\ \A c \in certificates :
        /\ Contract!verifyByHash(c.hash).exists
        /\ Contract!verifyByHash(c.hash).a.submitter = c.submitter
    /\ \A t \in Caller :
        /\ shown[t] # Nothing
        /\ shown[t].kind = "verified"
        => VerifyAnswer(shown[t].hash) = shown[t]
===========================================================================
