# Energy Chain: TLA+ specifications

This directory holds TLA+ models of Energy Chain, the TLC configurations that
check them on small instances, and proofs that TLAPS checks for every value of
the constants.  `PROJECT.json` lists the runs, the source lines each definition
stands for, the hazards of the code, the mutants and the theorems.

## 1. The system

Energy Chain is an EVM-compatible Cosmos chain (`chain/`) with four modules of
its own, a set of Solidity contracts (`contracts/`), programs beside the chain
that feed it and read it, and two web front ends.

| part | state | operations | hard about it |
|---|---|---|---|
| energy module `chain/x/energy` | records, batches, two indexes, one counter, parameters | submit a record, submit a batch checked against its Merkle root, queries, export, import | one counter numbers records and batches; indexes are never cleaned; a batch must be whole; the export has no counter |
| oracle module `chain/x/oracle` | oracles, history per category and time stamp, latest datum per category, parameters | submit, add and remove oracle, queries, export, import | two copies of a datum; time stamps out of order; the latest datum after an import |
| audit module `chain/x/audit` | entries, three indexes, counter, parameters | record, query by one of three criteria, export, import | numbering without gaps, byte-key ranges, a counter that import must restore |
| identity module `chain/x/identity` | identities, role index, administrator | register, update, revoke, queries, export, import | the order of legal messages, index never cleaned, two kinds of authority |
| attestation contract `EnergyDataAttestation.sol` | attestations by id, hash, submitter, type | attest, batchAttest, look-ups | duplicates inside a batch, four copies of an id |
| DEX pair, pool token | reserves, `kLast`, shares | mint, burn, swap, skim, sync | rounding, the protocol fee, callbacks between read and write |
| DEX router, factory, library, WECY | allowances, pairs, wrapped coin | add and remove liquidity, swap, wrap | limits and refunds over several calls |
| event indexer `dex-indexer` | database of events, `lastBlock`, pairs tracked in memory | historical sync, periodic poll | polls that overlap, crashes between storing events and `lastBlock`, gaps between sync and poll |
| price service `dex-indexer` | candles, daily figures | rebuild candles from swaps | a bucket that is rebuilt from a part of its swaps; runs that overlap |
| upload scripts, CLI, SDK; transaction insertion `chain/mempool.go` | nonces, counts, certificates, deposits | send, retry, wait, verify, scan | lost requests and replies, nonce gaps, a full queue, one key used twice |
| EVM service supervisor `evm_server.go` | attempt, contexts, goroutines, the indexer database | start, wait, back off, stop | a failed start leaves a goroutine and an open database behind |
| DEX front end `dex-frontend` | fields of each page, cache of reads, hooks | swap, add and remove liquidity, transfer, lists, chart | a decision by an answer that is old, a hook with two requests, an account that changes in between |
| DEX scripts `contracts/scripts` | the step they are at | deploy, fund, add, swap, simulate | an allowance or a quote that others have overtaken |
| block explorer `ping-explorer` | stores, fields of each page, timers | open, leave, page, search, poll | late answers, requests that overlap, timers started after a wait |

How they interact: users and the programs send transactions, the node inserts
them into its mempool, blocks execute them one after the other on the
key-value store (the four modules) or in the EVM (the contracts).  The indexer
polls the node for the events of the DEX contracts and stores them; the price
service reads its database.  The DEX front end reads the contracts and sends
through the user's wallet; the block explorer reads the node's REST interface.
The four modules do not call each other: `app.go` gives each its own store key
and nothing else.  The module manager exports and imports the genesis state of
all of them (`chain/export.go`).

The handlers of the four modules are modelled as they are written.  Note that
`RegisterServices` does nothing in any of them (`module.go`), so a node built
from this tree routes no message to them yet; they are reached by tests and by
genesis import and export.

## 2. Modules and how they correspond to the code

| module | models | theorems in |
|---|---|---|
| `AttestationLog` | what a registry of attestations promises: an append-only log to which a submission is added whole | |
| `EnergyKeeper` | `chain/x/energy`, with `computeMerkleRoot`, `hashPair` and `verifyMerkleRoot` | `EnergyKeeperProofs` |
| `OracleKeeper` | `chain/x/oracle` | `AuditOracleProofs` |
| `AuditKeeper` | `chain/x/audit` | `AuditOracleProofs` |
| `IdentityKeeper` | `chain/x/identity` | `IdentityKeeperProofs` |
| `EnergyDataAttestation` | the contract of that name | `EnergyDataAttestationProofs` |
| `EventIndexer` | `dex-indexer/src/indexer/EventIndexer.ts`, its tables, and the chain it reads | `EventIndexerProofs` |
| `EvmNode` | the node as its clients meet it: pools, `chain/mempool.go`, blocks, restarts, lost calls | |
| `EthersSigner` | a transaction sent through ethers (external) | |
| `AttestationUploader` | `upload_evm_contract.js`, `upload_evm_rawtx.js`, `parse_xlsx.js` | |
| `EnergyCli`, `EnergySdk` | `cli/bin/energy-cli.js`, `sdk/lib/client.js` | |
| `EVMSupervisor` | `runEVMServicesSupervised` | |
| `NodeClients` | composes the six above | `NodeClientsProofs` |
| `DexContracts` | pair, pool token, factory, router, library, WECY, token factory | |
| `WagmiHooks` | wallet, cache and hooks (external, as the pages use them) | |
| `SwapCard`, `PoolPage`, `TransferPage`, `ListPages`, `ChartsPage`, `PoolFetch` | the pages of `dex-frontend`, and how they list pairs | |
| `PriceService` | `PriceService.ts` | |
| `DexScripts` | `contracts/scripts/*.ts` | |
| `DexApp` | composes the ten above | `DexAppProofs` |
| `ExplorerStores` | the explorer's REST clients, the life of a request, and its stores: start-up, wallet, dialog, what the browser keeps | |
| `ExplorerPages` | its pages, a table each, and the actions they share | |
| `ExplorerBlocks` | its polling, the uptime strip, the consensus page | |
| `Explorer` | composes the three above | `ExplorerProofs` |

The audit and the oracle module share nothing but the file of their proofs; so
that one module can extend both, the oracle's definitions that would otherwise
have the audit's names begin with `Oracle`.

`MC<module>` extends a module with the model values and the symmetry sets of
its run.

Conventions of the modules of the chain:

* One variable per key prefix of the store (the comment beside it gives the
  prefix and the layout of the key) or per state variable of the contract, and
  one action `Msg...` or one named as the Solidity function per handler.  The
  guard is the handler's early returns, the primed variables everything the
  handler and the keeper methods it calls store.
* A message is atomic: the SDK runs the transactions of a block one after the
  other and drops the writes of one that returns an error, and the EVM reverts
  a call that fails a `require`.  A refused message is therefore no step.
* `EndBlock` or `NextBlock` lets the height or the time pass; block times never
  decrease.
* A restart of a node is not a step of these modules: the store is committed
  with every block.  What is modelled is `Relaunch`: the state is exported
  (`ExportGenesis`) and a new chain imports it (`InitGenesis`).
* Data that no property tells apart is left out: metadata, memos, names of
  oracles, transaction hashes.  The string identifier `energy-<n>` is `n`.
* Byte keys: category, role and actor are separated from what follows by the
  byte 0x00, so two of them never alias as long as the texts hold no 0x00,
  which is assumed.
* keccak256 is injective (`keccak256`): a digest is known by the text hashed.
  Nothing else is assumed of it.  The 64 bytes of two sorted digests are a text
  too, represented by the set of the two, and since `verifyMerkleRoot` hashes
  leaves as it hashes nodes, a data hash may be such a text.

`EventIndexer` has other units of atomicity.  The program is one thread that
gives up control at every `await`, so the historical sync and each poll are
tasks (`task[t]`), and an action is a piece between two awaits whose effect
another poll or a restarted process can see: the answer of `getBlockNumber`
(`Tick`) and the comparison with `lastProcessed` (`TakeRange`, `Return`) are
two actions, because another poll may end in between; every row, every
reserves column and `lastBlock` are written by an action each.  Requests that
only read finished blocks are merged with the next piece, since blocks are
final.  `Fail` is an error of any request: the `catch` of a poll gives it up,
and that of `main` ends the sync.  `Crash` loses what is in memory, and `Start`
reads the database again.

The programs of `NodeClients`, the pages of `DexApp` and those of `Explorer`
follow the same rule: what runs between two awaits, callbacks or renderings is
one action, and between them everybody else may act.

* *`NodeClients`.* A request may be lost on its way or its reply on the way
  back, so a program that throws does not know whether the node has the
  transaction.  A transaction goes through the stages of `EvmNode`, and the
  insert queue of `chain/mempool.go` answers with a retry code when it is full.
  The programs share the node and nothing else, and what the node does to one
  does not depend on the others: a behaviour runs one program
  (`program`), the CLI in two terminals and the SDK with two calls at a time.
* *`DexApp`.* A call of a contract is an operator from a state to the set of
  states it may end in, empty when it reverts: callbacks of a swap and the
  order of transfers are inside.  Slippages are finer than what the card reckons
  in (`Fine`), and `ShareLeft` is the rounding of line 104, with the error that
  doubles may add to it.  A page is modelled by what it has read, each
  answer arriving when it likes, what can be clicked in that state, and the
  hook's one visible request.  A behaviour opens one page, or runs the scripts
  or the price service, while others trade.
* *`Explorer`.* A page is a row of a table: what it asks for when it is opened,
  what an answer makes it ask for, what its tabs, bars, picks and buttons ask
  for.  `pending` holds the requests under way, `shown` what each slot of page
  or store is about and which page of a list it is.  A behaviour looks at one
  kind of page or one timer.  `excuse` is a history variable: each place where
  the code itself loses track puts a name into it (`failed`, `wallet`, `bar`,
  `reused`, `wiped`, `recounted`), and the behaviour ends there.  An answer
  written after a newer one for its slot is no such end: the slot is marked
  `late` until the next answer for it.  On the consensus page `watch.hurried`
  counts the changes of the endpoint and the leavings while a load is under way.

The abstract specification `AttestationLog` is implemented by three modules
that share no code: `EnergyKeeper` (identifiers 1..counter, a batch and its
records being one submission), `AuditKeeper` (one entry at a time) and
`EnergyDataAttestation` (a batch of one sender, type and block).  Each states
it as `ImplementsLog` with a refinement mapping `issued` or `attestations`.

## 3. Runs

| run | shows | distinct states |
|---|---|---|
| `energy` | the energy module of a running chain | about 842,000 |
| `energy_relaunch` | violation: a relaunch lets records be overwritten | |
| `oracle` | the oracle module, with relaunches | about 170,000 |
| `audit` | the audit module, with relaunches | about 54,000 |
| `audit_genesis` | violation: a genesis without counter is accepted and an entry overwritten | |
| `identity` | the identity module from every genesis state, with relaunches | about 5,500 |
| `attestation` | the contract | about 1,600 |
| `indexer_overlap` | the indexer with two polls at a time | about 4,315,000 |
| `indexer_serial` | the indexer with one poll at a time, and liveness | about 483,000 |
| `node_clients` | uploader, CLI, SDK and supervisor over a node that loses calls and restarts, and liveness | about 514,000 |
| `dex_app` | the contracts, each page, the scripts, the price service while others trade, and liveness | about 1,259,000 |
| `explorer` | each page of the block explorer and its timers, and liveness | about 850,000 |

Deadlock is checked in the runs of the indexer, whose timer never stops.  It is
not checked in the others: there the bounds stop the model, and a system nobody
sends messages to may rest.

### Bounds

* `energy`: two categories, submitters and hashes, one of them the text of 64
  bytes that is hashed for a pair of the other, batches of up to three items
  against limits of two and three, three messages, two blocks.  Three items are
  the first odd number above one, where `computeMerkleRoot` pairs a node with
  itself; batches over the limit and with a wrong root are tried; three messages
  put a record before, between and after batches.  `RootCommitsToHashes` is
  checked for pairs of batches of up to three items, and the second hash gives
  batches of one and of two items the same root.
* `oracle`: two of everything, drifts of 1 and of the default (2 here, 3600 in
  the code), three blocks and submissions; three submissions are the least in
  which a datum is overwritten after a newer one became the latest.
* `audit`: four entries over three block times, payload limits 0 (no limit)
  and 1 against sizes 1 and 2.
* `identity`: two addresses and the authority, two roles, two names, three
  times; messages are not bounded.
* `attestation`: four hashes and the zero hash, batches of up to three against
  a limit of two, so that the limit is met and exceeded.
* `indexer_overlap`: one pair, two polls in progress at a time, four blocks (with
  batches of two: two full batches and a part), one fault.  Two polls suffice
  for one to set `lastProcessed` back, and four blocks for a third range to be
  taken after that.  Without faults the same holds with two pairs and with five
  blocks, which is not part of the runs.
* `indexer_serial`: two pairs, three blocks, one fault (a failed request or a
  crash).  In this run `Poll` has one member: a poll ends before the timer
  fires again.
* `node_clients`: a sheet whose rows give three records of which two are
  equal, three attempts per record as in the code, two lost calls and one
  restart for the uploader and one lost call for the others, a pool of two and
  an insert queue of one, so that both fill up.  Two commands, two payments.
  The supervisor fails up to six times, more often than it takes for its delay
  to stop growing after three doublings (`MaxShift`).
* `dex_app`: three accounts, three tokens, amounts of 2 to 60 with a fee of
  1/10 instead of 3/1000, so that rounding shows at these sizes.  `traders` make
  four calls with every function of the contracts; a page sends two requests
  (the pool and transfer pages one) while one trade happens; fetches of a kind
  overlap up to two at a time (one on the longer lists).  The form and the list
  of the pool page are looked at in separate behaviours.  The price service
  stores three swaps, of any time that has come, up to time two with candles of
  length two, and two runs may overlap.  Slippages are in twenty-fourths: one
  leaves a share that is rounded down, one a share that doubles round down once
  more; slippages above 100 % are not in the run.  The chart begins with one earlier trade: with none the page
  draws a placeholder, which is left out.
* `explorer`: two subjects, one wallet, two pages per list, two openings and two
  clicks of a page and one failed request; one opening on the dashboard and the
  start-up, one click there and on the validator and proposals pages, and no
  failure where many requests are under way (those two, the validator, account
  and proposals pages).  The timers: a limit of three on the count of
  fetches where the code has five (so two at a time instead of four, and the one
  of the start-up), three recent blocks, a strip of two, four blocks and failures together, one
  visit of the uptime page, four moves on the consensus page.  Two openings are
  the least in which an answer outlives its page; two clicks the least in which
  two answers for one slot change places.

### Fairness

* `indexer_serial`: `FairSpec` has each task's `Work`: `setInterval` fires
  for ever, and a request to the node or the database is answered or fails
  (ethers and Prisma have time-outs).  Nothing starts the process again when it
  is down, and nothing has to fail; `EventuallyStored` therefore allows that the
  process stays down, and faults are finitely many (`MaxFaults`).
* `node_clients`: the node reaps, offers again what was answered with a retry
  code, works off its queue and makes blocks.  Of the supervisor, goroutines go
  on and timers run out.  Services need not fail, the node need not shut down,
  and no user has to do anything.
* `dex_app`: only the timer of the chart and its reads, which end or fail.
* `explorer`: only the polling: the interval ticks, and the browser ends every
  request, well or not.

Symmetry is used where the members of a set are only compared, and the
properties of these runs are safety properties; the runs with liveness use none.

## 4. What the properties say

*Energy.* The queries are exact (`QueriesExact`); a batch can
be audited from the store at any later time, records, category, submitter,
block and root (`BatchesAuditable`); equal roots of trees equally high
mean equal sets of hashes (`RootCommitsToHashes`); it is an append-only log (`ImplementsLog`).  Proved and
not in a run: each number `GenerateID` hands out names one record or batch
(`IdentifiersIssuedOnce`), the order of identifiers is the order of blocks
(`IdentifiersFollowTheChain`), nothing is changed or removed
(`RecordsImmutable`, which the run `energy_relaunch` shows to fail over a
relaunch).  A root commits to the *set* of hashes
and to no more: pairs are sorted before they are hashed and an odd node is
paired with itself, so neither order in a pair nor length nor multiplicity is
fixed by it.  And it does so only together with the height of the tree: leaves
and nodes are hashed alike and `ValidateBasic` asks only that a data hash is not
empty, so a batch whose data hashes are the texts of nodes of another batch has
its root.  The second half of the property says that nothing else can have it.

*Oracle.* History and latest datum agree (`LatestIsInHistory`).  A submission with an
older time stamp does become the latest datum; what holds is that the answer
never goes back by more than twice the drift (`LatestRewindIsBounded`), and that
a relaunch, whose import submits the data in the order of the export, loses
nothing and moves it to the newest (`RelaunchKeepsData`).  Proved only: each
write is by an oracle authorized at that moment (`OnlyAuthorizedData`).

*Audit.* Ordered in time (`TrailIsInOrder`), exactly queried (`QueriesExact`),
an append-only log (`ImplementsLog`); proved only: gapless (`TrailHasNoGap`),
immutable (`LogsImmutable`, which the run `audit_genesis` shows to fail from a
genesis without counter), restored by import (`RelaunchRestoresTheStore`).

*Identity.* The role index needs no cleaning because no message changes a role
(`RoleIndexExact`); a revoked address never has a role again
(`RevocationIsFinal`); proved only: who may change what (`OnlyAdminGrants`) and
that an import restores the store (`RelaunchRestoresTheStore`).

*Attestation contract.* The four places an id goes into agree: a hash is attested
once, also inside a batch, and found, and the lists are exact and in order
(`CopiesAgree`); an append-only log (`ImplementsLog`); proved only: an answer
once given stays (`VerificationIsStable`).

*Event indexer.* What `lastBlock` promises a restart: every event up to it is
stored, whatever overlapped, failed or crashed, except for what a first poll
skipped (`TrustedBlocksStored`).  Events come to be stored with the same
exception (`EventuallyStored`).  Polls one at a time store nothing twice but the
block at which the sync ended (`StoredOnce`), and the reserves are those of the
newest row (`ReservesAreNewest`).

What the model shows to be false of this code, and what the properties
therefore leave out: blocks that appear between the end of the sync and the
first poll are skipped for ever, with the pairs created in them, since
`lastProcessed === 0` makes the first poll start at the head and `lastBlock`
moves past them (history variable `skipped`); polls that overlap, failed polls
and crashes store rows twice, since rows have no key but a generated one; and
with polls that overlap the reserves may be those of an older event.  No
document of the repository promises otherwise, so these are no findings.

*Clients of the node.* When an upload script says it is done, every record is
on the chain whatever replies were lost (`DoneMeansExecuted`); what it counts as
a success gets there (`QueuedRecordsExecuted`); a certificate the CLI prints is
true for ever (`CertificateIsTrue`).  The first two say nothing of a behaviour in
which a record was given up or a restart lost what was in the pool, because they
are false then, although the script prints that it is done all the same: after a
third failure the nonce is increased although nothing was sent with it, and every
later "success" waits for ever.  The pool does not replace a transaction by one of
the same nonce with a higher fee, as go-ethereum's does (see `CanAccept`).  Also seen:
two calls with one key at the same time may pick the same nonce; the SDK reports
failed transactions as deposits, skips those whose block is not indexed yet,
misses payments made inside a contract, and needs watched addresses in lower
case; `batch-attest` takes a text of the form of a hash for one where
`attest -d` and `verify -d` hash it.

*Supervisor.* After any failure the services come up again until the node shuts
down, and then the supervisor returns (`SupervisorServes`).  With the indexer
enabled only the second half holds: its database is opened by every attempt and
closed by none, so no attempt after the first gets past it.  The cap of 30
seconds on the delay is never reached: the delay stops growing at 24.

*Exchange.* No sequence of calls makes a pool token worth less, however amounts
are rounded (`PoolShareNeverFalls`).  A swap of the page that was clicked with its
quote known yields no less than that quote less the slippage, taken up to a whole
hundredth of a percent and one hundredth more (`SwapWithinSlippage`): the card
rounds the share that is left down, so that 0.005 % counts as 0.01 %, and doubles
make 81.84 % of the 81.85 % that 18.15 % leaves.  Nothing a page or a script has
sent can fail for want of an allowance (`NeverShortOfAllowance`), but for a
removal sent from another account than the one that clicked, which can.  A candle
counts rows of its own time, each as often as it is stored; once a later one is
there it misses only rows at its very start and rows that were stored after one
of a later time (`CandlesExact`).  The indexer does store rows late and twice
(above), so such a candle counts a swap that is stored twice two times and may
lack one that was stored late.  A chart that stays open shows everything in the
end (`ChartCatchesUp`).
Exempted, or seen and not claimed otherwise anywhere: while a quote loads the
swap button is enabled with minimum 0; a slippage above 100 % makes the write
fail; the deadline setting is used by nothing; a second click on Remove before
the allowance is read removes twice, and a change of account meanwhile sends
from the new one; `removePoolIdx` indexes the filtered list and is not reset;
after a change of account the fetch that ends last wins; the portfolio misses
swaps from a token to ECY through the router; `priceInUsdt` takes whichever pair
comes last; a farm share may exceed 100 %; a swap at the very start of the last
candle is lost when that is rebuilt, runs that overlap may leave an old candle
as it was, and the price of swaps through the router is always 0; a failed
statement ends the indexer's process.

*Block explorer.* When the last answer is in, an open page has everything it
asks for, about what route, wallet or choice name now, and each list is the page
its bar marks (`PageTellsTheTruth`).  The recent blocks and the strip are in
order (`BlocksInOrder`), the newest block is shown again and again
(`PollingGoesOn`), and the consensus page leaves at most one interval behind for
each change or leaving during a load (`NoTimerLeftBehind`).  The exceptions are in
the properties and in `excuse`:

* An older answer that arrives after a newer one for the same slot is shown, until
  the next one; the property says nothing of that slot meanwhile and holds the
  rest of the page to the truth.  Lists of codes and contracts are not held to
  their bars, and of the packets of a connection only the tab is.
* What stays and ends a behaviour: what a search leaves on the account and transaction pages, which do not
  load again; a change of tab leaves the bar's mark on the validator and
  proposals pages; each refresh of the account page adds the unbonding total
  once more; connecting a wallet loads nothing, and answers for the old one
  arrive after it is gone.
* The start-up's second wave empties the proposals; with no proposal in voting
  the passed ones are asked for twice.  The list of connections shows the first
  one when it arrives, also when the user has left.  The bar of the IBC page
  asks for the page before the one it marks, and always for "out".  Saving
  favourites before the choices are there empties the selection.  The client for
  contracts ignores the page.
* A tick that finds four fetches under way never gives its count back: after
  four such ticks polling has stopped for ever.  Overlapping fetches may put
  recent blocks out of order, or twice if skipped ones are asked for.  The strip
  takes the store's recent blocks in reverse.
* The consensus page starts its interval after a wait: who leaves or changes the
  endpoint before leaves an interval that nothing stops, also if the page is left
  later when it has loaded.  The property counts these occasions and bounds the
  intervals by them.  A page that was hurried is followed to its end and not
  opened again.

### Where code and documents differ

* `energy_relaunch`, `audit_genesis`: see "findings" in `PROJECT.json`.
* `docs/公链架构与功能清单.md:280` describes registration as pending, then
  approved; `RegisterIdentity` registers as active at once and nothing approves.
* `docs/公链架构与功能清单.md:351` says that key operations are recorded in the
  audit module automatically; only `MsgRecordAudit` records.
* The oracle parameter `DataMaxAge` is described as the age at which data is
  stale (`types/genesis.go:7`); it is used as the drift a time stamp may have,
  and `MinSubmissions` is read by nothing.
* `evm_server.go:410-412` says that services that crash are restarted; with the
  indexer enabled no restart succeeds (see *Supervisor* above).
* `PoolPage.tsx:242` says "5% slippage"; the minimum is one hundredth of the
  amount.
* `accounts.vue:32` says "continue only if the page is living"; the loop goes on
  after the page was left.

## 5. Proofs

Every theorem is of the form `Spec => []Inv` or `Spec => [][A]_vars`, for every
value of the constants that satisfies the module's assumptions, and unbounded in
everything the bounds limit.  Two of the indexer's have a hypothesis of their
own, `Serial` (below).

* Energy: the inductive invariant joins the types, `IdentifiersIssuedOnce`, the
  exact contents of the two indexes, the shape of batches and the order of
  heights.  `IdentifiersIssuedOnce` alone already gives that the next identifier
  is free; the index part is needed because the queries filter the index by the
  records.  The refinement maps a message to the entries from the old counter to
  the new one.
* Energy, Merkle roots: `RootCommitsToHashes` says what a recursive function
  computes.  The library's induction theorems are out of reach (below), so it is
  argued by a least counterexample: a set of numbers that is not empty has a
  least member (`LeastNumber`, from the well-foundedness of `<`).  In this way
  `levelAfter` is what its definition says, each round leaves fewer nodes, and
  `computeMerkleRoot` ends (`RootReached`).  A round loses nothing: the texts of
  a level, taken apart, are the level before (`PairLevelKeeps`).  Two trees with
  one root therefore hold the same nodes any number of rounds earlier
  (`GoingDown`), up to where the lower one has its leaves.  If the other has its
  leaves there too, the digests are those of the same texts; if not, the texts of
  the one are the nodes of the other.  Injectivity of keccak256 is all it needs.
* Oracle: the types, `LatestIsInHistory` and that no datum lies farther in the
  future than the drift allows.  The last is what makes a newest datum exist
  (a bounded set of numbers has a maximum, by well-founded induction on the
  mirrored set) and what bounds the way back.
* Audit and identity: the types, the exact contents of each index, and the
  order of times; export and import then restore the store.
* Attestation: types, `AttestedOnce` and lists whose elements are exactly the
  ids, increasing.
* Event indexer: `TrustedBlocksStored` speaks of `lastBlock` only, and a poll
  sets that to the end of a range it began when another mark was in force.  The
  inductive invariant therefore says of every mark (`lastBlock`, the end of the
  sync, `lastProcessed`, and the block before each range in progress) that the
  blocks up to it are stored and the pairs created up to it are known
  (`Covers`), and of a range in progress what is done of it (`Behind`).  That a
  pair is created once and before its first event (`ChainInv`) closes the case
  of a pair that is not tracked when a range ends, and that tasks are idle while
  the process is down (`PhaseInv`) the case of a restart, where skipped blocks
  after `lastBlock` are forgotten.
* Event indexer, one poll at a time: `StoredOnce` and `ReservesAreNewest` are
  false when polls overlap, so they are proved under the hypothesis `Serial`: no
  two members of `Poll` differ, which is how the run `indexer_serial` sets it and
  what holds when each poll ends within the interval.  Faults are not
  restricted.  `SerialInv` follows one mark (`Mark`), the block up to which the
  process, or the one before it that died, has come: up to it everything is
  stored and reserves are those of the newest rows (`FreshTo`, `FullTo`), and
  the one task at work takes up behind it (`Turn`), or at it when the first
  poll reads the last block of the sync again (`Again`).  While nothing has
  failed, what is behind the mark is not stored yet, hence stored once.  The
  attempt to prove it showed that `Processed` has to leave out the blocks before
  `START_BLOCK`, which no one reads.
* Clients of the node: both properties are about what a program may still rely
  on after others have acted.  `NodeGrows` says it once for every step: blocks
  and attestations stay, and until a restart transactions and the nonces they
  take.  `CertificatesTrue` needs that a call of the contract that a block
  executed has attested its hashes (`CallsInv`), and the contract's own
  invariant, whose preservation by a store is cited from
  `EnergyDataAttestationProofs`.  `DoneIsExecuted` is an argument about nonces:
  the script waits for its last transaction only.  A block executes the nonces
  of an account in order and no two transactions in the pool share one
  (`NonceInv`); a record counted as a success has a transaction, in the pool or
  executed, whose nonce is at most that of the last (`SentBefore`).  When the
  last is executed, so are they.  That every nonce below the script's is taken
  (`InOrder`) holds also after it asked the node again: the answer is the first
  free nonce, which exists since a finite pool cannot take all (`PendingNonceFree`,
  by the pigeonhole principle).  After a failure for good or a restart that
  loses transactions the theorem says nothing, as the property does.
* Explorer, consensus page: `NoTimerLeftBehind` says nothing of the answers under
  way, each of which will start an interval that replaces another one or none.
  The inductive invariant bounds the intervals nobody can stop together with the
  answers waited for (`WatchInv`): they are no more than the changes and leavings
  during a load, and one more while the page is open, waits and runs no interval
  it could stop (`Room`).
* Explorer, blocks: `BlocksInOrder` is not inductive, since a fetch of skipped
  blocks keeps what it has got until the last one is in, and the strip what it
  still asks for.  `OrderInv` therefore orders the recent blocks together with
  what the fetch holds (`RunInv`: they end at the block before the next one asked
  for, without a gap if none was lost), says that a fetch for the newest block
  was begun when nothing newer was known, and that there is one fetch while none
  overlapped.  `StripInv` says that the blocks the strip still waits for fall and
  are all below those it shows.  The limits, numbers of failures, visits and
  ticks are arbitrary.

* Exchange: `PoolShareNeverFalls` holds for every sequence of calls by any
  accounts on any pairs, whatever the amounts, the fee of a swap and the
  balances to begin with.  Three steps:
  - Whatever program runs, a step leaves the chain as it is or executes one
    transaction (`OnlyCalls`), and a transaction has exactly one outcome
    (`ExecutedOnce`), so that the calls before a program begins are a sequence,
    too.  Calls are those the ABI can encode (`ValidCall`); any other reverts.
  - Every call keeps `Good`.  `Books`: the state is typed, and the balances of a
    pool token are within its supply, stated by a list of the holders and the
    sums so far (`Backs`), since a sum over a set is recursive.  `Covered`: the
    reserves are within what the pair holds; skim, the input of a swap and the
    first mint rest on it.  `Marked`: since the last mint or burn the supply is
    the same and the product has not fallen, the square of the supply is within
    the product, and `kLast` is the product of that mint or burn, or 0.
  - Most calls are `Quiet`: they change no supply and no product falls, for a
    swap by its own check (`SwapGrows`).  A mint and a burn round what they give
    down (`MintShare`, `BurnShare`).  The protocol's fee is computed from two
    roots, both rounded down, so that the growth it sees may be greater than the
    growth there was: `FeeShare` shows that it then mints nothing, because the
    supply is within the root of the product.  This is what the third part of
    `Marked` is for; without it the property is not inductive.  What a path of
    pairs does is an induction over its length, by a least counterexample.

  The assumptions are that addresses of different things differ, that tokens
  and accounts are finitely many, that the fee is a proper fraction and the
  minimum liquidity is not 0.  `Soundness` is the invariant itself.
* Exchange, pages and scripts: `NeverShortOfAllowance` says that a decision made
  by an old answer is still right when the transaction is mined, and
  `SwapWithinSlippage` that the bound computed from an old quote holds then.
  `Reliance` is their inductive invariant (`AppSound`):
  - A second argument over all calls (`ExecutedUses`) says what becomes of
    allowances: a call lowers those of its sender to the router, and only where
    they are not without a limit (`Uses`), or sets one of its sender's (`Sets`);
    nobody can touch another's.  A swap with a least output gives it.
  - Where only pages send, an allowance is 0 or without a limit (`Level`), since
    pages approve nothing else.  So it can only rise (`Steady`), an answer is 0 or
    the allowance there is (`Answered`), and a request that was covered when it
    was made stays covered in the wallet, in the pool of transactions and after
    any change of account (`Request`).  The exception of the property, a removal
    sent from another account than the one that clicked, is where the invariant
    breaks without it.
  - The scripts approve amounts, so their allowances are used up.  `Prepared`:
    whatever a step spends is exactly what the step before approved; others
    trade in between, but only with their own allowances, which is where
    `Trader # Deployer` is needed.  The bot approves without a limit.
  - A request for a swap asks for the quote that was shown less the slippage
    (`Bound`), the router refuses less, and the rest is the rounding of that
    minimum (`WithinFloor`).

  Assumed of the constants: what may be typed is a number, the share a slippage
  leaves is what is left of 100 % rounded down to a hundredth, and at most one
  hundredth off (`ShareAssumption`), percentages are those
  of the slider, the recipients contain a text that is no address.
* Exchange, price service: `CandlesExact` is about the candles before the last
  one.  A run reads the swaps, then writes one candle at a time, while more swaps
  are stored and it may fail anywhere, so the last candle of a length can miss
  swaps.  The invariant says of every candle that it counts swaps of its time
  only, and of those later than its start the first ones stored (`CandlesHold`,
  `Partial`); this holds whatever overlaps.  While no runs have overlapped
  (`CandlesGood`), all candles but the last of a length have every such swap that
  was stored before one of a later time (`Complete`, `Due`); and of what a run has
  yet to write no candle there is lies after it, and each is complete once a later
  one is written (`RunGood`).  A candle is rebuilt from the start of the last one
  on, which is why the last may be incomplete and the others not.  Swaps come in
  any order of their times and again: one more leaves a candle what it is, and
  cannot undo that it is complete, since a row of a later time is stored already
  (`LaterSwap`).  The lengths of candles are any numbers but 0, in any order.
* Exchange, types: `TypeOK` says of the lists and of the chart that they show
  nothing but the factory's pairs, their tokens and no more swaps than there
  are.  Each shows what reads under way have found, several at a time and each of
  another chain.  The invariant (`RestTyped`) therefore says the same of every
  read under way (`Sweeping`, `TradesRead`), and it is kept while others trade
  because a call only adds pairs and swaps, never takes any away (`CallAdds`).
  That the chart shows as many trades as it has read swaps, also when a block
  could not be read, is a count of the two parts they are sorted into
  (`RecordsLength`).

Left to TLC:

* liveness (`EventuallyStored`, `QueuedRecordsExecuted`, `SupervisorServes`,
  `ChartCatchesUp`, `PollingGoesOn`), which needs ENABLED;
* the pages of `Explorer`: its types and `PageTellsTheTruth`.  What is under way
  there is kept by `SelectSeq` and `FlattenSeq`, recursions that the provers do
  not see through, and the argument would go through the tables of all the
  pages one by one;
* the two violations, where the counterexample is the result.

The library's induction theorems take an operator as a parameter, which none of
the provers can instantiate.  A least counterexample replaces them where the
recursion is a function over the natural numbers, as above.

## 6. Plan

The next steps, in this order:

1. Proofs: `PageTellsTheTruth`, with the requests under way as the other half of
   what a page shows.
2. The rest of the exchange: cumulative prices, permit, tokens that take a fee,
   deadlines.
3. What the explorer's model leaves out: the change of the chain, the uptime
   page's signing information, the portfolio before delegations arrive.

## 7. Not modelled

* `app.go` and the other wiring: the logic is in libraries outside this
  repository.  Node commands and scripts that set up networks: they write files
  and start processes.  `dex-indexer/src/api/routes.ts`: read-only queries.
* Of the explorer: the faucet, NFT and widget pages, prices of coingecko, the
  formatter, charts and layout; how numbers are shown in the DEX front end.
* `Multicall3` has no state.  `chain_backup/` is an older copy of the modules.
