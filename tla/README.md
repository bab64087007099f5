# Namecoin node: a TLA+ model of the chain, the names, the wallet and the network

The modules in this directory model the legacy Namecoin client. The core
(`src/src/main.cpp`, `src/src/namecoin.cpp`, the databases of `src/src/db.h`) is
how a node accepts blocks in any order, follows the heaviest
valid chain through reorganisations and crashes, keeps its transaction index,
its name index and its memory pool in step, and decides who holds a name.
Around it stand the miner, the wallet with its keys and its file, the name
commands, the block files, and the connections over which nodes exchange blocks and transactions.
TLC checks all of them on small instances; TLAPS proves the invariants and the refinement of the core, and
nearly all safety properties of the modules around it, for instances of any size.

## 1. The system

### Components, their state and operations

| Part | State | Operations | Correct when |
|---|---|---|---|
| Block chain (`main.cpp`) | `mapBlockIndex`, `pindexBest`, `pnext`, `mapOrphanBlocks`, `bnBestInvalidWork` | `ProcessBlock`, `AcceptBlock`, `AddToBlockIndex`, `SetBestChain`, `Reorganize`, `ConnectBlock`, `DisconnectBlock` | ends on the heaviest valid chain it knows; every orphan is tried; always returns |
| Validation and hooks (`main.cpp`, `namecoin.cpp`) | none of its own; reads and writes the two indices | `ConnectInputs`, `DisconnectInputs` with their hooks | no double spend, no inflation, one holder per name, undo is exact |
| Databases (`db.h`, `db.cpp`) | `blkindex.dat` (transaction index, block index, best chain), `nameindex.dat` | one transaction over both: begin, commit, abort | both belong to one chain, whatever is aborted or interrupted |
| Memory pool (`main.cpp`) | `mapTransactions`, `mapNextTx` | `AcceptToMemoryPool`, `RemoveFromMemoryPool` | no dangling pointers, no conflicts |
| Pending names (`namecoin.cpp`) | `mapNamePending`, `setNewHashes` | the pool hooks, `ConnectInputs` hook | agrees with the pool |
| Name rules (`namecoin.cpp`) | none | expiration depth, display depth, network fee | an expired name stays expired, RPC and display agree with validation |
| Name index rebuild (`namecoin.cpp`) | `nameindex.dat` | `ReconstructNameIndex`, `NameBugWorkaround` | gives the index kept block by block |
| Miner | cached blocks of the callers, `prevPos` of pool transactions | `CreateNewBlock`, `CheckWork`, getwork and its kin | builds blocks that connect, drops stale ones |
| Wallet (`wallet.cpp`) | `mapWallet`, spent flags | `AddToWallet`, `CreateTransaction`, `CommitTransaction`, `deletetransaction`, rescan, `ReacceptWalletTransactions` | spent flags and confirmations agree with the chain |
| Key pool and encryption | `setKeyPool`, keys in memory and in `wallet.dat` | `ReserveKeyFromKeyPool`, `KeepKey`, `ReturnKey`, `EncryptWallet` | a key is used once and never lost |
| `wallet.dat` and other database files (`db.cpp`) | `mapFileUseCount` | open, close, flush thread, `Rewrite`, backup, shutdown | no file is closed under a user; nobody waits for ever |
| Name RPCs | `mapMyNames` | `name_new`, `name_firstupdate`, `name_update` | never sends what will be refused |
| Connections (`net.cpp`) | `vNodes`, `nRefCount`, `nReleaseTime` | the socket, message and opening threads, `StopNode` | no deleted node is used; every node is deleted |
| Block download (`main.cpp`, `net.h`) | `mapAskFor`, `mapAlreadyAskedFor`, `hashContinue` | inv, getdata, getblocks, block | nodes end with equally long chains |
| Orphan transactions (`main.cpp`) | `mapOrphanTransactions`, `...ByPrev` | the tx message | the order of a family does not matter |
| Block files | `blkNNNN.dat`, reserved sizes, index records | `AppendBlockFile`, `WriteToDisk`, `LoadBlockIndex` | an index record points at a written block |
| Required work, AuxPow | none | `GetNextWorkRequired`, `CAuxPow::Check` | not modelled |
| Unlock timer, script, RPC server, IRC, Qt | | | not modelled |

### How they interact

`ProcessBlock`, the `tx` message and the RPC commands run under the lock
`cs_main`, so one of them is under way at a time. A block with more work than
the best chain goes through `SetBestChain`: inside one database transaction the
old branch is disconnected and the new one connected, transaction by
transaction, each call passing through the Namecoin hook that maintains the name
index. After the commit the pointers in memory, the pool and `pindexBest` follow.
The pool's hooks maintain the pending-name bookkeeping; `ConnectInputs`
changes it as well, *before* the commit.

### What is hard to test

Reorganisations are long sequences of connects and disconnects whose errors show
only blocks later (an assertion, a name in the wrong hands); blocks arrive in any
order; a block may turn out invalid after half a branch was undone; the process
may die between any two steps; the name rules change with the height; the pool's
indices are maintained by hand in four places. `PROJECT.json` lists these
hazards with the line where each bites and the properties that cover it.

Outside `cs_main` run the socket and message threads, the RPC server (one
command at a time), miner threads, a timer thread per `walletpassphrase` and the
thread that flushes `wallet.dat`. They share the nodes of `vNodes`, the wallet, the
database handles and a few plain integers, each under a lock of its own or under none.

## 2. The modules

| Module | Models | Lines of code it stands for |
|---|---|---|
| `NameRules` | the height-dependent rules | `namecoin.cpp` 121–208, `main.cpp` 823–831 |
| `NameClock` | one name against the height: validation, `GetTxOfName`, `expires_in` | `namecoin.cpp` 493–513, 631–634, 2309–2402 |
| `ChainData` | contents of blocks and transactions; `CheckTransaction`, `CheckBlock` | `main.h`, `main.cpp` 360–396, 1724–1775, `namecoin.cpp` 1834–1961 |
| `NameHooks` | `ConnectInputs` / `DisconnectInputs` and hooks on a view of the indices | `main.cpp` 975–1260, `namecoin.cpp` 2121–2513 |
| `NodeCore` | the node: chain, pool, databases, orphans, crash and restart | `main.cpp` 398–561, 1311–1585, 1777–1880 |
| `NodeProps` | its safety properties and the inductive invariant | |
| `LedgerRules`, `NameLedger` | abstract specification: valid chains, unspent outputs, name histories | |
| `NodeRefine` | the refinement mapping; `ReconstructNameIndex`; properties that use the ledger rules | `namecoin.cpp` 1649–1800 |
| `NodeLive` | liveness properties of the node | |
| `Miner` | `CreateNewBlock` and its callers, on `NodeCore` | `main.cpp` 3355–3536, 3641–3660, `bitcoinrpc.cpp` 1963–1997 |
| `Wallet` | transactions of the wallet, on `NodeCore` | `wallet.cpp` 58–1165, `wallet.h`, `init.cpp` 453–491 |
| `NameCommands` | `name_firstupdate`, `name_update`, on `Wallet` | `namecoin.cpp` 276–408, 1003–1205 |
| `OrphanTx` | the tx message beside the block message, with fairness, on `NodeLive` | `main.cpp` 176–208, 2758–2831 |
| `KeyPool` | key pool and `EncryptWallet`, write by write | `wallet.cpp` 1301–1719, `keystore.cpp` |
| `WalletFile` | database handles between threads | `db.cpp` 49–290, 820–928, `init.cpp` 46–83 |
| `NetNode` | life of a `CNode` | `net.cpp`, `net.h` 610–627 |
| `BlockSync` | block download between nodes | `main.cpp` 2404–2745, 3200–3230, `net.h` 553–735 |
| `BlockFile` | a block on its way to disk and back | `main.cpp` 1536–1570, 1990–2182, `db.cpp` 558–674 |
| `...Proofs` | theorems and lemmas, see section 4 | |
| `MC...` | instances for TLC | |

`Miner`, `Wallet`, `NameCommands` and `OrphanTx` are compositions: they extend `NodeCore` (`NameCommands`
by way of `Wallet`, `OrphanTx` by way of `NodeLive`) and give each of its actions what it does to their own
state as well. The other modules stand alone, because what they are about (threads
and counts, bytes on disk, times) is what `NodeCore` abstracts from.

**State of `NodeCore`.** The variables have the names of the code.
`dbTx, dbName, dbNext, dbBest` are the committed databases, `txTx, txName,
txNext` what the open database transaction sees. The rest of a running
`SetBestChain` is in `stage`, `pindexNew`, `tip`, `nTx`, `nFees`, `vResurrect`,
`vDelete` and `vWorkQueue`: the view stands at the `nTx`-th transaction of `tip`.
One step is one call of `ConnectInputs`, `DisconnectInputs`,
`AcceptToMemoryPool` or `RemoveFromMemoryPool`, or the end of a block, or the
commit. Adding a block to the best branch and `Reorganize` share their steps: the
first is the case in which nothing is disconnected.

**Data.** A hash commits to its contents, so blocks and transactions are
hashes and contents are functions of them. Scripts, signatures, times and proof
of work are left out; `HeaderOK` says which blocks pass the contextual header
checks of `AcceptBlock`. The hash of a `name_new` is represented by its preimage.
Inputs are sets of outpoints. Relay policy of the pool (dust, rate limit,
standardness) and the argument concatenation that old rules allowed inside
one transaction are left out, as are the notifications
of `ConnectBlock` and `SetBestChain`; their wallet calls are in `Wallet`. `deletetransaction` concerns
the pool in `NodeCore` and the wallet in `Wallet`.

**Failures.** `Restart` may happen at any step: the open database transaction,
the orphans and the pool are lost, the rest is read back from the databases.
`TxnCommitFails` is the failing commit at the end of `SetBestChain`. Their number
is bounded by `MaxFaults`. A system crash that loses committed
transactions (the databases commit without sync) and a failing commit in
`AddToBlockIndex` are in `BlockFile`. Read errors are not modelled.

**Miner.** Priority, sizes and the minimum fee decide which transactions a
block takes and in which order; here the queue is served in any order and any
transaction may be passed over. `prevPos`, which the pool remembers of each
input, is kept as the code keeps it: it is set by `ConnectInputs` and not
touched by a reorganisation. The remembered height of inputs 120 blocks deep is left out.
Each of the reads of `pindexBest` without `cs_main` is a step: the decision to make a new block (`CallGetWork`), to
drop the old ones (`ClearOldBlocks`), what `pindexPrev` becomes (`SetPrev`), and the one in `CreateNewBlock`. When the tip moves
among them `mapNewBlock` may keep a block for an older tip, which `CheckWork` refuses when it comes back solved;
`pblock` is the block getwork hands out. `MaxWork` bounds the blocks handed out for one tip.

**Wallet.** Every change goes to `wallet.dat` at once, so a restart keeps the
wallet; `WalletRestart` rescans from the stored locator and then takes the
wallet's transactions one by one in an arbitrary order, as that of the hashes is; a transaction that is in no block
goes to the pool after its supporting ones, each of which is tried once. `Mine` are the outputs whose key the wallet has, and
`MyCoins` those of them without a name script: the `IsMine` of a single output, which marking and unmarking as spent
ask, knows only these, while the `IsMine` of a transaction knows the name operations through the hook. A copy of the wallet may
be in use elsewhere and make any of the transactions, payments and name operations alike. `vtxPrev` is
kept to `COPY_DEPTH`. Which coins a payment takes is fixed by the contents of
the transactions of `Outgoing`. In `NameCommands` the checks of
`name_firstupdate` are steps of their own, since it gives up `cs_main`
between them; `name_update` is one step.

**Key pool and wallet file.** `KeyPool` has one step per write to
`wallet.dat`; `WalletFile` has the threads as sequences of lock, open, close and
write instructions, and one step for what is done under `cs_db`.

**Connections.** In `NetNode` the work under `cs_vNodes` is one step. `AddRef` outside it is
two steps, a read and a write of a plain `int`: a change of the count in between is lost, and
`raced` remembers the nodes it was lost for. A node found by `FindNode` is protected by the 15 minutes of
`nReleaseTime`: the thread is assumed not to be suspended that long. The same holds of the node `ConnectNode` has put into
`vNodes` and still uses (`ConnectDone`). `StopNode` waits for the message thread only: for the socket thread until 20 seconds are
over, for the opening thread not at all. After it the destructor of `vNodes` takes nodes out one by one beside them; that it and they
change a vector at the same time is not represented beyond that.

**Block download.** In `BlockSync` all blocks are valid and weigh the same; locators
are whole; a broken connection loses what is on the way on both sides. `Limit`
stands for both limits of `getblocks`. Only the first node is asked for its blocks at
the start, as in the code, so three nodes need a new block before they all agree.

**Block files.** In `BlockFile` bytes are cells. A kill loses a suffix of the database
log since the last write that reached the file, a power failure one since the last checkpoint,
and any part of file contents not synced. A failing `fflush` leaves any part of the block unwritten and is not
noticed (`torn` remembers the block); a failing `fsync` leaves it all written and not synced. `LoadBlockIndex` goes back to the block below
the lowest bad one, with a `SetBestChain` whose result it ignores, or refuses to start when a block cannot be read.
`hashNext`, the format upgrade and the 2500-block limit of the verification are left out.

## 3. The runs

| Run | Instance | What it shows |
|---|---|---|
| `fork` | `MCFork`: 10 blocks on 4 branches, two users race for one name, two payments race for one output; one fault (crash or failed commit) anywhere | the inductive invariant of section 4 at every step (so also `TypeOK`, `TxIndexIsChain` and `NoDoubleSpend`), the assertion of `SetSpent` never fires, every block can be undone (`ReorgCanUndo`), the pool's indices do not dangle, the heaviest valid chain wins, the committed databases belong together and memory matches them, and the node implements `NameLedger` |
| `arrival` | `MCArrival`: 7 blocks with an invalid branch, two orphan blocks, a family of transactions (a parent, children, a grandchild) | orphans of both kinds are taken in any order of arrival, with no pointer to a freed one; the handlers end; heavier valid chains are adopted; orphan blocks are accepted |
| `rules` | `MCRules`: 32 blocks, each path a different sequence of name operations, one chain at a time | operations are accepted exactly when the ledger rules say so (`ImplementsLedger`): one block early or late, renewed, re-registered, wrong hash, wrong name, too little fee, too greedy a coinbase; one live coin per name, handed on by its holder; no inflation |
| `prefork` | `MCBug`: heights around the libcoin fork, one orphan | names touched by the tolerated bug stay out of the index, which equals its rebuild, also across reorganisations |
| `clock` | `MCClock`: every name height against 72 heights | expiry is monotone, RPC and display agree with validation, the fee never rises |
| `names` | `MCNames`: 7 blocks, one of them invalid; a registration, two updates, a payment of the same coin; one fault, `deletetransaction` | shown confirmations are real; coins to pay with which the chain spends are not taken for unspent except after `deletetransaction`, and until the next start; an update is refused only if `mapNamePending` lost an operation |
| `miner` | `MCMiner`: 7 blocks, one of them invalid; two registrations of a name and an update; one fault; two blocks handed out per tip | a block made on the tip connects, but for the two cases of section 6; the block handed out while `pindexPrev` is the tip extends the tip |
| `keypool` | `MCKeyPool`: 5 keys, 3 holders, encryption, locking, two restarts between any two writes | up to the encryption no key is handed out twice; no key shown is ever lost; the file is wholly plain or wholly encrypted |
| `wallet_file` | `MCWalletFile`: message and RPC threads, flush thread, backup, rewriting, shutdown | an open handle stays open, `wallet.dat` or its copy exists at each moment, encryption and shutdown end |
| `net` | `MCNetNode`: 3 connections, two with one address | until the process exits nobody uses a deleted node, unless `ConnectNode` overwrote a change of its count (a data race); a disconnected node is freed unless it has a reference nobody gives back |
| `sync` | `MCBlockSync`: 2 nodes with different branches, batches of one block, a connection that breaks and is opened again | chains of equal length in the end |
| `blockfile` | `MCBlockFile`: 5 blocks, 3 files; a failing call and a kill, or a power failure | as long as the machine stays up records point at whole blocks, but for a block whose own flush failed; as long as no call fails the loaded index is a tree |

**Bounds.** Fees, depths and heights are scaled down in the proportions of the
code (`EXPIRE_UNIT` is 12000 there and 1 to 6 here). A reorganisation of the trees
disconnects up to two blocks and connects up to three, so undoing several blocks, failing
in the middle of the new branch and coming back to an old branch all happen.
`MaxOrphans` bounds the orphans held (the code has no bound); two are enough for a
queue with a chain of orphans. `MaxFaults` is 1: a restart leads back to a
state in which nothing is open, so a second fault meets what a first one met.
The constraint `OneChain` of `rules` leaves reorganisations and the pool to `fork`;
`BlocksOnly` of `prefork` leaves the pool's own transactions to it. `clock` stops
at `MaxHeight`, after the last change of every schedule, and so has no deadlock check.

In the other instances one fault, two restarts or one broken connection are enough for the
same reason. `KeyPool` has more keys than holders and pool places together.
`CHECK_DEADLOCK FALSE` stands where the system may come to rest: the process has exited
or stopped at a failed assertion, all blocks of the instance are stored or known, time or
keys are used up. The constraint `PowerAlone` of `blockfile` makes a power failure the only
fault of its behaviour, since what it leaves of the files is already any part of them.

**Fairness.** In `OrphanTx`, where the liveness of `NodeLive` is checked, only
the thread that holds `cs_main`, in `ProcessBlock` or in the handler of "tx", goes on
(`WF` of `Working` and of `HandleQueue`). It waits for nothing but the disk between two steps.
Nothing is assumed about the arrival of blocks or transactions, and the liveness properties are
about blocks that have arrived. There are no faults in the `arrival` run. `NetNode` has weak fairness for each
thread, which the scheduler runs when it is ready, and for time passing. `WalletFile` has strong
fairness for the message and RPC threads: a thread that waits for a lock which
is free again and again gets it at some time. `BlockSync` has weak fairness
for each handler and pair of nodes, because `ThreadMessageHandler` goes round
all of them, and for the request timer; none for finding blocks, dialling or breaking connections.

**Mutants.** Operators whose name ends in `_Something` next to a definition are
that definition with a plausible bug; `PROJECT.json` names for every property
one that breaks it.

## 4. The proofs

All theorems hold for every value of the constants that satisfies the named
assumptions: any tree of blocks, any transactions, any number of orphans and faults. An
invariant a run checks as it stands is in most cases not inductive; what it was strengthened to is
given below. `PROJECT.json` lists the theorems with the properties they state.

| Module | About | Theorems |
|---|---|---|
| `InductionProofs` | induction, recursion, sums and folds, for the others | lemmas only |
| `NodeProofs` | chain, databases, name index, pool | `NodeInvariant`, `TypeCorrect`, `IndexFollowsChain`, `SpentAtMostOnce`, `SetSpentNeverAsserts`, `InPointsNeverDangle`, `PendingAlwaysInPool`, `DatabasesCommitTogether`, `MemoryAlwaysMatchesDisk`, `HistoriesAreCustodyChains`, `EveryBlockCanBeUndone`, `OneHolderPerName`, `PoolHoldsNothingConfirmed` |
| `RefineProofs` | the node against `NameLedger` | `NodeImplementsLedger`, `FollowsHeaviestValidChain`, `NoOrphanStranded`, `CoinsAreNeverMade`, `RebuildChangesNothing` |
| `ServiceProofs` | orphan transactions, miner, wallet, name rules | `PointersAlwaysMatch`, `FamiliesFollow`, `HandedOutWorkIsFresh`, `TemplatesConnect`, `HandedOutWorkStaysValid`, `UpdatesAreTaken`, `ConfirmationsAreTrue`, `OnlyDeletingForgets`, `RestartRemembers`, `NoRevival`, `RpcIsConservative`, `DisplayIsRight`, `FeeNeverRises`; and that the node beside each of them is the node of `NodeCore` |
| `NetNodeProofs` | connections | `NoUseAfterDelete` |
| `KeyPoolProofs` | keys | `NoKeyIsLost`, `NoKeyIsHandedOutTwice` |
| `WalletFileProofs` | database handles | `HandlesStayOpen`, `WalletSurvivesRewriting`, `FlushSeesEveryWrite` |
| `BlockFileProofs` | block files | `IndexIsTree`, `RecordedBlocksAreWhole` |

*Induction.* The library's induction theorems take an operator as a parameter, which the
provers cannot instantiate. `InductionProofs` therefore says them of sets and functions: what holds at the
roots of a forest and passes from parent to child holds everywhere (`ForestInduction`); a function
defined by recursion along a forest exists (`ForestRecursion`). Natural numbers, the block tree,
finite subsets (sums) and initial segments (`FoldLeft` over the transactions of a block) are such forests. So
`Ancestors`, `bnChainWork`, the sums of `GetValueOut` and the halvings of subsidy and fee are
shown to be what their definitions say, not assumed to be.

*The node* (`NodeInv`, in `NodeProps`). `TxIndexIsChain` speaks of the view
inside the open transaction, and is not inductive: an abort replaces the view by
the committed databases, a commit the other way round, and disconnecting needs to
know that the outputs which the transaction spent come from earlier in the chain.
`NodeInv` therefore says `ChainView` (index equals chain, spent flags exact,
inputs precede) both of the view, up to `tip` and `nTx`, and of the databases, up to
`dbBest`, and `JobOK` relates the two: where they must be equal, and where `tip`
lies on the way from the old branch to the new one. `IndexClosed` says that the
block index is closed under predecessors. One transaction is handled without any mention of the node's
state: `TxConnected` takes a `ChainView` to the next position (`ConnectView`), `TxDisconnected` to the one before
(`DisconnectView`), and the end of a block is the beginning of the next (`BlockBoundary`); then there is
one lemma per action. To it are added

* `LinksOK`: the `hashNext` links on disk and the `pnext` links in memory lead along the chain to `dbBest` and nowhere
  else; those of the open transaction, along the branch reached so far;
* `NameIndexOK`: in both views each history is in the order of the chain, each entry is an
  operation of the chain on that name, and each update spends the coin before it;
* `BothCoinsOK`: every operation of the chain is in the index (so that it can be undone), and a
  name's coin is spent only by an update of the same name;
* `PoolOutside`: a pool transaction that is in the committed chain is one that `vDelete` still lists: after the commit the
  pool is cleaned transaction by transaction.

*The ledger.* `BlocksValid` says that what has been connected is valid by the ledger rules, so a commit adopts a
valid chain; `LedgerState` that the indices are the ledger of `dbBest`. `LagBounded`, for
`FollowsHeaviestValidChain`, says how many heavier blocks faults may have left behind;
`OrphansQueued` where an orphan block with a known predecessor may be, for `NoOrphanStranded`. For
`CoinsAreNeverMade`, `BlocksPaid` says that every coinbase connected took at most subsidy and fees, and the
sum over the chain is taken by induction along it. For `RebuildChangesNothing` the fold of
`ReconstructNameIndex` over the chain is related to the histories position by position;
`NameInputsOK` (one name coin spent per transaction) is needed there.

*Around the node.* `MinerSpec`, `OrphanSpec` and `NamesSpec` are shown to imply `Spec`, so what is
proved of the node holds beside the miner, the orphans and the wallet. Then

* `FamilyOK`: during the handler of "tx", an orphan whose predecessor was accepted is still going to be tried;
* `ReadsInOrder`: the reads of `pindexBest` (static variable, `CreateNewBlock`, `cs_main`) are of tips of growing work;
* `PoolShaped`: what is in the pool has passed `CheckTransaction`, and what spends a name coin operates on a name; `CollectInv`: see below;
* `HandedOutFit`: a block made on the tip the databases belong to connects to them;
* `WalletOK`: `hashBlock` names a block that contains the transaction; with `NodeInv` this makes shown confirmations real;
* `WalletFollows`: the wallet has its transactions of the committed chain, and has marked the coins of `MyCoins` spent by the part of a
  new branch connected so far, so that the commit finds no coin forgotten; `Remembered`: between a start and the end of
  `ReacceptWalletTransactions`, what has been looked at is not forgotten;
* `NetInv`: `nRefCount` covers the threads that use the node, a node that was found or just opened is held until the process exits, and a node has one owner that may delete it;
* `KeyInv`: memory and file know the same keys and agree on the encryption except during its transaction; up to
  it (`PoolInOrder`) indices held are not in the pool, which always has a larger one;
* `UseInv`: `mapFileUseCount` counts the threads whose remaining instructions still have to close the file;
* `TreeInv`: every state of the database since the last checkpoint is a tree with right heights, and the last has what is in
  memory; `PlaceInv`: no cell of a recorded block lies where the next block will be written, whether the record's
  block is whole or was left incomplete by its flush (`Placed`).

*The template.* `CreateNewBlock` validates each transaction with `mapTestPool`, which knows no positions, on top
of the databases and with the height of the tip; `ConnectBlock` validates them in the views which the
transactions before it have written, one height later. `CollectInv` compares the two
transaction by transaction: the view after the transactions collected so far (`ViewAfter`) has the records of
the databases and of the collected transactions and the spent flags of `mapTestPool` (`IndexAgrees`), the histories of the name index
for every name on which no collected transaction operates (`NamesAgree`), and the same fees. So one more transaction finds in the one what it
finds in the other (`AddedView`), but for `ExpiresNow` and for two operations on one name, which `mapNamePending`
prevents as long as it has lost none (`NobodyElse`). `TemplatesConnect` follows. `HandedOutWorkStaysValid` carries it to the moment when the
solved block comes back: the databases change only with the tip they belong to, and only to one of more work than any
block handed out was made on. Its property `WorkStaysValid` is not part of a run; it holds in `miner` too.

*The update.* `name_update` spends the coin of the last entry of the name index. By `NameIndexOK` and `OneLiveCoin` that coin is
in the index and unspent, so only a pool transaction can be in the way; by `MatchingSpends` it is an update of the same name, which
`mapNamePending` names unless it has lost it.

*Hypotheses of single theorems.*
* `NoNameBug` (`EveryBlockCanBeUndone`, `OneHolderPerName`, `RebuildChangesNothing`, `UpdatesAreTaken` and, with `ModernRules`, the
  refinement, `FollowsHeaviestValidChain` and `NoOrphanStranded`): no transaction of a block is one of those that the
  workaround tolerated before the fork, and no coinbase operates on a name.
  The latter because `ConnectInputs` calls the hook for no coinbase while `DisconnectInputs`
  does, so a block with such a coinbase could not be undone. `prefork` checks the rebuild with the tolerated bug.
* `ModernRules`: both forks are behind the blocks, because `LedgerRules` states the rules after them.
* `nTargetSize > 0` (`NoKeyIsHandedOutTwice`): with `-keypool=0` it is false, see section 6.
* `CoinbasesPayFirst` (`RestartRemembers`): see section 6.
* `UpdatesAsMade`, `MatchingSpends` (`UpdatesAreTaken`): an update has the shape that `name_update` gives it, one name input and `MIN_AMOUNT` locked in
  one output; and nobody has used a name coin of the wallet for an update of another name, which needs the wallet's key and which the pool
  would take below the fork. The conclusion is for states in which the coins chosen to pay for the update are there (`PaymentInOrder`),
  with the exceptions of `MustNotFail` in section 6. In `names` updates carry only their name coin, so it always holds there.

TLC evaluates `NoNameBug` and `ModernRules` in `MCFork` and `MCRules`, `CoinbasesPayFirst`,
`NoNameBug`, `UpdatesAsMade` and `MatchingSpends` in `MCNames`.

*Assumptions.* They give the constants their types (`TxAssumption`, `RulesAssumption`, `KeyPoolAssumption`,
`FileAssumption`, `NetNodeAssumption`, `WalletFileAssumption`, `MaxHeightAssumption`; `NoTxAssumption`: the null pointer is no transaction), and say that the blocks form a tree
(`BlockTreeAssumption`, `DepthAssumption`); that the threads of `WalletFile` take its call paths (`PathsAssumption`); that the genesis
coinbase pays to nobody's wallet (`WalletAssumption`, `CommandsAssumption`), as the key in the code does; and that no two blocks of
a chain share a coinbase (`CoinbaseAssumption`): the code does not check it, and without it a second coinbase
overwrites the index record of the first.

*Only model-checked.*
* All liveness (`OrphansAccepted`, `CatchesUp`, `HeavierChainAdopted`, `NodesFreed`, `CsMainReleased`,
  `EncryptEnds`, `ShutdownEnds`): fairness is out of the prover's reach.

Every other property of a run is stated by a theorem.

## 5. Plan

Done: all modules of section 2 and the proofs of section 4.

1. An abstract specification of block download (every node's best work grows to
   the maximum) and the refinement from `BlockSync`.
2. `CAuxPow::Check` and `DecodeNameScript`, if a representation of scripts short
   enough to be worth it is found.

## 6. What the code does not promise

Places where the code falls short of what its comments, documents or tests suggest. None of them is a
run: the runs check what does hold, and their properties name these cases as exceptions. Where a
definition is given, adding it to the configuration of the run shows the behaviour; the few marked
"needs" show only in an instance with what is named there.

*Pool and pending names.*
* `RemoveFromMemoryPool` erases `mapNextTx` by outpoint, so after a block and a reorganisation
  two conflicting transactions can be in the pool. `setNewHashes` is never emptied: a `name_new`
  of a disconnected block does not return to the pool.
* A block found invalid, or a reorganisation, can leave `mapNamePending` without operations that are in
  the pool. Then the miner may put two registrations of a name into one block (exception `NotPending` of
  `TemplateConnects`), and a `name_update` is refused (`UpdateMustNotFail` in `names`).
* `name_firstupdate` gives up `cs_main` between its two checks (`NoOwnRival`; needs
  two registrations of one name by the wallet).

*Names.*
* The design document bounds the age of a `name_new` in a block; only the miner does.
* A name last operated on at height 12000 is displayed with the longer life (`DisplayedExpiryAlways` in `clock`;
  `DisplayedExpiry` is stated for the other heights).

*Miner* (all in `miner`).
* It validates with the height of the tip and takes an update of a name that expires with
  the new block: exception `ExpiresNow`; `TemplateAccepted` is the statement without exceptions.
* After a reorganisation to fewer blocks of more work the assertion on the number of
  confirmations fails (`ConfPositive`; needs blocks of different work).
* Resurrected transactions are never mined by this node (`PrevInfoCached`), and a child waits for
  a parent that is confirmed already (`WaitsForPool`).

*Wallet* (the first two and the fourth in `names`, the third needs a coinbase with two outputs; the fifth in `keypool`, the last two in `wallet_file`).
* It keeps what an aborted reorganisation told it (`SpentIsSpent`; also `Linked`, which needs an invalid
  block further up the new branch).
* `deletetransaction` frees coins that the pool spends (`MustNotFail`); at a start transactions are
  offered to the pool before their parents (`ReacceptsAll`; needs two unconfirmed
  transactions of which one spends the other).
* At a start a coinbase whose first output is spent is passed over, so a later output of it that a copy of the
  wallet has spent stays unmarked: `ReloadRemembers` is proved for coinbases that pay to the wallet with
  their first output only (`CoinbasesPayFirst`), as those of `CreateNewBlock` do.
* `WalletUpdateSpent` and `ReacceptWalletTransactions` do not take a name script for the wallet's own, so a name coin that a
  copy of the wallet has spent is never marked, not at a start either: `ForgetsOnDelete` and `ReloadRemembers` are about
  `MyCoins`; both fail with `Mine` in its place. No payment takes such a coin, and `name_update` goes by the name index.
* With `nTargetSize = 0` (`-keypool=0`) the pool runs empty and gives an index out again (`IndexNotReused`); a key reserved before the encryption returns to
  the pool after it (`KeyPoolFlushed`), and an index held across it is given out again, which is why
  `KeyUsedOnce` reaches up to the encryption.
* `EncryptWallet` ignores a failed rewriting (`EncryptedMeansRewritten`).
* It also holds `cs_wallet` while it waits for a handle. In the daemon, whose one RPC thread does both the encrypting
  and the reading of accounts, no user of a handle waits for `cs_wallet` and `EncryptEnds` holds; with the user
  interface one does, and `EncryptEnds` fails (`Thread = {msg, rpc, gui}`, `Paths <- GuiPaths` in `MCWalletFile.cfg`).

*Connections and download.*
* A reference taken by `ConnectNode` for an existing connection is not always given back, and threads return with
  references when the node shuts down (`ExitEnds` in `net`). A count changed outside its lock can lose a change, and the node is
  deleted while in use: `UsedNodesAlive` exempts `raced` nodes.
* At exit the destructor of `vNodes` takes no `cs_vNodes` and waits for the count only, and the opening thread is not waited
  for: it can delete the node that `ConnectNode` has just put there and goes on to use (`UsedNodesAlive` without `~Exiting` fails).
* The blocks before an orphan are asked of one node only (`OrphanWaits` in `sync` with three
  nodes: `Node = {A, B, C}` and the three definitions `Three...`). When the node
  behind has found a block itself and the connection broke, the download can stall until the next
  block: `CatchesUp` fails with both `StartAt <- OneStart` and `Minable <- OneMine` in `MCBlockSync.cfg`.

*Block files* (`blockfile`).
* After a power failure an index record can be there before its block (`StoredWhole` excludes it).
* `FlushBlockFile` ignores the results of `fflush` and `fsync`, so a block that never reached its file whole is recorded
  (`StoredWhole` without `\ torn` fails). A later reorganisation over it fails.
* When the commit of `AddToBlockIndex` fails, later records are written without their predecessor's
  (`TreeRootedAtGenesis` excludes it).
* A reserved size is used before the file has it (`AppendsOnly`).

## 7. Not modelled

* Scripts, signatures and `CAuxPow::Check`: byte-level and cryptographic; their
  verdict is a constant of `ChainData`.
* Serialisation, JSON, sockets, options and logging; IRC and DNS discovery and address
  relay, which hold no state other parts depend on; alerts.
* Accounts, address book and amounts shown by the wallet; coin selection; `name_list`, `name_scan`, `name_clean`.
* `CheckDbLockLimit`: the number of Berkeley DB locks of a transaction is not represented.
* `GetNextWorkRequired`: a function of times and targets, both left out of `NodeCore`.
* The timer of `walletpassphrase`: `KeyPool` locks and unlocks at any moment, which is all that the
  keys see of it.
* The Qt interface, which presents the state of the other parts. That includes the files
  `src/src/qt/locale/*.ts`: they are Qt Linguist translation catalogues (XML tables of
  message texts), not programs. There is nothing in them to model, and no
  definition is mapped to them. The program is the C++ code in `src/src/`.
* Vendored libraries and build files.
