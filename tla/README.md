# OmniBus chain core: TLA+ verification project

OmniBus is a proof-of-work chain written in Zig (`src/core`), with contracts on
EVM chains, a mining pool in JavaScript and a web front end. This directory
models the part on which everything else stands - how blocks get on the chain
and off it, how accounts follow the chain, how nodes bring their chains
together, how balances get to disk - and three parts around it that keep state
of their own across failures: the exchange's settlement on other chains, the
pool of the scripts, and the front end's connection to a node. The rest is
listed in the inventory and not modelled.

| module | models | checked by | proofs |
|---|---|---|---|
| `BlockIntake` | single blocks, orphans, whole-chain reorganisation | `block_intake` | `BlockIntake_proofs` |
| `Ledger` | mempool, mining, UTXO set, balances, nonces, blocks of peers, saves, restarts | `ledger`, `ledger_peers`, `ledger_replayed_tx` | `Ledger_proofs` |
| `PeerSync` | connections, announcements, sync requests and answers, sync mode, fork recovery, redials | `peer_sync`, `peer_sync_live` | `PeerSync_proofs` |
| `Store` | write-ahead log, memtable, snapshot, checkpoint, their writers | `store` | `Store_proofs` |
| `Escrow` | what the exchange's escrow promises (abstract) | as the property `EscrowKept` of `dex` | refined by `DexEscrow_proofs` |
| `DexEscrow` | escrow contracts, watcher, order book, order handler, fills log, settler and its files, restarts | `dex`, `dex_backed`, `dex_passed` | `DexEscrow_proofs` |
| `Pool` | mining pool server and its clients | `pool` | `Pool_proofs` |
| `WebSocketProvider` | sockets and timers of a page | `web_socket` | `WebSocketProvider_proofs` |
| `Folding` | nothing of the code: what folds over sequences and sums over finite sets come to, for any operator | - | itself |

`MC*.tla` give the constants values, one `.cfg` per run. Definitions named
"mutant" in a comment are wrong variants of the definition after them, used to
show that each property can fail; no run uses them otherwise.

## 1. Inventory

**Threads of the node.** The main thread runs the mining loop (`main.zig`): slot check,
sub-blocks, `mineBlockForMiner`, broadcast, save, and every so often
maintenance, the chainstate audit and sync requests. RPC threads admit
transactions and orders. Each connection has a receive thread that runs `dispatchMessage`.
A heartbeat thread pings, a state-save thread saves every 30 s, the WebSocket
server has a thread per client, and the exchange has a watcher thread (EVM
events) and a settler thread (EVM payments).

**Shared state.** `Blockchain` (chain, mempool, orphan pool, UTXO set, balances,
nonces, cumulative work) is guarded in places by `bc.mutex`: `addTransaction`,
the first and last stage of mining and `saveToDisc` take it,
`applyBlocksFromPeer`, `truncateChainTo` and the chainstate audit do not.
`P2PNode` (peer list, `chain_height`, `is_syncing`) and `SyncManager` belong to
the P2P threads and are read by the mining loop. The matching engine is guarded by
`exchange_mutex`, which the settler does not take.

| component | state | operations | what is hard | what makes it correct |
|---|---|---|---|---|
| block intake (`blockchain/reorg.zig`, `mempool_helpers.zig`, `validation.zig`) | chain, orphan pool, mempool, work | `addExternalBlock`, `processOrphans`, `reorg` | blocks before their parents, duplicates, a full pool, competing branches | ancestors first, complete cascade, bounded rewrites, no transaction lost |
| accounts (`mining.zig`, `balances.zig`, `utxo.zig`, `mempool_helpers.zig`) | UTXO set, balances, nonces | admission, selection, apply, coinbase, replay | the mutex is released for the proof of work; the state is kept twice | accounts = replay of the chain, nonces in order, money conserved |
| mining (`mining.zig`, `main.zig`) | local job | copy mempool, work, apply, append, reset | stale tip, stale mempool | linked blocks, no queued transaction lost that the block copied |
| synchronisation (`p2p/*.zig`, `sync.zig`) | peer list, heights, sync mode | handlers, heartbeat, maintenance | crossing and late answers, lost peers, restarts | blocks at their heights, only longer chains win, nodes catch up |
| chainstate store (`store/*.zig`) | log, memtable, snapshot | open, put, checkpoint, audit | the end of the process anywhere, failed writes | accepted puts survive, checkpoints are atomic |
| exchange settlement (`OmnibusDEX.sol`, `evm_escrow_watcher.zig`, `rpc/exchange.zig`, `matching_engine.zig`, `fills_log.zig`, `dex_settler.zig`) | escrows, watched orders, book, fills, cursor, two logs | lock, cancel, scan, place, match, settle, replay | two chains and a node that do not commit together; restarts that forget escrows | tokens leave an escrow once, back to its owner or paid out after a match of its id; no recorded settle is sent again |
| mining pool (`scripts/rpc-server.js`, `miner-client.js`) | registry, active set, balances, mempool, last blocks, file | register, keepalive, clean-up, reward, transfer, save | timers that race; a file written in place | no money made, history explains balances, silent miners unpaid |
| the front end's connection (`WebSocketProvider.tsx`) | sockets, timers, flag | mount, unmount, open, error, close, reconnect | a close event that comes after another socket was opened; a constructor that throws | as many sockets as mounts, always a way back, flag, ping and poll follow the socket |
| live data of the front end (`useBlockchainStore.ts`, `ws_server.zig`) | block count, list of blocks | messages, polls, broadcasts | three events and several requests set one number, from different sources | what is shown does not go back |
| chain database (`database.zig`) | `.dat`, `.bak`, temporary file | save, backup, restore | crash between steps, half restores | the last saved chain comes back |
| HTLCs, channels, escrow, staking, finality, PBFT, governance | registries | open, claim, refund, dispute, vote | timeouts that race answers, replay | funds conserved, one outcome, agreement |
| bridges, oracles, names, intents | registries | relays, reports | foreign chains | conservation |
| EVM, cryptography, identity, wallets, CLI, pages | - | pure or client-side | - | - |

`PROJECT.json` lists every component with its files and, under `hazards`, the
places in this code that are hardest to test, with the properties aimed at them.

## 2. Modules and their correspondence to the code

**BlockIntake.** A block is a model value. What a check reads in the block
itself is constant: `Parent`, `Index`, `Stamp`, `Zeros` (leading zeros of the
hash), `BridgeLocks`, `BlockTxs`, and `Sound` and `ReorgSound` for the
checks of `validateBlock` and of `reorg` that need nothing else (Merkle root,
reward, transactions, cap of a single bridge lock). What a check compares them
with is state: the clock `now`, which ticks at any time and is taken not to go
back, the difficulty and its retarget, the bridge locks of the last blocks, the
block at the claimed height. A block that claims index 0 passes
`validateBlock` before any of these (`ValidAt`). `ExtendTip`, `StoreOrphan` and
`DropBlock` are the ends of `addExternalBlock`; the orphan cascade is one action
per loop step (`ConnectOrphan`, `FailOrphan`, `SkipOrphan`, `NextPass`,
`EndScan`) under a variable `lock` that stands for `bc.mutex`; `Reorg` is `reorg`
with its collection and filtering of transactions. `applyBlock` allocates and
may fail; the orphan it failed for stays in the pool and is remembered in
`failed`. What a failed apply did to balances and nonces before is not kept, and
an allocation that fails inside `reorg` is left out. The mempool is a bag. The
production node appends blocks from peers by `applyBlocksFromPeer` (modelled in
`Ledger` and `PeerSync`); `addExternalBlock` and `reorg` are the API of
`blockchain.zig` and are called by tests at this commit.

**Ledger.** One node. The UTXO set keeps for each address the order of its coins, as
`swapRemove` leaves it, since selection walks that list. Mining is four actions
(`StartMining`, `ApplyNext`, `PayMiner`, `CommitBlock`), the stages between which the
mutex is free or only balances are touched. `ApplyBlocksFromPeer` includes the divergence check,
`truncateChainTo` and the replay. `SaveToDisc` is the rename at the end of
`saveBlockchain`; `Restart` restores and replays. The history variable `raced`
records that a peer's blocks were applied during a job; `ledger.short` that a
selection failed for an admitted transaction. Properties that need their absence
say so in their names (`LinkedUnlessRaced`, `MirrorsAgreeUnlessShort`), and both
exceptions are real: see section 6. There are finitely many addresses, and no
transaction's hash is the hash of a block, both being SHA-256 digests of
different things, so an outpoint of a transfer is never one of a coinbase.

**PeerSync.** Several nodes. A block hash is its ancestry, a sequence of
`<<miner, number, on time>>`, so the model knows the height and the
parent a block was made for even where the code has lost them. A connection is
an entry on both sides and two FIFO channels; each handler is one action, and
the mining loop has a phase per stage. Mining is two of them: `StartMining`
reads tip and index into `job`, then the mutex is free while the phase is `pow`
and responses are handled, and `FinishMining` appends to whatever the chain is
by then, without a look back; `RefuseOwn` and `FailMining` are the ends without
a block (at a height of `Harder` the retarget makes the new block itself too easy,
`main.zig:989`). Simplifications: any node may mine
whenever it is in its slot phase (clock and validator set decide in the code) and an announcement
may be refused by that check; several entries for one peer are folded into one;
`stable` messages, which change nothing that is modelled, are absent; all nodes share chain magic and genesis, and genesis is the
only checkpoint; the peer list is met in any order; a seed that is unreachable at start is
not retried before maintenance; handlers are atomic among themselves and
towards the stages of the loop.

**Store.** The log is the sequence of records up to a broken one and a flag that
a broken one follows. `Replay` is the effect of `Wal.replay` on a snapshot: the
last record of an address wins. A put is `AppendRecord` (four writes and an fsync),
or `AppendFails`, then `PutMemtable`; a checkpoint is `RenameSnapshot` and
`TruncateLog`, either of which may fail (`CheckpointFails`). `Crash` may come between any two steps, and
in the middle of a record. The writers are the initial sync, the audit and the
shutdown, all on the main thread; balances change under them, and a table that
was rehashed may hide entries from the iterator (`Miss`). A snapshot that is in place
is taken to be readable: the fsync before the rename is best effort in the code, and the
file system is outside the model.

**Escrow and DexEscrow.** `Escrow` is the abstract contract: the tokens of an
order leave once, back to the owner, or paid out after the order book has matched
an order that names its id. It does not say to whom: ids are chosen by the
callers of each contract (`OmnibusDEX.sol:119`), the watcher keeps one map for
all chains, and the startup replay pairs the escrow of one fill with the seller
of another when the ids of two engines meet in the fills log. So the code can
promise no payee. `DexEscrow` is how the code gets there, and
refines it (`Ids <- Escrows`, `held <- order`, `matched` of the same name).
`Lock`, `Refund` and `MineSettle` are the contract's functions, each in a block
of its chain; `DropSettle` is the chain's own, and a settle that is sent replaces
one that waits, since its nonce is that of the latest block. `ScanBinding` is a
scan of the watcher, whose answers may fail to parse.
`exchange_placeOrder` runs under `exchange_mutex` (`busy`), which the settler does not take, so it
is several actions: `PlaceBid` or `PlaceAsk` (checks and matching), one
`BookFill` per fill (transfer of OMNI, fills log; either may fail and is
only reported), and `Journal`; `RefuseRest` is the return with `OrderbookFull` that
leaves fills behind. `GridOrder` is an order of a grid, which goes past mutex,
escrow check, log, transfer and journal; `PaperFill` is a fill of the paper engine,
which has fill ids of its own and writes to the same fills log.
The settler reads its files (`LoadFiles`), replays them (`ReplayPass`, `ReplaySkip`,
`ReplaySend`) and scans the fills (`ScanPass`, `ScanSend`, `ScanStops`); after
a send come `RecordSettle`, which may fail without stopping anything, and
`AdvanceCursor`, whose write may leave the old cursor or none. `Restart`
comes at any point. The replay of `orders.jsonl` names neither escrow nor EVM
address; it gives back the book and the number of fills only while the journal
tells the engine's whole story (`exact`), and after a paper order, a grid order,
a failed journal or a handler cut short it gives back any book and any number of fills.
`Mishap` bounds the failures and strays of a run.
Simplifications: one pair at one price, an ask sells one unit and a bid buys units its
escrow covers, so a book is a queue on either side; fees are left out; coins and
balances of OMNI are not modelled - a transfer succeeds or fails; a file can be
read, and no write is torn but that of the cursor; a grid's order, which is a
data race with a handler, is taken to come between two of the handler's steps;
the events of one order in one answer are read together or
lost together; the watcher's window at the first start is taken to cover the
contract's life; the time of an escrow's expiry is free; EVM chains do not reorganise.

**Pool.** The pool is one process on one event loop, so each handler and timer
callback is one action. A period is the five seconds of the keepalive and cleanup
timers; `due` holds the timers that have yet to fire in it, so they fire in any
order among keepalives and transfers. `SaveBalances` may fail before or after
`writeFileSync` has emptied the file, and the process may end (`End`) at any point
and start again (`Start`) with what the file holds. Amounts are doubles in the
code: a share is the quotient to the nearest unit (`Nearest`), and a sum
that reaches `Exact` is kept as a multiple of `Grain` (`Rounded`) - two sizes of
numbers for the many that doubles have.

**WebSocketProvider.** The page's socket reference, reconnect timer, fallback poll
and ping timer; sockets are numbered and live on until their close event, which is an action
of its own and may come after the page has opened another. `Thrown` is the catch path of
`connectWs`: the constructor throws, the timer is set, and the reference stays.
The messages and what the reducer makes of them are not modelled: the count a page shows
is set from three events and several requests, which read the length of the chain
in one place and `block_count`, which lags it, in another, so there is no
order among its values worth stating (see section 6).

No module composes others: `Ledger` and `PeerSync` share
`applyBlocksFromPeer`, once with its effect on accounts and once among several
nodes.

## 3. Runs, bounds and what they show

| run | instance | shows |
|---|---|---|
| `block_intake` | two branches of three blocks, of which one locks coins over the bridge's limit and one is too easy after a retarget; a block dated ahead of the clock, one that only `reorg` accepts, one of index 0 that nothing else would let in, a foreign genesis; 14 peer chains; pool of 2, depth 1 | see below |
| `ledger` | miner and account, three transfers, maturity 2, five blocks | accounts without peers |
| `ledger_peers` | the same with a peer chain of three blocks, in any range of headers; three own blocks | accounts, links and queue with truncation and splice |
| `peer_sync` | two nodes, forks from genesis (2 against 3 blocks) or 0 against 3; up to two more blocks at one and one at the other; a retarget at height 3; one lost connection or restart | safety of synchronisation |
| `peer_sync_live` | a joins b, which mines four blocks; no faults | liveness |
| `store` | two addresses, one change of balances, two ends of the process or failed writes | durability |
| `pool` | two miners, a reward of 21, balances even from 16 on, a transfer of 8, one block kept, two rewards, one end of the process and one failed save | money, timers, restarts |
| `web_socket` | four sockets, two unmounts, two constructors that throw | the page's connection |
| `dex` | one order id on two chains, three orders, two fills, a restart, one failed write or transfer, lost answer, grid order or paper fill | settlement, and that it refines `Escrow` |
| `dex_backed`, `dex_passed`, `ledger_replayed_tx` | - | section 6 |

* `block_intake`: the chain starts at its genesis, each block stands behind
  its parent and passed a check or claims index 0 (`AncestorsFirst`); when the mutex is
  free, a pooled child of the tip is one whose `applyBlock` failed or that was not valid yet when the last pass began
  (`NoReadyOrphan`; it may have become valid since, and nothing looks at it before the next block); a known transaction stays
  known (`NoTxLost`); nothing deeper than the limit is rewritten and only for
  more blocks (`DeepHistoryStable`); the cascade ends (`LockReleased`). The pool of two is smaller than
  the number of blocks that can wait, so it fills; depth 1 is exceeded by the long branches; the future-dated block is out of bounds before
  the one tick of the clock and within them after it.
* `ledger`, `ledger_peers`: between jobs, accounts equal a replay of the chain (`LedgerIsReplay`: no job, truncation or restart leaves half of a block behind; one operator stands for the code's
  two loops that apply a block, so that these agree is not shown); balances never go below zero (`TypeOK`); confirmed nonces count
  up (`NonceOrder`), queued ones follow without a gap (`MempoolGapless`); coins and balances agree; the supply
  is what blocks minted, in both runs (`SupplyConserved`); saved blocks survive restarts; blocks are replaced by more blocks only; what the reset of the queue drops
  came after the block had copied it (`QueuedUnlessLate`). Maturity 2 with five blocks has transfers that
  come too early, in time, and that need several coins. The run with a peer uses maturity 1 and smaller amounts.
* `peer_sync`: no block at a wrong height but one whose miner was overtaken by a response, and what is built on it (`HeightsInOrder`); blocks are given up for more, or two
  in a fork recovery (`BlocksGivenUpForMore`); nothing `ReorgDepth` deep goes (`DeepBlocksStay`). `Gap`, `Tolerance`, `Lookback`, `ReorgDepth`, `Threshold` stand for 6, 6, 16, 1000, 3
  and are scaled to chains of up to five blocks, keeping each on both sides of its
  comparison. `MaxWire` holds back heartbeats on a busy channel; `MaxFaults` counts lost connections and restarts.
  1.2 million states.
* `peer_sync_live`: under `FairSpec`, a node that is behind leaves sync mode
  and no node stays two blocks behind. Fairness, as the
  code's threads justify it: a started node attaches its chain, its receive threads take what arrives
  (`Handle`), a proof of work ends (its nonces are finite), a round of the mining loop ends (`RequestPeerSync`) - weakly fair, since
  these threads loop forever and nothing disables them for good - and the heartbeat goes off
  every ten seconds - strongly fair only because `MaxWire` may hold it back now and then.
  Nothing is assumed of mining, of maintenance (every thirtieth round, and only after a block was
  mined here) or of the network.
  `block_intake` needs weak fairness of the loop that holds the mutex and of nothing else.
* `store`: every accepted put is found by the next start unless a record was torn
  (`DurableUnlessTorn`); only a logged put changes what the next start finds, so a checkpoint
  cut short anywhere is harmless (`RestartsAgree`); an audit leaves a snapshot of what
  did not move (`AuditCoversBalances`). Two failures are needed for a failed checkpoint followed by a crash.
* `pool`: shares and transfers make and lose no money but what doubles round (`PayoutsAddUp`); blocks kept and transfers
  pending explain every balance but for that (`HistoryExplainsBalances`): half a unit for a share and half a grain for a sum. The reward of 21 does not halve,
  and a balance of 16 or more, which a miner reaches with the second share or the transfer, has lost its last digit. A silent miner is dropped within a period of its timeout
  (`SilentMinersUnpaid`); a start finds what clients saw unless the last save failed (`RestartKeepsBalances`); a miner
  the pool knows becomes active again (`KnownMinerComesBack`), under weak fairness of the keepalive of a miner whose program runs,
  a `setInterval` of the client; nothing is assumed of the pool's timers. With one block kept and two rewarded, a block falls off while a transfer is in it.
* `web_socket`: sockets whose close event is to come and the reconnect timer together number one
  per mount (`SocketsPerMount`); a mounted page has one of either (`NeverStranded`), and so is connected again (`ConnectsAgain`); on
  a page mounted once, the flag, ping and poll agree with its socket (`InStepUnlessRemounted`). Fairness: the page is mounted, the timer fires, a handshake is
  answered or fails, a closing socket reports it - what a browser guarantees. Two sockets and one unmount are the least that a late close event needs; four and two allow
  it to happen again, with a throwing constructor in between.
* `dex`: tokens leave an escrow once, back to its owner or paid out after a match of its id (`EscrowKept`, the refinement); a fill whose settle is in the settle log
  is not sent again (`NeverSentAgain`). The id exists on both chains, so an event of one replaces or closes what the map holds of the
  other; two fills fill the engine's buffer; restart and mishap may come between any two steps. 3.2 million states.

The `TypeOK` of every module but `Ledger`, and the limit of the orphan pool (`OrphansBounded`), are theorems (section 4); TLC agrees, and the runs
do not repeat them.

`CHECK_DEADLOCK FALSE` is set for all modules but `BlockIntake` and `Ledger`: the others stop when their
bounds are used up.

## 4. What is proved

Theorems hold for every value of the constants that satisfies the named
assumptions in the modules; proofs are in `*_proofs.tla`. Every safety property
and every action property of a passing run is the statement of one. Each module
proves the type invariant of its component (`TypeCorrect`; that of `Ledger` for
a node without peers, `InvHolds` the types of chain, queue and job for all) and the following.

* `Folding`: the facts the others need about the code's loops. A fold over a sequence is the last of the values it goes through
  (`FoldRuns`), whatever the operator is; the sum of a function over a finite set does not depend on the order, and changes by what
  an element, a part or a value changes (`SumInsert`, `SumUnion`, `SumChange`). Induction is stated over sets - a set of numbers that holds
  0 and each successor holds all - so that it can be cited for a predicate the module has made a set of. A module takes one
  instance for each of its operators.

* `BlockIntake_proofs`: all safety properties of `block_intake` and `OrphansBounded`. The inductive invariant adds to `AncestorsFirst`
  where the loop stands: what is before the scan index is no child of the tip of this pass, was invalid when the pass began or failed to apply, unless progress was made,
  which is what makes `NoReadyOrphan` inductive. A block that is invalid at the clock of the loop was invalid at the start of the pass, since validity only grows with the clock.
* `Ledger_proofs`: every property of `ledger` and `ledger_peers`. `LinkedUnlessRaced` alone is
  not inductive: a job carries a parent hash through several steps, so the invariant says that without a race this hash is the
  tip's, and that the saved chain is linked too, since a restart brings it back. `LedgerIsReplay` needs to say what the ledger is in the
  middle of a job (`ReplayInv`): the replay of the chain and of the transactions applied so far, then of the whole block before it is on the chain.
  The properties of `ledger` are theorems of a node without peers:
  a truncation breaks the order of nonces, on which they rest, in the way `ledger_replayed_tx` shows. There `NoReplayWithoutPeers` says that this takes a peer.
  The accounts rest on `AccountsInv`, which says the same of the replay of the chain, of the replay of the saved chain - a restart makes it the ledger - and
  of the ledger in a job: every coin is listed once and under its address (`WellKept`, kept by `swapRemove` though it disturbs the order), unless a
  selection came short an address's coins are worth its balance (`LedgerOK`), its nonce counts its transactions, and the balances add up to what was issued less
  the fees of what the job has applied (`Explained`). None of that is inductive without `Fresh`, by which the outpoints of the next transaction and of the next
  block are not in the set: the former because its nonce is still to come, which is where `MempoolGapless` comes in. That no debit is dropped follows from
  the selection: it found coins worth the cost, and the coins are worth the balance.
* `Store_proofs`: every property of `store`. Lemmas say what `Replay` does with an empty log, one more record,
  and the same log twice; the last makes a crash between rename and cut harmless. The last record of an address exists because < is well founded on the
  distances from the end of the log (`HasMinimum`). The invariant adds that a snapshot just renamed is the memtable, which is why the cut after it loses nothing;
  for the audit, that what it has passed and nobody moved is in the memtable or in the put under way.
* `Pool_proofs`: every safety property of `pool`. The silence of an active miner is bounded by whether the
  cleanup of the period has run; the file is the balances unless a save failed. That shares and transfers neither make nor lose money, and that blocks and
  pending transfers explain each balance, is one inductive invariant (`Books`) over sums of the history, in which a reward is several transactions at once
  and a block that falls off takes its transfers into the opening balances. Each sum adds what its rounding may be off by, whatever the reward, the number of
  miners, `Exact` and `Grain` are. It takes finitely many addresses, and that the pool's own name is not one of them.
* `WebSocketProvider_proofs`: every safety property of `web_socket`. `SocketsPerMount` needs facts about cardinalities, and that a page
  which is not mounted has one socket or timer less (`Budget`); the rest needs that on a page mounted once every socket alive is the page's (`OnlyMine`).
* `DexEscrow_proofs`: both properties of `dex`, the refinement among them: each step of the settlement is a step of `Escrow` or a stutter, for which
  the invariant says that what names an escrow names one that was locked (`BookLocked`) and what leads to a settle - a fill, a log record's index entry, a settle in flight - one that
  was matched (`SettlesMatched`). That no recorded settle is sent again does not follow from the fill ids, since paper fills carry the same
  ids into the log and a restart may bring back other fills. A history of tags tells fills apart: log records of one fill agree on its id (`LogAgrees`),
  a fill that is done is in the settle log under that id (`DoneRecorded`), and the settler's scan is past it (`DonePassed`) unless it is the one at hand (`AtHand`).
  The replay looks into the settle log, the scan needs only the cursor, and fills that a restart brings back carry no tag.
* `PeerSync_proofs`: every property of `peer_sync`, for any number of nodes and any faults. None is inductive: the handler of a response
  looks only at its first header, so the invariant says of each response on its way that its blocks fit the heights it claims, those excepted whose miner a response overtook (`Fitting`), and of each job that its
  tip fits its index. That stays true
  although the sender may rewrite its chain before the answer arrives, because a response carries the blocks themselves. Each step then extends a chain, replaces
  the upper `ReorgDepth` blocks of it by more, or recovers (`ChainStep`), from which the action properties follow; `DeepBlocksStay` also needs that
  the two blocks of a fork recovery are within `ReorgDepth`.

Only model-checked: liveness under fairness, which the prover does not reach (`LockReleased`, `SyncingNodeResumes`, `AllCatchUpWithinOne`,
`KnownMinerComesBack`, `ConnectsAgain`). Not proved either: `TypeOK` and `SupplyConserved` of `Ledger` for a node with peers (the run
`ledger_peers` checks the latter), and what a raced job does to the accounts.

## 5. Plan

1. `ChainFile`: save, startup backup, restore with fallback, with crashes between the steps; refinement of an abstract file that holds the last or the next chain.
2. `Mempool` (`mempool.zig`): replacement, eviction, expiry. `PaymentChannel`: updates, closes with old states, disputes.
3. `Finality` (checkpoint votes, justification) and `Pbft` (phases, quorums, views), each against an abstract agreement specification by `INSTANCE ... WITH`; quorum intersection as a proved lemma.
4. `DexEscrow` with several prices and pairs, and with the EVM chain reorganising under the watcher.
5. `Htlc`, once the block path calls `applyHtlcTx`.
6. The accounts of a node with peers: which of the theorems of `Ledger_proofs` survive truncations of blocks without transactions.

The bigger instances stay within some minutes by splitting safety and liveness runs and by one bound per counter.

## 6. Where code and comments disagree

Shown by a run:

* `ledger_replayed_tx` - a truncation leaves the mempool, whose transactions are then mined with a gap; a nonce is accepted twice (`net_processing.zig:162`).
* `dex_backed` - bids come back from the journal without their escrow (`rpc_server.zig:5968`); the next ask moves OMNI for nothing, which the comment at `rpc/exchange.zig:196` says is refused up front.
* `dex_passed` - a fill that was logged and journaled but not scanned when the node stops is in no EVM index: the replay that is to settle it (`dex_settler.zig:119`, `:142`) skips it, and the scan passes the copy without escrow.

Reproduced with these models while they were written; the property that holds instead is in brackets:

* a transaction accepted during the proof of work is dropped when the mempool is reset (`mining.zig:290`) [`QueuedUnlessLate`];
* an announced height is an index, a request compares lengths: a node exactly one block behind does not ask for that block (`sync_coord.zig:118`) [`AllCatchUpWithinOne`];
* a node that loses its only peer in sync mode stays in it, as sync mode skips the redials (`main.zig:901`) [`SyncingNodeResumes` without faults];
* a block whose proof of work a response overtakes lands off the height it was made for: tip and index are read before the mutex is released and not again (`mining.zig:217`, `:290`) [`HeightsInOrder`];
* a response built on another branch that starts at the local length is appended without a look at its parent (`net_processing.zig:202`) [`HeightsInOrder`];
* records behind a broken one are accepted and not found again, though `wal.zig:90` says that a put that returned survives (`wal.zig:144`) [`DurableUnlessTorn`];
* a page that is unmounted and mounted again ends up with two sockets, which `WebSocketProvider.tsx:91` means to prevent: the close event of the first forgets the second (`WebSocketProvider.tsx:172`) [`SocketsPerMount`];
* a miner of the pool that runs on while the pool is restarted is never paid again, since the answer to its keepalives is not looked at (`rpc-server.js:418`) [`KnownMinerComesBack`].

Seen while modelling:

* the orphan loop reads the tip hash once per pass, so two children of one parent connect in the same pass (`mempool_helpers.zig:164`);
* a block that claims index 0 passes `validateBlock` without a look at its content (`validation.zig:319`), which is what `AncestorsFirst` excepts; an orphan that was dated too far ahead is not looked at again when its time comes, before the next block arrives (`validation.zig:329`), which is what `NoReadyOrphan` excepts;
* `reorg` does not adjust `cumulative_work` (`reorg.zig:154`), and a longer branch that arrives block by block is never adopted (`reorg.zig:44`);
* a sender whose coins are immature passes admission, spends no coin and its receiver gets one (`mining.zig:164`), which is what `MirrorsAgreeUnlessShort` excepts;
* a block of a peer that arrives during the proof of work is followed by a block with another parent (`mining.zig:217`), which is what `LinkedUnlessRaced` excepts;
* `block_count` lags after a sync, so announcements carry too low a height (`main.zig:1130`); a restarted node reports height 0 (`transport.zig:267`); an early welcome starts sync mode on a node that is not behind (`net_processing.zig:481`); a request goes to the first listed peer, dead or not (`sync_coord.zig:119`); the exit of an inbound peer removes the entry at an index taken earlier (`transport.zig:426`);
* the comment at `main.zig:221` says the chainstate is written in every `applyBlock`; only the initial sync and the audit write it. Addresses that a reorg removed stay in the store (`db_setup.zig:130`);
* the startup backup of the chain database is overwritten before the file is known to be good (`database.zig:925`), and a restore that fails half way leaves its blocks (`database.zig:1092`);
* HTLC and order transactions take effect in `applyBlock` (`apply.zig:53`), which the block path of a production node does not call; nor does a replay at a start. `HtlcTradePanel.tsx:175` passes an EVM address as the receiver;
* the settlement: `OmnibusDEX.sol:188` says `settle` is called only after OMNI has moved and that the settler waits for confirmation and rolls back. The OMNI of a fill is in no block and comes back to the seller in every restart (`main.zig:500`) and in every truncation for a peer (`net_processing.zig:162`), a failed transfer is only logged (`rpc/exchange.zig:362`), and no receipt is asked for;
* a failed replay of a settle is to be retried at the next restart (`dex_settler.zig:483`), but the scan that follows finds the fill without its escrow and passes it; a settle record that cannot be written is non-fatal and the cursor goes on (`dex_settler.zig:366`);
* the fills log holds fills of the paper engine under their own ids (`rpc/exchange.zig:399`) and none of the grids (`grid_engine.zig:179`), so the startup replay may pair the escrow of one fill with the seller of another (`dex_settler.zig:435`);
* the comment at `evm_escrow_watcher.zig:77` says that the chain hands out order ids sequentially; callers choose them (`OmnibusDEX.sol:119`);
* an ask restored from the journal has no EVM address; matched by a bid with an escrow it stops the settler for good (`dex_settler.zig:180`);
* one cursor file serves all chains (`evm_escrow_watcher.zig:208`), so after a restart a lower chain's events are missed; escrows of all chains share a map keyed by 64 bits of their ids (`evm_escrow_watcher.zig:76`);
* several bids may name one escrow, and the first settle pays all of it (`rpc/exchange.zig:240`); the settle's nonce is that of the latest block, so a second one in flight replaces the first (`evm_rpc_client.zig:127`); `engine.fills` is never cleared (`matching_engine.zig:410`);
* the order form sends `evmOrderId` as a string (`PlaceOrderForm.tsx:234`), of which the node reads no digit (`rpc_server.zig:3766`), so the bid is refused after the tokens were locked; `DexBuyPanel.tsx` locks tokens without placing a bid;
* the answers of a mount may replace newer data of the socket (`WebSocketProvider.tsx:66`), and a page mounted again does not poll until a socket has opened (`WebSocketProvider.tsx:264`); the count of blocks it shows may go back, as a broadcast carries `block_count` and the status the length of the chain (`ws_server.zig:214`), and the event for a node in initial sync, which sets it too (`useBlockchainStore.ts:132`), has no sender (`broadcastIbdProgress`, `ws_server.zig:346`, is not called).

## 7. Not modelled

Signatures, hashes, encodings and proof of work are abstract: a block or
transaction passes its checks or does not. Clocks appear only as freedom of
choice, but for the clock of `BlockIntake`. Memory safety (buffers shared between threads) is below the models.
Fields of blocks that no property tells apart (Merkle roots, prices, and outside
`BlockIntake` timestamps and difficulty) are left out, as are the transaction types other than transfers,
whose handlers the block path does not reach.
The pages of the front end, which make up most of the repository's JavaScript,
are forms and tables over RPC calls and hold what they last fetched.
The remaining components are listed in `PROJECT.json` with the reason for each.
