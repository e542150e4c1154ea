-------------------------------- MODULE Ledger --------------------------------
(***************************************************************************)
(* The accounts of one node.  The code keeps them twice: as a UTXO set     *)
(* (core/utxo.zig) and as a map of balances (core/blockchain/balances.zig).*)
(* Three threads move them: RPC threads queue transactions, the mining     *)
(* thread builds a block (mining.zig), and P2P threads append the blocks   *)
(* of peers (p2p/net_processing.zig).  A fourth one saves the chain.       *)
(*                                                                         *)
(* mineBlockForMiner takes bc.mutex to read the tip, lets it go for the    *)
(* proof of work and for the loop over the transactions, and takes it      *)
(* again to append the block: each of those stages is an action here, and  *)
(* the other threads run between them.  applyBlocksFromPeer takes no lock  *)
(* for the chain at all; it is one step here, so every interleaving below  *)
(* is one of the code's, but not every one of the code's is below.         *)
(*                                                                         *)
(* A transaction is a constant with its fields; format, dust, fee floor    *)
(* and signature checks only decide which constants exist.  Blocks of      *)
(* peers arrive as headers, so they carry a miner and no transactions.     *)
(***************************************************************************)
EXTENDS Integers, Sequences, FiniteSets, SequencesExt, Functions

CONSTANTS
  Addrs,       \* addresses
  Txs,         \* signed transactions
  From, To, Amount, Fee, Nonce,  \* their fields, functions on Txs
  Miners,      \* addresses this node may mine for
  PeerMiners,  \* the miner of each block of the peer's chain, in order
  Reward,      \* blockRewardAt, constant within one halving period
  Maturity,    \* 100 in UTXO.isMature
  ReorgDepth,  \* REORG_DEPTH_LIMIT (1000 in net_processing.zig)
  MaxMined     \* bound: blocks this node mines

\* The hashes of blocks.  A transaction's hash is none of them: the outpoints
\* of transfers and of coinbases never meet.
Hashes == {<<"genesis", 0>>} \cup ({"own"} \X Nat) \cup ({"peer"} \X Nat)

ASSUME TxAssumption ==
  /\ IsFiniteSet(Addrs)
  /\ \A t \in Txs : t \notin Hashes
  /\ From \in [Txs -> Addrs] /\ To \in [Txs -> Addrs]
  /\ Amount \in [Txs -> Nat] /\ Nonce \in [Txs -> Nat]
  /\ Fee \in [Txs -> Nat \ {0}]

ASSUME ParameterAssumption ==
  /\ Miners \subseteq Addrs
  /\ PeerMiners \in Seq(Addrs)
  /\ Reward \in Nat /\ Maturity \in Nat /\ ReorgDepth \in Nat /\ MaxMined \in Nat

VARIABLES
  chain,    \* bc.chain; the block at height h is chain[h + 1]
  mempool,  \* bc.mempool
  ledger,   \* bc.utxo_set, bc.balances and bc.nonces
  job,      \* the local variables of mineBlockForMiner
  disk,     \* the chain in the last file saveBlockchain renamed into place
  mined,    \* how many blocks this node has mined: names the next hash
  raced     \* history: a peer's blocks were applied while a job was running

vars == <<chain, mempool, ledger, job, disk, mined, raced>>

Genesis == [hash |-> <<"genesis", 0>>, prev |-> <<"none", 0>>, index |-> 0,
            txs |-> << >>, miner |-> "none"]
Idle == [phase |-> "idle"]
Tip == Last(chain)
Cost(t) == Amount[t] + Fee[t]

(***************************************************************************)
(* The UTXO set: a map from outpoints to coins, and per address the list   *)
(* of its outpoints.  The list is what coin selection walks, so its order, *)
(* which swapRemove disturbs, is part of the state.                        *)
(***************************************************************************)
NoCoins == [coins |-> [o \in {} |-> 0], index |-> [a \in Addrs |-> << >>]]

AddUTXO(s, o, a, amount, height, coinbase) ==
  LET coin == [address |-> a, amount |-> amount, height |-> height, coinbase |-> coinbase]
  IN  [coins |-> [p \in DOMAIN s.coins \cup {o} |-> IF p = o THEN coin ELSE s.coins[p]],
       index |-> [s.index EXCEPT ![a] = Append(@, o)]]

\* Mutant: pop instead of swapRemove.
PopInstead(q, i) == SubSeq(q, 1, Len(q) - 1)

SwapRemove(q, i) == SubSeq([q EXCEPT ![i] = Last(q)], 1, Len(q) - 1)

FirstAt(q, o) == CHOOSE i \in DOMAIN q : q[i] = o /\ \A j \in 1 .. i - 1 : q[j] # o

SpendUTXO(s, o) ==
  IF o \notin DOMAIN s.coins THEN s
  ELSE [coins |-> [p \in DOMAIN s.coins \ {o} |-> s.coins[p]],
        index |-> [s.index EXCEPT ![s.coins[o].address] = SwapRemove(@, FirstAt(@, o))]]

IsMature(coin, height) == coin.coinbase => height >= coin.height + Maturity

GetBalance(s, a) ==
  FoldLeft(LAMBDA sum, o : sum + (IF o \in DOMAIN s.coins THEN s.coins[o].amount ELSE 0),
           0, s.index[a])

\* The greedy selection: walk the list, skip what is not mature, stop at the
\* target.
SelectUTXOs(s, a, target, height) ==
  LET take(sel, o) ==
        IF sel.total >= target \/ o \notin DOMAIN s.coins THEN sel
        ELSE IF ~IsMature(s.coins[o], height) THEN sel
        ELSE [picked |-> Append(sel.picked, o), total |-> sel.total + s.coins[o].amount]
  IN  FoldLeft(take, [picked |-> << >>, total |-> 0], s.index[a])

(***************************************************************************)
(* The balances.  A debit that finds too little is dropped: every caller   *)
(* writes `catch {}`.                                                      *)
(***************************************************************************)
Credit(bal, a, amount) == [bal EXCEPT ![a] = @ + amount]
DebitUnchecked(bal, a, amount) == [bal EXCEPT ![a] = @ - amount]  \* mutant
Debit(bal, a, amount) == [bal EXCEPT ![a] = IF @ < amount THEN @ ELSE @ - amount]

EmptyLedger ==
  [utxo |-> NoCoins, balances |-> [a \in Addrs |-> 0], nonces |-> [a \in Addrs |-> 0],
   short |-> FALSE]

\* One iteration of the transaction loop, which mineBlockForMiner and
\* recalculateFromHeight each spell out; one operator stands for both, so what
\* might part the two texts is not checked.  `short` remembers that a
\* selection failed and the code went on without spending any coin.
ApplyTx(l, t, height) ==
  LET sel == SelectUTXOs(l.utxo, From[t], Cost(t), height)
      enough == sel.total >= Cost(t)
      spent == IF enough THEN FoldLeft(SpendUTXO, l.utxo, sel.picked) ELSE l.utxo
      change == IF enough /\ sel.total > Cost(t)
                THEN AddUTXO(spent, <<t, 1>>, From[t], sel.total - Cost(t), height, FALSE)
                ELSE spent
  IN  [utxo |-> AddUTXO(change, <<t, 0>>, To[t], Amount[t], height, FALSE),
       balances |-> Credit(Debit(l.balances, From[t], Cost(t)), To[t], Amount[t]),
       nonces |-> [l.nonces EXCEPT ![From[t]] = @ + 1],
       short |-> l.short \/ ~enough]

Fees(txs) == FoldLeft(LAMBDA sum, t : sum + Fee[t], 0, txs)
MinerShare(fees) == fees - (fees * 50) \div 100

\* The coinbase credit of a block.
PayCoinbase(l, hash, a, amount, height) ==
  IF amount = 0 THEN l
  ELSE [l EXCEPT !.balances = Credit(@, a, amount),
                 !.utxo = AddUTXO(@, <<hash, 0>>, a, amount, height, TRUE)]

ReplayBlock(l, b) ==
  PayCoinbase(FoldLeft(LAMBDA m, t : ApplyTx(m, t, b.index), l, b.txs),
              b.hash, b.miner, Reward + MinerShare(Fees(b.txs)), b.index)

\* recalculateFromHeight: forget everything, replay from the block after genesis.
Replay(c) == FoldLeft(ReplayBlock, EmptyLedger, Tail(c))

Pending(a) == SelectSeq(mempool, LAMBDA t : From[t] = a)
PendingOutgoing(a) == FoldLeft(LAMBDA sum, t : sum + Cost(t), 0, Pending(a))
QueuedUpTo(i, a) == Cardinality({j \in 1 .. i : From[mempool[j]] = a})
NextAvailableNonce(a) == ledger.nonces[a] + QueuedUpTo(Len(mempool), a)

Init ==
  /\ chain = <<Genesis>>
  /\ mempool = << >>
  /\ ledger = EmptyLedger
  /\ job = Idle
  /\ disk = <<Genesis>>
  /\ mined = 0
  /\ raced = FALSE

\* Mutant: the pending transactions are forgotten.
ValidateWithoutPending(t) ==
  /\ Nonce[t] = ledger.nonces[From[t]]
  /\ Cost(t) <= GetBalance(ledger.utxo, From[t])

\* The nonce and balance checks of validateTransaction for a v1 transaction.
ValidateTransaction(t) ==
  /\ Nonce[t] = NextAvailableNonce(From[t])
  /\ PendingOutgoing(From[t]) + Cost(t) <= GetBalance(ledger.utxo, From[t])

\* RPC or P2P thread.  Holds bc.mutex, which the mining thread does not hold
\* while it works on a block.
AddTransaction(t) ==
  /\ ValidateTransaction(t)
  /\ mempool' = Append(mempool, t)
  /\ UNCHANGED <<chain, ledger, job, disk, mined, raced>>

\* Mining thread: read the tip, copy the mempool's slice into the block.
StartMining(m) ==
  /\ job = Idle
  /\ mined < MaxMined
  /\ mined' = mined + 1
  /\ job' = [phase |-> "txs", miner |-> m, hash |-> <<"own", mined>>, prev |-> Tip.hash,
             index |-> Len(chain), txs |-> mempool, todo |-> mempool]
  /\ UNCHANGED <<chain, mempool, ledger, disk, raced>>

\* Mining thread, after the proof of work: one transaction of the block.
ApplyNext ==
  /\ job.phase = "txs" /\ job.todo # << >>
  /\ ledger' = ApplyTx(ledger, Head(job.todo), job.index)
  /\ job' = [job EXCEPT !.todo = Tail(@)]
  /\ UNCHANGED <<chain, mempool, disk, mined, raced>>

\* Mutant: the fees are burned in full.
PayMinerWithoutFees ==
  /\ job.phase = "txs" /\ job.todo = << >>
  /\ ledger' = PayCoinbase(ledger, job.hash, job.miner, Reward, job.index)
  /\ job' = [job EXCEPT !.phase = "paid"]
  /\ UNCHANGED <<chain, mempool, disk, mined, raced>>

\* Mining thread: block reward and the miner's half of the fees.
PayMiner ==
  /\ job.phase = "txs" /\ job.todo = << >>
  /\ ledger' = PayCoinbase(ledger, job.hash, job.miner,
                           Reward + MinerShare(Fees(job.txs)), job.index)
  /\ job' = [job EXCEPT !.phase = "paid"]
  /\ UNCHANGED <<chain, mempool, disk, mined, raced>>

\* Mutant: the mempool keeps what the block confirmed.
CommitBlockKeepingMempool ==
  /\ job.phase = "paid"
  /\ chain' = Append(chain, [hash |-> job.hash, prev |-> job.prev, index |-> job.index,
                             txs |-> job.txs, miner |-> job.miner])
  /\ job' = Idle
  /\ UNCHANGED <<mempool, ledger, disk, mined, raced>>

\* Mutant: a block whose parent is no longer the tip is dropped with its
\* transactions.
CommitBlockUnlessStale ==
  /\ job.phase = "paid"
  /\ chain' = IF job.prev # Tip.hash THEN chain
              ELSE Append(chain, [hash |-> job.hash, prev |-> job.prev, index |-> job.index,
                                  txs |-> job.txs, miner |-> job.miner])
  /\ mempool' = << >>
  /\ job' = Idle
  /\ UNCHANGED <<ledger, disk, mined, raced>>

\* Mining thread, under bc.mutex again: append the block, without looking at
\* the tip a second time, and reset the mempool.
CommitBlock ==
  /\ job.phase = "paid"
  /\ chain' = Append(chain, [hash |-> job.hash, prev |-> job.prev, index |-> job.index,
                             txs |-> job.txs, miner |-> job.miner])
  /\ mempool' = << >>
  /\ job' = Idle
  /\ UNCHANGED <<ledger, disk, mined, raced>>

(***************************************************************************)
(* P2P thread: applyBlocksFromPeer with the headers first .. last of the   *)
(* peer's chain.  Only the first header is compared with the local chain.  *)
(***************************************************************************)
PeerHash(h) == <<"peer", h>>
Diverges(first) == first < Len(chain) /\ chain[first + 1].hash # PeerHash(first)

\* Mutant: a chain of the same length is adopted too.
AcceptEqual(first, last) ==
  Diverges(first) => Len(chain) - first <= ReorgDepth /\ last + 1 >= Len(chain)

Accept(first, last) ==
  Diverges(first) => Len(chain) - first <= ReorgDepth /\ last + 1 > Len(chain)

\* Mutant: the parent is the one the peer's block was mined on.
PeerBlocksAsMined(base, first, last) ==
  LET block(h) == [hash |-> PeerHash(h), prev |-> PeerHash(h - 1), index |-> h,
                   txs |-> << >>, miner |-> PeerMiners[h]]
      count == IF first > Len(base) \/ last < Len(base) THEN 0 ELSE last + 1 - Len(base)
  IN  [i \in 1 .. count |-> block(Len(base) + i - 1)]

\* The blocks appended on top of `base`: none when the headers leave a gap,
\* else those above its tip, each given the local predecessor as its parent.
PeerBlocks(base, first, last) ==
  LET hash(h) == IF h = Len(base) THEN Last(base).hash ELSE PeerHash(h - 1)
      block(h) == [hash |-> PeerHash(h), prev |-> hash(h), index |-> h,
                   txs |-> << >>, miner |-> PeerMiners[h]]
      count == IF first > Len(base) \/ last < Len(base) THEN 0 ELSE last + 1 - Len(base)
  IN  [i \in 1 .. count |-> block(Len(base) + i - 1)]

\* Mutant: the state is not rebuilt after the truncation.
TruncateChainKeepingState(first) == [chain |-> SubSeq(chain, 1, first), ledger |-> ledger]

\* truncateChainTo: drop the tail, rebuild the state, leave the mempool alone.
TruncateChainTo(first) ==
  [chain |-> SubSeq(chain, 1, first), ledger |-> Replay(SubSeq(chain, 1, first))]

ApplyBlocksFromPeer(first, last) ==
  LET kept == IF Diverges(first) THEN TruncateChainTo(first)
              ELSE [chain |-> chain, ledger |-> ledger]
      new == PeerBlocks(kept.chain, first, last)
  IN  /\ Accept(first, last)
      /\ new # << >>
      /\ chain' = kept.chain \o new
      /\ ledger' = FoldLeft(ReplayBlock, kept.ledger, new)
      /\ raced' = (raced \/ job # Idle)
      /\ UNCHANGED <<mempool, job, disk, mined>>

\* Saver thread, under bc.mutex: write a temporary file and rename it.
SaveToDisc ==
  /\ disk' = chain
  /\ UNCHANGED <<chain, mempool, ledger, job, mined, raced>>

\* Mutant: the saved blocks are not read back.
RestartFromGenesis ==
  /\ chain' = <<Genesis>>
  /\ ledger' = EmptyLedger
  /\ mempool' = << >>
  /\ job' = Idle
  /\ UNCHANGED <<disk, mined, raced>>

\* The process ends at any point and comes back: restoreInto reads the saved
\* chain, recalculateFromHeight(0) rebuilds the rest, the mempool is gone.
Restart ==
  /\ chain' = disk
  /\ ledger' = Replay(disk)
  /\ mempool' = << >>
  /\ job' = Idle
  /\ UNCHANGED <<disk, mined, raced>>

Next ==
  \/ \E t \in Txs : AddTransaction(t)
  \/ \E m \in Miners : StartMining(m)
  \/ ApplyNext
  \/ PayMiner
  \/ CommitBlock
  \/ \E first, last \in DOMAIN PeerMiners : ApplyBlocksFromPeer(first, last)
  \/ SaveToDisc
  \/ Restart

Spec == Init /\ [][Next]_vars
-----------------------------------------------------------------------------
Block == [hash : Hashes, prev : Hashes \cup {<<"none", 0>>}, index : Nat,
          txs : Seq(Txs), miner : Addrs \cup {"none"}]

\* The types of the variables.  Outpoints name a transaction or a block; the
\* index lists only outpoints of its own address.
TypeOK ==
  /\ chain \in Seq(Block) /\ chain # << >>
  /\ disk \in Seq(Block) /\ disk # << >>
  /\ mempool \in Seq(Txs)
  /\ ledger.balances \in [Addrs -> Nat] /\ ledger.nonces \in [Addrs -> Nat]
  /\ \A a \in Addrs : \A i \in DOMAIN ledger.utxo.index[a] :
       LET o == ledger.utxo.index[a][i]
       IN  o \in DOMAIN ledger.utxo.coins => ledger.utxo.coins[o].address = a
  /\ job.phase \in {"idle", "txs", "paid"}
  /\ mined \in 0 .. MaxMined /\ raced \in BOOLEAN

\* All transactions of the chain, in the order they were confirmed.
ChainTxs == FoldLeft(LAMBDA all, b : all \o b.txs, << >>, chain)

\* The accounts are a function of the chain: whatever order of mining, peer
\* blocks, saves and restarts led here, a node that replays the chain from
\* genesis gets the same coins in the same order, the same balances and the
\* same nonces.  (Only a race of a peer's blocks with a mining job is exempt.)
LedgerIsReplay == ~raced /\ job = Idle => ledger = Replay(chain)

\* The transactions of one sender are confirmed with nonces 0, 1, 2, ...:
\* none is skipped and none is confirmed twice, across restarts that lose
\* blocks and forget the mempool.
NonceOrder ==
  \A k \in DOMAIN ChainTxs :
    LET t == ChainTxs[k]
    IN  Nonce[t] = Cardinality({j \in 1 .. k - 1 : From[ChainTxs[j]] = From[t]})

\* The queue of one sender continues its confirmed nonces without a gap, so
\* that a block built from it now would be in nonce order.
MempoolGapless ==
  job = Idle =>
    \A i \in DOMAIN mempool :
      LET a == From[mempool[i]]
      IN  Nonce[mempool[i]] = ledger.nonces[a] + QueuedUpTo(i - 1, a)

\* "The sum of all UTXOs for an address = account balance" (utxo.zig).
MirrorsAgree ==
  \A a \in Addrs : ledger.balances[a] = GetBalance(ledger.utxo, a)

\* ... as long as no selection failed and no peer block raced.
MirrorsAgreeUnlessShort == ~ledger.short /\ ~raced => MirrorsAgree

\* What the addresses own is what the blocks issued less the burned half of
\* the fees: no transfer, restart or truncation for a peer's chain creates or
\* loses money, and no debit is ever dropped.  The exceptions are a selection
\* that failed and a peer's blocks that raced with a job.
Minted(b) == Reward + MinerShare(Fees(b.txs)) - Fees(b.txs)
SupplyConserved ==
  ~ledger.short /\ ~raced /\ job = Idle =>
    SumFunction(ledger.balances)
      = FoldLeft(LAMBDA sum, b : sum + Minted(b), 0, Tail(chain))

\* No transaction is confirmed twice on one chain, race or no race.
NoReplay == ~raced => \A i, j \in DOMAIN ChainTxs : ChainTxs[i] = ChainTxs[j] => i = j

\* Every block names the hash of the block before it.
Linked == \A i \in 2 .. Len(chain) : chain[i].prev = chain[i - 1].hash
LinkedUnlessRaced == ~raced => Linked

\* Without a restart the chain only grows, and blocks are replaced only by
\* more blocks than were there.
ReplacedByLonger ==
  [][IsPrefix(chain, chain') \/ Len(chain') > Len(chain) \/ chain' = disk]_vars

\* With no peer, what was saved stays at the bottom of every later chain: a
\* restart loses at most what was mined since the last save.
SavedBlocksSurvive == [][IsPrefix(disk, chain') /\ IsPrefix(disk, disk')]_vars

\* A queued transaction leaves the mempool for a block or in a restart, or it
\* came after the block that is being appended had copied the queue, even when
\* a peer's blocks moved the tip meanwhile.
QueuedUnlessLate ==
  [][ \A i \in DOMAIN mempool :
        \/ Contains(mempool', mempool[i])
        \/ \E k \in DOMAIN chain' : Contains(chain'[k].txs, mempool[i])
        \/ job.phase = "paid" /\ ~Contains(job.txs, mempool[i])
        \/ Restart ]_vars
=============================================================================
