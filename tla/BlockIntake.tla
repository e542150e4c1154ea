----------------------------- MODULE BlockIntake -----------------------------
(***************************************************************************)
(* Block intake of one node: the chain, the orphan pool and the part of    *)
(* the mempool that block intake touches (core/blockchain/reorg.zig and    *)
(* core/blockchain/mempool_helpers.zig).                                   *)
(*                                                                         *)
(* A block stands for its hash.  Parent is previous_hash, Index the height *)
(* its header claims, Stamp its timestamp, Zeros the leading zeros of the  *)
(* hash, BlockTxs its transactions.  The checks that need nothing but the  *)
(* block (merkle root, reward, transactions, cap of one bridge lock) are   *)
(* folded into two constant sets: Sound for validateBlock and ReorgSound   *)
(* for the shorter list in reorg, which leaves the bridge cap out.  The    *)
(* others are spelled out, for their verdict changes while the node runs:  *)
(* the clock, the difficulty, the daily bridge limit, the block at the     *)
(* claimed height.                                                         *)
(*                                                                         *)
(* Every operation holds bc.mutex from its first read to its last write.   *)
(* The one loop among them, processOrphansInternal, is run one iteration   *)
(* per step while `lock` says "scan" and every other operation waits; the  *)
(* clock does not.  applyBlock can fail (it allocates); an allocation that *)
(* fails inside reorg is left out.                                         *)
(***************************************************************************)
EXTENDS Integers, Sequences, FiniteSets

CONSTANTS
  Blocks,         \* every block that exists in the network
  Genesis,        \* the block both nodes were started from
  Parent,         \* previous_hash: Blocks -> Blocks \cup {NoBlock}
  NoBlock,        \* the previous_hash of a genesis block
  Index,          \* the height a block claims; any block may claim 0
  Stamp,          \* block.timestamp
  Zeros,          \* leading zeros of a block's hash
  BridgeLocks,    \* blocks that lock coins in the bridge, one unit each
  Sound,          \* blocks whose own bytes pass validateBlock
  ReorgSound,     \* blocks whose own bytes pass the checks in reorg
  Txs,            \* transaction hashes
  BlockTxs,       \* Blocks -> SUBSET Txs
  PeerChains,     \* the chains a peer may hand to reorg
  MaxOrphanPool,  \* MAX_ORPHAN_POOL (64 in the code)
  MaxReorgDepth,  \* MAX_REORG_DEPTH (100 in the code)
  MaxFuture,      \* MAX_FUTURE_SECONDS (7200 in the code)
  MaxClock,       \* bound of the model: the clock stops there
  RetargetInterval,  \* RETARGET_INTERVAL (2016 in the code)
  Difficulties,   \* the values retargetDifficulty may return
  BlockWork,      \* blockWork: Difficulties -> Nat
  LockWindow,     \* BRIDGE_DAILY_WINDOW_BLOCKS
  LockCap         \* BRIDGE_MAX_DAILY_SAT, in units

ASSUME BlockAssumption ==
  /\ Genesis \in Blocks
  /\ NoBlock \notin Blocks
  /\ Parent \in [Blocks -> Blocks \cup {NoBlock}]
  /\ Index \in [Blocks -> Nat]
  /\ Stamp \in [Blocks -> Nat]
  /\ Zeros \in [Blocks -> Nat]
  /\ BridgeLocks \subseteq Blocks
  /\ Sound \subseteq ReorgSound
  /\ ReorgSound \subseteq Blocks
  /\ BlockTxs \in [Blocks -> SUBSET Txs]
  /\ PeerChains \subseteq Seq(Blocks)

ASSUME LimitAssumption ==
  /\ MaxOrphanPool \in Nat
  /\ MaxReorgDepth \in Nat
  /\ MaxFuture \in Nat
  /\ MaxClock \in Nat
  /\ RetargetInterval \in Nat \ {0}
  /\ Difficulties \subseteq Nat
  /\ Difficulties # {}
  /\ BlockWork \in [Difficulties -> Nat]
  /\ LockWindow \in Nat
  /\ LockCap \in Nat

VARIABLES
  chain,    \* bc.chain, chain[1] is the genesis block
  orphans,  \* bc.orphan_blocks
  mempool,  \* bc.mempool as a bag: how often each transaction is queued
  work,     \* bc.cumulative_work
  difficulty, \* bc.difficulty
  now,      \* std.time.timestamp()
  lock,     \* who holds bc.mutex: "free", or "scan" inside the orphan loop
  scanTip,  \* tip_hash, read once per pass of the orphan loop
  scanAt,   \* i, the loop index
  progress, \* progress, the flag that asks for another pass
  passClock,  \* history: the clock when the last pass began
  failed    \* history: orphans of the last pass whose applyBlock failed

ledgerVars == <<chain, work, difficulty>>
scanVars == <<lock, scanTip, scanAt, progress, passClock, failed>>
vars == <<chain, orphans, mempool, work, difficulty, now, lock, scanTip, scanAt, progress,
          passClock, failed>>

Tip == chain[Len(chain)]
InChain(b) == \E i \in DOMAIN chain : chain[i] = b

\* The keys of tx_block_height, which applyBlock fills block by block and
\* recalculateFromHeight rebuilds from the whole chain.
Confirmed(c) == UNION {BlockTxs[c[i]] : i \in 1 .. Len(c)}

\* validateBridgeLimits: the locks of the last LockWindow blocks and its own.
WithinBridgeLimits(b) ==
  b \in BridgeLocks =>
    Cardinality({i \in DOMAIN chain : i > Len(chain) - LockWindow /\ chain[i] \in BridgeLocks})
      + 1 <= LockCap

\* validateBlock at clock t.  A block that claims index 0 passes unseen.  The
\* checks against the previous block look at the height the block claims, and
\* are skipped when the chain is too short to hold a parent there.
ValidAt(b, t) ==
  \/ Index[b] = 0
  \/ /\ b \in Sound
     /\ Stamp[b] <= t + MaxFuture
     /\ Index[b] \in 1 .. Len(chain) =>
          Stamp[b] >= Stamp[chain[Index[b]]] /\ Parent[b] = chain[Index[b]]
     /\ Zeros[b] >= difficulty
     /\ WithinBridgeLimits(b)

ValidateBlock(b) == ValidAt(b, now)

Init ==
  /\ chain = <<Genesis>>
  /\ orphans = << >>
  /\ mempool = [t \in Txs |-> 0]
  /\ work = 0
  /\ difficulty \in Difficulties
  /\ now = 0
  /\ lock = "free"
  /\ scanTip = Genesis
  /\ scanAt = 1
  /\ progress = FALSE
  /\ passClock = 0
  /\ failed = {}

\* Time passes, whoever holds the mutex.
Tick ==
  /\ now < MaxClock
  /\ now' = now + 1
  /\ UNCHANGED <<ledgerVars, orphans, mempool, scanVars>>

(***************************************************************************)
(* applyBlock, as far as intake sees it: append, add the block's work,     *)
(* retarget.  It leaves the mempool alone.  When it fails it has appended  *)
(* nothing (the balances and nonces it has touched are not kept here).   *)
(***************************************************************************)
ApplyBlock(b) ==
  /\ chain' = Append(chain, b)
  /\ work' = work + BlockWork[difficulty]
  /\ IF Len(chain) % RetargetInterval = 0
       THEN difficulty' \in Difficulties
       ELSE difficulty' = difficulty

\* Entry of processOrphansInternal, and of each further pass of its loop.
StartPass(tip) ==
  /\ lock' = "scan"
  /\ scanTip' = tip
  /\ scanAt' = 1
  /\ progress' = FALSE
  /\ passClock' = now
  /\ failed' = {}

\* The nonce check of validateTransaction for a sender's first transaction:
\* neither confirmed nor pending.
AddTransaction(t) ==
  /\ lock = "free"
  /\ t \notin Confirmed(chain)
  /\ mempool[t] = 0
  /\ mempool' = [mempool EXCEPT ![t] = 1]
  /\ UNCHANGED <<ledgerVars, orphans, now, scanVars>>

\* addExternalBlock, case 1: the block extends the tip.
ExtendTip(b) ==
  /\ lock = "free"
  /\ Parent[b] = Tip
  /\ ValidateBlock(b)
  /\ ApplyBlock(b)
  /\ StartPass(b)
  /\ UNCHANGED <<orphans, mempool, now>>

\* addExternalBlock, case 3: the parent is unknown.  Case 2 (a parent below
\* the tip) asks for parent_idx + 2 > chain.len, which no such parent meets,
\* so a fork block is dropped and changes nothing.
StoreOrphan(b) ==
  /\ lock = "free"
  /\ ~InChain(Parent[b])
  /\ Len(orphans) < MaxOrphanPool
  /\ orphans' = Append(orphans, b)
  /\ UNCHANGED <<ledgerVars, mempool, now, scanVars>>

\* The ways addExternalBlock leaves everything as it was: a child of the tip
\* that fails validation or whose applyBlock fails, a fork block, an orphan
\* when the pool is full.
DropBlock(b) ==
  /\ lock = "free"
  /\ \/ Parent[b] = Tip
     \/ Parent[b] # Tip /\ InChain(Parent[b])
     \/ ~InChain(Parent[b]) /\ Len(orphans) >= MaxOrphanPool
  /\ UNCHANGED vars

ProcessOrphans ==
  /\ lock = "free"
  /\ StartPass(Tip)
  /\ UNCHANGED <<ledgerVars, orphans, mempool, now>>

\* swapRemove(i): the last element takes the place of the removed one.
SwapRemove(s, i) == SubSeq([s EXCEPT ![i] = s[Len(s)]], 1, Len(s) - 1)

Connects(b) == Parent[b] = scanTip /\ ValidateBlock(b)

\* Mutant: the connected orphan does not ask for another pass.
ConnectOrphanOnce ==
  /\ lock = "scan"
  /\ scanAt <= Len(orphans)
  /\ Connects(orphans[scanAt])
  /\ ApplyBlock(orphans[scanAt])
  /\ orphans' = SwapRemove(orphans, scanAt)
  /\ UNCHANGED <<mempool, now, scanVars>>

ConnectOrphan ==
  /\ lock = "scan"
  /\ scanAt <= Len(orphans)
  /\ Connects(orphans[scanAt])
  /\ ApplyBlock(orphans[scanAt])
  /\ orphans' = SwapRemove(orphans, scanAt)
  /\ progress' = TRUE
  /\ UNCHANGED <<mempool, now, lock, scanTip, scanAt, passClock, failed>>

\* applyBlock fails: the orphan stays in the pool and the loop goes on.
FailOrphan ==
  /\ lock = "scan"
  /\ scanAt <= Len(orphans)
  /\ Connects(orphans[scanAt])
  /\ failed' = failed \cup {orphans[scanAt]}
  /\ scanAt' = scanAt + 1
  /\ UNCHANGED <<ledgerVars, orphans, mempool, now, lock, scanTip, progress, passClock>>

\* Mutant: the loop index is not advanced past an orphan that does not connect.
SkipOrphanStuck ==
  /\ lock = "scan"
  /\ scanAt <= Len(orphans)
  /\ ~Connects(orphans[scanAt])
  /\ UNCHANGED vars

SkipOrphan ==
  /\ lock = "scan"
  /\ scanAt <= Len(orphans)
  /\ ~Connects(orphans[scanAt])
  /\ scanAt' = scanAt + 1
  /\ UNCHANGED <<ledgerVars, orphans, mempool, now, lock, scanTip, progress, passClock, failed>>

NextPass ==
  /\ lock = "scan"
  /\ scanAt > Len(orphans)
  /\ progress
  /\ StartPass(Tip)
  /\ UNCHANGED <<ledgerVars, orphans, mempool, now>>

EndScan ==
  /\ lock = "scan"
  /\ scanAt > Len(orphans)
  /\ ~progress
  /\ lock' = "free"
  /\ UNCHANGED <<ledgerVars, orphans, mempool, now, scanTip, scanAt, progress, passClock, failed>>

(***************************************************************************)
(* reorg(new_chain): accept a peer's whole chain.                          *)
(***************************************************************************)
MinLen(nc) == IF Len(nc) < Len(chain) THEN Len(nc) ELSE Len(chain)

\* findForkPointInternal: the highest position where both chains agree.
IsForkPoint(nc, f) ==
  /\ f \in 1 .. MinLen(nc)
  /\ nc[f] = chain[f]
  /\ \A i \in f + 1 .. MinLen(nc) : nc[i] # chain[i]

HardEnough(b) == Index[b] > 0 => Zeros[b] >= difficulty

\* Mutant: content is checked, linkage is not.
AcceptableUnlinked(nc, f) ==
  \A i \in f + 1 .. Len(nc) : nc[i] \in ReorgSound /\ HardEnough(nc[i])

AcceptableFrom(nc, f) ==
  \A i \in f + 1 .. Len(nc) :
    nc[i] \in ReorgSound /\ Parent[nc[i]] = nc[i - 1] /\ HardEnough(nc[i])

Splice(nc, f) == SubSeq(chain, 1, f) \o SubSeq(nc, f + 1, Len(nc))

\* Mutants: the depth limit off by one, and a collection of transactions that
\* starts one block too high.
DepthAllowedByOneMore(f) == Len(chain) - f <= MaxReorgDepth + 1
OrphanedAboveFirst(t, f) == Cardinality({i \in f + 2 .. Len(chain) : t \in BlockTxs[chain[i]]})

DepthAllowed(f) == Len(chain) - f <= MaxReorgDepth

\* How often t occurs in the blocks above position f, which
\* collectOrphanedTxs appends to the mempool.
Orphaned(t, f) == Cardinality({i \in f + 1 .. Len(chain) : t \in BlockTxs[chain[i]]})

\* The mempool after collectOrphanedTxs, recalculateFromHeight and
\* removeMempoolDuplicates.
MempoolAfter(c, f) ==
  [t \in Txs |-> IF t \in Confirmed(c) THEN 0 ELSE mempool[t] + Orphaned(t, f)]

Reorg(nc, f) ==
  /\ lock = "free"
  /\ Len(nc) > Len(chain)
  /\ IsForkPoint(nc, f)
  /\ DepthAllowed(f)
  /\ AcceptableFrom(nc, f)
  /\ chain' = Splice(nc, f)
  /\ mempool' = MempoolAfter(Splice(nc, f), f)
  /\ StartPass(nc[Len(nc)])
  /\ UNCHANGED <<orphans, work, difficulty, now>>

AddExternalBlock(b) == ExtendTip(b) \/ StoreOrphan(b) \/ DropBlock(b)
Scan == ConnectOrphan \/ FailOrphan \/ SkipOrphan \/ NextPass \/ EndScan

Next ==
  \/ \E t \in Txs : AddTransaction(t)
  \/ \E b \in Blocks \ {Genesis} : AddExternalBlock(b)
  \/ ProcessOrphans
  \/ Scan
  \/ Tick
  \/ \E nc \in PeerChains : \E f \in DOMAIN nc : Reorg(nc, f)

\* The thread that holds bc.mutex runs its loop to the end.
Fairness == WF_vars(Scan)

Spec == Init /\ [][Next]_vars
FairSpec == Spec /\ Fairness
-----------------------------------------------------------------------------
TypeOK ==
  /\ chain \in Seq(Blocks)
  /\ Len(chain) > 0
  /\ orphans \in Seq(Blocks)
  /\ mempool \in [Txs -> Nat]
  /\ work \in Nat
  /\ difficulty \in Difficulties
  /\ now \in Nat
  /\ lock \in {"free", "scan"}
  /\ scanTip \in Blocks
  /\ scanAt \in Nat \ {0}
  /\ progress \in BOOLEAN
  /\ passClock \in Nat
  /\ failed \subseteq Blocks

(***************************************************************************)
(* Whatever mix of single blocks, orphans and whole-chain reorgs arrives,  *)
(* the chain starts at the node's own genesis and every later block has    *)
(* its parent at an earlier position.  The content of each has been        *)
(* checked, except of those that claim index 0: validateBlock returns true *)
(* for them before any check.                                              *)
(***************************************************************************)
AncestorsFirst ==
  /\ chain[1] = Genesis
  /\ \A i \in 2 .. Len(chain) :
       /\ Index[chain[i]] = 0 \/ chain[i] \in ReorgSound
       /\ \E j \in 1 .. i - 1 : chain[j] = Parent[chain[i]]

OrphansBounded == Len(orphans) <= MaxOrphanPool

\* Once the mutex is free, the cascade of processOrphansInternal is complete: a
\* pooled child of the tip is one whose applyBlock failed in the last pass, or
\* one that was not valid yet when that pass began.  (It may have become valid
\* since: the clock moves on and nothing looks at the pool again until the next
\* block.)
NoReadyOrphan ==
  lock = "free" =>
    \A i \in DOMAIN orphans :
      Parent[orphans[i]] = Tip => orphans[i] \in failed \/ ~ValidAt(orphans[i], passClock)

\* reorg "returns orphaned TXs to mempool for re-mining": a transaction the
\* node had queued or confirmed is still one or the other after every step.
Known(t) == mempool[t] > 0 \/ t \in Confirmed(chain)
NoTxLost == [][\A t \in Txs : Known(t) => Known(t)']_vars

\* A step rewrites at most the last MaxReorgDepth blocks, and only when the
\* chain gets strictly longer by it.
DeepHistoryStable ==
  [][/\ \A i \in 1 .. Len(chain) - MaxReorgDepth : i <= Len(chain') /\ chain'[i] = chain[i]
     /\ (\E i \in DOMAIN chain : i > Len(chain') \/ chain'[i] # chain[i])
          => Len(chain') > Len(chain)]_vars

\* The orphan loop always ends and gives the mutex back.
LockReleased == lock = "scan" ~> lock = "free"
=============================================================================
