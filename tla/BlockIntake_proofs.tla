-------------------------- MODULE BlockIntake_proofs --------------------------
(***************************************************************************)
(* Safety of block intake for every block tree, every peer and every value *)
(* of the two limits.  None of the properties below is inductive alone;    *)
(* ScanInv adds what the orphan loop knows between two iterations.         *)
(***************************************************************************)
EXTENDS BlockIntake, FiniteSetTheorems, TLAPS

\* The pass has looked at b, or b is no child of the tip it started from.
Refused(b) == Parent[b] = scanTip => b \in failed \/ ~ValidAt(b, passClock)

ScanInv ==
  lock = "scan" =>
    /\ InChain(scanTip)
    /\ passClock <= now
    /\ ~progress => /\ scanTip = Tip
                    /\ \A i \in DOMAIN orphans : i < scanAt => Refused(orphans[i])

IInv == TypeOK /\ AncestorsFirst /\ OrphansBounded /\ NoReadyOrphan /\ ScanInv

\* Appending one block keeps every earlier position.
LEMMA AppendFacts ==
  ASSUME NEW S, NEW s \in Seq(S), NEW e \in S
  PROVE  /\ Append(s, e) \in Seq(S)
         /\ Len(Append(s, e)) = Len(s) + 1
         /\ \A i \in 1 .. Len(s) : Append(s, e)[i] = s[i]
         /\ Append(s, e)[Len(s) + 1] = e
  OBVIOUS

\* swapRemove keeps a sequence over the same set, one element shorter.
LEMMA SwapRemoveFacts ==
  ASSUME NEW S, NEW s \in Seq(S), NEW i \in 1 .. Len(s)
  PROVE  /\ SwapRemove(s, i) \in Seq(S)
         /\ Len(SwapRemove(s, i)) = Len(s) - 1
<1>1. [s EXCEPT ![i] = s[Len(s)]] \in Seq(S) /\ Len([s EXCEPT ![i] = s[Len(s)]]) = Len(s)
  OBVIOUS
<1>2. QED BY <1>1 DEF SwapRemove

\* What a reorg leaves on the chain: the local blocks up to the fork point,
\* then the peer's.
LEMMA SpliceFacts ==
  ASSUME chain \in Seq(Blocks), NEW nc \in Seq(Blocks), NEW f \in Nat,
         1 <= f, f <= Len(chain), f <= Len(nc)
  PROVE  /\ Splice(nc, f) \in Seq(Blocks)
         /\ Len(Splice(nc, f)) = Len(nc)
         /\ \A i \in 1 .. f : Splice(nc, f)[i] = chain[i]
         /\ \A i \in f + 1 .. Len(nc) : Splice(nc, f)[i] = nc[i]
<1>1. SubSeq(chain, 1, f) \in Seq(Blocks) /\ Len(SubSeq(chain, 1, f)) = f
      /\ \A i \in 1 .. f : SubSeq(chain, 1, f)[i] = chain[i]
  OBVIOUS
<1>2. SubSeq(nc, f + 1, Len(nc)) \in Seq(Blocks) /\ Len(SubSeq(nc, f + 1, Len(nc))) = Len(nc) - f
      /\ \A i \in 1 .. Len(nc) - f : SubSeq(nc, f + 1, Len(nc))[i] = nc[f + i]
  OBVIOUS
<1>3. QED BY <1>1, <1>2 DEF Splice

\* A fork point lies in both chains, and the two agree there.
LEMMA ForkPointFacts ==
  ASSUME TypeOK, NEW nc \in PeerChains, NEW f, IsForkPoint(nc, f)
  PROVE  /\ nc \in Seq(Blocks)
         /\ f \in Nat /\ 1 <= f /\ f <= Len(chain) /\ f <= Len(nc)
         /\ nc[f] = chain[f]
<1>1. chain \in Seq(Blocks) /\ nc \in Seq(Blocks)
  BY BlockAssumption DEF TypeOK
<1>2. QED BY <1>1 DEF IsForkPoint, MinLen

\* TypeOK put together again from its conjuncts.
NonBooleanTypes ==
  /\ chain \in Seq(Blocks)
  /\ Len(chain) > 0
  /\ orphans \in Seq(Blocks)
  /\ mempool \in [Txs -> Nat]
  /\ work \in Nat
  /\ difficulty \in Difficulties
  /\ now \in Nat
  /\ lock \in {"free", "scan"}
  /\ scanTip \in Blocks
  /\ scanAt \in Nat \ {0}
  /\ passClock \in Nat
  /\ failed \subseteq Blocks

\* The verdict of validateBlock changes with the chain, the difficulty and the
\* clock, and time only makes blocks acceptable.
LEMMA ValidKept ==
  ASSUME chain' = chain, difficulty' = difficulty, NEW b, NEW t
  PROVE  ValidAt(b, t)' <=> ValidAt(b, t)
  BY DEF ValidAt, WithinBridgeLimits

LEMMA ValidLater ==
  ASSUME NEW b \in Blocks, NEW s \in Nat, NEW t \in Nat, s <= t, ValidAt(b, s)
  PROVE  ValidAt(b, t)
<1>1. Stamp[b] \in Nat /\ MaxFuture \in Nat
  BY BlockAssumption, LimitAssumption
<1>2. Stamp[b] <= s + MaxFuture => Stamp[b] <= t + MaxFuture
  BY <1>1
<1>3. QED BY <1>2 DEF ValidAt

\* What holds between operations survives a step that leaves chain, difficulty,
\* pool and the last pass as they are.
LEMMA ScanKept ==
  ASSUME TypeOK, NoReadyOrphan, ScanInv, now' \in Nat, now <= now',
         UNCHANGED <<chain, difficulty, orphans>>, UNCHANGED scanVars
  PROVE  NoReadyOrphan' /\ ScanInv'
<1>1. \A b : ValidAt(b, passClock)' <=> ValidAt(b, passClock)
  <2>1. PICK t : t = passClock
    OBVIOUS
  <2>2. passClock' = t
    BY <2>1 DEF scanVars
  <2>3. ASSUME NEW b PROVE ValidAt(b, t)' <=> ValidAt(b, t)
    BY ValidKept
  <2>4. QED BY <2>1, <2>2, <2>3 DEF ValidAt, WithinBridgeLimits
<1>2. NoReadyOrphan'
  BY <1>1 DEF NoReadyOrphan, scanVars, Tip
<1>3. ScanInv'
  <2> SUFFICES ASSUME lock' = "scan" PROVE ScanInv'
    BY DEF ScanInv
  <2>1. passClock' <= now'
    BY DEF ScanInv, scanVars, TypeOK
  <2>2. QED BY <1>1, <2>1 DEF ScanInv, scanVars, InChain, Tip, Refused
<1>4. QED BY <1>2, <1>3

LEMMA TypeSplit == TypeOK <=> NonBooleanTypes /\ progress \in BOOLEAN
  BY Zenon DEF TypeOK, NonBooleanTypes

LEMMA TypeSplitNext == TypeOK' <=> NonBooleanTypes' /\ (progress \in BOOLEAN)'
  BY Zenon DEF TypeOK, NonBooleanTypes

\* The content of b has been checked, or b claims index 0.
Checked(b) == Index[b] = 0 \/ b \in ReorgSound

LEMMA ValidChecked ==
  ASSUME NEW b, NEW t, ValidAt(b, t)
  PROVE  Checked(b)
  BY BlockAssumption DEF ValidAt, Checked

LEMMA InitInv == Init => IInv
<1> SUFFICES ASSUME Init PROVE IInv
  OBVIOUS
<1>1. chain \in Seq(Blocks) /\ Len(chain) = 1 /\ orphans = << >>
  BY BlockAssumption DEF Init
<1>2. TypeOK
  <2>1. NonBooleanTypes
    BY <1>1, BlockAssumption DEF Init, NonBooleanTypes
  <2>2. progress \in BOOLEAN
    BY DEF Init
  <2>3. QED BY <2>1, <2>2, TypeSplit
<1>3. AncestorsFirst /\ OrphansBounded /\ NoReadyOrphan /\ ScanInv
  BY <1>1, LimitAssumption DEF Init, AncestorsFirst, OrphansBounded, NoReadyOrphan, ScanInv
<1>4. QED BY <1>2, <1>3 DEF IInv

\* Appending a block whose parent is already on the chain keeps ancestors first.
LEMMA AppendAncestors ==
  ASSUME TypeOK, AncestorsFirst, NEW b \in Blocks, InChain(Parent[b]), Checked(b),
         chain' = Append(chain, b)
  PROVE  AncestorsFirst'
<1>1. /\ Len(chain') = Len(chain) + 1
      /\ \A i \in 1 .. Len(chain) : chain'[i] = chain[i]
      /\ chain'[Len(chain) + 1] = b
  BY AppendFacts DEF TypeOK
<1>2. chain'[1] = Genesis
  BY <1>1 DEF AncestorsFirst, TypeOK
<1>3. ASSUME NEW i \in 2 .. Len(chain')
      PROVE  Checked(chain'[i]) /\ \E j \in 1 .. i - 1 : chain'[j] = Parent[chain'[i]]
  <2>1. CASE i = Len(chain) + 1
    <3>1. PICK j \in 1 .. Len(chain) : chain[j] = Parent[b]
      BY DEF InChain, TypeOK
    <3>2. Len(chain) \in Nat /\ chain'[j] = Parent[b] /\ chain'[i] = b
      BY <1>1, <2>1, <3>1 DEF TypeOK
    <3>3. j \in 1 .. i - 1
      BY <2>1, <3>1, <3>2
    <3>4. QED BY <3>2, <3>3
  <2>2. CASE i # Len(chain) + 1
    <3>1. i \in 2 .. Len(chain)
      BY <1>1, <2>2 DEF TypeOK
    <3>2. PICK j \in 1 .. i - 1 : chain[j] = Parent[chain[i]]
      BY <3>1 DEF AncestorsFirst
    <3>3. j \in 1 .. Len(chain)
      BY <3>1, <3>2 DEF TypeOK
    <3>4. QED BY <1>1, <3>1, <3>2, <3>3 DEF AncestorsFirst, Checked
  <2>3. QED BY <2>1, <2>2
<1>4. QED BY <1>2, <1>3 DEF AncestorsFirst, Checked

\* What applyBlock adds to the node's totals keeps their types.
LEMMA ApplyBlockTotals ==
  ASSUME TypeOK, NEW b, ApplyBlock(b)
  PROVE  work' \in Nat /\ difficulty' \in Difficulties
  BY LimitAssumption DEF TypeOK, ApplyBlock

LEMMA AddTransactionInv ==
  ASSUME IInv, NEW t \in Txs, AddTransaction(t)
  PROVE  IInv'
<1>1. TypeOK'
  <2>1. NonBooleanTypes'
    BY DEF IInv, AddTransaction, TypeOK, NonBooleanTypes, scanVars, ledgerVars
  <2>2. (progress \in BOOLEAN)'
    BY Zenon DEF IInv, AddTransaction, TypeOK, scanVars
  <2>3. QED BY <2>1, <2>2, TypeSplitNext
<1>2. AncestorsFirst' /\ OrphansBounded'
  BY DEF IInv, AncestorsFirst, OrphansBounded, AddTransaction, ledgerVars
<1>3. NoReadyOrphan' /\ ScanInv'
  BY ScanKept DEF IInv, TypeOK, AddTransaction, ledgerVars
<1>4. QED BY <1>1, <1>2, <1>3 DEF IInv

LEMMA TickInv == IInv /\ Tick => IInv'
<1> SUFFICES ASSUME IInv, Tick PROVE IInv'
  OBVIOUS
<1>1. TypeOK'
  <2>1. NonBooleanTypes'
    BY DEF IInv, Tick, TypeOK, NonBooleanTypes, scanVars, ledgerVars
  <2>2. (progress \in BOOLEAN)'
    BY Zenon DEF IInv, Tick, TypeOK, scanVars
  <2>3. QED BY <2>1, <2>2, TypeSplitNext
<1>2. AncestorsFirst' /\ OrphansBounded'
  BY DEF IInv, AncestorsFirst, OrphansBounded, Tick, ledgerVars
<1>3. NoReadyOrphan' /\ ScanInv'
  BY ScanKept DEF IInv, TypeOK, Tick, ledgerVars
<1>4. QED BY <1>1, <1>2, <1>3 DEF IInv

LEMMA ExtendTipInv ==
  ASSUME IInv, NEW b \in Blocks, ExtendTip(b)
  PROVE  IInv'
<1>1. TypeOK /\ AncestorsFirst /\ OrphansBounded
  BY DEF IInv
<1>2. chain' = Append(chain, b) /\ Checked(b) /\ InChain(Parent[b])
  <2>1. Len(chain) \in DOMAIN chain
    BY <1>1 DEF TypeOK
  <2>2. Checked(b)
    BY ValidChecked DEF ExtendTip, ValidateBlock
  <2>3. QED BY <2>1, <2>2 DEF ExtendTip, ApplyBlock, InChain, Tip
<1>3. AncestorsFirst'
  BY <1>1, <1>2, AppendAncestors
<1>4. /\ chain' \in Seq(Blocks)
      /\ Len(chain') = Len(chain) + 1
      /\ chain'[Len(chain) + 1] = b
  BY <1>1, <1>2, AppendFacts DEF TypeOK
<1>5. TypeOK'
  <2>1. NonBooleanTypes'
    BY <1>1, <1>4, ApplyBlockTotals DEF TypeOK, NonBooleanTypes, ExtendTip, StartPass
  <2>2. (progress \in BOOLEAN)'
    BY DEF ExtendTip, StartPass
  <2>3. QED BY <2>1, <2>2, TypeSplitNext
<1>6. OrphansBounded' /\ NoReadyOrphan'
  BY <1>1 DEF OrphansBounded, NoReadyOrphan, ExtendTip, StartPass
<1>7. ScanInv'
  <2>1. scanTip' = b /\ Tip' = b /\ Len(chain') \in DOMAIN chain' /\ scanAt' = 1
    BY <1>1, <1>4 DEF ExtendTip, StartPass, Tip, TypeOK
  <2>2. InChain(scanTip)'
    BY <2>1 DEF InChain, Tip
  <2>3. \A i \in DOMAIN orphans' : ~(i < scanAt')
    BY <2>1, <1>5 DEF TypeOK
  <2>4. passClock' <= now'
    BY <1>1 DEF ExtendTip, StartPass, TypeOK
  <2>5. QED BY <2>1, <2>2, <2>3, <2>4 DEF ScanInv
<1>8. QED BY <1>3, <1>5, <1>6, <1>7 DEF IInv

LEMMA StoreOrphanInv ==
  ASSUME IInv, NEW b \in Blocks, StoreOrphan(b)
  PROVE  IInv'
<1>1. TypeOK /\ AncestorsFirst /\ OrphansBounded /\ NoReadyOrphan
  BY DEF IInv
<1>2. /\ orphans' \in Seq(Blocks)
      /\ Len(orphans') = Len(orphans) + 1
      /\ \A i \in 1 .. Len(orphans) : orphans'[i] = orphans[i]
      /\ orphans'[Len(orphans) + 1] = b
  BY <1>1, AppendFacts DEF StoreOrphan, TypeOK
<1>3. TypeOK' /\ AncestorsFirst'
  <2>1. NonBooleanTypes'
    BY <1>1, <1>2 DEF TypeOK, NonBooleanTypes, StoreOrphan, scanVars, ledgerVars
  <2>2. (progress \in BOOLEAN)'
    BY <1>1, Zenon DEF StoreOrphan, TypeOK, scanVars
  <2>3. AncestorsFirst'
    BY <1>1 DEF AncestorsFirst, StoreOrphan, ledgerVars
  <2>4. QED BY <2>1, <2>2, <2>3, TypeSplitNext
<1>4. OrphansBounded'
  BY <1>1, <1>2, LimitAssumption DEF TypeOK, StoreOrphan, OrphansBounded
<1>5. NoReadyOrphan'
  <2>1. Parent[b] # Tip
    BY <1>1 DEF StoreOrphan, InChain, Tip, TypeOK
  <2>2. PICK t : t = passClock
    OBVIOUS
  <2>3. chain' = chain /\ difficulty' = difficulty /\ passClock' = t /\ failed' = failed
    BY <2>2 DEF StoreOrphan, ledgerVars, scanVars
  <2>4. lock = "free" /\ lock' = "free" /\ Tip' = Tip
    BY <2>3 DEF StoreOrphan, scanVars, Tip
  <2>5. ASSUME NEW i \in DOMAIN orphans', Parent[orphans'[i]] = Tip
        PROVE  orphans'[i] \in failed \/ ~ValidAt(orphans[i], t)'
    <3>1. i # Len(orphans) + 1
      BY <1>2, <2>1, <2>5
    <3>2. i \in DOMAIN orphans /\ orphans'[i] = orphans[i]
      BY <1>1, <1>2, <3>1 DEF TypeOK
    <3>3. PICK c : c = orphans[i]
      OBVIOUS
    <3>4. c \in failed \/ ~ValidAt(c, t)
      BY <1>1, <2>2, <2>4, <2>5, <3>2, <3>3 DEF NoReadyOrphan
    <3>5. ValidAt(c, t)' <=> ValidAt(c, t)
      BY <2>3, ValidKept
    <3>6. orphans'[i] = c
      BY <3>2, <3>3
    <3>7. ValidAt(c, t)' <=> ValidAt(orphans[i], t)'
      BY <3>6 DEF ValidAt, WithinBridgeLimits
    <3>8. QED BY <3>4, <3>5, <3>6, <3>7
  <2>6. ASSUME NEW i \in DOMAIN orphans', Parent[orphans'[i]] = Tip
        PROVE  orphans'[i] \in failed' \/ ~ValidAt(orphans[i], passClock)'
    BY <2>3, <2>5, <2>6 DEF ValidAt, WithinBridgeLimits
  <2>7. QED BY <2>4, <2>6 DEF NoReadyOrphan
<1>6. ScanInv'
  BY DEF ScanInv, StoreOrphan, scanVars
<1>7. QED BY <1>3, <1>4, <1>5, <1>6 DEF IInv

LEMMA ProcessOrphansInv ==
  ASSUME IInv, StartPass(Tip), UNCHANGED <<ledgerVars, orphans, mempool, now>>
  PROVE  IInv'
<1>1. TypeOK /\ AncestorsFirst /\ OrphansBounded
  BY DEF IInv
<1>2. Len(chain) \in DOMAIN chain /\ Tip \in Blocks
  BY <1>1 DEF TypeOK, Tip
<1>3. TypeOK' /\ AncestorsFirst' /\ OrphansBounded' /\ NoReadyOrphan'
  <2>1. NonBooleanTypes'
    BY <1>1, <1>2 DEF TypeOK, NonBooleanTypes, StartPass, ledgerVars
  <2>2. (progress \in BOOLEAN)'
    BY DEF StartPass
  <2>3. TypeOK'
    BY <2>1, <2>2, TypeSplitNext
  <2>4. QED BY <1>1, <2>3 DEF AncestorsFirst, OrphansBounded, NoReadyOrphan, StartPass, ledgerVars
<1>4. ScanInv'
  <2>1. scanTip' = Tip /\ Tip' = Tip /\ InChain(scanTip)'
    BY <1>2 DEF StartPass, Tip, InChain, ledgerVars
  <2>2. \A i \in DOMAIN orphans' : ~(i < scanAt')
    BY <1>3 DEF TypeOK, StartPass
  <2>3. passClock' <= now'
    BY <1>1 DEF StartPass, TypeOK
  <2>4. QED BY <2>1, <2>2, <2>3 DEF ScanInv
<1>5. QED BY <1>3, <1>4 DEF IInv

LEMMA ConnectOrphanInv ==
  ASSUME IInv, ConnectOrphan
  PROVE  IInv'
<1> DEFINE b == orphans[scanAt]
<1>1. TypeOK /\ AncestorsFirst /\ OrphansBounded /\ ScanInv
  BY DEF IInv
<1>2. b \in Blocks /\ scanAt \in 1 .. Len(orphans)
  BY <1>1 DEF ConnectOrphan, TypeOK
<1>3. chain' = Append(chain, b) /\ Checked(b) /\ InChain(Parent[b])
  <2>1. ValidAt(b, now)
    BY DEF ConnectOrphan, Connects, ValidateBlock
  <2>2. QED BY <1>1, <2>1, ValidChecked DEF ConnectOrphan, ApplyBlock, Connects, ScanInv
<1>4. AncestorsFirst'
  BY <1>1, <1>2, <1>3, AppendAncestors
<1>5. /\ chain' \in Seq(Blocks)
      /\ Len(chain') = Len(chain) + 1
      /\ \A i \in 1 .. Len(chain) : chain'[i] = chain[i]
  BY <1>1, <1>2, <1>3, AppendFacts DEF TypeOK
<1>6. orphans' \in Seq(Blocks) /\ Len(orphans') = Len(orphans) - 1
  BY <1>1, <1>2, SwapRemoveFacts DEF ConnectOrphan, TypeOK
<1>7. TypeOK' /\ OrphansBounded' /\ NoReadyOrphan'
  <2>1. NonBooleanTypes'
    BY <1>1, <1>5, <1>6, ApplyBlockTotals DEF TypeOK, NonBooleanTypes, ConnectOrphan
  <2>2. (progress \in BOOLEAN)'
    BY DEF ConnectOrphan
  <2>3. TypeOK'
    BY <2>1, <2>2, TypeSplitNext
  <2>4. OrphansBounded'
    BY <1>1, <1>6, LimitAssumption DEF TypeOK, OrphansBounded
  <2>5. NoReadyOrphan'
    BY DEF ConnectOrphan, NoReadyOrphan
  <2>6. QED BY <2>3, <2>4, <2>5
<1>8. ScanInv'
  <2>1. PICK i \in 1 .. Len(chain) : chain[i] = scanTip
    BY <1>1 DEF ScanInv, ConnectOrphan, InChain, TypeOK
  <2>2. i \in DOMAIN chain' /\ chain'[i] = scanTip
    BY <1>1, <1>5, <2>1 DEF TypeOK
  <2>3. InChain(scanTip)'
    BY <2>2 DEF InChain, ConnectOrphan
  <2>4. progress'
    BY DEF ConnectOrphan
  <2>5. passClock' <= now'
    BY <1>1 DEF ConnectOrphan, ScanInv
  <2>6. QED BY <2>3, <2>4, <2>5 DEF ScanInv
<1>9. QED BY <1>4, <1>7, <1>8 DEF IInv

\* A look at one orphan that leaves it in the pool.
LEMMA LookedAt ==
  ASSUME IInv, lock = "scan", scanAt <= Len(orphans), scanAt' = scanAt + 1,
         failed' \subseteq Blocks, failed \subseteq failed',
         Parent[orphans[scanAt]] = scanTip =>
           orphans[scanAt] \in failed' \/ ~ValidAt(orphans[scanAt], now),
         UNCHANGED <<ledgerVars, orphans, mempool, now, lock, scanTip, progress, passClock>>
  PROVE  IInv'
<1>1. TypeOK /\ AncestorsFirst /\ OrphansBounded /\ ScanInv
  BY DEF IInv
<1>2. /\ chain' = chain /\ difficulty' = difficulty /\ work' = work
      /\ orphans' = orphans /\ mempool' = mempool /\ now' = now /\ lock' = lock
      /\ scanTip' = scanTip /\ progress' = progress /\ passClock' = passClock
  BY DEF ledgerVars
<1>3. TypeOK'
  <2>1. NonBooleanTypes'
    BY <1>1, <1>2 DEF TypeOK, NonBooleanTypes
  <2>2. (progress \in BOOLEAN)'
    BY <1>1, <1>2, Zenon DEF TypeOK
  <2>3. QED BY <2>1, <2>2, TypeSplitNext
<1>4. AncestorsFirst' /\ OrphansBounded' /\ NoReadyOrphan'
  BY <1>1, <1>2 DEF AncestorsFirst, OrphansBounded, NoReadyOrphan
<1>5. ScanInv'
  <2>1. passClock <= now /\ InChain(scanTip)
    BY <1>1 DEF ScanInv
  <2>2. ASSUME ~progress, NEW i \in DOMAIN orphans, i < scanAt + 1
        PROVE  Parent[orphans[i]] = scanTip =>
                 orphans[i] \in failed' \/ ~ValidAt(orphans[i], passClock)
    <3>1. CASE i < scanAt
      BY <1>1, <2>2, <3>1 DEF ScanInv, Refused
    <3>2. CASE i = scanAt
      <4>1. orphans[i] \in Blocks /\ now \in Nat /\ passClock \in Nat
        BY <1>1 DEF TypeOK
      <4>2. QED BY <2>1, <3>2, <4>1, ValidLater
    <3>3. QED BY <1>1, <2>2, <3>1, <3>2 DEF TypeOK
  <2>3. PICK t : t = passClock
    OBVIOUS
  <2>4. ASSUME NEW c PROVE ValidAt(c, t)' <=> ValidAt(c, t)
    BY <1>2, ValidKept
  <2>5. ASSUME ~progress, NEW i \in DOMAIN orphans, i < scanAt + 1
        PROVE  Refused(orphans[i])'
    <3>1. PICK c : c = orphans[i]
      OBVIOUS
    <3>2. Parent[c] = scanTip => c \in failed' \/ ~ValidAt(c, t)'
      BY <2>2, <2>3, <2>4, <2>5, <3>1
    <3>3. QED BY <1>2, <2>3, <3>1, <3>2 DEF Refused, ValidAt, WithinBridgeLimits
  <2>6. ~progress => scanTip' = Tip'
    BY <1>1, <1>2 DEF ScanInv, Tip
  <2>7. InChain(scanTip)' /\ passClock' <= now'
    BY <1>2, <2>1 DEF InChain
  <2>8. QED BY <1>2, <2>5, <2>6, <2>7 DEF ScanInv
<1>6. QED BY <1>3, <1>4, <1>5 DEF IInv

LEMMA SkipOrphanInv ==
  ASSUME IInv, SkipOrphan
  PROVE  IInv'
<1>1. failed' = failed /\ failed \subseteq Blocks
  BY DEF SkipOrphan, IInv, TypeOK
<1>2. Parent[orphans[scanAt]] = scanTip => ~ValidAt(orphans[scanAt], now)
  BY DEF SkipOrphan, Connects, ValidateBlock
<1>3. QED BY <1>1, <1>2, LookedAt DEF SkipOrphan

LEMMA FailOrphanInv ==
  ASSUME IInv, FailOrphan
  PROVE  IInv'
<1>1. failed' = failed \cup {orphans[scanAt]} /\ failed' \subseteq Blocks
  BY DEF FailOrphan, IInv, TypeOK
<1>2. QED BY <1>1, LookedAt DEF FailOrphan

LEMMA EndScanInv ==
  ASSUME IInv, EndScan
  PROVE  IInv'
<1>1. TypeOK /\ AncestorsFirst /\ OrphansBounded /\ ScanInv
  BY DEF IInv
<1>2. /\ chain' = chain /\ difficulty' = difficulty /\ work' = work
      /\ orphans' = orphans /\ mempool' = mempool /\ now' = now /\ lock' = "free"
      /\ scanTip' = scanTip /\ scanAt' = scanAt /\ progress' = progress
      /\ passClock' = passClock /\ failed' = failed
  BY DEF EndScan, ledgerVars
<1>3. TypeOK'
  <2>1. NonBooleanTypes'
    BY <1>1, <1>2 DEF TypeOK, NonBooleanTypes
  <2>2. (progress \in BOOLEAN)'
    BY <1>1, <1>2, Zenon DEF TypeOK
  <2>3. QED BY <2>1, <2>2, TypeSplitNext
<1>4. AncestorsFirst' /\ OrphansBounded' /\ ScanInv'
  BY <1>1, <1>2 DEF AncestorsFirst, OrphansBounded, ScanInv
<1>5. NoReadyOrphan'
  <2>1. scanTip = Tip /\ Tip' = Tip /\ \A i \in DOMAIN orphans : i < scanAt
    BY <1>1, <1>2 DEF TypeOK, ScanInv, EndScan, Tip
  <2>2. \A i \in DOMAIN orphans : Refused(orphans[i])
    BY <1>1, <2>1 DEF ScanInv, EndScan
  <2>3. PICK t : t = passClock
    OBVIOUS
  <2>4. ASSUME NEW c PROVE ValidAt(c, t)' <=> ValidAt(c, t)
    BY <1>2, ValidKept
  <2>5. ASSUME NEW i \in DOMAIN orphans, Parent[orphans[i]] = Tip
        PROVE  orphans[i] \in failed \/ ~ValidAt(orphans[i], passClock)'
    <3>1. PICK c : c = orphans[i]
      OBVIOUS
    <3>2. c \in failed \/ ~ValidAt(c, t)'
      BY <2>1, <2>2, <2>3, <2>4, <2>5, <3>1 DEF Refused
    <3>3. QED BY <1>2, <2>3, <3>1, <3>2 DEF ValidAt, WithinBridgeLimits
  <2>6. QED BY <1>2, <2>1, <2>5 DEF NoReadyOrphan, ValidAt, WithinBridgeLimits
<1>6. QED BY <1>3, <1>4, <1>5 DEF IInv

\* The number of removed blocks that hold a transaction is a number.
LEMMA OrphanedNat ==
  ASSUME TypeOK, NEW f \in Nat, NEW t
  PROVE  Orphaned(t, f) \in Nat
<1>1. IsFiniteSet(f + 1 .. Len(chain))
  BY FS_Interval DEF TypeOK
<1>2. IsFiniteSet({i \in f + 1 .. Len(chain) : t \in BlockTxs[chain[i]]})
  BY <1>1, FS_Subset
<1>3. QED BY <1>2, FS_CardinalityType DEF Orphaned

LEMMA ReorgInv ==
  ASSUME IInv, NEW nc \in PeerChains, NEW f \in DOMAIN nc, Reorg(nc, f)
  PROVE  IInv'
<1>1. TypeOK /\ AncestorsFirst /\ OrphansBounded
  BY DEF IInv
<1>2. /\ nc \in Seq(Blocks)
      /\ f \in Nat /\ 1 <= f /\ f <= Len(chain) /\ f <= Len(nc)
      /\ nc[f] = chain[f]
  BY <1>1, ForkPointFacts DEF Reorg
<1>3. /\ chain' \in Seq(Blocks)
      /\ Len(chain') = Len(nc)
      /\ \A i \in 1 .. f : chain'[i] = chain[i]
      /\ \A i \in f + 1 .. Len(nc) : chain'[i] = nc[i]
  BY <1>1, <1>2, SpliceFacts DEF Reorg, TypeOK
<1>4. Len(chain) \in Nat /\ Len(nc) \in Nat /\ Len(nc) > Len(chain) /\ Len(chain) > 0
  BY <1>1, <1>2 DEF Reorg, TypeOK
<1>5. chain'[Len(nc)] = nc[Len(nc)] /\ nc[Len(nc)] \in Blocks
  BY <1>2, <1>3, <1>4
<1>6. mempool' \in [Txs -> Nat]
  <2>1. ASSUME NEW t \in Txs PROVE Orphaned(t, f) \in Nat
    BY <1>1, <1>2, OrphanedNat
  <2>2. QED BY <1>1, <2>1 DEF Reorg, MempoolAfter, TypeOK
<1>7. TypeOK' /\ OrphansBounded' /\ NoReadyOrphan'
  <2>1. /\ lock' = "scan" /\ scanTip' \in Blocks /\ scanAt' = 1 /\ progress' = FALSE
        /\ passClock' = now /\ failed' = {}
    BY <1>5 DEF Reorg, StartPass
  <2>2. orphans' = orphans /\ work' = work /\ difficulty' = difficulty /\ now' = now
    BY DEF Reorg
  <2>3. Len(chain') > 0
    BY <1>3, <1>4
  <2>4. NonBooleanTypes'
    BY <1>1, <1>3, <1>6, <2>1, <2>2, <2>3 DEF TypeOK, NonBooleanTypes
  <2>5. TypeOK'
    BY <2>1, <2>4, TypeSplitNext
  <2>6. QED BY <1>1, <2>1, <2>2, <2>5 DEF OrphansBounded, NoReadyOrphan
<1>8. AncestorsFirst'
  <2>1. chain'[1] = Genesis
    BY <1>1, <1>2, <1>3 DEF AncestorsFirst
  <2>2. ASSUME NEW i \in 2 .. Len(chain')
        PROVE  Checked(chain'[i]) /\ \E j \in 1 .. i - 1 : chain'[j] = Parent[chain'[i]]
    <3>1. CASE i <= f
      <4>1. i \in 2 .. Len(chain) /\ chain'[i] = chain[i]
        BY <1>2, <1>3, <1>4, <3>1
      <4>2. PICK j \in 1 .. i - 1 : chain[j] = Parent[chain[i]]
        BY <1>1, <4>1 DEF AncestorsFirst
      <4>3. chain'[j] = chain[j]
        BY <1>2, <1>3, <3>1, <4>2
      <4>4. QED BY <1>1, <4>1, <4>2, <4>3 DEF AncestorsFirst, Checked
    <3>2. CASE i > f
      <4>1. i \in f + 1 .. Len(nc) /\ chain'[i] = nc[i]
        BY <1>2, <1>3, <1>4, <3>2
      <4>2. nc[i] \in ReorgSound /\ Parent[nc[i]] = nc[i - 1]
        BY <4>1 DEF Reorg, AcceptableFrom
      <4>3. chain'[i - 1] = nc[i - 1]
        <5>1. CASE i = f + 1
          BY <1>2, <1>3, <5>1
        <5>2. CASE i # f + 1
          <6>1. i - 1 \in f + 1 .. Len(nc)
            BY <1>2, <4>1, <5>2
          <6>2. QED BY <1>3, <6>1
        <5>3. QED BY <5>1, <5>2
      <4>4. i - 1 \in 1 .. i - 1
        BY <1>2, <4>1
      <4>5. QED BY <4>1, <4>2, <4>3, <4>4 DEF Checked
    <3>3. QED BY <1>2, <1>3, <1>4, <3>1, <3>2
  <2>3. QED BY <2>1, <2>2 DEF AncestorsFirst, Checked
<1>9. ScanInv'
  <2>1. scanTip' = nc[Len(nc)] /\ Tip' = nc[Len(nc)] /\ InChain(scanTip)'
    BY <1>3, <1>4, <1>5 DEF Reorg, StartPass, Tip, InChain
  <2>2. \A i \in DOMAIN orphans' : ~(i < scanAt')
    BY <1>7 DEF TypeOK, Reorg, StartPass
  <2>3. passClock' <= now'
    BY <1>1 DEF Reorg, StartPass, TypeOK
  <2>4. QED BY <2>1, <2>2, <2>3 DEF ScanInv
<1>10. QED BY <1>7, <1>8, <1>9 DEF IInv

LEMMA StutterInv == IInv /\ UNCHANGED vars => IInv'
<1> SUFFICES ASSUME IInv, UNCHANGED vars PROVE IInv'
  OBVIOUS
<1>1. TypeOK'
  <2>1. NonBooleanTypes'
    BY DEF IInv, TypeOK, NonBooleanTypes, vars
  <2>2. (progress \in BOOLEAN)'
    BY Zenon DEF IInv, TypeOK, vars
  <2>3. QED BY <2>1, <2>2, TypeSplitNext
<1>2. AncestorsFirst' /\ OrphansBounded'
  BY DEF IInv, AncestorsFirst, OrphansBounded, vars
<1>3. NoReadyOrphan' /\ ScanInv'
  BY ScanKept DEF IInv, TypeOK, vars, scanVars
<1>4. QED BY <1>1, <1>2, <1>3 DEF IInv

LEMMA StepInv == IInv /\ [Next]_vars => IInv'
<1> SUFFICES ASSUME IInv, [Next]_vars PROVE IInv'
  OBVIOUS
<1>1. ASSUME NEW t \in Txs, AddTransaction(t) PROVE IInv'
  BY <1>1, AddTransactionInv
<1>2. ASSUME NEW b \in Blocks \ {Genesis}, AddExternalBlock(b) PROVE IInv'
  <2>1. CASE ExtendTip(b)
    BY <2>1, ExtendTipInv
  <2>2. CASE StoreOrphan(b)
    BY <2>2, StoreOrphanInv
  <2>3. CASE DropBlock(b)
    BY <2>3, StutterInv DEF DropBlock
  <2>4. QED BY <1>2, <2>1, <2>2, <2>3 DEF AddExternalBlock
<1>3. CASE ProcessOrphans
  BY <1>3, ProcessOrphansInv DEF ProcessOrphans
<1>4. CASE Scan
  <2>1. CASE ConnectOrphan
    BY <2>1, ConnectOrphanInv
  <2>2. CASE SkipOrphan
    BY <2>2, SkipOrphanInv
  <2>3. CASE NextPass
    BY <2>3, ProcessOrphansInv DEF NextPass
  <2>4. CASE EndScan
    BY <2>4, EndScanInv
  <2>5. CASE FailOrphan
    BY <2>5, FailOrphanInv
  <2>6. QED BY <1>4, <2>1, <2>2, <2>3, <2>4, <2>5 DEF Scan
<1>5. ASSUME NEW nc \in PeerChains, NEW f \in DOMAIN nc, Reorg(nc, f) PROVE IInv'
  BY <1>5, ReorgInv
<1>6. CASE UNCHANGED vars
  BY <1>6, StutterInv
<1>7. CASE Tick
  BY <1>7, TickInv
<1>8. QED BY <1>1, <1>2, <1>3, <1>4, <1>5, <1>6, <1>7 DEF Next

(***************************************************************************)
(* The types of the intake state are kept by every operation.              *)
(***************************************************************************)
THEOREM TypeCorrect == Spec => []TypeOK
<1>1. IInv => TypeOK
  BY DEF IInv
<1>2. QED BY InitInv, StepInv, <1>1, PTL DEF Spec

(***************************************************************************)
(* The chain always starts at the node's genesis, holds only blocks that   *)
(* passed a content check, and never holds a block before its parent.      *)
(***************************************************************************)
THEOREM AncestorsFirstCorrect == Spec => []AncestorsFirst
<1>1. IInv => AncestorsFirst
  BY DEF IInv
<1>2. QED BY InitInv, StepInv, <1>1, PTL DEF Spec

(***************************************************************************)
(* The orphan pool stays within MAX_ORPHAN_POOL.                           *)
(***************************************************************************)
THEOREM OrphansBoundedCorrect == Spec => []OrphansBounded
<1>1. IInv => OrphansBounded
  BY DEF IInv
<1>2. QED BY InitInv, StepInv, <1>1, PTL DEF Spec

(***************************************************************************)
(* When processOrphansInternal returns the mutex, no pooled orphan could   *)
(* extend the tip: the cascade is complete.                                *)
(***************************************************************************)
THEOREM NoReadyOrphanCorrect == Spec => []NoReadyOrphan
<1>1. IInv => NoReadyOrphan
  BY DEF IInv
<1>2. QED BY InitInv, StepInv, <1>1, PTL DEF Spec

\* A step either leaves every block where it is or is a reorg.
LEMMA KeepOrReorg ==
  ASSUME TypeOK, [Next]_vars
  PROVE  \/ Len(chain) <= Len(chain') /\ \A i \in 1 .. Len(chain) : chain'[i] = chain[i]
         \/ \E nc \in PeerChains : \E f \in DOMAIN nc : Reorg(nc, f)
<1> DEFINE Kept == Len(chain) <= Len(chain') /\ \A i \in 1 .. Len(chain) : chain'[i] = chain[i]
<1>1. ASSUME NEW b \in Blocks, chain' = Append(chain, b) PROVE Kept
  BY <1>1, AppendFacts DEF TypeOK
<1>2. ASSUME chain' = chain PROVE Kept
  BY <1>2 DEF TypeOK
<1>3. ASSUME NEW t \in Txs, AddTransaction(t) PROVE Kept
  BY <1>2, <1>3 DEF AddTransaction, ledgerVars
<1>4. ASSUME NEW b \in Blocks, AddExternalBlock(b) PROVE Kept
  BY <1>1, <1>2, <1>4 DEF AddExternalBlock, ExtendTip, ApplyBlock, StoreOrphan, DropBlock, vars, ledgerVars
<1>5. CASE ProcessOrphans
  BY <1>2, <1>5 DEF ProcessOrphans, ledgerVars
<1>6. CASE Scan
  <2>1. CASE ConnectOrphan
    <3>1. orphans[scanAt] \in Blocks
      BY <2>1 DEF ConnectOrphan, TypeOK
    <3>2. QED BY <1>1, <2>1, <3>1 DEF ConnectOrphan, ApplyBlock
  <2>2. CASE ~ConnectOrphan
    BY <1>2, <1>6, <2>2 DEF Scan, FailOrphan, SkipOrphan, NextPass, EndScan, ledgerVars
  <2>3. QED BY <2>1, <2>2
<1>7. CASE UNCHANGED vars
  BY <1>2, <1>7 DEF vars
<1>8. CASE Tick
  BY <1>2, <1>8 DEF Tick, ledgerVars
<1>9. QED BY <1>3, <1>4, <1>5, <1>6, <1>7, <1>8 DEF Next

(***************************************************************************)
(* No step rewrites history deeper than MAX_REORG_DEPTH, and a step that   *)
(* replaces blocks at all leaves a strictly longer chain.                  *)
(***************************************************************************)
THEOREM DeepHistoryStableCorrect == Spec => DeepHistoryStable
<1> DEFINE Stable ==
      /\ \A i \in 1 .. Len(chain) - MaxReorgDepth : i <= Len(chain') /\ chain'[i] = chain[i]
      /\ (\E i \in DOMAIN chain : i > Len(chain') \/ chain'[i] # chain[i])
           => Len(chain') > Len(chain)
<1>1. TypeOK /\ [Next]_vars => [Stable]_vars
  <2> SUFFICES ASSUME TypeOK, [Next]_vars PROVE Stable
    OBVIOUS
  <2>1. Len(chain) \in Nat /\ MaxReorgDepth \in Nat /\ DOMAIN chain = 1 .. Len(chain)
    BY LimitAssumption DEF TypeOK
  <2>2. CASE Len(chain) <= Len(chain') /\ \A i \in 1 .. Len(chain) : chain'[i] = chain[i]
    BY <2>1, <2>2
  <2>3. ASSUME NEW nc \in PeerChains, NEW f \in DOMAIN nc, Reorg(nc, f) PROVE Stable
    <3>1. nc \in Seq(Blocks) /\ f \in Nat /\ 1 <= f /\ f <= Len(chain) /\ f <= Len(nc)
      BY <2>3, ForkPointFacts DEF Reorg
    <3>2. Len(chain') = Len(nc) /\ \A i \in 1 .. f : chain'[i] = chain[i]
      BY <2>3, <3>1, SpliceFacts DEF Reorg, TypeOK
    <3>3. Len(nc) > Len(chain) /\ Len(chain) - f <= MaxReorgDepth
      BY <2>3 DEF Reorg, DepthAllowed
    <3>4. \A i \in 1 .. Len(chain) - MaxReorgDepth : i \in 1 .. f
      BY <2>1, <3>1, <3>3
    <3>5. QED BY <2>1, <3>1, <3>2, <3>3, <3>4
  <2>4. QED BY <2>2, <2>3, KeepOrReorg
<1>2. QED BY TypeCorrect, <1>1, PTL DEF Spec, DeepHistoryStable

\* A transaction confirmed by some block stays confirmed when no block moves.
LEMMA ConfirmedGrows ==
  ASSUME NEW c \in Seq(Blocks), NEW d \in Seq(Blocks), Len(c) <= Len(d),
         \A i \in 1 .. Len(c) : d[i] = c[i]
  PROVE  Confirmed(c) \subseteq Confirmed(d)
<1> SUFFICES ASSUME NEW t \in Confirmed(c) PROVE t \in Confirmed(d)
  OBVIOUS
<1>1. PICK i \in 1 .. Len(c) : t \in BlockTxs[c[i]]
  BY DEF Confirmed
<1>2. i \in 1 .. Len(d) /\ d[i] = c[i]
  BY <1>1
<1>3. QED BY <1>1, <1>2 DEF Confirmed

\* A transaction of a block above the fork point is counted by collectOrphanedTxs.
LEMMA OrphanedCounted ==
  ASSUME TypeOK, NEW f \in Nat, NEW t \in Txs, NEW i \in f + 1 .. Len(chain),
         t \in BlockTxs[chain[i]]
  PROVE  Orphaned(t, f) > 0
<1> DEFINE S == {k \in f + 1 .. Len(chain) : t \in BlockTxs[chain[k]]}
<1>1. IsFiniteSet(S)
  <2>1. IsFiniteSet(f + 1 .. Len(chain))
    BY FS_Interval DEF TypeOK
  <2>2. QED BY <2>1, FS_Subset
<1>2. i \in S
  OBVIOUS
<1>3. Cardinality(S) \in Nat /\ Cardinality(S) # 0
  BY <1>1, <1>2, FS_CardinalityType, FS_EmptySet
<1>4. QED BY <1>3 DEF Orphaned

(***************************************************************************)
(* A transaction the node has queued or confirmed is never dropped by      *)
(* block intake: a reorg puts back into the mempool what it removes.       *)
(***************************************************************************)
THEOREM NoTxLostCorrect == Spec => NoTxLost
<1> DEFINE Kept == \A t \in Txs : Known(t) => Known(t)'
<1>1. TypeOK /\ TypeOK' /\ [Next]_vars => [Kept]_vars
  <2> SUFFICES ASSUME TypeOK, TypeOK', [Next]_vars, NEW t \in Txs, Known(t) PROVE Known(t)'
    OBVIOUS
  <2>1. ASSUME mempool' = mempool, Confirmed(chain) \subseteq Confirmed(chain') PROVE Known(t)'
    BY <2>1 DEF Known
  <2>2. ASSUME NEW b \in Blocks, chain' = Append(chain, b), mempool' = mempool PROVE Known(t)'
    <3>1. /\ chain \in Seq(Blocks) /\ chain' \in Seq(Blocks)
          /\ Len(chain) <= Len(chain')
          /\ \A i \in 1 .. Len(chain) : chain'[i] = chain[i]
      BY <2>2, AppendFacts DEF TypeOK
    <3>2. Confirmed(chain) \subseteq Confirmed(chain')
      BY <3>1, ConfirmedGrows
    <3>3. QED BY <2>1, <2>2, <3>2
  <2>3. ASSUME chain' = chain, mempool' = mempool PROVE Known(t)'
    BY <2>1, <2>3
  <2>4. ASSUME NEW u \in Txs, AddTransaction(u) PROVE Known(t)'
    BY <2>4 DEF AddTransaction, Known, TypeOK, ledgerVars
  <2>5. ASSUME NEW b \in Blocks, AddExternalBlock(b) PROVE Known(t)'
    BY <2>2, <2>3, <2>5 DEF AddExternalBlock, ExtendTip, ApplyBlock, StoreOrphan, DropBlock, vars, ledgerVars
  <2>6. CASE ProcessOrphans
    BY <2>3, <2>6 DEF ProcessOrphans, ledgerVars
  <2>7. CASE Scan
    <3>1. CASE ConnectOrphan
      <4>1. orphans[scanAt] \in Blocks
        BY <3>1 DEF ConnectOrphan, TypeOK
      <4>2. QED BY <2>2, <3>1, <4>1 DEF ConnectOrphan, ApplyBlock
    <3>2. CASE ~ConnectOrphan
      BY <2>3, <2>7, <3>2 DEF Scan, FailOrphan, SkipOrphan, NextPass, EndScan, ledgerVars
    <3>3. QED BY <3>1, <3>2
  <2>8. ASSUME NEW nc \in PeerChains, NEW f \in DOMAIN nc, Reorg(nc, f) PROVE Known(t)'
    <3>1. f \in Nat /\ 1 <= f /\ f <= Len(chain)
      BY <2>8, ForkPointFacts DEF Reorg
    <3>2. nc \in Seq(Blocks) /\ f <= Len(nc)
      BY <2>8, ForkPointFacts DEF Reorg
    <3>3. CASE t \in Confirmed(chain')
      BY <3>3 DEF Known
    <3>4. CASE t \notin Confirmed(chain')
      <4>1. mempool'[t] = mempool[t] + Orphaned(t, f)
        BY <2>8, <3>4 DEF Reorg, MempoolAfter
      <4>2. Orphaned(t, f) \in Nat
        BY <3>1, OrphanedNat
      <4>3. CASE mempool[t] > 0
        BY <4>1, <4>2, <4>3 DEF Known, TypeOK
      <4>4. CASE t \in Confirmed(chain)
        <5>1. PICK i \in 1 .. Len(chain) : t \in BlockTxs[chain[i]]
          BY <4>4 DEF Confirmed
        <5>2. CASE i <= f
          <6>1. chain'[i] = chain[i] /\ i \in 1 .. Len(chain')
            <7>1. chain' = Splice(nc, f)
              BY <2>8 DEF Reorg
            <7>2. Len(chain') = Len(nc) /\ \A k \in 1 .. f : chain'[k] = chain[k]
              <8>1. chain \in Seq(Blocks)
                BY DEF TypeOK
              <8>2. QED BY <3>1, <3>2, <7>1, <8>1, SpliceFacts
            <7>3. QED BY <3>1, <3>2, <5>1, <5>2, <7>2
          <6>2. t \in Confirmed(chain')
            BY <5>1, <6>1 DEF Confirmed
          <6>3. QED BY <3>4, <6>2
        <5>3. CASE i > f
          <6>1. Orphaned(t, f) > 0
            BY <3>1, <5>1, <5>3, OrphanedCounted DEF TypeOK
          <6>2. QED BY <4>1, <4>2, <6>1 DEF Known, TypeOK
        <5>4. QED BY <3>1, <5>1, <5>2, <5>3
      <4>5. QED BY <4>3, <4>4 DEF Known
    <3>5. QED BY <3>3, <3>4
  <2>9. CASE UNCHANGED vars
    BY <2>3, <2>9 DEF vars
  <2>10. CASE Tick
    BY <2>3, <2>10 DEF Tick, ledgerVars
  <2>11. QED BY <2>4, <2>5, <2>6, <2>7, <2>8, <2>9, <2>10 DEF Next
<1>2. QED BY TypeCorrect, <1>1, PTL DEF Spec, NoTxLost
=============================================================================
