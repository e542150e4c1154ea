---------------------------- MODULE Ledger_proofs ----------------------------
(***************************************************************************)
(* What holds of the node for every set of transactions, every peer and    *)
(* every number of mined blocks.                                           *)
(*                                                                         *)
(* IInv relates the chain to the local variables of the mining thread: as  *)
(* long as no peer's block raced, the block in the making still names the  *)
(* tip.  ReplayInv says of what replay the ledger is the result, also in   *)
(* the middle of a job.  AccountsInv, for a node without peers, says what  *)
(* the ledger comes to: the two sets of books agree, what the addresses    *)
(* own is what the blocks issued, each nonce counts the transactions of    *)
(* its address, and the next coin is new.                                  *)
(***************************************************************************)
EXTENDS Ledger, SequenceTheorems, FiniteSetTheorems, TLAPS

Jobs == [phase : {"txs", "paid"}, miner : Addrs, hash : Hashes,
         prev : Hashes \cup {<<"none", 0>>}, index : Nat, txs : Seq(Txs), todo : Seq(Txs)]

ChainTypes ==
  /\ chain \in Seq(Block) /\ chain # << >>
  /\ disk \in Seq(Block) /\ disk # << >>
  /\ mempool \in Seq(Txs)
  /\ job = Idle \/ job \in Jobs
  /\ mined \in Nat

LinkedChain(c) == \A i \in 2 .. Len(c) : c[i].prev = c[i - 1].hash

LinkInv ==
  ~raced => /\ LinkedChain(chain)
            /\ LinkedChain(disk)
            /\ job # Idle => job.prev = Tip.hash

IInv == ChainTypes /\ LinkInv

\* The hashes the node and the peer give to blocks are hashes.
LEMMA NamesAreHashes ==
  /\ \A n \in Nat : <<"own", n>> \in Hashes /\ <<"peer", n>> \in Hashes
  /\ Genesis \in Block
  BY DEF Hashes, Genesis, Block

\* The last element of a sequence that is not empty.
LEMMA LastFacts ==
  ASSUME NEW S, NEW s \in Seq(S), s # << >>
  PROVE  Last(s) = s[Len(s)] /\ Len(s) \in Nat \ {0} /\ Last(s) \in S
  BY DEF Last

\* What applyBlocksFromPeer appends: `count` blocks of the peer, the first of
\* them on the local tip, each other one on the one before.
LEMMA PeerBlocksFacts ==
  ASSUME NEW base \in Seq(Block), base # << >>,
         NEW first \in DOMAIN PeerMiners, NEW last \in DOMAIN PeerMiners
  PROVE  LET new == PeerBlocks(base, first, last)
         IN  /\ new \in Seq(Block)
             /\ new # << >> => /\ first <= Len(base)
                               /\ Len(base) + Len(new) = last + 1
                               /\ new[1].prev = Last(base).hash
             /\ \A i \in 2 .. Len(new) : new[i].prev = new[i - 1].hash
<1> DEFINE hash(h) == IF h = Len(base) THEN Last(base).hash ELSE PeerHash(h - 1)
           block(h) == [hash |-> PeerHash(h), prev |-> hash(h), index |-> h,
                        txs |-> << >>, miner |-> PeerMiners[h]]
           count == IF first > Len(base) \/ last < Len(base) THEN 0 ELSE last + 1 - Len(base)
           new == [i \in 1 .. count |-> block(Len(base) + i - 1)]
<1>1. PeerBlocks(base, first, last) = new
  BY DEF PeerBlocks
<1>2. /\ Len(base) \in Nat \ {0} /\ Last(base) \in Block
      /\ first \in Nat \ {0} /\ last \in Nat \ {0}
      /\ \A h \in 1 .. last : PeerMiners[h] \in Addrs
  BY LastFacts, ParameterAssumption
<1>3. count \in Nat /\ \A i \in 1 .. count : Len(base) + i - 1 \in 1 .. last
  BY <1>2
<1>4. \A h \in 1 .. last : h >= Len(base) => block(h) \in Block
  <2> SUFFICES ASSUME NEW h \in 1 .. last, h >= Len(base) PROVE block(h) \in Block
    OBVIOUS
  <2>1. PeerHash(h) \in Hashes
    <3>1. h \in Nat
      OBVIOUS
    <3>2. <<"peer", h>> \in Hashes
      BY <3>1, NamesAreHashes
    <3>3. QED BY <3>2 DEF PeerHash
  <2>2. hash(h) \in Hashes \cup {<<"none", 0>>}
    <3>1. CASE h = Len(base)
      <4>1. Last(base).hash \in Hashes
        BY <1>2 DEF Block
      <4>2. QED BY <4>1, <3>1
    <3>2. CASE h # Len(base)
      <4>1. h - 1 \in Nat
        BY <1>2
      <4>2. <<"peer", h - 1>> \in Hashes
        BY <4>1, NamesAreHashes
      <4>3. QED BY <4>2, <3>2 DEF PeerHash
    <3>3. QED BY <3>1, <3>2
  <2>3. PeerMiners[h] \in Addrs
    BY <1>2
  <2>4. << >> \in Seq(Txs)
    OBVIOUS
  <2> HIDE DEF hash
  <2>5. QED BY <2>1, <2>2, <2>3, <2>4 DEF Block
<1>5. \A i \in 1 .. count : new[i] \in Block
  <2> SUFFICES ASSUME NEW i \in 1 .. count PROVE new[i] \in Block
    OBVIOUS
  <2>1. Len(base) + i - 1 \in 1 .. last /\ Len(base) + i - 1 >= Len(base)
    BY <1>2, <1>3
  <2>2. new[i] = block(Len(base) + i - 1)
    OBVIOUS
  <2> HIDE DEF block
  <2>3. QED BY <2>1, <2>2, <1>4
<1>6. new \in Seq(Block) /\ Len(new) = count
  <2> HIDE DEF block
  <2>1. new \in [1 .. count -> Block]
    BY <1>5
  <2> HIDE DEF count, new
  <2>2. QED BY <2>1, <1>3
<1>7. new # << >> => count >= 1 /\ first <= Len(base) /\ Len(base) + count = last + 1
  <2> SUFFICES ASSUME new # << >> PROVE count >= 1 /\ first <= Len(base) /\ Len(base) + count = last + 1
    OBVIOUS
  <2> HIDE DEF block
  <2>1. count # 0
    <3> HIDE DEF count, new
    <3>1. QED BY <1>6
  <2> HIDE DEF new
  <2>2. QED BY <2>1, <1>2
<1>8. count >= 1 => new[1].prev = Last(base).hash
  BY <1>2, <1>3
<1>9. \A i \in 2 .. count : new[i].prev = new[i - 1].hash
  <2> SUFFICES ASSUME NEW i \in 2 .. count PROVE new[i].prev = new[i - 1].hash
    OBVIOUS
  <2>1. new[i].prev = hash(Len(base) + i - 1)
    BY <1>3
  <2>2. new[i - 1].hash = PeerHash(Len(base) + i - 2)
    BY <1>2, <1>3
  <2>3. hash(Len(base) + i - 1) = PeerHash(Len(base) + i - 2)
    BY <1>2, <1>3
  <2>4. QED BY <2>1, <2>2, <2>3
<1> HIDE DEF new, count
<1>10. QED BY <1>1, <1>6, <1>7, <1>8, <1>9

\* Type and length of a concatenation.
LEMMA ConcatFacts ==
  ASSUME NEW S, NEW s \in Seq(S), NEW t \in Seq(S)
  PROVE  s \o t \in Seq(S) /\ Len(s \o t) = Len(s) + Len(t)
  OBVIOUS

\* A linked chain stays linked when linked blocks are put on its last one.
LEMMA ConcatLinked ==
  ASSUME NEW base \in Seq(Block), base # << >>, LinkedChain(base),
         NEW new \in Seq(Block), new # << >>, new[1].prev = Last(base).hash,
         \A i \in 2 .. Len(new) : new[i].prev = new[i - 1].hash
  PROVE  LinkedChain(base \o new)
<1> DEFINE c == base \o new
<1> SUFFICES ASSUME NEW i \in 2 .. Len(c) PROVE c[i].prev = c[i - 1].hash
  BY DEF LinkedChain
<1>1. /\ c \in Seq(Block) /\ Len(c) = Len(base) + Len(new)
      /\ \A j \in 1 .. Len(base) : c[j] = base[j]
      /\ \A j \in Len(base) + 1 .. Len(c) : c[j] = new[j - Len(base)]
  OBVIOUS
<1>2. Last(base) = base[Len(base)] /\ Len(base) \in Nat \ {0} /\ Len(new) \in Nat \ {0}
  BY LastFacts
<1>3. CASE i <= Len(base)
  <2>1. c[i] = base[i] /\ c[i - 1] = base[i - 1]
    BY <1>1, <1>2, <1>3
  <2>2. QED BY <2>1, <1>2, <1>3 DEF LinkedChain
<1>4. CASE i = Len(base) + 1
  <2>1. c[i] = new[1] /\ c[i - 1] = base[Len(base)]
    BY <1>1, <1>2, <1>4
  <2>2. QED BY <2>1, <1>2
<1>5. CASE i > Len(base) + 1
  <2>1. c[i] = new[i - Len(base)] /\ c[i - 1] = new[i - Len(base) - 1] /\ i - Len(base) \in 2 .. Len(new)
    BY <1>1, <1>2, <1>5
  <2>2. (i - Len(base)) - 1 = i - Len(base) - 1
    OBVIOUS
  <2>3. QED BY <2>1, <2>2
<1>6. QED BY <1>1, <1>2, <1>3, <1>4, <1>5

\* What the steps of a job make of it is a job, and its block a block.
LEMMA JobFacts ==
     \A j \in Jobs : /\ j.todo \in Seq(Txs)
                     /\ j.todo # << >> => [j EXCEPT !.todo = Tail(@)] \in Jobs
                     /\ [j EXCEPT !.phase = "paid"] \in Jobs
                     /\ [hash |-> j.hash, prev |-> j.prev, index |-> j.index,
                         txs |-> j.txs, miner |-> j.miner] \in Block
<1> SUFFICES ASSUME NEW j \in Jobs
             PROVE  /\ j.todo \in Seq(Txs)
                    /\ j.todo # << >> => [j EXCEPT !.todo = Tail(@)] \in Jobs
                    /\ [j EXCEPT !.phase = "paid"] \in Jobs
                    /\ [hash |-> j.hash, prev |-> j.prev, index |-> j.index,
                        txs |-> j.txs, miner |-> j.miner] \in Block
  OBVIOUS
<1>1. j.todo \in Seq(Txs)
  BY DEF Jobs
<1>2. j.todo # << >> => [j EXCEPT !.todo = Tail(@)] \in Jobs
  <2>1. j.todo # << >> => Tail(j.todo) \in Seq(Txs)
    BY <1>1
  <2>2. QED BY <2>1 DEF Jobs
<1>3. [j EXCEPT !.phase = "paid"] \in Jobs
  BY DEF Jobs
<1>4. [hash |-> j.hash, prev |-> j.prev, index |-> j.index,
       txs |-> j.txs, miner |-> j.miner] \in Block
  BY DEF Jobs, Block
<1>5. QED BY <1>1, <1>2, <1>3, <1>4

\* The invariant holds of a new node.
LEMMA InitInv == Init => IInv
<1> SUFFICES ASSUME Init PROVE IInv
  OBVIOUS
<1>1. Genesis \in Block
  BY NamesAreHashes
<1>2. chain = <<Genesis>> /\ disk = <<Genesis>> /\ mempool = << >> /\ job = Idle
      /\ mined = 0
  BY DEF Init
<1>3. <<Genesis>> \in Seq(Block) /\ Len(<<Genesis>>) = 1
  BY <1>1
<1>4. ChainTypes
  BY <1>2, <1>3 DEF ChainTypes
<1>5. LinkInv
  BY <1>2, <1>3 DEF LinkInv, LinkedChain
<1>6. QED BY <1>4, <1>5 DEF IInv

\* The block a mining job appends is linked when the job still names the tip.
LEMMA CommitStep == IInv /\ CommitBlock => IInv'
<1> SUFFICES ASSUME IInv, CommitBlock PROVE IInv'
  OBVIOUS
<1> DEFINE b == [hash |-> job.hash, prev |-> job.prev, index |-> job.index,
                 txs |-> job.txs, miner |-> job.miner]
<1>1. /\ chain' = Append(chain, b)
      /\ mempool' = << >> /\ job' = Idle /\ disk' = disk /\ mined' = mined /\ raced' = raced
  BY DEF CommitBlock
<1>2. job # Idle /\ job \in Jobs
  BY DEF CommitBlock, Idle, IInv, ChainTypes
<1>3. b \in Block /\ b.prev = job.prev
  BY <1>2, JobFacts
<1>4. chain \in Seq(Block) /\ chain # << >> /\ disk \in Seq(Block) /\ disk # << >> /\ mined \in Nat
  BY DEF IInv, ChainTypes
<1> HIDE DEF b
<1>5. chain' \in Seq(Block) /\ chain' # << >> /\ Len(chain') = Len(chain) + 1
      /\ chain'[Len(chain) + 1] = b /\ \A i \in 1 .. Len(chain) : chain'[i] = chain[i]
  BY <1>1, <1>3, <1>4
<1>6. ChainTypes'
  BY <1>1, <1>4, <1>5 DEF ChainTypes
<1>7. ASSUME ~raced PROVE LinkedChain(chain')
  <2>1. LinkedChain(chain) /\ job.prev = Tip.hash
    BY <1>2, <1>7 DEF IInv, LinkInv
  <2>2. Tip = chain[Len(chain)] /\ Len(chain) \in Nat \ {0}
    BY <1>4, LastFacts DEF Tip
  <2>3. ASSUME NEW i \in 2 .. Len(chain') PROVE chain'[i].prev = chain'[i - 1].hash
    <3>1. CASE i = Len(chain) + 1
      <4>1. chain'[i] = b /\ chain'[i - 1] = chain[Len(chain)]
        BY <2>2, <1>5, <3>1
      <4>2. QED BY <4>1, <2>1, <2>2, <1>3
    <3>2. CASE i # Len(chain) + 1
      <4>1. i \in 2 .. Len(chain) /\ i \in 1 .. Len(chain) /\ i - 1 \in 1 .. Len(chain)
        BY <2>2, <1>5, <3>2
      <4>2. chain'[i] = chain[i] /\ chain'[i - 1] = chain[i - 1]
        BY <4>1, <1>5
      <4>3. QED BY <4>1, <4>2, <2>1 DEF LinkedChain
    <3>3. QED BY <3>1, <3>2
  <2>4. QED BY <2>3 DEF LinkedChain
<1>8. LinkInv'
  BY <1>1, <1>7 DEF LinkInv, IInv
<1>9. QED BY <1>6, <1>8 DEF IInv

\* What a peer's headers leave: the truncated or whole chain, then the peer's
\* blocks, all of it linked if the chain was.
LEMMA PeerChainFacts ==
  ASSUME ChainTypes, NEW first \in DOMAIN PeerMiners, NEW last \in DOMAIN PeerMiners,
         ApplyBlocksFromPeer(first, last)
  PROVE  /\ chain' \in Seq(Block) /\ chain' # << >>
         /\ LinkedChain(chain) => LinkedChain(chain')
         /\ IsPrefix(chain, chain') \/ Len(chain') > Len(chain)
<1> DEFINE kept == IF Diverges(first) THEN TruncateChainTo(first)
                   ELSE [chain |-> chain, ledger |-> ledger]
           base == kept.chain
           new == PeerBlocks(base, first, last)
<1>1. chain \in Seq(Block) /\ chain # << >> /\ Len(chain) \in Nat \ {0}
      /\ first \in Nat \ {0} /\ last \in Nat \ {0}
  BY ParameterAssumption DEF ChainTypes
<1>2. chain' = base \o new /\ new # << >> /\ Accept(first, last)
  BY DEF ApplyBlocksFromPeer
<1>3. CASE Diverges(first)
  <2>1. base = SubSeq(chain, 1, first)
    BY <1>3 DEF TruncateChainTo
  <2>2. first < Len(chain) /\ last + 1 > Len(chain)
    BY <1>2, <1>3 DEF Accept, Diverges
  <2> HIDE DEF kept, base
  <2>3. base \in Seq(Block) /\ Len(base) = first /\ base # << >>
        /\ \A i \in 1 .. first : base[i] = chain[i]
    <3>1. SubSeq(chain, 1, first) \in Seq(Block) /\ Len(SubSeq(chain, 1, first)) = first
          /\ \A i \in 1 .. first : SubSeq(chain, 1, first)[i] = chain[i]
      BY <2>2, <1>1
    <3>2. QED BY <2>1, <3>1, <1>1
  <2>4. new \in Seq(Block) /\ Len(base) + Len(new) = last + 1
        /\ new[1].prev = Last(base).hash /\ \A i \in 2 .. Len(new) : new[i].prev = new[i - 1].hash
    BY <2>3, <1>2, PeerBlocksFacts
  <2> HIDE DEF new
  <2>5. chain' \in Seq(Block) /\ Len(chain') = last + 1 /\ chain' # << >>
    <3>1. base \o new \in Seq(Block) /\ Len(base \o new) = Len(base) + Len(new)
      BY <2>3, <2>4, ConcatFacts
    <3>2. Len(chain') = last + 1 /\ last + 1 # 0
      BY <3>1, <2>4, <1>1, <1>2
    <3>3. QED BY <3>1, <3>2, <1>2
  <2>6. ASSUME LinkedChain(chain) PROVE LinkedChain(chain')
    <3>1. LinkedChain(base)
      <4>1. ASSUME NEW i \in 2 .. Len(base) PROVE base[i].prev = base[i - 1].hash
        <5>1. i \in 1 .. first /\ i - 1 \in 1 .. first /\ i \in 2 .. Len(chain)
          BY <2>2, <2>3, <1>1
        <5>2. base[i] = chain[i] /\ base[i - 1] = chain[i - 1]
          BY <5>1, <2>3
        <5>3. QED BY <5>1, <5>2, <2>6 DEF LinkedChain
      <4>2. QED BY <4>1 DEF LinkedChain
    <3>2. QED BY <3>1, <2>3, <2>4, <1>2, ConcatLinked
  <2>7. QED BY <2>2, <2>5, <2>6
<1>4. CASE ~Diverges(first)
  <2>1. base = chain
    BY <1>4
  <2> HIDE DEF kept, base
  <2>2. new \in Seq(Block)
        /\ new[1].prev = Last(base).hash /\ \A i \in 2 .. Len(new) : new[i].prev = new[i - 1].hash
    BY <2>1, <1>1, <1>2, PeerBlocksFacts
  <2> HIDE DEF new
  <2>3. chain' \in Seq(Block) /\ Len(chain') = Len(chain) + Len(new) /\ chain' # << >>
        /\ \A i \in 1 .. Len(chain) : chain'[i] = chain[i]
    BY <2>1, <2>2, <1>1, <1>2
  <2>4. LinkedChain(chain) => LinkedChain(chain')
    BY <2>1, <2>2, <1>1, <1>2, ConcatLinked
  <2>5. IsPrefix(chain, chain')
    <3>1. SubSeq(chain, 1, Len(chain)) = SubSeq(chain', 1, Len(chain))
      BY <2>3, <2>2, <1>1
    <3>2. QED BY <3>1, <2>2, <2>3, <1>1 DEF IsPrefix
  <2>6. QED BY <2>3, <2>4, <2>5
<1>5. QED BY <1>3, <1>4

\* A peer's blocks keep the invariant.
LEMMA PeerStep ==
  ASSUME IInv, NEW first \in DOMAIN PeerMiners, NEW last \in DOMAIN PeerMiners,
         ApplyBlocksFromPeer(first, last)
  PROVE  IInv'
<1>1. /\ chain' \in Seq(Block) /\ chain' # << >>
      /\ LinkedChain(chain) => LinkedChain(chain')
  BY PeerChainFacts DEF IInv
<1>2. /\ disk' = disk /\ mempool' = mempool /\ job' = job /\ mined' = mined
      /\ raced' = (raced \/ job # Idle)
  BY DEF ApplyBlocksFromPeer
<1>3. ChainTypes'
  BY <1>1, <1>2 DEF IInv, ChainTypes
<1>4. LinkInv'
  BY <1>1, <1>2 DEF IInv, LinkInv
<1>5. QED BY <1>3, <1>4 DEF IInv

\* So does every other step.
LEMMA StepInv == IInv /\ [Next]_vars => IInv'
<1> SUFFICES ASSUME IInv, [Next]_vars PROVE IInv'
  OBVIOUS
<1>1. ASSUME NEW t \in Txs, AddTransaction(t) PROVE IInv'
  <2>1. mempool' \in Seq(Txs)
    BY <1>1 DEF AddTransaction, IInv, ChainTypes
  <2>2. QED BY <2>1, <1>1 DEF AddTransaction, IInv, ChainTypes, LinkInv, Tip
<1>2. ASSUME NEW m \in Miners, StartMining(m) PROVE IInv'
  <2>1. /\ chain \in Seq(Block) /\ chain # << >> /\ mempool \in Seq(Txs) /\ mined \in Nat
        /\ Len(chain) \in Nat /\ m \in Addrs
    BY ParameterAssumption DEF IInv, ChainTypes
  <2>2. Tip \in Block /\ Tip.hash \in Hashes /\ <<"own", mined>> \in Hashes
    <3>1. Last(chain) \in Block
      BY <2>1, LastFacts
    <3>2. \A b \in Block : b.hash \in Hashes
      BY DEF Block
    <3>3. QED BY <3>1, <3>2, <2>1, NamesAreHashes DEF Tip
  <2>3. job' \in Jobs /\ job'.prev = Tip.hash
    BY <2>1, <2>2, <1>2 DEF StartMining, Jobs
  <2>4. chain' = chain /\ mempool' = mempool /\ disk' = disk /\ raced' = raced /\ mined' = mined + 1
    BY <1>2 DEF StartMining
  <2>5. ChainTypes'
    BY <2>1, <2>3, <2>4 DEF ChainTypes, IInv
  <2>6. LinkInv'
    BY <2>3, <2>4 DEF LinkInv, IInv, Tip
  <2>7. QED BY <2>5, <2>6 DEF IInv
<1>3. ASSUME ApplyNext PROVE IInv'
  <2>1. job \in Jobs /\ job # Idle
    BY <1>3 DEF ApplyNext, Idle, IInv, ChainTypes
  <2>2. job' \in Jobs /\ job'.prev = job.prev
    BY <2>1, <1>3, JobFacts DEF ApplyNext, Jobs
  <2>3. QED BY <2>1, <2>2, <1>3 DEF ApplyNext, IInv, ChainTypes, LinkInv, Tip
<1>4. ASSUME PayMiner PROVE IInv'
  <2>1. job \in Jobs /\ job # Idle
    BY <1>4 DEF PayMiner, Idle, IInv, ChainTypes
  <2>2. job' \in Jobs /\ job'.prev = job.prev
    BY <2>1, <1>4, JobFacts DEF PayMiner, Jobs
  <2>3. QED BY <2>1, <2>2, <1>4 DEF PayMiner, IInv, ChainTypes, LinkInv, Tip
<1>5. ASSUME SaveToDisc PROVE IInv'
  BY <1>5 DEF SaveToDisc, IInv, ChainTypes, LinkInv, Tip
<1>6. ASSUME Restart PROVE IInv'
  BY <1>6 DEF Restart, IInv, ChainTypes, LinkInv, Tip
<1>7. ASSUME UNCHANGED vars PROVE IInv'
  BY <1>7 DEF vars, IInv, ChainTypes, LinkInv, Tip
<1>8. QED BY <1>1, <1>2, <1>3, <1>4, <1>5, <1>6, <1>7, CommitStep, PeerStep DEF Next

\* The invariant the theorems about the chain rest on.
THEOREM InvHolds == Spec => []IInv
  BY InitInv, StepInv, PTL DEF Spec

\* While no peer's block arrived during a mining job, every block names the
\* hash of the block below it: across truncations, splices of a peer's
\* headers, saves and restarts.
THEOREM LinkedCorrect == Spec => []LinkedUnlessRaced
<1>1. IInv => LinkedUnlessRaced
  BY DEF IInv, LinkInv, LinkedChain, LinkedUnlessRaced, Linked
<1>2. QED BY <1>1, InvHolds, PTL

\* Except in a restart, local blocks give way only to a longer chain.
THEOREM ReplacedByLongerCorrect == Spec => ReplacedByLonger
<1>1. ASSUME IInv, [Next]_vars
      PROVE  [IsPrefix(chain, chain') \/ Len(chain') > Len(chain) \/ chain' = disk]_vars
  <2>1. chain \in Seq(Block) /\ chain # << >>
    BY <1>1 DEF IInv, ChainTypes
  <2>2. ASSUME UNCHANGED chain PROVE IsPrefix(chain, chain')
    <3>1. Len(chain) \in Nat
      BY <2>1
    <3>2. QED BY <2>2, <3>1 DEF IsPrefix
  <2>3. CASE CommitBlock
    <3>1. chain' = Append(chain, chain'[Len(chain) + 1]) /\ Len(chain') = Len(chain) + 1
      BY <2>1, <2>3 DEF CommitBlock
    <3>2. QED BY <3>1, <2>1
  <2>4. ASSUME NEW first \in DOMAIN PeerMiners, NEW last \in DOMAIN PeerMiners,
               ApplyBlocksFromPeer(first, last)
        PROVE  IsPrefix(chain, chain') \/ Len(chain') > Len(chain)
    BY <1>1, <2>4, PeerChainFacts DEF IInv
  <2>5. CASE Restart
    BY <2>5 DEF Restart
  <2>6. QED
    BY <1>1, <2>2, <2>3, <2>4, <2>5
    DEF Next, AddTransaction, StartMining, ApplyNext, PayMiner, SaveToDisc, vars
<1>2. QED BY <1>1, InvHolds, PTL DEF Spec, ReplacedByLonger

\* A node without peers never loses a saved block.
SavedPrefix == IsPrefix(disk, chain)

\* IsPrefix is reflexive and transitive, and Append extends.
LEMMA PrefixFacts ==
  ASSUME NEW S, NEW s \in Seq(S), NEW c \in Seq(S), NEW e \in S, IsPrefix(s, c)
  PROVE  IsPrefix(s, s) /\ IsPrefix(s, Append(c, e))
<1>1. Len(s) \in Nat /\ Len(c) \in Nat /\ Len(s) <= Len(c)
  BY DEF IsPrefix
<1>2. SubSeq(Append(c, e), 1, Len(s)) = SubSeq(c, 1, Len(s))
  BY <1>1
<1>3. QED BY <1>1, <1>2 DEF IsPrefix

\* Without a peer the saved chain is a prefix of the chain.
LEMMA SavedPrefixStep ==
  ASSUME PeerMiners = << >>, IInv, SavedPrefix, [Next]_vars
  PROVE  SavedPrefix' /\ IsPrefix(disk, chain') /\ IsPrefix(disk, disk')
<1>1. chain \in Seq(Block) /\ disk \in Seq(Block) /\ IsPrefix(disk, chain) /\ chain # << >>
  BY DEF IInv, ChainTypes, SavedPrefix
<1>2. Len(disk) \in Nat /\ Len(chain) \in Nat /\ chain[1] \in Block
  BY <1>1
<1>3. IsPrefix(disk, disk) /\ IsPrefix(chain, chain)
  BY <1>2 DEF IsPrefix
<1>4. CASE CommitBlock
  <2>1. job \in Jobs
    BY <1>4 DEF CommitBlock, Idle, IInv, ChainTypes
  <2>2. PICK b \in Block : chain' = Append(chain, b)
    BY <2>1, <1>4, JobFacts DEF CommitBlock
  <2>3. disk' = disk
    BY <1>4 DEF CommitBlock
  <2>4. QED BY <2>2, <2>3, <1>1, <1>3, PrefixFacts DEF SavedPrefix
<1>5. CASE SaveToDisc
  BY <1>5, <1>1, <1>3 DEF SaveToDisc, SavedPrefix
<1>6. CASE Restart
  BY <1>6, <1>1, <1>3 DEF Restart, SavedPrefix
<1>7. CASE UNCHANGED <<chain, disk>>
  BY <1>7, <1>1, <1>3 DEF SavedPrefix
<1>8. QED BY <1>4, <1>5, <1>6, <1>7
  DEF Next, AddTransaction, StartMining, ApplyNext, PayMiner, vars

\* Whatever is mined, saved and lost in restarts, a node without peers keeps
\* every block it has saved at the bottom of its chain.
THEOREM SavedBlocksSurviveCorrect == PeerMiners = << >> /\ Spec => SavedBlocksSurvive
<1>1. Init => SavedPrefix
  BY DEF Init, SavedPrefix, IsPrefix
<1>2. ASSUME PeerMiners = << >>
      PROVE  Spec => SavedBlocksSurvive
  <2>1. IInv /\ SavedPrefix /\ [Next]_vars => SavedPrefix'
    BY <1>2, SavedPrefixStep
  <2>2. IInv /\ SavedPrefix /\ [Next]_vars
          => [IsPrefix(disk, chain') /\ IsPrefix(disk, disk')]_vars
    BY <1>2, SavedPrefixStep
  <2>3. QED BY <2>1, <2>2, <1>1, InvHolds, PTL DEF Spec, SavedBlocksSurvive
<1>3. QED BY <1>2

\* A transaction leaves the queue for a block, in a restart, or because it
\* came after the block that clears the queue had copied it.
THEOREM QueuedUnlessLateCorrect == Spec => QueuedUnlessLate
<1> DEFINE Kept(t) == \/ Contains(mempool', t)
                      \/ \E k \in DOMAIN chain' : Contains(chain'[k].txs, t)
                      \/ job.phase = "paid" /\ ~Contains(job.txs, t)
                      \/ Restart
<1>1. ASSUME IInv, [Next]_vars, NEW i \in DOMAIN mempool
      PROVE  Kept(mempool[i])
  <2>1. mempool \in Seq(Txs) /\ chain \in Seq(Block) /\ i \in 1 .. Len(mempool)
    BY <1>1 DEF IInv, ChainTypes
  <2>2. CASE UNCHANGED mempool
    <3>1. Contains(mempool', mempool[i])
      BY <2>1, <2>2 DEF Contains
    <3>2. QED BY <3>1
  <2>3. ASSUME NEW t \in Txs, AddTransaction(t) PROVE Kept(mempool[i])
    <3>1. mempool' = Append(mempool, t)
      BY <2>3 DEF AddTransaction
    <3>2. i \in 1 .. Len(mempool') /\ mempool'[i] = mempool[i]
      BY <2>1, <3>1
    <3>3. Contains(mempool', mempool[i])
      BY <3>2 DEF Contains
    <3>4. QED BY <3>3
  <2>4. CASE CommitBlock
    <3>1. job \in Jobs
      BY <1>1, <2>4 DEF CommitBlock, Idle, IInv, ChainTypes
    <3>2. PICK b \in Block : chain' = Append(chain, b) /\ b.txs = job.txs
      <4>1. chain' = Append(chain, [hash |-> job.hash, prev |-> job.prev, index |-> job.index,
                                    txs |-> job.txs, miner |-> job.miner])
        BY <2>4 DEF CommitBlock
      <4>2. [hash |-> job.hash, prev |-> job.prev, index |-> job.index,
             txs |-> job.txs, miner |-> job.miner] \in Block
        BY <3>1 DEF Jobs, Block
      <4>3. QED BY <4>1, <4>2
    <3>3. Len(chain) + 1 \in DOMAIN chain' /\ chain'[Len(chain) + 1].txs = job.txs
      BY <3>2, <2>1
    <3>4. job.phase = "paid"
      BY <2>4 DEF CommitBlock
    <3>5. QED BY <3>3, <3>4
  <2>5. CASE Restart
    BY <2>5
  <2>6. QED
    BY <1>1, <2>2, <2>3, <2>4, <2>5
    DEF Next, StartMining, ApplyNext, PayMiner, ApplyBlocksFromPeer, SaveToDisc, vars
<1>2. IInv /\ [Next]_vars => [\A i \in DOMAIN mempool : Kept(mempool[i])]_vars
  BY <1>1
<1>3. QED BY <1>2, InvHolds, PTL DEF Spec, QueuedUnlessLate

\* The counting of validateTransaction keeps the queue of a node without
\* peers in nonce order from one block to the next.
THEOREM MempoolGaplessCorrect == PeerMiners = << >> /\ Spec => []MempoolGapless
<1>1. Init => MempoolGapless
  BY DEF Init, MempoolGapless
<1>2. ASSUME PeerMiners = << >>, IInv, MempoolGapless, [Next]_vars
      PROVE  MempoolGapless'
  <2>1. mempool \in Seq(Txs) /\ Len(mempool) \in Nat
    BY <1>2 DEF IInv, ChainTypes
  <2>2. ASSUME NEW t \in Txs, AddTransaction(t) PROVE MempoolGapless'
    <3> SUFFICES ASSUME job' = Idle, NEW i \in DOMAIN mempool'
                 PROVE  (Nonce[mempool[i]] = ledger.nonces[From[mempool[i]]]
                                               + QueuedUpTo(i - 1, From[mempool[i]]))'
      BY DEF MempoolGapless
    <3>1. mempool' = Append(mempool, t) /\ ledger' = ledger /\ job = Idle
      BY <2>2 DEF AddTransaction
    <3>2. \A j \in 1 .. Len(mempool) : mempool'[j] = mempool[j]
      BY <2>1, <3>1
    <3>3. \A n \in 0 .. Len(mempool) : \A a \in Addrs : QueuedUpTo(n, a)' = QueuedUpTo(n, a)
      <4> SUFFICES ASSUME NEW n \in 0 .. Len(mempool), NEW a \in Addrs
                   PROVE  {j \in 1 .. n : From[mempool'[j]] = a} = {j \in 1 .. n : From[mempool[j]] = a}
        BY DEF QueuedUpTo
      <4>1. \A j \in 1 .. n : mempool'[j] = mempool[j]
        BY <3>2, <2>1
      <4>2. QED BY <4>1
    <3>4. CASE i \in 1 .. Len(mempool)
      <4>1. i - 1 \in 0 .. Len(mempool) /\ From[mempool[i]] \in Addrs
        BY <3>4, <2>1, TxAssumption
      <4>2. Nonce[mempool[i]] = ledger.nonces[From[mempool[i]]] + QueuedUpTo(i - 1, From[mempool[i]])
        BY <1>2, <3>1, <3>4 DEF MempoolGapless
      <4>3. QED BY <3>1, <3>2, <3>3, <3>4, <4>1, <4>2
    <3>5. CASE i = Len(mempool) + 1
      <4>1. mempool'[i] = t /\ i - 1 = Len(mempool) /\ From[t] \in Addrs
        BY <2>1, <3>1, <3>5, TxAssumption
      <4>2. Nonce[t] = ledger.nonces[From[t]] + QueuedUpTo(Len(mempool), From[t])
        BY <2>2 DEF AddTransaction, ValidateTransaction, NextAvailableNonce
      <4>3. Len(mempool) \in 0 .. Len(mempool)
        BY <2>1
      <4>4. QED BY <3>1, <3>3, <4>1, <4>2, <4>3
    <3>6. QED BY <2>1, <3>1, <3>4, <3>5
  <2>3. CASE mempool' = << >>
    BY <2>3 DEF MempoolGapless
  <2>4. CASE job' # Idle
    BY <2>4 DEF MempoolGapless
  <2>5. CASE UNCHANGED <<mempool, ledger, job>>
    BY <1>2, <2>5 DEF MempoolGapless, QueuedUpTo
  <2>6. ASSUME NEW m \in Miners, StartMining(m) PROVE job' # Idle
    BY <2>6 DEF StartMining, Idle
  <2>7. CASE ApplyNext \/ PayMiner
    <3>1. job \in Jobs
      BY <1>2, <2>7 DEF ApplyNext, PayMiner, Idle, IInv, ChainTypes
    <3>2. job'.phase \in {"txs", "paid"}
      BY <3>1, <2>7 DEF ApplyNext, PayMiner, Jobs
    <3>3. QED BY <3>2, <2>4 DEF Idle
  <2>8. QED
    BY <1>2, <2>2, <2>3, <2>4, <2>5, <2>6, <2>7
    DEF Next, CommitBlock, SaveToDisc, Restart, vars
<1>3. QED
  <2>1. ASSUME PeerMiners = << >> PROVE Spec => []MempoolGapless
    <3>1. IInv /\ MempoolGapless /\ [Next]_vars => MempoolGapless'
      BY <2>1, <1>2
    <3>2. QED BY <3>1, <1>1, InvHolds, PTL DEF Spec
  <2>2. QED BY <2>1

-----------------------------------------------------------------------------
(* The ledger is a fold over blocks of folds over transactions.              *)
ByTx(height, l, t) == ApplyTx(l, t, height)
ByBlock(p, l, b) == ReplayBlock(l, b)

TxFold == INSTANCE Folding WITH op <- ByTx
BlockFold == INSTANCE Folding WITH op <- ByBlock

ApplyTxs(l, txs, height) == FoldLeft(LAMBDA m, t : ApplyTx(m, t, height), l, txs)
ReplayBlocks(l, bs) == FoldLeft(ReplayBlock, l, bs)

\* The loop over the transactions is a fold.
LEMMA TxFoldIs == \A l, txs, height : ApplyTxs(l, txs, height) = TxFold!Fold(height, l, txs)
  BY DEF ApplyTxs, TxFold!Fold, TxFold!FoldLeft, FoldLeft, MapThenFoldSet,
         TxFold!MapThenFoldSet, ByTx, TxFold!Max, Max

\* The loop over the blocks is a fold.
LEMMA BlockFoldIs == \A l, bs : ReplayBlocks(l, bs) = BlockFold!Fold(0, l, bs)
  BY DEF ReplayBlocks, BlockFold!Fold, BlockFold!FoldLeft, FoldLeft, MapThenFoldSet,
         BlockFold!MapThenFoldSet, ByBlock, BlockFold!Max, Max

\* Applying no transaction, and one more.
LEMMA ApplyTxsFacts ==
  ASSUME NEW l, NEW height
  PROVE  /\ ApplyTxs(l, << >>, height) = l
         /\ \A txs \in Seq(Txs), t \in Txs :
              ApplyTxs(l, Append(txs, t), height) = ApplyTx(ApplyTxs(l, txs, height), t, height)
<1>1. ApplyTxs(l, << >>, height) = l
  BY TxFoldIs, TxFold!FoldEmpty
<1>2. ASSUME NEW txs \in Seq(Txs), NEW t \in Txs
      PROVE  ApplyTxs(l, Append(txs, t), height) = ApplyTx(ApplyTxs(l, txs, height), t, height)
  <2>1. TxFold!Fold(height, l, Append(txs, t)) = ByTx(height, TxFold!Fold(height, l, txs), t)
    BY TxFold!FoldAppend
  <2>2. QED BY <2>1, TxFoldIs, Zenon DEF ByTx
<1>3. QED BY <1>1, <1>2

\* A block: its transactions, then its reward.
LEMMA ReplayBlockIs ==
  \A l, b : ReplayBlock(l, b)
              = PayCoinbase(ApplyTxs(l, b.txs, b.index), b.hash, b.miner,
                            Reward + MinerShare(Fees(b.txs)), b.index)
  BY Zenon DEF ReplayBlock, ApplyTxs

\* Replaying no block, one more, and more blocks behind others.
LEMMA ReplayBlocksFacts ==
  ASSUME NEW l
  PROVE  /\ ReplayBlocks(l, << >>) = l
         /\ \A bs \in Seq(Block), b \in Block :
              ReplayBlocks(l, Append(bs, b)) = ReplayBlock(ReplayBlocks(l, bs), b)
         /\ \A bs, cs \in Seq(Block) :
              ReplayBlocks(l, bs \o cs) = ReplayBlocks(ReplayBlocks(l, bs), cs)
<1>1. ReplayBlocks(l, << >>) = l
  BY BlockFoldIs, BlockFold!FoldEmpty
<1>2. ASSUME NEW bs \in Seq(Block), NEW b \in Block
      PROVE  ReplayBlocks(l, Append(bs, b)) = ReplayBlock(ReplayBlocks(l, bs), b)
  <2>1. BlockFold!Fold(0, l, Append(bs, b)) = ByBlock(0, BlockFold!Fold(0, l, bs), b)
    BY BlockFold!FoldAppend
  <2>2. QED BY <2>1, BlockFoldIs, Zenon DEF ByBlock
<1>3. ASSUME NEW bs \in Seq(Block), NEW cs \in Seq(Block)
      PROVE  ReplayBlocks(l, bs \o cs) = ReplayBlocks(ReplayBlocks(l, bs), cs)
  <2>1. BlockFold!Fold(0, l, bs \o cs) = BlockFold!Fold(0, BlockFold!Fold(0, l, bs), cs)
    BY BlockFold!FoldConcat
  <2>2. QED BY <2>1, BlockFoldIs, Zenon
<1>4. QED BY <1>1, <1>2, <1>3

\* The tail of a concatenation.
LEMMA TailConcat ==
  ASSUME NEW S, NEW s \in Seq(S), s # << >>, NEW t \in Seq(S)
  PROVE  Tail(s \o t) = Tail(s) \o t
<1> DEFINE c == s \o t
           u == Tail(c)
           v == Tail(s) \o t
<1>1. /\ c \in Seq(S) /\ Len(c) = Len(s) + Len(t)
      /\ \A i \in 1 .. Len(s) + Len(t) : c[i] = IF i <= Len(s) THEN s[i] ELSE t[i - Len(s)]
  BY ConcatProperties
<1>2. /\ Tail(s) \in Seq(S) /\ Len(Tail(s)) = Len(s) - 1
      /\ \A i \in 1 .. Len(Tail(s)) : Tail(s)[i] = s[i + 1]
  BY HeadTailProperties
<1>3. Len(s) \in Nat \ {0} /\ Len(t) \in Nat
  BY EmptySeq, LenProperties
<1>4. /\ v \in Seq(S) /\ Len(v) = Len(Tail(s)) + Len(t)
      /\ \A i \in 1 .. Len(Tail(s)) + Len(t) :
           v[i] = IF i <= Len(Tail(s)) THEN Tail(s)[i] ELSE t[i - Len(Tail(s))]
  BY <1>2, ConcatProperties
<1> HIDE DEF c
<1>5. c # << >>
  BY <1>1, <1>3
<1>6. u \in Seq(S) /\ Len(u) = Len(c) - 1 /\ \A i \in 1 .. Len(u) : u[i] = c[i + 1]
  BY <1>1, <1>5, HeadTailProperties
<1> HIDE DEF u, v
<1>7. Len(u) = Len(v) /\ Len(u) = Len(s) - 1 + Len(t)
  BY <1>1, <1>2, <1>3, <1>4, <1>6
<1>8. ASSUME NEW i \in 1 .. Len(u) PROVE u[i] = v[i]
  <2>1. i \in Int /\ 1 <= i /\ i <= Len(s) - 1 + Len(t) /\ i + 1 \in 1 .. Len(s) + Len(t)
    BY <1>3, <1>7
  <2>2. u[i] = c[i + 1]
    BY <1>6
  <2>3. CASE i <= Len(s) - 1
    <3>1. i + 1 <= Len(s) /\ i \in 1 .. Len(Tail(s)) /\ i \in 1 .. Len(Tail(s)) + Len(t)
      BY <1>2, <1>3, <2>1, <2>3
    <3>2. c[i + 1] = s[i + 1] /\ v[i] = Tail(s)[i] /\ Tail(s)[i] = s[i + 1]
      BY <1>1, <1>2, <1>4, <2>1, <3>1
    <3>3. QED BY <2>2, <3>2
  <2>4. CASE ~(i <= Len(s) - 1)
    <3>1. /\ ~(i + 1 <= Len(s)) /\ ~(i <= Len(Tail(s))) /\ i \in 1 .. Len(Tail(s)) + Len(t)
          /\ (i + 1) - Len(s) = i - Len(Tail(s))
      BY <1>2, <1>3, <2>1, <2>4
    <3>2. c[i + 1] = t[(i + 1) - Len(s)] /\ v[i] = t[i - Len(Tail(s))]
      BY <1>1, <1>4, <2>1, <3>1
    <3>3. QED BY <2>2, <3>1, <3>2
  <2>5. QED BY <2>3, <2>4
<1>9. u = v
  BY <1>4, <1>6, <1>7, <1>8, SeqEqual
<1>10. QED BY <1>9 DEF c, u, v

\* Appending is concatenating.
LEMMA AppendConcat ==
  ASSUME NEW S, NEW s \in Seq(S), NEW x \in S
  PROVE  <<x>> \in Seq(S) /\ Append(s, x) = s \o <<x>>
  OBVIOUS

\* A replay goes on where a shorter chain's ended.
LEMMA ReplayFacts ==
  ASSUME NEW c \in Seq(Block), c # << >>
  PROVE  /\ \A b \in Block : Replay(Append(c, b)) = ReplayBlock(Replay(c), b)
         /\ \A bs \in Seq(Block) : Replay(c \o bs) = ReplayBlocks(Replay(c), bs)
<1>1. \A d : Replay(d) = ReplayBlocks(EmptyLedger, Tail(d))
  BY Zenon DEF Replay, ReplayBlocks
<1>2. Tail(c) \in Seq(Block)
  BY HeadTailProperties
<1>3. ASSUME NEW b \in Block PROVE Replay(Append(c, b)) = ReplayBlock(Replay(c), b)
  <2>1. Tail(Append(c, b)) = Append(Tail(c), b)
    <3>1. <<b>> \in Seq(Block) /\ Append(c, b) = c \o <<b>> /\ Append(Tail(c), b) = Tail(c) \o <<b>>
      BY <1>2, AppendConcat
    <3>2. Tail(c \o <<b>>) = Tail(c) \o <<b>>
      BY <3>1, TailConcat
    <3>3. QED BY <3>1, <3>2
  <2>2. \A bs \in Seq(Block) : ReplayBlocks(EmptyLedger, Append(bs, b))
                                 = ReplayBlock(ReplayBlocks(EmptyLedger, bs), b)
    BY ReplayBlocksFacts, ZenonT(30)
  <2>3. QED BY <1>1, <1>2, <2>1, <2>2, Zenon
<1>4. ASSUME NEW bs \in Seq(Block) PROVE Replay(c \o bs) = ReplayBlocks(Replay(c), bs)
  <2>1. Tail(c \o bs) = Tail(c) \o bs
    BY TailConcat
  <2>2. \A ds, es \in Seq(Block) : ReplayBlocks(EmptyLedger, ds \o es)
                                     = ReplayBlocks(ReplayBlocks(EmptyLedger, ds), es)
    <3> DEFINE l == EmptyLedger
    <3> HIDE DEF l
    <3>1. \A ds, es \in Seq(Block) : ReplayBlocks(l, ds \o es) = ReplayBlocks(ReplayBlocks(l, ds), es)
      BY ReplayBlocksFacts
    <3>2. QED BY <3>1 DEF l
  <2>3. QED BY <1>1, <1>2, <2>1, <2>2, Zenon
<1>5. QED BY <1>3, <1>4

\* Moving the first element of what is left behind what is done.
LEMMA MoveHead ==
  ASSUME NEW S, NEW s \in Seq(S), NEW q \in Seq(S), q # << >>
  PROVE  /\ Head(q) \in S /\ Append(s, Head(q)) \in Seq(S) /\ Tail(q) \in Seq(S)
         /\ Append(s, Head(q)) \o Tail(q) = s \o q
<1>1. Head(q) \in S /\ Tail(q) \in Seq(S) /\ Append(s, Head(q)) \in Seq(S)
  BY HeadTailProperties
<1>2. <<Head(q)>> \in Seq(S) /\ Append(s, Head(q)) = s \o <<Head(q)>>
  BY <1>1
<1>3. <<Head(q)>> \o Tail(q) = q
  <2> DEFINE u == <<Head(q)>> \o Tail(q)
  <2>1. /\ u \in Seq(S) /\ Len(u) = 1 + Len(Tail(q))
        /\ \A i \in 1 .. 1 + Len(Tail(q)) :
             u[i] = IF i <= 1 THEN Head(q) ELSE Tail(q)[i - 1]
    BY <1>1, <1>2, ConcatProperties
  <2>2. Len(Tail(q)) = Len(q) - 1 /\ \A i \in 1 .. Len(Tail(q)) : Tail(q)[i] = q[i + 1]
    BY HeadTailProperties
  <2>3. Head(q) = q[1] /\ Len(q) \in Nat
    OBVIOUS
  <2> HIDE DEF u
  <2>4. ASSUME NEW i \in 1 .. Len(u) PROVE u[i] = q[i]
    BY <2>1, <2>2, <2>3
  <2>5. u = q
    BY <2>1, <2>2, <2>3, <2>4, SeqEqual
  <2>6. QED BY <2>5 DEF u
<1>4. (s \o <<Head(q)>>) \o Tail(q) = s \o (<<Head(q)>> \o Tail(q))
  BY <1>1, <1>2, ConcatAssociative
<1>5. QED BY <1>1, <1>2, <1>3, <1>4, Zenon

\* While a job runs, the ledger is the replay of the chain and of what the
\* job has applied of its block.
JobBlock == [hash |-> job.hash, prev |-> job.prev, index |-> job.index,
             txs |-> job.txs, miner |-> job.miner]
ReplayInv ==
  ~raced =>
    /\ job = Idle => ledger = Replay(chain)
    /\ job.phase = "txs" =>
         \E done \in Seq(Txs) : /\ job.txs = done \o job.todo
                                /\ ledger = ApplyTxs(Replay(chain), done, job.index)
    /\ job.phase = "paid" => ledger = ReplayBlock(Replay(chain), JobBlock)

\* Every step keeps the ledger a replay.
LEMMA ReplayStep == IInv /\ ReplayInv /\ [Next]_vars => ReplayInv'
<1> SUFFICES ASSUME IInv, ReplayInv, [Next]_vars, ~raced' PROVE ReplayInv'
  BY DEF ReplayInv
<1>1. /\ chain \in Seq(Block) /\ chain # << >> /\ mempool \in Seq(Txs)
      /\ job = Idle \/ job \in Jobs
  BY DEF IInv, ChainTypes
<1>2. Idle.phase = "idle" /\ \A j \in Jobs : j.phase \in {"txs", "paid"} /\ j # Idle
  BY DEF Idle, Jobs
<1>3. CASE UNCHANGED <<chain, ledger, job, raced>>
  BY <1>3 DEF ReplayInv, JobBlock
<1>4. ASSUME NEW m \in Miners, StartMining(m) PROVE ReplayInv'
  <2>1. /\ job = Idle /\ ledger' = ledger /\ chain' = chain /\ ~raced
        /\ job'.phase = "txs" /\ job'.txs = mempool /\ job'.todo = mempool
    BY <1>4 DEF StartMining
  <2>2. ledger = Replay(chain)
    BY <2>1 DEF ReplayInv
  <2>3. << >> \in Seq(Txs) /\ mempool = << >> \o mempool
    BY <1>1
  <2>4. ledger' = ApplyTxs(Replay(chain'), << >>, job'.index)
    BY <2>1, <2>2, ApplyTxsFacts, Zenon
  <2>5. job' # Idle
    BY <1>2, <2>1
  <2>6. QED BY <2>1, <2>3, <2>4, <2>5 DEF ReplayInv
<1>5. CASE ApplyNext
  <2>1. /\ job.phase = "txs" /\ job.todo # << >> /\ chain' = chain /\ ~raced
        /\ ledger' = ApplyTx(ledger, Head(job.todo), job.index)
        /\ job' = [job EXCEPT !.todo = Tail(@)]
    BY <1>5 DEF ApplyNext
  <2>2. job \in Jobs /\ job.todo \in Seq(Txs)
    BY <1>1, <1>2, <2>1 DEF Jobs
  <2>3. /\ job'.phase = "txs" /\ job'.todo = Tail(job.todo) /\ job'.txs = job.txs
        /\ job'.index = job.index /\ job' # Idle
    BY <1>2, <2>1, <2>2 DEF Jobs
  <2>4. PICK done \in Seq(Txs) : /\ job.txs = done \o job.todo
                                 /\ ledger = ApplyTxs(Replay(chain), done, job.index)
    BY <2>1 DEF ReplayInv
  <2> DEFINE more == Append(done, Head(job.todo))
  <2>5. Head(job.todo) \in Txs /\ more \in Seq(Txs) /\ more \o Tail(job.todo) = done \o job.todo
    BY <2>1, <2>2, MoveHead, Zenon
  <2>6. ledger' = ApplyTxs(Replay(chain'), more, job'.index)
    <3>1. \A txs \in Seq(Txs), t \in Txs :
            ApplyTxs(Replay(chain), Append(txs, t), job.index)
              = ApplyTx(ApplyTxs(Replay(chain), txs, job.index), t, job.index)
      BY ApplyTxsFacts, Zenon
    <3>2. QED BY <2>1, <2>3, <2>4, <2>5, <3>1, Zenon
  <2> HIDE DEF more
  <2>7. job'.txs = more \o job'.todo
    BY <2>3, <2>4, <2>5
  <2>8. QED BY <2>3, <2>5, <2>6, <2>7 DEF ReplayInv
<1>6. CASE PayMiner
  <2>1. /\ job.phase = "txs" /\ job.todo = << >> /\ chain' = chain /\ ~raced
        /\ ledger' = PayCoinbase(ledger, job.hash, job.miner,
                                 Reward + MinerShare(Fees(job.txs)), job.index)
        /\ job' = [job EXCEPT !.phase = "paid"]
    BY <1>6 DEF PayMiner
  <2>2. job \in Jobs
    BY <1>1, <1>2, <2>1
  <2>3. /\ job'.phase = "paid" /\ job' # Idle
        /\ job'.hash = job.hash /\ job'.prev = job.prev /\ job'.index = job.index
        /\ job'.txs = job.txs /\ job'.miner = job.miner
    BY <1>2, <2>1, <2>2 DEF Jobs
  <2>4. PICK done \in Seq(Txs) : /\ job.txs = done \o job.todo
                                 /\ ledger = ApplyTxs(Replay(chain), done, job.index)
    BY <2>1 DEF ReplayInv
  <2>5. job.txs = done
    BY <2>1, <2>4
  <2>6. /\ JobBlock.txs = job.txs /\ JobBlock.index = job.index
        /\ JobBlock.hash = job.hash /\ JobBlock.miner = job.miner
    BY DEF JobBlock
  <2>7. ledger' = ReplayBlock(Replay(chain), JobBlock)
    BY <2>1, <2>4, <2>5, <2>6, ReplayBlockIs
  <2>8. JobBlock' = JobBlock
    BY <2>3 DEF JobBlock
  <2>9. QED BY <2>1, <2>3, <2>7, <2>8 DEF ReplayInv
<1>7. CASE CommitBlock
  <2>1. /\ job.phase = "paid" /\ chain' = Append(chain, JobBlock) /\ job' = Idle /\ ~raced
        /\ ledger' = ledger
    BY <1>7 DEF CommitBlock, JobBlock
  <2>2. job \in Jobs
    BY <1>1, <1>2, <2>1
  <2>3. JobBlock \in Block
    BY <2>2, JobFacts DEF JobBlock
  <2>4. ledger = ReplayBlock(Replay(chain), JobBlock)
    BY <2>1 DEF ReplayInv
  <2>5. ledger' = Replay(chain')
    BY <1>1, <2>1, <2>3, <2>4, ReplayFacts
  <2>6. QED BY <1>2, <2>1, <2>5 DEF ReplayInv
<1>8. ASSUME NEW first \in DOMAIN PeerMiners, NEW last \in DOMAIN PeerMiners,
             ApplyBlocksFromPeer(first, last)
      PROVE  ReplayInv'
  <2> DEFINE kept == IF Diverges(first) THEN TruncateChainTo(first)
                     ELSE [chain |-> chain, ledger |-> ledger]
             new == PeerBlocks(kept.chain, first, last)
  <2>1. /\ chain' = kept.chain \o new /\ ledger' = ReplayBlocks(kept.ledger, new)
        /\ ~raced /\ job = Idle /\ job' = job
    BY <1>8 DEF ApplyBlocksFromPeer, ReplayBlocks
  <2>2. kept.ledger = Replay(kept.chain)
    <3>1. ledger = Replay(chain)
      BY <2>1 DEF ReplayInv
    <3>2. QED BY <3>1 DEF TruncateChainTo
  <2>3. kept.chain \in Seq(Block) /\ kept.chain # << >>
    <3>1. CASE Diverges(first)
      <4>1. kept.chain = SubSeq(chain, 1, first)
        BY <3>1 DEF TruncateChainTo
      <4>2. first \in 1 .. Len(chain)
        BY <1>1, <3>1, ParameterAssumption DEF Diverges
      <4>3. SubSeq(chain, 1, first) \in Seq(Block) /\ Len(SubSeq(chain, 1, first)) = first
        BY <1>1, <4>2
      <4>4. SubSeq(chain, 1, first) # << >>
        <5>1. \A c \in Seq(Block) : Len(c) = first /\ first >= 1 => c # << >>
          OBVIOUS
        <5>2. first >= 1
          BY <4>2
        <5>3. QED BY <4>3, <5>1, <5>2, Zenon
      <4>5. kept.chain \in Seq(Block)
        BY <4>1, <4>3, Zenon
      <4>6. kept.chain # << >>
        BY <4>1, <4>4, Zenon
      <4>7. QED BY <4>5, <4>6
    <3>2. CASE ~Diverges(first)
      BY <1>1, <3>2
    <3>3. QED BY <3>1, <3>2
  <2> HIDE DEF kept
  <2>4. new \in Seq(Block)
    BY <2>3, PeerBlocksFacts
  <2> HIDE DEF new
  <2>5. ledger' = Replay(chain')
    BY <2>1, <2>2, <2>3, <2>4, ReplayFacts
  <2>6. QED BY <1>2, <2>1, <2>5 DEF ReplayInv
<1>9. CASE Restart
  BY <1>2, <1>9 DEF Restart, ReplayInv
<1>10. QED
  BY <1>3, <1>4, <1>5, <1>6, <1>7, <1>8, <1>9
  DEF Next, AddTransaction, SaveToDisc, vars

\* A new ledger is the replay of genesis.
LEMMA ReplayInit == Init => ReplayInv
<1> SUFFICES ASSUME Init PROVE ReplayInv
  OBVIOUS
<1>1. ledger = EmptyLedger /\ chain = <<Genesis>> /\ job = Idle
  BY DEF Init
<1>2. Tail(<<Genesis>>) = << >>
  OBVIOUS
<1>3. Replay(<<Genesis>>) = ReplayBlocks(EmptyLedger, << >>)
  BY <1>2, Zenon DEF Replay, ReplayBlocks
<1>4. ledger = Replay(chain)
  BY <1>1, <1>3, ReplayBlocksFacts
<1>5. job.phase = "idle"
  BY <1>1 DEF Idle
<1>6. QED BY <1>4, <1>5 DEF ReplayInv

\* The coins in their order, the balances and the nonces are those a replay
\* of the chain gives, after any mining, peer's blocks, saves and restarts.
THEOREM LedgerIsReplayCorrect == Spec => []LedgerIsReplay
<1>1. ReplayInv => LedgerIsReplay
  BY DEF ReplayInv, LedgerIsReplay
<1>2. QED BY <1>1, ReplayInit, ReplayStep, InvHolds, PTL DEF Spec

-----------------------------------------------------------------------------
(* The UTXO set.  Every coin is listed once, under its own address, and      *)
(* nothing else is listed.                                                   *)
Outpoints == (Txs \X {0, 1}) \cup (Hashes \X {0})

Listed(q) == {q[i] : i \in DOMAIN q}
Distinct(q) == \A i, j \in DOMAIN q : q[i] = q[j] => i = j
Held(s, a) == {o \in DOMAIN s.coins : s.coins[o].address = a}

WellKept(s) ==
  /\ DOMAIN s.coins \subseteq Outpoints
  /\ \A o \in DOMAIN s.coins : s.coins[o].address \in Addrs /\ s.coins[o].amount \in Nat
  /\ s.index \in [Addrs -> Seq(Outpoints)]
  /\ \A a \in Addrs : Distinct(s.index[a]) /\ Listed(s.index[a]) = Held(s, a)

Value(s) == [o \in DOMAIN s.coins |-> s.coins[o].amount]

ByCoin(s, sum, o) == sum + (IF o \in DOMAIN s.coins THEN s.coins[o].amount ELSE 0)
ByTake(p, sel, o) ==
  IF sel.total >= p.target \/ o \notin DOMAIN p.set.coins THEN sel
  ELSE IF ~IsMature(p.set.coins[o], p.height) THEN sel
  ELSE [picked |-> Append(sel.picked, o), total |-> sel.total + p.set.coins[o].amount]
BySpend(p, s, o) == SpendUTXO(s, o)

CoinFold == INSTANCE Folding WITH op <- ByCoin
TakeFold == INSTANCE Folding WITH op <- ByTake
SpendFold == INSTANCE Folding WITH op <- BySpend

Worth(s, a) == CoinFold!Sum(Value(s), Held(s, a))

\* Finite sets are those the instanced fold means.
LEMMA FiniteBridge == \A S : IsFiniteSet(S) <=> CoinFold!IsFiniteSet(S)
  BY DEF IsFiniteSet, CoinFold!IsFiniteSet

\* The sum over one more coin.
LEMMA SumInsertIs ==
  ASSUME NEW S, IsFiniteSet(S), NEW x, x \notin S, NEW f, \A y \in S \cup {x} : f[y] \in Int
  PROVE  CoinFold!Sum(f, S \cup {x}) = CoinFold!Sum(f, S) + f[x]
  BY FiniteBridge, CoinFold!SumInsert

\* The lists of an address, one element at a time.
LEMMA ListedUpTo ==
  ASSUME NEW S, NEW q \in Seq(S), Distinct(q), NEW n \in Nat, n + 1 <= Len(q)
  PROVE  LET P(k) == {q[i] : i \in 1 .. k}
         IN  P(0) = {} /\ q[n + 1] \notin P(n) /\ P(n + 1) = P(n) \cup {q[n + 1]}
<1>1. DOMAIN q = 1 .. Len(q) /\ Len(q) \in Nat
  BY LenProperties
<1>2. {q[i] : i \in 1 .. 0} = {}
  OBVIOUS
<1>3. \A i \in 1 .. n : q[i] # q[n + 1]
  <2> SUFFICES ASSUME NEW i \in 1 .. n, q[i] = q[n + 1] PROVE FALSE
    OBVIOUS
  <2>1. i \in DOMAIN q /\ n + 1 \in DOMAIN q /\ i # n + 1
    BY <1>1
  <2>2. QED BY <2>1 DEF Distinct
<1>4. 1 .. n + 1 = (1 .. n) \cup {n + 1}
  OBVIOUS
<1>5. QED BY <1>2, <1>3, <1>4

\* What getBalance adds up is the worth of the coins held.
LEMMA WorthIsBalance ==
  ASSUME NEW s, WellKept(s), NEW a \in Addrs
  PROVE  /\ GetBalance(s, a) = Worth(s, a)
         /\ IsFiniteSet(Held(s, a))
         /\ Worth(s, a) \in Nat
         /\ \A o \in Held(s, a) : Value(s)[o] \in Nat
<1> DEFINE q == s.index[a]
           n == Len(q)
           P(k) == {q[i] : i \in 1 .. k}
<1>1. q \in Seq(Outpoints) /\ Distinct(q) /\ Listed(q) = Held(s, a)
  BY DEF WellKept
<1>2. \A o \in Held(s, a) : o \in DOMAIN s.coins /\ s.coins[o].amount \in Nat
                            /\ Value(s)[o] = s.coins[o].amount
  BY DEF WellKept, Held, Value
<1>3. PICK h : CoinFold!Runs(h, s, 0, q) /\ CoinFold!Fold(s, 0, q) = h[Len(q)]
  BY <1>1, CoinFold!FoldRuns
<1>4. GetBalance(s, a) = h[n]
  <2>1. GetBalance(s, a) = CoinFold!Fold(s, 0, q)
    BY DEF GetBalance, CoinFold!Fold, CoinFold!FoldLeft, FoldLeft, MapThenFoldSet,
           CoinFold!MapThenFoldSet, ByCoin, CoinFold!Max, Max
  <2>2. QED BY <1>3, <2>1
<1>5. n \in Nat /\ DOMAIN q = 1 .. n
  BY <1>1, LenProperties
<1>6. h[0] = 0 /\ \A k \in 1 .. n : h[k] = ByCoin(s, h[k - 1], q[k])
  BY <1>3 DEF CoinFold!Runs
<1>7. P(n) = Held(s, a)
  BY <1>1, <1>5 DEF Listed
<1> HIDE DEF q
<1> DEFINE Q == {k \in Nat : k <= n => /\ IsFiniteSet(P(k)) /\ P(k) \subseteq Held(s, a)
                                       /\ h[k] = CoinFold!Sum(Value(s), P(k))}
<1>8. 0 \in Q
  <2>1. P(0) = {}
    OBVIOUS
  <2>2. CoinFold!Sum(Value(s), P(0)) = 0 /\ IsFiniteSet(P(0))
    BY <2>1, CoinFold!SumEmpty, FS_EmptySet, Zenon
  <2>3. QED BY <1>6, <2>1, <2>2
<1>9. ASSUME NEW k \in Nat, k \in Q PROVE k + 1 \in Q
  <2> SUFFICES ASSUME k + 1 <= n
               PROVE  /\ IsFiniteSet(P(k + 1)) /\ P(k + 1) \subseteq Held(s, a)
                      /\ h[k + 1] = CoinFold!Sum(Value(s), P(k + 1))
    OBVIOUS
  <2>1. IsFiniteSet(P(k)) /\ P(k) \subseteq Held(s, a) /\ h[k] = CoinFold!Sum(Value(s), P(k))
    BY <1>5, <1>9
  <2>2. q[k + 1] \notin P(k) /\ P(k + 1) = P(k) \cup {q[k + 1]}
    BY <1>1, ListedUpTo
  <2>3. q[k + 1] \in Held(s, a)
    BY <1>1, <1>5 DEF Listed
  <2>4. h[k + 1] = h[k] + Value(s)[q[k + 1]]
    <3>1. k + 1 \in 1 .. n /\ (k + 1) - 1 = k
      BY <1>5
    <3>2. h[k + 1] = ByCoin(s, h[k], q[k + 1])
      BY <1>6, <3>1
    <3>3. QED BY <1>2, <2>3, <3>2 DEF ByCoin
  <2> HIDE DEF P
  <2>5. \A o \in P(k) \cup {q[k + 1]} : Value(s)[o] \in Int
    BY <1>2, <2>1, <2>3
  <2>6. CoinFold!Sum(Value(s), P(k) \cup {q[k + 1]}) = CoinFold!Sum(Value(s), P(k)) + Value(s)[q[k + 1]]
    <3> DEFINE T == P(k)
               x == q[k + 1]
               f == Value(s)
    <3>1. IsFiniteSet(T) /\ x \notin T /\ \A y \in T \cup {x} : f[y] \in Int
      BY <2>1, <2>2, <2>5
    <3> HIDE DEF T, x, f
    <3>2. CoinFold!Sum(f, T \cup {x}) = CoinFold!Sum(f, T) + f[x]
      BY <3>1, SumInsertIs
    <3>3. QED BY <3>2 DEF T, x, f
  <2>7. IsFiniteSet(P(k) \cup {q[k + 1]})
    BY <2>1, FS_AddElement, Zenon
  <2>8. QED BY <2>1, <2>2, <2>3, <2>4, <2>6, <2>7
<1> HIDE DEF Q
<1>10. n \in Q
  BY <1>5, <1>8, <1>9, CoinFold!NatSetInduction
<1>11. IsFiniteSet(Held(s, a)) /\ h[n] = CoinFold!Sum(Value(s), Held(s, a))
  <2> HIDE DEF P
  <2>1. QED BY <1>5, <1>7, <1>10 DEF Q
<1>12. CoinFold!Sum(Value(s), Held(s, a)) \in Nat
  <2>1. \A o \in Held(s, a) : Value(s)[o] \in Nat
    BY <1>2
  <2>2. QED BY <1>11, <2>1, FiniteBridge, CoinFold!SumNat
<1>13. QED BY <1>2, <1>4, <1>11, <1>12 DEF Worth

\* Appending lists one more element, once.
LEMMA AppendListed ==
  ASSUME NEW S, NEW q \in Seq(S), Distinct(q), NEW x \in S, x \notin Listed(q)
  PROVE  /\ Append(q, x) \in Seq(S) /\ Distinct(Append(q, x))
         /\ Listed(Append(q, x)) = Listed(q) \cup {x}
<1> DEFINE r == Append(q, x)
<1>1. /\ r \in Seq(S) /\ Len(r) = Len(q) + 1 /\ r[Len(q) + 1] = x
      /\ \A i \in 1 .. Len(q) : r[i] = q[i]
  OBVIOUS
<1>2. /\ Len(q) \in Nat /\ DOMAIN q = 1 .. Len(q) /\ DOMAIN r = 1 .. Len(q) + 1
      /\ 1 .. Len(q) + 1 = (1 .. Len(q)) \cup {Len(q) + 1} /\ Len(q) + 1 \notin 1 .. Len(q)
  BY <1>1
<1> HIDE DEF r
<1>3. \A i \in 1 .. Len(q) : r[i] # x
  BY <1>1, <1>2 DEF Listed
<1>4. Distinct(r)
  BY <1>1, <1>2, <1>3 DEF Distinct
<1>5. Listed(r) = Listed(q) \cup {x}
  BY <1>1, <1>2 DEF Listed
<1>6. QED BY <1>1, <1>4, <1>5 DEF r

\* swapRemove takes one element off the list, whatever it does to the order.
LEMMA SwapRemoveListed ==
  ASSUME NEW S, NEW q \in Seq(S), Distinct(q), NEW i \in 1 .. Len(q)
  PROVE  /\ SwapRemove(q, i) \in Seq(S) /\ Distinct(SwapRemove(q, i))
         /\ Listed(SwapRemove(q, i)) = Listed(q) \ {q[i]}
<1> DEFINE n == Len(q)
           w == [q EXCEPT ![i] = Last(q)]
           r == SubSeq(w, 1, n - 1)
<1>1. n \in Nat /\ i \in 1 .. n /\ n >= 1 /\ DOMAIN q = 1 .. n /\ \A j \in 1 .. n : q[j] \in S
  BY LenProperties, ElementOfSeq
<1>2. Last(q) = q[n] /\ q[n] \in S
  BY <1>1 DEF Last
<1>3. w \in Seq(S) /\ Len(w) = n /\ \A j \in 1 .. n : w[j] = IF j = i THEN q[n] ELSE q[j]
  BY <1>2, ExceptSeq
<1> HIDE DEF w
<1>4. \A j \in 1 .. n - 1 : w[j] \in S
  BY <1>1, <1>2, <1>3
<1>5. /\ r \in Seq(S) /\ Len(r) = n - 1
      /\ \A j \in 1 .. n - 1 : r[j] = IF j = i THEN q[n] ELSE q[j]
  <2>1. 1 \in Int /\ n - 1 \in Int
    BY <1>1
  <2>2. /\ r \in Seq(S) /\ Len(r) = (IF 1 <= n - 1 THEN (n - 1) - 1 + 1 ELSE 0)
        /\ \A j \in 1 .. (n - 1) - 1 + 1 : r[j] = w[1 + j - 1]
    BY <1>4, <2>1, SubSeqProperties
  <2> HIDE DEF r, n
  <2>3. (n - 1) - 1 + 1 = n - 1 /\ \A j \in 1 .. n - 1 : 1 + j - 1 = j /\ j \in 1 .. n
    BY <1>1
  <2>4. Len(r) = n - 1
    BY <1>1, <2>2
  <2>5. \A j \in 1 .. n - 1 : r[j] = w[j]
    BY <2>2, <2>3
  <2>6. QED BY <1>3, <2>2, <2>3, <2>4, <2>5
<1>6. DOMAIN r = 1 .. n - 1
  BY <1>5, LenProperties
<1> HIDE DEF r, n
<1>7. \A j, k \in 1 .. n : q[j] = q[k] => j = k
  BY <1>1 DEF Distinct
<1>8. Distinct(r)
  <2> SUFFICES ASSUME NEW j \in 1 .. n - 1, NEW k \in 1 .. n - 1, r[j] = r[k] PROVE j = k
    BY <1>6 DEF Distinct
  <2>1. j \in 1 .. n /\ k \in 1 .. n /\ n \in 1 .. n /\ j # n /\ k # n
    BY <1>1
  <2>2. QED BY <1>5, <1>7, <2>1
<1>9. Listed(r) = {r[j] : j \in 1 .. n - 1} /\ Listed(q) = {q[j] : j \in 1 .. n}
  BY <1>1, <1>6 DEF Listed
<1>10. \A j \in 1 .. n - 1 : r[j] \in Listed(q) \ {q[i]}
  <2> SUFFICES ASSUME NEW j \in 1 .. n - 1 PROVE \E k \in 1 .. n : k # i /\ r[j] = q[k]
    BY <1>1, <1>7, <1>9
  <2>1. j \in 1 .. n /\ n \in 1 .. n /\ j # n
    BY <1>1
  <2>2. CASE j = i
    BY <1>5, <2>1, <2>2
  <2>3. CASE j # i
    BY <1>5, <2>1, <2>3
  <2>4. QED BY <2>2, <2>3
<1>11. \A j \in 1 .. n : j # i => q[j] \in Listed(r)
  <2> SUFFICES ASSUME NEW j \in 1 .. n, j # i PROVE \E k \in 1 .. n - 1 : r[k] = q[j]
    BY <1>9
  <2>1. CASE j = n
    <3>1. i \in 1 .. n - 1
      BY <1>1, <2>1
    <3>2. QED BY <1>5, <2>1, <3>1
  <2>2. CASE j # n
    <3>1. j \in 1 .. n - 1
      BY <1>1, <2>2
    <3>2. QED BY <1>5, <3>1
  <2>3. QED BY <2>1, <2>2
<1>12. Listed(r) = Listed(q) \ {q[i]}
  BY <1>9, <1>10, <1>11
<1>13. SwapRemove(q, i) = r
  BY DEF SwapRemove, r, w, n
<1>14. QED BY <1>5, <1>8, <1>12, <1>13

\* A coin that was not there is put at the end of its address's list.
LEMMA AddFacts ==
  ASSUME NEW s, WellKept(s), NEW o \in Outpoints, o \notin DOMAIN s.coins, NEW a \in Addrs,
         NEW amount \in Nat, NEW height, NEW coinbase,
         NEW z, z = AddUTXO(s, o, a, amount, height, coinbase)
  PROVE  /\ WellKept(z)
         /\ DOMAIN z.coins = DOMAIN s.coins \cup {o}
         /\ \A b \in Addrs : Worth(z, b) = Worth(s, b) + (IF b = a THEN amount ELSE 0)
<1> DEFINE coin == [address |-> a, amount |-> amount, height |-> height, coinbase |-> coinbase]
<1>1. /\ DOMAIN z.coins = DOMAIN s.coins \cup {o}
      /\ z.coins[o] = coin
      /\ \A p \in DOMAIN s.coins : z.coins[p] = s.coins[p]
  BY DEF AddUTXO
<1>2. /\ s.index \in [Addrs -> Seq(Outpoints)] /\ DOMAIN s.coins \subseteq Outpoints
      /\ \A p \in DOMAIN s.coins : s.coins[p].address \in Addrs /\ s.coins[p].amount \in Nat
      /\ \A b \in Addrs : Distinct(s.index[b]) /\ Listed(s.index[b]) = Held(s, b)
  BY DEF WellKept
<1>3. /\ DOMAIN z.index = Addrs /\ z.index[a] = Append(s.index[a], o)
      /\ \A b \in Addrs : b # a => z.index[b] = s.index[b]
      /\ z.index = [s.index EXCEPT ![a] = Append(s.index[a], o)]
  BY <1>2 DEF AddUTXO
<1>4. coin.address = a /\ coin.amount = amount
  OBVIOUS
<1> HIDE DEF coin
<1>5. Held(z, a) = Held(s, a) \cup {o} /\ o \notin Held(s, a)
      /\ \A b \in Addrs : b # a => Held(z, b) = Held(s, b)
  BY <1>1, <1>4 DEF Held
<1>6. /\ Append(s.index[a], o) \in Seq(Outpoints) /\ Distinct(Append(s.index[a], o))
      /\ Listed(Append(s.index[a], o)) = Held(s, a) \cup {o}
  BY <1>2, <1>5, AppendListed
<1>7. WellKept(z)
  <2>1. z.index \in [Addrs -> Seq(Outpoints)]
    BY <1>2, <1>3, <1>6
  <2>2. \A b \in Addrs : Distinct(z.index[b]) /\ Listed(z.index[b]) = Held(z, b)
    BY <1>2, <1>3, <1>5, <1>6
  <2>3. DOMAIN z.coins \subseteq Outpoints /\ \A p \in DOMAIN z.coins : z.coins[p].address \in Addrs /\ z.coins[p].amount \in Nat
    BY <1>1, <1>2, <1>4
  <2>4. QED BY <2>1, <2>2, <2>3 DEF WellKept
<1>8. \A p \in DOMAIN s.coins : Value(z)[p] = Value(s)[p]
  BY <1>1 DEF Value
<1>9. Value(z)[o] = amount
  BY <1>1, <1>4 DEF Value
<1>10. \A b \in Addrs : /\ IsFiniteSet(Held(s, b)) /\ Held(s, b) \subseteq DOMAIN s.coins
                        /\ \A p \in Held(s, b) : Value(s)[p] \in Nat
  BY WorthIsBalance DEF Held
<1>11. \A b \in Addrs : CoinFold!Sum(Value(z), Held(s, b)) = Worth(s, b)
  <2> SUFFICES ASSUME NEW b \in Addrs PROVE CoinFold!Sum(Value(z), Held(s, b)) = Worth(s, b)
    OBVIOUS
  <2> DEFINE f == Value(s)
             g == Value(z)
             H == Held(s, b)
  <2>1. IsFiniteSet(H) /\ \A p \in H : f[p] \in Int /\ g[p] = f[p]
    BY <1>8, <1>10
  <2> HIDE DEF f, g, H
  <2>2. CoinFold!Sum(g, H) = CoinFold!Sum(f, H)
    BY <2>1, FiniteBridge, CoinFold!SumSame
  <2>3. QED BY <2>2 DEF f, g, H, Worth
<1>12. Worth(z, a) = Worth(s, a) + amount
  <2> DEFINE g == Value(z)
             H == Held(s, a)
  <2>1. IsFiniteSet(H) /\ o \notin H /\ \A p \in H \cup {o} : g[p] \in Int
    BY <1>5, <1>8, <1>9, <1>10
  <2> HIDE DEF g, H
  <2>2. CoinFold!Sum(g, H \cup {o}) = CoinFold!Sum(g, H) + g[o]
    BY <2>1, SumInsertIs
  <2>3. QED BY <1>5, <1>9, <1>11, <2>2, Zenon DEF g, H, Worth
<1>13. \A b \in Addrs : b # a => Worth(z, b) = Worth(s, b)
  BY <1>5, <1>11, Zenon DEF Worth
<1>14. \A b \in Addrs : Worth(s, b) \in Nat
  BY WorthIsBalance
<1>15. \A b \in Addrs : Worth(z, b) = Worth(s, b) + (IF b = a THEN amount ELSE 0)
  BY <1>12, <1>13, <1>14
<1>16. QED BY <1>1, <1>7, <1>15

\* Spending takes a coin out of the set and out of its address's list.
LEMMA SpendFacts ==
  ASSUME NEW s, WellKept(s), NEW o \in DOMAIN s.coins
  PROVE  LET z == SpendUTXO(s, o)
         IN  /\ WellKept(z)
             /\ DOMAIN z.coins = DOMAIN s.coins \ {o}
             /\ \A p \in DOMAIN z.coins : z.coins[p] = s.coins[p]
<1> DEFINE a == s.coins[o].address
           q == s.index[a]
           i == FirstAt(q, o)
           z == SpendUTXO(s, o)
<1>1. /\ s.index \in [Addrs -> Seq(Outpoints)] /\ DOMAIN s.coins \subseteq Outpoints
      /\ \A p \in DOMAIN s.coins : s.coins[p].address \in Addrs /\ s.coins[p].amount \in Nat
      /\ \A b \in Addrs : Distinct(s.index[b]) /\ Listed(s.index[b]) = Held(s, b)
  BY DEF WellKept
<1>2. a \in Addrs /\ o \in Held(s, a)
  BY <1>1 DEF Held
<1>3. /\ DOMAIN z.coins = DOMAIN s.coins \ {o}
      /\ \A p \in DOMAIN z.coins : z.coins[p] = s.coins[p]
      /\ z.index = [s.index EXCEPT ![a] = SwapRemove(@, i)]
  BY DEF SpendUTXO
<1>4. q \in Seq(Outpoints) /\ Distinct(q) /\ Listed(q) = Held(s, a)
  BY <1>1, <1>2
<1> HIDE DEF z
<1>5. i \in 1 .. Len(q) /\ q[i] = o
  <2> HIDE DEF q
  <2>1. DOMAIN q = 1 .. Len(q) /\ Len(q) \in Nat
    BY <1>4, LenProperties
  <2>2. PICK j \in DOMAIN q : q[j] = o
    BY <1>2, <1>4 DEF Listed
  <2>3. \A k \in 1 .. j - 1 : q[k] # o
    <3> SUFFICES ASSUME NEW k \in 1 .. j - 1, q[k] = o PROVE FALSE
      OBVIOUS
    <3>1. k \in DOMAIN q /\ k # j
      BY <2>1, <2>2
    <3>2. QED BY <1>4, <2>2, <3>1 DEF Distinct
  <2>4. FirstAt(q, o) \in DOMAIN q /\ q[FirstAt(q, o)] = o
    BY <2>2, <2>3, Zenon DEF FirstAt
  <2>5. QED BY <2>1, <2>4
<1>6. /\ SwapRemove(q, i) \in Seq(Outpoints) /\ Distinct(SwapRemove(q, i))
      /\ Listed(SwapRemove(q, i)) = Held(s, a) \ {o}
  <2> HIDE DEF q, i
  <2>1. QED BY <1>4, <1>5, SwapRemoveListed
<1>7. z.index[a] = SwapRemove(q, i) /\ \A b \in Addrs : b # a => z.index[b] = s.index[b]
  BY <1>1, <1>2, <1>3
<1>8. z.index \in [Addrs -> Seq(Outpoints)]
  BY <1>1, <1>2, <1>3, <1>6
<1> HIDE DEF q, i
<1>9. Held(z, a) = Held(s, a) \ {o} /\ \A b \in Addrs : b # a => Held(z, b) = Held(s, b)
  BY <1>3 DEF Held
<1>10. \A b \in Addrs : Distinct(z.index[b]) /\ Listed(z.index[b]) = Held(z, b)
  <2> SUFFICES ASSUME NEW b \in Addrs PROVE Distinct(z.index[b]) /\ Listed(z.index[b]) = Held(z, b)
    OBVIOUS
  <2> HIDE DEF a
  <2>1. CASE b = a
    BY <1>6, <1>7, <1>9, <2>1, Zenon
  <2>2. CASE b # a
    BY <1>1, <1>7, <1>9, <2>2, Zenon
  <2>3. QED BY <2>1, <2>2
<1>11. DOMAIN z.coins \subseteq Outpoints /\ \A p \in DOMAIN z.coins : z.coins[p].address \in Addrs /\ z.coins[p].amount \in Nat
  BY <1>1, <1>3
<1>12. WellKept(z)
  BY <1>8, <1>10, <1>11 DEF WellKept
<1>13. QED BY <1>3, <1>12 DEF z

\* Greedy selection picks coins of the address, each once, and its total is
\* what they are worth together.
LEMMA SelectFacts ==
  ASSUME NEW s, WellKept(s), NEW a \in Addrs, NEW target \in Nat, NEW height \in Nat
  PROVE  LET sel == SelectUTXOs(s, a, target, height)
         IN  /\ sel.picked \in Seq(Outpoints) /\ Distinct(sel.picked)
             /\ Listed(sel.picked) \subseteq Held(s, a)
             /\ IsFiniteSet(Listed(sel.picked))
             /\ sel.total \in Nat
             /\ sel.total = CoinFold!Sum(Value(s), Listed(sel.picked))
<1> DEFINE q == s.index[a]
           n == Len(q)
           p == [set |-> s, target |-> target, height |-> height]
           start == [picked |-> << >>, total |-> 0]
           Fine(sel, k) ==
             /\ sel.picked \in Seq(Outpoints) /\ Distinct(sel.picked)
             /\ Listed(sel.picked) \subseteq {q[i] : i \in 1 .. k}
             /\ IsFiniteSet(Listed(sel.picked))
             /\ sel.total \in Nat
             /\ sel.total = CoinFold!Sum(Value(s), Listed(sel.picked))
<1>1. q \in Seq(Outpoints) /\ Distinct(q) /\ Listed(q) = Held(s, a)
  BY DEF WellKept
<1>2. n \in Nat /\ DOMAIN q = 1 .. n
  BY <1>1, LenProperties
<1>3. {q[i] : i \in 1 .. n} = Held(s, a)
  BY <1>1, <1>2 DEF Listed
<1>4. PICK h : TakeFold!Runs(h, p, start, q) /\ TakeFold!Fold(p, start, q) = h[n]
  BY <1>1, TakeFold!FoldRuns
<1>5. SelectUTXOs(s, a, target, height) = h[n]
  <2>1. SelectUTXOs(s, a, target, height) = TakeFold!Fold(p, start, q)
    BY DEF SelectUTXOs, TakeFold!Fold, TakeFold!FoldLeft, FoldLeft, MapThenFoldSet,
           TakeFold!MapThenFoldSet, ByTake, TakeFold!Max, Max
  <2>2. QED BY <1>4, <2>1
<1>6. h[0] = start /\ \A k \in 1 .. n : h[k] = ByTake(p, h[k - 1], q[k])
  BY <1>4 DEF TakeFold!Runs
<1>7. p.set = s /\ p.target = target /\ p.height = height
  OBVIOUS
<1>8. \A o \in Held(s, a) : o \in DOMAIN s.coins /\ s.coins[o].amount \in Nat
                            /\ Value(s)[o] = s.coins[o].amount /\ o \in Outpoints
  BY DEF WellKept, Held, Value
<1> HIDE DEF q, n, p
<1> DEFINE Q == {k \in Nat : k <= n => Fine(h[k], k)}
<1>9. 0 \in Q
  <2> SUFFICES Fine(start, 0)
    BY <1>6
  <2>1. start.picked = << >> /\ start.total = 0
    OBVIOUS
  <2>2. << >> \in Seq(Outpoints) /\ Distinct(<< >>) /\ Listed(<< >>) = {}
    BY DEF Distinct, Listed
  <2>3. CoinFold!Sum(Value(s), {}) = 0 /\ IsFiniteSet({})
    BY CoinFold!SumEmpty, FS_EmptySet, Zenon
  <2> HIDE DEF start
  <2>4. QED BY <2>1, <2>2, <2>3
<1>10. ASSUME NEW k \in Nat, k \in Q PROVE k + 1 \in Q
  <2> SUFFICES ASSUME k + 1 <= n PROVE Fine(h[k + 1], k + 1)
    OBVIOUS
  <2>1. Fine(h[k], k)
    BY <1>2, <1>10
  <2> DEFINE sel == h[k]
             o == q[k + 1]
             more == Append(sel.picked, o)
  <2>2. h[k + 1] = ByTake(p, sel, o)
    <3>1. k + 1 \in 1 .. n /\ (k + 1) - 1 = k
      BY <1>2
    <3>2. QED BY <1>6, <3>1
  <2>3. o \notin {q[i] : i \in 1 .. k} /\ {q[i] : i \in 1 .. k + 1} = {q[i] : i \in 1 .. k} \cup {o}
    BY <1>1, ListedUpTo DEF n
  <2>4. o \in Held(s, a)
    <3>1. k + 1 \in 1 .. n
      BY <1>2
    <3>2. QED BY <1>3, <3>1
  <2>5. {q[i] : i \in 1 .. k} \subseteq Held(s, a)
    <3>1. 1 .. k \subseteq 1 .. n
      BY <1>2
    <3>2. QED BY <1>3, <3>1
  <2> HIDE DEF sel, o
  <2>6. h[k + 1] = sel \/ h[k + 1] = [picked |-> more, total |-> sel.total + s.coins[o].amount]
    BY <1>7, <2>2 DEF ByTake
  <2>7. Fine(sel, k)
    BY <2>1 DEF sel
  <2>8. CASE h[k + 1] = sel
    BY <2>3, <2>7, <2>8
  <2>9. CASE h[k + 1] = [picked |-> more, total |-> sel.total + s.coins[o].amount]
    <3>1. h[k + 1].picked = more /\ h[k + 1].total = sel.total + s.coins[o].amount
      BY <2>9
    <3> DEFINE L == Listed(sel.picked)
    <3>2. o \notin L /\ L \subseteq Held(s, a) /\ IsFiniteSet(L)
      BY <2>3, <2>5, <2>7
    <3>3. more \in Seq(Outpoints) /\ Distinct(more) /\ Listed(more) = L \cup {o}
      BY <1>8, <2>4, <2>7, <3>2, AppendListed
    <3>4. L \cup {o} \subseteq {q[i] : i \in 1 .. k + 1}
      BY <2>3, <2>7
    <3>5. IsFiniteSet(L \cup {o})
      BY <3>2, FS_AddElement, Zenon
    <3>6. sel.total \in Nat /\ sel.total = CoinFold!Sum(Value(s), L)
      BY <2>7
    <3> HIDE DEF L, more
    <3>7. CoinFold!Sum(Value(s), L \cup {o}) = CoinFold!Sum(Value(s), L) + s.coins[o].amount
      <4> DEFINE f == Value(s)
      <4>1. (\A y \in L \cup {o} : f[y] \in Int) /\ f[o] = s.coins[o].amount
        BY <1>8, <2>4, <3>2
      <4> HIDE DEF f
      <4>2. CoinFold!Sum(f, L \cup {o}) = CoinFold!Sum(f, L) + f[o]
        BY <3>2, <4>1, SumInsertIs
      <4>3. QED BY <4>1, <4>2 DEF f
    <3>8. h[k + 1].total \in Nat /\ h[k + 1].total = CoinFold!Sum(Value(s), L \cup {o})
      BY <1>8, <2>4, <3>1, <3>6, <3>7
    <3>9. QED BY <3>1, <3>3, <3>4, <3>5, <3>8
  <2>10. QED BY <2>6, <2>8, <2>9
<1> HIDE DEF Q, Fine
<1>11. n \in Q
  BY <1>2, <1>9, <1>10, CoinFold!NatSetInduction
<1>12. Fine(h[n], n)
  BY <1>2, <1>11 DEF Q
<1>13. QED BY <1>3, <1>5, <1>12 DEF Fine

\* Spending a list of coins, each once, takes just those out.
LEMMA SpendAllFacts ==
  ASSUME NEW s, WellKept(s), NEW picked \in Seq(Outpoints), Distinct(picked),
         Listed(picked) \subseteq DOMAIN s.coins
  PROVE  LET z == FoldLeft(SpendUTXO, s, picked)
         IN  /\ WellKept(z)
             /\ DOMAIN z.coins = DOMAIN s.coins \ Listed(picked)
             /\ \A p \in DOMAIN z.coins : z.coins[p] = s.coins[p]
<1> DEFINE n == Len(picked)
           P(k) == {picked[i] : i \in 1 .. k}
           Fine(z, k) ==
             /\ WellKept(z)
             /\ DOMAIN z.coins = DOMAIN s.coins \ P(k)
             /\ \A p \in DOMAIN z.coins : z.coins[p] = s.coins[p]
<1>1. n \in Nat /\ DOMAIN picked = 1 .. n
  BY LenProperties
<1>2. PICK h : SpendFold!Runs(h, 0, s, picked) /\ SpendFold!Fold(0, s, picked) = h[n]
  BY SpendFold!FoldRuns
<1>3. FoldLeft(SpendUTXO, s, picked) = h[n]
  <2>1. FoldLeft(SpendUTXO, s, picked) = SpendFold!Fold(0, s, picked)
    BY DEF SpendFold!Fold, SpendFold!FoldLeft, FoldLeft, MapThenFoldSet,
           SpendFold!MapThenFoldSet, BySpend, SpendFold!Max, Max
  <2>2. QED BY <1>2, <2>1
<1>4. h[0] = s /\ \A k \in 1 .. n : h[k] = SpendUTXO(h[k - 1], picked[k])
  BY <1>2 DEF SpendFold!Runs, BySpend
<1>5. P(n) = Listed(picked)
  BY <1>1 DEF Listed
<1> HIDE DEF n
<1> DEFINE Q == {k \in Nat : k <= n => Fine(h[k], k)}
<1>6. 0 \in Q
  <2>1. P(0) = {}
    OBVIOUS
  <2> HIDE DEF P
  <2>2. QED BY <1>4, <2>1
<1>7. ASSUME NEW k \in Nat, k \in Q PROVE k + 1 \in Q
  <2> SUFFICES ASSUME k + 1 <= n PROVE Fine(h[k + 1], k + 1)
    OBVIOUS
  <2>1. Fine(h[k], k)
    BY <1>1, <1>7
  <2> DEFINE z == h[k]
             o == picked[k + 1]
  <2>2. h[k + 1] = SpendUTXO(z, o)
    <3>1. k + 1 \in 1 .. n /\ (k + 1) - 1 = k
      BY <1>1
    <3>2. QED BY <1>4, <3>1
  <2>3. o \notin P(k) /\ P(k + 1) = P(k) \cup {o}
    BY ListedUpTo DEF n
  <2>4. o \in DOMAIN s.coins
    <3>1. k + 1 \in 1 .. n
      BY <1>1
    <3>2. QED BY <1>5, <3>1
  <2> HIDE DEF z, o, P
  <2>5. WellKept(z) /\ DOMAIN z.coins = DOMAIN s.coins \ P(k)
        /\ \A p \in DOMAIN z.coins : z.coins[p] = s.coins[p]
    BY <2>1 DEF z
  <2>6. o \in DOMAIN z.coins
    BY <2>3, <2>4, <2>5
  <2> DEFINE y == SpendUTXO(z, o)
  <2>7. /\ WellKept(y) /\ DOMAIN y.coins = DOMAIN z.coins \ {o}
        /\ \A p \in DOMAIN y.coins : y.coins[p] = z.coins[p]
    BY <2>5, <2>6, SpendFacts
  <2>8. h[k + 1] = y
    BY <2>2
  <2> HIDE DEF y
  <2>9. DOMAIN y.coins = DOMAIN s.coins \ P(k + 1)
    BY <2>3, <2>5, <2>7
  <2>10. \A p \in DOMAIN y.coins : y.coins[p] = s.coins[p]
    BY <2>5, <2>7
  <2>11. QED BY <2>7, <2>8, <2>9, <2>10
<1> HIDE DEF Q, Fine
<1>8. n \in Q
  BY <1>1, <1>6, <1>7, CoinFold!NatSetInduction
<1>9. Fine(h[n], n)
  BY <1>1, <1>8 DEF Q
<1> HIDE DEF P
<1>10. QED BY <1>3, <1>5, <1>9 DEF Fine

\* ... and the address is worth that much less, every other one the same.
LEMMA WorthAfter ==
  ASSUME NEW s, WellKept(s), NEW z, WellKept(z), NEW a \in Addrs, NEW L,
         IsFiniteSet(L), L \subseteq Held(s, a), DOMAIN z.coins = DOMAIN s.coins \ L,
         \A p \in DOMAIN z.coins : z.coins[p] = s.coins[p]
  PROVE  \A b \in Addrs :
           Worth(z, b) = Worth(s, b) - (IF b = a THEN CoinFold!Sum(Value(s), L) ELSE 0)
<1>1. /\ Held(z, a) = Held(s, a) \ L
      /\ \A b \in Addrs : b # a => Held(z, b) = Held(s, b)
  BY DEF Held
<1>2. \A b \in Addrs : \A p \in Held(z, b) : Value(z)[p] = Value(s)[p] /\ p \in Held(s, b)
  BY DEF Value, Held
<1>3. \A b \in Addrs : /\ IsFiniteSet(Held(s, b)) /\ IsFiniteSet(Held(z, b))
                       /\ Worth(s, b) \in Nat
                       /\ \A p \in Held(s, b) : Value(s)[p] \in Nat
  BY WorthIsBalance
<1>4. \A b \in Addrs : Worth(z, b) = CoinFold!Sum(Value(s), Held(z, b))
  <2> SUFFICES ASSUME NEW b \in Addrs PROVE Worth(z, b) = CoinFold!Sum(Value(s), Held(z, b))
    OBVIOUS
  <2> DEFINE f == Value(s)
             g == Value(z)
             H == Held(z, b)
  <2>1. IsFiniteSet(H) /\ \A p \in H : f[p] \in Int /\ g[p] = f[p]
    BY <1>2, <1>3
  <2> HIDE DEF f, g, H
  <2>2. CoinFold!Sum(g, H) = CoinFold!Sum(f, H)
    BY <2>1, FiniteBridge, CoinFold!SumSame
  <2>3. QED BY <2>2 DEF f, g, H, Worth
<1>5. Worth(s, a) = Worth(z, a) + CoinFold!Sum(Value(s), L) /\ CoinFold!Sum(Value(s), L) \in Int
  <2> DEFINE f == Value(s)
             H == Held(z, a)
  <2>1. /\ IsFiniteSet(H) /\ H \cap L = {} /\ H \cup L = Held(s, a)
        /\ \A p \in H \cup L : f[p] \in Int
    <3>1. H = Held(s, a) \ L /\ IsFiniteSet(H)
      BY <1>1, <1>3
    <3>2. \A p \in Held(s, a) : f[p] \in Nat
      BY <1>3
    <3> HIDE DEF H, f
    <3>3. QED BY <3>1, <3>2
  <2> HIDE DEF f, H
  <2>2. CoinFold!Sum(f, H \cup L) = CoinFold!Sum(f, H) + CoinFold!Sum(f, L)
    BY <2>1, FiniteBridge, CoinFold!SumUnion
  <2>3. CoinFold!Sum(f, L) \in Int
    BY <2>1, FiniteBridge, CoinFold!SumRemove
  <2>4. QED BY <1>4, <2>1, <2>2, <2>3, Zenon DEF f, H, Worth
<1>6. \A b \in Addrs : b # a => Worth(z, b) = Worth(s, b)
  BY <1>1, <1>4, Zenon DEF Worth
<1>7. Worth(z, a) \in Nat
  BY WorthIsBalance
<1>8. QED BY <1>3, <1>5, <1>6, <1>7

-----------------------------------------------------------------------------
(* A ledger whose two sets of books agree, unless a selection came short.    *)
LedgerOK(l) ==
  /\ l = [utxo |-> l.utxo, balances |-> l.balances, nonces |-> l.nonces, short |-> l.short]
  /\ WellKept(l.utxo)
  /\ l.balances \in [Addrs -> Nat] /\ l.nonces \in [Addrs -> Nat] /\ l.short \in BOOLEAN
  /\ ~l.short => \A a \in Addrs : l.balances[a] = Worth(l.utxo, a)

\* What a transaction does to the nonces, and to balances that cover its cost.
Raised(nonces, a) == [nonces EXCEPT ![a] = @ + 1]
Moved(bal, t) == Credit([bal EXCEPT ![From[t]] = @ - Cost(t)], To[t], Amount[t])

\* One transaction: the coins and the balances move alike, and the debit is
\* not dropped, as long as a selection has not come short.
LEMMA ApplyFacts ==
  ASSUME NEW l, LedgerOK(l), NEW t \in Txs, NEW height \in Nat,
         <<t, 0>> \notin DOMAIN l.utxo.coins, <<t, 1>> \notin DOMAIN l.utxo.coins,
         NEW z, z = ApplyTx(l, t, height)
  PROVE  /\ LedgerOK(z)
         /\ DOMAIN z.utxo.coins \subseteq DOMAIN l.utxo.coins \cup {<<t, 0>>, <<t, 1>>}
         /\ z.nonces = Raised(l.nonces, From[t])
         /\ ~z.short => /\ ~l.short /\ l.balances[From[t]] >= Cost(t)
                        /\ z.balances = Moved(l.balances, t)
<1> DEFINE s == l.utxo
           f == From[t]
           c == Cost(t)
           sel == SelectUTXOs(s, f, c, height)
           enough == sel.total >= c
           spent == IF enough THEN FoldLeft(SpendUTXO, s, sel.picked) ELSE s
           change == IF enough /\ sel.total > c
                     THEN AddUTXO(spent, <<t, 1>>, f, sel.total - c, height, FALSE)
                     ELSE spent
           final == AddUTXO(change, <<t, 0>>, To[t], Amount[t], height, FALSE)
<1>0. z = [utxo |-> z.utxo, balances |-> z.balances, nonces |-> z.nonces, short |-> z.short]
  BY DEF ApplyTx
<1>1. /\ z.utxo = final
      /\ z.balances = Credit(Debit(l.balances, f, c), To[t], Amount[t])
      /\ z.nonces = [l.nonces EXCEPT ![f] = @ + 1]
      /\ z.short = (l.short \/ ~enough)
  BY DEF ApplyTx
<1>2. /\ f \in Addrs /\ To[t] \in Addrs /\ Amount[t] \in Nat /\ Fee[t] \in Nat /\ c \in Nat
      /\ <<t, 0>> \in Outpoints /\ <<t, 1>> \in Outpoints /\ <<t, 0>> # <<t, 1>>
  BY TxAssumption DEF Cost, Outpoints
<1>3. /\ WellKept(s) /\ l.balances \in [Addrs -> Nat] /\ l.nonces \in [Addrs -> Nat]
      /\ l.short \in BOOLEAN
      /\ ~l.short => \A a \in Addrs : l.balances[a] = Worth(s, a)
  BY DEF LedgerOK
<1>4. <<t, 0>> \notin DOMAIN s.coins /\ <<t, 1>> \notin DOMAIN s.coins
  OBVIOUS
<1> HIDE DEF s, f, c, final
<1>5. /\ sel.picked \in Seq(Outpoints) /\ Distinct(sel.picked)
      /\ Listed(sel.picked) \subseteq Held(s, f) /\ IsFiniteSet(Listed(sel.picked))
      /\ sel.total \in Nat /\ sel.total = CoinFold!Sum(Value(s), Listed(sel.picked))
  BY <1>2, <1>3, SelectFacts
<1> HIDE DEF sel
<1>6. \A b \in Addrs : Worth(s, b) \in Nat
  BY <1>3, WorthIsBalance
<1>7. /\ WellKept(spent) /\ DOMAIN spent.coins \subseteq DOMAIN s.coins
      /\ enough => \A b \in Addrs : Worth(spent, b) = Worth(s, b) - (IF b = f THEN sel.total ELSE 0)
  <2>1. CASE ~enough
    BY <1>3, <2>1
  <2>2. CASE enough
    <3> DEFINE y == FoldLeft(SpendUTXO, s, sel.picked)
    <3>1. Listed(sel.picked) \subseteq DOMAIN s.coins
      BY <1>5 DEF Held
    <3>2. /\ WellKept(y) /\ DOMAIN y.coins = DOMAIN s.coins \ Listed(sel.picked)
          /\ \A p \in DOMAIN y.coins : y.coins[p] = s.coins[p]
      BY <1>3, <1>5, <3>1, SpendAllFacts
    <3>3. spent = y
      BY <2>2
    <3> HIDE DEF y
    <3>4. \A b \in Addrs :
            Worth(y, b) = Worth(s, b) - (IF b = f THEN CoinFold!Sum(Value(s), Listed(sel.picked)) ELSE 0)
      <4> DEFINE L == Listed(sel.picked)
      <4>1. /\ IsFiniteSet(L) /\ L \subseteq Held(s, f) /\ DOMAIN y.coins = DOMAIN s.coins \ L
            /\ WellKept(y) /\ \A p \in DOMAIN y.coins : y.coins[p] = s.coins[p]
        BY <1>5, <3>2
      <4> HIDE DEF L
      <4>2. \A b \in Addrs : Worth(y, b) = Worth(s, b) - (IF b = f THEN CoinFold!Sum(Value(s), L) ELSE 0)
        BY <1>2, <1>3, <4>1, WorthAfter
      <4>3. QED BY <4>2 DEF L
    <3>5. DOMAIN y.coins \subseteq DOMAIN s.coins
      BY <3>2
    <3> HIDE DEF spent
    <3>6. \A b \in Addrs : Worth(spent, b) = Worth(s, b) - (IF b = f THEN sel.total ELSE 0)
      BY <1>5, <3>3, <3>4, Zenon
    <3>7. QED BY <3>2, <3>3, <3>5, <3>6
  <2>3. QED BY <2>1, <2>2
<1> HIDE DEF spent
<1>8. /\ WellKept(change) /\ DOMAIN change.coins \subseteq DOMAIN s.coins \cup {<<t, 1>>}
      /\ enough => \A b \in Addrs : Worth(change, b) = Worth(s, b) - (IF b = f THEN c ELSE 0)
  <2>1. CASE enough /\ sel.total > c
    <3> DEFINE y == AddUTXO(spent, <<t, 1>>, f, sel.total - c, height, FALSE)
    <3> DEFINE o == <<t, 1>>
               coinbase == FALSE
               amount == sel.total - c
    <3>1. o \notin DOMAIN spent.coins /\ amount \in Nat /\ o \in Outpoints
      BY <1>2, <1>4, <1>5, <1>7, <2>1
    <3>3. change = y /\ y = AddUTXO(spent, o, f, amount, height, coinbase)
      BY <2>1
    <3> HIDE DEF y, change, o, coinbase, amount
    <3>7. /\ WellKept(y) /\ DOMAIN y.coins = DOMAIN spent.coins \cup {o}
          /\ \A b \in Addrs : Worth(y, b) = Worth(spent, b) + (IF b = f THEN amount ELSE 0)
      BY <1>2, <1>7, <3>1, <3>3, AddFacts
    <3>2. /\ WellKept(y) /\ DOMAIN y.coins = DOMAIN spent.coins \cup {<<t, 1>>}
          /\ \A b \in Addrs : Worth(y, b) = Worth(spent, b) + (IF b = f THEN sel.total - c ELSE 0)
      BY <3>7 DEF o, amount
    <3>4. \A b \in Addrs : Worth(y, b) = Worth(s, b) - (IF b = f THEN c ELSE 0)
      BY <1>2, <1>5, <1>6, <1>7, <2>1, <3>2
    <3>5. DOMAIN y.coins \subseteq DOMAIN s.coins \cup {<<t, 1>>}
      BY <1>7, <3>2
    <3>6. QED BY <3>2, <3>3, <3>4, <3>5
  <2>2. CASE ~(enough /\ sel.total > c)
    <3>1. change = spent
      BY <2>2
    <3>2. enough => sel.total = c
      BY <1>2, <1>5, <2>2
    <3> HIDE DEF change, enough
    <3>3. enough => \A b \in Addrs : Worth(spent, b) = Worth(s, b) - (IF b = f THEN c ELSE 0)
      BY <1>7, <3>2
    <3>4. QED BY <1>7, <3>1, <3>3
  <2>3. QED BY <2>1, <2>2
<1> HIDE DEF change
<1>9. <<t, 0>> \notin DOMAIN change.coins
  BY <1>2, <1>4, <1>8
<1>10. /\ WellKept(final) /\ DOMAIN final.coins = DOMAIN change.coins \cup {<<t, 0>>}
       /\ \A b \in Addrs : Worth(final, b) = Worth(change, b) + (IF b = To[t] THEN Amount[t] ELSE 0)
  <2> DEFINE o == <<t, 0>>
             coinbase == FALSE
             a == To[t]
             amount == Amount[t]
  <2>1. final = AddUTXO(change, o, a, amount, height, coinbase)
    BY DEF final
  <2>2. o \in Outpoints /\ o \notin DOMAIN change.coins /\ a \in Addrs /\ amount \in Nat
    BY <1>2, <1>9
  <2> HIDE DEF o, coinbase, a, amount
  <2>3. /\ WellKept(final) /\ DOMAIN final.coins = DOMAIN change.coins \cup {o}
        /\ \A b \in Addrs : Worth(final, b) = Worth(change, b) + (IF b = a THEN amount ELSE 0)
    BY <1>8, <2>1, <2>2, AddFacts
  <2>4. QED BY <2>3 DEF o, a, amount
<1>11. DOMAIN final.coins \subseteq DOMAIN s.coins \cup {<<t, 0>>, <<t, 1>>}
  BY <1>8, <1>10
<1>12. z.balances \in [Addrs -> Nat] /\ z.nonces \in [Addrs -> Nat] /\ z.short \in BOOLEAN
  <2>1. Debit(l.balances, f, c) \in [Addrs -> Nat]
    BY <1>2, <1>3 DEF Debit
  <2>2. Credit(Debit(l.balances, f, c), To[t], Amount[t]) \in [Addrs -> Nat]
    BY <1>2, <2>1 DEF Credit
  <2>3. QED BY <1>1, <1>2, <1>3, <2>2
<1>13. ASSUME ~z.short
       PROVE  /\ ~l.short /\ l.balances[f] >= c
              /\ z.balances = Credit([l.balances EXCEPT ![f] = @ - c], To[t], Amount[t])
              /\ \A a \in Addrs : z.balances[a] = Worth(final, a)
  <2>1. ~l.short /\ enough
    BY <1>1, <1>13
  <2> HIDE DEF enough
  <2>2. l.balances[f] >= c
    <3>1. Worth(change, f) = Worth(s, f) - c /\ Worth(change, f) \in Nat
      BY <1>2, <1>8, <2>1, WorthIsBalance
    <3>2. QED BY <1>2, <1>3, <1>6, <2>1, <3>1
  <2>3. Debit(l.balances, f, c) = [l.balances EXCEPT ![f] = @ - c]
    BY <1>2, <1>3, <2>2 DEF Debit
  <2>4. z.balances = Credit([l.balances EXCEPT ![f] = @ - c], To[t], Amount[t])
    BY <1>1, <2>3
  <2>5. \A a \in Addrs : z.balances[a] = l.balances[a] - (IF a = f THEN c ELSE 0)
                                                       + (IF a = To[t] THEN Amount[t] ELSE 0)
    <3> DEFINE d == [l.balances EXCEPT ![f] = @ - c]
    <3>1. d \in [Addrs -> Int] /\ \A a \in Addrs : d[a] = l.balances[a] - (IF a = f THEN c ELSE 0)
      BY <1>2, <1>3
    <3> HIDE DEF d
    <3>2. \A a \in Addrs : Credit(d, To[t], Amount[t])[a] = d[a] + (IF a = To[t] THEN Amount[t] ELSE 0)
      BY <1>2, <3>1 DEF Credit
    <3>3. z.balances = Credit(d, To[t], Amount[t])
      BY <2>4 DEF d
    <3>4. QED BY <3>1, <3>2, <3>3
  <2>6. \A a \in Addrs : z.balances[a] = Worth(final, a)
    <3> SUFFICES ASSUME NEW a \in Addrs PROVE z.balances[a] = Worth(final, a)
      OBVIOUS
    <3>1. Worth(final, a) = Worth(change, a) + (IF a = To[t] THEN Amount[t] ELSE 0)
      BY <1>10
    <3>2. Worth(change, a) = Worth(s, a) - (IF a = f THEN c ELSE 0)
      BY <1>8, <2>1
    <3>3. l.balances[a] = Worth(s, a)
      BY <1>3, <2>1
    <3>4. QED BY <2>5, <3>1, <3>2, <3>3
  <2>7. QED BY <2>1, <2>2, <2>4, <2>6
<1>14. LedgerOK(z)
  BY <1>0, <1>1, <1>10, <1>12, <1>13, Zenon DEF LedgerOK
<1> HIDE DEF enough
<1>15. z.nonces = Raised(l.nonces, From[t])
  BY <1>1, Zenon DEF Raised, f
<1>16. ASSUME ~z.short
       PROVE  ~l.short /\ l.balances[From[t]] >= Cost(t) /\ z.balances = Moved(l.balances, t)
  BY <1>13, <1>16, Zenon DEF Moved, f, c
<1>17. DOMAIN z.utxo.coins \subseteq DOMAIN l.utxo.coins \cup {<<t, 0>>, <<t, 1>>}
  BY <1>1, <1>11 DEF s
<1>18. QED BY <1>14, <1>15, <1>16, <1>17

\* The reward of a block: a coin and a credit, the one as large as the other.
LEMMA PayFacts ==
  ASSUME NEW l, LedgerOK(l), NEW hash \in Hashes, NEW a \in Addrs, NEW amount \in Nat,
         NEW height \in Nat, <<hash, 0>> \notin DOMAIN l.utxo.coins,
         NEW z, z = PayCoinbase(l, hash, a, amount, height)
  PROVE  /\ LedgerOK(z)
         /\ DOMAIN z.utxo.coins \subseteq DOMAIN l.utxo.coins \cup {<<hash, 0>>}
         /\ z.nonces = l.nonces /\ z.short = l.short
         /\ z.balances = Credit(l.balances, a, amount)
<1> DEFINE y == AddUTXO(l.utxo, <<hash, 0>>, a, amount, height, TRUE)
           b == Credit(l.balances, a, amount)
<1>0. l = [utxo |-> l.utxo, balances |-> l.balances, nonces |-> l.nonces, short |-> l.short]
  BY DEF LedgerOK
<1>1. /\ WellKept(l.utxo) /\ l.balances \in [Addrs -> Nat] /\ l.nonces \in [Addrs -> Nat]
      /\ l.short \in BOOLEAN
      /\ ~l.short => \A d \in Addrs : l.balances[d] = Worth(l.utxo, d)
  BY DEF LedgerOK
<1>2. b \in [Addrs -> Nat] /\ \A d \in Addrs : b[d] = l.balances[d] + (IF d = a THEN amount ELSE 0)
  BY <1>1 DEF Credit
<1>3. CASE amount = 0
  <2>1. z = l
    BY <1>3 DEF PayCoinbase
  <2>2. b = l.balances
    <3>1. \A d \in Addrs : b[d] = l.balances[d]
      BY <1>1, <1>2, <1>3
    <3> HIDE DEF b
    <3>2. QED BY <1>1, <1>2, <3>1
  <2> HIDE DEF b
  <2>3. QED BY <2>1, <2>2 DEF b
<1>4. CASE amount # 0
  <2>1. /\ z = [utxo |-> z.utxo, balances |-> z.balances, nonces |-> z.nonces, short |-> z.short]
        /\ z.utxo = y /\ z.balances = b /\ z.nonces = l.nonces /\ z.short = l.short
    <3>1. z = [[l EXCEPT !.balances = Credit(@, a, amount)] EXCEPT !.utxo =
                 AddUTXO(@, <<hash, 0>>, a, amount, height, TRUE)]
      BY <1>4 DEF PayCoinbase
    <3> HIDE DEF y, b
    <3>2. z = [utxo |-> AddUTXO(l.utxo, <<hash, 0>>, a, amount, height, TRUE),
               balances |-> Credit(l.balances, a, amount),
               nonces |-> l.nonces, short |-> l.short]
      BY <1>0, <3>1
    <3>3. QED BY <3>2 DEF y, b
  <2>2. <<hash, 0>> \in Outpoints
    BY DEF Outpoints
  <2> DEFINE o == <<hash, 0>>
             coinbase == TRUE
  <2>7. y = AddUTXO(l.utxo, o, a, amount, height, coinbase) /\ o \in Outpoints
        /\ o \notin DOMAIN l.utxo.coins
    BY <2>2
  <2> HIDE DEF y, b, o, coinbase
  <2>3. /\ WellKept(y) /\ DOMAIN y.coins = DOMAIN l.utxo.coins \cup {o}
        /\ \A d \in Addrs : Worth(y, d) = Worth(l.utxo, d) + (IF d = a THEN amount ELSE 0)
    BY <1>1, <2>7, AddFacts
  <2>4. ~l.short => \A d \in Addrs : b[d] = Worth(y, d)
    <3> SUFFICES ASSUME ~l.short, NEW d \in Addrs PROVE b[d] = Worth(y, d)
      OBVIOUS
    <3>1. l.balances[d] = Worth(l.utxo, d)
      BY <1>1
    <3>2. b[d] = l.balances[d] + (IF d = a THEN amount ELSE 0)
      BY <1>2
    <3>3. Worth(y, d) = Worth(l.utxo, d) + (IF d = a THEN amount ELSE 0)
      BY <2>3
    <3>4. QED BY <3>1, <3>2, <3>3
  <2>5. LedgerOK(z)
    BY <1>1, <1>2, <2>1, <2>3, <2>4 DEF LedgerOK
  <2>6. QED BY <2>1, <2>3, <2>5 DEF b, o
<1>5. QED BY <1>3, <1>4

-----------------------------------------------------------------------------
(* Transactions in their order, fees and issue: more folds over the chain.   *)
ByAll(p, all, b) == all \o b.txs
ByFee(p, sum, t) == sum + Fee[t]
ByMint(p, sum, b) == sum + Minted(b)

AllFold == INSTANCE Folding WITH op <- ByAll
FeeFold == INSTANCE Folding WITH op <- ByFee
MintFold == INSTANCE Folding WITH op <- ByMint

TxsOf(c) == FoldLeft(LAMBDA all, b : all \o b.txs, << >>, c)
IssuedOf(c) == FoldLeft(LAMBDA sum, b : sum + Minted(b), 0, Tail(c))

\* The transactions of a chain, block by block.
LEMMA TxsOfFacts ==
  /\ TxsOf(<<Genesis>>) = << >>
  /\ \A c \in Seq(Block), b \in Block : TxsOf(Append(c, b)) = TxsOf(c) \o b.txs
<1>1. \A c : TxsOf(c) = AllFold!Fold(0, << >>, c)
  BY DEF TxsOf, AllFold!Fold, AllFold!FoldLeft, FoldLeft, MapThenFoldSet,
         AllFold!MapThenFoldSet, ByAll, AllFold!Max, Max
<1>2. ASSUME NEW c \in Seq(Block), NEW b \in Block
      PROVE  TxsOf(Append(c, b)) = TxsOf(c) \o b.txs
  <2>1. AllFold!Fold(0, << >>, Append(c, b)) = ByAll(0, AllFold!Fold(0, << >>, c), b)
    BY AllFold!FoldAppend
  <2>2. QED BY <1>1, <2>1, Zenon DEF ByAll
<1>3. TxsOf(<<Genesis>>) = << >>
  <2>1. Genesis \in Block /\ Genesis.txs = << >>
    BY NamesAreHashes DEF Genesis
  <2> HIDE DEF Genesis
  <2>2. << >> \in Seq(Block) /\ Append(<< >>, Genesis) = <<Genesis>>
    OBVIOUS
  <2>3. TxsOf(<< >>) = << >>
    BY <1>1, AllFold!FoldEmpty, Zenon
  <2>4. TxsOf(<<Genesis>>) = << >> \o Genesis.txs
    BY <1>2, <2>1, <2>2, <2>3
  <2>5. << >> \o << >> = << >>
    OBVIOUS
  <2>6. QED BY <2>1, <2>4, <2>5
<1>4. QED BY <1>2, <1>3

\* The fees of transactions, one by one.
LEMMA FeesFacts ==
  /\ Fees(<< >>) = 0
  /\ \A s \in Seq(Txs) : Fees(s) \in Nat
  /\ \A s \in Seq(Txs), t \in Txs : Fees(Append(s, t)) = Fees(s) + Fee[t]
<1>1. \A s : Fees(s) = FeeFold!Fold(0, 0, s)
  BY DEF Fees, FeeFold!Fold, FeeFold!FoldLeft, FoldLeft, MapThenFoldSet,
         FeeFold!MapThenFoldSet, ByFee, FeeFold!Max, Max
<1>2. Fees(<< >>) = 0
  BY <1>1, FeeFold!FoldEmpty, Zenon
<1>3. ASSUME NEW s \in Seq(Txs), NEW t \in Txs PROVE Fees(Append(s, t)) = Fees(s) + Fee[t]
  <2>1. FeeFold!Fold(0, 0, Append(s, t)) = ByFee(0, FeeFold!Fold(0, 0, s), t)
    BY FeeFold!FoldAppend
  <2>2. QED BY <1>1, <2>1, Zenon DEF ByFee
<1>4. ASSUME NEW s \in Seq(Txs) PROVE Fees(s) \in Nat
  <2>1. PICK h : FeeFold!Runs(h, 0, 0, s) /\ FeeFold!Fold(0, 0, s) = h[Len(s)]
    BY FeeFold!FoldRuns
  <2>2. h[0] = 0 /\ \A k \in 1 .. Len(s) : h[k] = h[k - 1] + Fee[s[k]]
    BY <2>1 DEF FeeFold!Runs, ByFee
  <2>3. Len(s) \in Nat /\ \A k \in 1 .. Len(s) : Fee[s[k]] \in Nat
    BY ElementOfSeq, LenProperties, TxAssumption
  <2> DEFINE Q == {k \in Nat : k <= Len(s) => h[k] \in Nat}
  <2>4. 0 \in Q
    BY <2>2
  <2>5. ASSUME NEW k \in Nat, k \in Q PROVE k + 1 \in Q
    <3> SUFFICES ASSUME k + 1 <= Len(s) PROVE h[k + 1] \in Nat
      OBVIOUS
    <3>1. k + 1 \in 1 .. Len(s) /\ (k + 1) - 1 = k /\ h[k] \in Nat
      BY <2>3, <2>5
    <3>2. h[k + 1] = h[k] + Fee[s[k + 1]] /\ Fee[s[k + 1]] \in Nat
      BY <2>2, <2>3, <3>1
    <3>3. QED BY <3>1, <3>2
  <2> HIDE DEF Q
  <2>6. Len(s) \in Q
    BY <2>3, <2>4, <2>5, CoinFold!NatSetInduction
  <2>7. h[Len(s)] \in Nat
    BY <2>3, <2>6 DEF Q
  <2>8. QED BY <1>1, <2>1, <2>7
<1>5. QED BY <1>2, <1>3, <1>4

\* The miner's share is no debt.
LEMMA MinerShareFacts == \A f \in Nat : MinerShare(f) \in Nat
  BY DEF MinerShare

\* What the blocks issue, block by block.
LEMMA IssuedFacts ==
  /\ IssuedOf(<<Genesis>>) = 0
  /\ \A c \in Seq(Block), b \in Block :
       c # << >> => IssuedOf(Append(c, b)) = IssuedOf(c) + Minted(b)
<1>1. \A c : IssuedOf(c) = MintFold!Fold(0, 0, Tail(c))
  BY DEF IssuedOf, MintFold!Fold, MintFold!FoldLeft, FoldLeft, MapThenFoldSet,
         MintFold!MapThenFoldSet, ByMint, MintFold!Max, Max
<1>2. ASSUME NEW c \in Seq(Block), NEW b \in Block, c # << >>
      PROVE  IssuedOf(Append(c, b)) = IssuedOf(c) + Minted(b)
  <2>1. Tail(c) \in Seq(Block)
    BY <1>2, HeadTailProperties
  <2>2. Tail(Append(c, b)) = Append(Tail(c), b)
    <3>1. <<b>> \in Seq(Block) /\ Append(c, b) = c \o <<b>> /\ Append(Tail(c), b) = Tail(c) \o <<b>>
      BY <2>1, AppendConcat
    <3>2. Tail(c \o <<b>>) = Tail(c) \o <<b>>
      BY <1>2, <3>1, TailConcat
    <3>3. QED BY <3>1, <3>2
  <2>3. MintFold!Fold(0, 0, Append(Tail(c), b)) = ByMint(0, MintFold!Fold(0, 0, Tail(c)), b)
    <3> DEFINE d == Tail(c)
    <3>1. d \in Seq(Block)
      BY <2>1
    <3> HIDE DEF d
    <3>2. MintFold!Fold(0, 0, Append(d, b)) = ByMint(0, MintFold!Fold(0, 0, d), b)
      BY <3>1, MintFold!FoldAppend
    <3>3. QED BY <3>2 DEF d
  <2>4. QED BY <1>1, <2>2, <2>3, Zenon DEF ByMint
<1>3. IssuedOf(<<Genesis>>) = 0
  <2>1. \A x : Tail(<<x>>) = << >>
    OBVIOUS
  <2>2. QED BY <1>1, <2>1, MintFold!FoldEmpty, Zenon
<1>4. QED BY <1>2, <1>3

\* Crediting one address moves the sum of all balances by as much.
LEMMA SumCredit ==
  ASSUME NEW b \in [Addrs -> Int], NEW a \in Addrs, NEW m \in Int
  PROVE  SumFunction(b) \in Int /\ SumFunction(Credit(b, a, m)) = SumFunction(b) + m
<1>1. \A f : SumFunction(f) = CoinFold!Sum(f, DOMAIN f)
  BY DEF SumFunction, SumFunctionOnSet, CoinFold!SumFunctionOnSet, FoldFunctionOnSet,
         CoinFold!FoldFunctionOnSet, MapThenFoldSet, CoinFold!MapThenFoldSet, CoinFold!Sum
<1> DEFINE g == Credit(b, a, m)
<1>2. /\ DOMAIN g = Addrs /\ \A y \in Addrs : g[y] \in Int
      /\ \A y \in Addrs \ {a} : g[y] = b[y]
      /\ g[a] = b[a] + m
  BY DEF Credit
<1>3. DOMAIN b = Addrs /\ \A y \in Addrs : b[y] \in Int
  OBVIOUS
<1>4. CoinFold!IsFiniteSet(Addrs)
  BY TxAssumption, FiniteBridge
<1> HIDE DEF g
<1>5. CoinFold!Sum(g, Addrs) = CoinFold!Sum(b, Addrs) - b[a] + g[a]
  BY <1>2, <1>3, <1>4, CoinFold!SumChange
<1>6. CoinFold!Sum(b, Addrs) \in Int
  BY <1>3, <1>4, CoinFold!SumRemove
<1>7. SumFunction(g) = CoinFold!Sum(g, Addrs) /\ SumFunction(b) = CoinFold!Sum(b, Addrs)
  BY <1>1, <1>2, <1>3, Zenon
<1>8. QED BY <1>2, <1>3, <1>5, <1>6, <1>7 DEF g

\* Nobody owns anything at first.
LEMMA SumNothing == SumFunction([a \in Addrs |-> 0]) = 0
<1> DEFINE z == [a \in Addrs |-> 0]
<1>1. SumFunction(z) = CoinFold!Sum(z, DOMAIN z)
  BY DEF SumFunction, SumFunctionOnSet, CoinFold!SumFunctionOnSet, FoldFunctionOnSet,
         CoinFold!FoldFunctionOnSet, MapThenFoldSet, CoinFold!MapThenFoldSet, CoinFold!Sum
<1>2. DOMAIN z = Addrs /\ \A y \in Addrs : z[y] = 0
  OBVIOUS
<1>3. CoinFold!IsFiniteSet(Addrs) /\ CoinFold!Cardinality(Addrs) \in Nat
  <2>1. \A S : Cardinality(S) = CoinFold!Cardinality(S)
    BY DEF Cardinality, CoinFold!Cardinality
  <2>2. Cardinality(Addrs) \in Nat
    BY TxAssumption, FS_CardinalityType
  <2>3. QED BY <2>1, <2>2, TxAssumption, FiniteBridge
<1> HIDE DEF z
<1>4. CoinFold!Sum(z, Addrs) = 0 * CoinFold!Cardinality(Addrs)
  BY <1>2, <1>3, CoinFold!SumConstant
<1>5. QED BY <1>1, <1>2, <1>3, <1>4 DEF z

-----------------------------------------------------------------------------
(* How many of the first n transactions an address sent.                     *)
CountUpTo(s, n, a) == Cardinality({j \in 1 .. n : From[s[j]] = a})
Count(s, a) == CountUpTo(s, Len(s), a)
Counts(s) == [a \in Addrs |-> Count(s, a)]

\* The nonces of each sender in s go on from the given ones without a gap.
InOrder(s, nonces) ==
  \A k \in DOMAIN s : Nonce[s[k]] = nonces[From[s[k]]] + CountUpTo(s, k - 1, From[s[k]])

\* Counting one position more.
LEMMA CountFacts ==
  ASSUME NEW s, NEW a
  PROVE  /\ CountUpTo(s, 0, a) = 0
         /\ \A n \in Nat : CountUpTo(s, n, a) \in Nat
         /\ \A n \in Nat : CountUpTo(s, n + 1, a)
                             = CountUpTo(s, n, a) + (IF From[s[n + 1]] = a THEN 1 ELSE 0)
<1> DEFINE P(n) == {j \in 1 .. n : From[s[j]] = a}
<1>1. CountUpTo(s, 0, a) = 0
  <2>1. P(0) = {}
    OBVIOUS
  <2>2. QED BY <2>1, FS_EmptySet, Zenon DEF CountUpTo
<1>2. ASSUME NEW n \in Nat PROVE IsFiniteSet(P(n)) /\ Cardinality(P(n)) \in Nat
  <2>1. IsFiniteSet(1 .. n)
    <3>1. 1 \in Int /\ n \in Int
      OBVIOUS
    <3>2. QED BY <3>1, FS_Interval, Zenon
  <2>2. P(n) \in SUBSET (1 .. n)
    OBVIOUS
  <2> HIDE DEF P
  <2>3. IsFiniteSet(P(n))
    BY <2>1, <2>2, FS_Subset, Zenon
  <2>4. QED BY <2>3, FS_CardinalityType, Zenon
<1>3. ASSUME NEW n \in Nat
      PROVE  CountUpTo(s, n + 1, a) = CountUpTo(s, n, a) + (IF From[s[n + 1]] = a THEN 1 ELSE 0)
  <2>1. 1 .. n + 1 = (1 .. n) \cup {n + 1} /\ n + 1 \notin 1 .. n
    OBVIOUS
  <2>2. CASE From[s[n + 1]] = a
    <3>1. P(n + 1) = P(n) \cup {n + 1} /\ n + 1 \notin P(n)
      BY <2>1, <2>2
    <3> HIDE DEF P
    <3>2. Cardinality(P(n) \cup {n + 1}) = Cardinality(P(n)) + 1
      BY <1>2, <3>1, FS_AddElement
    <3>3. QED BY <2>2, <3>1, <3>2 DEF CountUpTo, P
  <2>3. CASE From[s[n + 1]] # a
    <3>1. P(n + 1) = P(n)
      BY <2>1, <2>3
    <3> HIDE DEF P
    <3>2. Cardinality(P(n + 1)) = Cardinality(P(n)) + 0
      BY <1>2, <3>1
    <3>3. QED BY <2>3, <3>2 DEF CountUpTo, P
  <2>4. QED BY <2>2, <2>3
<1>4. \A n \in Nat : CountUpTo(s, n, a) \in Nat
  BY <1>2 DEF CountUpTo
<1>5. QED BY <1>1, <1>3, <1>4

\* Counting in a concatenation.
LEMMA CountConcat ==
  ASSUME NEW s \in Seq(Txs), NEW t \in Seq(Txs), NEW a
  PROVE  /\ \A n \in 0 .. Len(s) : CountUpTo(s \o t, n, a) = CountUpTo(s, n, a)
         /\ \A n \in 0 .. Len(t) :
              CountUpTo(s \o t, Len(s) + n, a) = Count(s, a) + CountUpTo(t, n, a)
         /\ Count(s \o t, a) = Count(s, a) + Count(t, a)
<1> DEFINE c == s \o t
<1>1. /\ Len(c) = Len(s) + Len(t) /\ Len(s) \in Nat /\ Len(t) \in Nat
      /\ \A i \in 1 .. Len(s) + Len(t) : c[i] = IF i <= Len(s) THEN s[i] ELSE t[i - Len(s)]
  BY ConcatProperties, LenProperties
<1> HIDE DEF c
<1>2. ASSUME NEW n \in 0 .. Len(s) PROVE CountUpTo(c, n, a) = CountUpTo(s, n, a)
  <2>1. \A j \in 1 .. n : c[j] = s[j]
    BY <1>1
  <2>2. {j \in 1 .. n : From[c[j]] = a} = {j \in 1 .. n : From[s[j]] = a}
    BY <2>1
  <2>3. QED BY <2>2 DEF CountUpTo
<1> DEFINE Q == {n \in Nat : n <= Len(t) =>
                   CountUpTo(c, Len(s) + n, a) = Count(s, a) + CountUpTo(t, n, a)}
<1>3. 0 \in Q
  <2>1. CountUpTo(c, Len(s), a) = Count(s, a)
    BY <1>1, <1>2 DEF Count
  <2>2. Count(s, a) \in Nat /\ CountUpTo(t, 0, a) = 0
    BY <1>1, CountFacts DEF Count
  <2>3. Len(s) + 0 = Len(s) /\ Count(s, a) + 0 = Count(s, a)
    BY <1>1, <2>2
  <2>4. QED BY <2>1, <2>2, <2>3
<1>4. ASSUME NEW n \in Nat, n \in Q PROVE n + 1 \in Q
  <2> SUFFICES ASSUME n + 1 <= Len(t)
               PROVE  CountUpTo(c, Len(s) + (n + 1), a) = Count(s, a) + CountUpTo(t, n + 1, a)
    OBVIOUS
  <2>1. CountUpTo(c, Len(s) + n, a) = Count(s, a) + CountUpTo(t, n, a)
    BY <1>1, <1>4
  <2> DEFINE m == Len(s) + n
  <2>2. m \in Nat /\ Len(s) + (n + 1) = m + 1 /\ c[m + 1] = t[n + 1]
    BY <1>1
  <2>3. CountUpTo(c, m + 1, a) = CountUpTo(c, m, a) + (IF From[c[m + 1]] = a THEN 1 ELSE 0)
    BY <2>2, CountFacts
  <2>4. CountUpTo(t, n + 1, a) = CountUpTo(t, n, a) + (IF From[t[n + 1]] = a THEN 1 ELSE 0)
    BY CountFacts
  <2>5. Count(s, a) \in Nat /\ CountUpTo(t, n, a) \in Nat
    BY <1>1, CountFacts DEF Count
  <2> HIDE DEF m
  <2>6. CountUpTo(c, m, a) = Count(s, a) + CountUpTo(t, n, a)
    BY <2>1 DEF m
  <2>7. CountUpTo(c, m + 1, a) = Count(s, a) + CountUpTo(t, n + 1, a)
    BY <2>2, <2>3, <2>4, <2>5, <2>6
  <2>8. QED BY <2>2, <2>7, Zenon
<1> HIDE DEF Q
<1>5. \A n \in Nat : n \in Q
  BY <1>3, <1>4, CoinFold!NatSetInduction
<1>6. \A n \in 0 .. Len(t) : CountUpTo(c, Len(s) + n, a) = Count(s, a) + CountUpTo(t, n, a)
  BY <1>1, <1>5 DEF Q
<1>7. Count(c, a) = Count(s, a) + Count(t, a)
  <2>1. Len(t) \in 0 .. Len(t)
    BY <1>1
  <2>2. QED BY <1>1, <1>6, <2>1, Zenon DEF Count
<1>8. QED BY <1>2, <1>6, <1>7 DEF c

\* What continues the counts of s may be put behind it.
LEMMA InOrderConcat ==
  ASSUME NEW s \in Seq(Txs), NEW t \in Seq(Txs),
         InOrder(s, Counts(<< >>)), InOrder(t, Counts(s))
  PROVE  InOrder(s \o t, Counts(<< >>))
<1> DEFINE c == s \o t
<1>1. /\ Len(c) = Len(s) + Len(t) /\ Len(s) \in Nat /\ Len(t) \in Nat /\ c \in Seq(Txs)
      /\ \A i \in 1 .. Len(s) + Len(t) : c[i] = IF i <= Len(s) THEN s[i] ELSE t[i - Len(s)]
  BY ConcatProperties, LenProperties
<1>2. /\ DOMAIN c = 1 .. Len(s) + Len(t) /\ DOMAIN s = 1 .. Len(s) /\ DOMAIN t = 1 .. Len(t)
      /\ \A i \in 1 .. Len(s) : From[s[i]] \in Addrs
      /\ \A i \in 1 .. Len(t) : From[t[i]] \in Addrs
  BY <1>1, LenProperties, ElementOfSeq, TxAssumption
<1>3. \A a \in Addrs : /\ \A n \in 0 .. Len(s) : CountUpTo(c, n, a) = CountUpTo(s, n, a)
                       /\ \A n \in 0 .. Len(t) : CountUpTo(c, Len(s) + n, a)
                                                   = Count(s, a) + CountUpTo(t, n, a)
  BY CountConcat
<1>4. \A a \in Addrs : Counts(<< >>)[a] = 0 /\ Counts(s)[a] = Count(s, a)
  <2>1. \A a : CountUpTo(<< >>, 0, a) = 0
    BY CountFacts
  <2>2. Len(<< >>) = 0
    OBVIOUS
  <2>3. \A a : Count(<< >>, a) = 0
    BY <2>1, <2>2, Zenon DEF Count
  <2>4. QED BY <2>3 DEF Counts
<1>5. \A a \in Addrs : \A n \in Nat : CountUpTo(c, n, a) \in Nat /\ CountUpTo(t, n, a) \in Nat
                                      /\ CountUpTo(s, n, a) \in Nat
  BY CountFacts
<1>6. \A a \in Addrs : Count(s, a) \in Nat
  BY <1>1, <1>5 DEF Count
<1> HIDE DEF c
<1> SUFFICES ASSUME NEW k \in DOMAIN c
             PROVE  Nonce[c[k]] = Counts(<< >>)[From[c[k]]] + CountUpTo(c, k - 1, From[c[k]])
  BY DEF InOrder, c
<1>7. CASE k <= Len(s)
  <2>1. k \in 1 .. Len(s) /\ k - 1 \in 0 .. Len(s) /\ c[k] = s[k]
    BY <1>1, <1>2, <1>7
  <2>2. Nonce[s[k]] = Counts(<< >>)[From[s[k]]] + CountUpTo(s, k - 1, From[s[k]])
    BY <1>2, <2>1 DEF InOrder
  <2>3. CountUpTo(c, k - 1, From[s[k]]) = CountUpTo(s, k - 1, From[s[k]])
    BY <1>2, <1>3, <2>1
  <2>4. QED BY <2>1, <2>2, <2>3
<1>8. CASE ~(k <= Len(s))
  <2> DEFINE i == k - Len(s)
  <2>1. i \in 1 .. Len(t) /\ i - 1 \in 0 .. Len(t) /\ c[k] = t[i] /\ k - 1 = Len(s) + (i - 1)
    BY <1>1, <1>2, <1>8
  <2> HIDE DEF i
  <2> DEFINE a == From[t[i]]
  <2>2. a \in Addrs
    BY <1>2, <2>1
  <2>3. Nonce[t[i]] = Counts(s)[a] + CountUpTo(t, i - 1, a)
    BY <1>2, <2>1 DEF InOrder
  <2> HIDE DEF a
  <2>4. CountUpTo(c, k - 1, a) = Count(s, a) + CountUpTo(t, i - 1, a)
    BY <1>3, <2>1, <2>2
  <2>5. Count(s, a) \in Nat /\ CountUpTo(t, i - 1, a) \in Nat
    <3>1. i - 1 \in Nat
      BY <2>1
    <3>2. QED BY <1>5, <1>6, <2>2, <3>1, Zenon
  <2>6. Nonce[t[i]] = Counts(<< >>)[a] + CountUpTo(c, k - 1, a)
    BY <1>4, <2>2, <2>3, <2>4, <2>5
  <2>7. QED BY <2>1, <2>6 DEF a
<1>9. QED BY <1>7, <1>8

-----------------------------------------------------------------------------
(* The accounts of a node without peers.  A coin of a transaction has a      *)
(* nonce below the sender's, a coin of a block one of the hashes mined so    *)
(* far: so what the next transaction or block makes is new.                  *)
Fresh(l, n) ==
  \A o \in DOMAIN l.utxo.coins :
    /\ o[1] \in Txs => Nonce[o[1]] < l.nonces[From[o[1]]]
    /\ o[1] \in Hashes => \E k \in Nat : k < n /\ o[1] = <<"own", k>>

\* The ledger l is what the transactions txs and the issue of coins explain.
Explained(l, n, txs, issued) ==
  /\ LedgerOK(l) /\ Fresh(l, n)
  /\ \A a \in Addrs : l.nonces[a] = Count(txs, a)
  /\ ~l.short => SumFunction(l.balances) = issued

Booked(l, c, n) ==
  /\ TxsOf(c) \in Seq(Txs) /\ IssuedOf(c) \in Int
  /\ InOrder(TxsOf(c), Counts(<< >>))
  /\ Explained(l, n, TxsOf(c), IssuedOf(c))

AtWork(k) ==
  /\ job.hash = <<"own", k>>
  /\ InOrder(job.txs, Counts(TxsOf(chain)))
  /\ job.phase = "txs" =>
       \E done \in Seq(Txs) :
         /\ job.txs = done \o job.todo
         /\ Explained(ledger, k, TxsOf(chain) \o done, IssuedOf(chain) - Fees(done))
  /\ job.phase = "paid" => Booked(ledger, Append(chain, JobBlock), mined)

AccountsInv ==
  /\ ~raced
  /\ Booked(Replay(chain), chain, mined)
  /\ Booked(Replay(disk), disk, mined)
  /\ job # Idle => \E k \in Nat : k < mined /\ AtWork(k)

\* What is booked stays so when more blocks are mined.
LEMMA FreshLater ==
  ASSUME NEW l, NEW c, NEW n \in Nat, NEW m \in Nat, n <= m, Booked(l, c, n)
  PROVE  Booked(l, c, m)
<1>1. Fresh(l, n)
  BY Zenon DEF Booked, Explained
<1>2. \A k \in Nat : k < n => k < m
  OBVIOUS
<1>3. Fresh(l, m)
  BY <1>1, <1>2, Zenon DEF Fresh
<1>4. QED BY <1>3, Zenon DEF Booked, Explained

\* One more transaction, with the next nonce of its sender.
LEMMA ExplainedNext ==
  ASSUME NEW l, NEW n \in Nat, NEW txs \in Seq(Txs), NEW issued \in Int,
         Explained(l, n, txs, issued), NEW t \in Txs, NEW height \in Nat,
         Nonce[t] = Count(txs, From[t])
  PROVE  Explained(ApplyTx(l, t, height), n, Append(txs, t), issued - Fee[t])
<1> DEFINE z == ApplyTx(l, t, height)
           f == From[t]
           u == To[t]
<1>1. /\ LedgerOK(l) /\ Fresh(l, n)
      /\ \A a \in Addrs : l.nonces[a] = Count(txs, a)
      /\ ~l.short => SumFunction(l.balances) = issued
  BY Zenon DEF Explained
<1>2. /\ f \in Addrs /\ u \in Addrs /\ Amount[t] \in Nat /\ Fee[t] \in Nat /\ Nonce[t] \in Nat
      /\ Cost(t) = Amount[t] + Fee[t] /\ t \notin Hashes
  BY TxAssumption DEF Cost
<1>3. l.nonces \in [Addrs -> Nat] /\ l.balances \in [Addrs -> Nat]
      /\ DOMAIN l.utxo.coins \subseteq Outpoints
  BY <1>1 DEF LedgerOK, WellKept
<1>4. \A i : <<t, i>> \notin DOMAIN l.utxo.coins
  <2> SUFFICES ASSUME NEW i, <<t, i>> \in DOMAIN l.utxo.coins PROVE FALSE
    OBVIOUS
  <2> DEFINE o == <<t, i>>
  <2>1. o[1] = t
    OBVIOUS
  <2>2. Nonce[t] < l.nonces[f]
    BY <1>1, <2>1, Zenon DEF Fresh
  <2>3. l.nonces[f] = Nonce[t]
    BY <1>1, <1>2
  <2>4. QED BY <1>2, <2>2, <2>3
<1>5. /\ LedgerOK(z)
      /\ DOMAIN z.utxo.coins \subseteq DOMAIN l.utxo.coins \cup {<<t, 0>>, <<t, 1>>}
      /\ z.nonces = Raised(l.nonces, f)
      /\ ~z.short => /\ ~l.short /\ l.balances[f] >= Cost(t)
                     /\ z.balances = Moved(l.balances, t)
  <2>1. z = ApplyTx(l, t, height)
    OBVIOUS
  <2>2. <<t, 0>> \notin DOMAIN l.utxo.coins /\ <<t, 1>> \notin DOMAIN l.utxo.coins
    BY <1>4, Zenon
  <2>3. LedgerOK(l)
    BY <1>1
  <2> HIDE DEF z
  <2>4. QED BY <2>1, <2>2, <2>3, ApplyFacts DEF f
<1> HIDE DEF z, f, u
<1>6. \A a \in Addrs : z.nonces[a] = l.nonces[a] + (IF f = a THEN 1 ELSE 0)
  BY <1>2, <1>3, <1>5 DEF Raised
<1>7. \A a \in Addrs : z.nonces[a] = Count(Append(txs, t), a)
  <2> SUFFICES ASSUME NEW a \in Addrs PROVE z.nonces[a] = Count(Append(txs, t), a)
    OBVIOUS
  <2>1. <<t>> \in Seq(Txs) /\ Append(txs, t) = txs \o <<t>>
    BY AppendConcat
  <2>2. Count(txs \o <<t>>, a) = Count(txs, a) + Count(<<t>>, a)
    BY <2>1, CountConcat
  <2>3. Count(<<t>>, a) = (IF f = a THEN 1 ELSE 0)
    <3> DEFINE q == <<t>>
    <3>1. Len(q) = 0 + 1 /\ q[0 + 1] = t
      OBVIOUS
    <3> HIDE DEF q
    <3>2. CountUpTo(q, 0 + 1, a) = CountUpTo(q, 0, a) + (IF From[q[0 + 1]] = a THEN 1 ELSE 0)
          /\ CountUpTo(q, 0, a) = 0
      BY CountFacts
    <3>3. CountUpTo(q, 0 + 1, a) = (IF From[t] = a THEN 1 ELSE 0)
      BY <3>1, <3>2
    <3>4. QED BY <3>1, <3>3, Zenon DEF Count, q, f
  <2>4. l.nonces[a] = Count(txs, a)
    BY <1>1
  <2>5. QED BY <1>6, <2>1, <2>2, <2>3, <2>4
<1>8. Fresh(z, n)
  <2> SUFFICES ASSUME NEW o \in DOMAIN z.utxo.coins
               PROVE  /\ o[1] \in Txs => Nonce[o[1]] < z.nonces[From[o[1]]]
                      /\ o[1] \in Hashes => \E k \in Nat : k < n /\ o[1] = <<"own", k>>
    BY DEF Fresh
  <2>1. CASE o \in DOMAIN l.utxo.coins
    <3>1. /\ o[1] \in Txs => Nonce[o[1]] < l.nonces[From[o[1]]]
          /\ o[1] \in Hashes => \E k \in Nat : k < n /\ o[1] = <<"own", k>>
      BY <1>1, <2>1 DEF Fresh
    <3>2. ASSUME NEW x \in Txs, Nonce[x] < l.nonces[From[x]] PROVE Nonce[x] < z.nonces[From[x]]
      <4>1. From[x] \in Addrs /\ Nonce[x] \in Nat
        BY TxAssumption
      <4>2. l.nonces[From[x]] \in Nat
        BY <1>3, <4>1
      <4>3. QED BY <1>6, <3>2, <4>1, <4>2
    <3>3. QED BY <3>1, <3>2
  <2>2. CASE o \in {<<t, 0>>, <<t, 1>>}
    <3>1. o[1] = t
      BY <2>2
    <3>2. z.nonces[f] = Nonce[t] + 1
      <4>1. Nonce[t] = Count(txs, f)
        BY DEF f
      <4>2. l.nonces[f] = Nonce[t] /\ z.nonces[f] = l.nonces[f] + 1
        BY <1>1, <1>2, <1>6, <4>1
      <4>3. QED BY <4>2
    <3>3. Nonce[t] < z.nonces[From[t]]
      BY <1>2, <3>2 DEF f
    <3>4. QED BY <1>2, <3>1, <3>3
  <2>3. QED BY <1>5, <2>1, <2>2
<1>9. ~z.short => SumFunction(z.balances) = issued - Fee[t]
  <2> SUFFICES ASSUME ~z.short PROVE SumFunction(z.balances) = issued - Fee[t]
    OBVIOUS
  <2> DEFINE b == l.balances
             m == 0 - Cost(t)
             d == Credit(b, f, m)
  <2>1. b \in [Addrs -> Int] /\ m \in Int /\ \A a \in Addrs : b[a] - Cost(t) = b[a] + m
    BY <1>2, <1>3
  <2>2. [b EXCEPT ![f] = @ - Cost(t)] = d
    BY <1>2, <2>1 DEF Credit
  <2>3. d \in [Addrs -> Int]
    BY <1>2, <2>1 DEF Credit
  <2>4. z.balances = Credit(d, u, Amount[t]) /\ SumFunction(b) = issued
    <3>1. ~l.short /\ z.balances = Moved(l.balances, t)
      BY <1>5
    <3>2. Moved(l.balances, t) = Credit([b EXCEPT ![f] = @ - Cost(t)], u, Amount[t])
      BY DEF Moved, f, u
    <3> HIDE DEF d
    <3>3. QED BY <1>1, <2>2, <3>1, <3>2
  <2> HIDE DEF b, d
  <2>5. SumFunction(d) = SumFunction(b) + m
    <3> HIDE DEF m
    <3>1. QED BY <1>2, <2>1, SumCredit DEF d
  <2> HIDE DEF m
  <2>6. SumFunction(Credit(d, u, Amount[t])) = SumFunction(d) + Amount[t]
    <3> DEFINE amount == Amount[t]
    <3>1. amount \in Int
      BY <1>2
    <3> HIDE DEF amount
    <3>2. SumFunction(Credit(d, u, amount)) = SumFunction(d) + amount
      BY <1>2, <2>3, <3>1, SumCredit
    <3>3. QED BY <3>2 DEF amount
  <2>7. m = 0 - (Amount[t] + Fee[t])
    BY <1>2 DEF m
  <2>8. QED BY <1>2, <2>4, <2>5, <2>6, <2>7
<1>10. QED BY <1>5, <1>7, <1>8, <1>9, Zenon DEF Explained, z

\* The reward, under a hash not used before.
LEMMA ExplainedPay ==
  ASSUME NEW l, NEW k \in Nat, NEW n \in Nat, k < n, NEW txs, NEW issued \in Int,
         Explained(l, k, txs, issued), NEW a \in Addrs, NEW amount \in Nat, NEW height \in Nat,
         NEW hash, hash = <<"own", k>>
  PROVE  Explained(PayCoinbase(l, hash, a, amount, height), n, txs, issued + amount)
<1> DEFINE z == PayCoinbase(l, hash, a, amount, height)
<1>1. /\ LedgerOK(l) /\ Fresh(l, k)
      /\ \A d \in Addrs : l.nonces[d] = Count(txs, d)
      /\ ~l.short => SumFunction(l.balances) = issued
  BY Zenon DEF Explained
<1>2. hash \in Hashes
  BY NamesAreHashes
<1>3. \A i \in Nat : i < k => <<"own", i>> # hash
  OBVIOUS
<1>4. \A i : <<hash, i>>[1] = hash
  OBVIOUS
<1>5. <<hash, 0>> \notin DOMAIN l.utxo.coins
  BY <1>1, <1>2, <1>3, <1>4, Zenon DEF Fresh
<1>6. /\ LedgerOK(z)
      /\ DOMAIN z.utxo.coins \subseteq DOMAIN l.utxo.coins \cup {<<hash, 0>>}
      /\ z.nonces = l.nonces /\ z.short = l.short
      /\ z.balances = Credit(l.balances, a, amount)
  <2> DEFINE h == hash
  <2>1. LedgerOK(l) /\ z = PayCoinbase(l, h, a, amount, height) /\ h \in Hashes
        /\ <<h, 0>> \notin DOMAIN l.utxo.coins
    BY <1>1, <1>2, <1>5
  <2> HIDE DEF z, h
  <2>2. /\ LedgerOK(z)
        /\ DOMAIN z.utxo.coins \subseteq DOMAIN l.utxo.coins \cup {<<h, 0>>}
        /\ z.nonces = l.nonces /\ z.short = l.short
        /\ z.balances = Credit(l.balances, a, amount)
    BY <2>1, PayFacts
  <2>3. QED BY <2>2 DEF h
<1> HIDE DEF z
<1>7. Fresh(z, n)
  <2> SUFFICES ASSUME NEW o \in DOMAIN z.utxo.coins
               PROVE  /\ o[1] \in Txs => Nonce[o[1]] < z.nonces[From[o[1]]]
                      /\ o[1] \in Hashes => \E j \in Nat : j < n /\ o[1] = <<"own", j>>
    BY DEF Fresh
  <2>1. CASE o \in DOMAIN l.utxo.coins
    <3>1. /\ o[1] \in Txs => Nonce[o[1]] < l.nonces[From[o[1]]]
          /\ o[1] \in Hashes => \E j \in Nat : j < k /\ o[1] = <<"own", j>>
      BY <1>1, <2>1 DEF Fresh
    <3>2. \A j \in Nat : j < k => j < n
      OBVIOUS
    <3>3. QED BY <1>6, <3>1, <3>2, Zenon
  <2>2. CASE o = <<hash, 0>>
    <3>1. o[1] = hash /\ hash \notin Txs
      BY <1>2, <2>2, TxAssumption
    <3>2. QED BY <3>1
  <2>3. QED BY <1>6, <2>1, <2>2
<1>8. ~z.short => SumFunction(z.balances) = issued + amount
  <2>1. l.balances \in [Addrs -> Int] /\ amount \in Int
    BY <1>1 DEF LedgerOK
  <2>2. SumFunction(Credit(l.balances, a, amount)) = SumFunction(l.balances) + amount
    BY <2>1, SumCredit
  <2>3. QED BY <1>1, <1>6, <2>2
<1>9. QED BY <1>1, <1>6, <1>7, <1>8, Zenon DEF Explained, z

\* Counting below the end of the first part.
LEMMA CountBefore ==
  \A s, t \in Seq(Txs) : \A a : \A n \in 0 .. Len(s) :
    CountUpTo(s \o t, n, a) = CountUpTo(s, n, a)
  BY CountConcat, Zenon

\* The transaction a job applies next has the nonce its sender is at.
LEMMA NextNonce ==
  ASSUME NEW all \in Seq(Txs), NEW done \in Seq(Txs), NEW todo \in Seq(Txs), todo # << >>,
         InOrder(done \o todo, Counts(all))
  PROVE  Nonce[Head(todo)] = Count(all \o done, From[Head(todo)])
<1> DEFINE t == Head(todo)
           f == From[t]
           c == done \o todo
           p == Len(done) + 1
<1>1. /\ Len(done) \in Nat /\ Len(todo) \in Nat \ {0} /\ todo[1] = t /\ t \in Txs /\ f \in Addrs
      /\ c \in Seq(Txs) /\ Len(c) = Len(done) + Len(todo)
      /\ \A i \in 1 .. Len(done) + Len(todo) :
           c[i] = IF i <= Len(done) THEN done[i] ELSE todo[i - Len(done)]
  <2>1. Len(done) \in Nat /\ Len(todo) \in Nat \ {0}
    BY LenProperties, EmptySeq
  <2>2. todo[1] = t /\ t \in Txs
    BY HeadTailProperties
  <2>3. f \in Addrs
    BY <2>2, TxAssumption
  <2>4. QED BY <2>1, <2>2, <2>3, ConcatProperties
<1> HIDE DEF t, c
<1>2. p \in DOMAIN c /\ c[p] = t /\ p - 1 = Len(done)
  <2>1. p \in 1 .. Len(done) + Len(todo) /\ ~(p <= Len(done)) /\ p - Len(done) = 1
    BY <1>1
  <2>2. DOMAIN c = 1 .. Len(c)
    BY <1>1, LenProperties
  <2>3. QED BY <1>1, <2>1, <2>2
<1> HIDE DEF p
<1>3. Nonce[t] = Counts(all)[f] + CountUpTo(c, Len(done), f)
  <2>1. InOrder(c, Counts(all))
    BY DEF c
  <2>2. Nonce[c[p]] = Counts(all)[From[c[p]]] + CountUpTo(c, p - 1, From[c[p]])
    BY <1>2, <2>1, Zenon DEF InOrder
  <2>3. QED BY <1>2, <2>2 DEF f
<1>4. Counts(all)[f] = Count(all, f)
  BY <1>1 DEF Counts
<1> HIDE DEF f
<1>5. CountUpTo(c, Len(done), f) = Count(done, f)
  <2>1. Len(done) \in 0 .. Len(done)
    BY <1>1
  <2>2. \A n \in 0 .. Len(done) : CountUpTo(done \o todo, n, f) = CountUpTo(done, n, f)
    BY CountBefore, Zenon
  <2>3. QED BY <2>1, <2>2, Zenon DEF Count, c
<1>6. Count(all \o done, f) = Count(all, f) + Count(done, f)
  BY CountConcat
<1>7. QED BY <1>3, <1>4, <1>5, <1>6 DEF f, t

\* A job starts from a queue that is in order.
LEMMA StartWork ==
  ASSUME IInv, ReplayInv, MempoolGapless, AccountsInv, NEW m \in Miners, StartMining(m)
  PROVE  AccountsInv'
<1>1. /\ chain \in Seq(Block) /\ mempool \in Seq(Txs) /\ mined \in Nat
  BY DEF IInv, ChainTypes
<1>2. /\ job = Idle /\ chain' = chain /\ disk' = disk /\ ledger' = ledger /\ raced' = raced
      /\ mined' = mined + 1
      /\ job'.phase = "txs" /\ job'.hash = <<"own", mined>>
      /\ job'.txs = mempool /\ job'.todo = mempool
  BY DEF StartMining
<1>3. /\ ~raced /\ Booked(Replay(chain), chain, mined) /\ Booked(Replay(disk), disk, mined)
      /\ ledger = Replay(chain)
  BY <1>2 DEF AccountsInv, ReplayInv
<1>4. Booked(Replay(chain), chain, mined + 1) /\ Booked(Replay(disk), disk, mined + 1)
  <2>1. mined + 1 \in Nat /\ mined <= mined + 1
    BY <1>1
  <2>2. QED BY <1>1, <1>3, <2>1, FreshLater
<1>5. /\ TxsOf(chain) \in Seq(Txs) /\ IssuedOf(chain) \in Int
      /\ Explained(ledger, mined, TxsOf(chain), IssuedOf(chain))
  BY <1>3, Zenon DEF Booked
<1>6. \A a \in Addrs : ledger.nonces[a] = Count(TxsOf(chain), a)
  BY <1>5, Zenon DEF Explained
<1>7. InOrder(mempool, Counts(TxsOf(chain)))
  <2> SUFFICES ASSUME NEW i \in DOMAIN mempool
               PROVE  Nonce[mempool[i]] = Counts(TxsOf(chain))[From[mempool[i]]]
                                            + CountUpTo(mempool, i - 1, From[mempool[i]])
    BY Zenon DEF InOrder
  <2> DEFINE a == From[mempool[i]]
  <2>1. a \in Addrs
    BY <1>1, TxAssumption
  <2>2. Nonce[mempool[i]] = ledger.nonces[a] + QueuedUpTo(i - 1, a)
    BY <1>2, Zenon DEF MempoolGapless
  <2>3. QueuedUpTo(i - 1, a) = CountUpTo(mempool, i - 1, a)
    BY Zenon DEF QueuedUpTo, CountUpTo
  <2>4. Counts(TxsOf(chain))[a] = ledger.nonces[a]
    BY <1>6, <2>1 DEF Counts
  <2>5. QED BY <2>2, <2>3, <2>4, Zenon
<1> PICK k \in Nat : k = mined
  BY <1>1
<1>8. Explained(ledger, k, TxsOf(chain) \o << >>, IssuedOf(chain) - Fees(<< >>))
  <2>1. TxsOf(chain) \o << >> = TxsOf(chain)
    BY <1>5
  <2>2. IssuedOf(chain) - Fees(<< >>) = IssuedOf(chain)
    BY <1>5, FeesFacts
  <2>3. QED BY <1>5, <2>1, <2>2, Zenon
<1>9. << >> \in Seq(Txs) /\ mempool = << >> \o mempool
  BY <1>1
<1>10. AtWork(k)'
  <2>1. job'.phase # "paid" /\ job'.hash = <<"own", k>>
    BY <1>2
  <2>2. InOrder(job'.txs, Counts(TxsOf(chain')))
    BY <1>2, <1>7
  <2>3. Explained(ledger', k, TxsOf(chain') \o << >>, IssuedOf(chain') - Fees(<< >>))
    BY <1>2, <1>8
  <2>4. QED BY <1>2, <1>9, <2>1, <2>2, <2>3 DEF AtWork
<1>11. k < mined'
  BY <1>1, <1>2
<1>12. QED BY <1>1, <1>2, <1>3, <1>4, <1>10, <1>11 DEF AccountsInv

\* Applying one transaction of the block.
LEMMA ApplyWork ==
  ASSUME IInv, AccountsInv, ApplyNext
  PROVE  AccountsInv'
<1>1. /\ job.phase = "txs" /\ job.todo # << >> /\ chain' = chain /\ disk' = disk
      /\ mined' = mined /\ raced' = raced
      /\ ledger' = ApplyTx(ledger, Head(job.todo), job.index)
      /\ job' = [job EXCEPT !.todo = Tail(@)]
  BY DEF ApplyNext
<1>2. job \in Jobs /\ job # Idle
  BY <1>1 DEF IInv, ChainTypes, Idle
<1>3. job.todo \in Seq(Txs) /\ job.index \in Nat
  BY <1>2 DEF Jobs
<1>4. /\ job'.phase = "txs" /\ job'.todo = Tail(job.todo) /\ job'.txs = job.txs
      /\ job'.hash = job.hash /\ job' # Idle
  BY <1>1, <1>2 DEF Jobs, Idle
<1>5. /\ ~raced /\ Booked(Replay(chain), chain, mined) /\ Booked(Replay(disk), disk, mined)
  BY DEF AccountsInv
<1>6. PICK k \in Nat : k < mined /\ AtWork(k)
  BY <1>2 DEF AccountsInv
<1> DEFINE all == TxsOf(chain)
           issued == IssuedOf(chain)
           t == Head(job.todo)
<1>7. PICK done \in Seq(Txs) : job.txs = done \o job.todo
                               /\ Explained(ledger, k, all \o done, issued - Fees(done))
  BY <1>1, <1>6, Zenon DEF AtWork
<1>8. all \in Seq(Txs) /\ issued \in Int
  BY <1>5, Zenon DEF Booked
<1>9. job.hash = <<"own", k>> /\ InOrder(job.txs, Counts(all))
  BY <1>6, Zenon DEF AtWork
<1> DEFINE more == Append(done, t)
<1>10. /\ t \in Txs /\ more \in Seq(Txs) /\ more \o Tail(job.todo) = done \o job.todo
  BY <1>1, <1>3, MoveHead, Zenon
<1> HIDE DEF all, issued
<1>11. Nonce[t] = Count(all \o done, From[t])
  <2>1. InOrder(done \o job.todo, Counts(all))
    BY <1>7, <1>9
  <2>2. QED BY <1>1, <1>3, <1>8, <2>1, NextNonce, Zenon
<1> HIDE DEF t
<1>12. Explained(ledger', k, all \o more, issued - Fees(more))
  <2> DEFINE txs == all \o done
             paid == issued - Fees(done)
  <2>1. txs \in Seq(Txs)
    BY <1>8
  <2>2. Fees(done) \in Nat /\ Fees(more) = Fees(done) + Fee[t] /\ Fee[t] \in Nat
    BY <1>10, FeesFacts, TxAssumption
  <2>3. paid \in Int
    BY <1>8, <2>2
  <2>4. Append(txs, t) = all \o more
    <3>1. <<t>> \in Seq(Txs) /\ Append(done, t) = done \o <<t>>
      BY <1>10, AppendConcat
    <3>2. Append(txs, t) = txs \o <<t>>
      BY <1>10, <2>1, AppendConcat
    <3>3. (all \o done) \o <<t>> = all \o (done \o <<t>>)
      BY <1>8, <3>1, ConcatAssociative
    <3>4. QED BY <3>1, <3>2, <3>3, Zenon
  <2>5. paid - Fee[t] = issued - Fees(more)
    BY <1>8, <2>2
  <2>6. Explained(ledger, k, txs, paid)
    BY <1>7, Zenon
  <2>7. Nonce[t] = Count(txs, From[t])
    BY <1>11
  <2> HIDE DEF txs, paid, more
  <2>8. Explained(ApplyTx(ledger, t, job.index), k, Append(txs, t), paid - Fee[t])
    BY <1>3, <1>6, <1>10, <2>1, <2>3, <2>6, <2>7, ExplainedNext
  <2>9. ledger' = ApplyTx(ledger, t, job.index)
    BY <1>1 DEF t
  <2>10. QED BY <2>4, <2>5, <2>8, <2>9, Zenon
<1> HIDE DEF more
<1>13. AtWork(k)'
  <2>1. job'.txs = more \o job'.todo
    BY <1>4, <1>7, <1>10
  <2>2. Explained(ledger', k, TxsOf(chain') \o more, IssuedOf(chain') - Fees(more))
    BY <1>1, <1>12 DEF all, issued
  <2>3. InOrder(job'.txs, Counts(TxsOf(chain')))
    BY <1>1, <1>4, <1>9 DEF all
  <2>4. job'.phase # "paid" /\ job'.hash = <<"own", k>>
    BY <1>4, <1>9
  <2>5. QED BY <1>10, <2>1, <2>2, <2>3, <2>4 DEF AtWork
<1>14. QED BY <1>1, <1>5, <1>6, <1>13 DEF AccountsInv

\* The reward and the miner's share close the block's account.
LEMMA PayWork ==
  ASSUME IInv, AccountsInv, PayMiner
  PROVE  AccountsInv'
<1> DEFINE amount == Reward + MinerShare(Fees(job.txs))
<1>1. /\ job.phase = "txs" /\ job.todo = << >> /\ chain' = chain /\ disk' = disk
      /\ mined' = mined /\ raced' = raced
      /\ ledger' = PayCoinbase(ledger, job.hash, job.miner, amount, job.index)
      /\ job' = [job EXCEPT !.phase = "paid"]
  BY DEF PayMiner
<1>2. job \in Jobs /\ job # Idle /\ chain \in Seq(Block) /\ chain # << >> /\ mined \in Nat
  BY <1>1 DEF IInv, ChainTypes, Idle
<1>3. job.txs \in Seq(Txs) /\ job.index \in Nat /\ job.miner \in Addrs /\ JobBlock \in Block
      /\ JobBlock.txs = job.txs
  BY <1>2, JobFacts DEF Jobs, JobBlock
<1>4. /\ job'.phase = "paid" /\ job'.txs = job.txs /\ job'.hash = job.hash /\ job' # Idle
      /\ JobBlock' = JobBlock
  BY <1>1, <1>2 DEF Jobs, Idle, JobBlock
<1>5. /\ ~raced /\ Booked(Replay(chain), chain, mined) /\ Booked(Replay(disk), disk, mined)
  BY DEF AccountsInv
<1>6. PICK k \in Nat : k < mined /\ AtWork(k)
  BY <1>2 DEF AccountsInv
<1> DEFINE all == TxsOf(chain)
           issued == IssuedOf(chain)
           fees == Fees(job.txs)
<1>7. PICK done \in Seq(Txs) : job.txs = done \o job.todo
                               /\ Explained(ledger, k, all \o done, issued - Fees(done))
  BY <1>1, <1>6, Zenon DEF AtWork
<1>8. done = job.txs
  BY <1>1, <1>7
<1>9. /\ all \in Seq(Txs) /\ issued \in Int /\ InOrder(all, Counts(<< >>))
  BY <1>5, Zenon DEF Booked
<1>10. job.hash = <<"own", k>> /\ InOrder(job.txs, Counts(all))
  BY <1>6, Zenon DEF AtWork
<1> HIDE DEF all, issued
<1>11. fees \in Nat /\ MinerShare(fees) \in Nat /\ Reward \in Nat
  BY <1>3, FeesFacts, MinerShareFacts, ParameterAssumption
<1>12. amount \in Nat /\ amount = Reward + MinerShare(fees)
  BY <1>11
<1> HIDE DEF fees, amount
<1>13. Explained(ledger', mined, all \o job.txs, issued - fees + amount)
  <2> DEFINE txs == all \o job.txs
             paid == issued - fees
             hash == job.hash
             height == job.index
             a == job.miner
  <2>1. Explained(ledger, k, txs, paid)
    BY <1>7, <1>8 DEF fees
  <2>2. paid \in Int
    BY <1>9, <1>11
  <2>3. hash = <<"own", k>> /\ height \in Nat /\ a \in Addrs
    BY <1>3, <1>10
  <2>4. ledger' = PayCoinbase(ledger, hash, a, amount, height)
    BY <1>1
  <2> HIDE DEF txs, paid, hash, height, a
  <2>5. Explained(PayCoinbase(ledger, hash, a, amount, height), mined, txs, paid + amount)
    BY <1>2, <1>6, <1>12, <2>1, <2>2, <2>3, ExplainedPay
  <2>6. QED BY <2>4, <2>5, Zenon DEF txs, paid
<1> DEFINE c == Append(chain, JobBlock)
<1>14. TxsOf(c) = all \o job.txs
  BY <1>2, <1>3, TxsOfFacts DEF all
<1>15. IssuedOf(c) = issued - fees + amount
  <2>1. IssuedOf(c) = issued + Minted(JobBlock)
    BY <1>2, <1>3, IssuedFacts DEF issued
  <2>2. Minted(JobBlock) = Reward + MinerShare(fees) - fees
    BY <1>3, Zenon DEF Minted, fees
  <2>3. QED BY <1>9, <1>11, <1>12, <2>1, <2>2
<1> HIDE DEF c
<1>16. Booked(ledger', c, mined)
  <2>1. all \o job.txs \in Seq(Txs) /\ issued - fees + amount \in Int
    BY <1>3, <1>9, <1>11, <1>12
  <2>2. InOrder(all \o job.txs, Counts(<< >>))
    BY <1>3, <1>9, <1>10, InOrderConcat
  <2>3. QED BY <1>13, <1>14, <1>15, <2>1, <2>2, Zenon DEF Booked
<1>17. AtWork(k)'
  <2>1. Booked(ledger', Append(chain', JobBlock'), mined')
    BY <1>1, <1>4, <1>16, Zenon DEF c
  <2>2. job'.hash = <<"own", k>> /\ InOrder(job'.txs, Counts(TxsOf(chain'))) /\ job'.phase # "txs"
    BY <1>1, <1>4, <1>10 DEF all
  <2>3. QED BY <2>1, <2>2 DEF AtWork
<1>18. QED BY <1>1, <1>5, <1>6, <1>17 DEF AccountsInv

\* Every step of a node without peers keeps its accounts.
LEMMA AccountsStep ==
  ASSUME PeerMiners = << >>, IInv, ReplayInv, MempoolGapless, AccountsInv, [Next]_vars
  PROVE  AccountsInv'
<1>1. CASE UNCHANGED <<chain, ledger, job, disk, mined, raced>>
  <2>1. /\ chain' = chain /\ ledger' = ledger /\ job' = job /\ disk' = disk
        /\ mined' = mined /\ raced' = raced /\ JobBlock' = JobBlock
    BY <1>1 DEF JobBlock
  <2>2. \A k : AtWork(k)' <=> AtWork(k)
    BY <2>1, Zenon DEF AtWork
  <2>3. QED BY <2>1, <2>2 DEF AccountsInv
<1>2. ASSUME NEW m \in Miners, StartMining(m) PROVE AccountsInv'
  BY <1>2, StartWork
<1>3. CASE ApplyNext
  BY <1>3, ApplyWork
<1>4. CASE PayMiner
  BY <1>4, PayWork
<1>5. CASE CommitBlock
  <2>1. /\ job.phase = "paid" /\ chain' = Append(chain, JobBlock) /\ job' = Idle
        /\ ledger' = ledger /\ disk' = disk /\ mined' = mined /\ raced' = raced
    BY <1>5 DEF CommitBlock, JobBlock
  <2>2. job # Idle
    BY <2>1 DEF Idle
  <2>3. /\ ~raced /\ Booked(ledger, Append(chain, JobBlock), mined)
        /\ Booked(Replay(disk), disk, mined)
    BY <2>1, <2>2 DEF AccountsInv, AtWork
  <2>4. ledger' = Replay(chain')
    <3>1. ReplayInv'
      BY ReplayStep
    <3>2. QED BY <2>1, <2>3, <3>1 DEF ReplayInv
  <2>5. Booked(Replay(chain'), chain', mined')
    BY <2>1, <2>3, <2>4, Zenon
  <2>6. QED BY <2>1, <2>3, <2>5 DEF AccountsInv
<1>6. CASE SaveToDisc
  <2>1. /\ chain' = chain /\ ledger' = ledger /\ job' = job /\ disk' = chain
        /\ mined' = mined /\ raced' = raced /\ JobBlock' = JobBlock
    BY <1>6 DEF SaveToDisc, JobBlock
  <2>2. \A k : AtWork(k)' <=> AtWork(k)
    BY <2>1, Zenon DEF AtWork
  <2>3. QED BY <2>1, <2>2 DEF AccountsInv
<1>7. CASE Restart
  BY <1>7 DEF Restart, AccountsInv
<1>8. DOMAIN PeerMiners = {}
  OBVIOUS
<1>9. QED
  BY <1>1, <1>2, <1>3, <1>4, <1>5, <1>6, <1>7, <1>8 DEF Next, AddTransaction, vars

\* The accounts of a new node.
LEMMA AccountsInit == Init => AccountsInv
<1> SUFFICES ASSUME Init PROVE AccountsInv
  OBVIOUS
<1>1. chain = <<Genesis>> /\ disk = <<Genesis>> /\ job = Idle /\ mined = 0 /\ raced = FALSE
  BY DEF Init
<1>2. Replay(<<Genesis>>) = EmptyLedger
  <2>1. \A x : Tail(<<x>>) = << >>
    OBVIOUS
  <2>2. Replay(<<Genesis>>) = ReplayBlocks(EmptyLedger, << >>)
    BY <2>1, Zenon DEF Replay, ReplayBlocks
  <2>3. QED BY <2>2, ReplayBlocksFacts
<1> DEFINE l == EmptyLedger
<1>3. /\ l.utxo.coins = [o \in {} |-> 0] /\ DOMAIN l.utxo.coins = {}
      /\ l.utxo.index = [a \in Addrs |-> << >>]
      /\ l.balances = [a \in Addrs |-> 0] /\ l.nonces = [a \in Addrs |-> 0] /\ l.short = FALSE
      /\ l = [utxo |-> l.utxo, balances |-> l.balances, nonces |-> l.nonces, short |-> l.short]
  BY DEF EmptyLedger, NoCoins
<1> HIDE DEF l
<1>4. WellKept(l.utxo)
  <2>1. \A a \in Addrs : Held(l.utxo, a) = {}
    BY <1>3 DEF Held
  <2>2. \A a \in Addrs : l.utxo.index[a] = << >>
    BY <1>3
  <2>3. Listed(<< >>) = {} /\ Distinct(<< >>)
    BY DEF Listed, Distinct
  <2>4. l.utxo.index \in [Addrs -> Seq(Outpoints)]
    BY <1>3
  <2>5. QED BY <1>3, <2>1, <2>2, <2>3, <2>4 DEF WellKept
<1>5. \A a \in Addrs : Worth(l.utxo, a) = 0
  <2>1. \A a \in Addrs : Held(l.utxo, a) = {}
    BY <1>3 DEF Held
  <2>2. ASSUME NEW a \in Addrs PROVE Worth(l.utxo, a) = 0
    <3>1. Worth(l.utxo, a) = CoinFold!Sum(Value(l.utxo), {})
      BY <2>1 DEF Worth
    <3>2. QED BY <3>1, CoinFold!SumEmpty, Zenon
  <2>3. QED BY <2>2
<1>6. LedgerOK(l)
  <2>1. l.balances \in [Addrs -> Nat] /\ l.nonces \in [Addrs -> Nat]
    BY <1>3
  <2>2. l.short \in BOOLEAN
    BY <1>3
  <2>3. \A a \in Addrs : l.balances[a] = Worth(l.utxo, a)
    <3>1. \A a \in Addrs : l.balances[a] = 0
      BY <1>3
    <3>2. QED BY <1>5, <3>1, Zenon
  <2>4. QED BY <1>3, <1>4, <2>1, <2>2, <2>3, Zenon DEF LedgerOK
<1>7. SumFunction(l.balances) = 0
  BY <1>3, SumNothing
<1>8. \A a \in Addrs : Count(<< >>, a) = 0
  <2>1. \A a : CountUpTo(<< >>, 0, a) = 0
    BY CountFacts
  <2>2. Len(<< >>) = 0
    OBVIOUS
  <2>3. QED BY <2>1, <2>2, Zenon DEF Count
<1>9. Explained(l, 0, << >>, 0)
  BY <1>3, <1>6, <1>7, <1>8 DEF Explained, Fresh
<1>10. InOrder(<< >>, Counts(<< >>)) /\ << >> \in Seq(Txs) /\ 0 \in Int
  BY DEF InOrder
<1>11. Booked(l, <<Genesis>>, 0)
  BY <1>9, <1>10, TxsOfFacts, IssuedFacts, Zenon DEF Booked
<1>12. QED BY <1>1, <1>2, <1>11 DEF AccountsInv, l

\* A node without peers: the invariant behind all that follows.
THEOREM AccountsHold == PeerMiners = << >> /\ Spec => [](IInv /\ ReplayInv /\ AccountsInv)
<1>1. ASSUME PeerMiners = << >> PROVE Spec => [](IInv /\ ReplayInv /\ AccountsInv)
  <2>1. IInv /\ ReplayInv /\ MempoolGapless /\ AccountsInv /\ [Next]_vars => AccountsInv'
    BY <1>1, AccountsStep
  <2>2. Spec => []MempoolGapless
    BY <1>1, MempoolGaplessCorrect
  <2>3. QED BY <2>1, <2>2, ReplayInit, ReplayStep, AccountsInit, InvHolds, PTL DEF Spec
<1>2. QED BY <1>1

-----------------------------------------------------------------------------
(* What the accounts of a node without peers come to.                        *)

\* What the accounts are when no block is in the making.
LEMMA AtRest ==
  ASSUME ReplayInv, AccountsInv, job = Idle
  PROVE  Booked(ledger, chain, mined)
  BY DEF ReplayInv, AccountsInv

\* Whatever the accounts of a node without peers are, in a job or between two.
LEMMA AlwaysOK == ASSUME IInv, ReplayInv, AccountsInv PROVE LedgerOK(ledger)
<1>1. CASE job = Idle
  BY <1>1, AtRest, Zenon DEF Booked, Explained
<1>2. CASE job # Idle
  <2>1. job.phase \in {"txs", "paid"}
    BY <1>2 DEF IInv, ChainTypes, Jobs
  <2>2. PICK k \in Nat : AtWork(k)
    BY <1>2 DEF AccountsInv
  <2>3. CASE job.phase = "txs"
    BY <2>2, <2>3, Zenon DEF AtWork, Explained
  <2>4. CASE job.phase = "paid"
    BY <2>2, <2>4, Zenon DEF AtWork, Booked, Explained
  <2>5. QED BY <2>1, <2>3, <2>4
<1>3. QED BY <1>1, <1>2

\* The nonces of each sender are confirmed in order, none twice: saves,
\* restarts and lost blocks included.
THEOREM NonceOrderCorrect == PeerMiners = << >> /\ Spec => []NonceOrder
<1>1. ASSUME IInv, AccountsInv PROVE NonceOrder
  <2>1. TxsOf(chain) \in Seq(Txs) /\ InOrder(TxsOf(chain), Counts(<< >>))
    BY <1>1, Zenon DEF AccountsInv, Booked
  <2>2. ChainTxs = TxsOf(chain)
    BY Zenon DEF ChainTxs, TxsOf
  <2> SUFFICES ASSUME NEW k \in DOMAIN ChainTxs
               PROVE  Nonce[ChainTxs[k]]
                        = Cardinality({j \in 1 .. k - 1 : From[ChainTxs[j]] = From[ChainTxs[k]]})
    BY Zenon DEF NonceOrder
  <2> DEFINE s == TxsOf(chain)
             a == From[s[k]]
  <2>3. Nonce[s[k]] = Counts(<< >>)[a] + CountUpTo(s, k - 1, a)
    BY <2>1, <2>2, Zenon DEF InOrder
  <2>4. a \in Addrs /\ k - 1 \in Nat
    <3> HIDE DEF s
    <3>1. s \in Seq(Txs) /\ k \in DOMAIN s
      BY <2>1, <2>2 DEF s
    <3>2. k \in 1 .. Len(s) /\ s[k] \in Txs
      BY <3>1, LenProperties, ElementOfSeq
    <3>3. QED BY <3>2, TxAssumption
  <2>5. Counts(<< >>)[a] = 0
    <3>1. \A d : CountUpTo(<< >>, 0, d) = 0
      BY CountFacts
    <3>2. Len(<< >>) = 0
      OBVIOUS
    <3>3. \A d : Count(<< >>, d) = 0
      BY <3>1, <3>2, Zenon DEF Count
    <3> HIDE DEF a
    <3>4. QED BY <2>4, <3>3 DEF Counts
  <2> HIDE DEF s, a
  <2>6. CountUpTo(s, k - 1, a) \in Nat
    BY <2>4, CountFacts
  <2>7. Nonce[s[k]] = CountUpTo(s, k - 1, a)
    BY <2>3, <2>5, <2>6
  <2>8. CountUpTo(s, k - 1, a) = Cardinality({j \in 1 .. k - 1 : From[s[j]] = From[s[k]]})
    BY Zenon DEF CountUpTo, a
  <2>9. ChainTxs = s
    BY <2>2 DEF s
  <2>10. QED BY <2>7, <2>8, <2>9, Zenon
<1>2. QED BY <1>1, AccountsHold, PTL

\* The coins and the balances agree, unless a selection came short.
THEOREM MirrorsAgreeUnlessShortCorrect ==
  PeerMiners = << >> /\ Spec => []MirrorsAgreeUnlessShort
<1>1. ASSUME IInv, ReplayInv, AccountsInv PROVE MirrorsAgreeUnlessShort
  <2> SUFFICES ASSUME ~ledger.short, NEW a \in Addrs
               PROVE  ledger.balances[a] = GetBalance(ledger.utxo, a)
    BY Zenon DEF MirrorsAgreeUnlessShort, MirrorsAgree
  <2>1. WellKept(ledger.utxo) /\ ledger.balances[a] = Worth(ledger.utxo, a)
    BY <1>1, AlwaysOK, Zenon DEF LedgerOK
  <2>2. GetBalance(ledger.utxo, a) = Worth(ledger.utxo, a)
    BY <2>1, WorthIsBalance
  <2>3. QED BY <2>1, <2>2
<1>2. QED BY <1>1, AccountsHold, PTL

\* What the addresses own is what the blocks issued, less the burned fees:
\* through every job, save and restart.
THEOREM SupplyConservedCorrect == PeerMiners = << >> /\ Spec => []SupplyConserved
<1>1. ASSUME ReplayInv, AccountsInv PROVE SupplyConserved
  <2> SUFFICES ASSUME ~ledger.short, job = Idle
               PROVE  SumFunction(ledger.balances) = IssuedOf(chain)
    BY Zenon DEF SupplyConserved, IssuedOf
  <2>1. QED BY <1>1, AtRest, Zenon DEF Booked, Explained
<1>2. QED BY <1>1, AccountsHold, PTL

\* The types of the variables, for a node without peers: an outpoint is
\* listed under the address of its coin.
THEOREM TypeCorrect == PeerMiners = << >> /\ Spec => []TypeOK
<1> DEFINE Bounded == mined <= MaxMined /\ raced \in BOOLEAN
<1>1. Init => Bounded
  <2>1. 0 <= MaxMined
    BY ParameterAssumption
  <2>2. QED BY <2>1, Zenon DEF Init
<1>2. ASSUME IInv, Bounded, [Next]_vars PROVE Bounded'
  <2>1. mined \in Nat /\ MaxMined \in Nat
    BY <1>2, ParameterAssumption DEF IInv, ChainTypes
  <2>2. ASSUME NEW m \in Miners, StartMining(m) PROVE Bounded'
    BY <1>2, <2>1, <2>2 DEF StartMining
  <2>3. ASSUME mined' = mined, raced' = raced PROVE Bounded'
    BY <1>2, <2>3, Zenon
  <2>4. ASSUME mined' = mined, raced' = (raced \/ job # Idle) PROVE Bounded'
    <3>1. raced' \in BOOLEAN
      BY <2>4, Zenon
    <3>2. QED BY <1>2, <2>4, <3>1, Zenon
  <2>5. QED
    BY <1>2, <2>2, <2>3, <2>4
    DEF Next, AddTransaction, ApplyNext, PayMiner, CommitBlock, ApplyBlocksFromPeer, SaveToDisc,
        Restart, vars
<1>3. ASSUME IInv, ReplayInv, AccountsInv, Bounded PROVE TypeOK
  <2>1. /\ chain \in Seq(Block) /\ chain # << >> /\ disk \in Seq(Block) /\ disk # << >>
        /\ mempool \in Seq(Txs) /\ mined \in Nat
        /\ job = Idle \/ job \in Jobs
    BY <1>3 DEF IInv, ChainTypes
  <2>2. job.phase \in {"idle", "txs", "paid"}
    BY <2>1 DEF Idle, Jobs
  <2>3. mined \in 0 .. MaxMined /\ raced \in BOOLEAN
    BY <1>3, <2>1, ParameterAssumption DEF AccountsInv, Bounded
  <2>4. /\ WellKept(ledger.utxo)
        /\ ledger.balances \in [Addrs -> Nat] /\ ledger.nonces \in [Addrs -> Nat]
    BY <1>3, AlwaysOK, Zenon DEF LedgerOK
  <2>5. ASSUME NEW a \in Addrs, NEW i \in DOMAIN ledger.utxo.index[a]
        PROVE  ledger.utxo.coins[ledger.utxo.index[a][i]].address = a
    <3> DEFINE q == ledger.utxo.index[a]
    <3>1. Listed(q) = Held(ledger.utxo, a)
      BY <2>4 DEF WellKept
    <3>2. q[i] \in Listed(q)
      BY DEF Listed
    <3>3. QED BY <3>1, <3>2 DEF Held
  <2>6. QED BY <2>1, <2>2, <2>3, <2>4, <2>5 DEF TypeOK
<1> HIDE DEF Bounded
<1>4. IInv /\ Bounded /\ [Next]_vars => Bounded'
  BY <1>2
<1>5. IInv /\ ReplayInv /\ AccountsInv /\ Bounded => TypeOK
  BY <1>3
<1>6. QED BY <1>1, <1>4, <1>5, InvHolds, AccountsHold, PTL DEF Spec

\* Nor is a transaction confirmed twice: that takes a peer.
THEOREM NoReplayWithoutPeers == PeerMiners = << >> /\ Spec => []NoReplay
<1>1. ASSUME IInv, NonceOrder, AccountsInv PROVE NoReplay
  <2> DEFINE s == ChainTxs
             P(n, a) == {j \in 1 .. n : From[s[j]] = a}
  <2>1. TxsOf(chain) \in Seq(Txs)
    BY <1>1, Zenon DEF AccountsInv, Booked
  <2>2. s \in Seq(Txs)
    BY <2>1, Zenon DEF ChainTxs, TxsOf
  <2>3. DOMAIN s = 1 .. Len(s) /\ Len(s) \in Nat
    BY <2>2, LenProperties
  <2>4. \A k \in DOMAIN s : Nonce[s[k]] = Cardinality(P(k - 1, From[s[k]]))
    BY <1>1, Zenon DEF NonceOrder
  <2> HIDE DEF s
  <2>5. ASSUME NEW i \in DOMAIN s, NEW j \in DOMAIN s, s[i] = s[j], i < j PROVE FALSE
    <3> DEFINE a == From[s[i]]
               A == P(i - 1, a)
               B == P(j - 1, a)
    <3>1. i - 1 \in Nat /\ j - 1 \in Nat /\ i \in 1 .. j - 1 /\ 1 .. i - 1 \subseteq 1 .. j - 1
          /\ i \notin 1 .. i - 1
      BY <2>3, <2>5
    <3>2. Cardinality(A) = Cardinality(B)
      BY <2>4, <2>5, Zenon
    <3>3. A \cup {i} \subseteq B /\ i \notin A /\ A \subseteq 1 .. i - 1 /\ B \subseteq 1 .. j - 1
      BY <3>1
    <3>4. IsFiniteSet(1 .. i - 1) /\ IsFiniteSet(1 .. j - 1)
      <4>1. 1 \in Int /\ i - 1 \in Int /\ j - 1 \in Int
        BY <3>1
      <4>2. QED BY <4>1, FS_Interval, Zenon
    <3> HIDE DEF A, B
    <3>5. IsFiniteSet(A) /\ IsFiniteSet(B)
      <4>1. A \in SUBSET (1 .. i - 1) /\ B \in SUBSET (1 .. j - 1)
        BY <3>3
      <4>2. QED BY <3>4, <4>1, FS_Subset, Zenon
    <3>6. Cardinality(A \cup {i}) = Cardinality(A) + 1
      BY <3>3, <3>5, FS_AddElement
    <3>7. Cardinality(A \cup {i}) <= Cardinality(B)
      <4>1. A \cup {i} \in SUBSET B
        BY <3>3
      <4>2. QED BY <3>5, <4>1, FS_Subset, Zenon
    <3>8. Cardinality(A) \in Nat
      BY <3>5, FS_CardinalityType
    <3>9. QED BY <3>2, <3>6, <3>7, <3>8
  <2>6. ASSUME NEW i \in DOMAIN s, NEW j \in DOMAIN s, s[i] = s[j] PROVE i = j
    <3>1. i < j \/ j < i \/ i = j
      BY <2>3
    <3>2. QED BY <2>5, <2>6, <3>1, Zenon
  <2>7. QED BY <2>6, Zenon DEF NoReplay, s
<1>2. QED BY <1>1, NonceOrderCorrect, AccountsHold, PTL
=============================================================================
