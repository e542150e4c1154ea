----------------------------- MODULE Pool_proofs -----------------------------
(***************************************************************************)
(* What the pool guarantees for every number of miners, amounts, periods   *)
(* of silence, failed saves and restarts.  The invariant ties the silence  *)
(* of an active miner to the cleanup timer that has or has not fired in    *)
(* this period, and the file to the balances unless a save failed.         *)
(***************************************************************************)
EXTENDS Pool, FiniteSetTheorems, TLAPS

(* The cleanup of this period is what bounds the silence of active miners. *)
Timely ==
  \A m \in active : quiet[m] <= IF "cleanup" \in due THEN Timeout + 1 ELSE Timeout

(* A process that is down has no active miners and no timers. *)
DownIsEmpty == ~up => active = {} /\ due = {} /\ \A m \in Miners : quiet[m] = Unknown

FileKept == saved => disk = balances

Inv == TypeOK /\ Timely /\ DownIsEmpty /\ FileKept

-----------------------------------------------------------------------------
LEMMA ActiveFinite ==
  ASSUME active \subseteq Miners
  PROVE  IsFiniteSet(active) /\ IsFiniteSet(Payees)
<1>1. active \subseteq Addrs /\ Payees \subseteq Addrs
  BY PoolAssumption DEF PoolAssumption, Payees
<1> QED BY <1>1, FS_Subset, PoolAssumption DEF PoolAssumption

(* Closeness, as two inequalities. *)
LEMMA ApartIs ==
  ASSUME NEW x \in Int, NEW y \in Int, NEW k \in Int
  PROVE  2 * Apart(x, y) <= k <=> 2 * (x - y) <= k /\ 2 * (y - x) <= k
BY DEF Apart

(* The nearest whole number is off by half at most. *)
LEMMA NearestFacts ==
  ASSUME NEW x \in Nat, NEW n \in Nat \ {0}
  PROVE  /\ Nearest(x, n) \in Nat
         /\ 2 * (n * Nearest(x, n) - x) <= n
         /\ 2 * (x - n * Nearest(x, n)) <= n
<1> DEFINE a == 2 * x + n
           d == 2 * n
           q == a \div d
<1>1. a \in Nat /\ d \in Nat \ {0}
  OBVIOUS
<1>2. ASSUME NEW b \in Nat, NEW e \in Nat \ {0}
      PROVE  b \div e \in Nat /\ e * (b \div e) <= b /\ b < e * (b \div e) + e
  OBVIOUS
<1>3. q \in Nat /\ d * q <= a /\ a < d * q + d
  BY <1>1, <1>2
<1>4. d * q = 2 * (n * q) /\ n * q \in Nat
  <2>1. ASSUME NEW m \in Nat PROVE (2 * n) * m = 2 * (n * m) /\ n * m \in Nat
    OBVIOUS
  <2> QED BY <1>3, <2>1
<1>5. Nearest(x, n) = q
  BY DEF Nearest
<1> HIDE DEF q
<1>6. PICK m : m = n * q
  OBVIOUS
<1>7. 2 * m <= 2 * x + n /\ 2 * x + n < 2 * m + 2 * n /\ m \in Nat
  BY <1>3, <1>4, <1>6
<1>8. 2 * (m - x) <= n /\ 2 * (x - m) <= n
  BY <1>7
<1> QED BY <1>3, <1>5, <1>6, <1>8

(* A kept number is off by half a grain at most. *)
LEMMA RoundedFacts ==
  ASSUME NEW x \in Nat
  PROVE  Rounded(x) \in Nat /\ 2 * (Rounded(x) - x) <= Grain /\ 2 * (x - Rounded(x)) <= Grain
<1>0. Grain \in Nat \ {0}
  BY PoolAssumption DEF PoolAssumption
<1>1. CASE x < Exact
  BY <1>0, <1>1 DEF Rounded
<1>2. CASE ~(x < Exact)
  <2>1. Rounded(x) = Grain * Nearest(x, Grain)
    BY <1>2 DEF Rounded
  <2>2. /\ Nearest(x, Grain) \in Nat
        /\ 2 * (Grain * Nearest(x, Grain) - x) <= Grain
        /\ 2 * (x - Grain * Nearest(x, Grain)) <= Grain
    BY <1>0, NearestFacts
  <2>3. Grain * Nearest(x, Grain) \in Nat
    BY <1>0, <2>2
  <2> QED BY <2>1, <2>2, <2>3
<1> QED BY <1>1, <1>2

(* A share is a number, and all of them are close to the reward. *)
LEMMA ShareType ==
  ASSUME active \subseteq Miners, active # {}
  PROVE  /\ Share \in Nat
         /\ 2 * (Share * Cardinality(active) - Reward) <= Cardinality(active)
         /\ 2 * (Reward - Share * Cardinality(active)) <= Cardinality(active)
<1> DEFINE n == Cardinality(active)
<1>1. n \in Nat \ {0}
  <2>1. IsFiniteSet(active)
    BY ActiveFinite
  <2> QED BY <2>1, FS_CardinalityType, FS_EmptySet
<1>2. Share = Nearest(Reward, n) /\ Reward \in Nat
  BY PoolAssumption DEF Share, PoolAssumption
<1> HIDE DEF n
<1>3. /\ Share \in Nat
      /\ 2 * (n * Share - Reward) <= n
      /\ 2 * (Reward - n * Share) <= n
  BY <1>1, <1>2, NearestFacts
<1>4. n * Share = Share * n
  BY <1>1, <1>3
<1> QED BY <1>3, <1>4 DEF n

LEMMA PayeeCount ==
  ASSUME active \subseteq Miners
  PROVE  Cardinality(Payees) \in Nat
<1>1. IsFiniteSet(Payees)
  BY ActiveFinite
<1> QED BY <1>1, FS_CardinalityType

-----------------------------------------------------------------------------
(* The total, which takes the shares one by one. *)
Added(p, t, x) == Rounded(t + x)
Adds == INSTANCE Folding WITH op <- Added

LEMMA TotalFacts ==
  ASSUME active \subseteq Miners, active # {}, total \in Nat
  PROVE  /\ Totalled \in Nat
         /\ 2 * (Totalled - (total + Share * Cardinality(Payees))) <= Grain * Cardinality(Payees)
         /\ 2 * (total + Share * Cardinality(Payees) - Totalled) <= Grain * Cardinality(Payees)
<1> DEFINE n == Cardinality(Payees)
<1>0. n \in Nat /\ Share \in Nat /\ Grain \in Nat
  BY PayeeCount, ShareType, PoolAssumption DEF PoolAssumption
<1>1. Totalled = Adds!Fold(0, total, Shares)
  BY DEF Totalled, Adds!Fold, Adds!FoldLeft, FoldLeft, MapThenFoldSet,
         Adds!MapThenFoldSet, Added, Adds!Max, Max
<1>2. Shares \in Seq(Nat) /\ Len(Shares) = n /\ \A k \in 1 .. n : Shares[k] = Share
  BY <1>0 DEF Shares
<1>3. PICK h : Adds!Runs(h, 0, total, Shares) /\ Adds!Fold(0, total, Shares) = h[Len(Shares)]
  BY <1>2, Adds!FoldRuns
<1> HIDE DEF n
<1>4. h[0] = total /\ \A k \in 1 .. n : h[k] = Rounded(h[k - 1] + Share)
  BY <1>2, <1>3 DEF Adds!Runs, Added
<1> DEFINE Near(k) == /\ h[k] \in Nat
                      /\ 2 * (h[k] - (total + Share * k)) <= Grain * k
                      /\ 2 * (total + Share * k - h[k]) <= Grain * k
           Q == {k \in Nat : k <= n => Near(k)}
<1>5. 0 \in Q
  BY <1>0, <1>4
<1>6. ASSUME NEW k \in Nat, k \in Q PROVE k + 1 \in Q
  <2> SUFFICES ASSUME k + 1 <= n PROVE Near(k + 1)
    OBVIOUS
  <2>1. k + 1 \in 1 .. n /\ (k + 1) - 1 = k /\ Near(k)
    BY <1>0, <1>6
  <2>2. h[k + 1] = Rounded(h[k] + Share)
    BY <1>4, <2>1
  <2>3. PICK v, w, sk, gk : v = h[k] /\ w = h[k + 1] /\ sk = Share * k /\ gk = Grain * k
    OBVIOUS
  <2>4. v \in Nat /\ sk \in Nat /\ gk \in Nat /\ v + Share \in Nat
    BY <1>0, <2>1, <2>3
  <2>5. w \in Nat /\ 2 * (w - (v + Share)) <= Grain /\ 2 * ((v + Share) - w) <= Grain
    <3>1. w = Rounded(v + Share)
      BY <2>2, <2>3
    <3> QED BY <2>4, <3>1, RoundedFacts
  <2>6. 2 * (v - (total + sk)) <= gk /\ 2 * (total + sk - v) <= gk
    BY <2>1, <2>3
  <2>7. 2 * (w - (total + (sk + Share))) <= gk + Grain /\ 2 * (total + (sk + Share) - w) <= gk + Grain
    BY <1>0, <2>4, <2>5, <2>6
  <2>8. Share * (k + 1) = sk + Share /\ Grain * (k + 1) = gk + Grain
    BY <1>0, <2>3
  <2> QED BY <2>3, <2>5, <2>7, <2>8
<1> HIDE DEF Q
<1>7. n \in Q
  BY <1>0, <1>5, <1>6, Adds!NatSetInduction
<1>8. Near(n) /\ Totalled = h[n]
  BY <1>0, <1>1, <1>2, <1>3, <1>7 DEF Q
<1> QED BY <1>8 DEF n

-----------------------------------------------------------------------------
(* The block and the balances that a reward makes. *)
LEMMA RewardTypes ==
  ASSUME TypeOK, active # {}, blockCount' \in Nat
  PROVE  Rewarded \in [Addrs -> Nat] /\ Coinbases \subseteq Tx
<1>1. active \subseteq Miners BY DEF TypeOK, Registered
<1>2. Share \in Nat BY <1>1, ShareType
<1>3. Payees \subseteq Miners /\ Miners \subseteq Addrs
  BY <1>1, PoolAssumption DEF Payees, PoolAssumption
<1>4. ASSUME NEW a \in Addrs
      PROVE  (IF a \in Payees THEN Rounded(balances[a] + Share) ELSE balances[a]) \in Nat
  <2>1. balances[a] \in Nat /\ balances[a] + Share \in Nat
    BY <1>2 DEF TypeOK
  <2> QED BY <2>1, RoundedFacts
<1>5. Rewarded \in [Addrs -> Nat] BY <1>4 DEF Rewarded
<1>6. Coinbases \subseteq Tx BY <1>2, <1>3 DEF Coinbases, Tx
<1> QED BY <1>5, <1>6

(* An accepted transfer leaves no balance below zero. *)
LEMMA MovedType ==
  ASSUME TypeOK, NEW from \in Addrs, NEW to \in Addrs, NEW amount \in Nat, Covered(from, amount)
  PROVE  Moved(from, to, amount) \in [Addrs -> Nat]
<1> DEFINE debited == [balances EXCEPT ![from] = Rounded(@ - amount)]
<1>1. Rounded(balances[from] - amount) \in Nat
  <2>1. balances[from] - amount \in Nat BY DEF TypeOK, Covered
  <2> QED BY <2>1, RoundedFacts
<1>2. debited \in [Addrs -> Nat] BY <1>1 DEF TypeOK
<1>3. Rounded(debited[to] + amount) \in Nat
  <2>1. debited[to] + amount \in Nat BY <1>2
  <2> QED BY <2>1, RoundedFacts
<1>4. [debited EXCEPT ![to] = Rounded(@ + amount)] \in [Addrs -> Nat] BY <1>2, <1>3
<1> QED BY <1>4 DEF Moved

(* After a save the file holds what was saved, or the pool knows better. *)
LEMMA SaveKeeps ==
  ASSUME TypeOK, NEW b \in [Addrs -> Nat], SaveBalances(b), balances' = b
  PROVE  /\ disk' \in [Addrs -> Nat] \cup {Torn}
         /\ saved' \in BOOLEAN
         /\ fails' \in 0 .. MaxFails
         /\ FileKept'
<1>1. CASE disk' = b /\ saved' = TRUE /\ UNCHANGED fails
  BY <1>1 DEF TypeOK, FileKept
<1>2. CASE /\ fails < MaxFails
           /\ disk' \in {disk, Torn}
           /\ saved' = FALSE
           /\ fails' = fails + 1
  <2>1. fails' \in 0 .. MaxFails BY <1>2, PoolAssumption DEF TypeOK, PoolAssumption
  <2> QED BY <1>2, <2>1 DEF TypeOK, FileKept
<1> QED BY <1>1, <1>2 DEF SaveBalances

(* A block is pushed at the end and one may drop off the front. *)
LEMMA PushType ==
  ASSUME TypeOK, NEW b \in SUBSET Tx, PushBlock(b)
  PROVE  blocks' \in Seq(SUBSET Tx)
<1>1. CASE Len(blocks) < Keep
  <2>1. blocks' = Append(blocks, b) /\ blocks \in Seq(SUBSET Tx)
    BY <1>1 DEF PushBlock, TypeOK
  <2> HIDE DEF Tx
  <2> QED BY <2>1
<1>2. CASE ~(Len(blocks) < Keep)
  <2>1. Len(blocks) \in Nat /\ blocks # << >>
    BY <1>2, PoolAssumption DEF TypeOK, PoolAssumption
  <2>2. Tail(blocks) \in Seq(SUBSET Tx)
    BY <2>1 DEF TypeOK
  <2> QED BY <1>2, <2>2 DEF PushBlock
<1> QED BY <1>1, <1>2

-----------------------------------------------------------------------------
LEMMA InitInv == Init => Inv
<1> SUFFICES ASSUME Init PROVE Inv OBVIOUS
<1>1. TypeOK
  BY PoolAssumption DEF Init, TypeOK, PoolAssumption, Zero, Registered, Unknown, Timers
<1> QED BY <1>1 DEF Init, Inv, Timely, DownIsEmpty, FileKept

LEMMA MineInv == Inv /\ Mine => Inv'
<1> SUFFICES ASSUME Inv, Mine PROVE Inv' OBVIOUS
<1>1. blockCount' \in 1 .. MaxBlocks + 1 /\ blockCount' \in Nat /\ due' \subseteq Timers
  BY PoolAssumption DEF Inv, TypeOK, Mine, PoolAssumption
<1>2. CASE active = {}
  BY <1>1, <1>2 DEF Inv, TypeOK, Mine, Registered, Tx, Timely, DownIsEmpty, FileKept
<1>3. CASE active # {}
  <2>1. TypeOK /\ active \subseteq Miners BY DEF Inv, TypeOK, Registered
  <2>2. Rewarded \in [Addrs -> Nat] /\ Coinbases \subseteq Tx
    BY <1>1, <1>3, <2>1, RewardTypes
  <2>3. balances' = Rewarded /\ SaveBalances(Rewarded) /\ PushBlock(Coinbases \cup mempool)
        /\ mempool' = {} /\ total' = Totalled
        /\ paid' = paid + 1 /\ sums' = sums + Cardinality(Payees) /\ ends' = ends
    BY <1>3 DEF Mine
  <2>4. /\ disk' \in [Addrs -> Nat] \cup {Torn}
        /\ saved' \in BOOLEAN
        /\ fails' \in 0 .. MaxFails
        /\ FileKept'
    BY <2>1, <2>2, <2>3, SaveKeeps
  <2>5. blocks' \in Seq(SUBSET Tx)
    <3>1. Coinbases \cup mempool \in SUBSET Tx BY <2>1, <2>2 DEF TypeOK
    <3> QED BY <2>1, <2>3, <3>1, PushType
  <2>6. total' \in Nat
    BY <1>3, <2>1, <2>3, TotalFacts DEF TypeOK
  <2>p. paid' \in Nat /\ sums' \in Nat
    BY <2>1, <2>3, PayeeCount DEF TypeOK
  <2>7. Tx' = Tx BY DEF Tx
  <2>8. TypeOK'
    BY <1>1, <2>1, <2>2, <2>3, <2>4, <2>5, <2>6, <2>7, <2>p DEF TypeOK, Mine, Registered
  <2>9. Timely' /\ DownIsEmpty' BY DEF Inv, Mine, Timely, DownIsEmpty
  <2> QED BY <2>4, <2>8, <2>9 DEF Inv
<1> QED BY <1>2, <1>3

LEMMA CleanupInv == Inv /\ Cleanup => Inv'
<1> SUFFICES ASSUME Inv, Cleanup PROVE Inv' OBVIOUS
<1>1. TypeOK'
  BY DEF Inv, TypeOK, Cleanup, Registered, Tx
<1>2. Timely'
  BY PoolAssumption DEF Inv, TypeOK, Cleanup, Timely, Late, Registered, PoolAssumption
<1>3. DownIsEmpty' /\ FileKept' BY DEF Inv, Cleanup, DownIsEmpty, FileKept
<1> QED BY <1>1, <1>2, <1>3 DEF Inv

LEMMA TickInv == Inv /\ Tick => Inv'
<1> SUFFICES ASSUME Inv, Tick PROVE Inv' OBVIOUS
<1>1. ASSUME NEW m \in Registered
      PROVE  /\ quiet[m] \in 0 .. Timeout + 2
             /\ quiet'[m] \in 0 .. Timeout + 2
             /\ quiet'[m] <= quiet[m] + 1
  <2>1. quiet[m] \in 0 .. Timeout + 2
    BY PoolAssumption DEF Inv, TypeOK, Registered, Unknown, PoolAssumption
  <2>2. quiet'[m] = Min({quiet[m] + 1, Timeout + 2})
    BY DEF Tick, Registered
  <2>3. \A x, y \in Int : Min({x, y}) = IF x <= y THEN x ELSE y
    <3> TAKE x, y \in Int
    <3>1. CASE x <= y
      BY <3>1 DEF Min
    <3>2. CASE ~(x <= y)
      BY <3>2 DEF Min
    <3> QED BY <3>1, <3>2
  <2> QED BY <2>1, <2>2, <2>3, PoolAssumption DEF PoolAssumption
<1>2. quiet' \in [Miners -> Unknown .. Timeout + 2]
  <2>1. ASSUME NEW m \in Miners, m \notin Registered
        PROVE  quiet'[m] = Unknown
    BY <2>1 DEF Tick
  <2>2. Unknown \in Unknown .. Timeout + 2 /\ 0 .. Timeout + 2 \subseteq Unknown .. Timeout + 2
    BY PoolAssumption DEF Unknown, PoolAssumption
  <2>3. \A m \in Miners : quiet'[m] \in Unknown .. Timeout + 2
    BY <1>1, <2>1, <2>2
  <2>4. quiet' = [m \in Miners |-> quiet'[m]] BY DEF Tick
  <2> QED BY <2>3, <2>4
<1>3. Registered' = Registered
  BY <1>1 DEF Tick, Registered, Unknown
<1>4. TypeOK'
  BY <1>2, <1>3 DEF Inv, TypeOK, Tick, Tx, Timers
<1>5. CASE ~up
  BY <1>4, <1>5 DEF Inv, Tick, DownIsEmpty, Timely, FileKept, Registered
<1>6. CASE up
  <2>1. "cleanup" \notin due /\ "cleanup" \in due' BY <1>6 DEF Tick, Timers
  <2>2. Timely'
    <3>1. ASSUME NEW m \in active
          PROVE  quiet'[m] <= Timeout + 1
      <4>1. m \in Registered /\ quiet[m] <= Timeout
        BY <2>1 DEF Inv, TypeOK, Timely
      <4>2. quiet[m] \in Int /\ quiet'[m] \in Int /\ quiet'[m] <= quiet[m] + 1
        BY <1>1, <4>1
      <4> QED BY <4>1, <4>2, PoolAssumption DEF PoolAssumption
    <3>2. active' = active BY DEF Tick
    <3> QED BY <2>1, <3>1, <3>2 DEF Timely
  <2>3. DownIsEmpty' /\ FileKept' BY <1>6 DEF Inv, Tick, DownIsEmpty, FileKept
  <2> QED BY <1>4, <2>2, <2>3 DEF Inv
<1> QED BY <1>5, <1>6

LEMMA MinerInv ==
  ASSUME NEW m \in Miners, Inv, RegisterMiner(m) \/ MinerKeepalive(m) \/ MinerExit(m)
  PROVE  Inv'
<1>1. CASE RegisterMiner(m)
  <2>1. TypeOK'
    BY <1>1, PoolAssumption DEF Inv, TypeOK, RegisterMiner, Registered, Unknown, Tx, PoolAssumption
  <2>2. Timely'
    BY <1>1, PoolAssumption DEF Inv, TypeOK, RegisterMiner, Registered, Timely, PoolAssumption
  <2>3. DownIsEmpty' /\ FileKept' BY <1>1 DEF Inv, RegisterMiner, DownIsEmpty, FileKept
  <2> QED BY <2>1, <2>2, <2>3 DEF Inv
<1>2. CASE MinerKeepalive(m)
  <2>1. TypeOK'
    BY <1>2, PoolAssumption DEF Inv, TypeOK, MinerKeepalive, Registered, Unknown, Tx, PoolAssumption
  <2>2. Timely'
    BY <1>2, PoolAssumption DEF Inv, TypeOK, MinerKeepalive, Registered, Timely, PoolAssumption
  <2>3. DownIsEmpty' /\ FileKept' BY <1>2 DEF Inv, MinerKeepalive, DownIsEmpty, FileKept
  <2> QED BY <2>1, <2>2, <2>3 DEF Inv
<1>3. CASE MinerExit(m)
  BY <1>3 DEF Inv, TypeOK, MinerExit, Registered, Tx, Timely, DownIsEmpty, FileKept
<1> QED BY <1>1, <1>2, <1>3

LEMMA SendInv ==
  ASSUME NEW from \in Addrs, NEW to \in Addrs, NEW amount \in Amounts, Inv,
         SendTransaction(from, to, amount)
  PROVE  Inv'
<1> DEFINE tx == [id |-> <<transfers, System>>, from |-> from, to |-> to, amount |-> amount]
<1>1. amount \in Nat /\ Covered(from, amount)
  BY PoolAssumption DEF PoolAssumption, SendTransaction
<1>2. Moved(from, to, amount) \in [Addrs -> Nat] BY <1>1, MovedType DEF Inv
<1>3. /\ disk' \in [Addrs -> Nat] \cup {Torn}
      /\ saved' \in BOOLEAN
      /\ fails' \in 0 .. MaxFails
      /\ FileKept'
  BY <1>2, SaveKeeps DEF Inv, SendTransaction
<1>4. tx \in Tx BY <1>1 DEF Inv, TypeOK, Tx
<1>5. mempool' \subseteq Tx BY <1>4 DEF Inv, TypeOK, SendTransaction
<1>6. transfers' \in 0 .. MaxTransfers
  BY PoolAssumption DEF Inv, TypeOK, SendTransaction, PoolAssumption
<1>7. Tx' = Tx BY DEF Tx
<1>u. /\ up' = up /\ quiet' = quiet /\ active' = active /\ total' = total
      /\ blocks' = blocks /\ blockCount' = blockCount /\ due' = due /\ mining' = mining
      /\ paid' = paid /\ ends' = ends /\ sums' = sums + 2
      /\ balances' = Moved(from, to, amount)
  BY DEF SendTransaction
<1>o. TypeOK BY DEF Inv
<1>8. TypeOK'
  <2>1. active' \subseteq Registered'
    BY <1>u, <1>o DEF TypeOK, Registered
  <2>2. blocks' \in Seq(SUBSET Tx)' /\ mempool' \subseteq Tx'
    BY <1>u, <1>o, <1>5, <1>7 DEF TypeOK
  <2>3. sums' \in Nat /\ paid' \in Nat
    BY <1>u, <1>o DEF TypeOK
  <2>4. /\ up' \in BOOLEAN /\ quiet' \in [Miners -> Unknown .. Timeout + 2]
        /\ total' \in Nat /\ blockCount' \in 1 .. MaxBlocks + 1 /\ due' \subseteq Timers
        /\ mining' \subseteq Miners /\ ends' \in 0 .. MaxEnds
    BY <1>u, <1>o, Zenon DEF TypeOK
  <2> QED BY <1>2, <1>3, <1>6, <1>u, <2>1, <2>2, <2>3, <2>4, Zenon DEF TypeOK
<1>9. Timely' /\ DownIsEmpty' BY DEF Inv, SendTransaction, Timely, DownIsEmpty
<1> QED BY <1>3, <1>8, <1>9 DEF Inv

LEMMA EndInv == Inv /\ End => Inv'
<1> SUFFICES ASSUME Inv, End PROVE Inv' OBVIOUS
<1>1. /\ Unknown \in Unknown .. Timeout + 2
      /\ blockCount' \in 1 .. MaxBlocks + 1
      /\ ends' \in 0 .. MaxEnds
  BY PoolAssumption DEF Inv, TypeOK, End, Unknown, PoolAssumption
<1>2. quiet' \in [Miners -> Unknown .. Timeout + 2] BY <1>1 DEF End
<1>3. blocks' \in Seq(SUBSET Tx) /\ Tx' = Tx BY DEF End, Tx
<1>4. TypeOK'
  BY <1>1, <1>2, <1>3 DEF Inv, TypeOK, End
<1>5. Timely' /\ DownIsEmpty' /\ FileKept'
  BY DEF Inv, End, Timely, DownIsEmpty, FileKept
<1> QED BY <1>4, <1>5 DEF Inv

LEMMA StartInv == Inv /\ Start => Inv'
<1> SUFFICES ASSUME Inv, Start PROVE Inv' OBVIOUS
<1>1. Loaded \in [Addrs -> Nat] BY DEF Inv, TypeOK, Loaded, Zero
<1>2. saved' \in BOOLEAN BY DEF Start
<1>3. TypeOK' BY <1>1, <1>2 DEF Inv, TypeOK, Start, Registered, Tx
<1>4. Timely' /\ DownIsEmpty' BY DEF Inv, Start, Timely, DownIsEmpty
<1>5. FileKept' BY DEF Start, Loaded, FileKept
<1> QED BY <1>3, <1>4, <1>5 DEF Inv

LEMMA NextInv == Inv /\ [Next]_vars => Inv'
<1> SUFFICES ASSUME Inv, [Next]_vars PROVE Inv' OBVIOUS
<1>1. CASE UNCHANGED vars
  BY <1>1 DEF vars, Inv, TypeOK, Registered, Tx, Timely, DownIsEmpty, FileKept
<1>2. CASE \E m \in Miners : RegisterMiner(m) \/ MinerKeepalive(m) \/ MinerExit(m)
  BY <1>2, MinerInv
<1>3. CASE \E from, to \in Addrs, amount \in Amounts : SendTransaction(from, to, amount)
  BY <1>3, SendInv
<1> QED
  BY <1>1, <1>2, <1>3, MineInv, CleanupInv, TickInv, EndInv, StartInv DEF Next

(* The invariant holds for every constant that the code's limits allow. *)
THEOREM InvHolds == Spec => []Inv
  BY InitInv, NextInv, PTL DEF Spec

(* Types, balances that never go below zero, active miners that are known. *)
THEOREM TypeCorrect == Spec => []TypeOK
<1>1. Inv => TypeOK BY DEF Inv
<1> QED BY <1>1, InvHolds, PTL

(* A miner that falls silent is paid for one period too many at most. *)
THEOREM SilentMinersUnpaidCorrect == Spec => []SilentMinersUnpaid
<1>1. Inv => SilentMinersUnpaid
  BY PoolAssumption DEF Inv, TypeOK, Registered, Timely, SilentMinersUnpaid, PoolAssumption, Unknown
<1> QED BY <1>1, InvHolds, PTL

(* A start finds what clients saw last unless a save failed. *)
THEOREM RestartKeepsBalancesCorrect == Spec => RestartKeepsBalances
<1>1. Inv /\ [Next]_vars => [~up /\ up' /\ saved => balances' = balances]_vars
  <2> SUFFICES ASSUME Inv, Next, ~up, up', saved PROVE balances' = balances
    OBVIOUS
  <2>1. Start
    BY DEF Next, Mine, Cleanup, Tick, RegisterMiner, MinerKeepalive, MinerExit,
           SendTransaction, End
  <2>2. disk = balances BY DEF Inv, FileKept
  <2>3. CASE disk = Torn
    BY <2>1, <2>2, <2>3 DEF Start, Loaded, Inv, TypeOK, Zero, Torn
  <2>4. CASE disk # Torn
    BY <2>1, <2>2, <2>4 DEF Start, Loaded
  <2> QED BY <2>3, <2>4
<1> QED BY <1>1, InvHolds, PTL DEF Spec, RestartKeepsBalances


-----------------------------------------------------------------------------
(* The books.  Pool folds no operator of its own: the lemmas on sums are all *)
(* that is taken from Folding.                                               *)
Newest(p, v, x) == x
Sums == INSTANCE Folding WITH op <- Newest

(* A coinbase carries the count of its block, a transfer the count of the    *)
(* transfers before it: no two are the same transaction.                     *)
Confirmed(t) == t.from = System /\ t.id[1] <= blockCount
Transfer(t) == t.from \in Addrs /\ t.id[1] < transfers /\ t.id[2] = System

Numbered ==
  /\ \A t \in mempool : Transfer(t)
  /\ \A t \in Transactions(blocks) : Transfer(t) \/ Confirmed(t)

KeptApart ==
  /\ IsFiniteSet(History)
  /\ \A i \in DOMAIN blocks : blocks[i] \cap mempool = {}
  /\ \A i, j \in DOMAIN blocks : i # j => blocks[i] \cap blocks[j] = {}

DownForgets == ~up => mempool = {} /\ blocks = << >> /\ total = 0 /\ paid = 0 /\ sums = 0

OpeningType == opening \in [Addrs -> Int] /\ loaded \in Int

Books ==
  OpeningType /\ Numbered /\ KeptApart /\ DownForgets /\ HistoryExplainsBalances /\ PayoutsAddUp

-----------------------------------------------------------------------------
LEMMA SumBridge == \A f, S : SumFunctionOnSet(f, S) = Sums!Sum(f, S)
  BY DEF SumFunctionOnSet, Sums!SumFunctionOnSet, FoldFunctionOnSet,
         Sums!FoldFunctionOnSet, MapThenFoldSet, Sums!MapThenFoldSet, Sums!Sum

LEMMA FiniteBridge == \A S : IsFiniteSet(S) <=> Sums!IsFiniteSet(S)
  BY DEF IsFiniteSet, Sums!IsFiniteSet

LEMMA SizeBridge == \A S : Cardinality(S) = Sums!Cardinality(S)
  BY DEF Cardinality, Sums!Cardinality

LEMMA SumIs == ASSUME NEW X, NEW b \in [Addrs -> X] PROVE Sum(b) = Sums!Sum(b, Addrs)
  BY SumBridge, Zenon DEF Sum, SumFunction

LEMMA NetIs == ASSUME NEW T, NEW a PROVE Net(T, a) = Sums!Sum([t \in T |-> Effect(t, a)], T)
<1> DEFINE f == [t \in T |-> Effect(t, a)]
<1>1. DOMAIN f = T
  OBVIOUS
<1>2. Net(T, a) = SumFunctionOnSet(f, DOMAIN f)
  BY Zenon DEF Net, SumFunction
<1> HIDE DEF f
<1>3. Net(T, a) = Sums!Sum(f, T)
  BY <1>1, <1>2, SumBridge, Zenon
<1> QED BY <1>3 DEF f

LEMMA EffectType == ASSUME NEW t \in Tx, NEW a PROVE Effect(t, a) \in Int
<1>1. t.amount \in Nat
  BY DEF Tx
<1> QED BY <1>1 DEF Effect

LEMMA NetUnion ==
  ASSUME NEW S, IsFiniteSet(S), NEW T, IsFiniteSet(T), S \subseteq Tx, T \subseteq Tx,
         S \cap T = {}, NEW a
  PROVE  /\ Net(S, a) \in Int /\ Net(T, a) \in Int
         /\ Net(S \cup T, a) = Net(S, a) + Net(T, a)
<1> DEFINE U == S \cup T
           f(R) == [t \in R |-> Effect(t, a)]
<1>0. \A R : R \subseteq U => \A t \in R : f(R)[t] \in Int /\ f(U)[t] = f(R)[t]
  BY EffectType
<1>1. Net(S, a) = Sums!Sum(f(S), S) /\ Net(T, a) = Sums!Sum(f(T), T)
      /\ Net(U, a) = Sums!Sum(f(U), U)
  BY NetIs
<1> HIDE DEF f
<1>2. (\A t \in S : f(S)[t] \in Int) /\ (\A t \in T : f(T)[t] \in Int)
      /\ (\A t \in S \cup T : f(U)[t] \in Int)
  BY <1>0
<1>3. Sums!Sum(f(U), S \cup T) = Sums!Sum(f(U), S) + Sums!Sum(f(U), T)
  BY <1>2, FiniteBridge, Sums!SumUnion
<1>4. Sums!Sum(f(U), S) = Sums!Sum(f(S), S)
  <2>1. \A t \in S : f(S)[t] \in Int /\ f(U)[t] = f(S)[t]
    BY <1>0
  <2> QED BY <2>1, FiniteBridge, Sums!SumSame
<1>5. Sums!Sum(f(U), T) = Sums!Sum(f(T), T)
  <2>1. \A t \in T : f(T)[t] \in Int /\ f(U)[t] = f(T)[t]
    BY <1>0
  <2> QED BY <2>1, FiniteBridge, Sums!SumSame
<1>6. Sums!Sum(f(S), S) \in Int /\ Sums!Sum(f(T), T) \in Int
  BY <1>2, FiniteBridge, Sums!SumRemove
<1> QED BY <1>1, <1>3, <1>4, <1>5, <1>6

LEMMA NetNone ==
  ASSUME NEW T, IsFiniteSet(T), NEW a, \A t \in T : Effect(t, a) = 0
  PROVE  Net(T, a) = 0
<1> DEFINE f == [t \in T |-> Effect(t, a)]
<1>1. \A t \in T : f[t] = 0
  OBVIOUS
<1>2. Net(T, a) = Sums!Sum(f, T)
  BY NetIs
<1>3. Cardinality(T) \in Nat /\ 0 \in Int
  BY FS_CardinalityType
<1> HIDE DEF f
<1>4. Sums!Sum(f, T) = 0 * Cardinality(T)
  BY <1>1, <1>3, FiniteBridge, SizeBridge, Sums!SumConstant
<1> QED BY <1>2, <1>3, <1>4

LEMMA NetOne ==
  ASSUME NEW t \in Tx, NEW a PROVE Net({t}, a) = Effect(t, a)
<1> DEFINE f == [u \in {t} |-> Effect(u, a)]
<1>1. Net({t}, a) = Sums!Sum(f, {t})
  BY NetIs
<1>2. f[t] = Effect(t, a) /\ \A u \in {} \cup {t} : f[u] \in Int
  BY EffectType
<1> HIDE DEF f
<1>3. IsFiniteSet({}) /\ t \notin {} /\ {} \cup {t} = {t}
  BY FS_EmptySet
<1>4. Sums!Sum(f, {} \cup {t}) = Sums!Sum(f, {}) + f[t]
  BY <1>2, <1>3, FiniteBridge, Sums!SumInsert
<1>5. Sums!Sum(f, {}) = 0
  BY Sums!SumEmpty
<1> QED BY <1>1, <1>2, <1>3, <1>4, <1>5, EffectType

LEMMA ShareOf ==
  ASSUME TypeOK, active # {}
  PROVE  Share \in Nat /\ IsFiniteSet(Payees) /\ Payees \subseteq Addrs /\ Payees \subseteq Miners
<1>1. active \subseteq Miners
  BY DEF TypeOK, Registered
<1> QED BY <1>1, ShareType, ActiveFinite, PoolAssumption DEF PoolAssumption, Payees

(* The coinbases of a block are new, and each pays its miner one share. *)
LEMMA CoinbaseFacts ==
  ASSUME TypeOK, Books, active # {}, blockCount' = blockCount + 1
  PROVE  /\ IsFiniteSet(Coinbases) /\ Coinbases \subseteq Tx
         /\ Coinbases \cap History = {}
         /\ \A a \in Addrs : Net(Coinbases, a) = IF a \in Payees THEN Share ELSE 0
<1> DEFINE tx(m) == [id |-> <<blockCount', m>>, from |-> System, to |-> m, amount |-> Share]
<1>0. Share \in Nat /\ IsFiniteSet(Payees) /\ Payees \subseteq Addrs /\ Payees \subseteq Miners
  BY ShareOf
<1>1. Coinbases = {tx(m) : m \in Payees}
  BY DEF Coinbases
<1>2. IsFiniteSet(Coinbases)
  <2> DEFINE f == [m \in Payees |-> tx(m)]
  <2>1. f \in Surjection(Payees, Coinbases)
    BY <1>1 DEF Surjection
  <2> QED BY <1>0, <2>1, FS_Surjection
<1>3. blockCount \in Nat /\ blockCount' \in Nat
  BY DEF TypeOK
<1>4. Coinbases \subseteq Tx
  BY <1>3, RewardTypes
<1>5. Coinbases \cap History = {}
  <2> SUFFICES ASSUME NEW m \in Payees, tx(m) \in History PROVE FALSE
    BY <1>1
  <2>1. tx(m).from \notin Addrs /\ tx(m).id[1] = blockCount + 1
    BY PoolAssumption DEF PoolAssumption
  <2> HIDE DEF tx
  <2>2. tx(m).id[1] <= blockCount
    BY <2>1 DEF History, Books, Numbered, Transfer, Confirmed
  <2> QED BY <1>3, <2>1, <2>2
<1>6. ASSUME NEW a \in Addrs
      PROVE  Net(Coinbases, a) = IF a \in Payees THEN Share ELSE 0
  <2>1. ASSUME NEW m \in Payees
        PROVE  Effect(tx(m), a) = IF m = a THEN Share ELSE 0
    BY <1>0, PoolAssumption DEF Effect, PoolAssumption
  <2> HIDE DEF tx
  <2>2. CASE a \notin Payees
    <3>1. \A t \in Coinbases : Effect(t, a) = 0
      BY <1>1, <2>1, <2>2
    <3> QED BY <1>2, <2>2, <3>1, NetNone
  <2>3. CASE a \in Payees
    <3> DEFINE t == tx(a)
               R == Coinbases \ {t}
    <3>1. t \in Coinbases /\ t \in Tx /\ R \subseteq Tx /\ {t} \subseteq Tx
      BY <1>1, <1>4, <2>3
    <3>2. IsFiniteSet(R) /\ IsFiniteSet({t})
      BY <1>2, <3>1, FS_Subset
    <3>3. R \cap {t} = {} /\ R \cup {t} = Coinbases
      BY <3>1
    <3>4. \A u \in R : Effect(u, a) = 0
      BY <1>1, <2>1
    <3> HIDE DEF R, t
    <3>5. Net(R, a) = 0
      BY <3>2, <3>4, NetNone
    <3>6. Net({t}, a) = Effect(t, a)
      BY <3>1, NetOne
    <3>7. Effect(t, a) = Share
      BY <2>1, <2>3 DEF t
    <3>8. Net(R \cup {t}, a) = Net(R, a) + Net({t}, a)
      BY <3>1, <3>2, <3>3, NetUnion
    <3>9. Net(Coinbases, a) = 0 + Share
      BY <3>3, <3>5, <3>6, <3>7, <3>8
    <3> QED BY <1>0, <2>3, <3>9
  <2> QED BY <2>2, <2>3
<1> QED BY <1>2, <1>4, <1>5, <1>6

(* The block that drops off the front, if one does. *)
Dropped == IF Len(blocks) < Keep THEN {} ELSE blocks[1]

LEMMA PushFacts ==
  ASSUME TypeOK, Books, NEW b, b \cap Transactions(blocks) = {}, PushBlock(b)
  PROVE  /\ Dropped \subseteq Transactions(blocks)
         /\ Transactions(blocks') = (Transactions(blocks) \ Dropped) \cup b
         /\ \A i, j \in DOMAIN blocks' : i # j => blocks'[i] \cap blocks'[j] = {}
         /\ opening' = [a \in Addrs |-> opening[a] + Net(Dropped, a)]
<1> DEFINE n == Len(blocks)
<1>0. n \in Nat /\ DOMAIN blocks = 1 .. n /\ \A i \in 1 .. n : b \cap blocks[i] = {}
  BY DEF Transactions, TypeOK
<1>1. \A i, j \in 1 .. n : i # j => blocks[i] \cap blocks[j] = {}
  BY <1>0 DEF Books, KeptApart
<1>2. CASE n < Keep
  <2>1. /\ DOMAIN blocks' = 1 .. n + 1 /\ blocks'[n + 1] = b
        /\ \A i \in 1 .. n : blocks'[i] = blocks[i]
    BY <1>0, <1>2 DEF PushBlock, TypeOK
  <2>2. Dropped = {}
    BY <1>2 DEF Dropped
  <2>3. \A a : Net({}, a) = 0
    BY FS_EmptySet, NetNone
  <2>4. opening' = [a \in Addrs |-> opening[a] + Net(Dropped, a)]
    <3>1. opening' = opening
      BY <1>2 DEF PushBlock
    <3> QED BY <2>2, <2>3, <3>1 DEF Books, OpeningType
  <2>5. \A i \in 1 .. n + 1 : i = n + 1 \/ i \in 1 .. n
    BY <1>0
  <2> HIDE DEF n
  <2>6. Transactions(blocks') = Transactions(blocks) \cup b
    BY <1>0, <2>1, <2>5 DEF Transactions
  <2>7. \A i, j \in DOMAIN blocks' : i # j => blocks'[i] \cap blocks'[j] = {}
    BY <1>0, <1>1, <2>1, <2>5
  <2> QED BY <2>2, <2>4, <2>6, <2>7
<1>3. CASE ~(n < Keep)
  <2>0. n # 0 /\ n \in 1 .. n /\ 1 \in 1 .. n
    BY <1>0, <1>3, PoolAssumption DEF PoolAssumption
  <2>1. /\ DOMAIN blocks' = 1 .. n /\ blocks'[n] = b
        /\ \A i \in 1 .. n : i # n => blocks'[i] = blocks[i + 1]
    <3>1. blocks \in Seq(SUBSET Tx) /\ blocks # << >> /\ blocks' = Append(Tail(blocks), b)
      BY <1>0, <1>3, <2>0 DEF PushBlock, TypeOK
    <3> HIDE DEF Tx
    <3>2. DOMAIN blocks' = 1 .. n
      BY <1>0, <2>0, <3>1
    <3>3. blocks'[n] = b
      BY <1>0, <2>0, <3>1
    <3>4. ASSUME NEW i \in 1 .. n, i # n PROVE blocks'[i] = blocks[i + 1]
      <4> DEFINE rest == Tail(blocks)
      <4>1. i \in 1 .. n - 1
        <5> HIDE DEF n
        <5> QED BY <1>0, <3>4, SMT
      <4>2. rest \in Seq(SUBSET Tx) /\ Len(rest) = n - 1
        BY <1>0, <3>1
      <4>3. rest[i] = blocks[i + 1]
        BY <1>0, <3>1, <4>1
      <4> HIDE DEF rest, n
      <4>4. Append(rest, b)[i] = rest[i]
        BY <4>1, <4>2
      <4> QED BY <3>1, <4>3, <4>4 DEF rest
    <3> QED BY <3>2, <3>3, <3>4
  <2>2. Dropped = blocks[1] /\ blocks[1] = Head(blocks)
    BY <1>3 DEF Dropped
  <2>3. opening' = [a \in Addrs |-> opening[a] + Net(Dropped, a)]
    BY <1>3, <2>2 DEF PushBlock
  <2>4. \A i \in 1 .. n : i # n => i + 1 \in 1 .. n /\ i + 1 # 1
    BY <1>0
  <2>5. \A i \in 1 .. n : i # 1 => i - 1 \in 1 .. n /\ i - 1 # n /\ (i - 1) + 1 = i
    BY <1>0
  <2>6. \A i, j \in 1 .. n : i # j => i + 1 # j + 1
    BY <1>0
  <2> HIDE DEF n
  <2>7. Transactions(blocks') = (Transactions(blocks) \ Dropped) \cup b
    <3>1. ASSUME NEW t \in Transactions(blocks') PROVE t \in (Transactions(blocks) \ Dropped) \cup b
      BY <1>0, <1>1, <2>0, <2>1, <2>2, <2>4 DEF Transactions
    <3>2. ASSUME NEW t \in Transactions(blocks) \ Dropped PROVE t \in Transactions(blocks')
      <4>1. PICK i \in 1 .. n : t \in blocks[i] /\ i # 1
        BY <1>0, <2>2 DEF Transactions
      <4>2. t \in blocks'[i - 1] /\ i - 1 \in DOMAIN blocks'
        BY <2>1, <2>5, <4>1
      <4> QED BY <4>2 DEF Transactions
    <3>3. b \subseteq Transactions(blocks')
      BY <2>0, <2>1 DEF Transactions
    <3> QED BY <3>1, <3>2, <3>3
  <2>8. \A i, j \in DOMAIN blocks' : i # j => blocks'[i] \cap blocks'[j] = {}
    <3> SUFFICES ASSUME NEW i \in 1 .. n, NEW j \in 1 .. n, i # j
                 PROVE  blocks'[i] \cap blocks'[j] = {}
      BY <2>1
    <3>1. CASE i = n \/ j = n
      BY <1>0, <2>1, <2>4, <3>1
    <3>2. CASE i # n /\ j # n
      <4>1. blocks[i + 1] \cap blocks[j + 1] = {}
        BY <1>1, <2>4, <2>6, <3>2
      <4> QED BY <2>1, <3>2, <4>1
    <3> QED BY <3>1, <3>2
  <2>9. Dropped \subseteq Transactions(blocks)
    BY <1>0, <2>0, <2>2 DEF Transactions
  <2> QED BY <2>3, <2>7, <2>8, <2>9
<1> QED BY <1>2, <1>3

(* Transfers and rewards in the sum of the balances. *)
LEMMA RewardSum ==
  ASSUME TypeOK, active # {}
  PROVE  /\ Sum(Rewarded) \in Int /\ Sum(balances) \in Int
         /\ 2 * (Sum(Rewarded) - (Sum(balances) + Share * Cardinality(Payees)))
              <= Grain * Cardinality(Payees)
         /\ 2 * (Sum(balances) + Share * Cardinality(Payees) - Sum(Rewarded))
              <= Grain * Cardinality(Payees)
<1> DEFINE share == [a \in Addrs |-> IF a \in Payees THEN Share ELSE 0]
           mid == [a \in Addrs |-> balances[a] + share[a]]
           err == [a \in Addrs |-> Rewarded[a] - mid[a]]
           rest == Addrs \ Payees
<1>0. Share \in Nat /\ IsFiniteSet(Payees) /\ Payees \subseteq Addrs
  BY ShareOf
<1>1. IsFiniteSet(Addrs) /\ IsFiniteSet(rest) /\ Payees \cup rest = Addrs /\ Payees \cap rest = {}
  BY <1>0, FS_Subset, PoolAssumption DEF PoolAssumption
<1>b. balances \in [Addrs -> Nat] /\ Grain \in Nat
  BY PoolAssumption DEF TypeOK, PoolAssumption
<1>2. ASSUME NEW a \in Addrs
      PROVE  /\ balances[a] \in Int /\ share[a] \in Int /\ mid[a] \in Int
             /\ Rewarded[a] \in Int /\ err[a] \in Int
             /\ mid[a] = balances[a] + share[a] /\ Rewarded[a] = mid[a] + err[a]
  <2>1. balances[a] \in Nat /\ share[a] \in Nat
    BY <1>0, <1>b
  <2>2. Rewarded[a] \in Nat
    <3>1. balances[a] + Share \in Nat
      BY <1>0, <2>1
    <3> QED BY <2>1, <3>1, RoundedFacts DEF Rewarded
  <2> QED BY <2>1, <2>2
<1>3. ASSUME NEW a \in Payees
      PROVE  share[a] = Share /\ err[a] \in Int /\ 2 * err[a] <= Grain /\ -Grain <= 2 * err[a]
  <2>1. a \in Addrs /\ share[a] = Share /\ balances[a] + Share \in Nat
    BY <1>0, <1>b
  <2>2. err[a] = Rounded(balances[a] + Share) - (balances[a] + Share)
    BY <2>1 DEF Rewarded
  <2>3. PICK x : x = balances[a] + Share
    OBVIOUS
  <2>4. /\ x \in Nat /\ Rounded(x) \in Nat
        /\ 2 * (Rounded(x) - x) <= Grain /\ 2 * (x - Rounded(x)) <= Grain
    BY <2>1, <2>3, RoundedFacts
  <2>5. err[a] = Rounded(x) - x
    BY <2>2, <2>3
  <2> HIDE DEF err, share
  <2> QED BY <1>b, <2>1, <2>4, <2>5
<1>4. ASSUME NEW a \in rest PROVE share[a] = 0 /\ err[a] = 0
  <2>1. a \in Addrs /\ a \notin Payees /\ balances[a] \in Nat
    BY <1>b
  <2>2. share[a] = 0 /\ Rewarded[a] = balances[a]
    BY <2>1 DEF Rewarded
  <2> QED BY <2>1, <2>2
<1>5. Sum(balances) = Sums!Sum(balances, Addrs)
  BY <1>b, SumIs
<1>6. Sum(Rewarded) = Sums!Sum(Rewarded, Addrs)
  <2>1. DOMAIN Rewarded = Addrs BY DEF Rewarded
  <2> QED BY <2>1, SumBridge, Zenon DEF Sum, SumFunction
<1> HIDE DEF share, mid, err, rest
<1>7. Sums!Sum(Rewarded, Addrs) = Sums!Sum(mid, Addrs) + Sums!Sum(err, Addrs)
  <2>1. \A a \in Addrs : mid[a] \in Int /\ err[a] \in Int /\ Rewarded[a] = mid[a] + err[a]
    BY <1>2
  <2> QED BY <1>1, <2>1, FiniteBridge, Sums!SumPlus
<1>8. Sums!Sum(mid, Addrs) = Sums!Sum(balances, Addrs) + Sums!Sum(share, Addrs)
  <2>1. \A a \in Addrs : balances[a] \in Int /\ share[a] \in Int /\ mid[a] = balances[a] + share[a]
    BY <1>2
  <2> QED BY <1>1, <2>1, FiniteBridge, Sums!SumPlus
<1>9. ASSUME NEW f, \A a \in Addrs : f[a] \in Int, \A a \in rest : f[a] = 0
      PROVE  /\ Sums!Sum(f, Addrs) = Sums!Sum(f, Payees)
             /\ Sums!Sum(f, Addrs) \in Int
  <2>1. Sums!Sum(f, rest) = 0
    <3>1. 0 \in Int /\ Cardinality(rest) \in Nat
      BY <1>1, FS_CardinalityType
    <3>2. Sums!Sum(f, rest) = 0 * Cardinality(rest)
      BY <1>1, <1>9, <3>1, FiniteBridge, SizeBridge, Sums!SumConstant
    <3> QED BY <3>1, <3>2
  <2>2. \A a \in Payees \cup rest : f[a] \in Int
    BY <1>1, <1>9
  <2>3. Sums!Sum(f, Payees \cup rest) = Sums!Sum(f, Payees) + Sums!Sum(f, rest)
    BY <1>0, <1>1, <2>2, FiniteBridge, Sums!SumUnion
  <2>4. Sums!Sum(f, Payees) \in Int
    BY <1>0, <2>2, FiniteBridge, Sums!SumRemove
  <2>5. Sums!Sum(f, Addrs) = Sums!Sum(f, Payees) + Sums!Sum(f, rest)
    BY <1>1, <2>3, Zenon
  <2> QED BY <2>1, <2>4, <2>5
<1>10. Sums!Sum(share, Addrs) = Share * Cardinality(Payees)
  <2>1. Share \in Int /\ \A a \in Payees : share[a] = Share
    BY <1>0, <1>3
  <2>2. Sums!Sum(share, Payees) = Share * Cardinality(Payees)
    BY <1>0, <2>1, FiniteBridge, SizeBridge, Sums!SumConstant
  <2>3. Sums!Sum(share, Addrs) = Sums!Sum(share, Payees)
    <3>1. (\A a \in Addrs : share[a] \in Int) /\ \A a \in rest : share[a] = 0
      BY <1>2, <1>4
    <3> QED BY <1>9, <3>1
  <2> QED BY <2>2, <2>3, Zenon
<1>11. PICK e : e = Sums!Sum(err, Addrs)
  OBVIOUS
<1>12. /\ e \in Int /\ 2 * e <= Grain * Cardinality(Payees)
       /\ -(Grain * Cardinality(Payees)) <= 2 * e
  <2>1. Sums!Sum(err, Addrs) = Sums!Sum(err, Payees) /\ Sums!Sum(err, Addrs) \in Int
    <3>1. (\A a \in Addrs : err[a] \in Int) /\ \A a \in rest : err[a] = 0
      BY <1>2, <1>4
    <3> QED BY <1>9, <3>1
  <2>2. /\ 2 * Sums!Sum(err, Payees) <= Grain * Cardinality(Payees)
        /\ -(Grain * Cardinality(Payees)) <= 2 * Sums!Sum(err, Payees)
    <3>1. \A a \in Payees : err[a] \in Int /\ 2 * err[a] <= Grain /\ -Grain <= 2 * err[a]
      BY <1>3
    <3> QED BY <1>0, <1>b, <3>1, FiniteBridge, SizeBridge, Sums!SumSmall
  <2> QED BY <1>11, <2>1, <2>2
<1>13. Sum(balances) \in Int
  <2>1. \A a \in Addrs : balances[a] \in Int
    BY <1>2
  <2>2. Sums!Sum(balances, Addrs) \in Int
    BY <1>1, <2>1, FiniteBridge, Sums!SumRemove
  <2> QED BY <1>5, <2>2
<1>14. PICK b, n, pay, gn : /\ b = Sum(balances) /\ n = Sum(Rewarded)
                           /\ pay = Share * Cardinality(Payees) /\ gn = Grain * Cardinality(Payees)
  OBVIOUS
<1>15. pay \in Int /\ gn \in Int
  <2>1. Cardinality(Payees) \in Nat
    BY <1>0, FS_CardinalityType
  <2> QED BY <1>0, <1>b, <1>14, <2>1
<1>16. n = (b + pay) + e
  BY <1>5, <1>6, <1>7, <1>8, <1>10, <1>11, <1>14
<1>17. b \in Int /\ n \in Int /\ 2 * (n - (b + pay)) <= gn /\ 2 * (b + pay - n) <= gn
  <2>1. b \in Int /\ 2 * e <= gn /\ -gn <= 2 * e /\ e \in Int
    BY <1>12, <1>13, <1>14
  <2> QED BY <1>15, <1>16, <2>1
<1> QED BY <1>14, <1>17

LEMMA MovedSum ==
  ASSUME TypeOK, NEW from \in Addrs, NEW to \in Addrs, NEW amount \in Nat, Covered(from, amount)
  PROVE  /\ Sum(Moved(from, to, amount)) \in Int /\ Sum(balances) \in Int
         /\ 2 * (Sum(Moved(from, to, amount)) - Sum(balances)) <= 2 * Grain
         /\ 2 * (Sum(balances) - Sum(Moved(from, to, amount))) <= 2 * Grain
<1> DEFINE f == balances
           g == [balances EXCEPT ![from] = Rounded(@ - amount)]
           h == [g EXCEPT ![to] = Rounded(@ + amount)]
<1>0. Grain \in Nat /\ f \in [Addrs -> Nat] /\ f[from] - amount \in Nat
  BY PoolAssumption DEF PoolAssumption, TypeOK, Covered
<1>1. PICK u : u = f[from] - amount
  OBVIOUS
<1>2. u \in Nat /\ Rounded(u) \in Nat /\ 2 * (Rounded(u) - u) <= Grain /\ 2 * (u - Rounded(u)) <= Grain
  BY <1>0, <1>1, RoundedFacts
<1>3. g[from] = Rounded(u) /\ (\A a \in Addrs \ {from} : g[a] = f[a]) /\ g \in [Addrs -> Nat]
  BY <1>0, <1>1, <1>2
<1>4. PICK w : w = g[to] + amount
  OBVIOUS
<1>5. w \in Nat /\ Rounded(w) \in Nat /\ 2 * (Rounded(w) - w) <= Grain /\ 2 * (w - Rounded(w)) <= Grain
  <2>1. g[to] \in Nat
    BY <1>3
  <2> QED BY <1>4, <2>1, RoundedFacts
<1>6. h[to] = Rounded(w) /\ (\A a \in Addrs \ {to} : h[a] = g[a]) /\ h \in [Addrs -> Nat]
  BY <1>3, <1>4, <1>5
<1>7. Moved(from, to, amount) = h
  BY DEF Moved
<1> HIDE DEF f, g, h
<1>8. Sum(f) = Sums!Sum(f, Addrs) /\ Sum(h) = Sums!Sum(h, Addrs)
  BY <1>0, <1>6, SumIs
<1>9. IsFiniteSet(Addrs) /\ \A a \in Addrs : f[a] \in Int /\ g[a] \in Int /\ h[a] \in Int
  BY <1>0, <1>3, <1>6, PoolAssumption DEF PoolAssumption
<1>10. Sums!Sum(g, Addrs) = Sums!Sum(f, Addrs) - f[from] + g[from]
  <2>1. (\A a \in Addrs : f[a] \in Int /\ g[a] \in Int) /\ \A a \in Addrs \ {from} : g[a] = f[a]
    BY <1>3, <1>9
  <2>2. Sums!IsFiniteSet(Addrs)
    BY <1>9, FiniteBridge, Zenon
  <2> QED BY <2>1, <2>2, Sums!SumChange
<1>11. Sums!Sum(h, Addrs) = Sums!Sum(g, Addrs) - g[to] + h[to]
  <2>1. (\A a \in Addrs : g[a] \in Int /\ h[a] \in Int) /\ \A a \in Addrs \ {to} : h[a] = g[a]
    BY <1>6, <1>9
  <2>2. Sums!IsFiniteSet(Addrs)
    BY <1>9, FiniteBridge, Zenon
  <2> QED BY <2>1, <2>2, Sums!SumChange
<1>12. Sums!Sum(f, Addrs) \in Int
  BY <1>9, FiniteBridge, Sums!SumRemove
<1>13. PICK x, y, z, ff, gt : /\ x = Sum(f) /\ y = Sums!Sum(g, Addrs) /\ z = Sum(h)
                             /\ ff = f[from] /\ gt = g[to]
  OBVIOUS
<1>14. PICK ru, rw : ru = Rounded(u) /\ rw = Rounded(w)
  OBVIOUS
<1>15. x \in Int /\ ff \in Int /\ gt \in Int /\ ru \in Int /\ rw \in Int
  BY <1>2, <1>5, <1>8, <1>9, <1>12, <1>13, <1>14
<1>16. y = x - ff + ru /\ z = y - gt + rw /\ u = ff - amount /\ w = gt + amount
  BY <1>1, <1>3, <1>4, <1>6, <1>8, <1>10, <1>11, <1>13, <1>14
<1>17. /\ 2 * (ru - u) <= Grain /\ 2 * (u - ru) <= Grain
       /\ 2 * (rw - w) <= Grain /\ 2 * (w - rw) <= Grain
  BY <1>2, <1>5, <1>14
<1>18. z \in Int /\ 2 * (z - x) <= 2 * Grain /\ 2 * (x - z) <= 2 * Grain
  BY <1>0, <1>15, <1>16, <1>17
<1> QED BY <1>7, <1>13, <1>15, <1>18 DEF f

-----------------------------------------------------------------------------
LEMMA InitBooks == Init => Books
<1> SUFFICES ASSUME Init PROVE Books OBVIOUS
<1>1. Transactions(blocks) = {} /\ History = {}
  BY DEF Init, Transactions, History
<1>2. \A a \in Addrs : Net(History, a) = 0
  BY <1>1, FS_EmptySet, NetNone
<1>g. Grain \in Nat /\ Reward \in Nat
  BY PoolAssumption DEF PoolAssumption
<1>3. HistoryExplainsBalances
  <2> SUFFICES ASSUME NEW a \in Addrs
               PROVE  2 * Apart(balances[a], opening[a] + Net(History, a)) <= Grain * sums
    BY DEF HistoryExplainsBalances
  <2>1. balances[a] = 0 /\ opening[a] = 0 /\ Net(History, a) = 0 /\ sums = 0
    BY <1>2 DEF Init, Zero
  <2> QED BY <1>g, <2>1 DEF Apart
<1>4. Sum(balances) = 0
  <2>1. balances \in [Addrs -> Nat] /\ \A a \in Addrs : balances[a] = 0
    BY DEF Init, Zero
  <2>2. Sum(balances) = Sums!Sum(balances, Addrs)
    BY <2>1, SumIs
  <2>3. IsFiniteSet(Addrs) /\ 0 \in Int /\ Cardinality(Addrs) \in Nat
    BY PoolAssumption, FS_CardinalityType DEF PoolAssumption
  <2>4. Sums!Sum(balances, Addrs) = 0 * Cardinality(Addrs)
    BY <2>1, <2>3, FiniteBridge, SizeBridge, Sums!SumConstant
  <2> QED BY <2>2, <2>3, <2>4
<1>5. PayoutsAddUp
  <2>1. Sum(balances) = 0 /\ loaded = 0 /\ total = 0 /\ paid = 0 /\ sums = 0
    BY <1>4 DEF Init
  <2>2. Reward * 0 = 0 /\ (Grain + 1) * 0 = 0 /\ 2 * Apart(0, 0) = 0 /\ 0 + 0 = 0
    BY <1>g DEF Apart
  <2> QED BY <2>1, <2>2 DEF PayoutsAddUp
<1>6. OpeningType /\ Numbered /\ KeptApart /\ DownForgets
  BY <1>1, FS_EmptySet DEF Init, OpeningType, Zero, Numbered, KeptApart, DownForgets
<1> QED BY <1>3, <1>5, <1>6 DEF Books

(* Steps that leave the money alone. *)
LEMMA BooksStand ==
  ASSUME TypeOK, Books, blockCount' \in Nat, blockCount <= blockCount',
         UNCHANGED <<up, balances, total, mempool, blocks, opening, loaded, paid, sums, transfers>>
  PROVE  Books'
<1>1. Transactions(blocks)' = Transactions(blocks) /\ History' = History
  BY DEF Transactions, History
<1>2. Numbered'
  <2>1. \A t : Transfer(t)' <=> Transfer(t)
    BY DEF Transfer
  <2>2. ASSUME NEW t \in Transactions(blocks), Confirmed(t) PROVE Confirmed(t)'
    <3>1. t \in Tx
      BY DEF Transactions, TypeOK
    <3>2. t.id[1] \in Nat
      BY <3>1 DEF Tx
    <3> QED BY <2>2, <3>2 DEF Confirmed, TypeOK
  <2>3. (\A t \in mempool' : Transfer(t)') 
    BY <2>1 DEF Books, Numbered
  <2>4. \A t \in Transactions(blocks)' : Transfer(t)' \/ Confirmed(t)'
    BY <1>1, <2>1, <2>2 DEF Books, Numbered
  <2> QED BY <2>3, <2>4 DEF Numbered
<1>3. HistoryExplainsBalances'
  BY <1>1 DEF Books, HistoryExplainsBalances
<1>4. PayoutsAddUp'
  BY DEF Books, PayoutsAddUp
<1>5. OpeningType' /\ KeptApart' /\ DownForgets'
  BY <1>1 DEF Books, OpeningType, KeptApart, DownForgets
<1> QED BY <1>2, <1>3, <1>4, <1>5 DEF Books

LEMMA HistoryTyped ==
  ASSUME TypeOK PROVE History \subseteq Tx /\ Transactions(blocks) \subseteq History
<1>1. mempool \subseteq Tx /\ blocks \in Seq(SUBSET Tx)
  BY DEF TypeOK
<1>2. \A i \in DOMAIN blocks : blocks[i] \subseteq Tx
  <2> HIDE DEF Tx
  <2> QED BY <1>1
<1>3. Transactions(blocks) \subseteq Tx
  BY <1>2 DEF Transactions
<1> QED BY <1>1, <1>3 DEF History

LEMMA MineBooks ==
  ASSUME TypeOK, TypeOK', Books, Mine
  PROVE  Books'
<1>1. blockCount \in Nat /\ blockCount' = blockCount + 1 /\ blockCount <= blockCount' /\ blockCount' \in Nat
  BY DEF TypeOK, Mine
<1>2. CASE active = {}
  BY <1>1, <1>2, BooksStand DEF Mine
<1>3. CASE active # {}
  <2> DEFINE b == Coinbases \cup mempool
             kept == History \ Dropped
  <2>0. /\ up /\ up' /\ mempool' = {} /\ transfers' = transfers /\ loaded' = loaded
        /\ balances' = Rewarded /\ total' = Totalled /\ PushBlock(b)
        /\ paid' = paid + 1 /\ sums' = sums + Cardinality(Payees)
    BY <1>3 DEF Mine
  <2>1. /\ IsFiniteSet(Coinbases) /\ Coinbases \subseteq Tx
        /\ Coinbases \cap History = {}
        /\ \A a \in Addrs : Net(Coinbases, a) = IF a \in Payees THEN Share ELSE 0
    BY <1>1, <1>3, CoinbaseFacts
  <2>2. mempool \cap Transactions(blocks) = {} /\ mempool \cup Transactions(blocks) = History
    BY DEF Books, KeptApart, Transactions, History
  <2>3. b \cap Transactions(blocks) = {}
    BY <2>1, <2>2
  <2>4. /\ Dropped \subseteq Transactions(blocks)
        /\ Transactions(blocks') = (Transactions(blocks) \ Dropped) \cup b
        /\ \A i, j \in DOMAIN blocks' : i # j => blocks'[i] \cap blocks'[j] = {}
        /\ opening' = [a \in Addrs |-> opening[a] + Net(Dropped, a)]
    <3> HIDE DEF b
    <3> QED BY <2>0, <2>3, PushFacts
  <2>5. Transactions(blocks)' = Transactions(blocks') /\ History' = Transactions(blocks')
    BY <2>0 DEF Transactions, History
  <2>6. History' = kept \cup Coinbases /\ kept \cup Dropped = History
        /\ kept \cap Dropped = {} /\ kept \cap Coinbases = {}
    BY <2>1, <2>2, <2>4, <2>5
  <2>7. History \subseteq Tx
    BY HistoryTyped
  <2>8. IsFiniteSet(kept) /\ IsFiniteSet(Dropped) /\ kept \subseteq Tx /\ Dropped \subseteq Tx
    <3>1. kept \subseteq History /\ Dropped \subseteq History /\ IsFiniteSet(History)
      BY <2>6 DEF Books, KeptApart
    <3> QED BY <2>7, <3>1, FS_Subset
  <2>9. KeptApart'
    <3>1. IsFiniteSet(History')
      BY <2>1, <2>6, <2>8, FS_Union
    <3> QED BY <2>0, <2>4, <3>1 DEF KeptApart
  <2> HIDE DEF b, kept
  <2>c. /\ Cardinality(Payees) \in Nat /\ Payees = active /\ active \subseteq Miners
        /\ Grain \in Nat \ {0} /\ Reward \in Nat /\ sums \in Nat /\ paid \in Nat /\ Share \in Nat
    BY <1>3, PayeeCount, ShareType, PoolAssumption DEF TypeOK, Registered, Payees, PoolAssumption
  <2>10. HistoryExplainsBalances'
    <3> SUFFICES ASSUME NEW a \in Addrs
                 PROVE  2 * Apart(balances'[a], opening'[a] + Net(History', a)) <= Grain * sums'
      BY DEF HistoryExplainsBalances
    <3>1. /\ Net(kept, a) \in Int /\ Net(Dropped, a) \in Int
          /\ Net(kept \cup Dropped, a) = Net(kept, a) + Net(Dropped, a)
      BY <2>6, <2>8, NetUnion
    <3>2. /\ Net(Coinbases, a) \in Int
          /\ Net(kept \cup Coinbases, a) = Net(kept, a) + Net(Coinbases, a)
      BY <2>1, <2>6, <2>8, NetUnion
    <3>3. 2 * Apart(balances[a], opening[a] + Net(History, a)) <= Grain * sums /\ opening[a] \in Int
      BY <2>0 DEF Books, HistoryExplainsBalances, OpeningType
    <3>4. PICK v, w, x, y, gs, g1 :
            /\ v = balances[a] /\ w = balances'[a]
            /\ x = opening[a] + Net(History, a) /\ y = opening'[a] + Net(History', a)
            /\ gs = Grain * sums /\ g1 = Grain * sums'
      OBVIOUS
    <3>5. opening'[a] = opening[a] + Net(Dropped, a)
      BY <2>4
    <3>6. Net(History, a) = Net(kept, a) + Net(Dropped, a)
          /\ Net(History', a) = Net(kept, a) + Net(Coinbases, a)
      BY <2>6, <3>1, <3>2
    <3>7. y = x + Net(Coinbases, a) /\ x \in Int
      <4>1. PICK o, o2, nk, nd, nc :
              /\ o = opening[a] /\ o2 = opening'[a] /\ nk = Net(kept, a)
              /\ nd = Net(Dropped, a) /\ nc = Net(Coinbases, a)
        OBVIOUS
      <4>2. o \in Int /\ nk \in Int /\ nd \in Int /\ nc \in Int
        BY <3>1, <3>2, <3>3, <4>1
      <4>3. o2 = o + nd /\ x = o + (nk + nd) /\ y = o2 + (nk + nc)
        BY <3>4, <3>5, <3>6, <4>1
      <4>4. y = x + nc /\ x \in Int
        BY <4>2, <4>3
      <4> QED BY <4>1, <4>4
    <3>8. v \in Nat /\ gs \in Int /\ 2 * (v - x) <= gs /\ 2 * (x - v) <= gs
      <4>1. v \in Nat /\ gs \in Int
        <5>1. v \in Nat
          BY <3>4, Zenon DEF TypeOK
        <5>2. Grain \in Int /\ sums \in Int
          BY <2>c
        <5>3. Grain * sums \in Int
          BY <5>2
        <5> QED BY <3>4, <5>1, <5>3, Zenon
      <4>2. 2 * Apart(v, x) <= gs
        BY <3>3, <3>4
      <4> QED BY <3>7, <4>1, <4>2, ApartIs
    <3>9. w \in Int /\ y \in Int /\ g1 \in Int /\ 2 * (w - y) <= g1 /\ 2 * (y - w) <= g1
      <4>1. CASE a \in Payees
        <5>1. w = Rounded(v + Share) /\ Net(Coinbases, a) = Share /\ v + Share \in Nat
          BY <2>0, <2>1, <2>c, <3>4, <3>8, <4>1 DEF Rewarded
        <5>2. w \in Nat /\ 2 * (w - (v + Share)) <= Grain /\ 2 * ((v + Share) - w) <= Grain
          BY <5>1, RoundedFacts
        <5>3. gs + Grain <= g1 /\ g1 \in Int
          <6>1. ASSUME NEW n \in Nat \ {0}, NEW s \in Nat PROVE Grain * s + Grain <= Grain * (s + n)
            <7>1. Grain * (s + n) = Grain * s + Grain * n /\ Grain * n = Grain + Grain * (n - 1)
                  /\ n - 1 \in Nat
              BY <2>c
            <7>2. Grain * (n - 1) \in Nat /\ Grain * s \in Nat /\ Grain \in Nat
              BY <2>c, <7>1
            <7> QED BY <7>1, <7>2
          <6>2. Cardinality(Payees) # 0
            <7>1. IsFiniteSet(active) /\ active # {}
              BY <1>3, <2>c, ActiveFinite
            <7> QED BY <2>c, <7>1, FS_EmptySet
          <6>3. Cardinality(Payees) \in Nat \ {0} /\ sums \in Nat
            BY <2>c, <6>2
          <6> HIDE DEF Payees
          <6>4. Grain * sums + Grain <= Grain * (sums + Cardinality(Payees))
            BY <6>1, <6>3
          <6>5. Grain * (sums + Cardinality(Payees)) \in Int
            BY <2>c, <6>3
          <6> QED BY <2>0, <3>4, <6>4, <6>5
        <5>4. y = x + Share
          BY <3>7, <5>1
        <5> QED BY <2>c, <3>7, <3>8, <5>2, <5>3, <5>4
      <4>2. CASE a \notin Payees
        <5>1. w = v /\ Net(Coinbases, a) = 0
          BY <2>0, <2>1, <3>4, <4>2 DEF Rewarded
        <5>2. gs <= g1 /\ g1 \in Int
          <6>1. ASSUME NEW n \in Nat, NEW s \in Nat
                PROVE  Grain * s <= Grain * (s + n) /\ Grain * (s + n) \in Int
            <7>1. Grain * (s + n) = Grain * s + Grain * n /\ Grain * n \in Nat /\ Grain * s \in Nat
              BY <2>c
            <7> QED BY <7>1
          <6> QED BY <2>0, <2>c, <3>4, <6>1
        <5>3. y = x
          BY <3>7, <5>1
        <5> QED BY <3>7, <3>8, <5>1, <5>2, <5>3
      <4> QED BY <4>1, <4>2
    <3>10. 2 * Apart(w, y) <= g1
      BY <3>9, ApartIs
    <3> QED BY <3>4, <3>10
  <2>11. PayoutsAddUp'
    <3>1. PICK n, pay, gn, r0, sl, r1, s1 :
            /\ n = Cardinality(Payees) /\ pay = Share * n /\ gn = Grain * n
            /\ r0 = Reward * paid /\ sl = (Grain + 1) * sums
            /\ r1 = Reward * paid' /\ s1 = (Grain + 1) * sums'
      OBVIOUS
    <3>2. n \in Nat /\ pay \in Int /\ gn \in Int /\ r0 \in Int /\ sl \in Int
      BY <2>c, <3>1
    <3>3. r1 = r0 + Reward /\ s1 = sl + gn + n
      BY <2>0, <2>c, <3>1
    <3>4. 2 * (pay - Reward) <= n /\ 2 * (Reward - pay) <= n
      BY <1>3, <2>c, <3>1, ShareType
    <3>5. PICK b0, b1, t0, t1 :
            b0 = Sum(balances) /\ b1 = Sum(balances') /\ t0 = total /\ t1 = total'
      OBVIOUS
    <3>6. b0 \in Int /\ b1 \in Int /\ 2 * (b1 - (b0 + pay)) <= gn /\ 2 * (b0 + pay - b1) <= gn
      <4>1. Sum(balances') = Sum(Rewarded)
        BY <2>0, Zenon
      <4> QED BY <1>3, <3>1, <3>5, <4>1, RewardSum
    <3>7. t0 \in Int /\ t1 \in Int /\ 2 * (t1 - (t0 + pay)) <= gn /\ 2 * (t0 + pay - t1) <= gn
      <4>1. total \in Nat
        BY DEF TypeOK
      <4> QED BY <1>3, <2>0, <2>c, <3>1, <3>5, <4>1, TotalFacts
    <3>8. /\ loaded \in Int
          /\ 2 * Apart(b0, loaded + r0) <= sl /\ 2 * Apart(t0, r0) <= sl
      BY <2>0, <3>1, <3>5 DEF Books, PayoutsAddUp, OpeningType
    <3>9. /\ 2 * (b0 - (loaded + r0)) <= sl /\ 2 * ((loaded + r0) - b0) <= sl
          /\ 2 * (t0 - r0) <= sl /\ 2 * (r0 - t0) <= sl
      <4>1. loaded + r0 \in Int
        BY <3>2, <3>8
      <4> QED BY <3>2, <3>6, <3>7, <3>8, <4>1, ApartIs
    <3>10. /\ r1 \in Int /\ s1 \in Int /\ loaded + r1 \in Int
           /\ 2 * (b1 - (loaded + r1)) <= s1 /\ 2 * ((loaded + r1) - b1) <= s1
           /\ 2 * (t1 - r1) <= s1 /\ 2 * (r1 - t1) <= s1
      BY <2>c, <3>2, <3>3, <3>4, <3>6, <3>7, <3>8, <3>9
    <3>11. 2 * Apart(b1, loaded + r1) <= s1 /\ 2 * Apart(t1, r1) <= s1
      BY <3>6, <3>7, <3>10, ApartIs
    <3>12. loaded' = loaded
      BY <2>0
    <3> QED BY <3>1, <3>5, <3>11, <3>12 DEF PayoutsAddUp
  <2>12. Numbered'
    <3>1. \A t \in Coinbases : t.from = System /\ t.id[1] = blockCount'
      BY DEF Coinbases
    <3>2. \A t \in History : t.id[1] \in Nat
      BY <2>7 DEF Tx
    <3>3. ASSUME NEW t \in kept PROVE Transfer(t)' \/ Confirmed(t)'
      <4>1. t \in History /\ (Transfer(t) \/ Confirmed(t))
        BY <2>2, <2>6 DEF Books, Numbered
      <4>2. Transfer(t)' <=> Transfer(t)
        BY <2>0 DEF Transfer
      <4>3. Confirmed(t) => Confirmed(t)'
        BY <1>1, <3>2, <4>1 DEF Confirmed
      <4> QED BY <4>1, <4>2, <4>3
    <3>4. ASSUME NEW t \in Coinbases PROVE Confirmed(t)'
      BY <1>1, <3>1 DEF Confirmed
    <3>5. \A t \in Transactions(blocks)' : Transfer(t)' \/ Confirmed(t)'
      BY <2>5, <2>6, <3>3, <3>4
    <3> QED BY <2>0, <3>5 DEF Numbered
  <2>13. OpeningType'
    <3>1. \A a \in Addrs : opening[a] \in Int /\ Net(Dropped, a) \in Int
      BY <2>6, <2>8, NetUnion DEF Books, OpeningType
    <3> QED BY <2>0, <2>4, <3>1 DEF Books, OpeningType
  <2>14. DownForgets'
    BY <2>0 DEF DownForgets
  <2> QED BY <2>9, <2>10, <2>11, <2>12, <2>13, <2>14 DEF Books
<1> QED BY <1>2, <1>3

LEMMA SendBooks ==
  ASSUME TypeOK, TypeOK', Books, NEW from \in Addrs, NEW to \in Addrs, NEW amount \in Amounts,
         SendTransaction(from, to, amount)
  PROVE  Books'
<1>p. PICK tx : tx = [id |-> <<transfers, System>>, from |-> from, to |-> to, amount |-> amount]
  OBVIOUS
<1>0. /\ amount \in Nat /\ up /\ up' /\ mempool' = mempool \cup {tx} /\ balances' = Moved(from, to, amount)
      /\ transfers \in Nat /\ transfers' = transfers + 1
      /\ UNCHANGED <<blocks, blockCount, opening, loaded, total, paid>> /\ sums' = sums + 2
      /\ Covered(from, amount)
  BY <1>p, PoolAssumption DEF PoolAssumption, SendTransaction, TypeOK
<1>t. /\ tx.from = from /\ tx.to = to /\ tx.amount = amount
      /\ tx.id = <<transfers, System>> /\ tx.id[1] = transfers /\ tx.id[2] = System
  BY <1>p
<1>1. tx \in Tx /\ {tx} \subseteq Tx /\ IsFiniteSet({tx})
  <2>1. <<transfers, System>> \in Nat \X (Miners \cup {System})
    BY <1>0
  <2>2. tx \in Tx
    BY <1>0, <1>p, <2>1 DEF Tx
  <2> QED BY <2>2, FS_Singleton
<1>2. History \subseteq Tx /\ Transactions(blocks) \subseteq History
  BY HistoryTyped
<1>3. tx \notin History
  <2>1. tx.from # System /\ tx.id[1] = transfers
    BY <1>t, PoolAssumption DEF PoolAssumption
  <2> SUFFICES ASSUME tx \in History PROVE FALSE
    OBVIOUS
  <2>2. tx.id[1] < transfers
    BY <2>1 DEF History, Books, Numbered, Transfer, Confirmed
  <2> QED BY <1>0, <2>1, <2>2
<1>4. Transactions(blocks)' = Transactions(blocks) /\ History' = History \cup {tx}
  BY <1>0 DEF Transactions, History
<1>5. IsFiniteSet(History) /\ IsFiniteSet(History \cup {tx})
  BY <1>1, FS_Union DEF Books, KeptApart
<1>6. KeptApart'
  <2>1. \A i \in DOMAIN blocks : blocks[i] \subseteq History /\ blocks[i] \cap mempool = {}
    BY DEF History, Transactions, Books, KeptApart
  <2>2. \A i \in DOMAIN blocks : blocks[i] \cap (mempool \cup {tx}) = {}
    BY <1>3, <2>1
  <2>3. \A i, j \in DOMAIN blocks : i # j => blocks[i] \cap blocks[j] = {}
    BY DEF Books, KeptApart
  <2> QED BY <1>0, <1>4, <1>5, <2>2, <2>3 DEF KeptApart
<1>g. Grain \in Nat /\ sums \in Nat /\ paid \in Nat /\ Reward \in Nat /\ balances \in [Addrs -> Nat]
  BY PoolAssumption DEF PoolAssumption, TypeOK
<1>7. ASSUME NEW a \in Addrs, NEW v, NEW w, NEW e,
             v = balances[a], w = Moved(from, to, amount)[a], e = Effect(tx, a)
      PROVE  /\ v \in Nat /\ w \in Nat /\ e \in Int
             /\ 2 * (w - (v + e)) <= 2 * Grain /\ 2 * ((v + e) - w) <= 2 * Grain
  <2> DEFINE debited == [balances EXCEPT ![from] = Rounded(@ - amount)]
  <2>1. e = (IF to = a THEN amount ELSE 0) - (IF from = a THEN amount ELSE 0)
    BY <1>7, <1>t DEF Effect
  <2>2. PICK m : m = debited[a]
    OBVIOUS
  <2>3. /\ v \in Nat /\ m \in Nat
        /\ 2 * (m - (v - (IF from = a THEN amount ELSE 0))) <= Grain
        /\ 2 * ((v - (IF from = a THEN amount ELSE 0)) - m) <= Grain
    <3>1. v \in Nat
      BY <1>7, <1>g
    <3>2. CASE from = a
      <4>1. v - amount \in Nat
        BY <1>0, <1>7, <3>1, <3>2 DEF Covered
      <4>2. m = Rounded(v - amount)
        BY <1>7, <1>g, <2>2, <3>2
      <4>3. PICK u : u = v - amount
        OBVIOUS
      <4>4. m \in Nat /\ 2 * (m - u) <= Grain /\ 2 * (u - m) <= Grain
        BY <4>1, <4>2, <4>3, RoundedFacts
      <4> QED BY <3>1, <3>2, <4>3, <4>4
    <3>3. CASE from # a
      <4>1. m = v
        BY <1>7, <1>g, <2>2, <3>3
      <4> QED BY <1>g, <3>1, <3>3, <4>1
    <3> QED BY <3>2, <3>3
  <2>4. w = IF to = a THEN Rounded(m + amount) ELSE m
    BY <1>7, <1>g, <2>2 DEF Moved
  <2> HIDE DEF debited
  <2>5. /\ w \in Nat
        /\ 2 * (w - (m + (IF to = a THEN amount ELSE 0))) <= Grain
        /\ 2 * ((m + (IF to = a THEN amount ELSE 0)) - w) <= Grain
    <3>1. CASE to = a
      <4>1. PICK u : u = m + amount
        OBVIOUS
      <4>2. u \in Nat /\ w = Rounded(u)
        BY <1>0, <2>3, <2>4, <3>1, <4>1
      <4>3. w \in Nat /\ 2 * (w - u) <= Grain /\ 2 * (u - w) <= Grain
        BY <4>2, RoundedFacts
      <4> QED BY <3>1, <4>1, <4>3
    <3>2. CASE to # a
      BY <1>g, <2>3, <2>4, <3>2
    <3> QED BY <3>1, <3>2
  <2>6. PICK p, q : p = (IF from = a THEN amount ELSE 0) /\ q = (IF to = a THEN amount ELSE 0)
    OBVIOUS
  <2>7. p \in Nat /\ q \in Nat /\ e = q - p
    BY <1>0, <2>1, <2>6
  <2>8. /\ 2 * (m - (v - p)) <= Grain /\ 2 * ((v - p) - m) <= Grain
        /\ 2 * (w - (m + q)) <= Grain /\ 2 * ((m + q) - w) <= Grain
    BY <2>3, <2>5, <2>6
  <2> QED BY <1>g, <2>3, <2>5, <2>7, <2>8
<1>8. Transfer(tx)'
  <2>1. tx.from \in Addrs /\ tx.id[1] < transfers' /\ tx.id[2] = System
    BY <1>0, <1>t
  <2> QED BY <2>1 DEF Transfer
<1>9. Numbered'
  <2>1. ASSUME NEW t \in History PROVE (Transfer(t) => Transfer(t)') /\ (Confirmed(t) <=> Confirmed(t)')
    <3>1. t.id[1] \in Nat
      BY <1>2 DEF Tx
    <3> QED BY <1>0, <3>1 DEF Transfer, Confirmed
  <2>2. \A t \in mempool' : Transfer(t)'
    <3>1. \A t \in mempool : t \in History /\ Transfer(t)
      BY DEF Books, Numbered, History
    <3>2. \A t \in mempool : Transfer(t)'
      BY <2>1, <3>1
    <3>3. \A t \in mempool' : t \in mempool \/ t = tx
      BY <1>0
    <3> QED BY <1>8, <3>2, <3>3
  <2>3. \A t \in Transactions(blocks)' : Transfer(t)' \/ Confirmed(t)'
    BY <1>2, <1>4, <2>1 DEF Books, Numbered
  <2> QED BY <2>2, <2>3 DEF Numbered
<1>s. Grain * sums' = Grain * sums + 2 * Grain /\ (Grain + 1) * sums' = (Grain + 1) * sums + 2 * (Grain + 1)
      /\ Grain * sums \in Int /\ (Grain + 1) * sums \in Int
  BY <1>0, <1>g
<1>10. HistoryExplainsBalances'
  <2> SUFFICES ASSUME NEW a \in Addrs
               PROVE  2 * Apart(balances'[a], opening'[a] + Net(History', a)) <= Grain * sums'
    BY DEF HistoryExplainsBalances
  <2>1. 2 * Apart(balances[a], opening[a] + Net(History, a)) <= Grain * sums /\ opening[a] \in Int
    BY <1>0 DEF Books, HistoryExplainsBalances, OpeningType
  <2>2. /\ Net(History, a) \in Int /\ Net({tx}, a) \in Int
        /\ Net(History \cup {tx}, a) = Net(History, a) + Net({tx}, a)
    <3> DEFINE one == {tx}
    <3>1. History \cap one = {} /\ one \subseteq Tx /\ IsFiniteSet(one)
      BY <1>1, <1>3
    <3>2. History \subseteq Tx /\ IsFiniteSet(History)
      BY <1>2, <1>5
    <3> HIDE DEF one
    <3>3. /\ Net(History, a) \in Int /\ Net(one, a) \in Int
          /\ Net(History \cup one, a) = Net(History, a) + Net(one, a)
      BY <3>1, <3>2, NetUnion
    <3> QED BY <3>3 DEF one
  <2>3. Net({tx}, a) = Effect(tx, a)
    BY <1>1, NetOne
  <2>4. PICK v, w, e, x, y, gs :
          /\ v = balances[a] /\ w = Moved(from, to, amount)[a] /\ e = Effect(tx, a)
          /\ x = opening[a] + Net(History, a) /\ y = opening'[a] + Net(History', a)
          /\ gs = Grain * sums
    OBVIOUS
  <2>5. /\ v \in Nat /\ w \in Nat /\ e \in Int
        /\ 2 * (w - (v + e)) <= 2 * Grain /\ 2 * ((v + e) - w) <= 2 * Grain
    BY <1>7, <2>4
  <2>6. x \in Int /\ y = x + e
    <3>1. Net(History', a) = Net(History, a) + Net({tx}, a) /\ opening'[a] = opening[a]
      BY <1>0, <1>4, <2>2
    <3> QED BY <2>1, <2>2, <2>3, <2>4, <3>1
  <2>7. gs \in Int /\ 2 * (v - x) <= gs /\ 2 * (x - v) <= gs
    <3>1. 2 * Apart(v, x) <= gs /\ gs \in Int
      BY <1>s, <2>1, <2>4
    <3> QED BY <2>5, <2>6, <3>1, ApartIs
  <2>8. y \in Int /\ 2 * (w - y) <= gs + 2 * Grain /\ 2 * (y - w) <= gs + 2 * Grain
        /\ gs + 2 * Grain \in Int
    BY <1>g, <2>5, <2>6, <2>7
  <2>9. 2 * Apart(w, y) <= gs + 2 * Grain
    BY <2>5, <2>8, ApartIs
  <2>10. balances'[a] = w
    BY <1>0, <2>4
  <2> QED BY <1>s, <2>4, <2>9, <2>10
<1>11. PayoutsAddUp'
  <2>1. PICK b0, b1, r0, sl : /\ b0 = Sum(balances) /\ b1 = Sum(Moved(from, to, amount))
                             /\ r0 = Reward * paid /\ sl = (Grain + 1) * sums
    OBVIOUS
  <2>2. b0 \in Int /\ b1 \in Int /\ 2 * (b1 - b0) <= 2 * Grain /\ 2 * (b0 - b1) <= 2 * Grain
    BY <1>0, <2>1, MovedSum
  <2>3. Sum(balances') = b1
    BY <1>0, <2>1, Zenon
  <2>4. /\ loaded \in Int /\ total \in Int /\ r0 \in Int /\ sl \in Int /\ loaded + r0 \in Int
    BY <1>g, <1>s, <2>1 DEF Books, OpeningType, TypeOK
  <2>5. 2 * Apart(b0, loaded + r0) <= sl /\ 2 * Apart(total, r0) <= sl
    BY <1>0, <2>1 DEF Books, PayoutsAddUp
  <2>6. /\ 2 * (b0 - (loaded + r0)) <= sl /\ 2 * ((loaded + r0) - b0) <= sl
        /\ 2 * (total - r0) <= sl /\ 2 * (r0 - total) <= sl
    BY <2>2, <2>4, <2>5, ApartIs
  <2>7. PICK s1 : s1 = (Grain + 1) * sums'
    OBVIOUS
  <2>8. s1 = sl + 2 * (Grain + 1)
    BY <1>s, <2>1, <2>7
  <2>9. /\ s1 \in Int
        /\ 2 * (b1 - (loaded + r0)) <= s1 /\ 2 * ((loaded + r0) - b1) <= s1
        /\ 2 * (total - r0) <= s1 /\ 2 * (r0 - total) <= s1
    BY <1>g, <2>2, <2>4, <2>6, <2>8
  <2>10. 2 * Apart(b1, loaded + r0) <= s1 /\ 2 * Apart(total, r0) <= s1
    BY <2>2, <2>4, <2>9, ApartIs
  <2>11. loaded' = loaded /\ total' = total /\ Reward * paid' = r0
    BY <1>0, <2>1
  <2> QED BY <2>3, <2>7, <2>10, <2>11 DEF PayoutsAddUp
<1>12. OpeningType' /\ DownForgets'
  BY <1>0 DEF Books, OpeningType, DownForgets
<1> QED BY <1>6, <1>9, <1>10, <1>11, <1>12 DEF Books

LEMMA EndBooks == ASSUME Books, End PROVE Books'
<1>1. Transactions(blocks)' = {} /\ History' = {}
  BY DEF End, Transactions, History
<1>2. HistoryExplainsBalances' /\ PayoutsAddUp'
  BY DEF End, HistoryExplainsBalances, PayoutsAddUp
<1>3. OpeningType' /\ Numbered' /\ KeptApart' /\ DownForgets'
  BY <1>1, FS_EmptySet DEF Books, End, OpeningType, Numbered, KeptApart, DownForgets
<1> QED BY <1>2, <1>3 DEF Books

LEMMA StartBooks == ASSUME Inv, TypeOK', Books, Start PROVE Books'
<1>0. mempool' = {} /\ blocks' = << >> /\ mempool = {} /\ blocks = << >> /\ up'
  BY DEF Start, Books, DownForgets
<1>1. Transactions(blocks)' = {} /\ History' = {}
  BY <1>0 DEF Transactions, History
<1>2. \A a : Net(History', a) = 0
  BY <1>1, FS_EmptySet, NetNone
<1>3. Loaded \in [Addrs -> Nat]
  BY DEF Inv, TypeOK, Loaded, Zero
<1>g. /\ Grain \in Nat /\ Reward \in Nat /\ paid' = 0 /\ sums' = 0
      /\ Grain * 0 = 0 /\ Reward * 0 = 0 /\ (Grain + 1) * 0 = 0
  BY PoolAssumption DEF PoolAssumption, Start, Books, DownForgets
<1>4. HistoryExplainsBalances'
  <2> SUFFICES ASSUME NEW a \in Addrs
               PROVE  2 * Apart(balances'[a], opening'[a] + Net(History', a)) <= Grain * sums'
    BY DEF HistoryExplainsBalances
  <2>1. balances'[a] = Loaded[a] /\ opening'[a] = Loaded[a] /\ Loaded[a] \in Int
    BY <1>3 DEF Start
  <2>2. PICK v : v = Loaded[a]
    OBVIOUS
  <2>3. v \in Int /\ 2 * Apart(v, v + 0) <= 0
    BY <2>1, <2>2 DEF Apart
  <2> QED BY <1>2, <1>g, <2>1, <2>2, <2>3
<1>5. Sum(Loaded) \in Int
  <2>1. Sum(Loaded) = Sums!Sum(Loaded, Addrs) /\ \A a \in Addrs : Loaded[a] \in Int
    BY <1>3, SumIs
  <2> QED BY <2>1, FiniteBridge, Sums!SumRemove, PoolAssumption DEF PoolAssumption
<1>6. total' = 0
  BY DEF Start, Books, DownForgets
<1>7. PayoutsAddUp'
  <2>1. Sum(balances') = Sum(Loaded) /\ loaded' = Sum(Loaded)
    BY DEF Start
  <2>2. PICK v : v = Sum(Loaded)
    OBVIOUS
  <2>3. 2 * Apart(v, v + 0) <= 0 /\ 2 * Apart(0, 0) <= 0
    BY <1>5, <2>2 DEF Apart
  <2> QED BY <1>6, <1>g, <2>1, <2>2, <2>3 DEF PayoutsAddUp
<1>8. OpeningType' /\ Numbered' /\ KeptApart' /\ DownForgets'
  BY <1>0, <1>1, <1>3, <1>5, FS_EmptySet
     DEF Start, OpeningType, Numbered, KeptApart, DownForgets
<1> QED BY <1>4, <1>7, <1>8 DEF Books

LEMMA NextBooks == Inv /\ Books /\ [Next]_vars => Books'
<1> SUFFICES ASSUME Inv, Books, [Next]_vars PROVE Books' OBVIOUS
<1>0. TypeOK /\ TypeOK'
  BY NextInv DEF Inv
<1>1. blockCount \in Nat /\ blockCount' \in Nat /\ blockCount <= blockCount
  BY <1>0 DEF TypeOK
<1>2. CASE UNCHANGED vars
  BY <1>0, <1>1, <1>2, BooksStand DEF vars
<1>3. CASE Cleanup \/ Tick \/ \E m \in Miners : RegisterMiner(m) \/ MinerKeepalive(m) \/ MinerExit(m)
  <2>1. UNCHANGED <<up, balances, total, mempool, blocks, opening, loaded, paid, sums, transfers, blockCount>>
    BY <1>3 DEF Cleanup, Tick, RegisterMiner, MinerKeepalive, MinerExit
  <2> QED BY <1>0, <1>1, <2>1, BooksStand
<1>4. CASE \E from, to \in Addrs, amount \in Amounts : SendTransaction(from, to, amount)
  BY <1>0, <1>4, SendBooks
<1>5. CASE Mine
  BY <1>0, <1>5, MineBooks
<1>6. CASE End
  BY <1>6, EndBooks
<1>7. CASE Start
  BY <1>0, <1>7, StartBooks
<1> QED BY <1>2, <1>3, <1>4, <1>5, <1>6, <1>7 DEF Next

(* The books of the pool are right for any miners, amounts, transfers, ends  *)
(* and failed saves.                                                         *)
THEOREM BooksHold == Spec => []Books
  BY InitBooks, NextBooks, InvHolds, PTL DEF Spec

(* What a client adds up from the blocks kept and the transfers pending is   *)
(* the balance the pool shows it but for half a grain for each sum made on   *)
(* balances since the start, also after blocks have dropped off.             *)
THEOREM HistoryExplainsBalancesCorrect == Spec => []HistoryExplainsBalances
<1>1. Books => HistoryExplainsBalances BY DEF Books
<1> QED BY <1>1, BooksHold, PTL

(* However many miners a reward is cut for, the balances are what was loaded *)
(* and the rewards of the blocks paid, and so is what getpoolstats counts,   *)
(* but for half a unit and half a grain for each sum; no transfer makes or   *)
(* loses more than it rounds.                                                *)
THEOREM PayoutsAddUpCorrect == Spec => []PayoutsAddUp
<1>1. Books => PayoutsAddUp BY DEF Books
<1> QED BY <1>1, BooksHold, PTL
=============================================================================
