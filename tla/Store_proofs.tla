---------------------------- MODULE Store_proofs ----------------------------
(***************************************************************************)
(* What holds of the chainstate store for every set of addresses, every    *)
(* number of records, failures and restarts.  The facts about Replay rest  *)
(* on the last record of an address being well defined, which is the       *)
(* well-foundedness of < on the distances from the end of the log.         *)
(***************************************************************************)
EXTENDS Store, WellFoundedInduction, TLAPS

\* The inductive invariant: a snapshot that was just renamed is the memtable,
\* and as long as no record is torn the files hold what the store promises.
IInv ==
  /\ TypeOK
  /\ pc = "renamed" => snap = mem
  /\ DurableUnlessTorn
-----------------------------------------------------------------------------
(* Replaying a log *)

LEMMA HasMinimum ==
  ASSUME NEW S, S \subseteq Nat, S # {}
  PROVE  \E i \in S : \A j \in S : i <= j
<1>1. \E i \in S : \A j \in S : ~ (<<j, i>> \in OpToRel(<, Nat))
  BY NatLessThanWellFounded, WFMin, Zenon
<1>2. \A i, j \in Nat : j < i => <<j, i>> \in OpToRel(<, Nat)
  BY Zenon DEF OpToRel
<1>3. \E i \in S : \A j \in S : ~ (j < i)
  BY <1>1, <1>2, Zenon
<1> QED
  BY <1>3

\* The last of some places of a log is one of them, and none is behind it.
LEMMA LastOfFacts ==
  ASSUME NEW n \in Nat, NEW S, S \subseteq 1 .. n, S # {}
  PROVE  LastOf(S) \in S /\ \A j \in S : j <= LastOf(S)
<1> DEFINE T == {n - i : i \in S}
<1>1. \A i \in S : i \in 1 .. n /\ n - i \in T /\ n - i \in Nat
  OBVIOUS
<1>2. T \subseteq Nat /\ T # {}
  BY <1>1
<1>3. \A t \in T : \E i \in S : t = n - i
  OBVIOUS
<1> HIDE DEF T
<1>4. PICK t \in T : \A u \in T : t <= u
  BY <1>2, HasMinimum
<1>5. PICK i \in S : t = n - i
  BY <1>3
<1>6. \A j \in S : j <= i
  <2> SUFFICES ASSUME NEW j \in S PROVE j <= i
    OBVIOUS
  <2>1. n - i <= n - j
    BY <1>1, <1>4, <1>5
  <2> QED
    BY <2>1, <1>1
<1> QED
  BY <1>6 DEF LastOf

LEMMA WrittenFacts ==
  ASSUME NEW l \in Seq(Record), NEW a
  PROVE  /\ Written(l, a) \subseteq 1 .. Len(l)
         /\ Written(l, a) # {} =>
              /\ LastOf(Written(l, a)) \in Written(l, a)
              /\ l[LastOf(Written(l, a))].key = a
              /\ l[LastOf(Written(l, a))].value \in Balance
<1>1. /\ Written(l, a) \subseteq 1 .. Len(l) /\ Len(l) \in Nat
      /\ \A i \in 1 .. Len(l) : l[i] \in Record
  BY DEF Written
<1>2. Written(l, a) # {} => LastOf(Written(l, a)) \in Written(l, a)
  BY <1>1, LastOfFacts
<1> QED
  BY <1>1, <1>2 DEF Written, Record

\* A replay yields balances.
LEMMA ReplayType ==
  ASSUME NEW base \in Map, NEW l \in Seq(Record)
  PROVE  Replay(base, l) \in Map
<1>1. \A a \in Addresses : base[a] \in Balance
  BY DEF Map
<1>2. \A a \in Addresses : Written(l, a) # {} => l[LastOf(Written(l, a))].value \in Balance
  BY WrittenFacts
<1> QED
  BY <1>1, <1>2 DEF Replay, Map

\* An empty log leaves the snapshot.
LEMMA ReplayEmpty ==
  ASSUME NEW base \in Map
  PROVE  Replay(base, << >>) = base
<1>1. \A a \in Addresses : Written(<< >>, a) = {}
  BY DEF Written
<1> QED
  BY <1>1 DEF Replay, Map

\* One more record changes the entry of its address and no other.
LEMMA ReplayAppend ==
  ASSUME NEW base \in Map, NEW l \in Seq(Record), NEW r \in Record
  PROVE  Replay(base, Append(l, r)) = [Replay(base, l) EXCEPT ![r.key] = r.value]
<1> DEFINE n == Len(l)
           ll == Append(l, r)
<1>1. n \in Nat /\ ll \in Seq(Record) /\ Len(ll) = n + 1 /\ ll[n + 1] = r
      /\ \A i \in 1 .. n : ll[i] = l[i]
  OBVIOUS
<1>2. ASSUME NEW a \in Addresses, a = r.key
      PROVE  Replay(base, ll)[a] = r.value
  <2>1. n + 1 \in Written(ll, a) /\ Written(ll, a) \subseteq 1 .. n + 1
    BY <1>1, <1>2 DEF Written
  <2>2. LastOf(Written(ll, a)) = n + 1
    BY <2>1, <1>1, LastOfFacts
  <2> QED
    BY <2>1, <2>2, <1>1 DEF Replay
<1>3. ASSUME NEW a \in Addresses, a # r.key
      PROVE  Replay(base, ll)[a] = Replay(base, l)[a]
  <2>1. Written(ll, a) = Written(l, a)
    BY <1>1, <1>3 DEF Written
  <2>2. Written(l, a) # {} => LastOf(Written(l, a)) \in 1 .. n
    BY WrittenFacts
  <2> QED
    BY <2>1, <2>2, <1>1 DEF Replay
<1>4. /\ Replay(base, ll) = [a \in Addresses |-> Replay(base, ll)[a]]
      /\ Replay(base, l) = [a \in Addresses |-> Replay(base, l)[a]]
  BY DEF Replay
<1> QED
  BY <1>2, <1>3, <1>4

\* A log that is replayed over its own result changes nothing: a checkpoint
\* that ends between the rename and the cut of the log is harmless.
LEMMA ReplayAgain ==
  ASSUME NEW base \in Map, NEW l \in Seq(Record)
  PROVE  Replay(Replay(base, l), l) = Replay(base, l)
  BY DEF Replay
-----------------------------------------------------------------------------
(* The invariant *)

LEMMA NoOpType == NoOp \in Record
  BY StoreAssumption DEF NoOp, Record, Balance

LEMMA RamFacts ==
  ASSUME TypeOK
  PROVE  /\ DOMAIN ram \subseteq Addresses
         /\ \A a \in DOMAIN ram : ram[a] \in Balance
  BY DEF TypeOK

LEMMA BalancesFacts ==
  ASSUME NEW r \in Balances
  PROVE  DOMAIN r \subseteq Addresses /\ r \in [DOMAIN r -> Balance]
  BY DEF Balances

LEMMA InitHolds == Init => IInv
<1> SUFFICES ASSUME Init PROVE IInv
  OBVIOUS
<1>1. Empty \in Map
  BY StoreAssumption DEF Empty, Map, Balance
<1>2. DOMAIN ram \subseteq Addresses /\ ram \in [DOMAIN ram -> Balance]
  BY BalancesFacts DEF Init
<1>3. log \in Seq(Record) /\ changes \in 0 .. MaxChanges /\ failures \in 0 .. MaxFailures
  BY StoreAssumption DEF Init
<1>4. TypeOK
  BY <1>1, <1>2, <1>3, NoOpType DEF Init, TypeOK, Passes
<1> QED
  BY <1>4 DEF Init, IInv, DurableUnlessTorn

\* What each step does to the files, in terms of the next start.
LEMMA StepTypes == IInv /\ [Next]_vars => TypeOK'
<1> SUFFICES ASSUME TypeOK, [Next]_vars PROVE TypeOK'
  BY DEF IInv
<1> USE DEF TypeOK, disk, bounds
<1>1. CASE Open
  BY <1>1, ReplayType DEF Open, Recovered, Passes
<1>2. CASE Audit
  BY <1>2 DEF Audit, Passes
<1>3. CASE Shutdown
  BY <1>3 DEF Shutdown, Passes
<1>4. ASSUME NEW a \in Addresses, Visit(a) PROVE TypeOK'
  BY <1>4, RamFacts DEF Visit, Record
<1>5. ASSUME NEW a \in Addresses, Miss(a) PROVE TypeOK'
  BY <1>5 DEF Miss
<1>6. CASE AppendRecord
  BY <1>6 DEF AppendRecord
<1>7. CASE AppendFails
  <2>1. torn' \in BOOLEAN
    BY <1>7, Zenon DEF AppendFails
  <2>2. failures' \in 0 .. MaxFailures
    BY <1>7, StoreAssumption DEF AppendFails
  <2> QED
    BY <1>7, <2>1, <2>2, NoOpType DEF AppendFails
<1>8. CASE PutMemtable
  BY <1>8, NoOpType DEF PutMemtable, Map, Record
<1>9. CASE EndInitialSync
  BY <1>9 DEF EndInitialSync
<1>10. CASE RenameSnapshot
  BY <1>10 DEF RenameSnapshot
<1>11. CASE TruncateLog
  <2>1. log' \in Seq(Record)
    BY <1>11 DEF TruncateLog
  <2>2. torn' \in BOOLEAN
    BY <1>11, Zenon DEF TruncateLog
  <2> QED
    BY <1>11, <2>1, <2>2 DEF TruncateLog, AfterCheckpoint
<1>12. CASE CheckpointFails
  BY <1>12, StoreAssumption DEF CheckpointFails, AfterCheckpoint
<1>13. CASE ChangeBalances
  <2>1. DOMAIN ram' \subseteq Addresses /\ ram' \in [DOMAIN ram' -> Balance]
    BY <1>13, BalancesFacts DEF ChangeBalances
  <2>2. moved' \subseteq Addresses /\ rehashed' \in BOOLEAN
    BY <1>13, <2>1 DEF ChangeBalances
  <2>3. changes' \in 0 .. MaxChanges
    BY <1>13, StoreAssumption DEF ChangeBalances
  <2> QED
    BY <1>13, <2>1, <2>2, <2>3 DEF ChangeBalances
<1>14. CASE Crash
  <2>1. DOMAIN ram' \subseteq Addresses /\ ram' \in [DOMAIN ram' -> Balance]
    BY <1>14, BalancesFacts DEF Crash
  <2>2. mem' \in Map /\ op' \in Record
    BY <1>14, NoOpType, StoreAssumption DEF Crash, Empty, Map, Balance
  <2>3. failures' \in 0 .. MaxFailures
    BY <1>14, StoreAssumption DEF Crash
  <2>4. torn' \in BOOLEAN
    BY <1>14, Zenon DEF Crash
  <2> QED
    BY <1>14, <2>1, <2>2, <2>3, <2>4 DEF Crash, Passes
<1>15. CASE UNCHANGED vars
  BY <1>15 DEF vars
<1> QED
  BY <1>1, <1>2, <1>3, <1>4, <1>5, <1>6, <1>7, <1>8, <1>9, <1>10, <1>11, <1>12,
     <1>13, <1>14, <1>15 DEF Next

\* What a step does to the outcome of the next start: it logs the put under
\* way, or it leaves the outcome as it is.
LEMMA StepRecovers == IInv /\ [Next]_vars => RestartStep
<1> SUFFICES ASSUME IInv, [Next]_vars PROVE RestartStep
  OBVIOUS
<1> USE DEF RestartStep, Recovered, disk
<1>1. TypeOK
  BY DEF IInv
<1>2. CASE AppendRecord
  <2>1. ~torn => Recovered' = Replay(snap, Append(log, op))
    BY <1>2 DEF AppendRecord
  <2> QED
    BY <1>1, <1>2, <2>1, ReplayAppend DEF AppendRecord, TypeOK
<1>3. CASE RenameSnapshot
  <2>1. ~torn => mem = Recovered
    BY <1>3 DEF RenameSnapshot, IInv, DurableUnlessTorn, Promised
  <2>2. Recovered' = Replay(mem, log)
    BY <1>3 DEF RenameSnapshot
  <2> QED
    BY <1>1, <2>1, <2>2, ReplayAgain DEF TypeOK
<1>4. CASE TruncateLog
  <2>1. snap = mem /\ (~torn => Recovered = mem)
    BY <1>4 DEF TruncateLog, IInv, DurableUnlessTorn, Promised
  <2>2. Recovered' = Replay(snap, << >>)
    BY <1>4 DEF TruncateLog
  <2> QED
    BY <1>1, <2>1, <2>2, ReplayEmpty DEF TypeOK
<1>5. CASE UNCHANGED <<snap, log>>
  BY <1>5
<1>6. AppendRecord \/ RenameSnapshot \/ TruncateLog \/ UNCHANGED <<snap, log>>
  BY DEF Next, vars, Open, Audit, Shutdown, Visit, Miss, AppendFails, PutMemtable,
     EndInitialSync, CheckpointFails, ChangeBalances, Crash
<1> QED
  BY <1>2, <1>3, <1>4, <1>5, <1>6

LEMMA StepInv == IInv /\ [Next]_vars => IInv'
<1> SUFFICES ASSUME IInv, [Next]_vars PROVE IInv'
  OBVIOUS
<1> USE DEF IInv, DurableUnlessTorn, Promised, disk, bounds
<1>1. TypeOK'
  BY StepTypes
<1>2. TypeOK /\ Recovered \in Map
  BY ReplayType DEF TypeOK, Recovered
<1> SUFFICES /\ (pc = "renamed" => snap = mem)'
             /\ DurableUnlessTorn'
  BY <1>1
<1>3. CASE Open
  BY <1>3 DEF Open, Recovered
<1>4. CASE Audit
  BY <1>4 DEF Audit, Recovered
<1>5. CASE Shutdown
  BY <1>5 DEF Shutdown, Recovered
<1>6. ASSUME NEW a \in Addresses, Visit(a) \/ Miss(a)
      PROVE  (pc = "renamed" => snap = mem)' /\ DurableUnlessTorn'
  BY <1>6 DEF Visit, Miss, Recovered
<1>7. CASE AppendRecord
  <2>1. ~torn => Recovered' = [Recovered EXCEPT ![op.key] = op.value]
    BY <1>2, <1>7, ReplayAppend DEF AppendRecord, Recovered, TypeOK
  <2>2. ~torn => Recovered = mem
    BY <1>7 DEF AppendRecord
  <2>3. UNCHANGED <<torn, mem, op>> /\ pc' = "logged"
    BY <1>7 DEF AppendRecord
  <2> QED
    BY <2>1, <2>2, <2>3
<1>8. CASE AppendFails
  <2>1. ~torn' => ~torn
    BY <1>8, Zenon DEF AppendFails
  <2>2. pc = "put" /\ pc' = "sync" /\ UNCHANGED <<snap, log, mem>>
    BY <1>8 DEF AppendFails
  <2> QED
    BY <2>1, <2>2 DEF Recovered
<1>9. CASE PutMemtable
  BY <1>9 DEF PutMemtable, Recovered
<1>10. CASE EndInitialSync
  BY <1>10 DEF EndInitialSync, Recovered
<1>11. CASE RenameSnapshot
  <2>1. ~torn => mem = Recovered
    BY <1>11 DEF RenameSnapshot
  <2>2. Recovered' = Replay(mem, log) /\ UNCHANGED <<torn, mem>> /\ snap' = mem
        /\ pc' = "renamed"
    BY <1>11 DEF RenameSnapshot, Recovered
  <2> QED
    BY <1>2, <2>1, <2>2, ReplayAgain DEF TypeOK, Recovered
<1>12. CASE TruncateLog
  <2>1. Recovered' = Replay(snap, << >>) /\ snap = mem /\ UNCHANGED mem
        /\ pc' \in {"down", "idle"}
    BY <1>12 DEF TruncateLog, Recovered, AfterCheckpoint
  <2> QED
    BY <1>2, <2>1, ReplayEmpty DEF TypeOK
<1>13. CASE CheckpointFails
  BY <1>13 DEF CheckpointFails, AfterCheckpoint, Recovered
<1>14. CASE ChangeBalances
  BY <1>14 DEF ChangeBalances, Recovered
<1>15. CASE Crash
  BY <1>15 DEF Crash
<1>16. CASE UNCHANGED vars
  BY <1>16 DEF vars, Recovered
<1> QED
  BY <1>3, <1>4, <1>5, <1>6, <1>7, <1>8, <1>9, <1>10, <1>11, <1>12, <1>13, <1>14,
     <1>15, <1>16 DEF Next

\* The inductive invariant holds in every state of every execution.
THEOREM InvHolds == Spec => []IInv
  BY InitHolds, StepInv, PTL DEF Spec

\* Whenever the process ends, the next start finds every put that the store
\* accepted, unless a record was torn since the log was cut last.
THEOREM DurableUnlessTornCorrect == Spec => []DurableUnlessTorn
  BY InvHolds, PTL DEF IInv

\* The outcome of the next start changes by logged puts only: checkpoints that
\* are cut short anywhere neither undo a put nor bring one back.
THEOREM RestartsAgreeCorrect == Spec => RestartsAgree
<1>1. IInv /\ [Next]_vars => [RestartStep]_vars
  BY StepRecovers
<1> QED
  BY <1>1, InvHolds, PTL DEF Spec, RestartsAgree

\* What an audit that met no failure and no rehash has achieved so far: each
\* entry it has passed and nobody moved is in the memtable, or in the put
\* under way.
AuditInv ==
  pass = "audit" /\ failures = 0 /\ ~rehashed /\ pc \in {"sync", "put", "logged", "renamed"} =>
    /\ \A a \in DOMAIN ram \ (moved \cup todo) :
         IF pc \in {"put", "logged"} /\ op.key = a THEN op.value = ram[a] ELSE mem[a] = ram[a]
    /\ pc = "renamed" => todo = {}

LEMMA AuditStep == IInv /\ AuditInv /\ [Next]_vars => AuditInv'
<1> SUFFICES ASSUME IInv, AuditInv, [Next]_vars PROVE AuditInv'
  OBVIOUS
<1> USE DEF AuditInv, disk, bounds
<1>0. TypeOK
  BY DEF IInv
<1>1. CASE Open
  BY <1>1 DEF Open
<1>2. CASE Audit
  BY <1>2 DEF Audit
<1>3. CASE Shutdown
  BY <1>3 DEF Shutdown
<1>4. ASSUME NEW a \in Addresses, Visit(a) PROVE AuditInv'
  <2>1. CASE a \in DOMAIN ram /\ Differs(a)
    <3>1. /\ todo' = todo \ {a} /\ pc = "sync" /\ pc' = "put"
          /\ op' = [key |-> a, value |-> ram[a]]
          /\ UNCHANGED <<disk, mem, pass, ram, moved, rehashed, bounds>>
      BY <1>4, <2>1 DEF Visit
    <3> QED
      BY <3>1
  <2>2. CASE ~(a \in DOMAIN ram /\ Differs(a))
    <3>1. /\ todo' = todo \ {a} /\ pc = "sync" /\ pc' = pc /\ op' = op
          /\ UNCHANGED <<disk, mem, pass, ram, moved, rehashed, bounds>>
      BY <1>4, <2>2 DEF Visit
    <3>2. pass = "audit" /\ a \in DOMAIN ram => mem[a] = ram[a]
      BY <2>2 DEF Differs
    <3> QED
      BY <3>1, <3>2
  <2> QED
    BY <2>1, <2>2
<1>5. ASSUME NEW a \in Addresses, Miss(a) PROVE AuditInv'
  BY <1>5 DEF Miss
<1>6. CASE AppendRecord
  BY <1>6 DEF AppendRecord
<1>7. CASE AppendFails \/ CheckpointFails \/ Crash
  <2>1. failures' = failures + 1
    BY <1>7, Zenon DEF AppendFails, CheckpointFails, Crash
  <2>2. failures \in Nat
    BY <1>0, StoreAssumption DEF TypeOK
  <2> QED
    BY <2>1, <2>2
<1>8. CASE PutMemtable
  <2>1. mem' = [mem EXCEPT ![op.key] = op.value] /\ op.key \in Addresses /\ mem \in Map
        /\ DOMAIN ram \subseteq Addresses
    BY <1>0, <1>8 DEF PutMemtable, TypeOK, Record
  <2>2. \A a \in DOMAIN ram : mem'[a] = IF a = op.key THEN op.value ELSE mem[a]
    BY <2>1 DEF Map
  <2>3. pc = "logged" /\ pc' = "sync" /\ UNCHANGED <<disk, todo, pass, ram, moved, rehashed, bounds>>
    BY <1>8 DEF PutMemtable
  <2> QED
    BY <2>2, <2>3
<1>9. CASE EndInitialSync
  BY <1>9 DEF EndInitialSync
<1>10. CASE RenameSnapshot
  BY <1>10 DEF RenameSnapshot
<1>11. CASE TruncateLog
  BY <1>11 DEF TruncateLog, AfterCheckpoint
<1>12. CASE ChangeBalances
  <2>1. /\ moved' = moved \cup {a \in DOMAIN ram \cap DOMAIN ram' : ram[a] # ram'[a]}
        /\ rehashed' = (rehashed \/ DOMAIN ram # DOMAIN ram')
        /\ UNCHANGED <<disk, mem, pc, op, todo, pass, failures>>
    BY <1>12 DEF ChangeBalances
  <2>2. ~rehashed' => ~rehashed /\ DOMAIN ram = DOMAIN ram'
    BY <2>1, Zenon
  <2>3. \A a \in DOMAIN ram \cap DOMAIN ram' : a \notin moved' => a \notin moved /\ ram'[a] = ram[a]
    BY <2>1
  <2> QED
    BY <2>1, <2>2, <2>3
<1>13. CASE UNCHANGED vars
  BY <1>13 DEF vars
<1> QED
  BY <1>1, <1>2, <1>3, <1>4, <1>5, <1>6, <1>7, <1>8, <1>9, <1>10, <1>11, <1>12, <1>13 DEF Next

\* For every set of addresses and however balances change meanwhile, an audit
\* leaves a snapshot of each balance that nobody moved while it ran.
THEOREM AuditCoversBalancesCorrect == Spec => []AuditCoversBalances
<1>1. Init => AuditInv
  BY DEF Init, AuditInv
<1>2. IInv /\ AuditInv => AuditCoversBalances
  BY DEF IInv, AuditInv, AuditCoversBalances
<1> QED
  BY <1>1, <1>2, AuditStep, InvHolds, PTL DEF Spec

\* The files, the memtable and the state of an operation keep their types.
THEOREM TypeCorrect == Spec => []TypeOK
  BY InvHolds, PTL DEF IInv
=============================================================================
