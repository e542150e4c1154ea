-------------------------------- MODULE Store --------------------------------
(***************************************************************************)
(* The chainstate store: core/store/wal.zig (write-ahead log), core/store  *)
(* /kv.zig (memtable, snapshot, checkpoint), core/store/chainstate.zig     *)
(* (balances by address), and its only writers, the initial sync of        *)
(* core/node/db_setup.zig and the audit of core/node/mining_telemetry.zig. *)
(*                                                                         *)
(* All of them run on the main thread, so that the only thing that comes   *)
(* between two steps of an operation is the end of the process.  Other     *)
(* threads change bc.balances meanwhile: the iterator takes no mutex.      *)
(*                                                                         *)
(* A record that is written in part stops every later replay at its place: *)
(* its length reaches into what is appended behind it and the checksum     *)
(* fails.  The log is therefore the sequence of the records that a replay  *)
(* reads, and a flag that a broken one follows; records behind it are not  *)
(* kept.  A zero balance is stored as the absence of an entry.             *)
(***************************************************************************)
EXTENDS Integers, Sequences

CONSTANTS
  Addresses,
  MaxBalance,
  MaxChanges,  \* bound: changes of bc.balances
  MaxFailures  \* bound: ends of the process and failed writes

ASSUME StoreAssumption ==
  /\ Addresses # {}
  /\ MaxBalance \in Nat /\ MaxChanges \in Nat /\ MaxFailures \in Nat

Balance == 0 .. MaxBalance
Map == [Addresses -> Balance]
Record == [key : Addresses, value : Balance]

VARIABLES
  snap,     \* the entries of the .snap file; none while there is no file
  log,      \* the records of the .wal file up to its end or a broken one
  torn,     \* a broken record follows
  mem,      \* the memtable
  pc,       \* "down"; "sync": between two puts; "put": the record is being
            \* written; "logged": it is, and the memtable is not updated;
            \* "renamed": the new snapshot is in place; "idle"
  op,       \* the put under way
  todo,     \* addresses the iterator has not reached
  pass,     \* what the iterator runs for, see Passes
  ram,      \* bc.balances, with entries for some of the addresses
  moved,    \* addresses whose balance changed since the iterator started
  rehashed, \* entries came or went since then
  changes, failures

disk == <<snap, log, torn>>
bounds == <<changes, failures>>
vars == <<snap, log, torn, mem, pc, op, todo, pass, ram, moved, rehashed, rehashed, changes,
          failures>>

\* The initial sync puts every balance, the audit those that differ, and a
\* graceful shutdown none.
Passes == {"initial", "audit", "shutdown"}

Balances == UNION {[S -> Balance] : S \in SUBSET Addresses}
Empty == [a \in Addresses |-> 0]

\* The replay of a log over the entries of a snapshot: the last record wins.
Written(l, a) == {i \in DOMAIN l : l[i].key = a}
LastOf(S) == CHOOSE i \in S : \A j \in S : j <= i
Replay(base, l) ==
  [a \in Addresses |->
     IF Written(l, a) = {} THEN base[a] ELSE l[LastOf(Written(l, a))].value]

\* What Kv.open would find now.
Recovered == Replay(snap, log)

NoOp == [key |-> CHOOSE a \in Addresses : TRUE, value |-> 0]

Init ==
  /\ snap = Empty /\ log = << >> /\ torn = FALSE
  /\ mem = Empty
  /\ pc = "down"
  /\ op = NoOp
  /\ todo = {}
  /\ pass = "initial"
  /\ ram \in Balances
  /\ moved = {} /\ rehashed = FALSE
  /\ changes = 0 /\ failures = 0
-----------------------------------------------------------------------------
(* Starting a pass over bc.balances *)

\* Mutant: the snapshot is not loaded.
OpenWithoutSnapshot ==
  /\ pc = "down"
  /\ mem' = Replay(Empty, log)
  /\ pc' = "sync" /\ pass' = "initial"
  /\ todo' = DOMAIN ram /\ moved' = {} /\ rehashed' = FALSE
  /\ UNCHANGED <<disk, op, ram, bounds>>

\* Kv.open and the start of the initial sync.
Open ==
  /\ pc = "down"
  /\ mem' = Recovered
  /\ pc' = "sync" /\ pass' = "initial"
  /\ todo' = DOMAIN ram /\ moved' = {} /\ rehashed' = FALSE
  /\ UNCHANGED <<disk, op, ram, bounds>>

\* maybeAuditChainstate, once a minute.
Audit ==
  /\ pc = "idle"
  /\ pc' = "sync" /\ pass' = "audit"
  /\ todo' = DOMAIN ram /\ moved' = {} /\ rehashed' = FALSE
  /\ UNCHANGED <<disk, mem, op, ram, bounds>>

\* Mutant: an address that went down to zero is skipped.
DiffersUnlessZero(a) == ram[a] # 0 /\ ram[a] # mem[a]
Differs(a) == pass = "initial" \/ ram[a] # mem[a]

\* The iterator reaches an entry.  One that was removed meanwhile is not met.
Visit(a) ==
  /\ pc = "sync" /\ a \in todo
  /\ todo' = todo \ {a}
  /\ IF a \in DOMAIN ram /\ Differs(a)
     THEN pc' = "put" /\ op' = [key |-> a, value |-> ram[a]]
     ELSE UNCHANGED <<pc, op>>
  /\ UNCHANGED <<disk, mem, pass, ram, moved, rehashed, bounds>>

\* A table that grew under the iterator loses entries for it.
Miss(a) ==
  /\ pc = "sync" /\ a \in todo /\ rehashed
  /\ todo' = todo \ {a}
  /\ UNCHANGED <<disk, mem, pc, op, pass, ram, moved, rehashed, bounds>>

\* runGracefulShutdown checkpoints what the store holds.
Shutdown ==
  /\ pc = "idle"
  /\ pc' = "sync" /\ pass' = "shutdown"
  /\ UNCHANGED <<disk, mem, op, todo, ram, moved, rehashed, bounds>>
-----------------------------------------------------------------------------
(* A put: ChainState.putBalance, Kv.put or Kv.delete, Wal.appendRecord *)

\* Mutant: the memtable is updated and nothing is logged.
AppendNothing ==
  /\ pc = "put"
  /\ pc' = "logged"
  /\ UNCHANGED <<disk, mem, op, todo, pass, ram, moved, rehashed, bounds>>

\* The last of the four writes of appendRecord, and the fsync.
AppendRecord ==
  /\ pc = "put"
  /\ log' = IF torn THEN log ELSE Append(log, op)
  /\ pc' = "logged"
  /\ UNCHANGED <<snap, torn, mem, op, todo, pass, ram, moved, rehashed, bounds>>

\* One of the writes fails (a full disk).  The caller ignores the error.
AppendFails ==
  /\ pc = "put" /\ failures < MaxFailures
  /\ failures' = failures + 1
  /\ torn' \in {torn, TRUE}
  /\ pc' = "sync" /\ op' = NoOp
  /\ UNCHANGED <<snap, log, mem, todo, pass, ram, moved, rehashed, changes>>

PutMemtable ==
  /\ pc = "logged"
  /\ mem' = [mem EXCEPT ![op.key] = op.value]
  /\ pc' = "sync" /\ op' = NoOp
  /\ UNCHANGED <<disk, todo, pass, ram, moved, rehashed, bounds>>
-----------------------------------------------------------------------------
(* The end of a pass.  Kv.checkpoint builds the snapshot in memory, writes   *)
(* it to a file that no start reads, and renames that.                       *)

EndInitialSync ==
  /\ pc = "sync" /\ todo = {} /\ pass = "initial"
  /\ pc' = "idle"
  /\ UNCHANGED <<disk, mem, op, todo, pass, ram, moved, rehashed, bounds>>

\* Mutant: the log is cut before the snapshot is in place.
TruncateFirst ==
  /\ pc = "sync" /\ todo = {} /\ pass # "initial"
  /\ log' = << >> /\ torn' = FALSE
  /\ pc' = "renamed"
  /\ UNCHANGED <<snap, mem, op, todo, pass, ram, moved, rehashed, bounds>>

RenameSnapshot ==
  /\ pc = "sync" /\ todo = {} /\ pass # "initial"
  /\ snap' = mem
  /\ pc' = "renamed"
  /\ UNCHANGED <<log, torn, mem, op, todo, pass, ram, moved, rehashed, bounds>>

AfterCheckpoint == IF pass = "shutdown" THEN "down" ELSE "idle"

TruncateLog ==
  /\ pc = "renamed"
  /\ log' = << >> /\ torn' = FALSE
  /\ pc' = AfterCheckpoint
  /\ UNCHANGED <<snap, mem, op, todo, pass, ram, moved, rehashed, bounds>>

\* An error from the file system ends the checkpoint before or after the
\* rename; it is logged.
CheckpointFails ==
  /\ \/ pc = "sync" /\ todo = {} /\ pass # "initial"
     \/ pc = "renamed"
  /\ failures < MaxFailures
  /\ failures' = failures + 1
  /\ pc' = AfterCheckpoint
  /\ UNCHANGED <<disk, mem, op, todo, pass, ram, moved, rehashed, changes>>
-----------------------------------------------------------------------------
(* Around the store *)

\* A block, an RPC or a reorg changes balances: entries come, change and, in
\* recalculateFromHeight, go.
ChangeBalances ==
  /\ changes < MaxChanges
  /\ changes' = changes + 1
  /\ ram' \in Balances \ {ram}
  /\ moved' = moved \cup
       {a \in DOMAIN ram \cap DOMAIN ram' : ram[a] # ram'[a]}
  /\ rehashed' = (rehashed \/ DOMAIN ram # DOMAIN ram')
  /\ UNCHANGED <<disk, mem, pc, op, todo, pass, failures>>

\* The process ends, and with it a record that is being written.  The next
\* start restores the chain that was saved last and rebuilds bc.balances.
Crash ==
  /\ pc # "down" /\ failures < MaxFailures
  /\ failures' = failures + 1
  /\ pc' = "down"
  /\ torn' \in IF pc = "put" THEN {torn, TRUE} ELSE {torn}
  /\ ram' \in Balances
  /\ mem' = Empty /\ op' = NoOp
  /\ pass' = "initial" /\ todo' = {} /\ moved' = {} /\ rehashed' = FALSE
  /\ UNCHANGED <<snap, log, changes>>

Next ==
  \/ Open
  \/ Audit
  \/ Shutdown
  \/ \E a \in Addresses : Visit(a) \/ Miss(a)
  \/ AppendRecord
  \/ AppendFails
  \/ PutMemtable
  \/ EndInitialSync
  \/ RenameSnapshot
  \/ TruncateLog
  \/ CheckpointFails
  \/ ChangeBalances
  \/ Crash

Spec == Init /\ [][Next]_vars
-----------------------------------------------------------------------------
TypeOK ==
  /\ snap \in Map /\ mem \in Map
  /\ log \in Seq(Record) /\ torn \in BOOLEAN
  /\ pc \in {"down", "sync", "put", "logged", "renamed", "idle"}
  /\ op \in Record
  /\ todo \subseteq Addresses /\ moved \subseteq Addresses
  /\ pass \in Passes /\ rehashed \in BOOLEAN
  /\ DOMAIN ram \subseteq Addresses /\ ram \in [DOMAIN ram -> Balance]
  /\ changes \in 0 .. MaxChanges /\ failures \in 0 .. MaxFailures

\* The memtable, with the put that is already logged.
Promised ==
  IF pc = "logged" THEN [mem EXCEPT ![op.key] = op.value] ELSE mem

\* "Once this returns OK, the change survives a crash" (wal.zig, appendPut):
\* whenever the process ends, the next start finds what the store held, as
\* long as no record was written in part since the log was cut last, by a
\* process that ended or by a write that failed.
DurableUnlessTorn == pc # "down" /\ ~torn => Recovered = Promised

\* What the next start finds changes only when a record is logged, and then
\* by that record: neither a checkpoint, whole or interrupted at any point,
\* nor the end of a process undoes or brings back a put.
RestartStep ==
  Recovered' # Recovered /\ ~torn =>
    /\ pc = "put" /\ pc' = "logged"
    /\ Recovered' = [Recovered EXCEPT ![op.key] = op.value]
RestartsAgree == [][RestartStep]_vars

\* When an audit ends, the snapshot has each balance that nobody moved while
\* it ran, zeros too, unless a write failed or the table was rehashed.
AuditCoversBalances ==
  pc = "renamed" /\ pass = "audit" /\ failures = 0 /\ ~rehashed =>
    \A a \in DOMAIN ram \ moved : snap[a] = ram[a]
=============================================================================
