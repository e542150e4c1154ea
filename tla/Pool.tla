-------------------------------- MODULE Pool --------------------------------
(***************************************************************************)
(* The mining pool of scripts/rpc-server.js and its miners,                *)
(* scripts/miner-client.js.  The pool is one process on one event loop, so *)
(* every handler and every timer callback is a step.  A miner registers    *)
(* once and then only sends keepalives; the pool pays a reward every two   *)
(* seconds in equal shares to the miners it holds active, and drops a      *)
(* miner it has not heard for Timeout periods.  Money moves when a         *)
(* transfer is accepted, not when a block confirms it, and balances.json   *)
(* is all that outlives the process.                                       *)
(*                                                                         *)
(* A period is the five seconds of the keepalive and cleanup timers.       *)
(*                                                                         *)
(* Amounts are the doubles of JavaScript.  A share is the quotient to the  *)
(* nearest unit, and a sum that reaches Exact has fewer digits left behind *)
(* the point: it comes out as the nearest multiple of Grain.  (Two sizes   *)
(* of numbers stand for the many that doubles have; ties round up here and *)
(* to the even neighbour there.)                                           *)
(***************************************************************************)
EXTENDS Integers, Sequences, FiniteSetsExt, SequencesExt, Functions

CONSTANTS
  Addrs,        \* addresses with a balance (sendtransaction asks for a prefix)
  Miners,       \* those a miner program runs for
  Reward,       \* reward of a block, in units of the last place of a share
  Exact,        \* a balance below it is kept to that place
  Grain,        \* and one above it as a multiple of this many units
  Timeout,      \* periods of silence a miner is forgiven
  Keep,         \* blocks kept in memory
  Amounts,      \* amounts of transfers
  MaxBlocks,    \* bound: blocks since a start
  MaxTransfers, \* bound: transfers accepted
  MaxEnds,      \* bound: ends of the process
  MaxFails      \* bound: saves that fail

System == "SYSTEM"   \* whom a reward comes from

ASSUME PoolAssumption ==
  /\ IsFiniteSet(Addrs)
  /\ System \notin Addrs
  /\ Miners \subseteq Addrs
  /\ Reward \in Nat
  /\ Exact \in Nat
  /\ Grain \in Nat \ {0}
  /\ Timeout \in Nat
  /\ Keep \in Nat \ {0}
  /\ Amounts \subseteq Nat
  /\ MaxBlocks \in Nat /\ MaxTransfers \in Nat /\ MaxEnds \in Nat /\ MaxFails \in Nat

VARIABLES
  up,         \* the pool's process runs
  quiet,      \* minerRegistry: periods since the last keepalive, or Unknown
  active,     \* activeMinerSet
  balances,   \* minerBalances; after an end, the last ones a client could read
  disk,       \* balances.json, or Torn
  saved,      \* the last saveBalances succeeded
  total,      \* balance: rewards paid since the start
  mempool,    \* mempoolTransactions
  blocks,     \* blockData: the transactions of each block
  blockCount,
  due,        \* the timers that have yet to fire in this period
  mining,     \* the miners whose program runs and sends keepalives
  opening,    \* history: the balances before the oldest transaction kept
  loaded,     \* history: the sum of the balances at the last start
  paid,       \* history: blocks since then that paid a reward
  sums,       \* history: additions and subtractions made on balances since then
  transfers,  \* history: transfers accepted
  ends,       \* history: ends of the process
  fails       \* history: saves that failed

vars == <<up, quiet, active, balances, disk, saved, total, mempool, blocks,
          blockCount, due, mining, opening, loaded, paid, sums, transfers, ends, fails>>

Unknown == -1
Torn == << >>  \* an empty file, which JSON.parse refuses
Timers == {"mine", "cleanup"}
Zero == [a \in Addrs |-> 0]

(* The whole number nearest to x / n, and the double that x is kept as. *)
Nearest(x, n) == (2 * x + n) \div (2 * n)
Rounded(x) == IF x < Exact THEN x ELSE Grain * Nearest(x, Grain)

Registered == {m \in Miners : quiet[m] # Unknown}

Tx == [id : Nat \X (Miners \cup {System}), from : Addrs \cup {System}, to : Addrs, amount : Nat]

Sum(b) == SumFunction(b)

(* What a set of transactions adds to the balance of an address. *)
Effect(t, a) ==
  (IF t.to = a THEN t.amount ELSE 0) - (IF t.from = a THEN t.amount ELSE 0)
Net(T, a) == SumFunction([t \in T |-> Effect(t, a)])

Transactions(s) == UNION {s[i] : i \in DOMAIN s}
History == mempool \cup Transactions(blocks)

Init ==
  /\ up = TRUE
  /\ quiet = [m \in Miners |-> Unknown]
  /\ active = {}
  /\ balances = Zero
  /\ disk = Zero
  /\ saved = TRUE
  /\ total = 0
  /\ mempool = {}
  /\ blocks = << >>
  /\ blockCount = 1
  /\ due = {}
  /\ mining = {}
  /\ opening = Zero
  /\ loaded = 0
  /\ paid = 0
  /\ sums = 0
  /\ transfers = 0
  /\ ends = 0
  /\ fails = 0

\* Mutant: the file is written before the balances change.
SaveBalancesFirst(b) ==
  \/ /\ disk' = balances
     /\ saved' = TRUE
     /\ UNCHANGED fails
  \/ /\ fails < MaxFails
     /\ disk' \in {disk, Torn}
     /\ saved' = FALSE
     /\ fails' = fails + 1

(* writeFileSync empties the file before it writes: one that fails, or a     *)
(* process that ends in it, leaves the old file or a torn one.  The handler  *)
(* carries on either way.                                                    *)
SaveBalances(b) ==
  \/ /\ disk' = b
     /\ saved' = TRUE
     /\ UNCHANGED fails
  \/ /\ fails < MaxFails
     /\ disk' \in {disk, Torn}
     /\ saved' = FALSE
     /\ fails' = fails + 1

(***************************************************************************)
(* The timers                                                              *)
(***************************************************************************)
Share == Nearest(Reward, Cardinality(active))
Payees == active \cap Registered
Shares == [i \in 1 .. Cardinality(Payees) |-> Share]

\* Mutant: every registered miner gets the share of an active one.
RewardedAll ==
  [a \in Addrs |-> IF a \in Registered THEN Rounded(balances[a] + Share) ELSE balances[a]]
Rewarded ==
  [a \in Addrs |-> IF a \in Payees THEN Rounded(balances[a] + Share) ELSE balances[a]]

(* The shares go into the total one by one. *)
Totalled == FoldLeft(LAMBDA t, x : Rounded(t + x), total, Shares)

Coinbases ==
  {[id |-> <<blockCount', m>>, from |-> System, to |-> m, amount |-> Share] : m \in Payees}

(* The block that falls off the end of the history. *)
PushBlock(b) ==
  IF Len(blocks) < Keep
  THEN /\ blocks' = Append(blocks, b)
       /\ UNCHANGED opening
  ELSE /\ blocks' = Append(Tail(blocks), b)
       /\ opening' = [a \in Addrs |-> opening[a] + Net(Head(blocks), a)]

Mine ==
  /\ up
  /\ blockCount < MaxBlocks
  /\ blockCount' = blockCount + 1
  /\ due' = due \ {"mine"}
  /\ IF active = {}
     THEN UNCHANGED <<balances, disk, saved, total, mempool, blocks, opening, paid, sums, fails>>
     ELSE /\ balances' = Rewarded
          /\ total' = Totalled
          /\ paid' = paid + 1
          /\ sums' = sums + Cardinality(Payees)
          /\ SaveBalances(Rewarded)
          /\ PushBlock(Coinbases \cup mempool)
          /\ mempool' = {}
  /\ UNCHANGED <<up, quiet, active, mining, loaded, transfers, ends>>

\* Mutant: a miner that is late by one period is left alone.
LateByTwo(m) == quiet[m] > Timeout + 1
Late(m) == quiet[m] > Timeout

Cleanup ==
  /\ up
  /\ "cleanup" \in due
  /\ active' = active \ {m \in Registered : Late(m)}
  /\ due' = due \ {"cleanup"}
  /\ UNCHANGED <<up, quiet, balances, disk, saved, total, mempool, blocks,
                 blockCount, mining, opening, loaded, paid, sums, transfers, ends, fails>>

(* A period ends once its timers have fired.  Silence is counted one period  *)
(* past the point where it stops to matter.                                  *)
Tick ==
  /\ up => due \subseteq (IF blockCount < MaxBlocks THEN {} ELSE {"mine"})
  /\ quiet' = [m \in Miners |->
       IF m \in Registered THEN Min({quiet[m] + 1, Timeout + 2}) ELSE Unknown]
  /\ due' = IF up THEN Timers ELSE {}
  /\ UNCHANGED <<up, active, balances, disk, saved, total, mempool, blocks,
                 blockCount, mining, opening, loaded, paid, sums, transfers, ends, fails>>

(***************************************************************************)
(* Calls of miners and wallets                                             *)
(***************************************************************************)
RegisterMiner(m) ==
  /\ up
  /\ m \notin mining
  /\ mining' = mining \cup {m}
  /\ quiet' = [quiet EXCEPT ![m] = 0]
  /\ active' = active \cup {m}
  /\ UNCHANGED <<up, balances, disk, saved, total, mempool, blocks, blockCount,
                 due, opening, loaded, paid, sums, transfers, ends, fails>>

\* Mutant: the time is set, the miner is not put back.
MinerKeepaliveOnlyTime(m) ==
  /\ up
  /\ m \in mining
  /\ m \in Registered
  /\ quiet' = [quiet EXCEPT ![m] = 0]
  /\ UNCHANGED <<up, active, balances, disk, saved, total, mempool, blocks,
                 blockCount, due, mining, opening, loaded, paid, sums, transfers, ends, fails>>

(* A keepalive of a miner the pool does not know gets success: false, which  *)
(* the miner does not look at.                                               *)
MinerKeepalive(m) ==
  /\ up
  /\ m \in mining
  /\ m \in Registered
  /\ quiet' = [quiet EXCEPT ![m] = 0]
  /\ active' = active \cup {m}
  /\ UNCHANGED <<up, balances, disk, saved, total, mempool, blocks, blockCount,
                 due, mining, opening, loaded, paid, sums, transfers, ends, fails>>

(* A miner that ends tells nobody. *)
MinerExit(m) ==
  /\ m \in mining
  /\ mining' = mining \ {m}
  /\ UNCHANGED <<up, quiet, active, balances, disk, saved, total, mempool,
                 blocks, blockCount, due, opening, loaded, paid, sums, transfers, ends, fails>>

\* Mutant: both balances are read before either is written.
MovedFromOld(from, to, amount) ==
  LET old == balances
  IN  [[old EXCEPT ![from] = Rounded(old[from] - amount)]
         EXCEPT ![to] = Rounded(old[to] + amount)]

Moved(from, to, amount) ==
  LET debited == [balances EXCEPT ![from] = Rounded(@ - amount)]
  IN  [debited EXCEPT ![to] = Rounded(@ + amount)]

Covered(from, amount) == amount > 0 /\ balances[from] >= amount

SendTransaction(from, to, amount) ==
  /\ up
  /\ transfers < MaxTransfers
  /\ Covered(from, amount)
  /\ mempool' = mempool \cup
       {[id |-> <<transfers, System>>, from |-> from, to |-> to, amount |-> amount]}
  /\ balances' = Moved(from, to, amount)
  /\ SaveBalances(Moved(from, to, amount))
  /\ transfers' = transfers + 1
  /\ sums' = sums + 2
  /\ UNCHANGED <<up, quiet, active, total, blocks, blockCount, due, mining,
                 opening, loaded, paid, ends>>

(***************************************************************************)
(* End and start of the process                                            *)
(***************************************************************************)
End ==
  /\ up
  /\ ends < MaxEnds
  /\ up' = FALSE
  /\ quiet' = [m \in Miners |-> Unknown]
  /\ active' = {}
  /\ total' = 0
  /\ mempool' = {}
  /\ blocks' = << >>
  /\ blockCount' = 1
  /\ due' = {}
  /\ paid' = 0
  /\ sums' = 0
  /\ ends' = ends + 1
  /\ UNCHANGED <<balances, disk, saved, mining, opening, loaded, transfers, fails>>

Loaded == IF disk = Torn THEN Zero ELSE disk

Start ==
  /\ ~up
  /\ up' = TRUE
  /\ balances' = Loaded
  /\ opening' = Loaded
  /\ loaded' = Sum(Loaded)
  /\ saved' = (disk # Torn)
  /\ UNCHANGED <<quiet, active, disk, total, mempool, blocks, blockCount, due,
                 mining, paid, sums, transfers, ends, fails>>

Next ==
  \/ Mine
  \/ Cleanup
  \/ Tick
  \/ \E m \in Miners : RegisterMiner(m) \/ MinerKeepalive(m) \/ MinerExit(m)
  \/ \E from, to \in Addrs, amount \in Amounts : SendTransaction(from, to, amount)
  \/ End
  \/ Start

Spec == Init /\ [][Next]_vars

(* A miner's program goes on sending keepalives, and they get through to a   *)
(* pool that runs.  Nothing is assumed of the pool's timers.                 *)
FairSpec == Spec /\ \A m \in Miners : WF_vars(MinerKeepalive(m))

-----------------------------------------------------------------------------
(* How far two numbers are apart. *)
Apart(x, y) == IF x >= y THEN x - y ELSE y - x

(* Types.  Balances never go below zero, and only registered miners are      *)
(* active (sendtransaction's balance check, registerminer, minerkeepalive).  *)
(* opening, loaded and sums are what two invariants below relate.            *)
TypeOK ==
  /\ up \in BOOLEAN
  /\ quiet \in [Miners -> Unknown .. Timeout + 2]
  /\ active \subseteq Registered
  /\ balances \in [Addrs -> Nat]
  /\ disk \in [Addrs -> Nat] \cup {Torn}
  /\ saved \in BOOLEAN
  /\ total \in Nat
  /\ mempool \subseteq Tx
  /\ blocks \in Seq(SUBSET Tx)
  /\ blockCount \in 1 .. MaxBlocks + 1
  /\ due \subseteq Timers
  /\ mining \subseteq Miners
  /\ paid \in Nat /\ sums \in Nat
  /\ transfers \in 0 .. MaxTransfers
  /\ ends \in 0 .. MaxEnds
  /\ fails \in 0 .. MaxFails

(* A miner that falls silent is paid for one period more than it is forgiven *)
(* at most: the cleanup that drops it runs every period, next to the mining  *)
(* timer and to keepalives that put it back.                                 *)
SilentMinersUnpaid == \A m \in active : quiet[m] <= Timeout + 1

(* The history a client reads (blocks kept and transfers pending) accounts   *)
(* for every balance, although money moves when a transfer is accepted and   *)
(* the transfer enters a block later, and old blocks are dropped.  What      *)
(* sendtransaction and the mining interval round is the only difference:     *)
(* half a grain for each sum since the start.                                *)
HistoryExplainsBalances ==
  up => \A a \in Addrs :
          2 * Apart(balances[a], opening[a] + Net(History, a)) <= Grain * sums

(* The rewards of the blocks paid since the start are what the balances have *)
(* grown by and what getpoolstats counts, for any number of active miners a  *)
(* reward is cut for, and transfers make no money, also one from an address  *)
(* to itself.  A share and its sum are off by half a unit and half a grain.  *)
PayoutsAddUp ==
  up => LET earned == Reward * paid
            slack == (Grain + 1) * sums
        IN  /\ 2 * Apart(Sum(balances), loaded + earned) <= slack
            /\ 2 * Apart(total, earned) <= slack

(* A start finds the balances clients saw last, unless the last save failed  *)
(* or was cut short.                                                         *)
RestartKeepsBalances == [][~up /\ up' /\ saved => balances' = balances]_vars

(* A miner whose program runs and that the pool has registered is active     *)
(* again and again, also after it was dropped for silence.                   *)
KnownMinerComesBack ==
  \A m \in Miners :
    m \in mining /\ m \in Registered ~> m \in active \/ m \notin mining \/ ~up
=============================================================================
