------------------------------- MODULE DexEscrow ------------------------------
(***************************************************************************)
(* The cross-chain leg of the exchange.  A buyer locks tokens in the       *)
(* OmnibusDEX contract of an EVM chain; the node's watcher reads the       *)
(* events of the contracts; exchange_placeOrder accepts a bid that names   *)
(* an escrow the watcher holds open, matches it, moves OMNI and writes the *)
(* fill to a log; the settler thread, which takes no lock of the exchange, *)
(* sends settle() for every fill and keeps a cursor, an index and a settle *)
(* log on disk for a restart.  Book, fills and the watcher's map are in    *)
(* memory; the book is replayed from orders.jsonl, which names neither     *)
(* escrow nor EVM address.                                                 *)
(*                                                                         *)
(* One pair at one price, in units: an ask sells one unit, a bid buys any  *)
(* number its escrow covers, so the book matches first come, first served. *)
(* Coins are the ledger's: a transfer of OMNI succeeds or fails here.      *)
(***************************************************************************)
EXTENDS Integers, Sequences

CONSTANTS
  Escrows,      \* order ids in the contracts, chosen by their callers
  Chains,       \* EVM chains with a contract bound to the pair
  None,         \* no escrow, no chain
  First,        \* chain of the pair's first binding
  Size,         \* units the escrow of an order pays for
  Units,        \* units a bid may be for
  MaxFills,     \* max_fills of the matching engine
  MaxOrders,    \* bound: orders placed
  MaxBook,      \* bound: orders a replay of another book leaves on a side
  MaxRestarts,  \* bound: restarts of the node
  MaxMishaps    \* bound: failed writes and transfers, lost answers, and
                \* what the journal cannot replay

Orders == Chains \X Escrows
Ids == 1 .. MaxFills
Bid == [escrow : Escrows \union {None}, left : Nat \ {0}]
Fill == [tag : Nat, escrow : Escrows \union {None}, evm : BOOLEAN]
LogRecord == [tag : Nat, id : Ids, evm : BOOLEAN, chain : Chains \union {None}]

ASSUME DexAssumption ==
  /\ None \notin Escrows \union Chains
  /\ First \in Chains /\ Size \in [Orders -> Nat \ {0}] /\ Units \subseteq Nat \ {0}
  /\ MaxFills \in Nat /\ MaxOrders \in Nat /\ MaxBook \in Nat
  /\ MaxRestarts \in Nat /\ MaxMishaps \in Nat

VARIABLES
  order,     \* state of each order in its contract
  pending,   \* id of the settle() waiting to be mined on each chain, or None
  unread,    \* orders with an event the watcher has not read
  seen,      \* chain of each id getOpen of the watcher returns, or None
  bids,      \* bids in the book, oldest first
  asks,      \* asks of one unit, oldest first: does it name an EVM address?
  fills,     \* engine.fills: fill i has fill_id i
  busy,      \* is exchange_mutex held by a handler?
  fi,        \* fills that handler has gone through
  placed,    \* history: orders placed
  tags,      \* history: fills made by any engine
  matched,   \* history: ids with a fill
  moved,     \* history: escrows of the fills whose OMNI went to the buyer
  exact,     \* does orders.jsonl reproduce the book and the fills?
  log,       \* fills log on disk
  index,     \* last entry of the EVM index on disk for a fill id, or None
  recorded,  \* fill ids in the settle log on disk
  saved,     \* cursor on disk
  cursor,    \* last_settled_fill_id
  next,      \* next record of the log the startup replay looks at
  upTo,      \* records of the log it has read
  sent,      \* settler: load (its files), no, sent, recorded
  done,      \* history: fills whose settle was recorded
  mishaps,   \* history: counter of those
  restarts   \* history: restarts

evm == <<order, pending>>
watcher == <<unread, seen>>
book == <<bids, asks, fills, placed, tags, matched, exact>>
handler == <<busy, fi, moved>>
files == <<index, recorded, saved>>
settler == <<cursor, next, upTo, sent, done>>
counters == <<mishaps, restarts>>
vars == <<evm, watcher, book, handler, log, files, settler, counters>>

Init ==
  /\ order = [o \in Orders |-> "empty"] /\ pending = [c \in Chains |-> None]
  /\ unread = {} /\ seen = [e \in Escrows |-> None]
  /\ bids = << >> /\ asks = << >> /\ fills = << >> /\ placed = 0 /\ tags = 0
  /\ matched = {} /\ exact = TRUE /\ busy = FALSE /\ fi = 0 /\ moved = {}
  /\ log = << >> /\ index = [i \in Ids |-> None] /\ recorded = {} /\ saved = 0
  /\ cursor = 0 /\ next = 1 /\ upTo = 0 /\ sent = "load" /\ done = {}
  /\ mishaps = 0 /\ restarts = 0

Mishap == mishaps < MaxMishaps /\ mishaps' = mishaps + 1
Fault == Mishap /\ UNCHANGED restarts
Stray == Fault /\ exact' = FALSE

-----------------------------------------------------------------------------
(* The contracts and their chains. *)

(* placeBuyOrder and placeBuyOrderNative. *)
Lock(o) ==
  /\ order[o] = "empty"
  /\ order' = [order EXCEPT ![o] = "open"]
  /\ unread' = unread \union {o}
  /\ UNCHANGED <<pending, seen, book, handler, log, files, settler, counters>>

(* cancelOrder by the owner, and expireRefund by anyone: time is abstract. *)
Refund(o) ==
  /\ order[o] = "open"
  /\ order' = [order EXCEPT ![o] = "cancelled"]
  /\ unread' = unread \union {o}
  /\ UNCHANGED <<pending, seen, book, handler, log, files, settler, counters>>

(* settle: it pays, or it reverts because the order is not open here. *)
MineSettle(c) ==
  /\ pending[c] # None
  /\ pending' = [pending EXCEPT ![c] = None]
  /\ LET o == <<c, pending[c]>> IN
       IF order[o] = "open"
       THEN /\ order' = [order EXCEPT ![o] = "settled"]
            /\ unread' = unread \union {o}
       ELSE UNCHANGED <<order, unread>>
  /\ UNCHANGED <<seen, book, handler, log, files, settler, counters>>

(* A transaction leaves the chain's mempool without being mined. *)
DropSettle(c) ==
  /\ pending[c] # None
  /\ pending' = [pending EXCEPT ![c] = None]
  /\ UNCHANGED <<order, watcher, book, handler, log, files, settler, counters>>

-----------------------------------------------------------------------------
(* The watcher.  One map for all chains, keyed by the order id: an event of   *)
(* one chain replaces or closes what the map holds of another.  An answer     *)
(* that cannot be parsed loses its events, since the range is passed anyhow.  *)

ScanBinding(c) ==
  LET news == {o \in unread : o[1] = c} IN
    /\ news # {}
    /\ \E read \in SUBSET news :
         seen' = [e \in Escrows |->
                    IF <<c, e>> \notin read THEN seen[e]
                    ELSE IF order[<<c, e>>] = "open" THEN c ELSE None]
    /\ unread' = unread \ news
    /\ UNCHANGED <<evm, book, handler, log, files, settler, counters>>

-----------------------------------------------------------------------------
(* The matching engine. *)

Least(m, n) == IF m < n THEN m ELSE n
Room == MaxFills - Len(fills)

NewFill(k, escrow, ask) == [tag |-> tags + k, escrow |-> escrow, evm |-> ask]

Filled(new) ==
  /\ fills' = fills \o new
  /\ tags' = tags + Len(new)
  /\ matched' = matched \union ({new[k].escrow : k \in 1 .. Len(new)} \ {None})

(* matchBuyOrder; what is left goes into the book if that has room. *)
Buys(units) == Least(units, Least(Len(asks), Room))
Buy(e, units, roomy) ==
  LET n == Buys(units) IN
    /\ Filled([k \in 1 .. n |-> NewFill(k, e, asks[k])])
    /\ asks' = SubSeq(asks, n + 1, Len(asks))
    /\ bids' = IF n < units /\ roomy
               THEN Append(bids, [escrow |-> e, left |-> units - n]) ELSE bids

(* matchSellOrder. *)
Sell(ask) ==
  IF bids # << >> /\ Room > 0
  THEN /\ Filled(<<NewFill(1, bids[1].escrow, ask)>>)
       /\ bids' = IF bids[1].left = 1 THEN Tail(bids)
                  ELSE [bids EXCEPT ![1].left = @ - 1]
       /\ UNCHANGED asks
  ELSE /\ Filled(<< >>)
       /\ asks' = Append(asks, ask)
       /\ UNCHANGED bids

Without(side, i) == SubSeq(side, 1, i - 1) \o SubSeq(side, i + 1, Len(side))

-----------------------------------------------------------------------------
(* exchange_placeOrder and exchange_cancelOrder, under exchange_mutex. *)

(* A bid is refused unless the watcher holds an open escrow that covers it. *)
BackedBySize(e, units) == units <= Size[<<First, e>>]  \* mutant: no escrow asked for
Backed(e, units) == seen[e] # None /\ units <= Size[<<seen[e], e>>]

Accept ==
  /\ ~busy /\ placed < MaxOrders /\ placed' = placed + 1
  /\ UNCHANGED <<evm, watcher, moved, log, files, settler>>

(* The handler goes on with the fills from here. *)
Begin == busy' = TRUE /\ fi' = Len(fills) /\ UNCHANGED <<exact, counters>>

PlaceBid(e, units) ==
  /\ Accept /\ Backed(e, units)
  /\ Buy(e, units, TRUE) /\ Begin

PlaceAsk == Accept /\ Sell(TRUE) /\ Begin

(* OrderbookFull: the rest of a bid finds no room, and the fills it has made *)
(* stay with the engine, for the settler, but the handler returns.           *)
RefuseRest(e, units) ==
  /\ Accept /\ Backed(e, units)
  /\ Buys(units) < units
  /\ Buy(e, units, FALSE)
  /\ Stray /\ UNCHANGED <<busy, fi>>

(* The fills log records the chain the watcher holds the escrow open on. *)
Watched(e) == IF e = None THEN None ELSE seen[e]
Logged(f, id) ==
  log' = Append(log, [tag |-> f.tag, id |-> id, evm |-> f.evm, chain |-> Watched(f.escrow)])

(* One pass of the handler's loop: the transfer, then the fills log; either  *)
(* may fail and is only reported.                                            *)
BookFill ==
  /\ busy /\ fi < Len(fills)
  /\ LET f == fills[fi + 1] IN
       \/ moved' = moved \union {f.escrow} /\ Logged(f, fi + 1) /\ UNCHANGED counters
       \/ UNCHANGED moved /\ Logged(f, fi + 1) /\ Fault
       \/ moved' = moved \union {f.escrow} /\ UNCHANGED log /\ Fault
  /\ fi' = fi + 1
  /\ UNCHANGED <<evm, watcher, book, busy, files, settler>>

(* The order is journaled last, unless its transaction cannot be made or the *)
(* file cannot be written.                                                   *)
Journal ==
  /\ busy /\ fi = Len(fills)
  /\ busy' = FALSE
  /\ UNCHANGED <<exact, counters>> \/ Stray
  /\ UNCHANGED <<evm, watcher, bids, asks, fills, placed, tags, matched, fi, moved, log, files,
                 settler>>

(* Cancelling an order of the book does nothing to its escrow, nor the other *)
(* way round.                                                                *)
CancelOrder ==
  /\ ~busy
  /\ \/ /\ \E i \in 1 .. Len(bids) : bids' = Without(bids, i)
        /\ UNCHANGED asks
     \/ /\ \E i \in 1 .. Len(asks) : asks' = Without(asks, i)
        /\ UNCHANGED bids
  /\ UNCHANGED <<exact, counters>> \/ Stray
  /\ UNCHANGED <<evm, watcher, fills, placed, tags, matched, handler, log, files, settler>>

(* A grid's orders go to the engine past mutex, escrow check, log, transfer  *)
(* and journal; a handler at work takes their fills for its own.             *)
GridOrder ==
  /\ placed < MaxOrders /\ placed' = placed + 1
  /\ Stray
  /\ Buy(None, 1, TRUE) \/ Sell(FALSE)
  /\ UNCHANGED <<evm, watcher, handler, log, files, settler>>

(* Paper trading has an engine of its own with its own fill ids, but writes  *)
(* to the same fills log and the same journal.                               *)
PaperFill ==
  /\ ~busy /\ Stray
  /\ \E i \in Ids, e \in Escrows : Logged([tag |-> tags + 1, escrow |-> e, evm |-> TRUE], i)
  /\ tags' = tags + 1
  /\ UNCHANGED <<evm, watcher, bids, asks, fills, placed, matched, handler, files, settler>>

-----------------------------------------------------------------------------
(* The settler. *)

Replaying == next <= upTo
CurrentId == IF Replaying THEN log[next].id ELSE cursor + 1
CurrentTag == IF Replaying THEN log[next].tag ELSE fills[cursor + 1].tag

(* The startup replay reads its files, some time after the start. *)
LoadFiles ==
  /\ sent = "load" /\ sent' = "no"
  /\ next' = 1 /\ upTo' = Len(log)
  /\ UNCHANGED <<evm, watcher, book, handler, log, files, cursor, done, counters>>

(* saveCursor empties the file before it writes; its errors are dropped. *)
Pass(id) ==
  /\ cursor' = id
  /\ \/ saved' = id /\ UNCHANGED counters
     \/ saved' \in {saved, 0} /\ Fault

(* submitSettle: the nonce is the one of the latest block, so a settle that  *)
(* still waits on the chain is replaced.                                     *)
Target(e, otherwise) == IF seen[e] # None THEN seen[e] ELSE otherwise
Post(e, c) == pending' = [pending EXCEPT ![c] = e]

(* Records with nothing to send: settled already, of no chain the watcher    *)
(* knew, or without a seller's address.                                      *)
Undone == Replaying /\ sent = "no" /\ log[next].id > cursor
ReplayPass ==
  /\ Undone
  /\ \/ log[next].id \in recorded
     \/ log[next].chain = None
     \/ index[log[next].id] # None /\ ~log[next].evm
  /\ Pass(log[next].id)
  /\ next' = next + 1
  /\ UNCHANGED <<evm, watcher, book, handler, log, index, recorded, upTo, sent, done>>

(* Records passed over: already behind the cursor, or not in the EVM index. *)
ReplaySkip ==
  /\ Replaying /\ sent = "no"
  /\ \/ log[next].id <= cursor
     \/ /\ log[next].id \notin recorded /\ log[next].chain # None
        /\ index[log[next].id] = None
  /\ next' = next + 1
  /\ UNCHANGED <<evm, watcher, book, handler, log, files, cursor, upTo, sent, done, counters>>

(* Mutant: the replay does not read the settle log. *)
ReplayDueUnsettled ==
  Undone /\ log[next].chain # None /\ index[log[next].id] # None /\ log[next].evm
ReplayDue ==
  /\ Undone /\ log[next].id \notin recorded
  /\ log[next].chain # None /\ index[log[next].id] # None /\ log[next].evm

(* The node of the chain accepts the settle, though its answer may be lost;  *)
(* or it cannot be sent: "will retry next restart".                          *)
ReplaySend ==
  /\ ReplayDue
  /\ LET e == index[log[next].id] IN
       \/ Post(e, Target(e, log[next].chain)) /\ sent' = "sent" /\ UNCHANGED <<next, counters>>
       \/ Post(e, Target(e, log[next].chain)) /\ Fault /\ next' = next + 1 /\ UNCHANGED sent
       \/ next' = next + 1 /\ UNCHANGED <<pending, sent, counters>>
  /\ UNCHANGED <<order, watcher, book, handler, log, files, cursor, upTo, done>>

Scanning == ~Replaying /\ sent = "no" /\ cursor < Len(fills)

ScanPass ==
  /\ Scanning /\ fills[cursor + 1].escrow = None
  /\ Pass(cursor + 1)
  /\ UNCHANGED <<evm, watcher, book, handler, log, index, recorded, next, upTo, sent, done>>

(* appendEvmIndex, for every fill with an escrow, before anything else. *)
Indexed == index' = [index EXCEPT ![cursor + 1] = fills[cursor + 1].escrow]

ScanSend ==
  /\ Scanning
  /\ LET f == fills[cursor + 1] IN
       /\ f.escrow # None /\ f.evm
       /\ Post(f.escrow, Target(f.escrow, First))
       /\ \/ Indexed /\ sent' = "sent" /\ UNCHANGED counters
          \/ UNCHANGED index /\ sent' = "sent" /\ Fault
          \/ Indexed /\ UNCHANGED sent /\ Fault
  /\ UNCHANGED <<order, watcher, book, handler, log, recorded, saved, cursor, next, upTo, done>>

(* The scan goes no further: no seller's address, or the send failed. *)
ScanStops ==
  /\ Scanning /\ fills[cursor + 1].escrow # None
  /\ Indexed
  /\ UNCHANGED <<evm, watcher, book, handler, log, recorded, saved, settler, counters>>

(* A record that cannot be written is "non-fatal", and the cursor goes on. *)
RecordSettle ==
  /\ sent = "sent" /\ sent' = "recorded"
  /\ \/ recorded' = recorded \union {CurrentId} /\ done' = done \union {CurrentTag}
        /\ UNCHANGED counters
     \/ UNCHANGED <<recorded, done>> /\ Fault
  /\ UNCHANGED <<evm, watcher, book, handler, log, index, saved, cursor, next, upTo>>

AdvanceCursor ==
  /\ sent = "recorded" /\ sent' = "no"
  /\ Pass(CurrentId)
  /\ next' = IF Replaying THEN next + 1 ELSE next
  /\ UNCHANGED <<evm, watcher, book, handler, log, index, recorded, upTo, done>>

-----------------------------------------------------------------------------
(* The node stops, at any point, and starts again.  Orders and fills of the  *)
(* journal come back with the ids they had but neither escrow nor address;   *)
(* if the journal tells another story - paper orders, orders that were not   *)
(* journaled yet - so may book and number of fills.  The watcher forgets its  *)
(* orders and starts from one height for all chains.                         *)
Bare(n) == [i \in 1 .. n |-> [tag |-> 0, escrow |-> None, evm |-> FALSE]]

ReplayBook ==
  /\ fills' = Bare(Len(fills))
  /\ bids' = [i \in 1 .. Len(bids) |-> [bids[i] EXCEPT !.escrow = None]]
  /\ asks' = [i \in 1 .. Len(asks) |-> FALSE]

ReplayOtherBook ==
  /\ \E n \in 0 .. MaxFills : fills' = Bare(n)
  /\ \E n \in 0 .. MaxBook : bids' \in [1 .. n -> [escrow : {None}, left : Units]]
  /\ \E n \in 0 .. MaxBook : asks' = [i \in 1 .. n |-> FALSE]

Restart ==
  /\ restarts < MaxRestarts /\ restarts' = restarts + 1
  /\ IF busy THEN Mishap ELSE UNCHANGED mishaps
  /\ exact' = (exact /\ ~busy)
  /\ IF exact' THEN ReplayBook ELSE ReplayOtherBook
  /\ busy' = FALSE
  /\ seen' = [e \in Escrows |-> None]
  /\ unread' = {o \in Orders : order[o] # "empty"}
  /\ cursor' = saved /\ next' = 1 /\ upTo' = 0 /\ sent' = "load"
  /\ UNCHANGED <<evm, placed, tags, matched, fi, moved, log, files, done>>

Settler ==
  LoadFiles \/ ReplayPass \/ ReplaySkip \/ ReplaySend \/ ScanPass \/ ScanSend \/ ScanStops
  \/ RecordSettle \/ AdvanceCursor

Next ==
  \/ \E o \in Orders : Lock(o) \/ Refund(o)
  \/ \E c \in Chains : MineSettle(c) \/ DropSettle(c) \/ ScanBinding(c)
  \/ \E e \in Escrows, n \in Units : PlaceBid(e, n) \/ RefuseRest(e, n)
  \/ PlaceAsk \/ BookFill \/ Journal \/ CancelOrder \/ GridOrder \/ PaperFill
  \/ Settler
  \/ Restart

Spec == Init /\ [][Next]_vars

-----------------------------------------------------------------------------
TypeOK ==
  /\ order \in [Orders -> {"empty", "open", "settled", "cancelled"}]
  /\ pending \in [Chains -> Escrows \union {None}]
  /\ unread \subseteq Orders /\ seen \in [Escrows -> Chains \union {None}]
  /\ bids \in Seq(Bid) /\ asks \in Seq(BOOLEAN)
  /\ fills \in Seq(Fill) /\ Len(fills) <= MaxFills
  /\ busy \in BOOLEAN /\ fi \in Nat /\ placed \in Nat /\ tags \in Nat
  /\ matched \subseteq Escrows /\ moved \subseteq Escrows \union {None} /\ exact \in BOOLEAN
  /\ log \in Seq(LogRecord)
  /\ index \in [Ids -> Escrows \union {None}] /\ recorded \subseteq Ids
  /\ saved \in 0 .. MaxFills /\ cursor \in 0 .. MaxFills
  /\ upTo \in 0 .. Len(log) /\ next \in 1 .. upTo + 1
  /\ sent \in {"load", "no", "sent", "recorded"} /\ done \subseteq Nat
  /\ mishaps \in Nat /\ restarts \in Nat

(* Whatever is lost, repeated, replayed or confused, the tokens of an escrow *)
(* leave it once, and to a seller only after the order book - not the paper  *)
(* one - has matched a bid that names its id.                                *)
E == INSTANCE Escrow WITH Ids <- Escrows, held <- order
EscrowKept == E!Spec

(* A fill whose settle is in the settle log is never sent again, though a    *)
(* restart may come between that record and the cursor, the cursor may not   *)
(* reach the disk, and log records of other engines may carry the same id.   *)
Sends ==
  \/ sent = "no" /\ sent' = "sent"
  \/ \E c \in Chains : pending'[c] \notin {pending[c], None}
NeverSentAgain == [][Sends => CurrentTag \notin done]_vars

(* "Refuse unbacked orders up front": OMNI moves only for a fill that has an *)
(* escrow to pay its seller.                                                 *)
MovesAreBacked == None \notin moved

(* "One-time startup replay: re-settle any fills matched before last crash": *)
(* the settler passes a fill that can be settled only once it is settled.    *)
PassedMeansSent ==
  \A k \in 1 .. Len(log) :
    log[k].chain # None /\ log[k].evm /\ log[k].id <= cursor => log[k].tag \in done
===============================================================================
