--------------------------- MODULE DexEscrow_proofs ---------------------------
(* Proofs about DexEscrow, for every number of escrows, chains, orders,      *)
(* fills, failures and restarts: the escrow implements its abstract          *)
(* specification, and no settle in the settle log is sent again.             *)
EXTENDS DexEscrow, TLAPS

Locked(e) == \E c \in Chains : order[<<c, e>>] # "empty"

(* What names an escrow names one that was locked; what leads to a settle    *)
(* names one with a fill.                                                    *)
BookLocked ==
  /\ \A e \in Escrows : seen[e] # None => order[<<seen[e], e>>] # "empty"
  /\ \A i \in 1 .. Len(bids) : bids[i].escrow # None => Locked(bids[i].escrow)

SettlesMatched ==
  /\ \A i \in 1 .. Len(fills) : fills[i].escrow # None => fills[i].escrow \in matched
  /\ \A i \in Ids : index[i] # None => index[i] \in matched
  /\ \A c \in Chains : pending[c] # None => pending[c] \in matched

(* Fills of this run of the engine have tags of their own, those a replay    *)
(* made have none.                                                           *)
TagsBounded ==
  /\ \A i \in 1 .. Len(fills) : fills[i].tag <= tags
  /\ \A k \in 1 .. Len(log) : log[k].tag \in 1 .. tags
  /\ done \subseteq 1 .. tags

FillsTagged ==
  /\ \A i \in 1 .. Len(fills) : fills[i].escrow # None => fills[i].tag # 0
  /\ busy => \A i \in 1 .. Len(fills) : fi < i => fills[i].tag # 0
  /\ \A i, j \in 1 .. Len(fills) :
       fills[i].tag = fills[j].tag /\ fills[i].tag # 0 => i = j

(* Log records of one fill carry its id, whatever ids others carry.          *)
LogAgrees ==
  /\ \A i \in 1 .. Len(fills), k \in 1 .. Len(log) :
       fills[i].tag = log[k].tag => log[k].id = i
  /\ \A k, l \in 1 .. Len(log) : log[k].tag = log[l].tag => log[k].id = log[l].id

(* What is done is in the settle log, and behind the cursor or at hand.      *)
DoneRecorded ==
  /\ \A k \in 1 .. Len(log) : log[k].tag \in done => log[k].id \in recorded
  /\ \A i \in 1 .. Len(fills) : fills[i].tag \in done => i \in recorded

AtHand ==
  sent \in {"sent", "recorded"} =>
    /\ cursor < CurrentId
    /\ ~Replaying => cursor < Len(fills) /\ fills[cursor + 1].tag # 0

DonePassed ==
  \A i \in 1 .. Len(fills) :
    fills[i].tag \in done => i <= cursor \/ (sent = "recorded" /\ i = CurrentId)

Marks == TagsBounded /\ FillsTagged /\ LogAgrees /\ DoneRecorded /\ AtHand /\ DonePassed

Inv == TypeOK /\ BookLocked /\ SettlesMatched /\ Marks

-----------------------------------------------------------------------------
(* Facts about the data.                                                     *)

LEMMA Concat ==
  ASSUME NEW S, NEW s \in Seq(S), NEW t \in Seq(S)
  PROVE  s \o t \in Seq(S) /\ Len(s \o t) = Len(s) + Len(t)
  OBVIOUS

LEMMA ConcatAt ==
  ASSUME NEW S, NEW s \in Seq(S), NEW t \in Seq(S)
  PROVE  /\ \A i \in 1 .. Len(s) : (s \o t)[i] = s[i]
         /\ \A i \in 1 .. Len(t) : (s \o t)[Len(s) + i] = t[i]
  OBVIOUS

LEMMA Appended ==
  ASSUME NEW S, NEW s \in Seq(S), NEW x \in S
  PROVE  /\ Append(s, x) \in Seq(S) /\ Len(Append(s, x)) = Len(s) + 1
         /\ \A i \in 1 .. Len(s) : Append(s, x)[i] = s[i]
         /\ Append(s, x)[Len(s) + 1] = x
  OBVIOUS

LEMMA FunctionIsSeq ==
  ASSUME NEW S, NEW n \in Nat, NEW f \in [1 .. n -> S]
  PROVE  f \in Seq(S) /\ Len(f) = n
  OBVIOUS

LEMMA WithoutFacts ==
  ASSUME NEW S, NEW s \in Seq(S), NEW i \in 1 .. Len(s)
  PROVE  /\ Without(s, i) \in Seq(S)
         /\ \A j \in 1 .. Len(Without(s, i)) :
              \E k \in 1 .. Len(s) : Without(s, i)[j] = s[k]
  <1> DEFINE a == SubSeq(s, 1, i - 1)
  <1> DEFINE b == SubSeq(s, i + 1, Len(s))
  <1>1. a \in Seq(S) /\ Len(a) = i - 1 /\ \A j \in 1 .. i - 1 : a[j] = s[j]
    OBVIOUS
  <1>2. /\ b \in Seq(S) /\ Len(b) = Len(s) - i
        /\ \A j \in 1 .. Len(s) - i : b[j] = s[i + j]
    OBVIOUS
  <1>3. Without(s, i) = a \o b
    BY DEF Without
  <1> HIDE DEF a, b
  <1>4. Without(s, i) \in Seq(S) /\ Len(Without(s, i)) = Len(a) + Len(b)
    BY <1>1, <1>2, <1>3, Concat
  <1>5. ASSUME NEW j \in 1 .. Len(Without(s, i))
        PROVE  \E k \in 1 .. Len(s) : Without(s, i)[j] = s[k]
    <2>1. CASE j < i
      <3>1. j \in 1 .. Len(s) /\ Without(s, i)[j] = s[j]
        BY <1>1, <1>2, <1>3, <1>4, <2>1
      <3> QED BY <3>1
    <2>2. CASE j >= i
      <3>1. j + 1 \in 1 .. Len(s) /\ Without(s, i)[j] = s[j + 1]
        BY <1>1, <1>2, <1>3, <1>4, <2>2
      <3> QED BY <3>1
    <2> QED BY <1>1, <1>2, <1>4, <2>1, <2>2
  <1> QED BY <1>4, <1>5

(* Fields of fills and log records.                                          *)
LEMMA Fields ==
  ASSUME TypeOK
  PROVE  /\ Len(fills) \in Nat /\ Len(log) \in Nat /\ MaxFills \in Nat
         /\ Len(fills) <= MaxFills
         /\ \A i \in 1 .. Len(fills) :
              /\ fills[i] \in Fill /\ fills[i].tag \in Nat
              /\ fills[i].escrow \in Escrows \union {None} /\ fills[i].evm \in BOOLEAN
         /\ \A k \in 1 .. Len(log) :
              /\ log[k] \in LogRecord /\ log[k].tag \in Nat /\ log[k].id \in Ids
              /\ log[k].chain \in Chains \union {None}
  <1>1. /\ fills \in Seq(Fill) /\ log \in Seq(LogRecord) /\ MaxFills \in Nat
        /\ Len(fills) <= MaxFills
    BY DexAssumption DEF TypeOK
  <1>2. \A i \in 1 .. Len(fills) : fills[i] \in Fill
    BY <1>1
  <1>3. \A k \in 1 .. Len(log) : log[k] \in LogRecord
    BY <1>1
  <1>4. /\ \A f \in Fill : f.tag \in Nat /\ f.escrow \in Escrows \union {None} /\ f.evm \in BOOLEAN
        /\ \A r \in LogRecord : r.tag \in Nat /\ r.id \in Ids /\ r.chain \in Chains \union {None}
    BY DEF Fill, LogRecord
  <1> QED BY <1>1, <1>2, <1>3, <1>4

-----------------------------------------------------------------------------
(* The kinds of steps.                                                       *)
EvmStep ==
  \/ \E o \in Orders : Lock(o) \/ Refund(o)
  \/ \E c \in Chains : MineSettle(c) \/ DropSettle(c) \/ ScanBinding(c)

PlaceStep ==
  \/ \E e \in Escrows, n \in Units : PlaceBid(e, n) \/ RefuseRest(e, n)
  \/ PlaceAsk \/ GridOrder

LogStep == BookFill \/ PaperFill

LEMMA Steps ==
  ASSUME [Next]_vars
  PROVE  EvmStep \/ PlaceStep \/ LogStep \/ Journal \/ CancelOrder \/ Settler \/ Restart
         \/ UNCHANGED vars
  BY DEF Next, EvmStep, PlaceStep, LogStep

(* What each kind leaves alone.                                              *)
LEMMA EvmFrame ==
  ASSUME EvmStep
  PROVE  UNCHANGED <<bids, asks, fills, placed, tags, matched, exact, busy, fi, moved, log,
                     index, recorded, saved, cursor, next, upTo, sent, done, mishaps, restarts>>
  BY DEF EvmStep, Lock, Refund, MineSettle, DropSettle, ScanBinding, book, handler, files,
         settler, counters

LEMMA PlaceFrame ==
  ASSUME PlaceStep
  PROVE  UNCHANGED <<order, pending, unread, seen, moved, log, index, recorded, saved, cursor,
                     next, upTo, sent, done>>
  BY DEF PlaceStep, PlaceBid, RefuseRest, PlaceAsk, GridOrder, Accept, evm, watcher, handler,
         files, settler

LEMMA LogFrame ==
  ASSUME LogStep
  PROVE  UNCHANGED <<order, pending, unread, seen, bids, asks, fills, placed, matched, busy,
                     index, recorded, saved, cursor, next, upTo, sent, done>>
  BY DEF LogStep, BookFill, PaperFill, evm, watcher, book, handler, files, settler

LEMMA SettlerFrame ==
  ASSUME Settler
  PROVE  UNCHANGED <<order, unread, seen, bids, asks, fills, placed, tags, matched, exact, busy,
                     fi, moved, log>>
  BY DEF Settler, LoadFiles, ReplayPass, ReplaySkip, ReplaySend, ScanPass, ScanSend, ScanStops,
         RecordSettle, AdvanceCursor, evm, watcher, book, handler

LEMMA OrderFrame ==
  ASSUME Journal \/ CancelOrder
  PROVE  UNCHANGED <<order, pending, unread, seen, fills, placed, tags, matched, fi, moved, log,
                     index, recorded, saved, cursor, next, upTo, sent, done>>
  BY DEF Journal, CancelOrder, evm, watcher, handler, files, settler

LEMMA StutterFrame ==
  ASSUME UNCHANGED vars
  PROVE  UNCHANGED <<order, pending, unread, seen, bids, asks, fills, placed, tags, matched,
                     exact, busy, fi, moved, log, index, recorded, saved, cursor, next, upTo,
                     sent, done, mishaps, restarts>>
  BY DEF vars, evm, watcher, book, handler, files, settler, counters

LEMMA MishapFacts ==
  ASSUME TypeOK
  PROVE  /\ UNCHANGED counters => mishaps' \in Nat /\ restarts' \in Nat
         /\ Fault => mishaps' \in Nat /\ restarts' \in Nat
         /\ Stray => mishaps' \in Nat /\ restarts' \in Nat /\ exact' = FALSE
  BY DEF TypeOK, counters, Fault, Stray, Mishap
-----------------------------------------------------------------------------
(* What placing an order does to the engine: it adds fills for one escrow,   *)
(* which was locked, with new tags, and leaves no other escrow in the book.  *)
Traded(new, e) ==
  /\ new \in Seq(Fill) /\ Len(new) <= Room
  /\ e \in Escrows \union {None} /\ (e # None => Locked(e))
  /\ \A k \in 1 .. Len(new) : new[k].tag = tags + k /\ new[k].escrow = e
  /\ Filled(new)
  /\ asks' \in Seq(BOOLEAN) /\ bids' \in Seq(Bid)
  /\ \A i \in 1 .. Len(bids') :
       bids'[i].escrow = e \/ \E j \in 1 .. Len(bids) : bids'[i].escrow = bids[j].escrow

LEMMA BuyTrades ==
  ASSUME Inv, NEW e \in Escrows \union {None}, e # None => Locked(e),
         NEW units \in Nat \ {0}, NEW roomy \in BOOLEAN, Buy(e, units, roomy)
  PROVE  \E new \in Seq(Fill) : Traded(new, e)
  <1>1. /\ asks \in Seq(BOOLEAN) /\ bids \in Seq(Bid) /\ tags \in Nat
        /\ Len(fills) \in Nat /\ MaxFills \in Nat /\ Len(fills) <= MaxFills
        /\ Len(asks) \in Nat
    BY DexAssumption DEF Inv, TypeOK
  <1> DEFINE n == Buys(units)
  <1>2. n \in Nat /\ n <= Len(asks) /\ n <= Room /\ n <= units
    BY <1>1 DEF Buys, Least, Room
  <1> DEFINE new == [k \in 1 .. n |-> NewFill(k, e, asks[k])]
  <1>3. /\ Filled(new) /\ asks' = SubSeq(asks, n + 1, Len(asks))
        /\ bids' = IF n < units /\ roomy
                   THEN Append(bids, [escrow |-> e, left |-> units - n]) ELSE bids
    BY DEF Buy
  <1> HIDE DEF n
  <1>4. \A k \in 1 .. n : NewFill(k, e, asks[k]) \in Fill
    BY <1>1, <1>2 DEF NewFill, Fill
  <1>5. new \in [1 .. n -> Fill]
    BY <1>4
  <1>6. new \in Seq(Fill) /\ Len(new) = n
    BY <1>2, <1>5, FunctionIsSeq
  <1>7. \A k \in 1 .. Len(new) : new[k].tag = tags + k /\ new[k].escrow = e
    BY <1>6 DEF NewFill
  <1>8. asks' \in Seq(BOOLEAN)
    BY <1>1, <1>2, <1>3
  <1>9. /\ bids' \in Seq(Bid)
        /\ \A i \in 1 .. Len(bids') :
             bids'[i].escrow = e \/ \E j \in 1 .. Len(bids) : bids'[i].escrow = bids[j].escrow
    <2>1. CASE n < units /\ roomy
      <3> DEFINE rest == [escrow |-> e, left |-> units - n]
      <3>1. rest \in Bid
        BY <1>2, <2>1 DEF Bid
      <3>2. bids' = Append(bids, rest) /\ rest.escrow = e
        BY <1>3, <2>1
      <3> HIDE DEF rest
      <3>3. /\ bids' \in Seq(Bid) /\ Len(bids') = Len(bids) + 1
            /\ \A i \in 1 .. Len(bids) : bids'[i] = bids[i]
            /\ bids'[Len(bids) + 1] = rest
        BY <1>1, <3>1, <3>2, Appended
      <3>4. \A i \in 1 .. Len(bids') : i \in 1 .. Len(bids) \/ i = Len(bids) + 1
        BY <1>1, <3>3
      <3> QED BY <3>2, <3>3, <3>4
    <2>2. CASE ~(n < units /\ roomy)
      BY <1>1, <1>3, <2>2
    <2> QED BY <2>1, <2>2
  <1> HIDE DEF new
  <1>10. Traded(new, e)
    BY <1>2, <1>3, <1>6, <1>7, <1>8, <1>9 DEF Traded
  <1> QED BY <1>6, <1>10

LEMMA SellTrades ==
  ASSUME Inv, NEW ask \in BOOLEAN, Sell(ask)
  PROVE  \E new \in Seq(Fill), e \in Escrows \union {None} : Traded(new, e)
  <1>1. /\ asks \in Seq(BOOLEAN) /\ bids \in Seq(Bid) /\ tags \in Nat
        /\ Len(fills) \in Nat /\ MaxFills \in Nat /\ Len(fills) <= MaxFills
        /\ Len(bids) \in Nat
    BY DexAssumption DEF Inv, TypeOK
  <1>2. Room \in Nat
    BY <1>1 DEF Room
  <1>3. CASE bids # << >> /\ Room > 0
    <2>1. 1 \in 1 .. Len(bids) /\ bids[1] \in Bid
      BY <1>1, <1>3
    <2> DEFINE e == bids[1].escrow
    <2> DEFINE new == <<NewFill(1, e, ask)>>
    <2>2. e \in Escrows \union {None} /\ bids[1].left \in Nat \ {0}
      BY <2>1 DEF Bid
    <2>3. e # None => Locked(e)
      BY <2>1 DEF Inv, BookLocked
    <2>4. /\ Filled(new) /\ asks' = asks
          /\ bids' = IF bids[1].left = 1 THEN Tail(bids)
                     ELSE [bids EXCEPT ![1].left = @ - 1]
      BY <1>3 DEF Sell
    <2>5. NewFill(1, e, ask) \in Fill
      BY <1>1, <2>2 DEF NewFill, Fill
    <2>6. /\ new \in Seq(Fill) /\ Len(new) = 1
          /\ \A k \in 1 .. Len(new) : new[k].tag = tags + k /\ new[k].escrow = e
      BY <2>5 DEF NewFill
    <2>7. /\ bids' \in Seq(Bid)
          /\ \A i \in 1 .. Len(bids') : \E j \in 1 .. Len(bids) : bids'[i].escrow = bids[j].escrow
      <3>1. CASE bids[1].left = 1
        <4>1. /\ bids' = Tail(bids) /\ Tail(bids) \in Seq(Bid)
              /\ Len(Tail(bids)) = Len(bids) - 1
              /\ \A i \in 1 .. Len(bids) - 1 : Tail(bids)[i] = bids[i + 1]
          BY <1>1, <1>3, <2>4, <3>1
        <4>2. \A i \in 1 .. Len(bids) - 1 : i + 1 \in 1 .. Len(bids)
          BY <1>1
        <4> QED BY <4>1, <4>2
      <3>2. CASE bids[1].left # 1
        <4> DEFINE less == [escrow |-> e, left |-> bids[1].left - 1]
        <4>1. less \in Bid
          BY <2>2, <3>2 DEF Bid
        <4>2. [bids[1] EXCEPT !.left = @ - 1] = less
          BY <2>1 DEF Bid
        <4>3. bids' = [bids EXCEPT ![1] = less]
          BY <2>4, <3>2, <4>2
        <4>4. less.escrow = e
          OBVIOUS
        <4> HIDE DEF less
        <4>5. /\ bids' \in Seq(Bid) /\ Len(bids') = Len(bids)
              /\ \A i \in 1 .. Len(bids) : bids'[i] = IF i = 1 THEN less ELSE bids[i]
          BY <1>1, <2>1, <4>1, <4>3
        <4>6. \A i \in 1 .. Len(bids) : bids'[i].escrow = bids[i].escrow
          BY <4>4, <4>5
        <4> QED BY <4>5, <4>6
      <3> QED BY <3>1, <3>2
    <2> HIDE DEF new
    <2>8. Traded(new, e)
      BY <1>1, <1>2, <1>3, <2>2, <2>3, <2>4, <2>6, <2>7 DEF Traded
    <2> QED BY <2>2, <2>6, <2>8
  <1>4. CASE ~(bids # << >> /\ Room > 0)
    <2> DEFINE new == << >>
    <2>1. Filled(new) /\ asks' = Append(asks, ask) /\ bids' = bids
      BY <1>4 DEF Sell
    <2>2. new \in Seq(Fill) /\ Len(new) = 0
      OBVIOUS
    <2>3. asks' \in Seq(BOOLEAN)
      BY <1>1, <2>1, Appended
    <2> HIDE DEF new
    <2>4. \A i \in 1 .. Len(bids') : \E j \in 1 .. Len(bids) : bids'[i].escrow = bids[j].escrow
      BY <2>1
    <2>5. \A k \in 1 .. Len(new) : new[k].tag = tags + k /\ new[k].escrow = None
      BY <2>2
    <2>6. Traded(new, None)
      BY <1>1, <1>2, <2>1, <2>2, <2>3, <2>4, <2>5 DEF Traded
    <2> QED BY <2>2, <2>6
  <1> QED BY <1>3, <1>4

LEMMA PlaceTrades ==
  ASSUME Inv, PlaceStep
  PROVE  /\ \E new \in Seq(Fill), e \in Escrows \union {None} : Traded(new, e)
         /\ \/ busy' = busy /\ fi' = fi
            \/ busy' = TRUE /\ fi' = Len(fills)
         /\ placed' \in Nat /\ exact' \in BOOLEAN /\ mishaps' \in Nat /\ restarts' \in Nat
  <1>1. TypeOK /\ placed \in Nat /\ exact \in BOOLEAN
    BY DEF Inv, TypeOK
  <1>2. ASSUME NEW e \in Escrows, NEW n \in Units, Backed(e, n)
        PROVE  Locked(e) /\ n \in Nat \ {0}
    <2>1. seen[e] \in Chains /\ order[<<seen[e], e>>] # "empty"
      BY <1>1, <1>2 DEF Backed, Inv, BookLocked, TypeOK
    <2>2. n \in Nat \ {0}
      BY DexAssumption
    <2> QED BY <2>1, <2>2 DEF Locked
  <1>3. ASSUME NEW e \in Escrows, NEW n \in Units, PlaceBid(e, n) \/ RefuseRest(e, n)
        PROVE  \E new \in Seq(Fill), x \in Escrows \union {None} : Traded(new, x)
    <2>1. Locked(e) /\ n \in Nat \ {0}
      BY <1>2, <1>3 DEF PlaceBid, RefuseRest
    <2>2. PICK roomy \in BOOLEAN : Buy(e, n, roomy)
      BY <1>3 DEF PlaceBid, RefuseRest
    <2>3. \E new \in Seq(Fill) : Traded(new, e)
      BY <2>1, <2>2, BuyTrades
    <2> QED BY <2>3
  <1>4. PlaceAsk => \E new \in Seq(Fill), x \in Escrows \union {None} : Traded(new, x)
    BY SellTrades DEF PlaceAsk
  <1>5. GridOrder => \E new \in Seq(Fill), x \in Escrows \union {None} : Traded(new, x)
    <2>1. ASSUME NEW x \in Escrows \union {None}, x = None,
                 NEW n \in Nat \ {0}, NEW roomy \in BOOLEAN, Buy(x, n, roomy)
          PROVE  \E new \in Seq(Fill) : Traded(new, x)
      BY <2>1, BuyTrades
    <2>2. 1 \in Nat \ {0}
      OBVIOUS
    <2>3. Buy(None, 1, TRUE) => \E new \in Seq(Fill) : Traded(new, None)
      BY <2>1, <2>2, Zenon
    <2>4. Sell(FALSE) => \E new \in Seq(Fill), x \in Escrows \union {None} : Traded(new, x)
      BY SellTrades
    <2> QED BY <2>3, <2>4 DEF GridOrder
  <1>6. \E new \in Seq(Fill), e \in Escrows \union {None} : Traded(new, e)
    BY <1>3, <1>4, <1>5 DEF PlaceStep
  <1>7. placed' \in Nat
    <2>1. Accept \/ placed' = placed + 1
      BY DEF PlaceStep, PlaceBid, RefuseRest, PlaceAsk, GridOrder
    <2> QED BY <1>1, <2>1 DEF Accept
  <1>8. \/ Begin
        \/ Stray /\ UNCHANGED <<busy, fi>>
    BY DEF PlaceStep, PlaceBid, RefuseRest, PlaceAsk, GridOrder, handler
  <1>9. CASE Begin
    <2>1. UNCHANGED counters /\ exact' = exact /\ busy' = TRUE /\ fi' = Len(fills)
      BY <1>9 DEF Begin
    <2> QED BY <1>1, <1>6, <1>7, <2>1, MishapFacts
  <1>10. CASE Stray /\ UNCHANGED <<busy, fi>>
    BY <1>1, <1>6, <1>7, <1>10, MishapFacts
  <1> QED BY <1>8, <1>9, <1>10

(* What that means for fills and tags.                                       *)
LEMMA TradedFacts ==
  ASSUME Inv, NEW new \in Seq(Fill), NEW e \in Escrows \union {None}, Traded(new, e)
  PROVE  /\ fills' \in Seq(Fill) /\ Len(fills') \in Nat /\ Len(fills) \in Nat
         /\ Len(fills) <= Len(fills') /\ Len(fills') <= MaxFills
         /\ tags \in Nat /\ tags' \in Nat /\ tags <= tags'
         /\ \A i \in 1 .. Len(fills) : i \in 1 .. Len(fills') /\ fills'[i] = fills[i]
         /\ \A i \in 1 .. Len(fills') :
              \/ i \in 1 .. Len(fills)
              \/ /\ Len(fills) < i
                 /\ fills'[i].tag = tags + (i - Len(fills)) /\ fills'[i].tag <= tags'
                 /\ fills'[i].escrow = e /\ (e # None => e \in matched')
         /\ matched' = matched \/ (e # None /\ matched' = matched \union {e})
  <1>1. /\ fills \in Seq(Fill) /\ tags \in Nat /\ Len(fills) \in Nat /\ MaxFills \in Nat
        /\ Len(new) \in Nat /\ Len(new) <= MaxFills - Len(fills)
    BY DexAssumption DEF Inv, TypeOK, Traded, Room
  <1>2. /\ fills' = fills \o new /\ tags' = tags + Len(new)
        /\ matched' = matched \union ({new[k].escrow : k \in 1 .. Len(new)} \ {None})
    BY DEF Traded, Filled
  <1>3. fills' \in Seq(Fill) /\ Len(fills') = Len(fills) + Len(new)
    BY <1>1, <1>2, Concat
  <1>4. /\ \A i \in 1 .. Len(fills) : fills'[i] = fills[i]
        /\ \A k \in 1 .. Len(new) : fills'[Len(fills) + k] = new[k]
    BY <1>1, <1>2, ConcatAt
  <1>5. \A k \in 1 .. Len(new) : new[k].tag = tags + k /\ new[k].escrow = e
    BY DEF Traded
  <1>6. matched' = matched \/ (e # None /\ matched' = matched \union {e})
    BY <1>2, <1>5
  <1>7. Len(new) > 0 /\ e # None => e \in matched'
    <2>1. Len(new) > 0 => 1 \in 1 .. Len(new)
      BY <1>1
    <2> QED BY <1>2, <1>5, <2>1
  <1>8. ASSUME NEW i \in 1 .. Len(fills'), i \notin 1 .. Len(fills)
        PROVE  /\ Len(fills) < i
               /\ fills'[i].tag = tags + (i - Len(fills)) /\ fills'[i].tag <= tags'
               /\ fills'[i].escrow = e /\ (e # None => e \in matched')
    <2>1. PICK k \in 1 .. Len(new) : i = Len(fills) + k
      <3>1. i - Len(fills) \in 1 .. Len(new) /\ i = Len(fills) + (i - Len(fills))
        BY <1>1, <1>3, <1>8
      <3> QED BY <3>1
    <2>2. fills'[i].tag = tags + k /\ fills'[i].escrow = e
      BY <1>4, <1>5, <2>1
    <2>3. k = i - Len(fills) /\ tags + k <= tags' /\ Len(fills) < i /\ Len(new) > 0
      BY <1>1, <1>2, <2>1
    <2> QED BY <1>7, <2>2, <2>3
  <1>9. \A i \in 1 .. Len(fills) : i \in 1 .. Len(fills')
    BY <1>1, <1>3
  <1>10. /\ Len(fills) <= Len(fills') /\ Len(fills') <= MaxFills /\ Len(fills') \in Nat
         /\ tags' \in Nat /\ tags <= tags'
    BY <1>1, <1>2, <1>3
  <1> QED BY <1>1, <1>3, <1>4, <1>6, <1>8, <1>9, <1>10

(* What a step of the fills log adds: a record of a fill the handler has not *)
(* seen yet, or one with a tag of its own.                                   *)
Recorded(r) ==
  /\ r \in LogRecord
  /\ \/ /\ busy /\ fi < Len(fills) /\ r.id = fi + 1 /\ r.tag = fills[fi + 1].tag
        /\ tags' = tags
     \/ r.tag = tags + 1 /\ tags' = tags + 1

LEMMA WatchedType ==
  ASSUME TypeOK, NEW e \in Escrows \union {None}
  PROVE  Watched(e) \in Chains \union {None}
  BY DEF TypeOK, Watched

LEMMA LogSteps ==
  ASSUME Inv, LogStep
  PROVE  /\ \/ log' = log /\ tags' = tags
            \/ \E r \in LogRecord : Recorded(r) /\ log' = Append(log, r)
         /\ fi \in Nat /\ fi' \in Nat /\ fi <= fi'
         /\ moved' \subseteq Escrows \union {None} /\ exact' \in BOOLEAN
         /\ mishaps' \in Nat /\ restarts' \in Nat
  <1>1. /\ TypeOK /\ fi \in Nat /\ tags \in Nat /\ Len(fills) \in Nat /\ Len(fills) <= MaxFills
        /\ moved \subseteq Escrows \union {None} /\ exact \in BOOLEAN /\ MaxFills \in Nat
    BY DexAssumption DEF Inv, TypeOK
  <1>2. CASE BookFill
    <2>1. fi + 1 \in 1 .. Len(fills) /\ fi + 1 \in Ids /\ busy /\ fi < Len(fills)
      BY <1>1, <1>2 DEF BookFill, Ids
    <2> DEFINE f == fills[fi + 1]
    <2>2. f.tag \in Nat /\ f.escrow \in Escrows \union {None} /\ f.evm \in BOOLEAN
      BY <1>1, <2>1, Fields
    <2>3. f.tag # 0
      BY <1>1, <2>1 DEF Inv, Marks, FillsTagged
    <2> DEFINE r == [tag |-> f.tag, id |-> fi + 1, evm |-> f.evm, chain |-> Watched(f.escrow)]
    <2>4. /\ moved' = moved \union {f.escrow} \/ moved' = moved
          /\ Logged(f, fi + 1) \/ log' = log
          /\ UNCHANGED counters \/ Fault
          /\ fi' = fi + 1 /\ UNCHANGED book
      BY <1>2 DEF BookFill
    <2>5. tags' = tags /\ exact' = exact
      BY <2>4 DEF book
    <2>6. Watched(f.escrow) \in Chains \union {None}
      BY <1>1, <2>2, WatchedType
    <2>7. r \in LogRecord
      BY <2>1, <2>2, <2>3, <2>6 DEF LogRecord
    <2>8. Recorded(r)
      BY <2>1, <2>5, <2>7 DEF Recorded
    <2>9. log' = Append(log, r) \/ log' = log
      BY <2>4 DEF Logged
    <2>10. mishaps' \in Nat /\ restarts' \in Nat
      BY <1>1, <2>4, MishapFacts
    <2>11. moved' \subseteq Escrows \union {None}
      BY <1>1, <2>2, <2>4
    <2> HIDE DEF r
    <2> QED BY <1>1, <2>4, <2>5, <2>7, <2>8, <2>9, <2>10, <2>11
  <1>3. CASE PaperFill
    <2>1. PICK i \in Ids, e \in Escrows :
            Logged([tag |-> tags + 1, escrow |-> e, evm |-> TRUE], i)
      BY <1>3 DEF PaperFill
    <2> DEFINE r == [tag |-> tags + 1, id |-> i, evm |-> TRUE, chain |-> Watched(e)]
    <2>2. log' = Append(log, r)
      BY <2>1 DEF Logged
    <2>3. tags' = tags + 1 /\ fi' = fi /\ moved' = moved /\ Stray
      BY <1>3 DEF PaperFill, handler
    <2>4. Watched(e) \in Chains \union {None}
      BY <1>1, WatchedType
    <2>5. r \in LogRecord
      BY <1>1, <2>4 DEF LogRecord
    <2>6. Recorded(r)
      BY <2>3, <2>5 DEF Recorded
    <2>7. mishaps' \in Nat /\ restarts' \in Nat /\ exact' \in BOOLEAN
      BY <1>1, <2>3, MishapFacts
    <2> HIDE DEF r
    <2> QED BY <1>1, <2>2, <2>3, <2>5, <2>6, <2>7
  <1> QED BY <1>2, <1>3 DEF LogStep

(* The log only grows.                                                       *)
LEMMA LogFacts ==
  ASSUME Inv, LogStep
  PROVE  /\ log' \in Seq(LogRecord) /\ Len(log) \in Nat /\ Len(log') \in Nat
         /\ Len(log) <= Len(log')
         /\ \A k \in 1 .. Len(log) : k \in 1 .. Len(log') /\ log'[k] = log[k]
         /\ \A k \in 1 .. Len(log') :
              k \in 1 .. Len(log) \/ (k = Len(log) + 1 /\ Recorded(log'[k]))
         /\ tags \in Nat /\ tags' \in Nat /\ tags <= tags'
  <1>1. log \in Seq(LogRecord) /\ tags \in Nat /\ Len(log) \in Nat
    BY DEF Inv, TypeOK
  <1>2. CASE log' = log /\ tags' = tags
    BY <1>1, <1>2
  <1>3. CASE \E r \in LogRecord : Recorded(r) /\ log' = Append(log, r)
    <2>3. PICK r \in LogRecord : Recorded(r) /\ log' = Append(log, r)
      BY <1>3
    <2>1. /\ log' \in Seq(LogRecord) /\ Len(log') = Len(log) + 1
          /\ \A k \in 1 .. Len(log) : log'[k] = log[k]
          /\ log'[Len(log) + 1] = r
      BY <1>1, <2>3, Appended
    <2>2. tags' = tags \/ tags' = tags + 1
      BY <2>3 DEF Recorded
    <2> QED BY <1>1, <2>1, <2>2, <2>3
  <1> QED BY <1>2, <1>3, LogSteps

-----------------------------------------------------------------------------
(* The types, one kind of step after the other.                              *)
LEMMA TypeInit == Init => TypeOK
  <1> SUFFICES ASSUME Init PROVE TypeOK
    OBVIOUS
  <1>1. /\ order \in [Orders -> {"empty", "open", "settled", "cancelled"}]
        /\ pending \in [Chains -> Escrows \union {None}]
        /\ unread \subseteq Orders /\ seen \in [Escrows -> Chains \union {None}]
        /\ index \in [Ids -> Escrows \union {None}]
    BY DEF Init
  <1>2. /\ bids \in Seq(Bid) /\ asks \in Seq(BOOLEAN)
        /\ fills \in Seq(Fill) /\ log \in Seq(LogRecord)
        /\ Len(fills) <= MaxFills /\ Len(log) = 0
    BY DexAssumption DEF Init
  <1>3. /\ busy \in BOOLEAN /\ exact \in BOOLEAN /\ fi \in Nat /\ placed \in Nat /\ tags \in Nat
        /\ matched \subseteq Escrows /\ moved \subseteq Escrows \union {None}
        /\ recorded \subseteq Ids /\ done \subseteq Nat
        /\ mishaps \in Nat /\ restarts \in Nat
    BY DEF Init
  <1>4. /\ saved \in 0 .. MaxFills /\ cursor \in 0 .. MaxFills
        /\ upTo \in 0 .. Len(log) /\ next \in 1 .. upTo + 1
        /\ sent \in {"load", "no", "sent", "recorded"}
    BY <1>2, DexAssumption DEF Init
  <1> QED BY <1>1, <1>2, <1>3, <1>4 DEF TypeOK

LEMMA TypeEvm ==
  ASSUME Inv, EvmStep
  PROVE  TypeOK'
  <1>1. /\ TypeOK /\ order \in [Orders -> {"empty", "open", "settled", "cancelled"}]
        /\ pending \in [Chains -> Escrows \union {None}]
        /\ unread \subseteq Orders /\ seen \in [Escrows -> Chains \union {None}]
    BY DEF Inv, TypeOK
  <1> DEFINE T == /\ order' \in [Orders -> {"empty", "open", "settled", "cancelled"}]
                  /\ pending' \in [Chains -> Escrows \union {None}]
                  /\ unread' \subseteq Orders /\ seen' \in [Escrows -> Chains \union {None}]
  <1>2. ASSUME NEW o \in Orders, Lock(o) \/ Refund(o)
        PROVE  T
    BY <1>1, <1>2 DEF Lock, Refund
  <1>3. ASSUME NEW c \in Chains, MineSettle(c) \/ DropSettle(c)
        PROVE  T
    <2>1. pending' = [pending EXCEPT ![c] = None] /\ seen' = seen
      BY <1>3 DEF MineSettle, DropSettle, watcher
    <2>2. \/ order' = order /\ unread' = unread
          \/ /\ pending[c] # None
             /\ order' = [order EXCEPT ![<<c, pending[c]>>] = "settled"]
             /\ unread' = unread \union {<<c, pending[c]>>}
      BY <1>3 DEF MineSettle, DropSettle, watcher
    <2>3. pending[c] # None => <<c, pending[c]>> \in Orders
      BY <1>1 DEF Orders
    <2>4. pending' \in [Chains -> Escrows \union {None}]
      BY <1>1, <2>1
    <2>5. order' \in [Orders -> {"empty", "open", "settled", "cancelled"}]
      BY <1>1, <2>2
    <2>6. unread' \subseteq Orders
      BY <1>1, <2>2, <2>3
    <2> QED BY <1>1, <2>1, <2>4, <2>5, <2>6
  <1>4. ASSUME NEW c \in Chains, ScanBinding(c)
        PROVE  T
    <2>1. PICK read \in SUBSET unread :
            seen' = [e \in Escrows |->
                       IF <<c, e>> \notin read THEN seen[e]
                       ELSE IF order[<<c, e>>] = "open" THEN c ELSE None]
      BY <1>4 DEF ScanBinding
    <2>2. order' = order /\ pending' = pending /\ unread' \subseteq unread
      BY <1>4 DEF ScanBinding, evm
    <2>3. seen' \in [Escrows -> Chains \union {None}]
      BY <1>1, <2>1
    <2> QED BY <1>1, <2>2, <2>3
  <1>5. T
    BY <1>2, <1>3, <1>4 DEF EvmStep
  <1> QED BY <1>1, <1>5, EvmFrame DEF TypeOK

LEMMA TypePlace ==
  ASSUME Inv, PlaceStep
  PROVE  TypeOK'
  <1>1. /\ TypeOK /\ busy \in BOOLEAN /\ fi \in Nat /\ matched \subseteq Escrows
        /\ Len(fills) \in Nat
    BY DEF Inv, TypeOK
  <1>2. PICK new \in Seq(Fill), e \in Escrows \union {None} : Traded(new, e)
    BY PlaceTrades
  <1>3. bids' \in Seq(Bid) /\ asks' \in Seq(BOOLEAN)
    BY <1>2 DEF Traded
  <1>4. /\ fills' \in Seq(Fill) /\ Len(fills') <= MaxFills /\ tags' \in Nat
        /\ matched' = matched \/ (e # None /\ matched' = matched \union {e})
    BY <1>2, TradedFacts
  <1>5. matched' \subseteq Escrows
    BY <1>1, <1>2, <1>4
  <1>6. /\ busy' \in BOOLEAN /\ fi' \in Nat
        /\ placed' \in Nat /\ exact' \in BOOLEAN /\ mishaps' \in Nat /\ restarts' \in Nat
    BY <1>1, PlaceTrades
  <1> QED BY <1>1, <1>3, <1>4, <1>5, <1>6, PlaceFrame DEF TypeOK

LEMMA TypeLog ==
  ASSUME Inv, LogStep
  PROVE  TypeOK'
  <1>1. /\ TypeOK /\ upTo \in 0 .. Len(log) /\ next \in 1 .. upTo + 1
    BY DEF Inv, TypeOK
  <1>2. /\ log' \in Seq(LogRecord) /\ tags' \in Nat /\ Len(log) \in Nat /\ Len(log') \in Nat
        /\ Len(log) <= Len(log')
    BY LogFacts
  <1>3. upTo \in 0 .. Len(log')
    BY <1>1, <1>2
  <1>4. /\ fi' \in Nat /\ moved' \subseteq Escrows \union {None} /\ exact' \in BOOLEAN
        /\ mishaps' \in Nat /\ restarts' \in Nat
    BY LogSteps
  <1> QED BY <1>1, <1>2, <1>3, <1>4, LogFrame DEF TypeOK

LEMMA TypeOrder ==
  ASSUME Inv, Journal \/ CancelOrder
  PROVE  /\ TypeOK' /\ busy' \in {busy, FALSE}
         /\ \A i \in 1 .. Len(bids') : \E j \in 1 .. Len(bids) : bids'[i] = bids[j]
  <1>1. /\ TypeOK /\ bids \in Seq(Bid) /\ asks \in Seq(BOOLEAN) /\ exact \in BOOLEAN
        /\ busy \in BOOLEAN /\ Len(bids) \in Nat
    BY DEF Inv, TypeOK
  <1>2. /\ bids' = bids \/ \E i \in 1 .. Len(bids) : bids' = Without(bids, i)
        /\ asks' = asks \/ \E i \in 1 .. Len(asks) : asks' = Without(asks, i)
        /\ busy' \in {busy, FALSE}
    BY DEF Journal, CancelOrder, handler
  <1>3. UNCHANGED <<exact, counters>> \/ Stray
    BY DEF Journal, CancelOrder
  <1>4. exact' \in BOOLEAN /\ mishaps' \in Nat /\ restarts' \in Nat
    <2>1. CASE UNCHANGED <<exact, counters>>
      <3>1. exact' = exact /\ UNCHANGED counters
        BY <2>1
      <3> QED BY <1>1, <3>1, MishapFacts
    <2>2. CASE Stray
      BY <1>1, <2>2, MishapFacts
    <2> QED BY <1>3, <2>1, <2>2
  <1>5. /\ bids' \in Seq(Bid)
        /\ \A i \in 1 .. Len(bids') : \E j \in 1 .. Len(bids) : bids'[i] = bids[j]
    <2>1. CASE bids' = bids
      BY <1>1, <2>1
    <2>2. ASSUME NEW i \in 1 .. Len(bids), bids' = Without(bids, i)
          PROVE  /\ bids' \in Seq(Bid)
                 /\ \A k \in 1 .. Len(bids') : \E j \in 1 .. Len(bids) : bids'[k] = bids[j]
      BY <1>1, <2>2, WithoutFacts
    <2> QED BY <1>2, <2>1, <2>2
  <1>6. asks' \in Seq(BOOLEAN)
    <2>1. ASSUME NEW i \in 1 .. Len(asks), asks' = Without(asks, i)
          PROVE  asks' \in Seq(BOOLEAN)
      BY <1>1, <2>1, WithoutFacts
    <2> QED BY <1>1, <1>2, <2>1
  <1>7. busy' \in BOOLEAN
    BY <1>1, <1>2
  <1>8. TypeOK'
    BY <1>1, <1>4, <1>5, <1>6, <1>7, OrderFrame DEF TypeOK
  <1> QED BY <1>2, <1>5, <1>8

(* What the settler works on.                                                *)
LEMMA Current ==
  ASSUME Inv
  PROVE  /\ cursor \in Nat /\ cursor <= MaxFills /\ MaxFills \in Nat /\ Len(fills) \in Nat
         /\ Len(fills) <= MaxFills /\ tags \in Nat /\ Len(log) \in Nat
         /\ Replaying => /\ next \in 1 .. Len(log) /\ next + 1 \in 1 .. upTo + 1
                         /\ CurrentId = log[next].id /\ CurrentTag = log[next].tag
                         /\ log[next].id \in Ids /\ log[next].tag \in 1 .. tags
                         /\ log[next].chain \in Chains \union {None}
         /\ ~Replaying => CurrentId = cursor + 1 /\ CurrentTag = fills[cursor + 1].tag
         /\ cursor < Len(fills) =>
              /\ cursor + 1 \in Ids /\ cursor + 1 \in 1 .. Len(fills)
              /\ fills[cursor + 1].escrow \in Escrows \union {None}
              /\ fills[cursor + 1].tag \in 0 .. tags
         /\ sent \in {"sent", "recorded"} => CurrentId \in Ids /\ CurrentTag \in 1 .. tags
  <1>1. /\ TypeOK /\ cursor \in 0 .. MaxFills /\ upTo \in 0 .. Len(log) /\ next \in 1 .. upTo + 1
        /\ Len(fills) <= MaxFills /\ MaxFills \in Nat /\ tags \in Nat
        /\ Len(fills) \in Nat /\ Len(log) \in Nat
    BY DexAssumption DEF Inv, TypeOK
  <1>2. ASSUME Replaying
        PROVE  /\ next \in 1 .. Len(log) /\ next + 1 \in 1 .. upTo + 1
               /\ CurrentId = log[next].id /\ CurrentTag = log[next].tag
               /\ log[next].id \in Ids /\ log[next].tag \in 1 .. tags
               /\ log[next].chain \in Chains \union {None}
    <2>1. next \in 1 .. Len(log) /\ next + 1 \in 1 .. upTo + 1
      BY <1>1, <1>2 DEF Replaying
    <2>2. log[next].id \in Ids /\ log[next].chain \in Chains \union {None}
      BY <1>1, <2>1, Fields
    <2>3. log[next].tag \in 1 .. tags
      BY <2>1 DEF Inv, Marks, TagsBounded
    <2> QED BY <1>2, <2>1, <2>2, <2>3 DEF CurrentId, CurrentTag
  <1>3. ~Replaying => CurrentId = cursor + 1 /\ CurrentTag = fills[cursor + 1].tag
    BY DEF CurrentId, CurrentTag
  <1>4. ASSUME cursor < Len(fills)
        PROVE  /\ cursor + 1 \in Ids /\ cursor + 1 \in 1 .. Len(fills)
               /\ fills[cursor + 1].escrow \in Escrows \union {None}
               /\ fills[cursor + 1].tag \in 0 .. tags
    <2>1. cursor + 1 \in Ids /\ cursor + 1 \in 1 .. Len(fills)
      BY <1>1, <1>4 DEF Ids
    <2>2. fills[cursor + 1].escrow \in Escrows \union {None} /\ fills[cursor + 1].tag \in Nat
      BY <1>1, <2>1, Fields
    <2>3. fills[cursor + 1].tag <= tags
      BY <2>1 DEF Inv, Marks, TagsBounded
    <2> QED BY <1>1, <2>1, <2>2, <2>3
  <1>5. ASSUME sent \in {"sent", "recorded"}
        PROVE  CurrentId \in Ids /\ CurrentTag \in 1 .. tags
    <2>1. ~Replaying => cursor < Len(fills) /\ fills[cursor + 1].tag # 0
      BY <1>5 DEF Inv, Marks, AtHand
    <2>2. CASE ~Replaying
      <3>1. fills[cursor + 1].tag \in 1 .. tags
        BY <1>1, <1>4, <2>1, <2>2
      <3> QED BY <1>3, <1>4, <2>1, <2>2, <3>1
    <2> QED BY <1>2, <2>2
  <1> QED BY <1>1, <1>2, <1>3, <1>4, <1>5

LEMMA PassFacts ==
  ASSUME TypeOK, NEW id \in Ids, Pass(id)
  PROVE  /\ cursor' = id /\ cursor' \in 0 .. MaxFills /\ saved' \in 0 .. MaxFills
         /\ mishaps' \in Nat /\ restarts' \in Nat
  <1>1. MaxFills \in Nat /\ saved \in 0 .. MaxFills
    BY DexAssumption DEF TypeOK
  <1>2. /\ cursor' = id
        /\ saved' = id \/ saved' \in {saved, 0}
        /\ UNCHANGED counters \/ Fault
    BY DEF Pass
  <1>3. cursor' \in 0 .. MaxFills /\ saved' \in 0 .. MaxFills
    BY <1>1, <1>2 DEF Ids
  <1> QED BY <1>2, <1>3, MishapFacts

LEMMA PostFacts ==
  ASSUME TypeOK, NEW e \in Escrows \union {None}, NEW c \in Chains, Post(e, c)
  PROVE  /\ pending' \in [Chains -> Escrows \union {None}]
         /\ \A d \in Chains : pending'[d] \in {pending[d], e}
  BY DEF TypeOK, Post

LEMMA TargetType ==
  ASSUME TypeOK, NEW e \in Escrows, NEW c \in Chains
  PROVE  Target(e, c) \in Chains
  BY DEF TypeOK, Target

(* Each action of the settler, with what it leaves of its own state.         *)
LEMMA SettlerSteps ==
  ASSUME Inv, Settler
  PROVE  \/ /\ sent = "load" /\ sent' = "no" /\ next' = 1 /\ upTo' = Len(log)
            /\ UNCHANGED <<pending, index, recorded, saved, cursor, done, mishaps, restarts>>
         \/ /\ sent = "no" /\ Replaying /\ log[next].id > cursor /\ Pass(log[next].id)
            /\ next' = next + 1
            /\ UNCHANGED <<pending, index, recorded, upTo, sent, done>>
         \/ /\ sent = "no" /\ Replaying /\ next' = next + 1
            /\ UNCHANGED <<pending, index, recorded, saved, cursor, upTo, sent, done, mishaps,
                           restarts>>
         \/ ReplaySend
         \/ /\ Scanning /\ Pass(cursor + 1)
            /\ UNCHANGED <<pending, index, recorded, next, upTo, sent, done>>
         \/ ScanSend
         \/ /\ Scanning /\ Indexed
            /\ UNCHANGED <<pending, recorded, saved, cursor, next, upTo, sent, done, mishaps,
                           restarts>>
         \/ RecordSettle
         \/ AdvanceCursor
  <1>1. CASE LoadFiles
    BY <1>1 DEF LoadFiles, evm, files, counters
  <1>2. CASE ReplayPass
    BY <1>2 DEF ReplayPass, Undone, evm
  <1>3. CASE ReplaySkip
    BY <1>3 DEF ReplaySkip, evm, files, counters
  <1>4. CASE ScanPass
    BY <1>4 DEF ScanPass, evm
  <1>5. CASE ScanStops
    BY <1>5 DEF ScanStops, evm, settler, counters
  <1> QED BY <1>1, <1>2, <1>3, <1>4, <1>5 DEF Settler

LEMMA SendSteps ==
  ASSUME Inv
  PROVE  /\ ReplaySend =>
              /\ sent = "no" /\ Replaying /\ ReplayDue
              /\ pending' \in [Chains -> Escrows \union {None}]
              /\ \A c \in Chains : pending'[c] \in {pending[c], index[log[next].id]}
              /\ \/ sent' = "sent" /\ next' = next
                 \/ sent' = sent /\ next' = next + 1
              /\ mishaps' \in Nat /\ restarts' \in Nat
              /\ UNCHANGED <<index, recorded, saved, cursor, upTo, done>>
         /\ ScanSend =>
              /\ Scanning /\ fills[cursor + 1].escrow # None
              /\ pending' \in [Chains -> Escrows \union {None}]
              /\ \A c \in Chains : pending'[c] \in {pending[c], fills[cursor + 1].escrow}
              /\ Indexed \/ index' = index
              /\ sent' \in {"sent", sent} /\ mishaps' \in Nat /\ restarts' \in Nat
              /\ UNCHANGED <<recorded, saved, cursor, next, upTo, done>>
  <1>1. TypeOK /\ index \in [Ids -> Escrows \union {None}] /\ First \in Chains
    BY DexAssumption DEF Inv, TypeOK
  <1>2. ASSUME ReplaySend
        PROVE  /\ sent = "no" /\ Replaying /\ ReplayDue
               /\ pending' \in [Chains -> Escrows \union {None}]
               /\ \A c \in Chains : pending'[c] \in {pending[c], index[log[next].id]}
               /\ \/ sent' = "sent" /\ next' = next
                  \/ sent' = sent /\ next' = next + 1
               /\ mishaps' \in Nat /\ restarts' \in Nat
               /\ UNCHANGED <<index, recorded, saved, cursor, upTo, done>>
    <2>1. ReplayDue /\ Undone /\ Replaying /\ sent = "no"
      BY <1>2 DEF ReplaySend, ReplayDue, Undone
    <2> DEFINE e == index[log[next].id]
    <2> DEFINE c == log[next].chain
    <2>2. e \in Escrows /\ c \in Chains
      BY <1>1, <2>1, Current DEF ReplayDue
    <2>3. Target(e, c) \in Chains
      BY <1>1, <2>2, TargetType
    <2>4. /\ Post(e, Target(e, c)) \/ pending' = pending
          /\ \/ sent' = "sent" /\ next' = next
             \/ sent' = sent /\ next' = next + 1
          /\ UNCHANGED counters \/ Fault
          /\ UNCHANGED <<files, cursor, upTo, done>>
      BY <1>2 DEF ReplaySend
    <2> HIDE DEF e, c
    <2>5. /\ pending' \in [Chains -> Escrows \union {None}]
          /\ \A d \in Chains : pending'[d] \in {pending[d], e}
      <3>1. CASE pending' = pending
        BY <1>1, <3>1 DEF TypeOK
      <3>2. CASE Post(e, Target(e, c))
        BY <1>1, <2>2, <2>3, <3>2, PostFacts
      <3> QED BY <2>4, <3>1, <3>2
    <2>6. mishaps' \in Nat /\ restarts' \in Nat
      BY <1>1, <2>4, MishapFacts
    <2>7. UNCHANGED <<index, recorded, saved, cursor, upTo, done>>
      BY <2>4 DEF files
    <2> QED BY <2>1, <2>4, <2>5, <2>6, <2>7 DEF e
  <1>3. ASSUME ScanSend
        PROVE  /\ Scanning /\ fills[cursor + 1].escrow # None
               /\ pending' \in [Chains -> Escrows \union {None}]
               /\ \A c \in Chains : pending'[c] \in {pending[c], fills[cursor + 1].escrow}
               /\ Indexed \/ index' = index
               /\ sent' \in {"sent", sent} /\ mishaps' \in Nat /\ restarts' \in Nat
               /\ UNCHANGED <<recorded, saved, cursor, next, upTo, done>>
    <2> DEFINE e == fills[cursor + 1].escrow
    <2>1. /\ Scanning /\ e # None /\ cursor < Len(fills)
          /\ Post(e, Target(e, First))
          /\ Indexed \/ index' = index
          /\ sent' = "sent" \/ sent' = sent
          /\ UNCHANGED counters \/ Fault
          /\ UNCHANGED <<recorded, saved, cursor, next, upTo, done>>
      BY <1>3 DEF ScanSend, Scanning
    <2>2. e \in Escrows
      BY <2>1, Current
    <2> HIDE DEF e
    <2>3. Target(e, First) \in Chains
      BY <1>1, <2>2, TargetType
    <2>4. /\ pending' \in [Chains -> Escrows \union {None}]
          /\ \A d \in Chains : pending'[d] \in {pending[d], e}
      BY <1>1, <2>1, <2>2, <2>3, PostFacts
    <2>5. mishaps' \in Nat /\ restarts' \in Nat
      BY <1>1, <2>1, MishapFacts
    <2> QED BY <2>1, <2>4, <2>5 DEF e
  <1> QED BY <1>2, <1>3

LEMMA IndexedType ==
  ASSUME Inv, cursor < Len(fills), Indexed
  PROVE  /\ index' \in [Ids -> Escrows \union {None}]
         /\ \A i \in Ids : index'[i] \in {index[i], fills[cursor + 1].escrow}
  <1>1. index \in [Ids -> Escrows \union {None}]
    BY DEF Inv, TypeOK
  <1>2. cursor + 1 \in Ids /\ fills[cursor + 1].escrow \in Escrows \union {None}
    BY Current
  <1> QED BY <1>1, <1>2 DEF Indexed

LEMMA RecordSteps ==
  ASSUME Inv, RecordSettle
  PROVE  /\ sent = "sent" /\ sent' = "recorded"
         /\ \/ recorded' = recorded \union {CurrentId} /\ done' = done \union {CurrentTag}
            \/ recorded' = recorded /\ done' = done
         /\ mishaps' \in Nat /\ restarts' \in Nat
         /\ UNCHANGED <<pending, index, saved, cursor, next, upTo>>
  <1>1. TypeOK
    BY DEF Inv
  <1>2. UNCHANGED counters \/ Fault
    BY DEF RecordSettle
  <1> QED BY <1>1, <1>2, MishapFacts DEF RecordSettle, evm

LEMMA AdvanceSteps ==
  ASSUME Inv, AdvanceCursor
  PROVE  /\ sent = "recorded" /\ sent' = "no" /\ Pass(CurrentId) /\ CurrentId \in Ids
         /\ next' = IF Replaying THEN next + 1 ELSE next
         /\ UNCHANGED <<pending, index, recorded, upTo, done>>
  <1>1. CurrentId \in Ids
    BY Current DEF AdvanceCursor
  <1> QED BY <1>1 DEF AdvanceCursor, evm

LEMMA TypeSettler ==
  ASSUME Inv, Settler
  PROVE  TypeOK'
  <1>1. /\ TypeOK /\ pending \in [Chains -> Escrows \union {None}]
        /\ index \in [Ids -> Escrows \union {None}] /\ recorded \subseteq Ids
        /\ saved \in 0 .. MaxFills /\ cursor \in 0 .. MaxFills
        /\ upTo \in 0 .. Len(log) /\ next \in 1 .. upTo + 1 /\ Len(log) \in Nat
        /\ sent \in {"load", "no", "sent", "recorded"} /\ done \subseteq Nat
        /\ mishaps \in Nat /\ restarts \in Nat
    BY DEF Inv, TypeOK
  <1> DEFINE T == /\ pending' \in [Chains -> Escrows \union {None}]
                  /\ index' \in [Ids -> Escrows \union {None}] /\ recorded' \subseteq Ids
                  /\ saved' \in 0 .. MaxFills /\ cursor' \in 0 .. MaxFills
                  /\ upTo' \in 0 .. Len(log) /\ next' \in 1 .. upTo' + 1
                  /\ sent' \in {"load", "no", "sent", "recorded"} /\ done' \subseteq Nat
                  /\ mishaps' \in Nat /\ restarts' \in Nat
  <1>2. ASSUME /\ sent = "load" /\ sent' = "no" /\ next' = 1 /\ upTo' = Len(log)
               /\ UNCHANGED <<pending, index, recorded, saved, cursor, done, mishaps, restarts>>
        PROVE  T
    BY <1>1, <1>2
  <1>3. ASSUME /\ sent = "no" /\ Replaying /\ log[next].id > cursor /\ Pass(log[next].id)
               /\ next' = next + 1
               /\ UNCHANGED <<pending, index, recorded, upTo, sent, done>>
        PROVE  T
    <2>1. log[next].id \in Ids /\ next + 1 \in 1 .. upTo + 1
      BY <1>3, Current
    <2>2. /\ cursor' \in 0 .. MaxFills /\ saved' \in 0 .. MaxFills
          /\ mishaps' \in Nat /\ restarts' \in Nat
      BY <1>1, <1>3, <2>1, PassFacts
    <2> QED BY <1>1, <1>3, <2>1, <2>2
  <1>4. ASSUME /\ sent = "no" /\ Replaying /\ next' = next + 1
               /\ UNCHANGED <<pending, index, recorded, saved, cursor, upTo, sent, done, mishaps,
                              restarts>>
        PROVE  T
    <2>1. next + 1 \in 1 .. upTo + 1
      BY <1>4, Current
    <2> QED BY <1>1, <1>4, <2>1
  <1>5. ASSUME ReplaySend
        PROVE  T
    <2>1. next + 1 \in 1 .. upTo + 1
      BY <1>5, Current, SendSteps
    <2> QED BY <1>1, <1>5, <2>1, SendSteps
  <1>6. ASSUME /\ Scanning /\ Pass(cursor + 1)
               /\ UNCHANGED <<pending, index, recorded, next, upTo, sent, done>>
        PROVE  T
    <2>1. cursor + 1 \in Ids
      BY <1>6, Current DEF Scanning
    <2>2. /\ cursor' \in 0 .. MaxFills /\ saved' \in 0 .. MaxFills
          /\ mishaps' \in Nat /\ restarts' \in Nat
      BY <1>1, <1>6, <2>1, PassFacts
    <2> QED BY <1>1, <1>6, <2>2
  <1>7. ASSUME ScanSend
        PROVE  T
    <2>1. index' \in [Ids -> Escrows \union {None}]
      BY <1>1, <1>7, SendSteps, IndexedType DEF Scanning
    <2> QED BY <1>1, <1>7, <2>1, SendSteps
  <1>8. ASSUME /\ Scanning /\ Indexed
               /\ UNCHANGED <<pending, recorded, saved, cursor, next, upTo, sent, done, mishaps,
                              restarts>>
        PROVE  T
    <2>1. index' \in [Ids -> Escrows \union {None}]
      BY <1>8, IndexedType DEF Scanning
    <2> QED BY <1>1, <1>8, <2>1
  <1>9. ASSUME RecordSettle
        PROVE  T
    <2>1. CurrentId \in Ids /\ CurrentTag \in Nat
      BY <1>9, Current, RecordSteps
    <2>2. recorded' \subseteq Ids /\ done' \subseteq Nat
      BY <1>1, <1>9, <2>1, RecordSteps
    <2> QED BY <1>1, <1>9, <2>2, RecordSteps
  <1>10. ASSUME AdvanceCursor
         PROVE  T
    <2>1. /\ cursor' \in 0 .. MaxFills /\ saved' \in 0 .. MaxFills
          /\ mishaps' \in Nat /\ restarts' \in Nat
      BY <1>1, <1>10, AdvanceSteps, PassFacts
    <2>2. next' \in 1 .. upTo + 1
      BY <1>1, <1>10, AdvanceSteps, Current
    <2> QED BY <1>1, <1>10, <2>1, <2>2, AdvanceSteps
  <1>11. T
    BY <1>2, <1>3, <1>4, <1>5, <1>6, <1>7, <1>8, <1>9, <1>10, SettlerSteps
  <1>12. UNCHANGED <<order, unread, seen, bids, asks, fills, placed, tags, matched, exact, busy,
                     fi, moved, log>>
    BY SettlerFrame
  <1> QED BY <1>1, <1>11, <1>12 DEF TypeOK

(* A restart leaves fills without escrow, address or tag, bids without       *)
(* escrow and a watcher that knows no order.                                 *)
LEMMA RestartFacts ==
  ASSUME Inv, Restart
  PROVE  /\ fills' \in Seq(Fill) /\ Len(fills') <= MaxFills
         /\ \A i \in 1 .. Len(fills') : fills'[i].tag = 0 /\ fills'[i].escrow = None
         /\ bids' \in Seq(Bid) /\ \A i \in 1 .. Len(bids') : bids'[i].escrow = None
         /\ asks' \in Seq(BOOLEAN)
  <1>1. /\ MaxFills \in Nat /\ Len(fills) \in Nat /\ Len(fills) <= MaxFills
        /\ bids \in Seq(Bid) /\ asks \in Seq(BOOLEAN) /\ MaxBook \in Nat
        /\ Len(bids) \in Nat /\ Len(asks) \in Nat
    BY DexAssumption DEF Inv, TypeOK
  <1> DEFINE bare == [tag |-> 0, escrow |-> None, evm |-> FALSE]
  <1>2. ASSUME NEW n \in Nat, n <= MaxFills
        PROVE  /\ Bare(n) \in Seq(Fill) /\ Len(Bare(n)) = n
               /\ \A i \in 1 .. n : Bare(n)[i].tag = 0 /\ Bare(n)[i].escrow = None
    <2>1. bare \in Fill /\ bare.tag = 0 /\ bare.escrow = None
      BY DEF Fill
    <2>2. Bare(n) = [i \in 1 .. n |-> bare]
      BY DEF Bare
    <2> HIDE DEF bare
    <2>3. Bare(n) \in [1 .. n -> Fill] /\ \A i \in 1 .. n : Bare(n)[i] = bare
      BY <2>1, <2>2
    <2> QED BY <1>2, <2>1, <2>3, FunctionIsSeq
  <1>3. ASSUME NEW n \in Nat
        PROVE  [i \in 1 .. n |-> FALSE] \in Seq(BOOLEAN)
    <2>1. [i \in 1 .. n |-> FALSE] \in [1 .. n -> BOOLEAN]
      OBVIOUS
    <2> QED BY <2>1, FunctionIsSeq
  <1>4. CASE ReplayBook
    <2>1. /\ fills' = Bare(Len(fills))
          /\ bids' = [i \in 1 .. Len(bids) |-> [bids[i] EXCEPT !.escrow = None]]
          /\ asks' = [i \in 1 .. Len(asks) |-> FALSE]
      BY <1>4 DEF ReplayBook
    <2>2. \A i \in 1 .. Len(bids) :
            /\ [bids[i] EXCEPT !.escrow = None] \in Bid
            /\ [bids[i] EXCEPT !.escrow = None].escrow = None
      <3>1. ASSUME NEW i \in 1 .. Len(bids)
            PROVE  /\ [bids[i] EXCEPT !.escrow = None] \in Bid
                   /\ [bids[i] EXCEPT !.escrow = None].escrow = None
        <4>1. bids[i] \in Bid
          BY <1>1
        <4> QED BY <4>1 DEF Bid
      <3> QED BY <3>1
    <2>3. /\ bids' \in [1 .. Len(bids) -> Bid]
          /\ \A i \in 1 .. Len(bids) : bids'[i].escrow = None
      BY <2>1, <2>2
    <2>4. bids' \in Seq(Bid) /\ Len(bids') = Len(bids)
      BY <1>1, <2>3, FunctionIsSeq
    <2>5. asks' \in Seq(BOOLEAN)
      BY <1>1, <1>3, <2>1
    <2> QED BY <1>1, <1>2, <2>1, <2>3, <2>4, <2>5
  <1>5. CASE ReplayOtherBook
    <2>1. PICK n \in 0 .. MaxFills : fills' = Bare(n)
      BY <1>5 DEF ReplayOtherBook
    <2>2. PICK m \in 0 .. MaxBook : bids' \in [1 .. m -> [escrow : {None}, left : Units]]
      BY <1>5 DEF ReplayOtherBook
    <2>3. PICK k \in 0 .. MaxBook : asks' = [i \in 1 .. k |-> FALSE]
      BY <1>5 DEF ReplayOtherBook
    <2>4. n \in Nat /\ n <= MaxFills /\ m \in Nat /\ k \in Nat
      BY <1>1
    <2>5. \A b \in [escrow : {None}, left : Units] : b \in Bid /\ b.escrow = None
      BY DexAssumption DEF Bid
    <2>6. bids' \in [1 .. m -> Bid] /\ \A i \in 1 .. m : bids'[i].escrow = None
      BY <2>2, <2>5
    <2>7. bids' \in Seq(Bid) /\ Len(bids') = m
      BY <2>4, <2>6, FunctionIsSeq
    <2> QED BY <1>2, <1>3, <2>1, <2>3, <2>4, <2>6, <2>7
  <1> QED BY <1>4, <1>5 DEF Restart

LEMMA TypeRestart ==
  ASSUME Inv, Restart
  PROVE  TypeOK'
  <1>1. TypeOK /\ restarts \in Nat /\ mishaps \in Nat /\ saved \in 0 .. MaxFills
    BY DEF Inv, TypeOK
  <1>2. /\ restarts' = restarts + 1 /\ mishaps' \in {mishaps, mishaps + 1}
        /\ busy' = FALSE /\ exact' = (exact /\ ~busy)
        /\ seen' = [e \in Escrows |-> None]
        /\ unread' = {o \in Orders : order[o] # "empty"}
        /\ cursor' = saved /\ next' = 1 /\ upTo' = 0 /\ sent' = "load"
        /\ UNCHANGED <<evm, placed, tags, matched, fi, moved, log, files, done>>
    BY DEF Restart, Mishap
  <1>3. UNCHANGED <<order, pending, placed, tags, matched, fi, moved, log, index, recorded,
                    saved, done>>
    BY <1>2 DEF evm, files
  <1>4. busy' \in BOOLEAN /\ exact' \in BOOLEAN /\ restarts' \in Nat /\ mishaps' \in Nat
    <2>1. (exact /\ ~busy) \in BOOLEAN
      OBVIOUS
    <2>2. exact' \in BOOLEAN
      BY <1>2, <2>1, Zenon
    <2>3. busy' \in BOOLEAN
      BY <1>2
    <2>4. restarts' \in Nat /\ mishaps' \in Nat
      <3>1. restarts' = restarts + 1 /\ mishaps' \in {mishaps, mishaps + 1}
        BY <1>2, Zenon
      <3> QED BY <1>1, <3>1
    <2> QED BY <2>2, <2>3, <2>4
  <1>5. seen' \in [Escrows -> Chains \union {None}] /\ unread' \subseteq Orders
    BY <1>2
  <1>6. log' \in Seq(LogRecord) /\ Len(log') \in Nat
    BY <1>1, <1>3 DEF TypeOK
  <1>7. /\ cursor' \in 0 .. MaxFills /\ upTo' \in 0 .. Len(log') /\ next' \in 1 .. upTo' + 1
        /\ sent' \in {"load", "no", "sent", "recorded"}
    BY <1>1, <1>2, <1>6
  <1>8. /\ order' \in [Orders -> {"empty", "open", "settled", "cancelled"}]
        /\ pending' \in [Chains -> Escrows \union {None}]
        /\ fi' \in Nat /\ placed' \in Nat /\ tags' \in Nat
        /\ matched' \subseteq Escrows /\ moved' \subseteq Escrows \union {None}
        /\ index' \in [Ids -> Escrows \union {None}] /\ recorded' \subseteq Ids
        /\ saved' \in 0 .. MaxFills /\ done' \subseteq Nat
    BY <1>1, <1>3 DEF TypeOK
  <1>9. /\ fills' \in Seq(Fill) /\ Len(fills') <= MaxFills /\ bids' \in Seq(Bid)
        /\ asks' \in Seq(BOOLEAN)
    BY RestartFacts
  <1> QED BY <1>4, <1>5, <1>6, <1>7, <1>8, <1>9, Zenon DEF TypeOK

LEMMA TypeStep ==
  ASSUME Inv, [Next]_vars
  PROVE  TypeOK'
  <1>1. UNCHANGED vars => TypeOK'
    <2>1. TypeOK
      BY DEF Inv
    <2> QED BY <2>1, StutterFrame DEF TypeOK
  <1> QED BY <1>1, Steps, TypeEvm, TypePlace, TypeLog, TypeOrder, TypeSettler, TypeRestart

-----------------------------------------------------------------------------
(* Escrows that are named were locked; those a settle names were matched.    *)
LEMMA EvmLocked ==
  ASSUME Inv, EvmStep
  PROVE  /\ \A o \in Orders : order[o] # "empty" => order'[o] # "empty"
         /\ \A e \in Escrows : seen'[e] # None => order'[<<seen'[e], e>>] # "empty"
         /\ \A c \in Chains : pending'[c] \in {pending[c], None}
  <1>1. /\ TypeOK /\ order \in [Orders -> {"empty", "open", "settled", "cancelled"}]
        /\ pending \in [Chains -> Escrows \union {None}]
        /\ seen \in [Escrows -> Chains \union {None}]
        /\ \A e \in Escrows : seen[e] # None => order[<<seen[e], e>>] # "empty"
    BY DEF Inv, TypeOK, BookLocked
  <1>2. ASSUME \A o \in Orders : order[o] # "empty" => order'[o] # "empty", seen' = seen
        PROVE  \A e \in Escrows : seen'[e] # None => order'[<<seen'[e], e>>] # "empty"
    BY <1>1, <1>2 DEF Orders
  <1> DEFINE T == /\ \A o \in Orders : order[o] # "empty" => order'[o] # "empty"
                  /\ \A e \in Escrows : seen'[e] # None => order'[<<seen'[e], e>>] # "empty"
                  /\ \A c \in Chains : pending'[c] \in {pending[c], None}
  <1>3. ASSUME NEW o \in Orders, Lock(o) \/ Refund(o)
        PROVE  T
    <2>1. /\ order' = [order EXCEPT ![o] = "open"] \/ order' = [order EXCEPT ![o] = "cancelled"]
          /\ seen' = seen /\ pending' = pending
      BY <1>3 DEF Lock, Refund
    <2>2. \A x \in Orders : order[x] # "empty" => order'[x] # "empty"
      BY <1>1, <2>1
    <2> QED BY <1>2, <2>1, <2>2
  <1>4. ASSUME NEW c \in Chains, MineSettle(c) \/ DropSettle(c)
        PROVE  T
    <2>1. pending' = [pending EXCEPT ![c] = None] /\ seen' = seen
      BY <1>4 DEF MineSettle, DropSettle, watcher
    <2>2. order' = order \/ order' = [order EXCEPT ![<<c, pending[c]>>] = "settled"]
      BY <1>4 DEF MineSettle, DropSettle
    <2>3. \A x \in Orders : order[x] # "empty" => order'[x] # "empty"
      BY <1>1, <2>2
    <2>4. \A d \in Chains : pending'[d] \in {pending[d], None}
      BY <1>1, <2>1
    <2> QED BY <1>2, <2>1, <2>3, <2>4
  <1>5. ASSUME NEW c \in Chains, ScanBinding(c)
        PROVE  T
    <2>1. PICK read \in SUBSET unread :
            seen' = [e \in Escrows |->
                       IF <<c, e>> \notin read THEN seen[e]
                       ELSE IF order[<<c, e>>] = "open" THEN c ELSE None]
      BY <1>5 DEF ScanBinding
    <2>2. order' = order /\ pending' = pending
      BY <1>5 DEF ScanBinding, evm
    <2>3. ASSUME NEW e \in Escrows, seen'[e] # None
          PROVE  order'[<<seen'[e], e>>] # "empty"
      BY <1>1, <2>1, <2>2, <2>3
    <2> QED BY <2>2, <2>3
  <1> QED BY <1>3, <1>4, <1>5 DEF EvmStep

LEMMA LockedStep ==
  ASSUME Inv, [Next]_vars
  PROVE  /\ \A e \in Escrows : seen'[e] # None => order'[<<seen'[e], e>>] # "empty"
         /\ \A e \in Escrows : Locked(e) => \E c \in Chains : order'[<<c, e>>] # "empty"
  <1>1. \A e \in Escrows : seen[e] # None => order[<<seen[e], e>>] # "empty"
    BY DEF Inv, BookLocked
  <1>2. CASE EvmStep
    <2>1. /\ \A o \in Orders : order[o] # "empty" => order'[o] # "empty"
          /\ \A e \in Escrows : seen'[e] # None => order'[<<seen'[e], e>>] # "empty"
      BY <1>2, EvmLocked
    <2> QED BY <2>1 DEF Locked, Orders
  <1>3. CASE Restart
    <2>1. order' = order /\ seen' = [e \in Escrows |-> None]
      BY <1>3 DEF Restart, evm
    <2> QED BY <2>1 DEF Locked
  <1>4. CASE PlaceStep \/ LogStep \/ Journal \/ CancelOrder \/ Settler \/ UNCHANGED vars
    <2>1. order' = order /\ seen' = seen
      BY <1>4, PlaceFrame, LogFrame, OrderFrame, SettlerFrame, StutterFrame
    <2> QED BY <1>1, <2>1 DEF Locked
  <1> QED BY <1>2, <1>3, <1>4, Steps

LEMMA BookLockedStep ==
  ASSUME Inv, [Next]_vars
  PROVE  BookLocked'
  <1>1. /\ bids \in Seq(Bid) /\ Len(bids) \in Nat
        /\ \A i \in 1 .. Len(bids) : bids[i].escrow # None => Locked(bids[i].escrow)
    BY DEF Inv, BookLocked, TypeOK
  <1>2. \A i \in 1 .. Len(bids) : bids[i].escrow \in Escrows \union {None}
    <2>1. \A i \in 1 .. Len(bids) : bids[i] \in Bid
      BY <1>1
    <2> QED BY <2>1 DEF Bid
  <1>3. \A e \in Escrows : Locked(e) => \E c \in Chains : order'[<<c, e>>] # "empty"
    BY LockedStep
  <1> DEFINE Known(x) == x # None => \E c \in Chains : order'[<<c, x>>] # "empty"
  <1>4. \A i \in 1 .. Len(bids) : Known(bids[i].escrow)
    BY <1>1, <1>2, <1>3
  <1>5. \A i \in 1 .. Len(bids') : Known(bids'[i].escrow)
    <2>1. CASE PlaceStep
      <3>1. PICK new \in Seq(Fill), e \in Escrows \union {None} : Traded(new, e)
        BY <2>1, PlaceTrades
      <3>2. /\ e # None => Locked(e)
            /\ \A i \in 1 .. Len(bids') :
                 bids'[i].escrow = e \/ \E j \in 1 .. Len(bids) : bids'[i].escrow = bids[j].escrow
        BY <3>1 DEF Traded
      <3>3. Known(e)
        BY <1>3, <3>1, <3>2
      <3> HIDE DEF Known
      <3> QED BY <1>4, <3>2, <3>3
    <2>2. CASE Journal \/ CancelOrder
      <3>1. \A i \in 1 .. Len(bids') : \E j \in 1 .. Len(bids) : bids'[i] = bids[j]
        BY <2>2, TypeOrder
      <3> HIDE DEF Known
      <3> QED BY <1>4, <3>1
    <2>3. CASE Restart
      BY <2>3, RestartFacts
    <2>4. CASE EvmStep \/ LogStep \/ Settler \/ UNCHANGED vars
      <3>1. bids' = bids
        BY <2>4, EvmFrame, LogFrame, SettlerFrame, StutterFrame
      <3> HIDE DEF Known
      <3> QED BY <1>4, <3>1
    <2> QED BY <2>1, <2>2, <2>3, <2>4, Steps
  <1> QED BY <1>5, LockedStep DEF BookLocked, Locked

LEMMA SettlesMatchedStep ==
  ASSUME Inv, [Next]_vars
  PROVE  SettlesMatched'
  <1>1. /\ TypeOK /\ index \in [Ids -> Escrows \union {None}]
        /\ \A i \in 1 .. Len(fills) : fills[i].escrow # None => fills[i].escrow \in matched
        /\ \A i \in Ids : index[i] # None => index[i] \in matched
        /\ \A c \in Chains : pending[c] # None => pending[c] \in matched
    BY DEF Inv, SettlesMatched, TypeOK
  <1>2. CASE PlaceStep
    <2>1. PICK new \in Seq(Fill), e \in Escrows \union {None} : Traded(new, e)
      BY <1>2, PlaceTrades
    <2>2. /\ \A i \in 1 .. Len(fills) : fills'[i] = fills[i]
          /\ \A i \in 1 .. Len(fills') :
               i \in 1 .. Len(fills) \/ (fills'[i].escrow = e /\ (e # None => e \in matched'))
          /\ matched \subseteq matched'
      BY <2>1, TradedFacts
    <2>3. \A i \in 1 .. Len(fills') : fills'[i].escrow # None => fills'[i].escrow \in matched'
      BY <1>1, <2>2
    <2>4. index' = index /\ pending' = pending
      BY <1>2, PlaceFrame
    <2> QED BY <1>1, <2>2, <2>3, <2>4 DEF SettlesMatched
  <1>3. CASE Restart
    <2>1. index' = index /\ pending' = pending /\ matched' = matched
      BY <1>3 DEF Restart, evm, files
    <2> QED BY <1>1, <1>3, <2>1, RestartFacts DEF SettlesMatched
  <1>4. CASE Settler
    <2>1. fills' = fills /\ matched' = matched
      BY <1>4, SettlerFrame
    <2>2. ASSUME cursor < Len(fills), Indexed
          PROVE  \A i \in Ids : index'[i] # None => index'[i] \in matched
      <3>1. cursor + 1 \in 1 .. Len(fills)
        BY <2>2, Current
      <3>2. \A i \in Ids : index'[i] \in {index[i], fills[cursor + 1].escrow}
        BY <2>2, IndexedType
      <3> QED BY <1>1, <3>1, <3>2
    <2>3. CASE ReplaySend
      <3>1. log[next].id \in Ids /\ index[log[next].id] # None
        BY <2>3, Current, SendSteps DEF ReplayDue
      <3>2. index' = index /\ \A c \in Chains : pending'[c] \in {pending[c], index[log[next].id]}
        BY <2>3, SendSteps
      <3> QED BY <1>1, <2>1, <3>1, <3>2 DEF SettlesMatched
    <2>4. CASE ScanSend
      <3>1. /\ Indexed \/ index' = index
            /\ fills[cursor + 1].escrow # None
            /\ \A c \in Chains : pending'[c] \in {pending[c], fills[cursor + 1].escrow}
        BY <2>4, SendSteps DEF Scanning
      <3>2. cursor < Len(fills) /\ cursor + 1 \in 1 .. Len(fills)
        BY <2>4, SendSteps, Current DEF Scanning
      <3>3. \A i \in Ids : index'[i] # None => index'[i] \in matched
        BY <1>1, <2>2, <3>1, <3>2
      <3>4. fills[cursor + 1].escrow \in matched
        BY <1>1, <3>1, <3>2
      <3> HIDE DEF Indexed
      <3> QED BY <1>1, <2>1, <3>1, <3>3, <3>4 DEF SettlesMatched
    <2>5. CASE pending' = pending /\ Scanning /\ Indexed
      BY <1>1, <2>1, <2>2, <2>5 DEF SettlesMatched, Scanning
    <2>6. CASE pending' = pending /\ index' = index
      BY <1>1, <2>1, <2>6 DEF SettlesMatched
    <2>7. \/ ReplaySend \/ ScanSend \/ (pending' = pending /\ Scanning /\ Indexed)
          \/ (pending' = pending /\ index' = index)
      BY <1>4, SettlerSteps, RecordSteps, AdvanceSteps
    <2> QED BY <2>3, <2>4, <2>5, <2>6, <2>7
  <1>5. CASE EvmStep
    <2>1. fills' = fills /\ matched' = matched /\ index' = index
      BY <1>5, EvmFrame
    <2>2. \A c \in Chains : pending'[c] \in {pending[c], None}
      BY <1>5, EvmLocked
    <2> QED BY <1>1, <2>1, <2>2 DEF SettlesMatched
  <1>6. CASE LogStep \/ Journal \/ CancelOrder \/ UNCHANGED vars
    <2>1. fills' = fills /\ matched' = matched /\ index' = index /\ pending' = pending
      BY <1>6, LogFrame, OrderFrame, StutterFrame
    <2> QED BY <1>1, <2>1 DEF SettlesMatched
  <1> QED BY <1>2, <1>3, <1>4, <1>5, <1>6, Steps

-----------------------------------------------------------------------------
(* The marks of a fill: its tag, its log records, its place in the files.    *)
LEMMA TagRange ==
  ASSUME Inv
  PROVE  /\ \A i \in 1 .. Len(fills) : fills[i].tag \in 0 .. tags
         /\ \A k \in 1 .. Len(log) : log[k].tag \in 1 .. tags
         /\ \A t \in done : t \in 1 .. tags
  <1>1. TypeOK /\ tags \in Nat
    BY DEF Inv, TypeOK
  <1>2. /\ \A i \in 1 .. Len(fills) : fills[i].tag <= tags
        /\ \A k \in 1 .. Len(log) : log[k].tag \in 1 .. tags
        /\ done \subseteq 1 .. tags
    BY DEF Inv, Marks, TagsBounded
  <1>3. \A i \in 1 .. Len(fills) : fills[i].tag \in Nat
    BY <1>1, Fields
  <1>4. \A i \in 1 .. Len(fills) : fills[i].tag \in 0 .. tags
    BY <1>1, <1>2, <1>3
  <1> QED BY <1>2, <1>4

LEMMA MarksPlace ==
  ASSUME Inv, PlaceStep
  PROVE  Marks'
  <1>1. PICK new \in Seq(Fill), e \in Escrows \union {None} : Traded(new, e)
    BY PlaceTrades
  <1>2. /\ Len(fills') \in Nat /\ Len(fills) \in Nat /\ Len(fills) <= Len(fills')
        /\ tags \in Nat /\ tags' \in Nat /\ tags <= tags'
        /\ \A i \in 1 .. Len(fills) : i \in 1 .. Len(fills') /\ fills'[i] = fills[i]
        /\ \A i \in 1 .. Len(fills') :
             \/ i \in 1 .. Len(fills)
             \/ /\ Len(fills) < i
                /\ fills'[i].tag = tags + (i - Len(fills)) /\ fills'[i].tag <= tags'
    BY <1>1, TradedFacts
  <1>3. /\ log' = log /\ done' = done /\ recorded' = recorded
        /\ UNCHANGED <<cursor, next, upTo, sent>>
    BY PlaceFrame
  <1>4. \A i \in 1 .. Len(fills') :
          \/ i \in 1 .. Len(fills) /\ fills'[i] = fills[i]
          \/ Len(fills) < i /\ fills'[i].tag > tags /\ fills'[i].tag \in Nat
    BY <1>2
  <1>5. TypeOK /\ Len(log) \in Nat /\ cursor \in Nat /\ fi \in Nat
    BY DEF Inv, TypeOK
  <1>6. /\ \A i \in 1 .. Len(fills) : fills[i].tag \in 0 .. tags
        /\ \A k \in 1 .. Len(log) : log[k].tag \in 1 .. tags
        /\ \A t \in done : t \in 1 .. tags
    BY TagRange
  <1>7. TagsBounded'
    <2>1. \A i \in 1 .. Len(fills') : fills'[i].tag <= tags'
      BY <1>2, <1>6
    <2>2. \A k \in 1 .. Len(log') : log'[k].tag \in 1 .. tags'
      BY <1>2, <1>3, <1>6
    <2>3. done' \subseteq 1 .. tags'
      BY <1>2, <1>3, <1>6
    <2> QED BY <2>1, <2>2, <2>3 DEF TagsBounded
  <1>8. FillsTagged'
    <2>1. /\ \A i \in 1 .. Len(fills) : fills[i].escrow # None => fills[i].tag # 0
          /\ busy => \A i \in 1 .. Len(fills) : fi < i => fills[i].tag # 0
          /\ \A i, j \in 1 .. Len(fills) :
               fills[i].tag = fills[j].tag /\ fills[i].tag # 0 => i = j
      BY DEF Inv, Marks, FillsTagged
    <2>2. \A i \in 1 .. Len(fills') : fills'[i].escrow # None => fills'[i].tag # 0
      BY <1>2, <1>4, <2>1
    <2>3. busy' => \A i \in 1 .. Len(fills') : fi' < i => fills'[i].tag # 0
      <3>1. CASE busy' = busy /\ fi' = fi
        BY <1>2, <1>4, <2>1, <3>1
      <3>2. CASE fi' = Len(fills)
        BY <1>2, <1>4, <3>2
      <3> QED BY <3>1, <3>2, PlaceTrades
    <2>4. ASSUME NEW i \in 1 .. Len(fills'), NEW j \in 1 .. Len(fills'),
                 fills'[i].tag = fills'[j].tag, fills'[i].tag # 0
          PROVE  i = j
      <3>1. CASE i \in 1 .. Len(fills) /\ j \in 1 .. Len(fills)
        BY <1>2, <2>1, <2>4, <3>1
      <3>2. CASE i \notin 1 .. Len(fills) /\ j \notin 1 .. Len(fills)
        <4>1. /\ fills'[i].tag = tags + (i - Len(fills))
              /\ fills'[j].tag = tags + (j - Len(fills))
          BY <1>2, <3>2
        <4>2. i \in Nat /\ j \in Nat
          BY <1>2
        <4>3. tags + (i - Len(fills)) = tags + (j - Len(fills))
          BY <2>4, <4>1, Zenon
        <4> QED BY <1>2, <4>2, <4>3
      <3>3. CASE i \in 1 .. Len(fills) /\ j \notin 1 .. Len(fills)
        <4>1. fills'[i].tag \in 0 .. tags /\ fills'[j].tag > tags
          BY <1>2, <1>4, <1>6, <3>3
        <4> QED BY <1>2, <2>4, <4>1
      <3>4. CASE i \notin 1 .. Len(fills) /\ j \in 1 .. Len(fills)
        <4>1. fills'[j].tag \in 0 .. tags /\ fills'[i].tag > tags
          BY <1>2, <1>4, <1>6, <3>4
        <4> QED BY <1>2, <2>4, <4>1
      <3> QED BY <3>1, <3>2, <3>3, <3>4
    <2> QED BY <2>2, <2>3, <2>4 DEF FillsTagged
  <1>9. LogAgrees'
    <2>1. /\ \A i \in 1 .. Len(fills), k \in 1 .. Len(log) :
               fills[i].tag = log[k].tag => log[k].id = i
          /\ \A k, l \in 1 .. Len(log) : log[k].tag = log[l].tag => log[k].id = log[l].id
      BY DEF Inv, Marks, LogAgrees
    <2>2. ASSUME NEW i \in 1 .. Len(fills'), NEW k \in 1 .. Len(log), fills'[i].tag = log[k].tag
          PROVE  log[k].id = i
      <3>1. ~(log[k].tag > tags)
        BY <1>2, <1>6
      <3>2. i \in 1 .. Len(fills) /\ fills'[i] = fills[i]
        BY <1>4, <2>2, <3>1
      <3> QED BY <2>1, <2>2, <3>2
    <2> QED BY <1>3, <2>1, <2>2 DEF LogAgrees
  <1>10. DoneRecorded'
    <2>1. /\ \A k \in 1 .. Len(log) : log[k].tag \in done => log[k].id \in recorded
          /\ \A i \in 1 .. Len(fills) : fills[i].tag \in done => i \in recorded
      BY DEF Inv, Marks, DoneRecorded
    <2>2. \A i \in 1 .. Len(fills') : fills'[i].tag \in done => i \in recorded
      BY <1>2, <1>4, <1>6, <2>1
    <2> QED BY <1>3, <2>1, <2>2 DEF DoneRecorded
  <1>11. AtHand'
    <2>1. (Replaying <=> Replaying') /\ CurrentId' = CurrentId
      BY <1>3 DEF Replaying, CurrentId
    <2>2. sent \in {"sent", "recorded"} =>
            /\ cursor < CurrentId
            /\ ~Replaying => cursor < Len(fills) /\ fills[cursor + 1].tag # 0
      BY DEF Inv, Marks, AtHand
    <2>3. cursor < Len(fills) => cursor < Len(fills') /\ fills'[cursor + 1] = fills[cursor + 1]
      BY <1>2, <1>5
    <2> QED BY <1>3, <2>1, <2>2, <2>3 DEF AtHand
  <1>12. DonePassed'
    <2>1. CurrentId' = CurrentId
      BY <1>3 DEF Replaying, CurrentId
    <2>2. \A i \in 1 .. Len(fills) :
            fills[i].tag \in done => i <= cursor \/ (sent = "recorded" /\ i = CurrentId)
      BY DEF Inv, Marks, DonePassed
    <2>3. \A i \in 1 .. Len(fills') :
            fills'[i].tag \in done => i <= cursor \/ (sent = "recorded" /\ i = CurrentId)
      BY <1>2, <1>4, <1>6, <2>2
    <2> QED BY <1>3, <2>1, <2>3 DEF DonePassed
  <1> QED BY <1>7, <1>8, <1>9, <1>10, <1>11, <1>12 DEF Marks

LEMMA MarksLog ==
  ASSUME Inv, LogStep
  PROVE  Marks'
  <1>1. /\ Len(log) \in Nat /\ Len(log') \in Nat /\ Len(log) <= Len(log')
        /\ \A k \in 1 .. Len(log) : k \in 1 .. Len(log') /\ log'[k] = log[k]
        /\ \A k \in 1 .. Len(log') :
             k \in 1 .. Len(log) \/ (k = Len(log) + 1 /\ Recorded(log'[k]))
        /\ tags \in Nat /\ tags' \in Nat /\ tags <= tags'
    BY LogFacts
  <1>2. /\ fills' = fills /\ done' = done /\ recorded' = recorded /\ busy' = busy
        /\ UNCHANGED <<cursor, next, upTo, sent>>
    BY LogFrame
  <1>3. /\ TypeOK /\ Len(fills) \in Nat /\ fi \in Nat /\ fi' \in Nat /\ fi <= fi'
        /\ next \in 1 .. upTo + 1 /\ upTo \in 0 .. Len(log)
    <2>1. TypeOK /\ Len(fills) \in Nat /\ next \in 1 .. upTo + 1 /\ upTo \in 0 .. Len(log)
      BY DEF Inv, TypeOK
    <2>2. fi \in Nat /\ fi' \in Nat /\ fi <= fi'
      BY LogSteps
    <2> QED BY <2>1, <2>2
  <1>4. /\ \A i \in 1 .. Len(fills) : fills[i].tag \in 0 .. tags
        /\ \A k \in 1 .. Len(log) : log[k].tag \in 1 .. tags
        /\ \A t \in done : t \in 1 .. tags
    BY TagRange
  <1>5. /\ \A i \in 1 .. Len(fills) : fills[i].escrow # None => fills[i].tag # 0
        /\ busy => \A i \in 1 .. Len(fills) : fi < i => fills[i].tag # 0
        /\ \A i, j \in 1 .. Len(fills) :
             fills[i].tag = fills[j].tag /\ fills[i].tag # 0 => i = j
    BY DEF Inv, Marks, FillsTagged
  <1>6. ASSUME NEW k \in 1 .. Len(log'), k \notin 1 .. Len(log)
        PROVE  \/ /\ fi + 1 \in 1 .. Len(fills) /\ log'[k].id = fi + 1
                  /\ log'[k].tag = fills[fi + 1].tag /\ log'[k].tag \in 1 .. tags
               \/ log'[k].tag = tags + 1 /\ tags' = tags + 1
    <2>1. Recorded(log'[k])
      BY <1>1, <1>6
    <2>2. CASE /\ busy /\ fi < Len(fills) /\ log'[k].id = fi + 1
               /\ log'[k].tag = fills[fi + 1].tag
      <3>1. fi + 1 \in 1 .. Len(fills) /\ fi < fi + 1
        BY <1>3, <2>2
      <3>2. fills[fi + 1].tag \in 0 .. tags /\ fills[fi + 1].tag # 0
        BY <1>4, <1>5, <2>2, <3>1
      <3>3. \A t \in 0 .. tags : t # 0 => t \in 1 .. tags
        BY <1>1
      <3> QED BY <2>2, <3>1, <3>2, <3>3
    <2> QED BY <2>1, <2>2 DEF Recorded
  <1>7. TagsBounded'
    <2>1. \A i \in 1 .. Len(fills) : fills[i].tag <= tags'
      BY <1>1, <1>4
    <2>2. \A k \in 1 .. Len(log') : log'[k].tag \in 1 .. tags'
      BY <1>1, <1>4, <1>6
    <2>3. done \subseteq 1 .. tags'
      BY <1>1, <1>4
    <2> QED BY <1>2, <2>1, <2>2, <2>3 DEF TagsBounded
  <1>8. FillsTagged'
    <2>1. busy => \A i \in 1 .. Len(fills) : fi' < i => fills[i].tag # 0
      BY <1>3, <1>5
    <2> QED BY <1>2, <1>5, <2>1 DEF FillsTagged
  <1>9. LogAgrees'
    <2>1. /\ \A i \in 1 .. Len(fills), k \in 1 .. Len(log) :
               fills[i].tag = log[k].tag => log[k].id = i
          /\ \A k, l \in 1 .. Len(log) : log[k].tag = log[l].tag => log[k].id = log[l].id
      BY DEF Inv, Marks, LogAgrees
    <2>2. ASSUME NEW i \in 1 .. Len(fills), NEW k \in 1 .. Len(log'), fills[i].tag = log'[k].tag
          PROVE  log'[k].id = i
      <3>1. CASE k \in 1 .. Len(log)
        BY <1>1, <2>1, <2>2, <3>1
      <3>2. CASE k \notin 1 .. Len(log)
        <4>1. log'[k].tag # tags + 1
          BY <1>1, <1>4, <2>2
        <4>2. /\ fi + 1 \in 1 .. Len(fills) /\ log'[k].id = fi + 1
              /\ log'[k].tag = fills[fi + 1].tag /\ log'[k].tag \in 1 .. tags
          BY <1>6, <3>2, <4>1
        <4>3. fills[i].tag = fills[fi + 1].tag /\ fills[i].tag # 0
          BY <2>2, <4>2
        <4> QED BY <1>5, <4>2, <4>3
      <3> QED BY <3>1, <3>2
    <2>3. ASSUME NEW k \in 1 .. Len(log), NEW l \in 1 .. Len(log'), l \notin 1 .. Len(log),
                 log'[k].tag = log'[l].tag
          PROVE  log'[k].id = log'[l].id
      <3>1. log'[k] = log[k] /\ log[k].tag \in 1 .. tags
        BY <1>1, <1>4
      <3>2. log'[l].tag # tags + 1
        BY <1>1, <2>3, <3>1
      <3>3. fi + 1 \in 1 .. Len(fills) /\ log'[l].id = fi + 1 /\ log'[l].tag = fills[fi + 1].tag
        BY <1>6, <2>3, <3>2
      <3> QED BY <2>1, <2>3, <3>1, <3>3
    <2>4. ASSUME NEW k \in 1 .. Len(log'), NEW l \in 1 .. Len(log'), log'[k].tag = log'[l].tag
          PROVE  log'[k].id = log'[l].id
      <3>1. CASE k \in 1 .. Len(log) /\ l \in 1 .. Len(log)
        BY <1>1, <2>1, <2>4, <3>1
      <3>2. CASE k \in 1 .. Len(log) /\ l \notin 1 .. Len(log)
        BY <2>3, <2>4, <3>2
      <3>3. CASE k \notin 1 .. Len(log) /\ l \in 1 .. Len(log)
        BY <2>3, <2>4, <3>3
      <3>4. CASE k \notin 1 .. Len(log) /\ l \notin 1 .. Len(log)
        BY <1>1, <3>4
      <3> QED BY <3>1, <3>2, <3>3, <3>4
    <2> QED BY <1>2, <2>2, <2>4 DEF LogAgrees
  <1>10. DoneRecorded'
    <2>1. /\ \A k \in 1 .. Len(log) : log[k].tag \in done => log[k].id \in recorded
          /\ \A i \in 1 .. Len(fills) : fills[i].tag \in done => i \in recorded
      BY DEF Inv, Marks, DoneRecorded
    <2>2. ASSUME NEW k \in 1 .. Len(log'), log'[k].tag \in done
          PROVE  log'[k].id \in recorded
      <3>1. CASE k \in 1 .. Len(log)
        BY <1>1, <2>1, <2>2, <3>1
      <3>2. CASE k \notin 1 .. Len(log)
        <4>1. log'[k].tag # tags + 1
          BY <1>1, <1>4, <2>2
        <4>2. fi + 1 \in 1 .. Len(fills) /\ log'[k].id = fi + 1 /\ log'[k].tag = fills[fi + 1].tag
          BY <1>6, <3>2, <4>1
        <4> QED BY <2>1, <2>2, <4>2
      <3> QED BY <3>1, <3>2
    <2> QED BY <1>2, <2>1, <2>2 DEF DoneRecorded
  <1>11. (Replaying <=> Replaying') /\ CurrentId' = CurrentId
    <2>1. Replaying <=> Replaying'
      BY <1>2 DEF Replaying
    <2>2. Replaying => log'[next] = log[next]
      <3>1. Replaying => next \in 1 .. Len(log)
        BY <1>1, <1>3 DEF Replaying
      <3> QED BY <1>1, <3>1
    <2> QED BY <1>2, <2>1, <2>2 DEF CurrentId
  <1>12. AtHand'
    BY <1>2, <1>11 DEF Inv, Marks, AtHand
  <1>13. DonePassed'
    BY <1>2, <1>11 DEF Inv, Marks, DonePassed
  <1> QED BY <1>7, <1>8, <1>9, <1>10, <1>12, <1>13 DEF Marks

LEMMA MarksKept ==
  ASSUME Inv, EvmStep \/ Journal \/ CancelOrder \/ UNCHANGED vars
  PROVE  Marks'
  <1>1. UNCHANGED <<fills, tags, fi, log, recorded, cursor, next, upTo, sent, done>>
    BY EvmFrame, OrderFrame, StutterFrame
  <1>2. busy' = busy \/ busy' = FALSE
    BY EvmFrame, TypeOrder, StutterFrame
  <1>3. TagsBounded' /\ LogAgrees' /\ DoneRecorded'
    BY <1>1 DEF Inv, Marks, TagsBounded, LogAgrees, DoneRecorded
  <1>4. FillsTagged'
    BY <1>1, <1>2 DEF Inv, Marks, FillsTagged
  <1>5. AtHand' /\ DonePassed'
    BY <1>1 DEF Inv, Marks, AtHand, DonePassed, CurrentId, Replaying
  <1> QED BY <1>3, <1>4, <1>5 DEF Marks

LEMMA MarksRestart ==
  ASSUME Inv, Restart
  PROVE  Marks'
  <1>1. /\ TypeOK /\ Len(log) \in Nat /\ tags \in Nat
        /\ \A k \in 1 .. Len(log) : log[k].tag \in 1 .. tags
        /\ done \subseteq 1 .. tags
    BY DEF Inv, TypeOK, Marks, TagsBounded
  <1>2. /\ busy' = FALSE /\ sent' = "load"
        /\ log' = log /\ tags' = tags /\ done' = done /\ recorded' = recorded
    BY DEF Restart, files
  <1>3. \A i \in 1 .. Len(fills') : fills'[i].tag = 0 /\ fills'[i].escrow = None
    BY RestartFacts
  <1>4. TagsBounded'
    BY <1>1, <1>2, <1>3 DEF TagsBounded
  <1>5. FillsTagged'
    BY <1>2, <1>3 DEF FillsTagged
  <1>6. LogAgrees'
    <2>1. \A i \in 1 .. Len(fills'), k \in 1 .. Len(log) : fills'[i].tag # log[k].tag
      BY <1>1, <1>3
    <2> QED BY <1>2, <2>1 DEF Inv, Marks, LogAgrees
  <1>7. \A i \in 1 .. Len(fills') : fills'[i].tag \notin done
    BY <1>1, <1>3
  <1>8. DoneRecorded'
    BY <1>2, <1>7 DEF Inv, Marks, DoneRecorded
  <1>9. AtHand' /\ DonePassed'
    BY <1>2, <1>7 DEF AtHand, DonePassed
  <1> QED BY <1>4, <1>5, <1>6, <1>8, <1>9 DEF Marks

(* The settler keeps the marks when it adds nothing to what is done ...      *)
LEMMA MarksIdle ==
  ASSUME Inv, Settler, recorded' = recorded, done' = done,
         sent # "recorded", sent' # "recorded", cursor' \in Nat, cursor <= cursor',
         sent' = "sent" => /\ cursor' < CurrentId'
                           /\ ~Replaying' => cursor' < Len(fills) /\ fills[cursor' + 1].tag # 0
  PROVE  Marks'
  <1>1. fills' = fills /\ log' = log /\ tags' = tags /\ busy' = busy /\ fi' = fi
    BY SettlerFrame
  <1>2. TypeOK /\ cursor \in Nat /\ Len(fills) \in Nat
    BY DEF Inv, TypeOK
  <1>3. TagsBounded' /\ FillsTagged' /\ LogAgrees' /\ DoneRecorded'
    BY <1>1 DEF Inv, Marks, TagsBounded, FillsTagged, LogAgrees, DoneRecorded
  <1>4. AtHand'
    BY <1>1 DEF AtHand
  <1>5. DonePassed'
    <2>1. \A i \in 1 .. Len(fills) : fills[i].tag \in done => i <= cursor
      BY DEF Inv, Marks, DonePassed
    <2>2. \A i \in 1 .. Len(fills) : i <= cursor => i <= cursor'
      BY <1>2
    <2> QED BY <1>1, <2>1, <2>2 DEF DonePassed
  <1> QED BY <1>3, <1>4, <1>5 DEF Marks

(* ... when it records a settle ...                                          *)
LEMMA MarksRecord ==
  ASSUME Inv, RecordSettle
  PROVE  Marks'
  <1>1. fills' = fills /\ log' = log /\ tags' = tags /\ busy' = busy /\ fi' = fi
    BY SettlerFrame DEF Settler
  <1>2. /\ sent = "sent" /\ sent' = "recorded"
        /\ \/ recorded' = recorded \union {CurrentId} /\ done' = done \union {CurrentTag}
           \/ recorded' = recorded /\ done' = done
        /\ UNCHANGED <<pending, index, saved, cursor, next, upTo>>
    BY RecordSteps
  <1>3. CurrentId \in Ids /\ CurrentTag \in 1 .. tags /\ tags \in Nat /\ cursor \in Nat
    BY <1>2, Current
  <1>4. (Replaying <=> Replaying') /\ CurrentId' = CurrentId
    BY <1>1, <1>2 DEF Replaying, CurrentId
  <1>5. FillsTagged' /\ LogAgrees'
    BY <1>1 DEF Inv, Marks, FillsTagged, LogAgrees
  <1>6. TagsBounded'
    <2>1. done' \subseteq 1 .. tags
      BY <1>2, <1>3 DEF Inv, Marks, TagsBounded
    <2> QED BY <1>1, <2>1 DEF Inv, Marks, TagsBounded
  <1>7. AtHand'
    BY <1>1, <1>2, <1>4 DEF Inv, Marks, AtHand
  <1>8. /\ \A k \in 1 .. Len(log) : log[k].tag = CurrentTag => log[k].id = CurrentId
        /\ \A i \in 1 .. Len(fills) : fills[i].tag = CurrentTag => i = CurrentId
    <2>1. /\ \A i \in 1 .. Len(fills), k \in 1 .. Len(log) :
               fills[i].tag = log[k].tag => log[k].id = i
          /\ \A k, l \in 1 .. Len(log) : log[k].tag = log[l].tag => log[k].id = log[l].id
      BY DEF Inv, Marks, LogAgrees
    <2>2. CASE Replaying
      <3>1. next \in 1 .. Len(log) /\ CurrentId = log[next].id /\ CurrentTag = log[next].tag
        BY <2>2, Current
      <3> QED BY <2>1, <3>1
    <2>3. CASE ~Replaying
      <3>1. /\ cursor + 1 \in 1 .. Len(fills) /\ fills[cursor + 1].tag # 0
            /\ CurrentId = cursor + 1 /\ CurrentTag = fills[cursor + 1].tag
        BY <1>2, <2>3, Current DEF Inv, Marks, AtHand
      <3>2. \A i, j \in 1 .. Len(fills) :
              fills[i].tag = fills[j].tag /\ fills[i].tag # 0 => i = j
        BY DEF Inv, Marks, FillsTagged
      <3> QED BY <2>1, <3>1, <3>2
    <2> QED BY <2>2, <2>3
  <1>9. DoneRecorded'
    <2>1. /\ \A k \in 1 .. Len(log) : log[k].tag \in done => log[k].id \in recorded
          /\ \A i \in 1 .. Len(fills) : fills[i].tag \in done => i \in recorded
      BY DEF Inv, Marks, DoneRecorded
    <2> QED BY <1>1, <1>2, <1>8, <2>1 DEF DoneRecorded
  <1>10. DonePassed'
    <2>1. \A i \in 1 .. Len(fills) : fills[i].tag \in done => i <= cursor
      BY <1>2 DEF Inv, Marks, DonePassed
    <2>2. \A i \in 1 .. Len(fills) : fills[i].tag \in done' => i <= cursor \/ i = CurrentId
      BY <1>2, <1>8, <2>1
    <2> QED BY <1>1, <1>2, <1>4, <2>2 DEF DonePassed
  <1> QED BY <1>5, <1>6, <1>7, <1>9, <1>10 DEF Marks

(* ... and when it then moves its cursor.                                    *)
LEMMA MarksAdvance ==
  ASSUME Inv, AdvanceCursor
  PROVE  Marks'
  <1>1. fills' = fills /\ log' = log /\ tags' = tags /\ busy' = busy /\ fi' = fi
    BY SettlerFrame DEF Settler
  <1>2. /\ sent = "recorded" /\ sent' = "no" /\ Pass(CurrentId) /\ CurrentId \in Ids
        /\ recorded' = recorded /\ done' = done
    BY AdvanceSteps
  <1>3. TypeOK /\ cursor \in Nat /\ Len(fills) \in Nat /\ CurrentId \in Nat
    BY <1>2 DEF Inv, TypeOK, Ids
  <1>4. cursor' = CurrentId /\ cursor < CurrentId
    BY <1>2 DEF Pass, Inv, Marks, AtHand
  <1>5. TagsBounded' /\ FillsTagged' /\ LogAgrees' /\ DoneRecorded'
    BY <1>1, <1>2 DEF Inv, Marks, TagsBounded, FillsTagged, LogAgrees, DoneRecorded
  <1>6. AtHand'
    BY <1>2 DEF AtHand
  <1>7. DonePassed'
    <2>1. \A i \in 1 .. Len(fills) : fills[i].tag \in done => i <= cursor \/ i = CurrentId
      BY DEF Inv, Marks, DonePassed
    <2>2. \A i \in 1 .. Len(fills) : i <= cursor \/ i = CurrentId => i <= CurrentId
      BY <1>3, <1>4
    <2> QED BY <1>1, <1>2, <1>4, <2>1, <2>2 DEF DonePassed
  <1> QED BY <1>5, <1>6, <1>7 DEF Marks

LEMMA MarksSettler ==
  ASSUME Inv, Settler
  PROVE  Marks'
  <1>1. TypeOK /\ cursor \in Nat
    BY DEF Inv, TypeOK
  <1>2. CASE /\ sent = "load" /\ sent' = "no" /\ next' = 1 /\ upTo' = Len(log)
             /\ UNCHANGED <<pending, index, recorded, saved, cursor, done, mishaps, restarts>>
    BY <1>1, <1>2, MarksIdle
  <1>3. CASE /\ sent = "no" /\ Replaying /\ log[next].id > cursor /\ Pass(log[next].id)
             /\ next' = next + 1
             /\ UNCHANGED <<pending, index, recorded, upTo, sent, done>>
    <2>1. log[next].id \in Nat /\ cursor' = log[next].id
      BY <1>1, <1>3, Current, PassFacts DEF Ids
    <2>2. cursor <= cursor' /\ cursor' \in Nat
      BY <1>1, <1>3, <2>1
    <2> QED BY <1>3, <2>2, MarksIdle
  <1>4. CASE /\ sent = "no" /\ Replaying /\ next' = next + 1
             /\ UNCHANGED <<pending, index, recorded, saved, cursor, upTo, sent, done, mishaps,
                            restarts>>
    BY <1>1, <1>4, MarksIdle
  <1>5. CASE ReplaySend
    <2>1. /\ sent = "no" /\ Replaying /\ ReplayDue
          /\ UNCHANGED <<index, recorded, saved, cursor, upTo, done>>
          /\ \/ sent' = "sent" /\ next' = next
             \/ sent' = sent /\ next' = next + 1
      BY <1>5, SendSteps
    <2>2. ASSUME sent' = "sent"
          PROVE  cursor' < CurrentId' /\ Replaying'
      <3>1. next' = next /\ log' = log /\ upTo' = upTo
        BY <1>5, <2>1, <2>2, SettlerFrame DEF Settler
      <3>2. log[next].id > cursor
        BY <2>1 DEF ReplayDue, Undone
      <3>3. Replaying' /\ CurrentId' = log[next].id /\ log[next].id \in Ids
        BY <2>1, <3>1, Current DEF Replaying, CurrentId
      <3>4. \A i \in Ids : i > cursor => cursor < i
        BY <1>1 DEF Ids
      <3> QED BY <2>1, <3>2, <3>3, <3>4
    <2>3. sent # "recorded" /\ sent' # "recorded" /\ cursor' \in Nat /\ cursor <= cursor'
      BY <1>1, <2>1
    <2> QED BY <1>5, <2>1, <2>2, <2>3, MarksIdle
  <1>6. CASE /\ Scanning /\ Pass(cursor + 1)
             /\ UNCHANGED <<pending, index, recorded, next, upTo, sent, done>>
    <2>1. cursor' = cursor + 1 /\ sent = "no"
      BY <1>6 DEF Pass, Scanning
    <2> QED BY <1>1, <1>6, <2>1, MarksIdle
  <1>7. CASE ScanSend
    <2>1. /\ Scanning /\ fills[cursor + 1].escrow # None
          /\ sent' \in {"sent", sent}
          /\ UNCHANGED <<recorded, saved, cursor, next, upTo, done>>
      BY <1>7, SendSteps
    <2>2. sent = "no" /\ ~Replaying /\ cursor < Len(fills) /\ cursor + 1 \in 1 .. Len(fills)
      BY <2>1, Current DEF Scanning
    <2>3. fills[cursor + 1].tag # 0
      BY <2>1, <2>2 DEF Inv, Marks, FillsTagged
    <2>4. ~Replaying' /\ CurrentId' = cursor + 1
      BY <2>1, <2>2 DEF Replaying, CurrentId
    <2>5. cursor < cursor + 1 /\ cursor <= cursor
      BY <1>1
    <2> QED BY <1>1, <1>7, <2>1, <2>2, <2>3, <2>4, <2>5, MarksIdle
  <1>8. CASE /\ Scanning /\ Indexed
             /\ UNCHANGED <<pending, recorded, saved, cursor, next, upTo, sent, done, mishaps,
                            restarts>>
    <2>1. sent = "no"
      BY <1>8 DEF Scanning
    <2> QED BY <1>1, <1>8, <2>1, MarksIdle
  <1> QED BY <1>2, <1>3, <1>4, <1>5, <1>6, <1>7, <1>8, MarksRecord, MarksAdvance, SettlerSteps

LEMMA InvInit == Init => Inv
  <1> SUFFICES ASSUME Init PROVE Inv
    OBVIOUS
  <1>1. TypeOK
    BY TypeInit
  <1>2. BookLocked
    BY DEF Init, BookLocked
  <1>3. SettlesMatched
    BY DEF Init, SettlesMatched
  <1>4. Marks
    BY DEF Init, Marks, TagsBounded, FillsTagged, LogAgrees, DoneRecorded, AtHand, DonePassed
  <1> QED BY <1>1, <1>2, <1>3, <1>4 DEF Inv

LEMMA InvStep ==
  ASSUME Inv, [Next]_vars
  PROVE  Inv'
  <1>1. Marks'
    BY Steps, MarksPlace, MarksLog, MarksKept, MarksRestart, MarksSettler
  <1> QED BY <1>1, TypeStep, BookLockedStep, SettlesMatchedStep DEF Inv

(* For every number of escrows, chains, orders, fills, restarts, failed      *)
(* writes and lost answers: log records of one fill agree on its id, and     *)
(* what the settle log holds is behind the cursor or at hand.                *)
THEOREM InvHolds == Spec => []Inv
  BY InvInit, InvStep, PTL DEF Spec

(* Files, book, watcher and contracts keep their types.                      *)
THEOREM TypeCorrect == Spec => []TypeOK
  <1>1. Inv => TypeOK
    BY DEF Inv
  <1> QED BY <1>1, InvHolds, PTL

-----------------------------------------------------------------------------
(* Only the two sends send.                                                  *)
LEMMA SendsOnly ==
  ASSUME Inv, [Next]_vars, Sends
  PROVE  ReplaySend \/ ScanSend
  <1>1. CASE Settler
    <2>1. CASE sent = "load" /\ sent' = "no" /\ pending' = pending
      BY <2>1 DEF Sends
    <2>2. CASE sent' = sent /\ pending' = pending
      BY <2>2 DEF Sends
    <2>3. CASE RecordSettle \/ AdvanceCursor
      BY <2>3, RecordSteps, AdvanceSteps DEF Sends
    <2> QED BY <1>1, <2>1, <2>2, <2>3, SettlerSteps
  <1>2. CASE EvmStep
    <2>1. sent' = sent /\ \A c \in Chains : pending'[c] \in {pending[c], None}
      BY <1>2, EvmFrame, EvmLocked
    <2> QED BY <2>1 DEF Sends
  <1>3. CASE Restart
    <2>1. sent' = "load" /\ pending' = pending
      BY <1>3 DEF Restart, evm
    <2> QED BY <2>1 DEF Sends
  <1>4. CASE PlaceStep \/ LogStep \/ Journal \/ CancelOrder \/ UNCHANGED vars
    <2>1. sent' = sent /\ pending' = pending
      BY <1>4, PlaceFrame, LogFrame, OrderFrame, StutterFrame
    <2> QED BY <2>1 DEF Sends
  <1> QED BY <1>1, <1>2, <1>3, <1>4, Steps

LEMMA SendStep ==
  ASSUME Inv, [Next]_vars, Sends
  PROVE  CurrentTag \notin done
  <1>1. CASE ReplaySend
    <2>1. Replaying /\ ReplayDue
      BY <1>1, SendSteps
    <2>2. next \in 1 .. Len(log) /\ CurrentTag = log[next].tag
      BY <2>1, Current
    <2>3. log[next].id \notin recorded
      BY <2>1 DEF ReplayDue
    <2> QED BY <2>2, <2>3 DEF Inv, Marks, DoneRecorded
  <1>2. CASE ScanSend
    <2>1. Scanning /\ cursor \in Nat
      BY <1>2, SendSteps, Current
    <2>2. /\ cursor + 1 \in 1 .. Len(fills) /\ CurrentTag = fills[cursor + 1].tag
          /\ sent = "no"
      BY <2>1, Current DEF Scanning
    <2>3. fills[cursor + 1].tag \in done => cursor + 1 <= cursor
      BY <2>2 DEF Inv, Marks, DonePassed
    <2>4. ~(cursor + 1 <= cursor)
      BY <2>1
    <2> QED BY <2>2, <2>3, <2>4
  <1> QED BY <1>1, <1>2, SendsOnly

(* For every number of restarts, failed writes and lost answers, and         *)
(* whatever ids the records of other engines carry, a fill whose settle is   *)
(* in the settle log is not sent again.                                      *)
THEOREM NeverSentAgainCorrect == Spec => NeverSentAgain
  BY InvHolds, SendStep, PTL DEF Spec, NeverSentAgain

-----------------------------------------------------------------------------
(* The implementation of the abstract escrow.                                *)
LEMMA EscrowInit == Init => E!Init
  BY DEF Init, E!Init, Orders, E!Orders

LEMMA EscrowStep ==
  ASSUME Inv, [Next]_vars
  PROVE  [E!Next]_E!vars
  <1>1. ASSUME order' = order, matched' = matched
        PROVE  [E!Next]_E!vars
    BY <1>1 DEF E!vars
  <1>2. E!Orders = Orders
    BY DEF Orders, E!Orders
  <1>3. CASE EvmStep
    <2>1. matched' = matched
      BY <1>3, EvmFrame
    <2>2. ASSUME NEW o \in Orders, Lock(o) \/ Refund(o)
          PROVE  E!Next
      <3>1. E!Lock(o) \/ E!Refund(o)
        BY <2>1, <2>2 DEF Lock, Refund, E!Lock, E!Refund
      <3> QED BY <1>2, <3>1 DEF E!Next
    <2>3. ASSUME NEW c \in Chains, MineSettle(c), order' # order
          PROVE  E!Next
      <3> DEFINE o == <<c, pending[c]>>
      <3>1. pending[c] # None /\ order[o] = "open" /\ order' = [order EXCEPT ![o] = "settled"]
        BY <2>3 DEF MineSettle
      <3>2. pending[c] \in Escrows /\ pending[c] \in matched
        BY <3>1 DEF Inv, TypeOK, SettlesMatched
      <3>3. o \in Orders /\ o[2] = pending[c]
        BY <3>2 DEF Orders
      <3>4. E!Pay(o)
        BY <2>1, <3>1, <3>2, <3>3 DEF E!Pay
      <3> HIDE DEF o
      <3> QED BY <1>2, <3>3, <3>4 DEF E!Next
    <2>4. ASSUME NEW c \in Chains, DropSettle(c) \/ ScanBinding(c)
          PROVE  order' = order
      BY <2>4 DEF DropSettle, ScanBinding, evm
    <2> QED BY <1>1, <1>3, <2>1, <2>2, <2>3, <2>4 DEF EvmStep
  <1>4. CASE PlaceStep
    <2>1. PICK new \in Seq(Fill), e \in Escrows \union {None} : Traded(new, e)
      BY <1>4, PlaceTrades
    <2>2. order' = order
      BY <1>4, PlaceFrame
    <2>3. matched' = matched \/ (e # None /\ matched' = matched \union {e})
      BY <2>1, TradedFacts
    <2>4. CASE e # None /\ matched' = matched \union {e}
      <3>1. e \in Escrows /\ \E c \in Chains : order[<<c, e>>] # "empty"
        BY <2>1, <2>4 DEF Traded, Locked
      <3>2. E!Match(e)
        BY <2>2, <2>4, <3>1 DEF E!Match
      <3> QED BY <3>1, <3>2 DEF E!Next
    <2> QED BY <1>1, <2>2, <2>3, <2>4
  <1>5. CASE LogStep \/ Journal \/ CancelOrder \/ Settler \/ UNCHANGED vars
    BY <1>1, <1>5, LogFrame, OrderFrame, SettlerFrame, StutterFrame
  <1>6. CASE Restart
    BY <1>1, <1>6 DEF Restart, evm
  <1> QED BY <1>3, <1>4, <1>5, <1>6, Steps

(* For every number of chains, escrows, orders, restarts, failures and lost  *)
(* answers, whatever the journal replays, the escrows keep what they         *)
(* promise.                                                                  *)
THEOREM EscrowKeptCorrect == Spec => EscrowKept
  BY EscrowInit, EscrowStep, InvHolds, PTL DEF Spec, EscrowKept, E!Spec
===============================================================================
