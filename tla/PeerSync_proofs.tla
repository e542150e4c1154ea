--------------------------- MODULE PeerSync_proofs ---------------------------
(***************************************************************************)
(* What holds of the chains for any number of nodes, any seeds, starting   *)
(* chains and limits.  The invariant says of every response on its way     *)
(* what the handler never checks: that its blocks fit the heights it       *)
(* claims for them, whatever the sender has done to its chain since.  A     *)
(* block that was appended off its height, and what is mined on it, is     *)
(* carried along everywhere as the exception it is.                        *)
(***************************************************************************)
EXTENDS PeerSync, SequenceTheorems, TLAPS

InPlace(hash, height) == OnTime(hash) => Len(hash) = height

\* Chains on genesis with every block at the height it was made for.
Chains == {c \in Seq(Hash) : /\ c # << >> /\ c[1] = Genesis
                            /\ \A i \in 1 .. Len(c) : InPlace(c[i], i - 1)}

\* Work on a block for the height it will be made for.
Jobs == {j \in [tip : Hash, index : Nat] : InPlace(j.tip, j.index - 1)}

\* Responses whose blocks were made for the heights claimed.
Fitting == {m \in Headers : \A i \in 1 .. Len(m.blocks) : InPlace(m.blocks[i], m.from + i - 1)}

Messages == Message0 \cup Announcement \cup Request \cup Fitting
Wires == [Nodes -> [Nodes -> Seq(Messages)]]

Managers == [local : Nat, target : Nat, downloading : BOOLEAN]
Phases == {"off", "boot", "slot", "pow", "mined", "dialled", "maintained"}
Processes ==
  [chain : Chains, phase : Phases, mined : Nat, job : Jobs, known : Nat, count : Nat,
   syncing : BOOLEAN, sm : Managers, fails : Nat, seen : SUBSET Hash]

EntryRecords == [listed : BOOLEAN, connected : BOOLEAN, outbound : BOOLEAN,
                 height : Nat, queued : BOOLEAN, attempts : 0 .. MaxAttempts]
\* A redial that is still queued has attempts left.
Entries == {e \in EntryRecords : e.queued => e.attempts < MaxAttempts}

NodeInv == node \in [Nodes -> Processes]
PeersInv == peers \in [Nodes -> [Nodes -> Entries]]
WireInv == wire \in Wires
MinedInv == \A n \in Nodes : node[n].mined <= MaxMined[n]
LinkInv == \A pair \in link : \E n, p \in Nodes : pair = {n, p}
FaultInv == faults \in 0 .. MaxFaults

IInv == NodeInv /\ PeersInv /\ WireInv /\ MinedInv /\ LinkInv /\ FaultInv
\* What an action may do to a chain.
Extends(c, d) == Len(c) <= Len(d) /\ \A i \in 1 .. Len(c) : d[i] = c[i]
Replaces(c, d) == Len(c) < Len(d) /\ \A i \in 1 .. Len(c) - ReorgDepth : d[i] = c[i]
Recovers(c, d) == Len(d) = Len(c) - 2 /\ \A i \in 1 .. Len(d) : d[i] = c[i]
-----------------------------------------------------------------------------
(* Chains *)

LEMMA ChainFacts ==
  ASSUME NEW c \in Chains
  PROVE  /\ c \in Seq(Hash) /\ c # << >> /\ Len(c) \in Nat \ {0} /\ c[1] = Genesis
         /\ \A i \in 1 .. Len(c) : c[i] \in Hash /\ InPlace(c[i], i - 1)
  BY EmptySeq, ElementOfSeq DEF Chains

LEMMA ChainIntro ==
  ASSUME NEW c \in Seq(Hash), Len(c) # 0, c[1] = Genesis,
         \A i \in 1 .. Len(c) : InPlace(c[i], i - 1)
  PROVE  c \in Chains
<1>1. c # << >>
  BY EmptySeq
<1>2. QED BY <1>1 DEF Chains

\* The chain above genesis that a tip stands for.
LEMMA ChainOfFacts ==
  ASSUME NEW h \in Hash
  PROVE  ChainOf(h) \in Chains
<1>1. h \in Seq(Nodes \X Nat \X BOOLEAN) /\ Len(h) \in Nat
  BY DEF Hash
<1>2. ASSUME NEW i \in 1 .. Len(h) + 1
      PROVE  SubSeq(h, 1, i - 1) \in Hash /\ Len(SubSeq(h, 1, i - 1)) = i - 1
  <2>1. \A j \in 1 .. i - 1 : h[j] \in Nodes \X Nat \X BOOLEAN
    BY <1>1, ElementOfSeq
  <2>2. QED BY <1>1, <2>1, SubSeqProperties DEF Hash
<1>3. /\ ChainOf(h) \in Seq(Hash) /\ Len(ChainOf(h)) = Len(h) + 1
      /\ \A i \in 1 .. Len(h) + 1 : ChainOf(h)[i] = SubSeq(h, 1, i - 1)
  BY <1>1, <1>2 DEF ChainOf
<1>4. ChainOf(h)[1] = Genesis
  <2>1. 1 \in 1 .. Len(h) + 1
    BY <1>1
  <2>2. SubSeq(h, 1, 0) = << >>
    BY <1>1, SubSeqEmpty
  <2>3. ChainOf(h)[1] = SubSeq(h, 1, 1 - 1)
    BY <1>3, <2>1
  <2>4. QED BY <2>2, <2>3 DEF Genesis
<1> DEFINE c == ChainOf(h)
<1> HIDE DEF c
<1>5. c \in Seq(Hash) /\ Len(c) # 0 /\ c[1] = Genesis /\ \A i \in 1 .. Len(c) : Len(c[i]) = i - 1
  BY <1>1, <1>2, <1>3, <1>4 DEF c
<1>6. QED BY <1>5, ChainIntro DEF c, InPlace

\* The first k blocks of a chain are a chain.
LEMMA CutFacts ==
  ASSUME NEW c \in Chains, NEW k \in 1 .. Len(c)
  PROVE  /\ SubSeq(c, 1, k) \in Chains
         /\ Len(SubSeq(c, 1, k)) = k
         /\ \A i \in 1 .. k : SubSeq(c, 1, k)[i] = c[i]
<1> DEFINE d == SubSeq(c, 1, k)
<1>1. /\ c \in Seq(Hash) /\ Len(c) \in Nat /\ c[1] = Genesis
      /\ \A i \in 1 .. Len(c) : c[i] \in Hash /\ InPlace(c[i], i - 1)
  BY ChainFacts
<1>2. /\ SubSeq(c, 1, k) \in Seq(Hash) /\ Len(SubSeq(c, 1, k)) = k
      /\ \A i \in 1 .. k : SubSeq(c, 1, k)[i] = c[i]
  BY <1>1, SubSeqProperties
<1> HIDE DEF d
<1>3. d \in Seq(Hash) /\ Len(d) = k /\ \A i \in 1 .. k : d[i] = c[i]
  BY <1>2 DEF d
<1>4. ASSUME NEW i \in 1 .. Len(d) PROVE InPlace(d[i], i - 1)
  <2>1. i \in 1 .. k /\ i \in 1 .. Len(c)
    BY <1>1, <1>3
  <2>2. d[i] = c[i] /\ InPlace(c[i], i - 1)
    BY <1>1, <1>3, <2>1
  <2>3. QED BY <2>2
<1>5. Len(d) # 0 /\ d[1] = Genesis
  <2>1. 1 \in 1 .. k
    OBVIOUS
  <2>2. QED BY <1>1, <1>3, <2>1
<1>6. d \in Chains
  BY <1>3, <1>4, <1>5, ChainIntro
<1>7. QED BY <1>3, <1>6 DEF d

\* Blocks made for the heights above a chain continue it.
LEMMA JoinFacts ==
  ASSUME NEW c \in Chains, NEW s \in Seq(Hash),
         \A i \in 1 .. Len(s) : InPlace(s[i], Len(c) + i - 1)
  PROVE  /\ c \o s \in Chains
         /\ Len(c \o s) = Len(c) + Len(s)
         /\ \A i \in 1 .. Len(c) : (c \o s)[i] = c[i]
<1>1. /\ c \in Seq(Hash) /\ c # << >> /\ Len(c) \in Nat \ {0} /\ Len(s) \in Nat /\ c[1] = Genesis
      /\ \A i \in 1 .. Len(c) : InPlace(c[i], i - 1)
  BY ChainFacts, LenProperties
<1>2. /\ c \o s \in Seq(Hash) /\ Len(c \o s) = Len(c) + Len(s)
      /\ \A i \in 1 .. Len(c) + Len(s) : (c \o s)[i] = IF i <= Len(c) THEN c[i] ELSE s[i - Len(c)]
  BY <1>1, ConcatProperties
<1>3. ASSUME NEW i \in 1 .. Len(c) + Len(s)
      PROVE  InPlace((c \o s)[i], i - 1)
  <2>1. CASE i <= Len(c)
    BY <1>1, <1>2, <2>1
  <2>2. CASE ~(i <= Len(c))
    <3>1. i - Len(c) \in 1 .. Len(s) /\ Len(c) + (i - Len(c)) - 1 = i - 1
      BY <1>1, <2>2
    <3>2. InPlace(s[i - Len(c)], Len(c) + (i - Len(c)) - 1)
      BY <3>1
    <3>3. (c \o s)[i] = s[i - Len(c)]
      BY <1>1, <1>2, <2>2
    <3>4. QED BY <3>1, <3>2, <3>3, Zenon
  <2>3. QED BY <2>1, <2>2
<1>4. (c \o s)[1] = Genesis
  <2>1. 1 \in 1 .. Len(c) + Len(s) /\ 1 <= Len(c)
    BY <1>1
  <2>2. QED BY <1>1, <1>2, <2>1
<1> DEFINE d == c \o s
<1> HIDE DEF d
<1>5. d \in Seq(Hash) /\ Len(d) # 0 /\ d[1] = Genesis /\ \A i \in 1 .. Len(d) : InPlace(d[i], i - 1)
  BY <1>1, <1>2, <1>3, <1>4 DEF d
<1>6. d \in Chains
  BY <1>5, ChainIntro
<1>7. QED BY <1>1, <1>2, <1>6 DEF d

\* A block made on the tip a job holds, appended to any chain: in place if the
\* chain still has the length the job found.
LEMMA MinedInPlace ==
  ASSUME NEW j \in Jobs, NEW x \in Nodes, NEW k \in Nat, NEW len \in Nat
  PROVE  LET h == Append(j.tip, <<x, k, len = j.index>>)
         IN  h \in Hash /\ InPlace(h, len)
<1> DEFINE b == <<x, k, len = j.index>>
           h == Append(j.tip, b)
<1>1. b \in Nodes \X Nat \X BOOLEAN /\ b[3] = (len = j.index)
  OBVIOUS
<1>2. /\ j.tip \in Seq(Nodes \X Nat \X BOOLEAN) /\ Len(j.tip) \in Nat /\ j.index \in Nat
      /\ InPlace(j.tip, j.index - 1)
  BY DEF Jobs, Hash
<1> HIDE DEF b
<1>3. /\ h \in Hash /\ Len(h) = Len(j.tip) + 1 /\ h[Len(j.tip) + 1] = b
      /\ \A i \in 1 .. Len(j.tip) : h[i] = j.tip[i]
  BY <1>1, <1>2, AppendProperties DEF Hash
<1> HIDE DEF h
<1>4. DOMAIN h = 1 .. Len(j.tip) + 1 /\ DOMAIN j.tip = 1 .. Len(j.tip)
  BY <1>2, <1>3 DEF Hash
<1>5. ASSUME OnTime(h) PROVE Len(h) = len
  <2>1. len = j.index
    <3>1. Len(j.tip) + 1 \in DOMAIN h
      BY <1>2, <1>4
    <3>2. b[3]
      BY <1>3, <1>5, <3>1 DEF OnTime
    <3>3. QED BY <1>1, <3>2
  <2>2. OnTime(j.tip)
    <3> SUFFICES ASSUME NEW i \in DOMAIN j.tip PROVE j.tip[i][3]
      BY DEF OnTime
    <3>1. i \in 1 .. Len(j.tip) /\ i \in DOMAIN h
      BY <1>2, <1>4
    <3>2. h[i][3] /\ h[i] = j.tip[i]
      BY <1>3, <1>5, <3>1 DEF OnTime
    <3>3. QED BY <3>2
  <2>3. Len(j.tip) = j.index - 1
    BY <1>2, <2>2 DEF InPlace
  <2>4. QED BY <1>2, <1>3, <2>1, <2>3
<1>6. QED BY <1>3, <1>5 DEF h, b, InPlace

\* A block that is in place at the end of a chain makes it longer.
LEMMA AppendFacts ==
  ASSUME NEW c \in Chains, NEW h \in Hash, InPlace(h, Len(c))
  PROVE  Append(c, h) \in Chains /\ Extends(c, Append(c, h))
<1>1. /\ c \in Seq(Hash) /\ Len(c) \in Nat \ {0} /\ c[1] = Genesis
      /\ \A i \in 1 .. Len(c) : InPlace(c[i], i - 1)
  BY ChainFacts
<1> DEFINE d == Append(c, h)
<1>2. /\ d \in Seq(Hash) /\ Len(d) = Len(c) + 1 /\ d[Len(c) + 1] = h
      /\ \A i \in 1 .. Len(c) : d[i] = c[i]
  BY <1>1, AppendProperties
<1> HIDE DEF d
<1>3. ASSUME NEW i \in 1 .. Len(d) PROVE InPlace(d[i], i - 1)
  <2>1. CASE i \in 1 .. Len(c)
    BY <1>1, <1>2, <2>1
  <2>2. CASE i \notin 1 .. Len(c)
    <3>1. i = Len(c) + 1 /\ i - 1 = Len(c)
      BY <1>1, <1>2, <2>2
    <3>2. d[i] = h
      BY <1>2, <3>1
    <3>3. QED BY <3>1, <3>2, Zenon
  <2>3. QED BY <2>1, <2>2
<1>4. Len(d) # 0 /\ d[1] = Genesis
  <2>1. 1 \in 1 .. Len(c)
    BY <1>1
  <2>2. QED BY <1>1, <1>2, <2>1
<1>5. d \in Chains
  BY <1>2, <1>3, <1>4, ChainIntro
<1>6. Extends(c, d)
  BY <1>1, <1>2 DEF Extends
<1>7. QED BY <1>5, <1>6 DEF d

LEMMA JobFacts ==
  ASSUME NEW c \in Chains
  PROVE  [tip |-> Last(c), index |-> Len(c)] \in Jobs
<1>1. /\ c \in Seq(Hash) /\ Len(c) \in Nat \ {0}
      /\ \A i \in 1 .. Len(c) : c[i] \in Hash /\ InPlace(c[i], i - 1)
  BY ChainFacts
<1>2. Len(c) \in 1 .. Len(c)
  BY <1>1
<1>3. Last(c) \in Hash /\ InPlace(Last(c), Len(c) - 1)
  BY <1>1, <1>2 DEF Last
<1>4. QED BY <1>1, <1>3 DEF Jobs

LEMMA NoJobFacts == NoJob \in Jobs
<1>1. << >> \in Hash /\ Len(<< >>) = 1 - 1
  BY EmptySeq DEF Hash
<1>2. QED BY <1>1 DEF NoJob, Genesis, Jobs, InPlace
-----------------------------------------------------------------------------
(* Messages *)

\* What a node answers fits the heights it claims, whatever was asked for.
LEMMA ResponseFits ==
  ASSUME NEW n \in Nodes, NodeInv, NEW from \in Nat
  PROVE  Response(n, from) \in Fitting
<1> DEFINE c == Chain(n)
           hi == Smaller(from + Batch, Len(c))
           blocks == IF Attached(n) THEN SubSeq(c, from + 1, hi) ELSE << >>
<1>1. /\ c \in Chains /\ c \in Seq(Hash) /\ Len(c) \in Nat
      /\ \A i \in 1 .. Len(c) : c[i] \in Hash /\ InPlace(c[i], i - 1)
  <2>1. c \in Chains
    BY DEF NodeInv, Processes, Chain
  <2>2. QED BY <2>1, ChainFacts
<1> HIDE DEF c
<1>2. hi \in Int /\ hi <= Len(c)
  BY <1>1, SyncAssumption DEF Smaller
<1> HIDE DEF hi
<1>3. blocks \in Seq(Hash) /\ \A i \in 1 .. Len(blocks) : InPlace(blocks[i], from + i - 1)
  <2>1. CASE Attached(n)
    <3> DEFINE s == SubSeq(c, from + 1, hi)
    <3>1. \A i \in from + 1 .. hi : c[i] \in Hash
      BY <1>1, <1>2
    <3>2. /\ s \in Seq(Hash)
          /\ Len(s) = IF from + 1 <= hi THEN hi - (from + 1) + 1 ELSE 0
          /\ \A i \in 1 .. hi - (from + 1) + 1 : s[i] = c[from + 1 + i - 1]
      BY <1>2, <3>1, SubSeqProperties
    <3> HIDE DEF s
    <3>3. ASSUME NEW i \in 1 .. Len(s) PROVE InPlace(s[i], from + i - 1)
      <4>1. i \in 1 .. hi - (from + 1) + 1 /\ from + i \in 1 .. Len(c)
        BY <1>1, <1>2, <3>2
      <4>2. s[i] = c[from + i] /\ InPlace(c[from + i], from + i - 1)
        BY <1>1, <3>2, <4>1
      <4>3. QED BY <4>2
    <3>4. blocks = s
      BY <2>1 DEF s
    <3>5. QED BY <3>2, <3>3, <3>4
  <2>2. CASE ~Attached(n)
    BY <2>2, EmptySeq
  <2>3. QED BY <2>1, <2>2
<1>4. Response(n, from) = [type |-> "sync_response", from |-> from, blocks |-> blocks]
  BY DEF Response, c, hi
<1> HIDE DEF blocks
<1>5. QED BY <1>3, <1>4 DEF Fitting, Headers

LEMMA SendFacts ==
  ASSUME NEW w \in Wires, NEW n \in Nodes, NEW p \in Nodes, NEW m \in Messages
  PROVE  Send(w, n, p, m) \in Wires
<1>1. Append(w[n][p], m) \in Seq(Messages)
  BY AppendProperties DEF Wires
<1>2. QED BY <1>1 DEF Send, Wires

LEMMA RequestFacts ==
  ASSUME NEW from \in Nat
  PROVE  [type |-> "sync_request", from |-> from] \in Messages
  BY DEF Messages, Request

LEMMA AskFacts ==
  ASSUME NEW w \in Wires, NEW n \in Nodes, NEW from \in Nat, NEW entries, NEW forced,
         NEW v \in Ask(n, entries, from, forced, w)
  PROVE  v \in Wires
  BY SendFacts, RequestFacts DEF Ask

LEMMA AskForBlockFacts ==
  ASSUME NodeInv, NEW w \in Wires, NEW n \in Nodes, NEW entries,
         NEW ann \in Announcement, NEW v \in AskForBlock(n, entries, ann, w)
  PROVE  v \in Wires
<1>1. Len(Chain(n)) \in Nat /\ ann.height \in Nat
  BY ChainFacts DEF NodeInv, Processes, Chain, Announcement
<1>2. Larger(ann.height - Lookback, 0) \in Nat
  BY <1>1, SyncAssumption DEF Larger
<1>3. QED BY <1>1, <1>2, AskFacts DEF AskForBlock

LEMMA TakenFacts ==
  ASSUME WireInv, NEW n \in Nodes, NEW p \in Nodes, wire[p][n] # << >>
  PROVE  Message(n, p) \in Messages /\ Taken(n, p) \in Wires
<1>1. wire[p][n] \in Seq(Messages)
  BY DEF WireInv, Wires
<1>2. Head(wire[p][n]) \in Messages /\ Tail(wire[p][n]) \in Seq(Messages)
  BY <1>1, HeadTailProperties
<1>3. QED BY <1>2 DEF Message, Taken, WireInv, Wires

LEMMA MessageTypes ==
  ASSUME NEW m \in Messages
  PROVE  /\ m.type \in {"hello", "welcome", "ping", "pong"} => m \in Message0
         /\ m.type \in {"block", "block_gossip"} => m \in Announcement
         /\ m.type = "sync_request" => m \in Request
         /\ m.type = "sync_response" => m \in Fitting
  BY DEF Messages, Message0, Announcement, Request, Headers, Fitting

LEMMA GreetingFacts ==
  ASSUME NodeInv, NEW n \in Nodes, NEW type \in {"hello", "welcome", "ping", "pong"}
  PROVE  Greeting(n, type) \in Messages
  BY DEF NodeInv, Processes, Greeting, Messages, Message0
-----------------------------------------------------------------------------
(* Peer lists *)

LEMMA EntryHeight ==
  ASSUME NEW e \in Entries, NEW h \in Nat
  PROVE  [e EXCEPT !.height = h] \in Entries
  BY DEF Entries, EntryRecords

LEMMA EntryDisconnected ==
  ASSUME NEW e \in Entries
  PROVE  [e EXCEPT !.connected = FALSE] \in Entries
  BY DEF Entries, EntryRecords

LEMMA EntryUnlisted ==
  ASSUME NEW e \in Entries
  PROVE  [e EXCEPT !.listed = FALSE] \in Entries /\ Unlisted(e) \in Entries
  BY DEF Entries, EntryRecords, Unlisted

LEMMA EntryAttempts ==
  ASSUME NEW e \in Entries, NEW k \in 0 .. MaxAttempts, NEW q \in BOOLEAN, q => k < MaxAttempts
  PROVE  [e EXCEPT !.attempts = k, !.queued = q] \in Entries
<1>1. e \in EntryRecords
  BY DEF Entries
<1> DEFINE new == [e EXCEPT !.attempts = k, !.queued = q]
<1>2. new \in EntryRecords /\ new.attempts = k /\ new.queued = q
  BY <1>1 DEF EntryRecords
<1> HIDE DEF new
<1>3. new.queued => new.attempts < MaxAttempts
  BY <1>2
<1>4. QED BY <1>2, <1>3 DEF Entries, new

\* A failed dial uses up an attempt, and the last one takes the entry off the queue.
LEMMA EntryFailed ==
  ASSUME NEW e \in Entries, e.queued
  PROVE  [e EXCEPT !.attempts = @ + 1, !.queued = e.attempts + 1 < MaxAttempts] \in Entries
<1>1. e.attempts \in 0 .. MaxAttempts /\ e.attempts < MaxAttempts
  BY DEF Entries, EntryRecords
<1>2. e.attempts + 1 \in 0 .. MaxAttempts
  BY <1>1, SyncAssumption
<1> DEFINE k == e.attempts + 1
           q == e.attempts + 1 < MaxAttempts
<1>3. k \in 0 .. MaxAttempts /\ q \in BOOLEAN /\ (q => k < MaxAttempts)
  BY <1>2
<1>4. [e EXCEPT !.attempts = k, !.queued = q] \in Entries
  <2> HIDE DEF k, q
  <2>1. QED BY <1>3, EntryAttempts
<1>5. QED BY <1>4

LEMMA EntryQueued ==
  ASSUME NEW e \in Entries
  PROVE  AddReconnect(e) \in Entries
<1>1. CASE e.queued
  BY <1>1, EntryFailed DEF AddReconnect
<1>2. CASE ~e.queued
  <2>1. 0 \in 0 .. MaxAttempts /\ 0 < MaxAttempts
    BY SyncAssumption
  <2>2. [e EXCEPT !.attempts = 0, !.queued = TRUE] \in Entries
    BY <2>1, EntryAttempts
  <2>3. QED BY <1>2, <2>2 DEF AddReconnect
<1>3. QED BY <1>1, <1>2

LEMMA EntryReaped ==
  ASSUME NEW e \in Entries
  PROVE  Reaped(e) \in Entries
<1>1. AddReconnect(e) \in Entries
  BY EntryQueued
<1>2. [AddReconnect(e) EXCEPT !.listed = FALSE] \in Entries /\ [e EXCEPT !.listed = FALSE] \in Entries
  BY <1>1, EntryUnlisted
<1>3. QED BY <1>2 DEF Reaped

LEMMA EntryNew ==
  ASSUME NEW e \in Entries, NEW outbound \in BOOLEAN
  PROVE  NewEntry(e, outbound) \in Entries
  BY SyncAssumption DEF NewEntry, Entries, EntryRecords

LEMMA EntryNone == NoEntry \in Entries
  BY SyncAssumption DEF NoEntry, Entries, EntryRecords
-----------------------------------------------------------------------------
(* What an action may do to chains *)

ChainStep ==
  \A n \in Nodes : \/ Extends(Chain(n), Chain(n)')
                   \/ Replaces(Chain(n), Chain(n)')
                   \/ node[n].fails >= Threshold /\ Recovers(Chain(n), Chain(n)')

LEMMA ExtendsItself ==
  ASSUME NEW c \in Chains
  PROVE  Extends(c, c)
  BY ChainFacts DEF Extends

\* One process changes.
LEMMA NodeUpdate ==
  ASSUME NodeInv, MinedInv, NEW n \in Nodes, NEW r \in Processes, r.mined <= MaxMined[n],
         node' = [node EXCEPT ![n] = r],
         \/ Extends(Chain(n), r.chain)
         \/ Replaces(Chain(n), r.chain)
         \/ node[n].fails >= Threshold /\ Recovers(Chain(n), r.chain)
  PROVE  NodeInv' /\ MinedInv' /\ ChainStep
<1>1. NodeInv'
  BY DEF NodeInv
<1>2. MinedInv'
  BY DEF NodeInv, MinedInv
<1>3. ASSUME NEW q \in Nodes
      PROVE  \/ Extends(Chain(q), Chain(q)')
             \/ Replaces(Chain(q), Chain(q)')
             \/ node[q].fails >= Threshold /\ Recovers(Chain(q), Chain(q)')
  <2>1. CASE q = n
    <3>1. Chain(q)' = r.chain
      BY <2>1 DEF NodeInv, Chain
    <3>2. QED BY <2>1, <3>1
  <2>2. CASE q # n
    <3>1. Chain(q)' = Chain(q) /\ Chain(q) \in Chains
      BY <2>2 DEF NodeInv, Chain, Processes
    <3>2. QED BY <3>1, ExtendsItself
  <2>3. QED BY <2>1, <2>2
<1>4. QED BY <1>1, <1>2, <1>3 DEF ChainStep

LEMMA NodeKept ==
  ASSUME NodeInv, MinedInv, node' = node
  PROVE  NodeInv' /\ MinedInv' /\ ChainStep
<1>1. \A n \in Nodes : Chain(n)' = Chain(n) /\ Chain(n) \in Chains
  BY DEF NodeInv, Processes, Chain
<1>2. QED BY <1>1, ExtendsItself DEF NodeInv, MinedInv, ChainStep

LEMMA ProcessFacts ==
  ASSUME NodeInv, NEW n \in Nodes
  PROVE  /\ node[n] \in Processes
         /\ Chain(n) = node[n].chain /\ Chain(n) \in Chains
         /\ Extends(Chain(n), node[n].chain)
<1>1. node[n] \in Processes /\ Chain(n) = node[n].chain /\ Chain(n) \in Chains
  BY DEF NodeInv, Processes, Chain
<1>2. QED BY <1>1, ExtendsItself

LEMMA ManagerFacts ==
  ASSUME NEW s \in Managers, NEW h \in Nat
  PROVE  /\ OnPeerHeight(s, h) \in Managers
         /\ Progress(s, h) \in Managers
         /\ OnBlocksReceived(s, h) \in Managers
         /\ OnBlockApplied(s, h) \in Managers
         /\ SyncManager(h) \in Managers
<1>1. \A k \in Nat : Progress(s, k) \in Managers
  <2> SUFFICES ASSUME NEW k \in Nat PROVE Progress(s, k) \in Managers
    OBVIOUS
  <2> DEFINE d == s.downloading /\ k < s.target
  <2>1. d \in BOOLEAN
    OBVIOUS
  <2>2. Progress(s, k) = [s EXCEPT !.local = k, !.downloading = d]
    BY DEF Progress
  <2> HIDE DEF d
  <2>3. QED BY <2>1, <2>2 DEF Managers
<1>2. OnPeerHeight(s, h) \in Managers /\ SyncManager(h) \in Managers
  BY DEF OnPeerHeight, SyncManager, Managers
<1>3. s.local + h \in Nat
  BY DEF Managers
<1>4. QED BY <1>1, <1>2, <1>3 DEF OnBlocksReceived, OnBlockApplied
-----------------------------------------------------------------------------
(* Messages about heights *)

LEMMA ReceivesFacts ==
  ASSUME WireInv, NEW n \in Nodes, NEW p \in Nodes, NEW type, Receives(n, p, type)
  PROVE  Message(n, p) \in Messages /\ Message(n, p).type = type /\ Taken(n, p) \in Wires
  BY TakenFacts DEF Receives, Message

LEMMA AnswerInv ==
  ASSUME IInv, NEW n \in Nodes, NEW p \in Nodes, NEW reply \in {"welcome", "pong"},
         Message(n, p) \in Message0, Taken(n, p) \in Wires, Answer(n, p, reply)
  PROVE  IInv' /\ ChainStep
<1> DEFINE h == Message(n, p).height
           sm == IF Attached(n) THEN OnPeerHeight(node[n].sm, h) ELSE node[n].sm
           known == Larger(node[n].known, h)
           r == [node[n] EXCEPT !.known = known, !.sm = sm]
<1>1. node[n] \in Processes /\ Extends(Chain(n), node[n].chain) /\ h \in Nat
  BY ProcessFacts DEF IInv, Message0
<1>2. sm \in Managers /\ known \in Nat
  BY <1>1, ManagerFacts DEF Processes, Larger
<1>3. node' = [node EXCEPT ![n] = r]
  BY DEF Answer
<1> HIDE DEF sm, known
<1>4. r \in Processes /\ r.mined = node[n].mined /\ r.chain = node[n].chain
  BY <1>1, <1>2 DEF Processes
<1>5. NodeInv' /\ MinedInv' /\ ChainStep
  <2> HIDE DEF r
  <2>1. QED BY <1>1, <1>3, <1>4, NodeUpdate DEF IInv, MinedInv
<1>6. PeersInv'
  BY <1>1, EntryHeight DEF Answer, IInv, PeersInv
<1>7. WireInv'
  <2>1. [type |-> reply, height |-> node[n].known] \in Messages
    BY <1>1 DEF Processes, Messages, Message0
  <2>2. Send(Taken(n, p), n, p, [type |-> reply, height |-> node[n].known]) \in Wires
    BY <2>1, SendFacts
  <2>3. Len(Chain(n)) \in Nat
    BY ProcessFacts, ChainFacts DEF IInv
  <2>4. QED BY <2>2, <2>3, AskFacts DEF Answer, WireInv
<1>8. LinkInv' /\ FaultInv'
  BY DEF Answer, IInv, LinkInv, FaultInv
<1>9. QED BY <1>5, <1>6, <1>7, <1>8 DEF IInv

LEMMA OnWelcomeInv ==
  ASSUME IInv, NEW n \in Nodes, NEW p \in Nodes, OnWelcome(n, p)
  PROVE  IInv' /\ ChainStep
<1> DEFINE h == Message(n, p).height
           known == Larger(node[n].known, h)
           syncing == node[n].syncing \/ h > (IF Attached(n) THEN Len(Chain(n)) ELSE 0) + Gap
           r == [node[n] EXCEPT !.known = known, !.syncing = syncing]
<1>1. node[n] \in Processes /\ Extends(Chain(n), node[n].chain) /\ h \in Nat /\ Taken(n, p) \in Wires
  BY ProcessFacts, ReceivesFacts, MessageTypes DEF OnWelcome, IInv, Message0
<1>2. syncing \in BOOLEAN /\ known \in Nat
  BY <1>1 DEF Processes, Larger
<1>3. node' = [node EXCEPT ![n] = r]
  BY DEF OnWelcome
<1> HIDE DEF syncing, known
<1>4. r \in Processes /\ r.mined = node[n].mined /\ r.chain = node[n].chain
  BY <1>1, <1>2 DEF Processes
<1>5. NodeInv' /\ MinedInv' /\ ChainStep
  <2> HIDE DEF r
  <2>1. QED BY <1>1, <1>3, <1>4, NodeUpdate DEF IInv, MinedInv
<1>6. PeersInv'
  BY <1>1, EntryHeight DEF OnWelcome, IInv, PeersInv
<1>7. WireInv' /\ LinkInv' /\ FaultInv'
  BY <1>1 DEF OnWelcome, IInv, WireInv, LinkInv, FaultInv
<1>8. QED BY <1>5, <1>6, <1>7 DEF IInv

LEMMA OnPongInv ==
  ASSUME IInv, NEW n \in Nodes, NEW p \in Nodes, OnPong(n, p)
  PROVE  IInv' /\ ChainStep
<1> DEFINE h == Message(n, p).height
           known == Larger(node[n].known, h)
           r == [node[n] EXCEPT !.known = known]
<1>1. node[n] \in Processes /\ Extends(Chain(n), node[n].chain) /\ h \in Nat /\ Taken(n, p) \in Wires
  BY ProcessFacts, ReceivesFacts, MessageTypes DEF OnPong, IInv, Message0
<1>2. known \in Nat
  BY <1>1 DEF Processes, Larger
<1>3. node' = [node EXCEPT ![n] = r]
  BY DEF OnPong
<1> HIDE DEF known
<1>4. r \in Processes /\ r.mined = node[n].mined /\ r.chain = node[n].chain
  BY <1>1, <1>2 DEF Processes
<1>5. NodeInv' /\ MinedInv' /\ ChainStep
  <2> HIDE DEF r
  <2>1. QED BY <1>1, <1>3, <1>4, NodeUpdate DEF IInv, MinedInv
<1>6. PeersInv'
  BY <1>1, EntryHeight DEF OnPong, IInv, PeersInv
<1>7. WireInv' /\ LinkInv' /\ FaultInv'
  BY <1>1 DEF OnPong, IInv, WireInv, LinkInv, FaultInv
<1>8. QED BY <1>5, <1>6, <1>7 DEF IInv
-----------------------------------------------------------------------------
(* Announcements *)

LEMMA HeardFacts ==
  ASSUME PeersInv, NEW n \in Nodes, NEW p \in Nodes, NEW ann \in Announcement
  PROVE  Heard(n, p, ann) \in [Nodes -> [Nodes -> Entries]]
<1>1. peers[n][p] \in Entries /\ peers[n][p].height \in Nat /\ ann.height \in Nat
  BY DEF PeersInv, Entries, EntryRecords, Announcement
<1>2. Larger(peers[n][p].height, ann.height) \in Nat
  BY <1>1 DEF Larger
<1>3. [peers[n][p] EXCEPT !.height = Larger(peers[n][p].height, ann.height)] \in Entries
  BY <1>1, <1>2, EntryHeight
<1>4. Heard(n, p, ann) = [peers EXCEPT ![n][p] =
        [peers[n][p] EXCEPT !.height = Larger(peers[n][p].height, ann.height)]]
  BY DEF Heard
<1>5. QED BY <1>3, <1>4 DEF PeersInv

LEMMA OnBlockInv ==
  ASSUME IInv, NEW n \in Nodes, NEW p \in Nodes, OnBlock(n, p)
  PROVE  IInv' /\ ChainStep
<1> DEFINE ann == Message(n, p)
           known == Larger(node[n].known, ann.height)
           r == [node[n] EXCEPT !.known = known]
<1>1. /\ node[n] \in Processes /\ Extends(Chain(n), node[n].chain)
      /\ ann \in Announcement /\ ann.height \in Nat /\ Taken(n, p) \in Wires
  BY ProcessFacts, ReceivesFacts, MessageTypes DEF OnBlock, IInv, Announcement
<1>2. known \in Nat
  BY <1>1 DEF Processes, Larger
<1>3. node' = [node EXCEPT ![n] = r]
  BY DEF OnBlock
<1>4. WireInv'
  BY <1>1, AskForBlockFacts DEF OnBlock, IInv, WireInv
<1>5. PeersInv'
  BY <1>1, HeardFacts DEF OnBlock, IInv, PeersInv
<1> HIDE DEF known, ann
<1>6. r \in Processes /\ r.mined = node[n].mined /\ r.chain = node[n].chain
  BY <1>1, <1>2 DEF Processes
<1>7. NodeInv' /\ MinedInv' /\ ChainStep
  <2> HIDE DEF r
  <2>1. QED BY <1>1, <1>3, <1>6, NodeUpdate DEF IInv, MinedInv
<1>8. LinkInv' /\ FaultInv'
  BY DEF OnBlock, IInv, LinkInv, FaultInv
<1>9. QED BY <1>4, <1>5, <1>7, <1>8 DEF IInv

LEMMA RelayFacts ==
  ASSUME NEW w \in Wires, NEW n \in Nodes, NEW p, NEW m \in Messages
  PROVE  Relay(w, n, p, m) \in Wires
<1>1. \A q \in Nodes : w[n][q] \in Seq(Messages) /\ Append(w[n][q], m) \in Seq(Messages)
  BY AppendProperties DEF Wires
<1> DEFINE row == [q \in Nodes |-> IF q # p /\ peers[n][q].connected /\ {n, q} \in link
                                  THEN Append(w[n][q], m) ELSE w[n][q]]
<1>2. row \in [Nodes -> Seq(Messages)]
  BY <1>1
<1>3. Relay(w, n, p, m) = [w EXCEPT ![n] = row]
  BY DEF Relay
<1> HIDE DEF row
<1>4. QED BY <1>2, <1>3 DEF Wires

LEMMA OnGossipInv ==
  ASSUME IInv, NEW n \in Nodes, NEW p \in Nodes, OnGossip(n, p)
  PROVE  IInv' /\ ChainStep
<1> DEFINE ann == Message(n, p)
           known == Larger(node[n].known, ann.height)
           seen == node[n].seen \cup {ann.hash}
           r == [node[n] EXCEPT !.known = known, !.seen = seen]
<1>1. /\ node[n] \in Processes /\ Extends(Chain(n), node[n].chain)
      /\ ann \in Messages /\ ann \in Announcement /\ ann.height \in Nat /\ ann.hash \in Hash
      /\ Taken(n, p) \in Wires
  BY ProcessFacts, ReceivesFacts, MessageTypes DEF OnGossip, IInv, Announcement
<1>2. LinkInv' /\ FaultInv'
  BY DEF OnGossip, IInv, LinkInv, FaultInv
<1>3. CASE ann.hash \in node[n].seen
  <2>1. node' = node /\ peers' = peers /\ wire' = Taken(n, p)
    BY <1>3 DEF OnGossip
  <2>2. NodeInv' /\ MinedInv' /\ ChainStep
    BY <2>1, NodeKept DEF IInv
  <2>3. PeersInv' /\ WireInv'
    BY <1>1, <2>1 DEF IInv, PeersInv, WireInv
  <2>4. QED BY <1>2, <2>2, <2>3 DEF IInv
<1>4. CASE ann.hash \notin node[n].seen
  <2>1. known \in Nat /\ seen \in SUBSET Hash
    BY <1>1 DEF Processes, Larger
  <2>2. node' = [node EXCEPT ![n] = r]
    BY <1>4 DEF OnGossip
  <2>3. PeersInv'
    BY <1>1, <1>4, HeardFacts DEF OnGossip, IInv, PeersInv
  <2>4. WireInv'
    <3>1. Len(Chain(n)) \in Nat
      BY ProcessFacts, ChainFacts DEF IInv
    <3>2. \A v \in Ask(n, Heard(n, p, ann)[n], Len(Chain(n)), FALSE, Taken(n, p)) : v \in Wires
      BY <1>1, <3>1, AskFacts
    <3>3. PICK v \in Wires : wire' = Relay(v, n, p, ann)
      BY <1>1, <1>4, <3>2 DEF OnGossip
    <3>4. QED BY <1>1, <3>3, RelayFacts DEF WireInv
  <2> HIDE DEF known, seen
  <2>5. r \in Processes /\ r.mined = node[n].mined /\ r.chain = node[n].chain
    BY <1>1, <2>1 DEF Processes
  <2>6. NodeInv' /\ MinedInv' /\ ChainStep
    <3> HIDE DEF r
    <3>1. QED BY <1>1, <2>2, <2>5, NodeUpdate DEF IInv, MinedInv
  <2>7. QED BY <1>2, <2>3, <2>4, <2>6 DEF IInv
<1>5. QED BY <1>3, <1>4
-----------------------------------------------------------------------------
(* Requests and responses *)

LEMMA OnSyncRequestInv ==
  ASSUME IInv, NEW n \in Nodes, NEW p \in Nodes, OnSyncRequest(n, p)
  PROVE  IInv' /\ ChainStep
<1>1. Message(n, p).from \in Nat /\ Taken(n, p) \in Wires
  BY ReceivesFacts, MessageTypes DEF OnSyncRequest, IInv, Request
<1>2. Response(n, Message(n, p).from) \in Messages
  BY <1>1, ResponseFits DEF IInv, Messages
<1>3. WireInv'
  BY <1>1, <1>2, SendFacts DEF OnSyncRequest, WireInv
<1>4. NodeInv' /\ MinedInv' /\ ChainStep
  BY NodeKept DEF OnSyncRequest, IInv
<1>5. PeersInv' /\ LinkInv' /\ FaultInv'
  BY DEF OnSyncRequest, IInv, PeersInv, LinkInv, FaultInv
<1>6. QED BY <1>3, <1>4, <1>5 DEF IInv

\* The appended blocks were made for the heights they get.
LEMMA NewBlocksFacts ==
  ASSUME NEW base \in Chains, NEW m \in Fitting
  PROVE  /\ NewBlocks(base, m) \in Seq(Hash)
         /\ \A i \in 1 .. Len(NewBlocks(base, m)) : InPlace(NewBlocks(base, m)[i], Len(base) + i - 1)
         /\ m.from = Len(base) => Len(NewBlocks(base, m)) = Len(m.blocks)
<1>1. /\ Len(base) \in Nat /\ m.from \in Nat /\ m.blocks \in Seq(Hash) /\ Len(m.blocks) \in Nat
      /\ \A i \in 1 .. Len(m.blocks) : m.blocks[i] \in Hash /\ InPlace(m.blocks[i], m.from + i - 1)
  BY ChainFacts, LenProperties, ElementOfSeq DEF Fitting, Headers
<1>2. CASE m.from > Len(base)
  BY <1>1, <1>2, EmptySeq DEF NewBlocks
<1>3. CASE m.from <= Len(base)
  <2> DEFINE lo == Len(base) - m.from + 1
             hi == Len(m.blocks)
             s == SubSeq(m.blocks, lo, hi)
  <2>1. lo \in Nat \ {0} /\ hi \in Nat
    BY <1>1, <1>3
  <2>2. /\ s \in Seq(Hash) /\ Len(s) = IF lo <= hi THEN hi - lo + 1 ELSE 0
        /\ \A i \in 1 .. hi - lo + 1 : s[i] = m.blocks[lo + i - 1]
    <3>1. \A i \in lo .. hi : m.blocks[i] \in Hash
      BY <1>1, <2>1
    <3> HIDE DEF lo, hi
    <3>2. QED BY <2>1, <3>1, SubSeqProperties
  <2>3. NewBlocks(base, m) = s
    <3>1. ~(m.from > Len(base))
      BY <1>1, <1>3
    <3>2. QED BY <3>1, Zenon DEF NewBlocks
  <2>4. lo + m.from = Len(base) + 1
    BY <1>1
  <2> HIDE DEF s, lo
  <2>5. ASSUME NEW i \in 1 .. Len(s) PROVE InPlace(s[i], Len(base) + i - 1)
    <3>1. i \in 1 .. hi - lo + 1 /\ lo + i - 1 \in 1 .. Len(m.blocks)
      BY <2>1, <2>2
    <3>2. s[i] = m.blocks[lo + i - 1] /\ InPlace(m.blocks[lo + i - 1], m.from + (lo + i - 1) - 1)
      BY <1>1, <2>2, <3>1
    <3>3. m.from + (lo + i - 1) - 1 = Len(base) + i - 1
      <4>1. m.from \in Nat /\ Len(base) \in Nat /\ lo \in Nat
        BY <1>1, <2>1
      <4>2. QED BY <2>4, <4>1
    <3>4. QED BY <3>2, <3>3, Zenon
  <2>6. m.from = Len(base) => Len(s) = Len(m.blocks)
    BY <1>1, <2>1, <2>2, <2>4
  <2>7. QED BY <2>2, <2>3, <2>5, <2>6
<1>4. QED BY <1>1, <1>2, <1>3

\* What a response does to a chain.
LEMMA ApplyFacts ==
  ASSUME NEW c \in Chains, NEW m \in Fitting
  PROVE  LET result == ApplyBlocksFromPeer(c, m)
         IN  /\ result.chain \in Chains /\ result.applied \in Nat
             /\ Extends(c, result.chain) \/ Replaces(c, result.chain)
<1>1. /\ Len(c) \in Nat \ {0} /\ m.from \in Nat /\ Len(m.blocks) \in Nat
  BY ChainFacts, LenProperties DEF Fitting, Headers
<1>2. CASE Diverges(c, m) /\ ~Adopts(c, m)
  BY <1>2, ExtendsItself DEF ApplyBlocksFromPeer
<1>3. CASE ~Diverges(c, m)
  <2> DEFINE new == NewBlocks(c, m)
  <2>1. new \in Seq(Hash) /\ \A i \in 1 .. Len(new) : InPlace(new[i], Len(c) + i - 1)
    BY NewBlocksFacts
  <2>2. ApplyBlocksFromPeer(c, m) = [chain |-> c \o new, applied |-> Len(new)]
    BY <1>3 DEF ApplyBlocksFromPeer
  <2> HIDE DEF new
  <2>3. c \o new \in Chains /\ Extends(c, c \o new) /\ Len(new) \in Nat
    BY <1>1, <2>1, JoinFacts, LenProperties DEF Extends
  <2>4. QED BY <2>2, <2>3
<1>4. CASE Diverges(c, m) /\ Adopts(c, m)
  <2> DEFINE base == SubSeq(c, 1, m.from)
             new == NewBlocks(base, m)
  <2>1. /\ m.from \in 1 .. Len(c) /\ Len(c) - m.from <= ReorgDepth
        /\ m.from + Len(m.blocks) > Len(c)
    BY <1>1, <1>4 DEF Diverges, Adopts
  <2>2. base \in Chains /\ Len(base) = m.from /\ \A i \in 1 .. m.from : base[i] = c[i]
    BY <2>1, CutFacts
  <2>3. ApplyBlocksFromPeer(c, m) = [chain |-> base \o new, applied |-> Len(new)]
    BY <1>4 DEF ApplyBlocksFromPeer
  <2> HIDE DEF base
  <2>4. /\ new \in Seq(Hash) /\ Len(new) = Len(m.blocks)
        /\ \A i \in 1 .. Len(new) : InPlace(new[i], Len(base) + i - 1)
    BY <2>2, NewBlocksFacts
  <2> HIDE DEF new
  <2>5. /\ base \o new \in Chains /\ Len(base \o new) = Len(base) + Len(new) /\ Len(new) \in Nat
        /\ \A i \in 1 .. Len(base) : (base \o new)[i] = base[i]
    BY <2>2, <2>4, JoinFacts, LenProperties
  <2>6. Len(c) < Len(base \o new)
    BY <1>1, <2>1, <2>2, <2>4, <2>5
  <2>7. ASSUME NEW i \in 1 .. Len(c) - ReorgDepth PROVE (base \o new)[i] = c[i]
    <3>1. i \in 1 .. m.from
      BY <1>1, <2>1, SyncAssumption
    <3>2. QED BY <2>2, <2>5, <3>1
  <2>8. Replaces(c, base \o new)
    BY <2>6, <2>7 DEF Replaces
  <2>9. QED BY <2>3, <2>5, <2>8
<1>5. QED BY <1>2, <1>3, <1>4

LEMMA OnSyncResponseInv ==
  ASSUME IInv, NEW n \in Nodes, NEW p \in Nodes, OnSyncResponse(n, p)
  PROVE  IInv' /\ ChainStep
<1> DEFINE m == Message(n, p)
           result == ApplyBlocksFromPeer(Chain(n), m)
           height == Larger(peers[n][p].height, m.from + Len(m.blocks) - 1)
           sm == OnBlocksReceived(node[n].sm, result.applied)
           syncing == StillSyncing(n, Len(result.chain), height)
           r == [node[n] EXCEPT !.chain = result.chain, !.sm = sm, !.syncing = syncing]
<1>1. /\ node[n] \in Processes /\ Chain(n) = node[n].chain /\ Chain(n) \in Chains
      /\ m \in Fitting /\ Taken(n, p) \in Wires
  BY ProcessFacts, ReceivesFacts, MessageTypes DEF OnSyncResponse, IInv
<1>2. WireInv' /\ LinkInv' /\ FaultInv'
  BY <1>1 DEF OnSyncResponse, IInv, WireInv, LinkInv, FaultInv
<1>3. CASE m.blocks = << >> \/ ~Attached(n)
  <2>1. node' = node /\ peers' = peers
    BY <1>3 DEF OnSyncResponse
  <2>2. NodeInv' /\ MinedInv' /\ ChainStep
    BY <2>1, NodeKept DEF IInv
  <2>3. QED BY <1>2, <2>1, <2>2 DEF IInv, PeersInv
<1>4. CASE ~(m.blocks = << >> \/ ~Attached(n))
  <2>1. /\ result.chain \in Chains /\ result.applied \in Nat
        /\ Extends(Chain(n), result.chain) \/ Replaces(Chain(n), result.chain)
    BY <1>1, ApplyFacts
  <2>2. /\ node' = [node EXCEPT ![n] = r]
        /\ peers' = [peers EXCEPT ![n][p] = [peers[n][p] EXCEPT !.height = height]]
    BY <1>4 DEF OnSyncResponse
  <2>3. sm \in Managers /\ syncing \in BOOLEAN
    <3>1. sm \in Managers
      BY <1>1, <2>1, ManagerFacts DEF Processes
    <3>2. syncing \in BOOLEAN
      BY Zenon DEF StillSyncing
    <3>3. QED BY <3>1, <3>2
  <2>4. height \in Nat
    <3>1. peers[n][p].height \in Nat
      BY DEF IInv, PeersInv, Entries, EntryRecords
    <3>2. m.from \in Nat /\ Len(m.blocks) \in Nat
      BY <1>1, LenProperties DEF Fitting, Headers
    <3>3. QED BY <3>1, <3>2 DEF Larger
  <2>5. PeersInv'
    <3> HIDE DEF height
    <3>1. [peers[n][p] EXCEPT !.height = height] \in Entries
      BY <2>4, EntryHeight DEF IInv, PeersInv
    <3>2. QED BY <2>2, <3>1 DEF IInv, PeersInv
  <2> HIDE DEF sm, syncing, result, m
  <2>6. r \in Processes /\ r.mined = node[n].mined /\ r.chain = result.chain
    BY <1>1, <2>1, <2>3 DEF Processes
  <2>7. NodeInv' /\ MinedInv' /\ ChainStep
    <3> HIDE DEF r
    <3>1. QED BY <1>1, <2>1, <2>2, <2>6, NodeUpdate DEF IInv, MinedInv
  <2>8. QED BY <1>2, <2>5, <2>7 DEF IInv
<1>5. QED BY <1>3, <1>4
-----------------------------------------------------------------------------
(* Connections *)

LEMMA ConnectFacts ==
  ASSUME NodeInv, PeersInv, WireInv, LinkInv,
         NEW n \in Nodes, NEW S \in SUBSET Nodes, Connect(n, S)
  PROVE  PeersInv' /\ WireInv' /\ LinkInv'
<1>1. PeersInv'
  <2>1. \A x, y \in Nodes : /\ peers[x][y] \in Entries
                            /\ NewEntry(peers[x][y], TRUE) \in Entries
                            /\ NewEntry(peers[x][y], FALSE) \in Entries
    BY EntryNew DEF PeersInv
  <2>2. QED BY <2>1 DEF Connect, PeersInv
<1>2. WireInv'
  <2>1. \A x \in Nodes : /\ <<Greeting(n, "hello"), Greeting(n, "ping")>> \in Seq(Messages)
                         /\ <<Greeting(x, "ping")>> \in Seq(Messages)
    <3>1. \A x \in Nodes : Greeting(x, "hello") \in Messages /\ Greeting(x, "ping") \in Messages
      BY GreetingFacts
    <3>2. QED BY <3>1
  <2>2. \A x, y \in Nodes : wire[x][y] \in Seq(Messages)
    BY DEF WireInv, Wires
  <2> DEFINE new(x, y) == CASE x = n /\ y \in S -> <<Greeting(n, "hello"), Greeting(n, "ping")>>
                            [] x \in S /\ y = n -> <<Greeting(x, "ping")>>
                            [] OTHER -> wire[x][y]
  <2>3. \A x, y \in Nodes : new(x, y) \in Seq(Messages)
    BY <2>1, <2>2, Zenon
  <2>4. wire' = [x \in Nodes |-> [y \in Nodes |-> new(x, y)]]
    BY Zenon DEF Connect
  <2> HIDE DEF new
  <2>5. QED BY <2>3, <2>4 DEF WireInv, Wires
<1>3. LinkInv'
  BY DEF Connect, LinkInv
<1>4. QED BY <1>1, <1>2, <1>3

LEMMA PhaseUpdate ==
  ASSUME NodeInv, MinedInv, NEW n \in Nodes, NEW ph \in Phases,
         node' = [node EXCEPT ![n].phase = ph]
  PROVE  NodeInv' /\ MinedInv' /\ ChainStep
<1> DEFINE r == [node[n] EXCEPT !.phase = ph]
<1>1. node[n] \in Processes /\ Extends(Chain(n), node[n].chain)
  BY ProcessFacts
<1>2. r \in Processes /\ r.mined = node[n].mined /\ r.chain = node[n].chain
  BY <1>1 DEF Processes
<1>3. node' = [node EXCEPT ![n] = r]
  OBVIOUS
<1> HIDE DEF r
<1>4. QED BY <1>1, <1>2, <1>3, NodeUpdate DEF MinedInv

LEMMA BootInv ==
  ASSUME IInv, NEW n \in Nodes, Boot(n)
  PROVE  IInv' /\ ChainStep
<1> DEFINE S == {p \in Seeds[n] \ {n} : node[p].phase # "off" /\ ~peers[n][p].listed}
<1>1. S \in SUBSET Nodes /\ Connect(n, S)
  BY SyncAssumption DEF Boot
<1> HIDE DEF S
<1>2. PeersInv' /\ WireInv' /\ LinkInv'
  BY <1>1, ConnectFacts DEF IInv
<1>3. NodeInv' /\ MinedInv' /\ ChainStep
  BY PhaseUpdate DEF Boot, IInv, Phases
<1>4. FaultInv'
  BY DEF Boot, IInv, FaultInv
<1>5. QED BY <1>2, <1>3, <1>4 DEF IInv

LEMMA AttachInv ==
  ASSUME IInv, NEW n \in Nodes, Attach(n)
  PROVE  IInv' /\ ChainStep
<1>1. NodeInv' /\ MinedInv' /\ ChainStep
  BY PhaseUpdate DEF Attach, IInv, Phases
<1>2. PeersInv' /\ WireInv' /\ LinkInv' /\ FaultInv'
  BY DEF Attach, IInv, PeersInv, WireInv, LinkInv, FaultInv
<1>3. QED BY <1>1, <1>2 DEF IInv

LEMMA HeartbeatInv ==
  ASSUME IInv, NEW n \in Nodes, NEW p \in Nodes, Heartbeat(n, p)
  PROVE  IInv' /\ ChainStep
<1>1. Greeting(n, "ping") \in Messages
  BY GreetingFacts DEF IInv
<1>2. WireInv'
  BY <1>1, SendFacts DEF Heartbeat, IInv, WireInv
<1>3. NodeInv' /\ MinedInv' /\ ChainStep
  BY NodeKept DEF Heartbeat, IInv
<1>4. PeersInv' /\ LinkInv' /\ FaultInv'
  BY DEF Heartbeat, IInv, PeersInv, LinkInv, FaultInv
<1>5. QED BY <1>2, <1>3, <1>4 DEF IInv

LEMMA RedialInv ==
  ASSUME IInv, NEW n \in Nodes, NEW p \in Nodes, Redial(n, p)
  PROVE  IInv' /\ ChainStep
<1>1. NodeInv' /\ MinedInv' /\ ChainStep
  BY PhaseUpdate DEF Redial, IInv, Phases
<1>2. FaultInv'
  BY DEF Redial, IInv, FaultInv
<1>3. CASE Connect(n, {p})
  BY <1>1, <1>2, <1>3, ConnectFacts DEF IInv
<1>4. CASE ~Connect(n, {p})
  <2> DEFINE k == peers[n][p].attempts + 1
             q == peers[n][p].attempts + 1 < MaxAttempts
             e == [peers[n][p] EXCEPT !.attempts = k, !.queued = q]
  <2>1. /\ peers' = [peers EXCEPT ![n][p].attempts = k, ![n][p].queued = q]
        /\ link' = link /\ wire' = wire
    BY <1>4 DEF Redial
  <2>2. peers[n][p] \in Entries /\ e \in Entries
    <3>1. peers[n][p] \in Entries /\ peers[n][p].queued
      BY DEF Redial, IInv, PeersInv
    <3>2. QED BY <3>1, EntryFailed
  <2> HIDE DEF k, q
  <2>3. PeersInv'
    <3>1. peers' = [peers EXCEPT ![n][p] = e]
      BY <2>1 DEF IInv, PeersInv
    <3> HIDE DEF e
    <3>2. QED BY <2>2, <3>1 DEF IInv, PeersInv
  <2>4. WireInv' /\ LinkInv'
    BY <2>1 DEF IInv, WireInv, LinkInv
  <2>5. QED BY <1>1, <1>2, <2>3, <2>4 DEF IInv
<1>5. QED BY <1>3, <1>4

LEMMA DropInv ==
  ASSUME IInv, NEW pair \in link, Drop(pair)
  PROVE  IInv' /\ ChainStep
<1>1. NodeInv' /\ MinedInv' /\ ChainStep
  BY NodeKept DEF Drop, IInv
<1>2. PeersInv'
  BY EntryUnlisted DEF Drop, Closed, IInv, PeersInv
<1>3. WireInv'
  BY EmptySeq DEF Drop, Emptied, IInv, WireInv, Wires
<1>4. LinkInv' /\ FaultInv'
  BY SyncAssumption DEF Drop, IInv, LinkInv, FaultInv
<1>5. QED BY <1>1, <1>2, <1>3, <1>4 DEF IInv

\* A process as it starts, on any chain.
LEMMA StartFacts ==
  ASSUME NEW c \in Chains, NEW ph \in Phases, NEW mined \in Nat
  PROVE  /\ Start(c, ph, mined) \in Processes
         /\ Start(c, ph, mined).chain = c /\ Start(c, ph, mined).mined = mined
<1>1. Len(c) \in Nat \ {0} /\ SyncManager(Len(c)) \in Managers
  BY ChainFacts DEF SyncManager, Managers
<1>2. QED BY <1>1, NoJobFacts DEF Start, Processes

LEMMA RestartInv ==
  ASSUME IInv, NEW n \in Nodes, Restart(n)
  PROVE  IInv' /\ ChainStep
<1> DEFINE mine == {pair \in link : n \in pair}
           r == Start(Chain(n), "off", node[n].mined)
<1>1. NodeInv' /\ MinedInv' /\ ChainStep
  <2>1. node[n] \in Processes /\ Chain(n) \in Chains /\ node[n].mined \in Nat
    BY ProcessFacts DEF IInv, Processes
  <2>2. r \in Processes /\ r.chain = Chain(n) /\ r.mined = node[n].mined
    BY <2>1, StartFacts DEF Phases
  <2>3. node' = [node EXCEPT ![n] = r]
    BY DEF Restart
  <2> HIDE DEF r
  <2>4. QED BY <2>1, <2>2, <2>3, NodeUpdate, ExtendsItself DEF IInv, MinedInv
<1>2. PeersInv'
  <2>1. Closed(mine) \in [Nodes -> [Nodes -> Entries]]
    BY EntryUnlisted DEF Closed, IInv, PeersInv
  <2>2. peers' = [Closed(mine) EXCEPT ![n] = [p \in Nodes |-> NoEntry]]
    BY DEF Restart
  <2> HIDE DEF mine
  <2>3. QED BY <2>1, <2>2, EntryNone DEF PeersInv
<1>3. WireInv'
  BY EmptySeq DEF Restart, Emptied, IInv, WireInv, Wires
<1>4. LinkInv' /\ FaultInv'
  BY SyncAssumption DEF Restart, IInv, LinkInv, FaultInv
<1>5. QED BY <1>1, <1>2, <1>3, <1>4 DEF IInv
-----------------------------------------------------------------------------
(* The mining loop *)

LEMMA MinedFacts ==
  ASSUME NodeInv, NEW n \in Nodes
  PROVE  /\ MinedHash(n) \in Hash /\ Append(Chain(n), MinedHash(n)) \in Chains
         /\ Extends(Chain(n), Append(Chain(n), MinedHash(n)))
<1>1. /\ Chain(n) \in Chains /\ Len(Chain(n)) \in Nat
      /\ node[n].job \in Jobs /\ node[n].mined \in Nat
  BY ProcessFacts, ChainFacts DEF Processes
<1> DEFINE c == Chain(n)
           j == node[n].job
           k == node[n].mined
<1>2. c \in Chains /\ Len(c) \in Nat /\ j \in Jobs /\ k \in Nat
  BY <1>1
<1>3. MinedHash(n) = Append(j.tip, <<n, k, Len(c) = j.index>>)
  BY DEF MinedHash
<1> HIDE DEF c, j, k
<1>4. MinedHash(n) \in Hash /\ InPlace(MinedHash(n), Len(c))
  BY <1>2, <1>3, MinedInPlace, Zenon
<1>5. QED BY <1>2, <1>4, AppendFacts DEF c

LEMMA StartMiningInv ==
  ASSUME IInv, NEW n \in Nodes, StartMining(n)
  PROVE  IInv' /\ ChainStep
<1> DEFINE job == [tip |-> Last(Chain(n)), index |-> Len(Chain(n))]
           mined == node[n].mined + 1
           r == [node[n] EXCEPT !.phase = "pow", !.mined = mined, !.job = job]
<1>1. /\ node[n] \in Processes /\ Extends(Chain(n), node[n].chain) /\ job \in Jobs
  BY ProcessFacts, JobFacts DEF IInv
<1>2. mined \in Nat /\ mined <= MaxMined[n]
  <2>1. node[n].mined \in Nat /\ MaxMined[n] \in Nat /\ node[n].mined < MaxMined[n]
    BY <1>1, SyncAssumption DEF Processes, StartMining
  <2>2. QED BY <2>1
<1>3. node' = [node EXCEPT ![n] = r]
  BY DEF StartMining
<1> HIDE DEF job, mined
<1>4. r \in Processes /\ r.mined = mined /\ r.chain = node[n].chain
  BY <1>1, <1>2 DEF Processes, Phases
<1>5. NodeInv' /\ MinedInv' /\ ChainStep
  <2> HIDE DEF r
  <2>1. QED BY <1>1, <1>2, <1>3, <1>4, NodeUpdate DEF IInv
<1>6. PeersInv' /\ WireInv' /\ LinkInv' /\ FaultInv'
  BY DEF StartMining, IInv, PeersInv, WireInv, LinkInv, FaultInv
<1>7. QED BY <1>5, <1>6 DEF IInv

LEMMA FinishMiningInv ==
  ASSUME IInv, NEW n \in Nodes, FinishMining(n)
  PROVE  IInv' /\ ChainStep
<1> DEFINE hash == MinedHash(n)
           height == node[n].count + 1
           ann(type) == [type |-> type, height |-> height, hash |-> hash]
<1>1. PICK lost, alsoLost :
        /\ Broadcast(n, height, hash, lost, alsoLost)
        /\ node' = [node EXCEPT
                ![n].chain = Append(@, hash),
                ![n].count = height,
                ![n].known = height,
                ![n].phase = "mined",
                ![n].job = NoJob,
                ![n].fails = IF Connected(n) \ lost # {} THEN 0
                             ELSE IF lost # {} THEN @ + 1 ELSE @,
                ![n].sm = OnBlockApplied(@, height)]
  BY DEF FinishMining
<1>2. /\ node[n] \in Processes /\ Chain(n) = node[n].chain /\ Chain(n) \in Chains
      /\ height \in Nat
  <2>1. node[n] \in Processes /\ Chain(n) = node[n].chain /\ Chain(n) \in Chains
    BY ProcessFacts DEF IInv
  <2>2. node[n].count \in Nat
    BY <2>1 DEF Processes
  <2>3. QED BY <2>1, <2>2
<1>3. /\ hash \in Hash /\ Append(Chain(n), hash) \in Chains
      /\ Extends(Chain(n), Append(Chain(n), hash))
  BY MinedFacts DEF IInv
<1>4. PeersInv'
  <2>1. \A p \in Nodes : /\ peers[n][p] \in Entries
                         /\ AddReconnect([peers[n][p] EXCEPT !.connected = FALSE]) \in Entries
    BY EntryDisconnected, EntryQueued DEF IInv, PeersInv
  <2>2. QED BY <1>1, <2>1 DEF Broadcast, IInv, PeersInv
<1>5. WireInv'
  <2> HIDE DEF hash, height
  <2>1. ann("block") \in Messages /\ ann("block_gossip") \in Messages
    BY <1>2, <1>3 DEF Messages, Announcement
  <2> HIDE DEF ann
  <2>2. \A p \in Nodes : /\ wire[n][p] \in Seq(Messages)
                         /\ wire[n][p] \o <<ann("block"), ann("block_gossip")>> \in Seq(Messages)
    BY <2>1, ConcatProperties DEF IInv, WireInv, Wires
  <2> DEFINE row == [p \in Nodes |-> IF peers[n][p].connected /\ {n, p} \in link
                                    THEN wire[n][p] \o <<ann("block"), ann("block_gossip")>>
                                    ELSE wire[n][p]]
  <2>3. row \in [Nodes -> Seq(Messages)]
    BY <2>2
  <2>4. wire' = [wire EXCEPT ![n] = row]
    BY <1>1 DEF Broadcast, ann
  <2> HIDE DEF row
  <2>5. QED BY <2>3, <2>4 DEF IInv, WireInv, Wires
<1>6. NodeInv' /\ MinedInv' /\ ChainStep
  <2> DEFINE fails == IF Connected(n) \ lost # {} THEN 0
                      ELSE IF lost # {} THEN node[n].fails + 1 ELSE node[n].fails
             sm == OnBlockApplied(node[n].sm, height)
             chain == Append(node[n].chain, hash)
             r == [node[n] EXCEPT !.chain = chain, !.count = height,
                                  !.known = height, !.phase = "mined", !.job = NoJob,
                                  !.fails = fails, !.sm = sm]
  <2>1. fails \in Nat /\ sm \in Managers /\ chain \in Chains
    <3>1. fails \in Nat
      BY <1>2 DEF Processes
    <3>2. sm \in Managers
      BY <1>2, ManagerFacts DEF Processes
    <3>3. chain \in Chains
      BY <1>2, <1>3, Zenon
    <3>4. QED BY <3>1, <3>2, <3>3
  <2>2. node' = [node EXCEPT ![n] = r]
    BY <1>1, Zenon
  <2>3. chain = Append(Chain(n), hash)
    BY <1>2
  <2> HIDE DEF fails, sm, chain, height, hash
  <2>4. r \in Processes /\ r.mined = node[n].mined /\ r.chain = chain
    BY <1>2, <2>1, NoJobFacts DEF Processes, Phases
  <2> HIDE DEF r
  <2>5. QED BY <1>3, <2>2, <2>3, <2>4, NodeUpdate DEF IInv, MinedInv
<1>7. LinkInv' /\ FaultInv'
  BY DEF FinishMining, IInv, LinkInv, FaultInv
<1>8. QED BY <1>4, <1>5, <1>6, <1>7 DEF IInv

LEMMA RefuseOwnInv ==
  ASSUME IInv, NEW n \in Nodes, RefuseOwn(n)
  PROVE  IInv' /\ ChainStep
<1> DEFINE chain == Append(Chain(n), MinedHash(n))
           r == [node[n] EXCEPT !.chain = chain, !.phase = "slot", !.job = NoJob]
<1>1. node[n] \in Processes /\ Extends(Chain(n), chain) /\ chain \in Chains
  BY ProcessFacts, MinedFacts DEF IInv
<1>2. node' = [node EXCEPT ![n] = r]
  BY DEF RefuseOwn, Chain
<1> HIDE DEF chain
<1>3. r \in Processes /\ r.mined = node[n].mined /\ r.chain = chain
  BY <1>1, NoJobFacts DEF Processes, Phases
<1>4. NodeInv' /\ MinedInv' /\ ChainStep
  <2> HIDE DEF r
  <2>1. QED BY <1>1, <1>2, <1>3, NodeUpdate DEF IInv, MinedInv
<1>5. PeersInv' /\ WireInv' /\ LinkInv' /\ FaultInv'
  BY DEF RefuseOwn, IInv, PeersInv, WireInv, LinkInv, FaultInv
<1>6. QED BY <1>4, <1>5 DEF IInv

LEMMA FailMiningInv ==
  ASSUME IInv, NEW n \in Nodes, FailMining(n)
  PROVE  IInv' /\ ChainStep
<1> DEFINE r == [node[n] EXCEPT !.phase = "slot", !.job = NoJob]
<1>1. node[n] \in Processes /\ Extends(Chain(n), node[n].chain)
  BY ProcessFacts DEF IInv
<1>2. node' = [node EXCEPT ![n] = r]
  BY DEF FailMining
<1>3. r \in Processes /\ r.mined = node[n].mined /\ r.chain = node[n].chain
  BY <1>1, NoJobFacts DEF Processes, Phases
<1>4. NodeInv' /\ MinedInv' /\ ChainStep
  <2> HIDE DEF r
  <2>1. QED BY <1>1, <1>2, <1>3, NodeUpdate DEF IInv, MinedInv
<1>5. PeersInv' /\ WireInv' /\ LinkInv' /\ FaultInv'
  BY DEF FailMining, IInv, PeersInv, WireInv, LinkInv, FaultInv
<1>6. QED BY <1>4, <1>5 DEF IInv

\* Fork recovery drops two blocks or none, and never genesis.
LEMMA TruncatedFacts ==
  ASSUME NEW c \in Chains, NEW fails \in Nat
  PROVE  /\ Truncated(c, fails) \in Chains
         /\ Extends(c, Truncated(c, fails)) \/ (fails >= Threshold /\ Recovers(c, Truncated(c, fails)))
<1>1. Len(c) \in Nat \ {0} /\ Threshold \in Nat
  BY ChainFacts, SyncAssumption
<1>2. CASE fails < Threshold \/ Len(c) <= 2
  BY <1>2, ExtendsItself DEF Truncated
<1>3. CASE ~(fails < Threshold \/ Len(c) <= 2)
  <2>1. Len(c) - 2 \in 1 .. Len(c) /\ fails >= Threshold
    BY <1>1, <1>3
  <2>2. Truncated(c, fails) = SubSeq(c, 1, Len(c) - 2)
    BY <1>3 DEF Truncated
  <2>3. QED BY <2>1, <2>2, CutFacts DEF Recovers
<1>4. QED BY <1>2, <1>3

LEMMA MaintainInv ==
  ASSUME IInv, NEW n \in Nodes, Maintain(n)
  PROVE  IInv' /\ ChainStep
<1> DEFINE chain == Truncated(Chain(n), node[n].fails)
           recovered == chain # Chain(n)
           downloading == node[n].sm.downloading \/ recovered
           fails == IF recovered THEN 0 ELSE node[n].fails
           syncing == node[n].syncing /\ ~recovered
<1>1. PICK kept \in SUBSET node[n].seen,
           sm \in {[node[n].sm EXCEPT !.downloading = downloading]} \cup
                 (IF downloading THEN {SyncManager(Len(chain))} ELSE {}) :
        node' = [node EXCEPT
             ![n].chain = chain,
             ![n].fails = IF recovered THEN 0 ELSE @,
             ![n].syncing = @ /\ ~recovered,
             ![n].sm = sm,
             ![n].seen = kept,
             ![n].phase = "maintained"]
  BY DEF Maintain
<1>2. node[n] \in Processes /\ Chain(n) = node[n].chain /\ Chain(n) \in Chains /\ node[n].fails \in Nat
  BY ProcessFacts DEF IInv, Processes
<1>3. /\ chain \in Chains
      /\ \/ Extends(Chain(n), chain)
         \/ node[n].fails >= Threshold /\ Recovers(Chain(n), chain)
  BY <1>2, TruncatedFacts
<1>4. PeersInv'
  <2>1. \A p \in Nodes : Reaped(peers[n][p]) \in Entries
    BY EntryReaped DEF IInv, PeersInv
  <2>2. QED BY <2>1 DEF Maintain, IInv, PeersInv
<1>5. sm \in Managers
  <2>1. downloading \in BOOLEAN
    BY <1>2 DEF Processes, Managers
  <2>2. Len(chain) \in Nat /\ SyncManager(Len(chain)) \in Managers
    BY <1>3, ChainFacts DEF SyncManager, Managers
  <2> HIDE DEF downloading, chain
  <2>3. [node[n].sm EXCEPT !.downloading = downloading] \in Managers
    BY <1>2, <2>1 DEF Processes, Managers
  <2>4. QED BY <2>2, <2>3
<1>6. fails \in Nat /\ syncing \in BOOLEAN /\ kept \in SUBSET Hash
  BY <1>2 DEF Processes
<1>7. NodeInv' /\ MinedInv' /\ ChainStep
  <2> DEFINE r == [node[n] EXCEPT !.chain = chain, !.fails = fails, !.syncing = syncing,
                                  !.sm = sm, !.seen = kept, !.phase = "maintained"]
  <2>1. node' = [node EXCEPT ![n] = r]
    BY <1>1
  <2> HIDE DEF chain, fails, syncing, recovered, downloading
  <2>2. r \in Processes /\ r.mined = node[n].mined /\ r.chain = chain
    BY <1>2, <1>3, <1>5, <1>6 DEF Processes, Phases
  <2> HIDE DEF r
  <2>3. QED BY <1>3, <2>1, <2>2, NodeUpdate DEF IInv, MinedInv
<1>8. WireInv' /\ LinkInv' /\ FaultInv'
  BY DEF Maintain, IInv, WireInv, LinkInv, FaultInv
<1>9. QED BY <1>4, <1>7, <1>8 DEF IInv

LEMMA RequestPeerSyncInv ==
  ASSUME IInv, NEW n \in Nodes, RequestPeerSync(n)
  PROVE  IInv' /\ ChainStep
<1> DEFINE sm == IF node[n].known > Len(Chain(n)) THEN OnPeerHeight(node[n].sm, node[n].known)
                 ELSE node[n].sm
           r == [node[n] EXCEPT !.phase = "slot", !.sm = sm]
<1>1. node[n] \in Processes /\ Extends(Chain(n), node[n].chain) /\ Len(Chain(n)) \in Nat
  BY ProcessFacts, ChainFacts DEF IInv
<1>2. sm \in Managers
  BY <1>1, ManagerFacts DEF Processes
<1>3. node' = [node EXCEPT ![n] = r]
  BY DEF RequestPeerSync
<1> HIDE DEF sm
<1>4. r \in Processes /\ r.mined = node[n].mined /\ r.chain = node[n].chain
  BY <1>1, <1>2 DEF Processes, Phases
<1>5. NodeInv' /\ MinedInv' /\ ChainStep
  <2> HIDE DEF r
  <2>1. QED BY <1>1, <1>3, <1>4, NodeUpdate DEF IInv, MinedInv
<1>6. WireInv'
  BY <1>1, AskFacts DEF RequestPeerSync, IInv, WireInv
<1>7. PeersInv' /\ LinkInv' /\ FaultInv'
  BY DEF RequestPeerSync, IInv, PeersInv, LinkInv, FaultInv
<1>8. QED BY <1>5, <1>6, <1>7 DEF IInv
-----------------------------------------------------------------------------
(* The invariant *)

LEMMA InitInv == Init => IInv
<1> SUFFICES ASSUME Init PROVE IInv
  OBVIOUS
<1>1. PICK start \in Starts :
        node = [n \in Nodes |-> Start(ChainOf(start[n]), IF n \in Running THEN "slot" ELSE "off", 0)]
  BY DEF Init
<1>2. ASSUME NEW n \in Nodes
      PROVE  node[n] \in Processes /\ node[n].mined <= MaxMined[n]
  <2> DEFINE ph == IF n \in Running THEN "slot" ELSE "off"
  <2>1. ChainOf(start[n]) \in Chains /\ MaxMined[n] \in Nat
    BY ChainOfFacts, SyncAssumption
  <2>2. ph \in Phases /\ node[n] = Start(ChainOf(start[n]), ph, 0)
    BY <1>1 DEF Phases
  <2> HIDE DEF ph
  <2>3. QED BY <2>1, <2>2, StartFacts
<1>3. NodeInv /\ MinedInv
  BY <1>1, <1>2 DEF NodeInv, MinedInv
<1>4. PeersInv /\ LinkInv /\ FaultInv
  BY EntryNone, SyncAssumption DEF Init, PeersInv, LinkInv, FaultInv
<1>5. WireInv
  BY EmptySeq DEF Init, WireInv, Wires
<1>6. QED BY <1>3, <1>4, <1>5 DEF IInv

LEMMA HandleInv ==
  ASSUME IInv, NEW n \in Nodes, NEW p \in Nodes, Handle(n, p)
  PROVE  IInv' /\ ChainStep
<1>1. CASE OnHello(n, p)
  BY <1>1, ReceivesFacts, MessageTypes, AnswerInv DEF OnHello, IInv
<1>2. CASE OnWelcome(n, p)
  BY <1>2, OnWelcomeInv
<1>3. CASE OnPing(n, p)
  BY <1>3, ReceivesFacts, MessageTypes, AnswerInv DEF OnPing, IInv
<1>4. CASE OnPong(n, p)
  BY <1>4, OnPongInv
<1>5. CASE OnBlock(n, p)
  BY <1>5, OnBlockInv
<1>6. CASE OnGossip(n, p)
  BY <1>6, OnGossipInv
<1>7. CASE OnSyncRequest(n, p)
  BY <1>7, OnSyncRequestInv
<1>8. CASE OnSyncResponse(n, p)
  BY <1>8, OnSyncResponseInv
<1>9. QED BY <1>1, <1>2, <1>3, <1>4, <1>5, <1>6, <1>7, <1>8 DEF Handle

LEMMA NextInv == IInv /\ [Next]_vars => IInv' /\ ChainStep
<1> SUFFICES ASSUME IInv, [Next]_vars PROVE IInv' /\ ChainStep
  OBVIOUS
<1>1. ASSUME NEW n \in Nodes,
             \/ Boot(n) \/ Attach(n) \/ Maintain(n) \/ RequestPeerSync(n)
             \/ StartMining(n) \/ FinishMining(n) \/ RefuseOwn(n) \/ FailMining(n)
      PROVE  IInv' /\ ChainStep
  BY <1>1, BootInv, AttachInv, MaintainInv, RequestPeerSyncInv, StartMiningInv,
     FinishMiningInv, RefuseOwnInv, FailMiningInv
<1>2. ASSUME NEW n \in Nodes, NEW p \in Nodes, Handle(n, p) \/ Heartbeat(n, p) \/ Redial(n, p)
      PROVE  IInv' /\ ChainStep
  BY <1>2, HandleInv, HeartbeatInv, RedialInv
<1>3. ASSUME NEW pair \in link, Drop(pair) PROVE IInv' /\ ChainStep
  BY <1>3, DropInv
<1>4. ASSUME NEW n \in Nodes, Restart(n) PROVE IInv' /\ ChainStep
  BY <1>4, RestartInv
<1>5. CASE UNCHANGED vars
  <2>1. NodeInv' /\ MinedInv' /\ ChainStep
    BY <1>5, NodeKept DEF vars, IInv
  <2>2. PeersInv' /\ WireInv' /\ LinkInv' /\ FaultInv'
    BY <1>5 DEF vars, IInv, PeersInv, WireInv, LinkInv, FaultInv
  <2>3. QED BY <2>1, <2>2 DEF IInv
<1>6. QED BY <1>1, <1>2, <1>3, <1>4, <1>5 DEF Next

\* The inductive invariant: every chain is in order, every response on its way
\* fits the heights it claims, and a queued redial has attempts left.
THEOREM InvHolds == Spec => []IInv
<1>1. QED BY InitInv, NextInv, PTL DEF Spec
-----------------------------------------------------------------------------
(* What it means for the chains *)

\* Whatever crosses, repeats or arrives late on whatever connections, genesis
\* stays and each block sits at the height it was made for (applyBlocksFromPeer),
\* but for those that a response overtook while they or an ancestor were mined
\* (mineBlockForMiner).
THEOREM HeightsInOrderCorrect == Spec => []HeightsInOrder
<1>1. IInv => HeightsInOrder
  <2> SUFFICES ASSUME IInv, NEW n \in Nodes
               PROVE  /\ Chain(n)[1] = Genesis
                      /\ \A i \in DOMAIN Chain(n) : OnTime(Chain(n)[i]) => Len(Chain(n)[i]) = i - 1
    BY DEF HeightsInOrder
  <2>1. Chain(n) \in Chains
    BY ProcessFacts DEF IInv
  <2>2. DOMAIN Chain(n) = 1 .. Len(Chain(n))
    BY <2>1, ChainFacts
  <2>3. QED BY <2>1, <2>2, ChainFacts DEF InPlace
<1>2. QED BY <1>1, InvHolds, PTL

LEMMA PrefixIntro ==
  ASSUME NEW s \in Seq(Hash), NEW d \in Seq(Hash), Len(s) <= Len(d),
         \A i \in 1 .. Len(s) : d[i] = s[i]
  PROVE  IsPrefix(s, d)
<1>1. Len(s) \in Nat /\ Len(d) \in Nat
  BY LenProperties
<1>2. \A i \in 1 .. Len(s) : s[i] \in Hash /\ d[i] \in Hash
  BY <1>1, ElementOfSeq
<1> DEFINE a == SubSeq(s, 1, Len(s))
           b == SubSeq(d, 1, Len(s))
<1>3. /\ a \in Seq(Hash) /\ b \in Seq(Hash) /\ Len(a) = Len(s) /\ Len(b) = Len(s)
      /\ \A i \in 1 .. Len(s) : a[i] = s[i] /\ b[i] = d[i]
  BY <1>1, <1>2, SubSeqProperties
<1> HIDE DEF a, b
<1>4. a = b
  BY <1>3, SeqEqual
<1>5. QED BY <1>4 DEF IsPrefix, a, b

\* A step gives blocks up only for more blocks or in a fork recovery.
THEOREM BlocksGivenUpForMoreCorrect == Spec => BlocksGivenUpForMore
<1>1. ASSUME IInv, IInv', ChainStep, NEW n \in Nodes
      PROVE  \/ IsPrefix(Chain(n), Chain(n)')
             \/ Len(Chain(n)') > Len(Chain(n))
             \/ node[n].fails >= Threshold /\ Len(Chain(n)') = Len(Chain(n)) - 2
  <2>1. Chain(n) \in Chains /\ Chain(n)' \in Chains
    BY <1>1 DEF IInv, NodeInv, Processes, Chain
  <2>2. Len(Chain(n)) \in Nat /\ Len(Chain(n)') \in Nat
    BY <2>1, ChainFacts
  <2>3. CASE Extends(Chain(n), Chain(n)')
    BY <2>1, <2>3, PrefixIntro, ChainFacts DEF Extends
  <2>4. CASE Replaces(Chain(n), Chain(n)')
    BY <2>2, <2>4 DEF Replaces
  <2>5. CASE node[n].fails >= Threshold /\ Recovers(Chain(n), Chain(n)')
    BY <2>5 DEF Recovers
  <2>6. QED BY <1>1, <2>3, <2>4, <2>5 DEF ChainStep
<1>2. IInv /\ IInv' /\ [Next]_vars =>
        [\A n \in Nodes :
           \/ IsPrefix(Chain(n), Chain(n)')
           \/ Len(Chain(n)') > Len(Chain(n))
           \/ node[n].fails >= Threshold /\ Len(Chain(n)') = Len(Chain(n)) - 2]_vars
  BY <1>1, NextInv
<1>3. QED BY <1>2, InvHolds, PTL DEF Spec, BlocksGivenUpForMore

\* No response and no fork recovery changes what lies ReorgDepth blocks deep.
THEOREM DeepBlocksStayCorrect == Spec => DeepBlocksStay
<1>1. ASSUME IInv, IInv', ChainStep, NEW n \in Nodes
      PROVE  IsPrefix(SubSeq(Chain(n), 1, Len(Chain(n)) - ReorgDepth), Chain(n)')
  <2> DEFINE c == Chain(n)
             d == Chain(n)'
             k == Len(c) - ReorgDepth
             deep == SubSeq(c, 1, k)
  <2>1. c \in Chains /\ d \in Chains
    BY <1>1 DEF IInv, NodeInv, Processes, Chain
  <2>2. /\ Len(c) \in Nat \ {0} /\ Len(d) \in Nat \ {0} /\ ReorgDepth \in Nat \ {0, 1}
        /\ c \in Seq(Hash) /\ d \in Seq(Hash)
    BY <2>1, ChainFacts, SyncAssumption
  <2>3. k <= Len(d) /\ \A i \in 1 .. k : d[i] = c[i]
    <3>1. CASE Extends(c, d)
      BY <2>2, <3>1 DEF Extends
    <3>2. CASE Replaces(c, d)
      BY <2>2, <3>2 DEF Replaces
    <3>3. CASE Recovers(c, d)
      BY <2>2, <3>3 DEF Recovers
    <3>4. QED BY <1>1, <3>1, <3>2, <3>3 DEF ChainStep
  <2>4. deep \in Seq(Hash) /\ Len(deep) <= Len(d) /\ \A i \in 1 .. Len(deep) : d[i] = deep[i]
    <3>1. CASE k < 1
      <4>1. deep = << >>
        BY <2>2, <3>1, SubSeqEmpty
      <4> HIDE DEF deep
      <4>2. deep \in Seq(Hash) /\ Len(deep) = 0
        BY <4>1, EmptySeq
      <4>3. \A i \in 1 .. Len(deep) : d[i] = deep[i]
        BY <4>2
      <4>4. QED BY <2>2, <4>2, <4>3
    <3>2. CASE k >= 1
      <4>1. k \in 1 .. Len(c)
        BY <2>2, <3>2
      <4>2. deep \in Chains /\ Len(deep) = k /\ \A i \in 1 .. k : deep[i] = c[i]
        BY <2>1, <4>1, CutFacts
      <4>3. deep \in Seq(Hash)
        BY <4>2, ChainFacts
      <4> HIDE DEF deep, k, d, c
      <4>4. \A i \in 1 .. Len(deep) : d[i] = deep[i]
        BY <2>3, <4>2
      <4>5. QED BY <2>3, <4>2, <4>3, <4>4
    <3>3. QED BY <2>2, <3>1, <3>2
  <2> HIDE DEF deep
  <2>5. IsPrefix(deep, d)
    BY <2>2, <2>4, PrefixIntro
  <2>6. QED BY <2>5 DEF deep
<1>2. IInv /\ IInv' /\ [Next]_vars =>
        [\A n \in Nodes :
           IsPrefix(SubSeq(Chain(n), 1, Len(Chain(n)) - ReorgDepth), Chain(n)')]_vars
  BY <1>1, NextInv
<1>3. QED BY <1>2, InvHolds, PTL DEF Spec, DeepBlocksStay

\* Types, for every number of nodes, faults and blocks.
THEOREM TypeCorrect == Spec => []TypeOK
<1>1. IInv => TypeOK
  <2> SUFFICES ASSUME IInv PROVE TypeOK
    OBVIOUS
  <2>1. ASSUME NEW n \in Nodes
        PROVE  /\ Chain(n) \in Seq(Hash) /\ Chain(n) # << >>
               /\ node[n].phase \in Phases /\ node[n].job \in [tip : Hash, index : Nat]
               /\ node[n].mined \in 0 .. MaxMined[n]
               /\ {node[n].known, node[n].count, node[n].fails} \subseteq Nat
               /\ node[n].syncing \in BOOLEAN
               /\ node[n].sm \in Managers
               /\ node[n].seen \subseteq Hash
    <3>1. node[n] \in Processes /\ Chain(n) \in Chains /\ node[n].mined <= MaxMined[n] /\ MaxMined[n] \in Nat
      BY ProcessFacts, SyncAssumption DEF IInv, MinedInv
    <3>2. Chain(n) \in Seq(Hash) /\ Chain(n) # << >>
      BY <3>1, ChainFacts
    <3>3. node[n].mined \in Nat /\ node[n].known \in Nat /\ node[n].count \in Nat /\ node[n].fails \in Nat
      BY <3>1 DEF Processes
    <3>4. node[n].mined \in 0 .. MaxMined[n]
      BY <3>1, <3>3
    <3>5. node[n].phase \in Phases /\ node[n].job \in [tip : Hash, index : Nat] /\ node[n].syncing \in BOOLEAN /\ node[n].sm \in Managers
          /\ node[n].seen \subseteq Hash
      BY <3>1 DEF Processes, Jobs
    <3>6. QED BY <3>2, <3>3, <3>4, <3>5
  <2>2. peers \in [Nodes -> [Nodes -> EntryRecords]]
    BY DEF IInv, PeersInv, Entries
  <2>3. ASSUME NEW n \in Nodes, NEW p \in Nodes
        PROVE  wire[n][p] \in Seq(Message0 \cup Announcement \cup Request \cup Headers)
    <3>1. wire[n][p] \in Seq(Messages)
      BY DEF IInv, WireInv, Wires
    <3>2. Messages \subseteq Message0 \cup Announcement \cup Request \cup Headers
      BY DEF Messages, Fitting
    <3> HIDE DEF Messages
    <3>3. QED BY <3>1, <3>2, SeqMonotonic
  <2>4. LinkInv /\ FaultInv
    BY DEF IInv
  <2>5. QED BY <2>1, <2>2, <2>3, <2>4, Zenon
            DEF TypeOK, Phases, Managers, EntryRecords, LinkInv, FaultInv
<1>2. QED BY <1>1, InvHolds, PTL
=============================================================================
