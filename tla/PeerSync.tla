------------------------------- MODULE PeerSync -------------------------------
(***************************************************************************)
(* How nodes bring their chains together: core/p2p/net_processing.zig      *)
(* (the handlers of the P2P threads), core/p2p/sync_coord.zig, core/sync   *)
(* .zig, core/p2p/transport.zig and banman.zig (connections), and the part *)
(* of the mining loop in core/main.zig that talks to peers.                *)
(*                                                                         *)
(* A connection is one entry in the peer list of each side and a FIFO      *)
(* channel each way.  A handler is one action, and so is each stage of the *)
(* mining loop; between them the threads of all nodes interleave.          *)
(*                                                                         *)
(* The hash of a block stands for its whole ancestry: it is the sequence   *)
(* of <<miner, number, on time>> of the blocks above genesis, so that the  *)
(* height a block was made for and its real parent can be read off it.  A  *)
(* node stores, as the code does, only hashes: the previous_hash it        *)
(* records is the hash of whatever block it put the new one on.  The third *)
(* component is history: FALSE if the chain had another length when the    *)
(* miner appended the block than when it began to mine it.                 *)
(*                                                                         *)
(* Who may mine a slot depends on clocks and on the validator set; here    *)
(* any node with blocks left may, and an announcement may be refused.      *)
(***************************************************************************)
EXTENDS Integers, Sequences, FiniteSets, SequencesExt

CONSTANTS
  Nodes,
  Seeds,       \* Seeds[n]: the peers n dials when it starts
  Running,     \* nodes whose mining loop runs in the initial state
  Starts,      \* Starts: for each node, the tip of the chain it starts with
  Gap,         \* IBD_GAP_TRIGGER (6)
  Tolerance,   \* IBD_TOLERANCE (6)
  Batch,       \* MAX_HEADERS_PER_REQ (2000)
  Lookback,    \* FORK_LOOKBACK (16)
  ReorgDepth,  \* REORG_DEPTH_LIMIT (1000)
  Threshold,   \* FORK_RECOVERY_THRESHOLD (3)
  MaxAttempts, \* MAX_RECONNECT_ATTEMPTS (3)
  Harder,      \* heights whose retarget makes the new block itself too easy
  MaxMined,    \* bound: n begins to mine MaxMined[n] blocks
  MaxFaults,   \* bound: connections lost and restarts
  MaxWire      \* bound: a heartbeat waits while a connection is this busy

Hash == Seq(Nodes \X Nat \X BOOLEAN)
Genesis == << >>

ASSUME SyncAssumption ==
  /\ Seeds \in [Nodes -> SUBSET Nodes] /\ Running \subseteq Nodes
  /\ \A start \in Starts : start \in [Nodes -> Hash]
  /\ Gap \in Nat /\ Tolerance \in Nat /\ Batch \in Nat \ {0} /\ Lookback \in Nat
  /\ ReorgDepth \in Nat \ {0, 1} /\ Threshold \in Nat \ {0} /\ MaxAttempts \in Nat \ {0}
  /\ Harder \subseteq Nat /\ MaxMined \in [Nodes -> Nat] /\ MaxFaults \in Nat /\ MaxWire \in Nat

VARIABLES
  node,   \* what each process knows, see Start
  peers,  \* peers[n][p]: n's entry for p in the peer list and the redial queue
  link,   \* the open TCP connections, as sets {n, p}
  wire,   \* wire[n][p]: the messages on their way from n to p
  faults

vars == <<node, peers, link, wire, faults>>

Larger(x, y) == IF x > y THEN x ELSE y
Smaller(x, y) == IF x < y THEN x ELSE y

\* The chain whose tip is h: the block at height k is at k + 1.
ChainOf(h) == [i \in 1 .. Len(h) + 1 |-> SubSeq(h, 1, i - 1)]

SyncManager(height) == [local |-> height, target |-> 0, downloading |-> FALSE]

\* What mineBlockForMiner reads before the proof of work: the tip, the index.
NoJob == [tip |-> Genesis, index |-> 1]

\* A process that starts on a chain.  "off": before initP2PStack; "boot":
\* listening and dialling, the blockchain not yet attached to the P2P node;
\* "slot": at the top of the mining loop; "pow": in mineBlockForMiner, the
\* mutex free; the others: in the rest of the loop's body.
Start(chain, ph, mined) ==
  [chain |-> chain, phase |-> ph, mined |-> mined,
   job |-> NoJob,
   known |-> 0,               \* P2PNode.chain_height
   count |-> Len(chain) - 1,  \* block_count in main
   syncing |-> FALSE,         \* is_syncing
   sm |-> SyncManager(Len(chain)),
   fails |-> 0,               \* consecutive_bcast_fails
   seen |-> {}]               \* seen_block_hashes

NoEntry == [listed |-> FALSE, connected |-> FALSE, outbound |-> FALSE,
            height |-> 0, queued |-> FALSE, attempts |-> 0]

Init ==
  /\ \E start \in Starts :
       node = [n \in Nodes |->
         Start(ChainOf(start[n]), IF n \in Running THEN "slot" ELSE "off", 0)]
  /\ peers = [n \in Nodes |-> [p \in Nodes |-> NoEntry]]
  /\ link = {}
  /\ wire = [n \in Nodes |-> [p \in Nodes |-> << >>]]
  /\ faults = 0

Chain(n) == node[n].chain
Attached(n) == node[n].phase \notin {"off", "boot"}
-----------------------------------------------------------------------------
(* Sending *)

\* peer.send: what is written to a dead connection is lost, and most callers
\* ignore the error.
Send(w, n, p, m) ==
  IF {n, p} \in link THEN [w EXCEPT ![n][p] = Append(@, m)] ELSE w

\* Mutant: the comparison of heights is turned round.
AskLower(n, entries, from, forced, w) ==
  LET able == {p \in Nodes : entries[p].connected
                               /\ (forced \/ entries[p].height < from)}
      req == [type |-> "sync_request", from |-> from]
  IN  IF able = {} THEN {w} ELSE {Send(w, n, p, req) : p \in able}

\* requestSyncEx: one request, to the first connected peer whose height is
\* above from.  The order of the list is that of connecting: any peer may be
\* first.
Ask(n, entries, from, forced, w) ==
  LET able == {p \in Nodes : entries[p].connected
                               /\ (forced \/ entries[p].height > from)}
      req == [type |-> "sync_request", from |-> from]
  IN  IF able = {} THEN {w} ELSE {Send(w, n, p, req) : p \in able}
-----------------------------------------------------------------------------
(* SyncManager *)

OnPeerHeight(s, h) == [s EXCEPT !.target = h, !.downloading = FALSE]

\* onBlockApplied sets the height, onBlocksReceived adds to it.
Progress(s, height) ==
  [s EXCEPT !.local = height, !.downloading = @ /\ height < s.target]
OnBlocksReceived(s, k) == IF k = 0 THEN s ELSE Progress(s, s.local + k)
OnBlockApplied(s, height) == Progress(s, height)
-----------------------------------------------------------------------------
(* Messages about heights *)

\* The thread of p's connection at n takes the next message.
Receives(n, p, type) ==
  /\ peers[n][p].connected
  /\ wire[p][n] # << >>
  /\ Head(wire[p][n]).type = type
Message(n, p) == Head(wire[p][n])
Taken(n, p) == [wire EXCEPT ![p][n] = Tail(@)]

\* The handlers of hello and ping: record the peer's height, answer with the
\* height known before, and ask for blocks when the SyncManager is behind.
Answer(n, p, reply) ==
  LET h == Message(n, p).height
      new == [peers EXCEPT ![n][p].height = h]
      w == Send(Taken(n, p), n, p, [type |-> reply, height |-> node[n].known])
  IN  /\ peers' = new
      /\ node' = [node EXCEPT ![n].known = Larger(@, h),
                              ![n].sm = IF Attached(n) THEN OnPeerHeight(@, h) ELSE @]
      /\ wire' \in IF Attached(n) /\ node[n].sm.local < h
                   THEN Ask(n, new[n], Len(Chain(n)), FALSE, w) ELSE {w}
      /\ UNCHANGED <<link, faults>>

OnHello(n, p) == Receives(n, p, "hello") /\ Answer(n, p, "welcome")
OnPing(n, p) == Receives(n, p, "ping") /\ Answer(n, p, "pong")

\* The handler compares with a chain of length 0 while none is attached.
OnWelcome(n, p) ==
  LET h == Message(n, p).height
      local == IF Attached(n) THEN Len(Chain(n)) ELSE 0
  IN  /\ Receives(n, p, "welcome")
      /\ peers' = [peers EXCEPT ![n][p].height = h]
      /\ node' = [node EXCEPT ![n].known = Larger(@, h),
                              ![n].syncing = @ \/ h > local + Gap]
      /\ wire' = Taken(n, p)
      /\ UNCHANGED <<link, faults>>

OnPong(n, p) ==
  /\ Receives(n, p, "pong")
  /\ peers' = [peers EXCEPT ![n][p].height = Message(n, p).height]
  /\ node' = [node EXCEPT ![n].known = Larger(@, Message(n, p).height)]
  /\ wire' = Taken(n, p)
  /\ UNCHANGED <<link, faults>>
-----------------------------------------------------------------------------
(* Announcements of blocks *)

\* The start of both handlers: the heights that the announcement tells of.
Heard(n, p, ann) ==
  [peers EXCEPT ![n][p].height = Larger(@, ann.height)]

\* What the block handler asks for: the blocks from its own length on, or,
\* when it has another block at that height, Lookback blocks more.
AskForBlock(n, entries, ann, w) ==
  LET len == Len(Chain(n))
  IN  CASE ann.height >= len -> Ask(n, entries, len, FALSE, w)
        [] ann.height < len /\ Chain(n)[ann.height + 1] # ann.hash ->
             Ask(n, entries, Larger(ann.height - Lookback, 0), TRUE, w)
        [] OTHER -> {w}

\* A block for the next height is dropped when its miner is not the leader.
OnBlock(n, p) ==
  LET ann == Message(n, p)
      w == Taken(n, p)
      refusal == IF ann.height = Len(Chain(n)) THEN {w} ELSE {}
  IN  /\ Receives(n, p, "block")
      /\ peers' = Heard(n, p, ann)
      /\ node' = [node EXCEPT ![n].known = Larger(@, ann.height)]
      /\ wire' \in IF Attached(n)
                   THEN AskForBlock(n, Heard(n, p, ann)[n], ann, w) \cup refusal
                   ELSE {w}
      /\ UNCHANGED <<link, faults>>

\* relayBlockExcept: to every other peer.
Relay(w, n, p, m) ==
  [w EXCEPT ![n] = [q \in Nodes |->
     IF q # p /\ peers[n][q].connected /\ {n, q} \in link
     THEN Append(w[n][q], m) ELSE w[n][q]]]

OnGossip(n, p) ==
  LET ann == Message(n, p)
      w == Taken(n, p)
      len == Len(Chain(n))
      asked == IF Attached(n) /\ ann.height >= len
               THEN Ask(n, Heard(n, p, ann)[n], len, FALSE, w) ELSE {w}
  IN  /\ Receives(n, p, "block_gossip")
      /\ IF ann.hash \in node[n].seen
         THEN wire' = w /\ UNCHANGED <<node, peers>>
         ELSE /\ node' = [node EXCEPT ![n].known = Larger(@, ann.height),
                                      ![n].seen = @ \cup {ann.hash}]
              /\ peers' = Heard(n, p, ann)
              /\ wire' \in {Relay(v, n, p, ann) : v \in asked}
      /\ UNCHANGED <<link, faults>>
-----------------------------------------------------------------------------
(* Requests and responses *)

\* buildHeadersResponse.  A node with no chain attached sends an empty one.
Response(n, from) ==
  [type |-> "sync_response", from |-> from,
   blocks |-> IF Attached(n)
              THEN SubSeq(Chain(n), from + 1, Smaller(from + Batch, Len(Chain(n))))
              ELSE << >>]

OnSyncRequest(n, p) ==
  /\ Receives(n, p, "sync_request")
  /\ wire' = Send(Taken(n, p), n, p, Response(n, Message(n, p).from))
  /\ UNCHANGED <<node, peers, link, faults>>

\* blockHashesMatch, of the first header only.
Diverges(chain, m) == m.from < Len(chain) /\ chain[m.from + 1] # m.blocks[1]

\* Mutant: the whole chain may be replaced.
AdoptsAtAnyDepth(chain, m) == m.from > 0 /\ m.from + Len(m.blocks) > Len(chain)

\* Mutant: a chain of the same length is adopted too.
AdoptsNotShorter(chain, m) ==
  /\ Len(chain) - m.from <= ReorgDepth
  /\ m.from > 0
  /\ m.from + Len(m.blocks) >= Len(chain)

\* The conditions under which a diverging chain is adopted: not too deep, not
\* at or below the checkpoint (genesis), and longer.
Adopts(chain, m) ==
  /\ Len(chain) - m.from <= ReorgDepth
  /\ m.from > 0
  /\ m.from + Len(m.blocks) > Len(chain)

\* Mutant: no look at the height of a header.
NewBlocksAnyHeight(base, m) == m.blocks

\* The headers that are appended: those from the local length on, if the
\* first of them does not leave a gap.
NewBlocks(base, m) ==
  IF m.from > Len(base) THEN << >>
  ELSE SubSeq(m.blocks, Len(base) - m.from + 1, Len(m.blocks))

\* applyBlocksFromPeer: truncate to the first header if it diverges, then
\* append.
ApplyBlocksFromPeer(chain, m) ==
  IF Diverges(chain, m) /\ ~Adopts(chain, m)
  THEN [chain |-> chain, applied |-> 0]
  ELSE LET base == IF Diverges(chain, m) THEN SubSeq(chain, 1, m.from) ELSE chain
           new == NewBlocks(base, m)
       IN  [chain |-> base \o new, applied |-> Len(new)]

\* Mutant: the flag is left as it is.
StillSyncingForever(n, len, height) == node[n].syncing

\* The flag after a response: is the peer's height within Tolerance now?
StillSyncing(n, len, height) ==
  node[n].syncing /\ ~(height > 0 /\ len + Tolerance >= height)

\* An empty response ends the handler: nothing below happens.
OnSyncResponse(n, p) ==
  LET m == Message(n, p)
      result == ApplyBlocksFromPeer(Chain(n), m)
      height == Larger(peers[n][p].height, m.from + Len(m.blocks) - 1)
  IN  /\ Receives(n, p, "sync_response")
      /\ wire' = Taken(n, p)
      /\ IF m.blocks = << >> \/ ~Attached(n) THEN UNCHANGED <<node, peers>>
         ELSE /\ node' = [node EXCEPT
                   ![n].chain = result.chain,
                   ![n].sm = OnBlocksReceived(@, result.applied),
                   ![n].syncing = StillSyncing(n, Len(result.chain), height)]
              /\ peers' = [peers EXCEPT ![n][p].height = height]
      /\ UNCHANGED <<link, faults>>
-----------------------------------------------------------------------------
(* Connections *)

\* addReconnect: a peer that is queued already uses up an attempt.
AddReconnect(e) ==
  IF e.queued THEN [e EXCEPT !.attempts = @ + 1, !.queued = e.attempts + 1 < MaxAttempts]
  ELSE [e EXCEPT !.attempts = 0, !.queued = TRUE]

NewEntry(e, outbound) ==
  [listed |-> TRUE, connected |-> TRUE, outbound |-> outbound, height |-> 0,
   queued |-> e.queued /\ ~outbound, attempts |-> IF outbound THEN 0 ELSE e.attempts]

Greeting(n, type) == [type |-> type, height |-> node[n].known]

\* connectToPeer on the side of n and handleInboundPeer on that of p, for
\* each p in S: an entry each, hello and ping one way, ping the other.
Connect(n, S) ==
  /\ link' = link \cup {{n, p} : p \in S}
  /\ peers' = [x \in Nodes |-> [y \in Nodes |->
       CASE x = n /\ y \in S -> NewEntry(peers[x][y], TRUE)
         [] x \in S /\ y = n -> NewEntry(peers[x][y], FALSE)
         [] OTHER -> peers[x][y]]]
  /\ wire' = [x \in Nodes |-> [y \in Nodes |->
       CASE x = n /\ y \in S -> <<Greeting(n, "hello"), Greeting(n, "ping")>>
         [] x \in S /\ y = n -> <<Greeting(x, "ping")>>
         [] OTHER -> wire[x][y]]]

\* initP2PStack: a seed that does not listen is not tried again.
Boot(n) ==
  /\ node[n].phase = "off"
  /\ Connect(n, {p \in Seeds[n] \ {n} : node[p].phase # "off" /\ ~peers[n][p].listed})
  /\ node' = [node EXCEPT ![n].phase = "boot"]
  /\ UNCHANGED faults

\* attachBlockchain in main, after initP2PStack and knockKnock.
Attach(n) ==
  /\ node[n].phase = "boot"
  /\ node' = [node EXCEPT ![n].phase = "slot"]
  /\ UNCHANGED <<peers, link, wire, faults>>

\* heartbeatLoop.  On a dead connection the error is ignored.
Heartbeat(n, p) ==
  /\ node[n].phase # "off"
  /\ peers[n][p].connected /\ {n, p} \in link
  /\ Len(wire[n][p]) + Len(wire[p][n]) < MaxWire
  /\ wire' = Send(wire, n, p, Greeting(n, "ping"))
  /\ UNCHANGED <<node, peers, link, faults>>
-----------------------------------------------------------------------------
(* The mining loop *)

\* broadcastBlock and broadcastBlockGossip, right after mining.  A send on a
\* dead connection may fail at once or at the second message; then the entry
\* is marked and queued.  `lost' are the peers the first message failed for.
Broadcast(n, height, hash, lost, alsoLost) ==
  /\ peers' = [peers EXCEPT ![n] = [p \in Nodes |->
       IF p \in lost \cup alsoLost
       THEN AddReconnect([peers[n][p] EXCEPT !.connected = FALSE]) ELSE peers[n][p]]]
  /\ wire' = [wire EXCEPT ![n] = [p \in Nodes |->
       IF peers[n][p].connected /\ {n, p} \in link
       THEN wire[n][p] \o << [type |-> "block", height |-> height, hash |-> hash],
                            [type |-> "block_gossip", height |-> height, hash |-> hash] >>
       ELSE wire[n][p]]]

Connected(n) == {p \in Nodes : peers[n][p].connected}
Dead(n) == {p \in Connected(n) : {n, p} \notin link}

\* The head of mineBlockForMiner: under the mutex it reads the tip and the
\* length, and lets the mutex go for the proof of work.
StartMining(n) ==
  /\ node[n].phase = "slot" /\ ~node[n].syncing
  /\ node[n].mined < MaxMined[n]
  /\ node' = [node EXCEPT ![n].phase = "pow", ![n].mined = @ + 1,
                          ![n].job = [tip |-> Last(Chain(n)), index |-> Len(Chain(n))]]
  /\ UNCHANGED <<peers, link, wire, faults>>

\* The block made on the tip that was read.
MinedHash(n) ==
  Append(node[n].job.tip, <<n, node[n].mined, Len(Chain(n)) = node[n].job.index>>)

\* It goes on the chain as it is now, whatever a response did to it meanwhile;
\* its height is announced as block_count + 1, and block_count counts only
\* the blocks mined here since the start.
FinishMining(n) ==
  LET hash == MinedHash(n)
      height == node[n].count + 1
  IN  /\ node[n].phase = "pow"
      /\ \E lost \in SUBSET Dead(n) : \E alsoLost \in SUBSET (Dead(n) \ lost) :
           /\ Broadcast(n, height, hash, lost, alsoLost)
           /\ node' = [node EXCEPT
                ![n].chain = Append(@, hash),
                ![n].count = height,
                ![n].known = height,
                ![n].phase = "mined",
                ![n].job = NoJob,
                ![n].fails = IF Connected(n) \ lost # {} THEN 0
                             ELSE IF lost # {} THEN @ + 1 ELSE @,
                ![n].sm = OnBlockApplied(@, height)]
      /\ UNCHANGED <<link, faults>>

\* The block is on the chain, but its hash does not meet the difficulty that
\* the retarget at its own height has set: it is neither counted nor announced.
RefuseOwn(n) ==
  /\ node[n].phase = "pow" /\ node[n].job.index \in Harder
  /\ node' = [node EXCEPT ![n].chain = Append(@, MinedHash(n)),
                          ![n].phase = "slot",
                          ![n].job = NoJob]
  /\ UNCHANGED <<peers, link, wire, faults>>

\* mineBlockForMiner fails: the round ends.
FailMining(n) ==
  /\ node[n].phase = "pow"
  /\ node' = [node EXCEPT ![n].phase = "slot", ![n].job = NoJob]
  /\ UNCHANGED <<peers, link, wire, faults>>

\* processReconnects: an entry that is still listed counts as connected.
Redial(n, p) ==
  /\ node[n].phase \in {"mined", "dialled"}
  /\ peers[n][p].queued /\ ~peers[n][p].listed
  /\ node' = [node EXCEPT ![n].phase = "dialled"]
  /\ \/ /\ node[p].phase # "off"
        /\ Connect(n, {p})
     \/ /\ peers' = [peers EXCEPT ![n][p].attempts = @ + 1,
                                  ![n][p].queued = peers[n][p].attempts + 1 < MaxAttempts]
        /\ UNCHANGED <<link, wire>>
  /\ UNCHANGED faults

\* tryForkRecovery: after Threshold broadcasts that reached nobody the last
\* two blocks go.
Truncated(chain, fails) ==
  IF fails < Threshold \/ Len(chain) <= 2 THEN chain
  ELSE SubSeq(chain, 1, Len(chain) - 2)

\* cleanDeadPeers: a marked entry leaves the list; an outbound one is queued.
Reaped(e) ==
  IF ~e.listed \/ e.connected THEN e
  ELSE [(IF e.outbound THEN AddReconnect(e) ELSE e) EXCEPT !.listed = FALSE]

\* periodicMaintenance30, every thirtieth round: after the redials, the fork
\* recovery, the reaping, the eviction of old hashes, and the reset of a
\* SyncManager that has been downloading for a minute.
Maintain(n) ==
  LET chain == Truncated(Chain(n), node[n].fails)
      recovered == chain # Chain(n)
      downloading == node[n].sm.downloading \/ recovered
  IN  /\ node[n].phase \in {"mined", "dialled"}
      /\ \E kept \in SUBSET node[n].seen :
         \E sm \in {[node[n].sm EXCEPT !.downloading = downloading]} \cup
                   (IF downloading THEN {SyncManager(Len(chain))} ELSE {}) :
           node' = [node EXCEPT
             ![n].chain = chain,
             ![n].fails = IF recovered THEN 0 ELSE @,
             ![n].syncing = @ /\ ~recovered,
             ![n].sm = sm,
             ![n].seen = kept,
             ![n].phase = "maintained"]
      /\ peers' = [peers EXCEPT ![n] = [p \in Nodes |-> Reaped(peers[n][p])]]
      /\ UNCHANGED <<link, wire, faults>>

\* maybeRequestPeerSync, at the end of every round.
RequestPeerSync(n) ==
  LET known == node[n].known
      len == Len(Chain(n))
  IN  /\ node[n].phase \in {"mined", "maintained"}
      /\ node' = [node EXCEPT ![n].phase = "slot",
                              ![n].sm = IF known > len THEN OnPeerHeight(@, known) ELSE @]
      /\ wire' \in IF known > len /\ node[n].sm.local < known
                   THEN Ask(n, peers[n], len, FALSE, wire) ELSE {wire}
      /\ UNCHANGED <<peers, link, faults>>
-----------------------------------------------------------------------------
(* Faults *)

\* What the other side sees of the end of a connection: the thread of an
\* inbound peer takes its entry off the list, that of an outbound peer ends
\* and leaves the entry marked connected.
Unlisted(e) ==
  IF e.outbound THEN e ELSE [e EXCEPT !.listed = FALSE, !.connected = FALSE]

Closed(pairs) ==
  [x \in Nodes |-> [y \in Nodes |->
     IF {x, y} \in pairs THEN Unlisted(peers[x][y]) ELSE peers[x][y]]]
Emptied(pairs) ==
  [x \in Nodes |-> [y \in Nodes |-> IF {x, y} \in pairs THEN << >> ELSE wire[x][y]]]

Drop(pair) ==
  /\ faults < MaxFaults
  /\ faults' = faults + 1
  /\ pair \in link
  /\ link' = link \ {pair}
  /\ peers' = Closed({pair})
  /\ wire' = Emptied({pair})
  /\ UNCHANGED node

\* A process ends and starts again on the chain it had.
Restart(n) ==
  LET mine == {pair \in link : n \in pair}
  IN  /\ faults < MaxFaults
      /\ faults' = faults + 1
      /\ link' = link \ mine
      /\ peers' = [Closed(mine) EXCEPT ![n] = [p \in Nodes |-> NoEntry]]
      /\ wire' = Emptied(mine)
      /\ node' = [node EXCEPT ![n] = Start(Chain(n), "off", @.mined)]
-----------------------------------------------------------------------------
Handle(n, p) ==
  \/ OnHello(n, p)
  \/ OnWelcome(n, p)
  \/ OnPing(n, p)
  \/ OnPong(n, p)
  \/ OnBlock(n, p)
  \/ OnGossip(n, p)
  \/ OnSyncRequest(n, p)
  \/ OnSyncResponse(n, p)

Next ==
  \/ \E n \in Nodes :
       \/ Boot(n) \/ Attach(n) \/ Maintain(n) \/ RequestPeerSync(n)
       \/ StartMining(n) \/ FinishMining(n) \/ RefuseOwn(n) \/ FailMining(n)
  \/ \E n, p \in Nodes : Handle(n, p) \/ Heartbeat(n, p) \/ Redial(n, p)
  \/ \E pair \in link : Drop(pair)
  \/ \E n \in Nodes : Restart(n)

Spec == Init /\ [][Next]_vars

\* The threads of a node run: a started node attaches its chain, takes what
\* arrives, ends a proof of work (its nonces are finite) and the round of its
\* mining loop, and its heartbeat goes off
\* every ten seconds (strongly fair because of MaxWire, a bound of the model
\* and not of the code).  Nothing is assumed of mining or of the network.
Fairness ==
  /\ \A n \in Nodes : WF_vars(Boot(n)) /\ WF_vars(Attach(n)) /\ WF_vars(RequestPeerSync(n))
                    /\ WF_vars(FinishMining(n) \/ RefuseOwn(n) \/ FailMining(n))
  /\ \A n, p \in Nodes : WF_vars(Handle(n, p)) /\ SF_vars(Heartbeat(n, p))

FairSpec == Spec /\ Fairness
-----------------------------------------------------------------------------
Message0 == [type : {"hello", "welcome", "ping", "pong"}, height : Nat]
Announcement == [type : {"block", "block_gossip"}, height : Nat, hash : Hash]
Request == [type : {"sync_request"}, from : Nat]
Headers == [type : {"sync_response"}, from : Nat, blocks : Seq(Hash)]

TypeOK ==
  /\ \A n \in Nodes :
       /\ Chain(n) \in Seq(Hash) /\ Chain(n) # << >>
       /\ node[n].phase \in {"off", "boot", "slot", "pow", "mined", "dialled", "maintained"}
       /\ node[n].job \in [tip : Hash, index : Nat]
       /\ node[n].mined \in 0 .. MaxMined[n]
       /\ {node[n].known, node[n].count, node[n].fails} \subseteq Nat
       /\ node[n].syncing \in BOOLEAN
       /\ node[n].sm \in [local : Nat, target : Nat, downloading : BOOLEAN]
       /\ node[n].seen \subseteq Hash
  /\ peers \in [Nodes -> [Nodes -> [listed : BOOLEAN, connected : BOOLEAN,
       outbound : BOOLEAN, height : Nat, queued : BOOLEAN, attempts : 0 .. MaxAttempts]]]
  /\ \A pair \in link : \E n, p \in Nodes : pair = {n, p}
  /\ \A n, p \in Nodes :
       wire[n][p] \in Seq(Message0 \cup Announcement \cup Request \cup Headers)
  /\ faults \in 0 .. MaxFaults

\* No ancestor of the block, nor itself, was appended off the height it was
\* made for.
OnTime(hash) == \A i \in DOMAIN hash : hash[i][3]

\* Genesis is never replaced, and every block sits at the height it was made
\* for, unless a response changed the length of the chain while a miner was at
\* work on it or one of its ancestors: whatever else crosses, repeats or
\* arrives late, no gap is filled with the wrong block.
HeightsInOrder ==
  \A n \in Nodes :
    /\ Chain(n)[1] = Genesis
    /\ \A i \in DOMAIN Chain(n) : OnTime(Chain(n)[i]) => Len(Chain(n)[i]) = i - 1

\* A node gives up blocks for more blocks, or in a fork recovery, which drops
\* two after Threshold broadcasts have reached nobody.
BlocksGivenUpForMore ==
  [][\A n \in Nodes :
       \/ IsPrefix(Chain(n), Chain(n)')
       \/ Len(Chain(n)') > Len(Chain(n))
       \/ node[n].fails >= Threshold /\ Len(Chain(n)') = Len(Chain(n)) - 2]_vars

\* What lies ReorgDepth blocks deep stays, whatever peers send.
DeepBlocksStay ==
  [][\A n \in Nodes :
       IsPrefix(SubSeq(Chain(n), 1, Len(Chain(n)) - ReorgDepth), Chain(n)')]_vars

\* "Just sleep until sync_response brings us within IBD_TOLERANCE, then
\* resume" (main.zig): a node that stopped mining because it is behind gets
\* out of that state.
Behind(n) == \E p \in Nodes : Len(Chain(n)) + Tolerance < Len(Chain(p)) - 1
SyncingNodeResumes ==
  \A n \in Nodes : node[n].syncing /\ Behind(n) ~> ~node[n].syncing

\* When no more blocks are mined, no node stays two blocks behind another
\* (where Harder is empty: a block its miner refuses is announced to nobody).
AllCatchUpWithinOne ==
  <>[](\A n, p \in Nodes : Len(Chain(n)) + 1 >= Len(Chain(p)))
=============================================================================
