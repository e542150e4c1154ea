-------------------------- MODULE WebSocketProvider --------------------------
(***************************************************************************)
(* How the web front end keeps its connection to a node                    *)
(* (WebSocketProvider.tsx).  The page holds a reference to one socket, a   *)
(* reconnect timer, a fallback poll and a ping timer; a socket lives on    *)
(* until its close event, which may come after the page has opened         *)
(* another, and every close event is handled alike.                        *)
(***************************************************************************)
EXTENDS Integers, FiniteSets

CONSTANTS
  MaxSockets,  \* bound: sockets the page may open, in order
  None,        \* no socket
  MaxUnmounts, \* bound: unmounts (a reload of the module, React's StrictMode)
  MaxThrows    \* bound: times new WebSocket throws

Sockets == 1 .. MaxSockets

ASSUME ProviderAssumption ==
  /\ MaxSockets \in Nat
  /\ None \notin Nat
  /\ MaxUnmounts \in Nat /\ MaxThrows \in Nat

VARIABLES
  ready,      \* readyState of each socket, "unused" before new WebSocket
  wsRef,      \* the socket the page knows, or None
  reconnect,  \* the reconnect timer runs
  polling,    \* the interval of the fallback poll runs
  pollRef,    \* pollTimer.current is set
  pinged,     \* the socket the ping timer serves, or None
  mounted,    \* the provider is mounted
  shown,      \* state.wsConnected
  unmounts,   \* history: how often it was unmounted
  throws      \* history: how often new WebSocket threw

vars == <<ready, wsRef, reconnect, polling, pollRef, pinged, mounted, shown,
          unmounts, throws>>

States == {"unused", "connecting", "open", "closing", "closed"}
Pending == {s \in Sockets : ready[s] \in {"connecting", "open", "closing"}}
Open == {s \in Sockets : ready[s] = "open"}

Init ==
  /\ ready = [s \in Sockets |-> "unused"]
  /\ wsRef = None
  /\ reconnect = FALSE /\ polling = FALSE /\ pollRef = FALSE
  /\ pinged = None
  /\ mounted = FALSE /\ shown = FALSE
  /\ unmounts = 0 /\ throws = 0

HasSocket == wsRef # None /\ ready[wsRef] \in {"connecting", "open"}

NewSocket ==
  \E s \in Sockets :
    /\ ready[s] = "unused" /\ \A t \in 1 .. s - 1 : ready[t] # "unused"
    /\ ready' = [ready EXCEPT ![s] = "connecting"]
    /\ wsRef' = s

(* new WebSocket throws: another try, with the reference as it was. *)
Thrown ==
  /\ throws < MaxThrows
  /\ throws' = throws + 1
  /\ shown' = FALSE
  /\ reconnect' = TRUE
  /\ UNCHANGED <<ready, wsRef>>

(* A new socket, unless the page's is open or about to be; timer says        *)
(* whether the reconnect timer runs otherwise.                               *)
ConnectWs(timer) ==
  \/ /\ HasSocket
     /\ reconnect' = timer
     /\ UNCHANGED <<ready, wsRef, shown, throws>>
  \/ /\ ~HasSocket
     /\ NewSocket
     /\ reconnect' = timer
     /\ UNCHANGED <<shown, throws>>
  \/ /\ ~HasSocket
     /\ Thrown

Mount ==
  /\ ~mounted
  /\ mounted' = TRUE
  /\ ConnectWs(reconnect)
  /\ UNCHANGED <<polling, pollRef, pinged, unmounts>>

(* The cleanup closes the socket and clears the timers; the close event      *)
(* comes later, and pollTimer.current keeps its number.                      *)
Unmount ==
  /\ mounted
  /\ unmounts < MaxUnmounts
  /\ mounted' = FALSE
  /\ unmounts' = unmounts + 1
  /\ ready' = IF HasSocket THEN [ready EXCEPT ![wsRef] = "closing"] ELSE ready
  /\ reconnect' = FALSE
  /\ polling' = FALSE
  /\ UNCHANGED <<wsRef, pollRef, pinged, shown, throws>>

Reconnect ==
  /\ reconnect
  /\ ConnectWs(FALSE)
  /\ UNCHANGED <<polling, pollRef, pinged, mounted, unmounts>>

\* Mutant: the fallback poll goes on.
OnOpenKeepsPoll(s) ==
  /\ ready[s] = "connecting"
  /\ ready' = [ready EXCEPT ![s] = "open"]
  /\ shown' = TRUE
  /\ pinged' = s
  /\ UNCHANGED <<wsRef, reconnect, polling, pollRef, mounted, unmounts, throws>>
(* The server has answered the handshake. *)
OnOpen(s) ==
  /\ ready[s] = "connecting"
  /\ ready' = [ready EXCEPT ![s] = "open"]
  /\ shown' = TRUE
  /\ pollRef' = FALSE
  /\ polling' = IF pollRef THEN FALSE ELSE polling
  /\ pinged' = s
  /\ UNCHANGED <<wsRef, reconnect, mounted, unmounts, throws>>

\* Mutant: an error sets the timer, as the close that follows will.
OnErrorReconnects(s) ==
  /\ ready[s] \in {"connecting", "open"}
  /\ ready' = [ready EXCEPT ![s] = "closing"]
  /\ reconnect' = TRUE
  /\ UNCHANGED <<wsRef, polling, pollRef, pinged, mounted, shown, unmounts, throws>>
(* An error closes the socket, in the handshake or later. *)
OnError(s) ==
  /\ ready[s] \in {"connecting", "open"}
  /\ ready' = [ready EXCEPT ![s] = "closing"]
  /\ UNCHANGED <<wsRef, reconnect, polling, pollRef, pinged, mounted, shown,
                 unmounts, throws>>

\* Mutant: the timer is set only for the socket the page refers to.
SetReconnectIfMine(s) == reconnect' = (reconnect \/ (s = wsRef /\ shown))
\* Mutant: the timer is set only by the end of a connection that stood.
SetReconnectIfShown(s) == reconnect' = (reconnect \/ shown)
SetReconnect(s) == reconnect' = TRUE

(* The close event, the same for every socket: it forgets the page's socket  *)
(* and stops the ping whichever socket they belong to.                       *)
OnClose(s) ==
  /\ ready[s] \in {"open", "closing"}
  /\ ready' = [ready EXCEPT ![s] = "closed"]
  /\ shown' = FALSE
  /\ wsRef' = None
  /\ pinged' = None
  /\ pollRef' = TRUE
  /\ polling' = IF pollRef THEN polling ELSE TRUE
  /\ SetReconnect(s)
  /\ UNCHANGED <<mounted, unmounts, throws>>

Next ==
  \/ Mount \/ Unmount \/ Reconnect
  \/ \E s \in Sockets : OnOpen(s) \/ OnError(s) \/ OnClose(s)

Spec == Init /\ [][Next]_vars

(* Timers fire, a closing socket gets its close event, and a handshake is    *)
(* answered or fails: a socket does not stay between the two for ever.       *)
FairSpec ==
  /\ Spec
  /\ WF_vars(Mount) /\ WF_vars(Reconnect)
  /\ \A s \in Sockets :
       /\ WF_vars(OnOpen(s))
       /\ WF_vars(ready[s] = "closing" /\ OnClose(s))

-----------------------------------------------------------------------------
(* Types. *)
TypeOK ==
  /\ ready \in [Sockets -> States]
  /\ wsRef \in Sockets \cup {None}
  /\ pinged \in Sockets \cup {None}
  /\ reconnect \in BOOLEAN /\ polling \in BOOLEAN /\ pollRef \in BOOLEAN
  /\ mounted \in BOOLEAN /\ shown \in BOOLEAN
  /\ unmounts \in 0 .. MaxUnmounts
  /\ throws \in 0 .. MaxThrows

(* A lost connection is replaced by one at most: sockets whose close event   *)
(* is to come and a reconnect timer number one, and one more per unmount.    *)
SocketsPerMount ==
  Cardinality(Pending) + (IF reconnect THEN 1 ELSE 0) <= 1 + unmounts

(* As long as the page is mounted something will bring it a connection: a    *)
(* socket whose close event sets the timer, or the timer.                    *)
NeverStranded == mounted => reconnect \/ Pending # {}

(* On a page mounted once the flag it shows, the ping and the poll belong to *)
(* the one socket: shown while it is open or about to report its end, pinged *)
(* while it is shown, polling from the first close on whenever it is not.    *)
InStepUnlessRemounted ==
  unmounts = 0 =>
    /\ shown => wsRef # None /\ ready[wsRef] \in {"open", "closing"} /\ pinged = wsRef
    /\ \A s \in Open : shown /\ wsRef = s
    /\ polling = pollRef
    /\ ~shown /\ (\E s \in Sockets : ready[s] = "closed") => polling
    /\ shown => ~polling

(* A mounted page gets a connection again as long as it has sockets to try. *)
ConnectsAgain ==
  mounted ~> shown \/ ~mounted \/ \A s \in Sockets : ready[s] # "unused"
=============================================================================
