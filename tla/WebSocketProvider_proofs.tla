---------------------- MODULE WebSocketProvider_proofs ----------------------
(***************************************************************************)
(* What holds of the page and its sockets for every number of sockets,     *)
(* unmounts and failures.  Connections are counted against mounts; on a    *)
(* page mounted once there is then one socket at most, which ties the      *)
(* flag, the ping and the poll to it.                                      *)
(***************************************************************************)
EXTENDS WebSocketProvider, FiniteSetTheorems, TLAPS

Timers == IF reconnect THEN 1 ELSE 0

(* Every mount brings one connection or the promise of one, no more. *)
Budget == Cardinality(Pending) + Timers <= unmounts + (IF mounted THEN 1 ELSE 0)

(* The socket a page mounted once refers to is the only one it has. *)
OnlyMine == unmounts = 0 => \A s \in Pending : wsRef = s

Inv == TypeOK /\ Budget /\ NeverStranded /\ OnlyMine /\ InStepUnlessRemounted

-----------------------------------------------------------------------------
(* Sets of sockets are counted by natural numbers. *)
LEMMA SocketsFinite ==
  ASSUME NEW S, S \subseteq Sockets
  PROVE  IsFiniteSet(S) /\ Cardinality(S) \in Nat
<1>1. IsFiniteSet(Sockets)
  BY FS_Interval, ProviderAssumption DEF ProviderAssumption, Sockets
<1> QED BY <1>1, FS_Subset, FS_CardinalityType

LEMMA PendingFinite ==
  /\ IsFiniteSet(Pending) /\ Cardinality(Pending) \in Nat
  /\ Cardinality(Pending)' \in Nat
<1>1. Pending \subseteq Sockets /\ Pending' \subseteq Sockets BY DEF Pending
<1> QED BY <1>1, SocketsFinite

(* A page mounted once has no more than one socket to wait for. *)
LEMMA OnePending ==
  ASSUME Inv, unmounts = 0
  PROVE  /\ reconnect \/ ~mounted => Pending = {}
         /\ ~mounted => ~reconnect
<1>1. Cardinality(Pending) \in Nat BY PendingFinite
<1>2. reconnect \/ ~mounted => Cardinality(Pending) = 0
  BY <1>1 DEF Inv, Budget, Timers
<1>3. ~mounted => ~reconnect
  BY <1>1 DEF Inv, Budget, Timers
<1> QED BY <1>2, <1>3, PendingFinite, FS_EmptySet

(* What ConnectWs does: one socket or one timer more, at most. *)
LEMMA Connected ==
  ASSUME Inv, NEW timer \in BOOLEAN, ConnectWs(timer)
  PROVE  /\ ready' \in [Sockets -> States]
         /\ wsRef' \in Sockets \cup {None}
         /\ reconnect' \in BOOLEAN /\ shown' \in BOOLEAN /\ throws' \in 0 .. MaxThrows
         /\ reconnect' \/ Pending' # {}
         /\ Cardinality(Pending') + Timers' <=
              Cardinality(Pending) + (IF timer THEN 1 ELSE 0) + 1
         /\ \A s \in Sockets : ready'[s] # ready[s] =>
              s = wsRef' /\ ready'[s] = "connecting"
         /\ Pending = {} => \A s \in Pending' : wsRef' = s
         /\ shown' = shown \/ shown' = FALSE
<1>0. Cardinality(Pending) \in Nat /\ Cardinality(Pending') \in Nat
  BY PendingFinite
<1>1. CASE HasSocket /\ reconnect' = timer /\ UNCHANGED <<ready, wsRef, shown, throws>>
  <2>1. wsRef \in Pending
    BY <1>1 DEF HasSocket, Pending, Inv, TypeOK
  <2>2. Pending' = Pending BY <1>1 DEF Pending
  <2> QED BY <1>0, <1>1, <2>1, <2>2 DEF Inv, TypeOK, Timers
<1>2. CASE ~HasSocket /\ NewSocket /\ reconnect' = timer /\ UNCHANGED <<shown, throws>>
  <2>1. PICK s \in Sockets :
          /\ ready[s] = "unused"
          /\ ready' = [ready EXCEPT ![s] = "connecting"]
          /\ wsRef' = s
    BY <1>2 DEF NewSocket
  <2>2. ready' \in [Sockets -> States] BY <2>1 DEF Inv, TypeOK, States
  <2>3. Pending' = Pending \cup {s} BY <2>1 DEF Pending, Inv, TypeOK
  <2>4. Cardinality(Pending') = Cardinality(Pending) + 1
    <3>1. s \notin Pending BY <2>1 DEF Pending
    <3> QED BY <2>3, <3>1, PendingFinite, FS_AddElement
  <2>5. \A t \in Sockets : ready'[t] # ready[t] => t = s /\ ready'[t] = "connecting"
    BY <2>1 DEF Inv, TypeOK
  <2> QED BY <1>0, <1>2, <2>1, <2>2, <2>3, <2>4, <2>5 DEF Inv, TypeOK, Timers
<1>3. CASE ~HasSocket /\ Thrown
  <2>1. Pending' = Pending BY <1>3 DEF Thrown, Pending
  <2>2. throws' \in 0 .. MaxThrows
    BY <1>3, ProviderAssumption DEF Thrown, Inv, TypeOK, ProviderAssumption
  <2>3. Timers' = 1 /\ reconnect' = TRUE /\ shown' = FALSE /\ wsRef' = wsRef /\ ready' = ready
    BY <1>3 DEF Thrown, Timers
  <2>4. Cardinality(Pending') + Timers' <= Cardinality(Pending) + (IF timer THEN 1 ELSE 0) + 1
    BY <1>0, <2>1, <2>3
  <2>5. ready' \in [Sockets -> States] /\ wsRef' \in Sockets \cup {None}
    BY <2>3 DEF Inv, TypeOK
  <2>6. Pending = {} => \A s \in Pending' : wsRef' = s
    BY <2>1
  <2>7. \A s \in Sockets : ready'[s] # ready[s] => s = wsRef' /\ ready'[s] = "connecting"
    BY <2>3
  <2> QED BY <2>2, <2>3, <2>4, <2>5, <2>6, <2>7, Zenon
<1> QED BY <1>1, <1>2, <1>3 DEF ConnectWs

(* A closed socket leaves the count. *)
LEMMA Closed ==
  ASSUME Inv, NEW s \in Pending, ready' = [ready EXCEPT ![s] = "closed"]
  PROVE  /\ Pending' = Pending \ {s}
         /\ Cardinality(Pending') = Cardinality(Pending) - 1
<1>1. Pending' = Pending \ {s} BY DEF Pending, Inv, TypeOK
<1>2. Cardinality(Pending \ {s}) = Cardinality(Pending) - 1
  BY PendingFinite, FS_RemoveElement
<1> QED BY <1>1, <1>2

(* A page mounted once that connects has nothing open and shows nothing, so  *)
(* the socket or the timer it gets leaves flag, ping and poll in step.       *)
LEMMA StaysInStep ==
  ASSUME Inv, NEW timer \in BOOLEAN, ConnectWs(timer), reconnect \/ ~mounted,
         UNCHANGED <<polling, pollRef, pinged, unmounts>>
  PROVE  OnlyMine' /\ InStepUnlessRemounted'
<1> SUFFICES ASSUME unmounts = 0 PROVE OnlyMine' /\ InStepUnlessRemounted'
  BY DEF OnlyMine, InStepUnlessRemounted
<1>1. Pending = {} BY OnePending
<1>2. OnlyMine' BY <1>1, Connected DEF OnlyMine
<1>3. shown' = FALSE /\ shown = FALSE
  BY <1>1, Connected DEF Inv, InStepUnlessRemounted, TypeOK, Pending
<1>4. \A s \in Sockets : ready'[s] # "open"
  BY <1>1, Connected DEF Pending
<1>5. \A s \in Sockets : ready'[s] = "closed" => ready[s] = "closed"
  BY Connected
<1>6. InStepUnlessRemounted'
  BY <1>3, <1>4, <1>5 DEF Inv, InStepUnlessRemounted, Open
<1> QED BY <1>2, <1>6

-----------------------------------------------------------------------------
LEMMA InitInv == Init => Inv
<1> SUFFICES ASSUME Init PROVE Inv OBVIOUS
<1>1. Pending = {} /\ Open = {} BY DEF Init, Pending, Open
<1>2. Cardinality(Pending) = 0 BY <1>1, FS_EmptySet
<1>3. TypeOK
  <2>1. ready \in [Sockets -> States] BY DEF Init, States
  <2>2. 0 \in 0 .. MaxUnmounts /\ 0 \in 0 .. MaxThrows
    BY ProviderAssumption DEF ProviderAssumption
  <2> QED BY <2>1, <2>2 DEF Init, TypeOK
<1>4. Budget BY <1>2 DEF Init, Budget, Timers
<1>5. InStepUnlessRemounted BY <1>1 DEF Init, InStepUnlessRemounted
<1> QED BY <1>1, <1>3, <1>4, <1>5 DEF Init, Inv, NeverStranded, OnlyMine

LEMMA MountStep == ASSUME Inv, Mount PROVE Inv'
<1>1. ConnectWs(reconnect) /\ reconnect \in BOOLEAN BY DEF Mount, Inv, TypeOK
<1>2. TypeOK' BY <1>1, Connected DEF Mount, Inv, TypeOK
<1>3. Budget'
  <2>1. Cardinality(Pending') + Timers' <= Cardinality(Pending) + Timers + 1
    BY <1>1, Connected DEF Timers
  <2>2. ~mounted /\ mounted' /\ unmounts' = unmounts BY DEF Mount
  <2>3. unmounts \in Nat BY DEF Inv, TypeOK
  <2>4. Cardinality(Pending) + Timers <= unmounts BY <2>2, <2>3 DEF Inv, Budget
  <2>5. Timers \in Nat /\ Timers' \in Nat BY DEF Timers
  <2>6. Cardinality(Pending') + Timers' <= unmounts' + 1
    BY <2>1, <2>2, <2>3, <2>4, <2>5, PendingFinite
  <2> QED BY <2>2, <2>6 DEF Budget
<1>4. NeverStranded' BY <1>1, Connected DEF NeverStranded
<1>5. OnlyMine' /\ InStepUnlessRemounted' BY <1>1, StaysInStep DEF Mount
<1> QED BY <1>2, <1>3, <1>4, <1>5 DEF Inv

LEMMA ReconnectStep == ASSUME Inv, Reconnect PROVE Inv'
<1>1. ConnectWs(FALSE) /\ reconnect BY DEF Reconnect
<1>2. TypeOK' BY <1>1, Connected DEF Reconnect, Inv, TypeOK
<1>3. Budget'
  <2>0. Cardinality(Pending') + Timers' <= Cardinality(Pending) + (IF FALSE THEN 1 ELSE 0) + 1
    <3>1. FALSE \in BOOLEAN OBVIOUS
    <3> QED BY <1>1, <3>1, Connected, Zenon
  <2>1. Cardinality(Pending') + Timers' <= Cardinality(Pending) + 1
    BY <2>0, PendingFinite
  <2>2. Timers = 1 /\ mounted' = mounted /\ unmounts' = unmounts
    BY <1>1 DEF Reconnect, Timers
  <2>3. unmounts \in Nat BY DEF Inv, TypeOK
  <2>4. Timers' \in Nat BY DEF Timers
  <2> QED BY <2>1, <2>2, <2>3, <2>4, PendingFinite DEF Inv, Budget
<1>4. NeverStranded' BY <1>1, Connected DEF NeverStranded
<1>5. OnlyMine' /\ InStepUnlessRemounted' BY <1>1, StaysInStep DEF Reconnect
<1> QED BY <1>2, <1>3, <1>4, <1>5 DEF Inv

LEMMA UnmountStep == ASSUME Inv, Unmount PROVE Inv'
<1>1. ready' \in [Sockets -> States] /\ Pending' = Pending
  BY DEF Unmount, HasSocket, Inv, TypeOK, States, Pending
<1>2. unmounts' \in 0 .. MaxUnmounts /\ unmounts' = unmounts + 1 /\ unmounts' # 0
  BY ProviderAssumption DEF Unmount, Inv, TypeOK, ProviderAssumption
<1>3. TypeOK' BY <1>1, <1>2 DEF Unmount, Inv, TypeOK
<1>4. Budget'
  <2>1. Timers' = 0 /\ Timers \in Nat BY DEF Unmount, Timers
  <2>2. Cardinality(Pending) <= unmounts + 1
    BY <2>1, PendingFinite DEF Unmount, Inv, Budget, TypeOK
  <2>3. ~mounted' BY DEF Unmount
  <2> QED BY <1>1, <1>2, <2>1, <2>2, <2>3, PendingFinite DEF Budget
<1>5. NeverStranded' BY DEF Unmount, NeverStranded
<1>6. OnlyMine' /\ InStepUnlessRemounted'
  BY <1>2 DEF OnlyMine, InStepUnlessRemounted
<1> QED BY <1>3, <1>4, <1>5, <1>6 DEF Inv

LEMMA OnOpenStep == ASSUME Inv, NEW s \in Sockets, OnOpen(s) PROVE Inv'
<1>1. ready' \in [Sockets -> States] /\ Pending' = Pending /\ s \in Pending
  BY DEF OnOpen, Inv, TypeOK, States, Pending
<1>2. TypeOK' BY <1>1 DEF OnOpen, Inv, TypeOK
<1>3. Budget' BY <1>1 DEF OnOpen, Inv, Budget, Timers
<1>4. NeverStranded' BY <1>1 DEF OnOpen, Inv, NeverStranded
<1>5. OnlyMine' BY <1>1 DEF OnOpen, Inv, OnlyMine
<1>6. InStepUnlessRemounted'
  <2> SUFFICES ASSUME unmounts = 0 PROVE InStepUnlessRemounted'
    BY DEF OnOpen, InStepUnlessRemounted
  <2>1. wsRef = s /\ wsRef # None /\ \A t \in Pending : t = s
    BY <1>1, ProviderAssumption DEF Inv, OnlyMine, Sockets, ProviderAssumption
  <2>2. Open' \subseteq {s} BY <1>1, <2>1 DEF Open, Pending
  <2>3. ready'[s] = "open" BY DEF OnOpen, Inv, TypeOK
  <2>4. polling' = FALSE /\ pollRef' = FALSE
    BY DEF OnOpen, Inv, InStepUnlessRemounted
  <2> QED BY <2>1, <2>2, <2>3, <2>4 DEF OnOpen, InStepUnlessRemounted
<1> QED BY <1>2, <1>3, <1>4, <1>5, <1>6 DEF Inv

LEMMA OnErrorStep == ASSUME Inv, NEW s \in Sockets, OnError(s) PROVE Inv'
<1>1. ready' \in [Sockets -> States] /\ Pending' = Pending /\ s \in Pending
  BY DEF OnError, Inv, TypeOK, States, Pending
<1>2. TypeOK' BY <1>1 DEF OnError, Inv, TypeOK
<1>3. Budget' BY <1>1 DEF OnError, Inv, Budget, Timers
<1>4. NeverStranded' BY <1>1 DEF OnError, Inv, NeverStranded
<1>5. OnlyMine' BY <1>1 DEF OnError, Inv, OnlyMine
<1>6. InStepUnlessRemounted'
  <2>1. Open' \subseteq Open BY DEF OnError, Open, Inv, TypeOK
  <2>2. \A t \in Sockets : ready'[t] = "closed" => ready[t] = "closed"
    BY DEF OnError, Inv, TypeOK
  <2>3. \A t \in Sockets : ready[t] \in {"open", "closing"} => ready'[t] \in {"open", "closing"}
    BY DEF OnError, Inv, TypeOK
  <2> QED BY <2>1, <2>2, <2>3 DEF OnError, Inv, TypeOK, InStepUnlessRemounted
<1> QED BY <1>2, <1>3, <1>4, <1>5, <1>6 DEF Inv

LEMMA OnCloseStep == ASSUME Inv, NEW s \in Sockets, OnClose(s) PROVE Inv'
<1>1. s \in Pending BY DEF OnClose, Pending
<1>2. Pending' = Pending \ {s} /\ Cardinality(Pending') = Cardinality(Pending) - 1
  BY <1>1, Closed DEF OnClose
<1>3. TypeOK'
  <2>1. ready' \in [Sockets -> States] BY DEF OnClose, Inv, TypeOK, States
  <2>2. /\ reconnect' \in BOOLEAN /\ polling' \in BOOLEAN /\ pollRef' \in BOOLEAN
        /\ shown' \in BOOLEAN
    BY DEF OnClose, SetReconnect, Inv, TypeOK
  <2> QED BY <2>1, <2>2 DEF OnClose, Inv, TypeOK
<1>4. Budget'
  <2>1. Timers \in {0, 1} /\ Timers' = 1
    BY DEF Timers, OnClose, SetReconnect
  <2> QED BY <1>2, <2>1, PendingFinite DEF OnClose, Inv, Budget, TypeOK
<1>5. NeverStranded' BY DEF OnClose, SetReconnect, NeverStranded
<1>6. OnlyMine' /\ InStepUnlessRemounted'
  <2> SUFFICES ASSUME unmounts = 0 PROVE OnlyMine' /\ InStepUnlessRemounted'
    BY DEF OnClose, OnlyMine, InStepUnlessRemounted
  <2>1. Pending' = {} BY <1>1, <1>2 DEF Inv, OnlyMine
  <2>2. Open' = {} BY <2>1 DEF Open, Pending
  <2>3. shown' = FALSE /\ polling' = TRUE /\ pollRef' = TRUE
    BY DEF OnClose, Inv, InStepUnlessRemounted, TypeOK
  <2> QED BY <2>1, <2>2, <2>3 DEF OnlyMine, InStepUnlessRemounted
<1> QED BY <1>3, <1>4, <1>5, <1>6 DEF Inv

LEMMA NextInv == ASSUME Inv, [Next]_vars PROVE Inv'
<1>1. CASE Mount BY <1>1, MountStep
<1>2. CASE Unmount BY <1>2, UnmountStep
<1>3. CASE Reconnect BY <1>3, ReconnectStep
<1>4. CASE \E s \in Sockets : OnOpen(s) \/ OnError(s) \/ OnClose(s)
  BY <1>4, OnOpenStep, OnErrorStep, OnCloseStep
<1>5. CASE UNCHANGED vars
  <2>1. Pending' = Pending /\ Open' = Open BY <1>5 DEF vars, Pending, Open
  <2> QED BY <1>5, <2>1 DEF vars, Inv, TypeOK, Budget, Timers, NeverStranded, OnlyMine,
                            InStepUnlessRemounted
<1> QED BY <1>1, <1>2, <1>3, <1>4, <1>5 DEF Next

(* The invariant holds in every state.  Budget ties connections to mounts;   *)
(* OnlyMine follows from it on a page mounted once, and ties the flag, the   *)
(* ping and the poll to the one socket.                                      *)
THEOREM InvHolds == Spec => []Inv
<1>1. Init => Inv BY InitInv
<1>2. Inv /\ [Next]_vars => Inv' BY NextInv
<1> QED BY <1>1, <1>2, PTL DEF Spec

(* References name sockets the page has opened or none. *)
THEOREM TypeCorrect == Spec => []TypeOK
<1>1. Inv => TypeOK BY DEF Inv
<1> QED BY <1>1, InvHolds, PTL

(* However sockets fail and pages remount, connections, promised ones        *)
(* included, do not outnumber the mounts.                                    *)
THEOREM SocketsPerMountCorrect == Spec => []SocketsPerMount
<1>1. Inv => SocketsPerMount
  BY PendingFinite DEF Inv, TypeOK, Budget, Timers, SocketsPerMount
<1> QED BY <1>1, InvHolds, PTL

(* A mounted page is never left without a socket or a timer. *)
THEOREM NeverStrandedCorrect == Spec => []NeverStranded
<1>1. Inv => NeverStranded BY DEF Inv
<1> QED BY <1>1, InvHolds, PTL

(* On a page mounted once, flag, ping and poll agree with its one socket. *)
THEOREM InStepCorrect == Spec => []InStepUnlessRemounted
<1>1. Inv => InStepUnlessRemounted BY DEF Inv
<1> QED BY <1>1, InvHolds, PTL
=============================================================================
