-------------------------- MODULE BridgeManagerProofs --------------------------
(***************************************************************************)
(* Proofs about BridgeManager, for every number of sockets, calls, ports   *)
(* and timers, and whatever versions the extensions report.                *)
(***************************************************************************)
EXTENDS BridgeManager, TLAPS

-----------------------------------------------------------------------------
(***************************************************************************)
(* Type correctness.  TypeOK says that no socket is both paired and        *)
(* challenged; it is inductive with the fact that a socket is neither      *)
(* before it is opened.                                                    *)
(***************************************************************************)

UnbornIsUnpaired ==
  \A c \in Conns : sock[c] = "unborn" => c \notin paired \cup challenged

\* The records that connect() in flight goes through.
LEMMA ConnectingUpdates ==
  /\ Idle \in Connects
  /\ \A b \in BOOLEAN : [at |-> "acquire", left |-> Attempts, byTimer |-> b] \in Connects
  /\ \A r \in Connects : /\ [r EXCEPT !.at = "relay", !.left = 0] \in Connects
                         /\ [r EXCEPT !.at = "listen", !.left = Ports] \in Connects
                         /\ r.left > 1 => [r EXCEPT !.left = @ - 1] \in Connects
                         /\ r.byTimer \in BOOLEAN
<1> DEFINE A == {"no", "acquire", "relay", "listen"}
           L == 0..(Attempts + Ports)
           B == BOOLEAN
           C == [at : A, left : L, byTimer : B]
<1>1. Connects = C /\ FALSE \in B
  BY DEF Connects
<1>2. 0 \in L /\ Attempts \in L /\ Ports \in L /\ \A n \in L : n > 1 => n - 1 \in L
  BY BridgeAssumption
<1>3. "no" \in A /\ "acquire" \in A /\ "relay" \in A /\ "listen" \in A
  OBVIOUS
<1> HIDE DEF A, L, B
<1>4. Idle \in C
  BY <1>1, <1>2, <1>3 DEF Idle
<1>5. ASSUME NEW b \in B PROVE [at |-> "acquire", left |-> Attempts, byTimer |-> b] \in C
  BY <1>2, <1>3
<1>6. ASSUME NEW r \in C, NEW a \in A, NEW n \in L
      PROVE  [r EXCEPT !.at = a, !.left = n] \in C
  OBVIOUS
<1>7. ASSUME NEW r \in C, r.left > 1 PROVE [r EXCEPT !.left = @ - 1] \in C
  <2>1. r.left \in L
    OBVIOUS
  <2>2. r.left - 1 \in L
    BY <2>1, <1>2, <1>7
  <2> QED  BY <2>2
<1>8. ASSUME NEW r \in C PROVE r.byTimer \in B
  OBVIOUS
<1> HIDE DEF C
<1>9. \A b \in B : [at |-> "acquire", left |-> Attempts, byTimer |-> b] \in C
  BY <1>5
<1>10. ASSUME NEW r \in C
       PROVE  /\ [r EXCEPT !.at = "relay", !.left = 0] \in C
              /\ [r EXCEPT !.at = "listen", !.left = Ports] \in C
              /\ r.left > 1 => [r EXCEPT !.left = @ - 1] \in C
              /\ r.byTimer \in B
  BY <1>2, <1>3, <1>6, <1>7, <1>8
<1> QED  BY <1>1, <1>4, <1>9, <1>10 DEF B

LEMMA InitTypeOK == ASSUME Init PROVE TypeOK /\ UnbornIsUnpaired
<1>1. Idle \in Connects
  BY ConnectingUpdates
<1>2. timers \in 0..MaxTimers /\ sock \in [Conns -> {"unborn", "open", "closing", "closed"}]
  BY BridgeAssumption DEF Init
<1>3. /\ call \in [Calls -> {"idle", "waiting", "woken", "sent", "relayed", "settled"}]
      /\ via \in [Calls -> Conns \cup {None}]
  BY DEF Init
<1> QED  BY <1>1, <1>2, <1>3 DEF Init, TypeOK, UnbornIsUnpaired

\* What a connect() that throws may do to the timers.
LEMMA RetryUpdates ==
  ASSUME TypeOK,
         \/ timers' = timers /\ armed' = armed
         \/ timers < MaxTimers /\ timers' = timers + 1 /\ armed' = TRUE
  PROVE  timers' \in 0..MaxTimers /\ armed' \in BOOLEAN /\ (armed' => timers' > 0)
<1>1. CASE timers' = timers /\ armed' = armed
  BY <1>1 DEF TypeOK
<1>2. CASE timers < MaxTimers /\ timers' = timers + 1 /\ armed' = TRUE
  <2>1. timers' \in 0..MaxTimers /\ timers' > 0
    BY <1>2, BridgeAssumption DEF TypeOK
  <2> QED  BY <1>2, <2>1
<1> QED  BY <1>1, <1>2

LEMMA NextTypeOK ==
  ASSUME TypeOK, UnbornIsUnpaired, [Next]_vars
  PROVE  TypeOK' /\ UnbornIsUnpaired'
<1>c. /\ Idle \in Connects
      /\ [connecting EXCEPT !.at = "relay", !.left = 0] \in Connects
      /\ [connecting EXCEPT !.at = "listen", !.left = Ports] \in Connects
      /\ connecting.left > 1 => [connecting EXCEPT !.left = @ - 1] \in Connects
  BY ConnectingUpdates DEF TypeOK
<1>b. \A b \in BOOLEAN : BeginConnect(b) => connecting' \in Connects
  BY ConnectingUpdates DEF BeginConnect
<1> USE BridgeAssumption DEF TypeOK, UnbornIsUnpaired, roles, retry, history,
        lifecycle, session, sockets, calls
<1>1. CASE Start
  <2>1. connecting' \in Connects
    BY <1>1, <1>b DEF Start
  <2> QED  BY <1>1, <2>1 DEF Start, BeginConnect
<1>2. CASE TimerFires
  <2>1. connecting' \in Connects
    BY <1>2, <1>b DEF TimerFires
  <2>2. timers' \in 0..MaxTimers /\ armed' = FALSE
    BY <1>2 DEF TimerFires
  <2> QED  BY <1>2, <2>1, <2>2 DEF TimerFires, BeginConnect
<1>3. CASE AcquireOwn
  BY <1>3, <1>c DEF AcquireOwn
<1>4. CASE AcquireFollow
  BY <1>4, <1>c DEF AcquireFollow, ApplySnapshot, Woken
<1>5. CASE AcquireBlocked
  <2>1. connecting' \in Connects /\ state' \in {state, "error"}
    BY <1>5, <1>c DEF AcquireBlocked, ConnectThrows
  <2>2. \/ timers' = timers /\ armed' = armed
        \/ timers < MaxTimers /\ timers' = timers + 1 /\ armed' = TRUE
    BY <1>5 DEF AcquireBlocked, ConnectThrows, ScheduleReconnect
  <2>3. timers' \in 0..MaxTimers /\ armed' \in BOOLEAN /\ (armed' => timers' > 0)
    BY <2>2, RetryUpdates
  <2> QED  BY <1>5, <2>1, <2>3 DEF AcquireBlocked
<1>6. CASE AcquireError
  <2>1. connecting' \in Connects /\ state' = state
    BY <1>6, <1>c DEF AcquireError, ConnectThrows
  <2>2. \/ timers' = timers /\ armed' = armed
        \/ timers < MaxTimers /\ timers' = timers + 1 /\ armed' = TRUE
    BY <1>6 DEF AcquireError, ConnectThrows, ScheduleReconnect
  <2>3. timers' \in 0..MaxTimers /\ armed' \in BOOLEAN /\ (armed' => timers' > 0)
    BY <2>2, RetryUpdates
  <2> QED  BY <1>6, <2>1, <2>3 DEF AcquireError
<1>7. CASE StartRelay
  BY <1>7, <1>c DEF StartRelay
<1>8. CASE Listen
  BY <1>8, <1>c DEF Listen
<1>9. CASE PortBusy
  <2>1. connecting' \in Connects /\ state' \in {state, "error"}
    BY <1>9, <1>c DEF PortBusy, ConnectThrows
  <2>2. \/ timers' = timers /\ armed' = armed
        \/ timers < MaxTimers /\ timers' = timers + 1 /\ armed' = TRUE
    BY <1>9 DEF PortBusy, ConnectThrows, ScheduleReconnect
  <2>3. timers' \in 0..MaxTimers /\ armed' \in BOOLEAN /\ (armed' => timers' > 0)
    BY <2>2, RetryUpdates
  <2>4. owner' \in BOOLEAN /\ relay' \in BOOLEAN
    BY <1>9 DEF PortBusy
  <2>5. UNCHANGED <<listening, follower, joined, stopped, lockError, ws, version, sock,
                    paired, challenged, call, via>>
    BY <1>9 DEF PortBusy
  <2> QED  BY <2>1, <2>3, <2>4, <2>5
<1>10. CASE RelayStatus
  BY <1>10 DEF RelayStatus, ApplySnapshot, Woken
<1>11. CASE RelayClosed
  BY <1>11 DEF RelayClosed, Settled, ScheduleReconnect
<1>12. CASE RelayLeft
  BY <1>12 DEF RelayLeft
<1>13. CASE Disconnect
  <2>1. timers' \in 0..MaxTimers /\ armed' = FALSE
    BY <1>13 DEF Disconnect
  <2>2. sock' \in [Conns -> {"unborn", "open", "closing", "closed"}]
        /\ \A c \in Conns : sock'[c] = "unborn" => sock[c] = "unborn"
    BY <1>13 DEF Disconnect, Dropped
  <2>3. call' \in [Calls -> {"idle", "waiting", "woken", "sent", "relayed", "settled"}]
    BY <1>13 DEF Disconnect, Settled
  <2> QED  BY <1>13, <2>1, <2>2, <2>3 DEF Disconnect
<1>14. ASSUME NEW c \in Conns, HandleConnection(c) PROVE TypeOK' /\ UnbornIsUnpaired'
  BY <1>14 DEF HandleConnection
<1>15. ASSUME NEW c \in Conns, PairingResponse(c) PROVE TypeOK' /\ UnbornIsUnpaired'
  BY <1>15 DEF PairingResponse, Live
<1>16. ASSUME NEW c \in Conns, PairingTimeout(c) PROVE TypeOK' /\ UnbornIsUnpaired'
  BY <1>16 DEF PairingTimeout, Dropped
<1>17. ASSUME NEW c \in Conns, Drop(c) PROVE TypeOK' /\ UnbornIsUnpaired'
  BY <1>17 DEF Drop, Dropped
<1>18. ASSUME NEW c \in Conns, StaleHandshake(c) PROVE TypeOK' /\ UnbornIsUnpaired'
  BY <1>18 DEF StaleHandshake, Dropped
<1>19. ASSUME NEW c \in Conns, Handshake(c) PROVE TypeOK' /\ UnbornIsUnpaired'
  BY <1>19 DEF Handshake, Dropped, Woken, Live
<1>20. ASSUME NEW c \in Conns, CloseOther(c) PROVE TypeOK' /\ UnbornIsUnpaired'
  BY <1>20 DEF CloseOther, Live
<1>21. ASSUME NEW c \in Conns, CloseSession(c) PROVE TypeOK' /\ UnbornIsUnpaired'
  BY <1>21 DEF CloseSession, Settled, ScheduleReconnect, Live
<1>22. ASSUME NEW k \in Calls, Await(k) PROVE TypeOK' /\ UnbornIsUnpaired'
  BY <1>22 DEF Await
<1>23. ASSUME NEW k \in Calls, WaitTimesOut(k) PROVE TypeOK' /\ UnbornIsUnpaired'
  BY <1>23 DEF WaitTimesOut
<1>24. ASSUME NEW k \in Calls, Refuse(k) PROVE TypeOK' /\ UnbornIsUnpaired'
  BY <1>24 DEF Refuse
<1>25. ASSUME NEW k \in Calls, Relay(k) PROVE TypeOK' /\ UnbornIsUnpaired'
  BY <1>25 DEF Relay
<1>26. ASSUME NEW k \in Calls, Send(k) PROVE TypeOK' /\ UnbornIsUnpaired'
  BY <1>26 DEF Send
<1>27. ASSUME NEW k \in Calls, HandleResponse(k) PROVE TypeOK' /\ UnbornIsUnpaired'
  BY <1>27 DEF HandleResponse
<1>28. ASSUME NEW k \in Calls, TimeOut(k) PROVE TypeOK' /\ UnbornIsUnpaired'
  BY <1>28 DEF TimeOut
<1>29. ASSUME NEW k \in Calls, RelayAnswers(k) PROVE TypeOK' /\ UnbornIsUnpaired'
  BY <1>29 DEF RelayAnswers
<1>30. CASE UNCHANGED vars
  BY <1>30 DEF vars
<1> QED  BY <1>1, <1>2, <1>3, <1>4, <1>5, <1>6, <1>7, <1>8, <1>9, <1>10,
            <1>11, <1>12, <1>13, <1>14, <1>15, <1>16, <1>17, <1>18, <1>19,
            <1>20, <1>21, <1>22, <1>23, <1>24, <1>25, <1>26, <1>27, <1>28,
            <1>29, <1>30 DEF Next, Connecting

\* Every reachable state of the manager is well typed: in particular the
\* timers are counted right and no paired socket is timed (manager.ts,
\* pairingChallenges, reconnectTimer).
THEOREM TypeCorrect == Spec => []TypeOK
<1>1. Init => TypeOK /\ UnbornIsUnpaired
  BY InitTypeOK
<1>2. TypeOK /\ UnbornIsUnpaired /\ [Next]_vars => (TypeOK /\ UnbornIsUnpaired)'
  BY NextTypeOK
<1> QED  BY <1>1, <1>2, PTL DEF Spec

-----------------------------------------------------------------------------
(***************************************************************************)
(* The roles of the process.  Until disconnect(), at most one thing will   *)
(* decide on its role: a connect() in flight, a timer, or the owner it     *)
(* follows; and once it listens, nothing does.  A relay client that was    *)
(* dropped by disconnect() leaves a process that never listened.           *)
(***************************************************************************)

NoSocket == ws = None /\ \A c \in Conns : sock[c] = "unborn"

JoinedFirst ==
  ~ joined => timers = 0 /\ ~ connecting.byTimer /\ ~ listening /\ follower = "no"

Undecided ==
  /\ NoSocket
  /\ timers \in {0, 1}
  /\ connecting.at # "no" => timers = 0 /\ follower = "no" /\ state = "connecting"
  /\ timers = 1 => follower = "no"

ListensOnly ==
  connecting.at = "no" /\ follower = "no" /\ state \in {"connecting", "connected"}

RoleInv ==
  /\ ~ stopped => /\ JoinedFirst
                  /\ follower # "leaving"
                  /\ listening => ListensOnly
                  /\ ~ listening => Undecided
  /\ follower = "leaving" => NoSocket /\ ~ listening /\ timers = 0 /\ connecting.at = "no"

LEMMA RoleStep ==
  ASSUME TypeOK, RoleInv, [Next]_vars
  PROVE  RoleInv'
<1> USE BridgeAssumption DEF TypeOK, RoleInv, NoSocket, JoinedFirst, Undecided, ListensOnly,
        roles, retry, history, lifecycle, session, sockets, calls
<1>1. CASE Start
  BY <1>1 DEF Start, BeginConnect
<1>2. CASE TimerFires
  BY <1>2 DEF TimerFires, BeginConnect
<1>3. CASE AcquireOwn
  BY <1>3 DEF AcquireOwn
<1>4. CASE AcquireFollow
  BY <1>4 DEF AcquireFollow, ApplySnapshot, Idle
<1>5. CASE AcquireBlocked
  <2>1. CASE connecting.left > 1
    <3>1. connecting'.at = connecting.at /\ connecting'.byTimer = connecting.byTimer
      BY <1>5, <2>1 DEF AcquireBlocked, Connects
    <3> QED  BY <1>5, <2>1, <3>1 DEF AcquireBlocked
  <2>2. CASE ~ (connecting.left > 1)
    <3>1. /\ state' = "error" /\ connecting'.at = "no" /\ connecting'.byTimer = FALSE
          /\ \/ timers' = timers
             \/ timers' = timers + 1 /\ connecting.byTimer
      BY <1>5, <2>2 DEF AcquireBlocked, ConnectThrows, ScheduleReconnect, Idle
    <3> QED  BY <1>5, <2>2, <3>1 DEF AcquireBlocked
  <2> QED  BY <2>1, <2>2
<1>6. CASE AcquireError
  BY <1>6 DEF AcquireError, ConnectThrows, ScheduleReconnect, Idle
<1>7. CASE StartRelay
  BY <1>7 DEF StartRelay
<1>8. CASE Listen
  BY <1>8 DEF Listen, Idle
<1>9. CASE PortBusy
  <2>1. CASE connecting.left > 1
    <3>1. connecting'.at = connecting.at /\ connecting'.byTimer = connecting.byTimer
      BY <1>9, <2>1 DEF PortBusy, Connects
    <3> QED  BY <1>9, <2>1, <3>1 DEF PortBusy
  <2>2. CASE ~ (connecting.left > 1)
    <3>1. /\ state' = "error" /\ connecting'.at = "no" /\ connecting'.byTimer = FALSE
          /\ \/ timers' = timers
             \/ timers' = timers + 1 /\ connecting.byTimer
      BY <1>9, <2>2 DEF PortBusy, ConnectThrows, ScheduleReconnect, Idle
    <3> QED  BY <1>9, <2>2, <3>1 DEF PortBusy
  <2> QED  BY <2>1, <2>2
<1>10. CASE RelayStatus
  BY <1>10 DEF RelayStatus, ApplySnapshot
<1>11. CASE RelayClosed
  BY <1>11 DEF RelayClosed, ScheduleReconnect
<1>12. CASE RelayLeft
  BY <1>12 DEF RelayLeft
<1>13. CASE Disconnect
  BY <1>13 DEF Disconnect
<1>14. ASSUME NEW c \in Conns, HandleConnection(c) PROVE RoleInv'
  BY <1>14 DEF HandleConnection
<1>15. ASSUME NEW c \in Conns, Handshake(c) PROVE RoleInv'
  BY <1>15 DEF Handshake, Dropped, Live
<1>16. ASSUME NEW c \in Conns, CloseSession(c) PROVE RoleInv'
  BY <1>16 DEF CloseSession, ScheduleReconnect, Live
<1>17. ASSUME NEW c \in Conns,
              \/ PairingResponse(c) \/ PairingTimeout(c) \/ Drop(c) \/ StaleHandshake(c)
              \/ CloseOther(c)
       PROVE  RoleInv'
  BY <1>17 DEF PairingResponse, PairingTimeout, Drop, StaleHandshake, CloseOther, Dropped, Live
<1>18. ASSUME NEW k \in Calls,
              \/ Await(k) \/ WaitTimesOut(k) \/ Refuse(k) \/ Relay(k) \/ Send(k)
              \/ HandleResponse(k) \/ TimeOut(k) \/ RelayAnswers(k)
       PROVE  RoleInv'
  BY <1>18 DEF Await, WaitTimesOut, Refuse, Relay, Send, HandleResponse, TimeOut, RelayAnswers
<1>19. CASE UNCHANGED vars
  BY <1>19 DEF vars
<1> QED  BY <1>1, <1>2, <1>3, <1>4, <1>5, <1>6, <1>7, <1>8, <1>9, <1>10,
            <1>11, <1>12, <1>13, <1>14, <1>15, <1>16, <1>17, <1>18, <1>19
         DEF Next, Connecting

-----------------------------------------------------------------------------
(***************************************************************************)
(* The session and what was sent on it.                                    *)
(***************************************************************************)

SentOnSession == \A k \in Pending : ws \in Conns /\ via[k] = ws

VersionOfSession ==
  ws # None /\ follower # "yes" /\ (state = "connected" \/ ~ stopped) => version = Version[ws]

LEMMA SentOnSessionStep ==
  ASSUME TypeOK, SentOnSession, [Next]_vars
  PROVE  SentOnSession'
<1> USE BridgeAssumption DEF TypeOK, SentOnSession, Pending, roles, retry, history,
        lifecycle, session, sockets, calls
<1>1. CASE Start
  BY <1>1 DEF Start, BeginConnect
<1>2. CASE TimerFires
  BY <1>2 DEF TimerFires, BeginConnect
<1>3. CASE Connecting
  BY <1>3 DEF Connecting, AcquireOwn, AcquireFollow, AcquireBlocked, AcquireError,
              StartRelay, Listen, PortBusy, ApplySnapshot, Woken
<1>4. CASE RelayStatus \/ RelayLeft
  BY <1>4 DEF RelayStatus, RelayLeft, ApplySnapshot, Woken
<1>5. CASE RelayClosed
  BY <1>5 DEF RelayClosed, Settled
<1>6. CASE Disconnect
  BY <1>6 DEF Disconnect, Settled
<1>7. ASSUME NEW c \in Conns, Handshake(c) PROVE SentOnSession'
  BY <1>7 DEF Handshake, Woken
<1>8. ASSUME NEW c \in Conns, CloseSession(c) PROVE SentOnSession'
  BY <1>8 DEF CloseSession, Settled
<1>9. ASSUME NEW c \in Conns,
             \/ HandleConnection(c) \/ PairingResponse(c) \/ PairingTimeout(c)
             \/ Drop(c) \/ StaleHandshake(c) \/ CloseOther(c)
      PROVE  SentOnSession'
  BY <1>9 DEF HandleConnection, PairingResponse, PairingTimeout, Drop, StaleHandshake,
              CloseOther
<1>10. ASSUME NEW k \in Calls, Send(k) PROVE SentOnSession'
  BY <1>10 DEF Send, NoSession
<1>11. ASSUME NEW k \in Calls,
              \/ Await(k) \/ WaitTimesOut(k) \/ Refuse(k) \/ Relay(k)
              \/ HandleResponse(k) \/ TimeOut(k) \/ RelayAnswers(k)
       PROVE  SentOnSession'
  BY <1>11 DEF Await, WaitTimesOut, Refuse, Relay, HandleResponse, TimeOut, RelayAnswers
<1>12. CASE UNCHANGED vars
  BY <1>12 DEF vars
<1> QED  BY <1>1, <1>2, <1>3, <1>4, <1>5, <1>6, <1>7, <1>8, <1>9, <1>10,
            <1>11, <1>12 DEF Next

\* Whatever is pending was sent on the socket of the session: when a session is
\* replaced, closed or given up, everything sent on it has been rejected
\* (manager.ts handleHandshake, the close handler, disconnect).
THEOREM PendingOnSession == Spec => []PendingIsOnSession
<1>1. Init => SentOnSession
  BY DEF Init, SentOnSession, Pending
<1>2. TypeOK /\ SentOnSession /\ [Next]_vars => SentOnSession'
  BY SentOnSessionStep
<1>3. SentOnSession => PendingIsOnSession
  BY DEF SentOnSession, PendingIsOnSession
<1> QED  BY <1>1, <1>2, <1>3, TypeCorrect, PTL DEF Spec

LEMMA InitRole == Init => RoleInv /\ SentOnSession /\ VersionOfSession
BY DEF Init, RoleInv, JoinedFirst, Undecided, ListensOnly, NoSocket, SentOnSession, Pending,
       VersionOfSession, Idle

LEMMA ConnectedStep ==
  ASSUME TypeOK, RoleInv, ConnectedHasSession, [Next]_vars
  PROVE  ConnectedHasSession'
<1> USE BridgeAssumption DEF TypeOK, ConnectedHasSession, roles, retry, history, lifecycle,
        session, sockets, calls
<1>1. CASE Start \/ TimerFires
  BY <1>1 DEF Start, TimerFires, BeginConnect
<1>2. CASE Connecting
  BY <1>2 DEF Connecting, AcquireOwn, AcquireFollow, AcquireBlocked, AcquireError,
              StartRelay, Listen, PortBusy, ApplySnapshot, ConnectThrows
<1>3. CASE RelayStatus \/ RelayClosed \/ RelayLeft
  BY <1>3 DEF RelayStatus, RelayClosed, RelayLeft, RoleInv
<1>4. CASE Disconnect
  BY <1>4 DEF Disconnect
<1>5. ASSUME NEW c \in Conns, Handshake(c) \/ CloseSession(c) PROVE ConnectedHasSession'
  BY <1>5 DEF Handshake, CloseSession
<1>6. ASSUME NEW c \in Conns,
             \/ HandleConnection(c) \/ PairingResponse(c) \/ PairingTimeout(c)
             \/ Drop(c) \/ StaleHandshake(c) \/ CloseOther(c)
      PROVE  ConnectedHasSession'
  BY <1>6 DEF HandleConnection, PairingResponse, PairingTimeout, Drop, StaleHandshake,
              CloseOther
<1>7. ASSUME NEW k \in Calls,
             \/ Await(k) \/ WaitTimesOut(k) \/ Refuse(k) \/ Relay(k) \/ Send(k)
             \/ HandleResponse(k) \/ TimeOut(k) \/ RelayAnswers(k)
      PROVE  ConnectedHasSession'
  BY <1>7 DEF Await, WaitTimesOut, Refuse, Relay, Send, HandleResponse, TimeOut, RelayAnswers
<1>8. CASE UNCHANGED vars
  BY <1>8 DEF vars
<1> QED  BY <1>1, <1>2, <1>3, <1>4, <1>5, <1>6, <1>7, <1>8 DEF Next

\* A bridge that is not disconnected and says it is connected has a session or
\* follows an owner, so that a call that is not refused has a way to go
\* (manager.ts call, handleHandshake, applyFollowerSnapshot).
THEOREM ConnectedMeansSession == Spec => []ConnectedHasSession
<1>1. Init => RoleInv /\ ConnectedHasSession
  BY InitRole DEF Init, ConnectedHasSession
<1>2. TypeOK /\ RoleInv /\ ConnectedHasSession /\ [Next]_vars
        => RoleInv' /\ ConnectedHasSession'
  BY RoleStep, ConnectedStep
<1> QED  BY <1>1, <1>2, TypeCorrect, PTL DEF Spec

LEMMA VersionStep ==
  ASSUME TypeOK, RoleInv, VersionOfSession, [Next]_vars
  PROVE  VersionOfSession'
<1> USE BridgeAssumption DEF TypeOK, VersionOfSession, roles, retry, history, lifecycle,
        session, sockets, calls
<1>1. CASE Start \/ TimerFires
  BY <1>1 DEF Start, TimerFires, BeginConnect
<1>2. CASE Connecting
  BY <1>2 DEF Connecting, AcquireOwn, AcquireFollow, AcquireBlocked, AcquireError,
              StartRelay, Listen, PortBusy, ConnectThrows
<1>3. CASE RelayStatus \/ RelayLeft
  BY <1>3 DEF RelayStatus, RelayLeft, RoleInv, NoSocket
<1>4. CASE RelayClosed
  BY <1>4 DEF RelayClosed, RoleInv, ListensOnly, Undecided, NoSocket
<1>5. CASE Disconnect
  BY <1>5 DEF Disconnect
<1>6. ASSUME NEW c \in Conns, Handshake(c) \/ CloseSession(c) PROVE VersionOfSession'
  BY <1>6 DEF Handshake, CloseSession
<1>7. ASSUME NEW c \in Conns,
             \/ HandleConnection(c) \/ PairingResponse(c) \/ PairingTimeout(c)
             \/ Drop(c) \/ StaleHandshake(c) \/ CloseOther(c)
      PROVE  VersionOfSession'
  BY <1>7 DEF HandleConnection, PairingResponse, PairingTimeout, Drop, StaleHandshake,
              CloseOther
<1>8. ASSUME NEW k \in Calls,
             \/ Await(k) \/ WaitTimesOut(k) \/ Refuse(k) \/ Relay(k) \/ Send(k)
             \/ HandleResponse(k) \/ TimeOut(k) \/ RelayAnswers(k)
      PROVE  VersionOfSession'
  BY <1>8 DEF Await, WaitTimesOut, Refuse, Relay, Send, HandleResponse, TimeOut, RelayAnswers
<1>9. CASE UNCHANGED vars
  BY <1>9 DEF vars
<1> QED  BY <1>1, <1>2, <1>3, <1>4, <1>5, <1>6, <1>7, <1>8, <1>9 DEF Next

LEMMA VersionKnown == Spec => [](TypeOK /\ RoleInv /\ VersionOfSession)
<1>1. Init => RoleInv /\ VersionOfSession
  BY InitRole
<1>2. TypeOK /\ RoleInv /\ VersionOfSession /\ [Next]_vars => (RoleInv /\ VersionOfSession)'
  BY RoleStep, VersionStep
<1> QED  BY <1>1, <1>2, TypeCorrect, PTL DEF Spec

\* An extension of the server's own version keeps the session, for as long as
\* its socket is open, against every handshake of another version, whatever has
\* become of the roles and calls meanwhile (manager.ts
\* staleHandshakeWouldReplaceExactVersion).
THEOREM ExactVersionKeepsSession == Spec => ExactKeepsSession
<1>1. ASSUME TypeOK, RoleInv, VersionOfSession, [Next]_vars, ~ stopped, ws # None,
             sock[ws] = "open", Version[ws] = "exact", ws' \notin {ws, None}
      PROVE  Version[ws'] = "exact"
  <2>1. listening /\ follower # "yes"
    BY <1>1 DEF TypeOK, RoleInv, Undecided, NoSocket, ListensOnly
  <2>2. version = "exact"
    BY <1>1, <2>1 DEF VersionOfSession
  <2>3. PICK c \in Conns : Handshake(c)
    BY <1>1 DEF Next, vars, roles, retry, history, lifecycle, session, sockets, calls,
                Start, TimerFires, Connecting, AcquireOwn, AcquireFollow, AcquireBlocked,
                AcquireError, StartRelay, Listen, PortBusy, RelayStatus, RelayClosed,
                RelayLeft, Disconnect, HandleConnection, PairingResponse, PairingTimeout,
                Drop, StaleHandshake, CloseOther, CloseSession, Await, WaitTimesOut, Refuse,
                Relay, Send, HandleResponse, TimeOut, RelayAnswers
  <2> QED  BY <1>1, <2>2, <2>3 DEF Handshake, StaleWouldReplace
<1>2. TypeOK /\ RoleInv /\ VersionOfSession /\ [Next]_vars
        => [~ stopped /\ ws # None /\ sock[ws] = "open" /\ Version[ws] = "exact"
              /\ ws' \notin {ws, None} => Version[ws'] = "exact"]_vars
  BY <1>1
<1> QED  BY <1>2, VersionKnown, PTL DEF Spec, ExactKeepsSession

LEMMA WritesStep ==
  ASSUME TypeOK, SentOnSession, VersionOfSession, WritesAvoidStale, [Next]_vars
  PROVE  WritesAvoidStale'
<1> USE BridgeAssumption DEF TypeOK, WritesAvoidStale, Pending, roles, retry, history,
        lifecycle, session, sockets, calls
<1>1. CASE Start \/ TimerFires
  BY <1>1 DEF Start, TimerFires, BeginConnect
<1>2. CASE Connecting
  BY <1>2 DEF Connecting, AcquireOwn, AcquireFollow, AcquireBlocked, AcquireError,
              StartRelay, Listen, PortBusy, ApplySnapshot, Woken
<1>3. CASE RelayStatus \/ RelayLeft
  BY <1>3 DEF RelayStatus, RelayLeft, ApplySnapshot, Woken
<1>4. CASE RelayClosed \/ Disconnect
  BY <1>4 DEF RelayClosed, Disconnect, Settled
<1>5. ASSUME NEW c \in Conns, Handshake(c) PROVE WritesAvoidStale'
  BY <1>5 DEF Handshake, Woken
<1>6. ASSUME NEW c \in Conns, CloseSession(c) PROVE WritesAvoidStale'
  BY <1>6 DEF CloseSession, Settled
<1>7. ASSUME NEW c \in Conns,
             \/ HandleConnection(c) \/ PairingResponse(c) \/ PairingTimeout(c)
             \/ Drop(c) \/ StaleHandshake(c) \/ CloseOther(c)
      PROVE  WritesAvoidStale'
  BY <1>7 DEF HandleConnection, PairingResponse, PairingTimeout, Drop, StaleHandshake,
              CloseOther
<1>8. ASSUME NEW k \in Calls, Send(k) PROVE WritesAvoidStale'
  <2>1. k \in Writes => Version[ws] # "stale"
    BY <1>8 DEF Send, NoSession, Refused, VersionOfSession
  <2> QED  BY <1>8, <2>1 DEF Send
<1>9. ASSUME NEW k \in Calls,
             \/ Await(k) \/ WaitTimesOut(k) \/ Refuse(k) \/ Relay(k)
             \/ HandleResponse(k) \/ TimeOut(k) \/ RelayAnswers(k)
      PROVE  WritesAvoidStale'
  BY <1>9 DEF Await, WaitTimesOut, Refuse, Relay, HandleResponse, TimeOut, RelayAnswers
<1>10. CASE UNCHANGED vars
  BY <1>10 DEF vars
<1> QED  BY <1>1, <1>2, <1>3, <1>4, <1>5, <1>6, <1>7, <1>8, <1>9, <1>10
         DEF Next

\* No write is pending on an extension that is known to run another version,
\* although the session may have changed while the call waited for one
\* (manager.ts call).
THEOREM WritesAvoidStaleExtensions == Spec => []WritesAvoidStale
<1>1. Init => SentOnSession /\ WritesAvoidStale
  BY InitRole DEF Init, WritesAvoidStale, Pending
<1>2. TypeOK /\ VersionOfSession /\ SentOnSession /\ WritesAvoidStale /\ [Next]_vars
        => (SentOnSession /\ WritesAvoidStale)'
  BY SentOnSessionStep, WritesStep
<1> QED  BY <1>1, <1>2, VersionKnown, PTL DEF Spec

-----------------------------------------------------------------------------
(***************************************************************************)
(* Retrying.  A process that has joined and is nothing at the moment is at *)
(* a connect() that a timer began, and that the timer's callback retries   *)
(* if it fails, or has a timer that will begin one: its state is "error"   *)
(* then, for which the callback does connect.                              *)
(***************************************************************************)

Unplaced == joined /\ ~ stopped /\ ~ lockError /\ ~ listening /\ follower # "yes"

RetryUnderWay ==
  IF connecting.at = "no" THEN timers > 0 /\ state = "error" ELSE connecting.byTimer

NeverStranded == Unplaced => RetryUnderWay

\* Only the first connect() is not by a timer, and it is before the process joins.
LaterIsByTimer == joined /\ connecting.at # "no" => connecting.byTimer

Tried == NeverStranded /\ LaterIsByTimer

LEMMA RetryStep ==
  ASSUME TypeOK, RoleInv, Tried, [Next]_vars
  PROVE  Tried'
<1> USE BridgeAssumption DEF TypeOK, Tried, NeverStranded, Unplaced, RetryUnderWay,
        LaterIsByTimer, RoleInv, JoinedFirst, Undecided, ListensOnly,
        roles, retry, history, lifecycle, session, sockets, calls
<1>1. CASE Start
  BY <1>1 DEF Start, BeginConnect
<1>2. CASE TimerFires
  BY <1>2 DEF TimerFires, BeginConnect
<1>3. CASE AcquireOwn
  BY <1>3 DEF AcquireOwn, Connects
<1>4. CASE AcquireFollow
  BY <1>4 DEF AcquireFollow, Idle
\* a connect() that goes on, and one that throws
<1>5. ASSUME connecting.at # "no", UNCHANGED <<joined, stopped, lockError, listening, follower>>,
             \/ connecting'.at = connecting.at /\ connecting'.byTimer = connecting.byTimer
             \/ ConnectThrows("error")
      PROVE  Tried'
  <2>1. CASE connecting'.at = connecting.at /\ connecting'.byTimer = connecting.byTimer
    BY <1>5, <2>1
  <2>2. CASE ConnectThrows("error")
    <3>1. state' = "error" /\ connecting'.at = "no"
          /\ (connecting.byTimer => timers' = timers + 1)
      BY <2>2 DEF ConnectThrows, ScheduleReconnect, Idle
    <3>2. Unplaced => timers' > 0
      BY <1>5, <3>1
    <3> QED  BY <1>5, <3>1, <3>2
  <2> QED  BY <1>5, <2>1, <2>2
<1>6. CASE AcquireBlocked
  <2>1. /\ connecting.at # "no"
        /\ UNCHANGED <<joined, stopped, lockError, listening, follower>>
    BY <1>6 DEF AcquireBlocked
  <2>2. \/ connecting'.at = connecting.at /\ connecting'.byTimer = connecting.byTimer
        \/ ConnectThrows("error")
    BY <1>6 DEF AcquireBlocked, Connects
  <2> QED  BY <1>5, <2>1, <2>2
<1>7. CASE PortBusy
  <2>1. /\ connecting.at # "no"
        /\ UNCHANGED <<joined, stopped, lockError, listening, follower>>
    BY <1>7 DEF PortBusy
  <2>2. \/ connecting'.at = connecting.at /\ connecting'.byTimer = connecting.byTimer
        \/ ConnectThrows("error")
    BY <1>7 DEF PortBusy, Connects
  <2> QED  BY <1>5, <2>1, <2>2
<1>8. CASE AcquireError
  BY <1>8 DEF AcquireError, ConnectThrows, Idle
<1>9. CASE StartRelay
  BY <1>9 DEF StartRelay, Connects
<1>10. CASE Listen
  BY <1>10 DEF Listen, Idle
<1>11. CASE RelayStatus
  BY <1>11 DEF RelayStatus, ApplySnapshot
<1>12. CASE RelayClosed
  BY <1>12 DEF RelayClosed, ScheduleReconnect
<1>13. CASE RelayLeft
  BY <1>13 DEF RelayLeft
<1>14. CASE Disconnect
  BY <1>14 DEF Disconnect
<1>15. ASSUME NEW c \in Conns, Handshake(c) PROVE Tried'
  BY <1>15 DEF Handshake, Live, NoSocket
<1>16. ASSUME NEW c \in Conns, CloseSession(c) PROVE Tried'
  BY <1>16 DEF CloseSession, ScheduleReconnect, Live, NoSocket
<1>17. ASSUME NEW c \in Conns,
              \/ HandleConnection(c) \/ PairingResponse(c) \/ PairingTimeout(c) \/ Drop(c)
              \/ StaleHandshake(c) \/ CloseOther(c)
       PROVE  Tried'
  BY <1>17 DEF HandleConnection, PairingResponse, PairingTimeout, Drop, StaleHandshake,
               CloseOther
<1>18. ASSUME NEW k \in Calls,
              \/ Await(k) \/ WaitTimesOut(k) \/ Refuse(k) \/ Relay(k) \/ Send(k)
              \/ HandleResponse(k) \/ TimeOut(k) \/ RelayAnswers(k)
       PROVE  Tried'
  BY <1>18 DEF Await, WaitTimesOut, Refuse, Relay, Send, HandleResponse, TimeOut, RelayAnswers
<1>19. CASE UNCHANGED vars
  BY <1>19 DEF vars
<1> QED  BY <1>1, <1>2, <1>3, <1>4, <1>6, <1>7, <1>8, <1>9, <1>10, <1>11, <1>12, <1>13,
            <1>14, <1>15, <1>16, <1>17, <1>18, <1>19 DEF Next, Connecting

\* A process that has once listened or followed is never left without a next try,
\* however its owners go, refuse and fail and whichever of its own sockets close:
\* while it is neither, a connect() is in flight that will be retried, or a timer
\* will begin one.  (scheduleReconnect and its callers; not once taking the lock
\* has failed without naming an owner, see NeverStopsRetrying.)
THEOREM RetryingNeverStops == Spec => []NeverStranded
<1>1. Init => RoleInv /\ Tried
  BY InitRole DEF Init, Tried, NeverStranded, Unplaced, LaterIsByTimer
<1>2. TypeOK /\ RoleInv /\ Tried /\ [Next]_vars => (RoleInv /\ Tried)'
  BY RoleStep, RetryStep
<1>3. Tried => NeverStranded
  BY DEF Tried
<1> QED  BY <1>1, <1>2, <1>3, TypeCorrect, PTL DEF Spec

=============================================================================
