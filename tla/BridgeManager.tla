----------------------------- MODULE BridgeManager -----------------------------
(***************************************************************************)
(* One BridgeManager (src/src/bridge/manager.ts): how a server process     *)
(* becomes the owner of the local bridge listener or a follower of the     *)
(* process that is, which EasyEDA extension it takes for its session, and  *)
(* what becomes of the calls it sends.                                     *)
(*                                                                         *)
(* A step is what the event loop runs without a break: a socket's event, a *)
(* timer, or the code between two awaits.  The other processes, the        *)
(* operating system and the extensions are the environment: their answers  *)
(* are existential choices.                                                *)
(***************************************************************************)
EXTENDS Integers, FiniteSets

CONSTANTS
  Conns,      \* sockets that extensions open, one after the other or together
  Version,    \* what each of them reports: "exact", "stale" or "silent"
  Calls,      \* bridge calls, of this process's tools and of its followers
  Writes,     \* those that are not on the read-only allowlist
  None,
  Pairing,    \* BOOLEAN: the host is not a loopback address and has a token
  Attempts,   \* FOLLOWER_ATTACH_ATTEMPTS
  Ports,      \* how many ports BRIDGE_PORT_SCAN names
  LockErrors, \* BOOLEAN: acquire() may fail without naming an owner
  MaxTimers   \* bound: reconnect timers pending at once

ASSUME BridgeAssumption ==
  /\ Version \in [Conns -> {"exact", "stale", "silent"}]
  /\ Writes \subseteq Calls /\ None \notin Conns
  /\ Attempts \in Nat \ {0} /\ Ports \in Nat \ {0} /\ MaxTimers \in Nat \ {0}
  /\ Pairing \in BOOLEAN /\ LockErrors \in BOOLEAN

VARIABLES
  state,      \* as the field of that name
  connecting, \* the connect() in flight: where it is, its tries left, who called
  owner,      \* listenerOwnership is held
  relay,      \* the relay for followers is up
  listening,  \* the WebSocket server accepts sockets
  follower,   \* followerRelayClient: "no", "yes", or "leaving" once dropped
  timers,     \* reconnect timers pending
  armed,      \* reconnectTimer refers to one of them
  sock,       \* each socket: "unborn", "open", "closing" or "closed"
  paired,     \* the sockets that need no pairing any more
  challenged, \* pairingChallenges: the sockets whose pairing is timed
  ws,         \* the socket of the session, or None
  version,    \* _extensionVersion: "exact", "stale" or "silent"
  call,       \* how far each call is
  via,        \* the socket each call was sent on
  joined,     \* history: a connect() has succeeded
  stopped,    \* history: disconnect() has been called
  lockError   \* history: acquire() has failed without naming an owner

roles == <<owner, relay, listening, follower>>
retry == <<timers, armed>>
history == <<joined, stopped, lockError>>
lifecycle == <<connecting, roles, retry, history>>
session == <<state, ws, version>>
sockets == <<sock, paired, challenged>>
calls == <<call, via>>
vars == <<lifecycle, session, sockets, calls>>

Connects == [at : {"no", "acquire", "relay", "listen"}, left : 0..(Attempts + Ports),
             byTimer : BOOLEAN]

TypeOK ==
  /\ state \in {"disconnected", "connecting", "connected", "error"}
  /\ connecting \in Connects
  /\ owner \in BOOLEAN /\ relay \in BOOLEAN /\ listening \in BOOLEAN
  /\ follower \in {"no", "yes", "leaving"}
  /\ timers \in 0..MaxTimers /\ armed \in BOOLEAN /\ (armed => timers > 0)
  /\ sock \in [Conns -> {"unborn", "open", "closing", "closed"}]
  /\ paired \subseteq Conns /\ challenged \subseteq Conns \ paired
  /\ ws \in Conns \cup {None} /\ version \in {"exact", "stale", "silent"}
  /\ call \in [Calls -> {"idle", "waiting", "woken", "sent", "relayed", "settled"}]
  /\ via \in [Calls -> Conns \cup {None}]
  /\ joined \in BOOLEAN /\ stopped \in BOOLEAN /\ lockError \in BOOLEAN

Idle == [at |-> "no", left |-> 0, byTimer |-> FALSE]

Init ==
  /\ state = "disconnected" /\ connecting = Idle
  /\ owner = FALSE /\ relay = FALSE /\ listening = FALSE /\ follower = "no"
  /\ timers = 0 /\ armed = FALSE
  /\ sock = [c \in Conns |-> "unborn"] /\ paired = {} /\ challenged = {}
  /\ ws = None /\ version = "silent"
  /\ call = [k \in Calls |-> "idle"] /\ via = [k \in Calls |-> None]
  /\ joined = FALSE /\ stopped = FALSE /\ lockError = FALSE

-----------------------------------------------------------------------------
(***************************************************************************)
(* Becoming the owner or a follower: connect().                            *)
(***************************************************************************)

\* scheduleReconnect, once the state is st; an earlier timer keeps running,
\* but nothing refers to it any more
ScheduleReconnect(st) ==
  IF st = "disconnected" THEN UNCHANGED <<retry>>
  ELSE timers < MaxTimers /\ timers' = timers + 1 /\ armed' = TRUE

BeginConnect(byTimer) ==
  /\ state' = "connecting"
  /\ connecting' = [at |-> "acquire", left |-> Attempts, byTimer |-> byTimer]

\* the server starts; a failure of this connect() is not retried
Start ==
  /\ state = "disconnected" /\ connecting.at = "no" /\ ~ joined /\ ~ stopped
  /\ BeginConnect(FALSE)
  /\ UNCHANGED <<roles, retry, history, ws, version, sockets, calls>>

\* a reconnect timer fires: its callback forgets reconnectTimer, whichever it
\* was, and calls connect(), which does nothing unless there is a need
TimerFires ==
  /\ timers > 0 /\ timers' = timers - 1 /\ armed' = FALSE
  /\ IF state \in {"connected", "connecting"} THEN UNCHANGED <<state, connecting>>
     ELSE connecting.at = "no" /\ BeginConnect(TRUE)
  /\ UNCHANGED <<roles, history, ws, version, sockets, calls>>

\* connect() throws and leaves the state st; the timer's callback tries again
ConnectThrows(st) ==
  /\ state' = st /\ connecting' = Idle
  /\ IF connecting.byTimer THEN ScheduleReconnect(st) ELSE UNCHANGED <<retry>>

AcquireOwn ==
  /\ connecting.at = "acquire"
  /\ owner' = TRUE
  /\ connecting' = [connecting EXCEPT !.at = "relay", !.left = 0]
  /\ UNCHANGED <<relay, listening, follower, retry, history, session,
                 sockets, calls>>

\* the lock is another process's, whose relay does not answer
AcquireBlocked ==
  /\ connecting.at = "acquire"
  /\ IF connecting.left > 1
     THEN /\ connecting' = [connecting EXCEPT !.left = @ - 1]
          /\ UNCHANGED <<state, retry>>
     ELSE ConnectThrows("error")
  /\ UNCHANGED <<roles, history, ws, version, sockets, calls>>

\* acquire() throws something other than an ownership conflict
AcquireError ==
  /\ LockErrors /\ connecting.at = "acquire"
  /\ ConnectThrows(state) /\ lockError' = TRUE
  /\ UNCHANGED <<roles, joined, stopped, ws, version, sockets, calls>>

\* emit('connected'): the calls that wait for it go on
Woken == [k \in Calls |-> IF call[k] = "waiting" THEN "woken" ELSE call[k]]

\* applyFollowerSnapshot, of any owner
ApplySnapshot ==
  /\ state' \in {"disconnected", "connecting", "connected", "error"}
  /\ version' \in {"exact", "stale", "silent"}
  /\ call' = IF state' = "connected" /\ state # "connected" THEN Woken ELSE call

AcquireFollow ==
  /\ connecting.at = "acquire"
  /\ follower' = "yes" /\ joined' = TRUE /\ connecting' = Idle
  /\ ApplySnapshot
  /\ UNCHANGED <<owner, relay, listening, retry, stopped, lockError, ws,
                 sockets, via>>

StartRelay ==
  /\ connecting.at = "relay"
  /\ relay' \in BOOLEAN
  /\ connecting' = [connecting EXCEPT !.at = "listen", !.left = Ports]
  /\ UNCHANGED <<owner, listening, follower, retry, history, session,
                 sockets, calls>>

Listen ==
  /\ connecting.at = "listen"
  /\ listening' = TRUE /\ joined' = TRUE /\ connecting' = Idle
  /\ UNCHANGED <<owner, relay, follower, retry, stopped, lockError, session,
                 sockets, calls>>

PortBusy ==
  /\ connecting.at = "listen"
  /\ IF connecting.left > 1
     THEN /\ connecting' = [connecting EXCEPT !.left = @ - 1]
          /\ UNCHANGED <<state, retry, owner, relay>>
     ELSE ConnectThrows("error") /\ owner' = FALSE /\ relay' = FALSE
  /\ UNCHANGED <<listening, follower, history, ws, version, sockets, calls>>

-----------------------------------------------------------------------------
(***************************************************************************)
(* The owner's relay, as a follower hears of it.                           *)
(***************************************************************************)

\* a dropped relay client still applies what was on its way
RelayStatus ==
  /\ follower # "no"
  /\ ApplySnapshot
  /\ UNCHANGED <<lifecycle, ws, sockets, via>>

Settled(ks) == [k \in Calls |-> IF k \in ks THEN "settled" ELSE call[k]]

\* slip: the relay's end is taken for the owner's orderly shutdown
RelayClosed_NotRetried ==
  /\ follower = "yes"
  /\ follower' = "no" /\ state' = "error" /\ version' = "silent"
  /\ call' = Settled({k \in Calls : call[k] = "relayed"})
  /\ UNCHANGED <<connecting, owner, relay, listening, retry, history, ws,
                 sockets, via>>

RelayClosed ==
  /\ follower = "yes"
  /\ follower' = "no" /\ state' = "error" /\ version' = "silent"
  /\ call' = Settled({k \in Calls : call[k] = "relayed"})
  /\ ScheduleReconnect("error")
  /\ UNCHANGED <<connecting, owner, relay, listening, history, ws, sockets, via>>

RelayLeft ==
  /\ follower = "leaving" /\ follower' = "no"
  /\ UNCHANGED <<connecting, owner, relay, listening, retry, history,
                 session, sockets, calls>>

-----------------------------------------------------------------------------
(***************************************************************************)
(* The sockets of the extensions.  A socket the server closes stays        *)
(* "closing" until the other side agrees, and may deliver messages still.  *)
(***************************************************************************)

Live(c) == sock[c] \in {"open", "closing"}

Dropped(c) == [sock EXCEPT ![c] = IF @ = "open" THEN "closing" ELSE @]

HandleConnection(c) ==
  /\ listening /\ sock[c] = "unborn"
  /\ sock' = [sock EXCEPT ![c] = "open"]
  /\ IF Pairing THEN challenged' = challenged \cup {c} /\ UNCHANGED paired
     ELSE paired' = paired \cup {c} /\ UNCHANGED challenged
  /\ UNCHANGED <<lifecycle, session, calls>>

\* slip: the challenge is forgotten by the socket only
PairingResponse_KeepsChallenge(c) ==
  /\ Live(c) /\ c \notin paired
  /\ paired' = paired \cup {c}
  /\ UNCHANGED <<lifecycle, session, sock, challenged, calls>>

PairingResponse(c) ==
  /\ Live(c) /\ c \notin paired
  /\ paired' = paired \cup {c} /\ challenged' = challenged \ {c}
  /\ UNCHANGED <<lifecycle, session, sock, calls>>

PairingTimeout(c) ==
  /\ c \in challenged
  /\ challenged' = challenged \ {c} /\ sock' = Dropped(c)
  /\ UNCHANGED <<lifecycle, session, paired, calls>>

\* the server closes the socket: an oversized payload, a failed pairing, a
\* refused handshake, or a session that has sent no heartbeat
Drop(c) ==
  /\ sock[c] = "open" /\ sock' = Dropped(c)
  /\ UNCHANGED <<lifecycle, session, paired, challenged, calls>>

\* slip: the recorded version is compared with the one reported now
StaleWouldReplace_SameVersion(c) ==
  ws # None /\ sock[ws] = "open" /\ version = Version[c] /\ Version[c] # "exact"

\* staleHandshakeWouldReplaceExactVersion
StaleWouldReplace(c) ==
  ws # None /\ sock[ws] = "open" /\ version = "exact" /\ Version[c] # "exact"

StaleHandshake(c) ==
  /\ Live(c) /\ c \in paired /\ StaleWouldReplace(c)
  /\ sock' = Dropped(c)
  /\ UNCHANGED <<lifecycle, session, paired, challenged, calls>>

Pending == {k \in Calls : call[k] = "sent"}   \* requestMap

\* slip: the session is replaced and its calls are left to their timers
Handshake_KeepsPending(c) ==
  /\ Live(c) /\ c \in paired /\ ~ StaleWouldReplace(c)
  /\ sock' = IF ws \in {None, c} THEN sock ELSE Dropped(ws)
  /\ ws' = c /\ state' = "connected" /\ version' = Version[c]
  /\ call' = Woken
  /\ UNCHANGED <<lifecycle, paired, challenged, via>>

\* a handshake that is accepted
Handshake(c) ==
  /\ Live(c) /\ c \in paired /\ ~ StaleWouldReplace(c)
  /\ sock' = IF ws \in {None, c} THEN sock ELSE Dropped(ws)
  /\ ws' = c /\ state' = "connected" /\ version' = Version[c]
  /\ call' = [k \in Calls |->
                IF k \in Pending /\ ws \notin {None, c} THEN "settled" ELSE Woken[k]]
  /\ UNCHANGED <<lifecycle, paired, challenged, via>>

CloseOther(c) ==
  /\ Live(c) /\ ws # c
  /\ sock' = [sock EXCEPT ![c] = "closed"]
  /\ UNCHANGED <<lifecycle, session, paired, challenged, calls>>

\* slip: the state is only given up when no other session is there
CloseSession_KeepsState(c) ==
  /\ Live(c) /\ ws = c
  /\ sock' = [sock EXCEPT ![c] = "closed"]
  /\ ws' = None /\ version' = "silent" /\ UNCHANGED state
  /\ challenged' = {}
  /\ call' = Settled(Pending)
  /\ ScheduleReconnect("connecting")
  /\ UNCHANGED <<connecting, roles, history, paired, via>>

CloseSession(c) ==
  /\ Live(c) /\ ws = c
  /\ sock' = [sock EXCEPT ![c] = "closed"]
  /\ ws' = None /\ state' = "connecting" /\ version' = "silent"
  /\ challenged' = {}
  /\ call' = Settled(Pending)
  /\ ScheduleReconnect("connecting")
  /\ UNCHANGED <<connecting, roles, history, paired, via>>

-----------------------------------------------------------------------------
(***************************************************************************)
(* The calls.  The code after an await runs before the next event, but     *)
(* nothing here depends on it: a woken call goes on at any time.           *)
(***************************************************************************)

Await(k) ==
  /\ call[k] = "idle" /\ state # "connected"
  /\ call' = [call EXCEPT ![k] = "waiting"]
  /\ UNCHANGED <<lifecycle, session, sockets, via>>

WaitTimesOut(k) ==
  /\ call[k] = "waiting"
  /\ call' = [call EXCEPT ![k] = "settled"]
  /\ UNCHANGED <<lifecycle, session, sockets, via>>

\* slip: a call that has waited was checked before it did
Refused_BeforeWaiting(k) == call[k] = "idle" /\ version = "stale" /\ k \in Writes

\* the version gate: what may not be sent to the extension that is connected
Refused(k) == version = "stale" /\ k \in Writes

\* call() after the wait, or with no need for one
Ready(k) == call[k] = "woken" \/ (call[k] = "idle" /\ state = "connected")

NoSession == follower # "yes" /\ (state # "connected" \/ ws = None)

\* slip: a call that has waited and finds no session waits once more
Refuse_WaitsAgain(k) ==
  /\ Ready(k) /\ (Refused(k) \/ NoSession)
  /\ call' = [call EXCEPT ![k] = IF Refused(k) THEN "settled" ELSE "waiting"]
  /\ UNCHANGED <<lifecycle, session, sockets, via>>

Refuse(k) ==
  /\ Ready(k) /\ (Refused(k) \/ NoSession)
  /\ call' = [call EXCEPT ![k] = "settled"]
  /\ UNCHANGED <<lifecycle, session, sockets, via>>

\* callThroughFollower
Relay(k) ==
  /\ Ready(k) /\ ~ Refused(k) /\ follower = "yes"
  /\ call' = [call EXCEPT ![k] = "relayed"]
  /\ UNCHANGED <<lifecycle, session, sockets, via>>

Send(k) ==
  /\ Ready(k) /\ ~ Refused(k) /\ follower # "yes" /\ ~ NoSession
  /\ call' = [call EXCEPT ![k] = "sent"] /\ via' = [via EXCEPT ![k] = ws]
  /\ UNCHANGED <<lifecycle, session, sockets>>

\* the answer arrives; one that is too late finds no request and is ignored
HandleResponse(k) ==
  /\ call[k] = "sent" /\ Live(via[k])
  /\ call' = [call EXCEPT ![k] = "settled"]
  /\ UNCHANGED <<lifecycle, session, sockets, via>>

\* the call's own timer, or the sweep
TimeOut(k) ==
  /\ call[k] = "sent"
  /\ call' = [call EXCEPT ![k] = "settled"]
  /\ UNCHANGED <<lifecycle, session, sockets, via>>

\* the owner answers, or does not in time
RelayAnswers(k) ==
  /\ call[k] = "relayed"
  /\ call' = [call EXCEPT ![k] = "settled"]
  /\ UNCHANGED <<lifecycle, session, sockets, via>>

\* disconnect(), at shutdown or by the owner of the manager
Disconnect ==
  /\ ~ stopped /\ stopped' = TRUE
  /\ state' = "disconnected" /\ version' = "silent"
  /\ timers' = IF armed THEN timers - 1 ELSE timers
  /\ armed' = FALSE
  /\ follower' = IF follower = "yes" THEN "leaving" ELSE follower
  /\ relay' = FALSE /\ listening' = FALSE /\ owner' = FALSE
  /\ challenged' = {}
  /\ call' = Settled({k \in Calls : call[k] \in {"sent", "relayed"}})
  /\ sock' = IF ws = None THEN sock ELSE Dropped(ws)
  /\ ws' = None
  /\ UNCHANGED <<connecting, joined, lockError, paired, via>>

Connecting == AcquireOwn \/ AcquireFollow \/ AcquireBlocked \/ AcquireError \/ StartRelay
              \/ Listen \/ PortBusy

Next ==
  \/ Start \/ TimerFires \/ Connecting \/ RelayStatus \/ RelayClosed \/ RelayLeft
  \/ Disconnect
  \/ \E c \in Conns : HandleConnection(c) \/ PairingResponse(c) \/ PairingTimeout(c)
                      \/ Drop(c) \/ StaleHandshake(c) \/ Handshake(c)
                      \/ CloseOther(c) \/ CloseSession(c)
  \/ \E k \in Calls : Await(k) \/ WaitTimesOut(k) \/ Refuse(k) \/ Relay(k) \/ Send(k)
                      \/ HandleResponse(k) \/ TimeOut(k) \/ RelayAnswers(k)

Spec == Init /\ [][Next]_vars

\* Timers fire and awaits return.  The lock's owner eventually answers or goes,
\* and a port is eventually free, if that is asked often enough.
FairSpec ==
  /\ Spec
  /\ WF_vars(TimerFires) /\ WF_vars(Connecting)
  /\ SF_vars(AcquireOwn \/ AcquireFollow) /\ SF_vars(Listen)
  /\ \A k \in Calls : /\ WF_vars(WaitTimesOut(k)) /\ WF_vars(TimeOut(k))
                      /\ WF_vars(RelayAnswers(k))
                      /\ WF_vars(call[k] = "woken" /\ (Refuse(k) \/ Relay(k) \/ Send(k)))

-----------------------------------------------------------------------------
(***************************************************************************)
(* Properties.                                                             *)
(***************************************************************************)

\* A request waits for an answer only on the socket of the session: whenever a
\* session is replaced, closed or given up, everything sent on it has been
\* rejected (manager.ts rejectPending), whatever order the handshakes and the
\* close events of old and new sockets arrive in.
PendingIsOnSession == \A k \in Pending : via[k] = ws

\* No write waits on an extension that is known to run another version, also if
\* the session changed while the call waited for one (manager.ts call).
WritesAvoidStale == \A k \in Pending \cap Writes : Version[via[k]] # "stale"

\* As long as an extension of the server's own version is connected, no other
\* version takes the session from it (docs/COMPATIBILITY.md, "preserves a
\* currently connected matching-version extension").  After disconnect() sockets
\* and timers that are left over may mix a session with an owner's status.
ExactKeepsSession ==
  [][~ stopped /\ ws # None /\ sock[ws] = "open" /\ Version[ws] = "exact"
       /\ ws' \notin {ws, None} => Version[ws'] = "exact"]_vars

\* Until it is disconnected, a bridge that says it is connected has a session,
\* its own or its owner's (manager.ts call: nothing is sent without one).
ConnectedHasSession ==
  state = "connected" /\ ~ stopped => ws # None \/ follower = "yes"

\* A bridge that has once listened or followed gets back to one of the two
\* until it is disconnected (manager.ts scheduleReconnect, "Never stops retrying").
NeverStopsRetrying == joined ~> (listening \/ follower = "yes" \/ stopped)

\* It does, as long as every failure to take the lock names its owner: also when
\* the owner's relay closes, no port is free, or the owner does not answer.
RecoversListener == joined ~> (listening \/ follower = "yes" \/ stopped \/ lockError)

\* Every call comes to an end, although its session, the owner or the manager
\* may go at any time (manager.ts call, rejectPending, waitForConnection).
EveryCallSettles == \A k \in Calls : call[k] # "idle" ~> call[k] = "settled"

\* Until disconnect(), an open socket that has not paired is timed, so that it is
\* closed "if the response is missing, mismatched, or times out (10 s)"
\* (docs/security-architecture.md:90).  It is not once a session has closed
\* meanwhile: see CloseSession.
UnpairedIsTimed ==
  ~ stopped => \A c \in Conns : sock[c] = "open" /\ c \notin paired => c \in challenged

=============================================================================
