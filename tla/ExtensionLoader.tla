--------------------------- MODULE ExtensionLoader ---------------------------
(***************************************************************************)
(* The connection state machine of the EasyEDA extension's loader          *)
(* (easyeda-bridge-extension/src/index.ts): the scan of the bridge ports,  *)
(* its two socket APIs, the session and its heartbeat, the reconnect       *)
(* timer, the commands of the menu and their settings, and the choice      *)
(* between the local bridge and the remote relay.                          *)
(*                                                                         *)
(* A scan whose run number is no longer connectRunId changes nothing any   *)
(* more, so the model has only the scan of the current run.  Two APIs make *)
(* sockets: SYS_WebSocket.register, which reports no close and no error,   *)
(* and a raw WebSocket, which does.                                        *)
(***************************************************************************)
EXTENDS Naturals

CONSTANTS
  PORT_SCAN_COUNT,   \* the ports are 1..PORT_SCAN_COUNT
  Apis               \* the socket APIs that the editor offers

ASSUME LoaderAssumption ==
  /\ PORT_SCAN_COUNT \in Nat \ {0}
  /\ Apis \subseteq {"register", "raw"} /\ Apis # {}

Ports == 1..PORT_SCAN_COUNT

VARIABLES
  connectionState, manualDisconnectRequested, reconnectTimer,
  attempt,          \* number of the port attempt under way, 0: no scan
  preferredPort,
  socket,           \* the attempt's or the session's: "register", "raw" or "none"
  opened,           \* its open callback has been called
  held,             \* it is socketHandle
  autoConnectEnabled,
  stored,           \* the stored setting
  saves,            \* settings whose saving setAutoConnectInternal awaits
  activationStarted, selectedConnectionMode,
  relay,            \* the remote relay client is enabled
  \* the environment
  listening,        \* the port that the server listens on, or 0
  link,             \* the session's server is there
  \* history
  off,              \* the user has disconnected, chosen the relay or left it, and since
                    \* then neither connected nor enabled Auto-Connect
  overtaken,        \* off, but Auto-Connect was enabled before and takes effect after it,
                    \* or the editor has activated the running extension again
  refused           \* a server closed an open socket of this scan before hello

scan == <<attempt, socket, opened, held>>
setting == <<autoConnectEnabled, stored, saves>>
mode == <<activationStarted, selectedConnectionMode, relay>>
vars == <<connectionState, manualDisconnectRequested, reconnectTimer, preferredPort,
          scan, setting, mode, listening, link, off, overtaken, refused>>

TypeOK ==
  /\ connectionState \in {"disconnected", "connecting", "connected"}
  /\ {manualDisconnectRequested, reconnectTimer, opened, held, autoConnectEnabled, stored,
      activationStarted, relay, link, off, overtaken, refused} \subseteq BOOLEAN
  /\ attempt \in 0..PORT_SCAN_COUNT /\ preferredPort \in Ports
  /\ listening \in 0..PORT_SCAN_COUNT /\ saves \subseteq BOOLEAN
  /\ socket \in {"none", "register", "raw"}
  /\ selectedConnectionMode \in {"local", "remote"}
  /\ connectionState = "connecting" => attempt # 0
  /\ connectionState = "connected" => attempt = 0
  /\ held => socket # "none" /\ opened

Init ==
  /\ connectionState = "disconnected" /\ manualDisconnectRequested = FALSE
  /\ reconnectTimer = FALSE /\ preferredPort = 1
  /\ attempt = 0 /\ socket = "none" /\ opened = FALSE /\ held = FALSE
  /\ autoConnectEnabled = TRUE /\ stored \in BOOLEAN /\ saves = {}
  /\ activationStarted = FALSE /\ selectedConnectionMode = "local" /\ relay = FALSE
  /\ listening \in 0..PORT_SCAN_COUNT /\ link = FALSE
  /\ off = FALSE /\ overtaken = FALSE /\ refused = FALSE

\* the preferred port first, then the others in ascending order
Port(n) == IF n = 1 THEN preferredPort
           ELSE IF n - 1 < preferredPort THEN n - 1 ELSE n

\* The next attempt's socket.  An API that throws is skipped.
NewSocket_KeepsHandle(n) == attempt' = n /\ socket' \in Apis /\ opened' = FALSE /\ held' = held
NewSocket(n) == attempt' = n /\ socket' \in Apis /\ opened' = FALSE /\ held' = FALSE
NoSocket == attempt' = 0 /\ socket' = "none" /\ opened' = FALSE /\ held' = FALSE

ScheduleReconnect == reconnectTimer' = (reconnectTimer \/ ~manualDisconnectRequested)

-----------------------------------------------------------------------------
(* Starting and stopping                                                   *)

\* connectInternal when it starts a scan, cancelling the one under way
BeginScan ==
  /\ connectionState' = "connecting" /\ manualDisconnectRequested' = FALSE
  /\ reconnectTimer' = FALSE
  /\ NewSocket(1)
  /\ refused' = FALSE

MayScan(manual) ==
  /\ selectedConnectionMode' = "local" /\ connectionState # "connected"
  /\ manual \/ connectionState # "connecting"

ConnectInternal(manual) ==
  IF MayScan(manual) THEN BeginScan
  ELSE UNCHANGED <<connectionState, manualDisconnectRequested, reconnectTimer, scan, refused>>

\* disconnectInternal: the run number it bumps makes a running scan void.
DisconnectInternal_KeepsScan ==
  /\ manualDisconnectRequested' = TRUE /\ reconnectTimer' = FALSE
  /\ connectionState' = "disconnected"
  /\ UNCHANGED scan
  /\ link' = FALSE
DisconnectInternal ==
  /\ manualDisconnectRequested' = TRUE /\ reconnectTimer' = FALSE
  /\ connectionState' = "disconnected"
  /\ NoSocket
  /\ link' = FALSE

-----------------------------------------------------------------------------
(* Commands                                                                *)

\* The user's last word on the local bridge
TurnOn == off' = FALSE /\ overtaken' = FALSE
TurnOff == off' = TRUE /\ overtaken' = (TRUE \in saves \/ ~manualDisconnectRequested')
user == <<off, overtaken>>

\* handleActivate, on the start of the editor and again
Activate ==
  /\ autoConnectEnabled' = stored /\ activationStarted' = TRUE
  /\ UNCHANGED <<selectedConnectionMode, relay>>
  /\ IF stored /\ (activationStarted => connectionState = "disconnected" /\ attempt = 0)
     THEN /\ ConnectInternal(FALSE)
          /\ IF MayScan(FALSE)
             THEN IF activationStarted THEN overtaken' = off /\ UNCHANGED off ELSE TurnOn
             ELSE UNCHANGED user
     ELSE UNCHANGED <<connectionState, manualDisconnectRequested, reconnectTimer, scan,
                      user, refused>>
  /\ UNCHANGED <<preferredPort, stored, saves, listening, link>>

Deactivate ==
  /\ activationStarted
  /\ DisconnectInternal
  /\ activationStarted' = FALSE /\ selectedConnectionMode' = "local" /\ relay' = FALSE
  /\ TurnOff
  /\ UNCHANGED <<preferredPort, setting, listening, refused>>

ConnectLocal ==
  /\ selectedConnectionMode' = "local"
  /\ relay' = (relay /\ selectedConnectionMode = "local")
  /\ ConnectInternal(TRUE)
  /\ TurnOn
  /\ UNCHANGED <<activationStarted, preferredPort, setting, listening, link>>

DisconnectRemoteRelay ==
  /\ selectedConnectionMode' = "local" /\ relay' = FALSE
  /\ UNCHANGED <<connectionState, manualDisconnectRequested, reconnectTimer, preferredPort,
                 scan, setting, activationStarted, listening, link, refused>>
  /\ IF selectedConnectionMode = "remote" THEN TurnOff ELSE UNCHANGED user

Disconnect ==
  IF selectedConnectionMode = "remote" THEN DisconnectRemoteRelay
  ELSE /\ DisconnectInternal
       /\ TurnOff
       /\ UNCHANGED <<mode, preferredPort, setting, listening, refused>>

ConnectRemoteRelay ==
  /\ DisconnectInternal
  /\ selectedConnectionMode' = "remote" /\ relay' = TRUE /\ TurnOff
  /\ UNCHANGED <<activationStarted, preferredPort, setting, listening, refused>>

\* showStatusInternal reads the setting again, and may arm the timer.
ShowStatus ==
  /\ selectedConnectionMode = "local"
  /\ autoConnectEnabled' = stored
  /\ IF connectionState = "disconnected" /\ stored /\ ~manualDisconnectRequested
     THEN ScheduleReconnect
     ELSE UNCHANGED reconnectTimer
  /\ UNCHANGED <<connectionState, manualDisconnectRequested, preferredPort, scan, stored,
                 saves, mode, listening, link, user, refused>>

\* setAutoConnectInternal, before and after it awaits the saving
SetAutoConnect(enabled) ==
  /\ enabled \notin saves
  /\ autoConnectEnabled' = enabled /\ saves' = saves \cup {enabled}
  /\ IF enabled THEN TurnOn ELSE UNCHANGED user
  /\ UNCHANGED <<connectionState, manualDisconnectRequested, reconnectTimer, preferredPort,
                 scan, stored, mode, listening, link, refused>>

AutoConnectSaved(enabled) ==
  /\ enabled \in saves /\ saves' = saves \ {enabled}
  /\ stored' \in {stored, enabled}      \* saving may fail
  /\ UNCHANGED mode
  /\ IF enabled
     THEN IF connectionState = "disconnected" /\ MayScan(FALSE) THEN BeginScan
          ELSE /\ manualDisconnectRequested' = FALSE
               /\ UNCHANGED <<connectionState, reconnectTimer, scan, refused>>
     ELSE /\ manualDisconnectRequested' = TRUE /\ reconnectTimer' = FALSE
          /\ UNCHANGED <<connectionState, scan, refused>>
  /\ UNCHANGED <<autoConnectEnabled, preferredPort, listening, link, user>>

-----------------------------------------------------------------------------
(* The scan                                                                *)

\* The attempt has failed: the next port, or the end of the scan in state cs.
Fail_NoRetry(cs) ==
  IF attempt < PORT_SCAN_COUNT /\ ~manualDisconnectRequested
  THEN /\ NewSocket(attempt + 1)
       /\ connectionState' = cs /\ UNCHANGED reconnectTimer
  ELSE NoSocket /\ connectionState' = "disconnected" /\ UNCHANGED reconnectTimer
Fail(cs) ==
  IF attempt < PORT_SCAN_COUNT /\ ~manualDisconnectRequested
  THEN /\ NewSocket(attempt + 1)
       /\ connectionState' = cs /\ UNCHANGED reconnectTimer
  ELSE /\ NoSocket
       /\ connectionState' = "disconnected"
       /\ IF cs = "connecting" THEN ScheduleReconnect ELSE UNCHANGED reconnectTimer

steady == <<manualDisconnectRequested, preferredPort, setting, mode, listening, link, user>>

Open ==
  /\ attempt # 0 /\ socket # "none" /\ ~opened
  /\ opened' = TRUE /\ held' = TRUE
  /\ UNCHANGED <<attempt, socket, connectionState, reconnectTimer, steady, refused>>

\* The handshake cannot be sent: recoverConnection closes the socket, and the
\* attempt is left to its time-out.
HandshakeNotSent ==
  /\ attempt # 0 /\ socket # "none" /\ ~opened
  /\ opened' = TRUE /\ socket' = "none"
  /\ UNCHANGED <<attempt, held, connectionState, reconnectTimer, steady, refused>>

\* register() did not call back in time; a raw socket is tried instead.
RegisterFallback ==
  /\ attempt # 0 /\ socket = "register" /\ ~opened
  /\ IF "raw" \in Apis
     THEN socket' = "raw" /\ UNCHANGED <<attempt, opened, held, connectionState, reconnectTimer>>
     ELSE Fail(connectionState)
  /\ UNCHANGED <<steady, refused>>

\* The bridge's hello comes on an open socket.
Hello ==
  /\ attempt # 0 /\ held /\ Port(attempt) = listening
  /\ connectionState' = "connected" /\ manualDisconnectRequested' = FALSE
  /\ preferredPort' = listening
  /\ attempt' = 0 /\ link' = TRUE /\ refused' = FALSE
  /\ UNCHANGED <<socket, opened, held, reconnectTimer, setting, mode, listening, user>>

Timeout ==
  /\ attempt # 0
  /\ Fail(connectionState)
  /\ UNCHANGED <<steady, refused>>

Errored ==
  /\ attempt # 0 /\ socket = "raw"
  /\ Fail(connectionState)
  /\ UNCHANGED <<steady, refused>>

\* The socket closes before the hello.
ClosedEarly ==
  /\ attempt # 0 /\ socket = "raw"
  /\ Fail(IF held THEN "disconnected" ELSE connectionState)
  /\ refused' = (refused \/ held)
  /\ UNCHANGED steady

-----------------------------------------------------------------------------
(* The session                                                             *)

\* The server stops, starts or moves to another port; its sessions end.
ServerMoves(port) ==
  /\ port # listening
  /\ listening' = port /\ link' = FALSE
  /\ UNCHANGED <<connectionState, manualDisconnectRequested, reconnectTimer, preferredPort,
                 scan, setting, mode, user, refused>>

\* the close event of the session's socket
SessionClosed ==
  /\ connectionState = "connected" /\ held /\ socket = "raw" /\ ~link
  /\ connectionState' = "disconnected"
  /\ NoSocket
  /\ ScheduleReconnect
  /\ UNCHANGED <<manualDisconnectRequested, preferredPort, setting, mode, listening, link,
                 user, refused>>

\* the error event of the session's socket: nobody holds the socket then
SessionErrored ==
  /\ connectionState = "connected" /\ held /\ socket = "raw"
  /\ NoSocket
  /\ link' = FALSE
  /\ UNCHANGED <<connectionState, manualDisconnectRequested, reconnectTimer, preferredPort,
                 setting, mode, listening, user, refused>>

\* recoverConnection: the server was silent too long, or a send threw.
Recover ==
  /\ connectionState = "connected"
  /\ connectionState' = "disconnected"
  /\ NoSocket
  /\ link' = FALSE
  /\ IF autoConnectEnabled THEN ScheduleReconnect ELSE UNCHANGED reconnectTimer
  /\ UNCHANGED <<manualDisconnectRequested, preferredPort, setting, mode, listening, user,
                 refused>>

SendThrows == link /\ held /\ Recover
HeartbeatTimesOut == ~link /\ Recover

TimerFires ==
  /\ reconnectTimer
  /\ UNCHANGED <<mode, preferredPort, setting, listening, link, user>>
  /\ IF connectionState = "disconnected" /\ MayScan(FALSE) THEN BeginScan
     ELSE /\ reconnectTimer' = FALSE
          /\ UNCHANGED <<connectionState, manualDisconnectRequested, scan, refused>>

-----------------------------------------------------------------------------
User == \/ Activate \/ Deactivate \/ ConnectLocal \/ Disconnect
        \/ ConnectRemoteRelay \/ DisconnectRemoteRelay \/ ShowStatus
        \/ \E enabled \in BOOLEAN : SetAutoConnect(enabled)

Scan == Open \/ HandshakeNotSent \/ RegisterFallback \/ Hello \/ Timeout \/ Errored \/ ClosedEarly

Session == \/ SessionClosed \/ SessionErrored \/ SendThrows \/ HeartbeatTimesOut
           \/ TimerFires
           \/ \E port \in 0..PORT_SCAN_COUNT : ServerMoves(port)

Next == \/ User \/ Scan \/ Session
        \/ \E enabled \in BOOLEAN : AutoConnectSaved(enabled)

Spec == Init /\ [][Next]_vars

\* Timers run out and saves end; a server that listens is reached and answers
\* in time if it is tried again and again.
Fairness ==
  /\ \A enabled \in BOOLEAN : WF_vars(AutoConnectSaved(enabled))
  /\ WF_vars(Timeout) /\ WF_vars(TimerFires) /\ WF_vars(HeartbeatTimesOut)
  /\ SF_vars(Open /\ Port(attempt) = listening) /\ SF_vars(Hello)

FairSpec == Spec /\ Fairness

-----------------------------------------------------------------------------
(* What the loader guarantees                                              *)

\* no session, no scan that might still succeed and no timer that would start one
Silent == connectionState = "disconnected" /\ attempt = 0 /\ ~reconnectTimer

\* The local bridge is silent while the remote relay is chosen, and after the user
\* has disconnected, or left the relay, until the user connects or enables
\* Auto-Connect or the extension is started anew - whatever scan, session, timer or
\* disabling of Auto-Connect was under way (disconnectInternal,
\* connectRemoteRelayInternal).  Only what overtaken says breaks it: an enabling of
\* Auto-Connect that came before the disconnect and takes effect after it, when its
\* saving has ended (index.ts:1522-1530), and a repeated activation (index.ts:1560).
OffIsOff ==
  /\ relay => selectedConnectionMode = "remote"
  /\ selectedConnectionMode = "remote" => Silent
  /\ off /\ ~overtaken => Silent

\* What the toasts say, "Click Connect to resume" (index.ts:1425) and "Use Connect
\* for the local bridge" (:769): a disconnect is the last word until the user asks
\* again.
DisconnectIsFinal == off => Silent

\* The extension should connect by itself.
Wanted == /\ activationStarted /\ ~off /\ autoConnectEnabled /\ ~manualDisconnectRequested
          /\ selectedConnectionMode = "local"

\* An extension that should connect by itself is connected, scans, or waits for
\* its timer or for a setting to be saved.  It is not so when a server closes the
\* socket it has accepted before the hello: see refused.
NeverIdle ==
  Wanted /\ connectionState = "disconnected" /\ attempt = 0 => reconnectTimer \/ saves # {}

\* With Auto-Connect on, a loader that is not told to stop finds a server that
\* stays on its port, whatever it was doing when the server came, went or fell
\* silent (connectInternal, recoverConnection, scheduleReconnect) - unless the
\* user restarts the scan for ever, or a server accepts a socket and closes it
\* before its hello.
Reconnects ==
  /\ <>[][~ConnectLocal]_vars
  /\ \E port \in Ports : <>[](Wanted /\ ~refused /\ listening = port)
  => []<>(connectionState = "connected" /\ link)

=============================================================================
