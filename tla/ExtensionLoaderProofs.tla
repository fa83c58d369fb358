------------------------- MODULE ExtensionLoaderProofs -------------------------
(***************************************************************************)
(* Proofs about ExtensionLoader, for every number of ports and every       *)
(* choice of socket APIs that an editor may offer.                         *)
(***************************************************************************)
EXTENDS ExtensionLoader, TLAPS

-----------------------------------------------------------------------------
(***************************************************************************)
(* Type correctness.  TypeOK is inductive: it ties the state to the scan.  *)
(***************************************************************************)

\* Trying the next port, or none, leaves the scan well typed.
LEMMA ScanUpdates ==
  ASSUME TypeOK
  PROVE  /\ NewSocket(1) => /\ attempt' = 1 /\ attempt' \in 0..PORT_SCAN_COUNT
                            /\ socket' \in {"none", "register", "raw"}
                            /\ opened' = FALSE /\ held' = FALSE
         /\ attempt # 0 /\ attempt < PORT_SCAN_COUNT /\ NewSocket(attempt + 1)
              => /\ attempt' # 0 /\ attempt' \in 0..PORT_SCAN_COUNT
                 /\ socket' \in {"none", "register", "raw"}
                 /\ opened' = FALSE /\ held' = FALSE
         /\ NoSocket => /\ attempt' = 0 /\ attempt' \in 0..PORT_SCAN_COUNT
                        /\ socket' = "none" /\ opened' = FALSE /\ held' = FALSE
<1>1. PORT_SCAN_COUNT \in Nat /\ PORT_SCAN_COUNT > 0 /\ attempt \in 0..PORT_SCAN_COUNT
  BY LoaderAssumption DEF TypeOK
<1>2. 1 \in 0..PORT_SCAN_COUNT /\ 0 \in 0..PORT_SCAN_COUNT
  BY <1>1
<1>3. attempt < PORT_SCAN_COUNT => attempt + 1 \in 0..PORT_SCAN_COUNT /\ attempt + 1 # 0
  BY <1>1
<1>4. Apis \subseteq {"none", "register", "raw"}
  BY LoaderAssumption
<1>5. ASSUME NEW n, NewSocket(n)
      PROVE  attempt' = n /\ socket' \in Apis /\ opened' = FALSE /\ held' = FALSE
  BY <1>5 DEF NewSocket
<1>6. NewSocket(1) => /\ attempt' = 1 /\ attempt' \in 0..PORT_SCAN_COUNT
                      /\ socket' \in {"none", "register", "raw"}
                      /\ opened' = FALSE /\ held' = FALSE
  BY <1>2, <1>4, <1>5
<1>7. attempt < PORT_SCAN_COUNT /\ NewSocket(attempt + 1)
        => /\ attempt' # 0 /\ attempt' \in 0..PORT_SCAN_COUNT
           /\ socket' \in {"none", "register", "raw"}
           /\ opened' = FALSE /\ held' = FALSE
  BY <1>3, <1>4, <1>5
<1>8. NoSocket => /\ attempt' = 0 /\ attempt' \in 0..PORT_SCAN_COUNT
                  /\ socket' = "none" /\ opened' = FALSE /\ held' = FALSE
  BY <1>2 DEF NoSocket
<1> QED  BY <1>6, <1>7, <1>8

LEMMA BeginScanTypeOK ==
  ASSUME TypeOK, BeginScan,
         UNCHANGED <<preferredPort, listening, link>>,
         {autoConnectEnabled', stored', activationStarted', relay', off', overtaken'} \subseteq BOOLEAN,
         saves' \subseteq BOOLEAN, selectedConnectionMode' \in {"local", "remote"}
  PROVE  TypeOK'
<1>1. /\ connectionState' = "connecting" /\ manualDisconnectRequested' = FALSE
      /\ reconnectTimer' = FALSE /\ refused' = FALSE /\ NewSocket(1)
  BY DEF BeginScan
<1>2. /\ attempt' = 1 /\ attempt' \in 0..PORT_SCAN_COUNT
      /\ socket' \in {"none", "register", "raw"} /\ opened' = FALSE /\ held' = FALSE
  BY <1>1, ScanUpdates
<1>3. {manualDisconnectRequested', reconnectTimer', opened', held', refused', link'}
        \subseteq BOOLEAN
  BY <1>1, <1>2 DEF TypeOK
<1>4. preferredPort' \in Ports /\ listening' \in 0..PORT_SCAN_COUNT
  BY DEF TypeOK, Ports
<1> QED  BY <1>1, <1>2, <1>3, <1>4 DEF TypeOK

\* What a failed attempt does, whatever state it leaves.
LEMMA FailTypeOK ==
  ASSUME TypeOK, attempt # 0, NEW cs \in {"disconnected", "connecting"}, Fail(cs),
         UNCHANGED steady, refused' \in BOOLEAN
  PROVE  TypeOK'
<1>1. CASE attempt < PORT_SCAN_COUNT /\ ~ manualDisconnectRequested
  BY <1>1, ScanUpdates DEF TypeOK, Fail, steady, setting, mode, user
<1>2. CASE ~ (attempt < PORT_SCAN_COUNT /\ ~ manualDisconnectRequested)
  <2>1. reconnectTimer' \in BOOLEAN
    BY <1>2 DEF TypeOK, Fail, ScheduleReconnect
  <2> QED  BY <1>2, <2>1, ScanUpdates DEF TypeOK, Fail, steady, setting, mode, user
<1> QED  BY <1>1, <1>2

LEMMA InitTypeOK == ASSUME Init PROVE TypeOK
<1>1. 1 \in Ports /\ 0 \in 0..PORT_SCAN_COUNT
  BY LoaderAssumption DEF Ports
<1>2. {manualDisconnectRequested, reconnectTimer, opened, held, autoConnectEnabled, stored,
       activationStarted, relay, link, off, overtaken, refused} \subseteq BOOLEAN
  BY DEF Init
<1>3. connectionState = "disconnected" /\ attempt = 0 /\ socket = "none" /\ held = FALSE
      /\ saves = {} /\ preferredPort = 1 /\ listening \in 0..PORT_SCAN_COUNT
      /\ selectedConnectionMode = "local"
  BY DEF Init
<1> QED  BY <1>1, <1>2, <1>3 DEF TypeOK

\* A command that leaves the connection alone, or stops it.
LEMMA StopTypeOK ==
  ASSUME TypeOK, DisconnectInternal, UNCHANGED <<preferredPort, setting, listening, refused>>,
         {activationStarted', relay', off', overtaken'} \subseteq BOOLEAN,
         selectedConnectionMode' \in {"local", "remote"}
  PROVE  TypeOK'
<1>1. /\ manualDisconnectRequested' = TRUE /\ reconnectTimer' = FALSE
      /\ connectionState' = "disconnected" /\ link' = FALSE
  BY DEF DisconnectInternal
<1>2. /\ attempt' = 0 /\ attempt' \in 0..PORT_SCAN_COUNT /\ socket' = "none"
      /\ opened' = FALSE /\ held' = FALSE
  BY ScanUpdates DEF DisconnectInternal
<1>3. /\ autoConnectEnabled' \in BOOLEAN /\ stored' \in BOOLEAN /\ saves' \subseteq BOOLEAN
      /\ refused' \in BOOLEAN
  BY DEF TypeOK, setting
<1>4. preferredPort' \in Ports /\ listening' \in 0..PORT_SCAN_COUNT
  BY DEF TypeOK, Ports
<1> QED  BY <1>1, <1>2, <1>3, <1>4 DEF TypeOK

LEMMA ConnectTypeOK ==
  ASSUME TypeOK, NEW manual \in BOOLEAN, ConnectInternal(manual),
         UNCHANGED <<preferredPort, listening, link>>,
         {autoConnectEnabled', stored', activationStarted', relay', off', overtaken'} \subseteq BOOLEAN,
         saves' \subseteq BOOLEAN, selectedConnectionMode' \in {"local", "remote"}
  PROVE  TypeOK'
<1>1. CASE MayScan(manual)
  BY <1>1, BeginScanTypeOK DEF ConnectInternal
<1>2. CASE ~ MayScan(manual)
  BY <1>2 DEF ConnectInternal, TypeOK, scan, Ports
<1> QED  BY <1>1, <1>2

LEMMA UserTypeOK ==
  ASSUME TypeOK, TurnOn \/ TurnOff \/ UNCHANGED user
  PROVE  off' \in BOOLEAN /\ overtaken' \in BOOLEAN
BY DEF TypeOK, TurnOn, TurnOff, user

LEMMA NextTypeOK == ASSUME TypeOK, [Next]_vars PROVE TypeOK'
<1> USE DEF TypeOK
<1>1. CASE Activate
  <2>1. CASE stored /\ (activationStarted => connectionState = "disconnected" /\ attempt = 0)
    <3>1. ConnectInternal(FALSE) /\ off' \in BOOLEAN /\ overtaken' \in BOOLEAN
      BY <1>1, <2>1, UserTypeOK DEF Activate
    <3> QED  BY <1>1, <3>1, ConnectTypeOK DEF Activate
  <2>2. CASE ~ (stored /\ (activationStarted => connectionState = "disconnected" /\ attempt = 0))
    BY <1>1, <2>2, UserTypeOK DEF Activate, scan, Ports
  <2> QED  BY <2>1, <2>2
<1>2. CASE Deactivate
  BY <1>2, StopTypeOK, UserTypeOK DEF Deactivate
<1>3. CASE ConnectLocal
  <2>1. relay' \in BOOLEAN
    BY <1>3 DEF ConnectLocal
  <2> QED  BY <1>3, <2>1, ConnectTypeOK, UserTypeOK DEF ConnectLocal, setting
<1>4. CASE DisconnectRemoteRelay
  <2>1. off' \in BOOLEAN /\ overtaken' \in BOOLEAN
    BY <1>4, UserTypeOK DEF DisconnectRemoteRelay
  <2> QED  BY <1>4, <2>1 DEF DisconnectRemoteRelay, scan, setting, Ports
<1>5. CASE Disconnect
  BY <1>4, <1>5, StopTypeOK, UserTypeOK DEF Disconnect, mode
<1>6. CASE ConnectRemoteRelay
  BY <1>6, StopTypeOK, UserTypeOK DEF ConnectRemoteRelay
<1>7. CASE ShowStatus
  <2>1. reconnectTimer' \in BOOLEAN
    BY <1>7 DEF ShowStatus, ScheduleReconnect
  <2> QED  BY <1>7, <2>1 DEF ShowStatus, scan, mode, user, Ports
<1>8. ASSUME NEW enabled \in BOOLEAN, SetAutoConnect(enabled) PROVE TypeOK'
  BY <1>8, UserTypeOK DEF SetAutoConnect, scan, mode, Ports
<1>9. ASSUME NEW enabled \in BOOLEAN, AutoConnectSaved(enabled) PROVE TypeOK'
  <2>1. /\ stored' \in BOOLEAN /\ saves' \subseteq BOOLEAN /\ UNCHANGED mode
        /\ UNCHANGED <<autoConnectEnabled, preferredPort, listening, link, off, overtaken>>
    BY <1>9 DEF AutoConnectSaved, user
  <2>2. CASE enabled /\ connectionState = "disconnected" /\ MayScan(FALSE)
    <3>1. BeginScan
      BY <1>9, <2>2 DEF AutoConnectSaved
    <3> QED  BY <2>1, <3>1, BeginScanTypeOK DEF mode
  <2>3. CASE enabled /\ ~ (connectionState = "disconnected" /\ MayScan(FALSE))
    <3>1. /\ manualDisconnectRequested' = FALSE
          /\ UNCHANGED <<connectionState, reconnectTimer, scan, refused>>
      BY <1>9, <2>3 DEF AutoConnectSaved
    <3> QED  BY <2>1, <3>1 DEF mode, scan, Ports
  <2>4. CASE ~ enabled
    <3>1. /\ manualDisconnectRequested' = TRUE /\ reconnectTimer' = FALSE
          /\ UNCHANGED <<connectionState, scan, refused>>
      BY <1>9, <2>4 DEF AutoConnectSaved
    <3> QED  BY <2>1, <3>1 DEF mode, scan, Ports
  <2> QED  BY <2>2, <2>3, <2>4
<1>10. CASE Open
  BY <1>10 DEF Open, steady, setting, mode, user, Ports
<1>11. CASE HandshakeNotSent
  BY <1>11 DEF HandshakeNotSent, steady, setting, mode, user, Ports
<1>12. CASE RegisterFallback
  <2>1. CASE "raw" \in Apis
    BY <1>12, <2>1 DEF RegisterFallback, steady, setting, mode, user, Ports
  <2>2. CASE "raw" \notin Apis
    <3>1. connectionState \in {"disconnected", "connecting"}
      BY <1>12 DEF RegisterFallback
    <3> QED  BY <1>12, <2>2, <3>1, FailTypeOK DEF RegisterFallback
  <2> QED  BY <2>1, <2>2
<1>13. CASE Hello
  <2>1. Port(attempt) \in Ports
    <3>1. PORT_SCAN_COUNT \in Nat /\ attempt \in 1..PORT_SCAN_COUNT
      BY <1>13, LoaderAssumption DEF Hello
    <3>2. preferredPort \in 1..PORT_SCAN_COUNT
      BY DEF Ports
    <3>3. CASE attempt = 1
      BY <3>2, <3>3 DEF Port, Ports
    <3>4. CASE attempt # 1
      BY <3>1, <3>2, <3>4 DEF Port, Ports
    <3> QED  BY <3>3, <3>4
  <2>2. listening \in Ports
    BY <1>13, <2>1 DEF Hello
  <2>3. attempt' = 0 /\ attempt' \in 0..PORT_SCAN_COUNT
    BY <1>13, LoaderAssumption DEF Hello
  <2>4. connectionState' = "connected" /\ preferredPort' \in Ports /\ held' = TRUE
        /\ socket' # "none" /\ opened' = TRUE
    BY <1>13, <2>2 DEF Hello
  <2> QED  BY <1>13, <2>3, <2>4 DEF Hello, setting, mode, user
<1>14. CASE Timeout \/ Errored
  <2>1. /\ attempt # 0 /\ connectionState \in {"disconnected", "connecting"}
        /\ Fail(connectionState) /\ UNCHANGED <<steady, refused>>
    BY <1>14 DEF Timeout, Errored
  <2> QED  BY <2>1, FailTypeOK
<1>15. CASE ClosedEarly
  <2> DEFINE cs == IF held THEN "disconnected" ELSE connectionState
  <2>1. /\ attempt # 0 /\ cs \in {"disconnected", "connecting"}
        /\ Fail(cs) /\ UNCHANGED steady
    BY <1>15 DEF ClosedEarly
  <2>2. refused' \in BOOLEAN
    BY <1>15 DEF ClosedEarly
  <2> HIDE DEF cs
  <2> QED  BY <2>1, <2>2, FailTypeOK
<1>16. ASSUME NEW port \in 0..PORT_SCAN_COUNT, ServerMoves(port) PROVE TypeOK'
  BY <1>16 DEF ServerMoves, scan, setting, mode, user, Ports
<1>17. CASE SessionClosed
  <2>1. reconnectTimer' \in BOOLEAN
    BY <1>17 DEF SessionClosed, ScheduleReconnect
  <2> QED  BY <1>17, <2>1, ScanUpdates DEF SessionClosed, setting, mode, user, Ports
<1>18. CASE SessionErrored
  BY <1>18, ScanUpdates DEF SessionErrored, setting, mode, user, Ports
<1>19. CASE SendThrows \/ HeartbeatTimesOut
  <2>1. Recover
    BY <1>19 DEF SendThrows, HeartbeatTimesOut
  <2>2. reconnectTimer' \in BOOLEAN
    BY <2>1 DEF Recover, ScheduleReconnect
  <2> QED  BY <2>1, <2>2, ScanUpdates DEF Recover, setting, mode, user, Ports
<1>20. CASE TimerFires
  <2>1. CASE connectionState = "disconnected" /\ MayScan(FALSE)
    BY <1>20, <2>1, BeginScanTypeOK DEF TimerFires, mode, setting, user
  <2>2. CASE ~ (connectionState = "disconnected" /\ MayScan(FALSE))
    BY <1>20, <2>2 DEF TimerFires, mode, setting, scan, user, Ports
  <2> QED  BY <2>1, <2>2
<1>21. CASE UNCHANGED vars
  BY <1>21 DEF vars, scan, setting, mode, user, Ports
<1> QED
  BY <1>1, <1>2, <1>3, <1>4, <1>5, <1>6, <1>7, <1>8, <1>9, <1>10, <1>11, <1>12, <1>13,
     <1>14, <1>15, <1>16, <1>17, <1>18, <1>19, <1>20, <1>21
     DEF Next, User, Scan, Session

\* The loader's variables keep to their values, a state "connecting" means that
\* a scan runs, a session that none does, and a socket is held only when open.
THEOREM TypeCorrect == Spec => []TypeOK
<1>1. Init => TypeOK
  BY InitTypeOK
<1>2. TypeOK /\ [Next]_vars => TypeOK'
  BY NextTypeOK
<1> QED  BY <1>1, <1>2, PTL DEF Spec

-----------------------------------------------------------------------------
(***************************************************************************)
(* Silence.  Every callback that could start something needs a scan, a     *)
(* session or a timer, of which there is none, or a saving of Auto-Connect *)
(* that ends.  So OffIsOff is inductive with StaysOff: a loader that is    *)
(* off and not overtaken has no enabling to save, and refuses a timer.     *)
(***************************************************************************)

StaysOff == off /\ ~overtaken => manualDisconnectRequested /\ TRUE \notin saves

OffInv == OffIsOff /\ StaysOff

\* Turning the loader off, silently, with the commands that do so
LEMMA TurnedOff ==
  ASSUME TurnOff, Silent', manualDisconnectRequested' \in BOOLEAN, saves' = saves,
         relay' => selectedConnectionMode' = "remote"
  PROVE  OffInv'
BY DEF OffInv, OffIsOff, StaysOff, TurnOff, Silent

LEMMA Disconnected ==
  ASSUME DisconnectInternal
  PROVE  Silent' /\ manualDisconnectRequested' \in BOOLEAN
BY DEF DisconnectInternal, NoSocket, Silent

LEMMA NextOffInv == ASSUME TypeOK, OffInv, [Next]_vars PROVE OffInv'
<1> USE DEF OffInv, OffIsOff, StaysOff, Silent
<1>1. CASE Activate
  <2>1. CASE MayScan(FALSE) /\ off' # off
    BY <1>1, <2>1 DEF Activate, MayScan, TurnOn, user
  <2>2. CASE MayScan(FALSE) /\ off' = off
    BY <1>1, <2>2 DEF Activate, MayScan, TurnOn, user, scan
  <2>3. CASE ~MayScan(FALSE)
    <3>1. /\ UNCHANGED <<connectionState, manualDisconnectRequested, reconnectTimer, attempt>>
          /\ UNCHANGED <<off, overtaken, saves, selectedConnectionMode, relay>>
      BY <1>1, <2>3 DEF Activate, ConnectInternal, user, scan
    <3> QED  BY <3>1
  <2> QED  BY <2>1, <2>2, <2>3
<1>2. CASE Deactivate
  BY <1>2, TurnedOff, Disconnected DEF Deactivate, setting
<1>3. CASE ConnectLocal
  BY <1>3 DEF ConnectLocal, TurnOn
<1>4. CASE DisconnectRemoteRelay
  <2>1. CASE selectedConnectionMode = "remote"
    BY <1>4, <2>1, TurnedOff DEF DisconnectRemoteRelay, scan, setting, TypeOK
  <2>2. CASE selectedConnectionMode # "remote"
    BY <1>4, <2>2 DEF DisconnectRemoteRelay, scan, setting, user
  <2> QED  BY <2>1, <2>2
<1>5. CASE Disconnect
  BY <1>4, <1>5, TurnedOff, Disconnected DEF Disconnect, mode, setting
<1>6. CASE ConnectRemoteRelay
  BY <1>6, TurnedOff, Disconnected DEF ConnectRemoteRelay, setting
<1>7. CASE ShowStatus
  BY <1>7 DEF ShowStatus, ScheduleReconnect, scan, mode, user
<1>8. ASSUME NEW enabled \in BOOLEAN, SetAutoConnect(enabled) PROVE OffInv'
  BY <1>8 DEF SetAutoConnect, TurnOn, scan, mode, user
<1>9. ASSUME NEW enabled \in BOOLEAN, AutoConnectSaved(enabled) PROVE OffInv'
  <2>1. /\ enabled \in saves /\ saves' \subseteq saves
        /\ UNCHANGED <<off, overtaken, selectedConnectionMode, relay>>
    BY <1>9 DEF AutoConnectSaved, mode, user
  <2>2. CASE enabled
    <3>1. ~(off /\ ~overtaken)
      BY <2>1, <2>2
    <3>2. CASE selectedConnectionMode = "remote"
      BY <1>9, <2>1, <2>2, <3>1, <3>2 DEF AutoConnectSaved, MayScan, scan
    <3> QED  BY <2>1, <3>1, <3>2
  <2>3. CASE ~enabled
    BY <1>9, <2>1, <2>3 DEF AutoConnectSaved, scan
  <2> QED  BY <2>2, <2>3
<1>10. CASE Scan
  <2>1. attempt # 0 /\ UNCHANGED <<off, overtaken, selectedConnectionMode, relay>>
    BY <1>10 DEF Scan, Open, HandshakeNotSent, RegisterFallback, Hello, Timeout, Errored,
                 ClosedEarly, steady, mode, user
  <2> QED  BY <2>1
<1>11. ASSUME NEW port \in 0..PORT_SCAN_COUNT, ServerMoves(port) PROVE OffInv'
  BY <1>11 DEF ServerMoves, scan, setting, mode, user
<1>12. CASE SessionClosed \/ SessionErrored \/ SendThrows \/ HeartbeatTimesOut
  <2>1. /\ connectionState = "connected"
        /\ UNCHANGED <<off, overtaken, selectedConnectionMode, relay>>
    BY <1>12 DEF SessionClosed, SessionErrored, SendThrows, HeartbeatTimesOut, Recover, mode,
                 user
  <2> QED  BY <2>1
<1>13. CASE TimerFires
  <2>1. reconnectTimer /\ UNCHANGED <<off, overtaken, selectedConnectionMode, relay>>
    BY <1>13 DEF TimerFires, mode, user
  <2> QED  BY <2>1
<1>14. CASE UNCHANGED vars
  BY <1>14 DEF vars, scan, setting, mode, user
<1> QED
  BY <1>1, <1>2, <1>3, <1>4, <1>5, <1>6, <1>7, <1>8, <1>9, <1>10, <1>11, <1>12, <1>13,
     <1>14 DEF Next, User, Session

\* While the remote relay is chosen, and from a disconnect until the user connects or
\* enables Auto-Connect or the extension is started anew, there is no local session,
\* no scan and no timer that would start one, whatever was under way when the command
\* came - with the two exceptions that overtaken records: an enabling of Auto-Connect
\* that is still to take effect, and a repeated activation.
THEOREM SilentWhenOff == Spec => []OffIsOff
<1>1. Init => OffInv
  BY DEF Init, OffInv, OffIsOff, StaysOff
<1>2. TypeOK /\ OffInv /\ [Next]_vars => OffInv'
  BY NextOffInv
<1>3. OffInv => OffIsOff
  BY DEF OffInv
<1> QED  BY <1>1, <1>2, <1>3, TypeCorrect, PTL DEF Spec

-----------------------------------------------------------------------------
(***************************************************************************)
(* Reconnecting.  NeverIdle is not true as it stands: a server that closes *)
(* a socket before the hello leaves the scan in the state "disconnected",  *)
(* and a scan that ends in that state arms no timer (index.ts:1250).       *)
(* Nothing else does: a scan is in that state only if it was refused.      *)
(***************************************************************************)

OnlyRefusedScansStop == attempt # 0 /\ connectionState = "disconnected" => refused

IdleIfRefused == (~ refused => NeverIdle) /\ OnlyRefusedScansStop

LEMMA Scheduled ==
  ASSUME ScheduleReconnect, ~ manualDisconnectRequested PROVE reconnectTimer'
<1>1. reconnectTimer' = TRUE
  BY Zenon DEF ScheduleReconnect
<1> QED  BY <1>1

LEMMA FailIdle ==
  ASSUME TypeOK, IdleIfRefused, NEW cs \in {"disconnected", "connecting"},
         attempt # 0, Fail(cs), UNCHANGED steady,
         cs = "disconnected" => refused',
         refused => refused'
  PROVE  IdleIfRefused'
<1> USE DEF TypeOK, IdleIfRefused, NeverIdle, Wanted, OnlyRefusedScansStop, steady, mode, setting,
           user
<1>1. UNCHANGED <<manualDisconnectRequested, autoConnectEnabled, saves, activationStarted,
                  selectedConnectionMode, off>>
  OBVIOUS
<1>2. CASE attempt < PORT_SCAN_COUNT /\ ~manualDisconnectRequested
  <2>1. attempt' = attempt + 1 /\ connectionState' = cs
    BY <1>2 DEF Fail, NewSocket
  <2>2. attempt' # 0
    BY <2>1
  <2> QED  BY <2>1, <2>2
<1>3. CASE ~ (attempt < PORT_SCAN_COUNT /\ ~manualDisconnectRequested)
  <2>1. attempt' = 0
    BY <1>3 DEF Fail, NoSocket
  <2>2. CASE cs = "disconnected"
    BY <2>1, <2>2
  <2>3. CASE cs = "connecting"
    <3>1. reconnectTimer' \/ manualDisconnectRequested'
      BY <1>1, <1>3, <2>3, Scheduled DEF Fail
    <3> QED  BY <2>1, <3>1
  <2> QED  BY <2>2, <2>3
<1> QED  BY <1>2, <1>3

LEMMA NextIdleIfRefused ==
  ASSUME TypeOK, IdleIfRefused, [Next]_vars
  PROVE  IdleIfRefused'
<1> USE DEF IdleIfRefused, NeverIdle, Wanted, OnlyRefusedScansStop
\* a scan begins
<1>0. ASSUME BeginScan PROVE IdleIfRefused'
  BY <1>0 DEF BeginScan
\* a command that may begin a scan, and leaves the state and the timer alone if not
<1>c. ASSUME NEW manual, ConnectInternal(manual), ~ MayScan(manual),
             saves' = saves
      PROVE  IdleIfRefused'
  <2>1. UNCHANGED <<connectionState, manualDisconnectRequested, reconnectTimer, attempt, refused>>
    BY <1>c DEF ConnectInternal, scan
  <2>2. selectedConnectionMode' # "local" \/ connectionState \in {"connected", "connecting"}
    BY <1>c DEF MayScan, TypeOK
  <2> QED  BY <1>c, <2>1, <2>2 DEF TypeOK
<1>1. CASE Activate
  <2>1. CASE stored /\ (activationStarted => connectionState = "disconnected" /\ attempt = 0)
    <3>1. ConnectInternal(FALSE) /\ UNCHANGED saves
      BY <1>1, <2>1 DEF Activate, setting
    <3>2. CASE MayScan(FALSE)
      BY <1>0, <3>1, <3>2 DEF ConnectInternal
    <3>3. CASE ~ MayScan(FALSE)
      BY <1>c, <3>1, <3>3
    <3> QED  BY <3>2, <3>3
  <2>2. CASE ~ (stored /\ (activationStarted => connectionState = "disconnected" /\ attempt = 0))
    <3>1. /\ UNCHANGED <<connectionState, manualDisconnectRequested, reconnectTimer, attempt,
                         refused>>
          /\ autoConnectEnabled' = stored
      BY <1>1, <2>2 DEF Activate, scan
    <3> QED  BY <2>2, <3>1
  <2> QED  BY <2>1, <2>2
<1>2. CASE Deactivate
  BY <1>2 DEF Deactivate, DisconnectInternal, NoSocket
<1>3. CASE ConnectLocal
  <2>1. ConnectInternal(TRUE) /\ UNCHANGED saves
    BY <1>3 DEF ConnectLocal, setting
  <2>2. CASE MayScan(TRUE)
    BY <1>0, <2>1, <2>2 DEF ConnectInternal
  <2>3. CASE ~ MayScan(TRUE)
    BY <1>c, <2>1, <2>3
  <2> QED  BY <2>2, <2>3
<1>4. CASE DisconnectRemoteRelay
  BY <1>4 DEF DisconnectRemoteRelay, TurnOff, user, scan, setting, TypeOK
<1>5. CASE Disconnect
  BY <1>4, <1>5 DEF Disconnect, DisconnectInternal, NoSocket
<1>6. CASE ConnectRemoteRelay
  BY <1>6 DEF ConnectRemoteRelay, DisconnectInternal, NoSocket
<1>7. CASE ShowStatus
  <2>1. /\ UNCHANGED <<connectionState, manualDisconnectRequested, attempt, refused>>
        /\ autoConnectEnabled' = stored
    BY <1>7 DEF ShowStatus, scan, user
  <2>2. CASE connectionState = "disconnected" /\ stored /\ ~manualDisconnectRequested
    BY <1>7, <2>1, <2>2, Scheduled DEF ShowStatus
  <2>3. CASE ~ (connectionState = "disconnected" /\ stored /\ ~manualDisconnectRequested)
    BY <2>1, <2>3
  <2> QED  BY <2>2, <2>3
<1>8. ASSUME NEW enabled \in BOOLEAN, SetAutoConnect(enabled) PROVE IdleIfRefused'
  BY <1>8 DEF SetAutoConnect, scan
<1>9. ASSUME NEW enabled \in BOOLEAN, AutoConnectSaved(enabled) PROVE IdleIfRefused'
  <2>1. CASE enabled /\ connectionState = "disconnected" /\ MayScan(FALSE)
    BY <1>0, <1>9, <2>1 DEF AutoConnectSaved
  <2>2. CASE enabled /\ ~ (connectionState = "disconnected" /\ MayScan(FALSE))
    <3>1. /\ UNCHANGED <<connectionState, attempt, refused>>
          /\ selectedConnectionMode' # "local" \/ connectionState # "disconnected"
      BY <1>9, <2>2 DEF AutoConnectSaved, MayScan, scan
    <3> QED  BY <3>1
  <2>3. CASE ~ enabled
    BY <1>9, <2>3 DEF AutoConnectSaved, scan
  <2> QED  BY <2>1, <2>2, <2>3
<1>10. CASE Open \/ HandshakeNotSent
  BY <1>10 DEF Open, HandshakeNotSent, steady, setting, mode, user
<1>11. CASE Hello
  BY <1>11 DEF Hello
<1>12. CASE RegisterFallback
  <2>1. attempt # 0 /\ UNCHANGED <<steady, refused>>
    BY <1>12 DEF RegisterFallback
  <2>2. CASE "raw" \in Apis
    BY <1>12, <2>2 DEF RegisterFallback, steady, setting, mode, user
  <2>3. CASE "raw" \notin Apis
    <3>1. Fail(connectionState)
      BY <1>12, <2>3 DEF RegisterFallback
    <3> QED  BY <2>1, <3>1, FailIdle DEF TypeOK
  <2> QED  BY <2>2, <2>3
<1>13. CASE Timeout \/ Errored
  <2>1. attempt # 0 /\ Fail(connectionState) /\ UNCHANGED <<steady, refused>>
    BY <1>13 DEF Timeout, Errored
  <2> QED  BY <2>1, FailIdle DEF TypeOK
<1>14. CASE ClosedEarly
  <2> DEFINE cs == IF held THEN "disconnected" ELSE connectionState
  <2>1. attempt # 0 /\ Fail(cs) /\ UNCHANGED steady /\ refused' = (refused \/ held)
    BY <1>14 DEF ClosedEarly
  <2>2. cs \in {"disconnected", "connecting"} /\ (cs = "disconnected" => refused')
    BY <2>1 DEF TypeOK
  <2> HIDE DEF cs
  <2> QED  BY <2>1, <2>2, FailIdle
<1>15. ASSUME NEW port \in 0..PORT_SCAN_COUNT, ServerMoves(port) PROVE IdleIfRefused'
  BY <1>15 DEF ServerMoves, scan, setting, mode, user
<1>16. CASE SessionClosed
  BY <1>16, Scheduled DEF SessionClosed, NoSocket
<1>17. CASE SessionErrored
  BY <1>17 DEF SessionErrored
<1>18. CASE SendThrows \/ HeartbeatTimesOut
  BY <1>18, Scheduled DEF SendThrows, HeartbeatTimesOut, Recover, NoSocket, setting, mode, user
<1>19. CASE TimerFires
  <2>1. CASE connectionState = "disconnected" /\ MayScan(FALSE)
    BY <1>0, <1>19, <2>1 DEF TimerFires
  <2>2. CASE ~ (connectionState = "disconnected" /\ MayScan(FALSE))
    <3>1. /\ UNCHANGED <<connectionState, attempt, refused>>
          /\ selectedConnectionMode' # "local" \/ connectionState # "disconnected"
      BY <1>19, <2>2 DEF TimerFires, MayScan, scan
    <3> QED  BY <3>1
  <2> QED  BY <2>1, <2>2
<1>20. CASE UNCHANGED vars
  BY <1>20 DEF vars, scan, setting, mode, user
<1> QED
  BY <1>1, <1>2, <1>3, <1>4, <1>5, <1>6, <1>7, <1>8, <1>9, <1>10, <1>11, <1>12, <1>13,
     <1>14, <1>15, <1>16, <1>17, <1>18, <1>19, <1>20 DEF Next, User, Scan, Session

\* An extension that should connect by itself is connected, scans, or waits for its
\* timer or for a setting to be saved, whatever commands, failures and late
\* callbacks came before - unless a server closed a socket of its last scan before
\* the hello, which is the only way to be left without a next try
\* (scheduleReconnect and its callers, index.ts:1250).
THEOREM OnlyRefusalStopsRetrying == Spec => [](~ refused => NeverIdle)
<1>1. Init => IdleIfRefused
  BY DEF Init, IdleIfRefused, NeverIdle, Wanted, OnlyRefusedScansStop
<1>2. TypeOK /\ IdleIfRefused /\ [Next]_vars => IdleIfRefused'
  BY NextIdleIfRefused
<1>3. IdleIfRefused => (~ refused => NeverIdle)
  BY DEF IdleIfRefused
<1> QED  BY <1>1, <1>2, <1>3, TypeCorrect, PTL DEF Spec

=============================================================================
