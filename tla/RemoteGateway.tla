---------------------------- MODULE RemoteGateway ----------------------------
(***************************************************************************)
(* The remote gateway (src/src/remote) with the relay client of one        *)
(* EasyEDA extension (remote-client.ts) and the network between them:      *)
(* registration, pairing, approvals, the grants of tool invocations, the   *)
(* queue of each session, time-outs with quarantine, and reconnection.     *)
(*                                                                         *)
(* The client registers once on each socket, so a session and its socket   *)
(* have one number.  Identities and scopes are abstracted: every caller is *)
(* the user whom the sessions are paired with.                             *)
(***************************************************************************)
EXTENDS Integers, Sequences, FiniteSets

CONSTANTS
  Calls,         \* requests of MCP clients for one tool each
  Writes,        \* those whose risk is not "read"
  Input,         \* of each call: the hash of its tool and input
  MaxSessions, MaxApprovals  \* bounds of the numbers handed out

ASSUME GatewayAssumption ==
  /\ IsFiniteSet(Calls) /\ Writes \subseteq Calls
  /\ DOMAIN Input = Calls /\ MaxSessions \in Nat /\ MaxApprovals \in Nat

Sessions == 1..MaxSessions
Approvals == 1..MaxApprovals

VARIABLES
  \* the client in the extension
  desired,    \* desiredConnection is set
  code,       \* its pairing code: "fresh", or "used"
  sock,       \* this.socket: a number, or 0
  retry,      \* the reconnect timer is armed
  executing,  \* calls under way in the editor
  \* the network
  net,        \* of each socket: "none", "opening", "up" or "down"
  wire,       \* tool requests on the way to the extension
  answers,    \* tool responses on the way to the gateway
  \* the gateway
  attached,   \* sockets whose close event has not come
  open,       \* of these, those in state OPEN
  live,       \* sessions that are connected and have a connection
  paired, expired,   \* sessions
  approval,   \* the records of approvals and grants
  queue,      \* of each session: the calls in its dispatch queue
  pending,    \* calls in a socket's table of requests
  phase,      \* of each call: "new", "waiting", "running", "done"
  route,      \* of each call: its session, or 0
  auth,       \* of each call: the approval it was let through by, or 0
  \* history
  yes,        \* approvals the user gave in time
  direct      \* calls that were let through by an approval, not by a grant

client == <<desired, code, sock, retry>>
gate == <<attached, open, live, paired, expired>>
calls == <<queue, pending, phase, route, auth, direct>>
vars == <<client, executing, net, wire, answers, gate, approval, calls, yes>>

States == {"none", "pending", "approved", "refused", "granted", "gone"}
NoApproval == [session |-> 0, input |-> "none", state |-> "none", lapsed |-> FALSE]
Stored(a) == approval[a].state \notin {"none", "granted", "gone"}

TypeOK ==
  /\ desired \in BOOLEAN /\ code \in {"fresh", "used"} /\ sock \in 0..MaxSessions
  /\ retry \in BOOLEAN
  /\ net \in [Sessions -> {"none", "opening", "up", "down"}]
  /\ executing \cup wire \cup answers \subseteq Calls
  /\ open \subseteq attached /\ live \subseteq attached
  /\ attached \cup paired \cup expired \subseteq Sessions
  /\ approval \in [Approvals -> [session : 0..MaxSessions, lapsed : BOOLEAN, state : States,
                                 input : {"none"} \cup {Input[c] : c \in Calls}]]
  /\ phase \in [Calls -> {"new", "waiting", "running", "done"}]
  /\ route \in [Calls -> 0..MaxSessions] /\ auth \in [Calls -> 0..MaxApprovals]
  /\ yes \subseteq Approvals /\ direct \subseteq Calls /\ pending \subseteq Calls
  /\ queue \in [Sessions -> Seq(Calls)]
  /\ \A c \in Calls : phase[c] = "running" => route[c] # 0 /\ Head(queue[route[c]]) = c

Init ==
  /\ desired = FALSE /\ code = "used" /\ sock = 0 /\ retry = FALSE
  /\ executing = {} /\ net = [s \in Sessions |-> "none"] /\ wire = {} /\ answers = {}
  /\ attached = {} /\ open = {} /\ live = {} /\ paired = {} /\ expired = {}
  /\ approval = [a \in Approvals |-> NoApproval]
  /\ queue = [s \in Sessions |-> <<>>] /\ pending = {}
  /\ phase = [c \in Calls |-> "new"] /\ route = [c \in Calls |-> 0]
  /\ auth = [c \in Calls |-> 0]
  /\ yes = {} /\ direct = {}

-----------------------------------------------------------------------------
(***************************************************************************)
(* The client.                                                             *)
(***************************************************************************)

Down(s) == IF s = 0 THEN net ELSE [net EXCEPT ![s] = "down"]

OpenSocket(s) == net[s] = "none" /\ (\A k \in 1..(s - 1) : net[k] # "none") /\ sock' = s

Connect ==
  \E s \in Sessions :
    /\ OpenSocket(s) /\ desired' = TRUE /\ code' = "fresh" /\ retry' = FALSE
    /\ net' = [Down(sock) EXCEPT ![s] = "opening"]
    /\ UNCHANGED <<executing, wire, answers, gate, approval, calls, yes>>

Disconnect ==
  /\ desired /\ desired' = FALSE /\ retry' = FALSE /\ sock' = 0 /\ net' = Down(sock)
  /\ UNCHANGED <<code, executing, wire, answers, gate, approval, calls, yes>>

RetryFires ==
  /\ retry /\ retry' = FALSE
  /\ \E s \in Sessions : OpenSocket(s) /\ net' = [net EXCEPT ![s] = "opening"]
  /\ UNCHANGED <<desired, code, executing, wire, answers, gate, approval, calls, yes>>

ScheduleReconnect == sock' = 0 /\ retry' = desired

HandleClose ==
  /\ sock # 0 /\ net[sock] = "down" /\ ScheduleReconnect
  /\ UNCHANGED <<desired, code, executing, net, wire, answers, gate, approval, calls, yes>>

\* The last heartbeat is older than HEARTBEAT_LIVENESS_MS, as it is 45 seconds
\* after any handleOpen: each side sends a heartbeat only in answer to one of the
\* other's, so that none is ever under way.  The close event follows.
CheckHeartbeatLiveness ==
  /\ sock # 0 /\ net[sock] = "up" /\ net' = Down(sock) /\ ScheduleReconnect
  /\ UNCHANGED <<desired, code, executing, wire, answers, gate, approval, calls, yes>>

HandleToolRequest(c) ==
  /\ c \in wire /\ wire' = wire \ {c}
  /\ executing' = IF sock = route[c] THEN executing \cup {c} ELSE executing
  /\ UNCHANGED <<client, net, answers, gate, approval, calls, yes>>

\* the editor is done; the response is sent only if the socket is still in use
ExecutionEnds(c) ==
  /\ c \in executing /\ executing' = executing \ {c}
  /\ answers' = IF sock = route[c] /\ net[sock] = "up" THEN answers \cup {c} ELSE answers
  /\ UNCHANGED <<client, net, wire, gate, approval, calls, yes>>

Drop(s) ==
  /\ net[s] \in {"opening", "up"} /\ net' = Down(s)
  /\ UNCHANGED <<client, executing, wire, answers, gate, approval, calls, yes>>

-----------------------------------------------------------------------------
(***************************************************************************)
(* Sessions.                                                               *)
(***************************************************************************)

\* handleOpen of the client and register_session of the gateway
Register(s) ==
  /\ sock = s /\ net[s] = "opening" /\ net' = [net EXCEPT ![s] = "up"]
  /\ attached' = attached \cup {s} /\ open' = open \cup {s} /\ live' = live \cup {s}
  /\ paired' = IF code = "fresh" THEN paired \cup {s} ELSE paired
  /\ code' = "used"
  /\ UNCHANGED <<desired, sock, retry, executing, wire, answers, expired, approval, calls, yes>>

\* the user completes a pairing over HTTP, with a new code
CompletePairing(s) ==
  /\ s \in live \ (expired \cup paired) /\ paired' = paired \cup {s}
  /\ UNCHANGED <<client, executing, net, wire, answers, attached, open, live, expired,
                 approval, calls, yes>>

Expire(s) ==
  /\ s \in live \ expired /\ expired' = expired \cup {s}
  /\ UNCHANGED <<client, executing, net, wire, answers, attached, open, live, paired,
                 approval, calls, yes>>

\* deleteForSession of both stores
DeleteForSession(s) ==
  [a \in Approvals |-> IF approval[a].session = s
                       THEN [approval[a] EXCEPT !.state = "gone"] ELSE approval[a]]

DisconnectSession(s) == live' = live \ {s} /\ approval' = DeleteForSession(s)

\* Calls of C leave the queue of their session, each as the first of it.
Leave(s, C) == IF C = {} THEN queue ELSE [queue EXCEPT ![s] = Tail(@)]

Done(C) == phase' = [c \in Calls |-> IF c \in C THEN "done" ELSE phase[c]]

\* the close event of the gateway's socket: disconnectCurrentSession
SocketClosed(s) ==
  LET rejected == {c \in pending : route[c] = s}
      failed == {c \in rejected : phase[c] = "running"}
  IN  /\ s \in attached /\ net[s] = "down"
      /\ attached' = attached \ {s} /\ open' = open \ {s} /\ DisconnectSession(s)
      /\ pending' = pending \ rejected /\ queue' = Leave(s, failed) /\ Done(failed)
      /\ UNCHANGED <<client, executing, net, wire, answers, paired, expired, route, auth,
                     direct, yes>>

-----------------------------------------------------------------------------
(***************************************************************************)
(* Approvals and grants.                                                   *)
(***************************************************************************)

\* resolveConnection: the session a call is routed to
Routes(s) == s \in (live \cap paired) \ expired

\* the approval findPending returns, if any
Pending(s, i) ==
  {a \in Approvals : /\ approval[a].state = "pending" /\ ~ approval[a].lapsed
                     /\ approval[a].session = s /\ approval[a].input = i}

\* the next number, by which the approvals are in the order of the Map
NextApproval(a) == approval[a].state = "none" /\ \A b \in 1..(a - 1) : approval[b].state # "none"

\* A call without approval is answered with the number to come back with, and a
\* new approval is asked for if none is pending.  The search forgets what lapsed.
RequestApproval(c, s) ==
  /\ c \in Writes /\ phase[c] = "new" /\ Routes(s) /\ Pending(s, Input[c]) = {}
  /\ \E a \in Approvals :
       /\ NextApproval(a)
       /\ approval' = [b \in Approvals |->
            IF b = a
            THEN [session |-> s, input |-> Input[c], lapsed |-> FALSE,
                  state |-> IF s \in open THEN "pending" ELSE "gone"]
            ELSE IF Stored(b) /\ approval[b].lapsed
                 THEN [approval[b] EXCEPT !.state = "gone"] ELSE approval[b]]
  /\ UNCHANGED <<client, executing, net, wire, answers, gate, calls, yes>>

\* The user's decision reaches the gateway over the socket it was asked on; a
\* rejection and a prompt that timed out differ in the message only.
ResolveApproval(a, decision) ==
  /\ approval[a].state = "pending" /\ sock = approval[a].session /\ net[sock] = "up"
  /\ approval' = [approval EXCEPT ![a].state =
                     IF approval[a].lapsed THEN "refused" ELSE decision]
  /\ yes' = IF decision = "approved" /\ ~ approval[a].lapsed THEN yes \cup {a} ELSE yes
  /\ UNCHANGED <<client, executing, net, wire, answers, gate, calls>>

ApprovalLapses(a) ==
  /\ approval[a].state \notin {"none", "gone"} /\ ~ approval[a].lapsed
  /\ approval' = [approval EXCEPT ![a].lapsed = TRUE]
  /\ UNCHANGED <<client, executing, net, wire, answers, gate, calls, yes>>

Approved(a, s, i) ==
  /\ approval[a].state = "approved" /\ ~ approval[a].lapsed
  /\ approval[a].session = s /\ approval[a].input = i

\* slip: what was consumed stays in the store
Consume_Keeps(a, state) ==
  approval' = [approval EXCEPT ![a].state = IF state = "gone" THEN @ ELSE state]

\* consumeApproved, and the grant that is issued in its place, if any
Consume(a, state) == approval' = [approval EXCEPT ![a].state = state, ![a].lapsed = FALSE]

\* an MCP tool call comes back with its approval and is granted its bridge calls
AuthorizeToolInvocation(a, s, i) ==
  /\ Routes(s) /\ Approved(a, s, i) /\ Consume(a, "granted")
  /\ UNCHANGED <<client, executing, net, wire, answers, gate, calls, yes>>

\* the tool's handler has ended
RevokeInvocationGrant(a) ==
  /\ approval[a].state = "granted"
  /\ approval' = [approval EXCEPT ![a].state = "gone"]
  /\ UNCHANGED <<client, executing, net, wire, answers, gate, calls, yes>>

-----------------------------------------------------------------------------
(***************************************************************************)
(* Requests.                                                               *)
(***************************************************************************)

Enqueue(c, s, a) ==
  /\ phase[c] = "new" /\ Routes(s)
  /\ queue' = [queue EXCEPT ![s] = Append(@, c)]
  /\ phase' = [phase EXCEPT ![c] = "waiting"]
  /\ route' = [route EXCEPT ![c] = s] /\ auth' = [auth EXCEPT ![c] = a]
  /\ UNCHANGED <<client, executing, net, wire, answers, gate, pending, yes>>

RouteRead(c, s) == c \notin Writes /\ Enqueue(c, s, 0) /\ UNCHANGED <<approval, direct>>

RouteApproved(c, s, a) ==
  /\ c \in Writes /\ Approved(a, s, Input[c]) /\ Enqueue(c, s, a) /\ Consume(a, "gone")
  /\ direct' = direct \cup {c}

\* slip: a grant is good for every session of its user
Grants_AnySession(a, s) == approval[a].state = "granted" /\ ~ approval[a].lapsed

\* validate() of the grants, which asks for the session and the risk only: the
\* input is that of the tool, not of the handler's bridge calls
Grants(a, s) ==
  approval[a].state = "granted" /\ ~ approval[a].lapsed /\ approval[a].session = s

RouteGranted(c, s, a) ==
  /\ c \in Writes /\ Grants(a, s) /\ Enqueue(c, s, a) /\ UNCHANGED <<approval, direct>>

\* slip: the queue does not wait for the call before
Turn_Any(s, c) == \E i \in 1..Len(queue[s]) : queue[s][i] = c

Turn(s, c) == queue[s] # <<>> /\ Head(queue[s]) = c

\* slip: a call that fails on its turn does not release the queue
Unavailable_KeepsTurn(s, c) == /\ Done({c}) /\ UNCHANGED <<queue, wire, pending>>

Unavailable(s, c) == /\ Done({c}) /\ queue' = Leave(s, {c}) /\ UNCHANGED <<wire, pending>>

\* dispatchQueue.run: the call's turn has come
Dispatch(s, c) ==
  /\ Turn(s, c) /\ phase[c] = "waiting"
  /\ IF s \in live /\ s \in open
     THEN /\ phase' = [phase EXCEPT ![c] = "running"] /\ wire' = wire \cup {c}
          /\ pending' = pending \cup {c} /\ UNCHANGED queue
     ELSE Unavailable(s, c)
  /\ UNCHANGED <<client, executing, net, answers, gate, approval, route, auth, direct, yes>>

\* tool_response
HandleResponse(c) ==
  /\ c \in answers /\ answers' = answers \ {c}
  /\ IF c \in pending /\ phase[c] = "running"
     THEN queue' = Leave(route[c], {c}) /\ Done({c})
     ELSE UNCHANGED <<queue, phase>>
  /\ pending' = pending \ {c}
  /\ UNCHANGED <<client, executing, net, wire, gate, approval, route, auth, direct, yes>>

\* slip: the session is not quarantined
TimeOut_KeepsSession(c) ==
  /\ phase[c] = "running" /\ Done({c}) /\ queue' = Leave(route[c], {c})
  /\ UNCHANGED <<client, executing, net, wire, answers, gate, approval, pending, route, auth,
                 direct, yes>>

\* dispatchWithDeadline gives up: quarantineSession
TimeOut(c) ==
  LET s == route[c]
  IN  /\ phase[c] = "running" /\ Done({c}) /\ queue' = Leave(s, {c})
      /\ DisconnectSession(s) /\ open' = open \ {s} /\ net' = Down(s)
      /\ UNCHANGED <<client, executing, wire, answers, attached, paired, expired, pending,
                     route, auth, direct, yes>>

Next ==
  \/ Connect \/ Disconnect \/ RetryFires \/ HandleClose \/ CheckHeartbeatLiveness
  \/ \E s \in Sessions :
       Drop(s) \/ Register(s) \/ CompletePairing(s) \/ Expire(s) \/ SocketClosed(s)
  \/ \E a \in Approvals :
       \/ ApprovalLapses(a) \/ RevokeInvocationGrant(a)
       \/ \E d \in {"approved", "refused"} : ResolveApproval(a, d)
       \/ \E s \in Sessions, i \in {Input[c] : c \in Calls} : AuthorizeToolInvocation(a, s, i)
  \/ \E c \in Calls :
       \/ HandleToolRequest(c) \/ ExecutionEnds(c) \/ HandleResponse(c) \/ TimeOut(c)
       \/ \E s \in Sessions :
            \/ RequestApproval(c, s) \/ RouteRead(c, s) \/ Dispatch(s, c)
            \/ \E a \in Approvals : RouteApproved(c, s, a) \/ RouteGranted(c, s, a)

Spec == Init /\ [][Next]_vars

\* The turn of a waiting call comes as a microtask; the deadline of a running one
\* is a timer.
FairSpec ==
  /\ Spec
  /\ \A c \in Calls : WF_vars(TimeOut(c)) /\ \A s \in Sessions : WF_vars(Dispatch(s, c))

-----------------------------------------------------------------------------
(***************************************************************************)
(* Properties.                                                             *)
(***************************************************************************)

\* No two calls of one session are in the extension at a time, also when one was
\* given up after its deadline and the editor is still at it
\* (REMOTE_RELEASE_READINESS.md, "Concurrent calls to one extension session never
\* overlap in the extension dispatcher").
NoOverlapInSession ==
  \A c, d \in wire \cup executing : route[c] = route[d] => c = d

\* Whatever write was let through stands on an approval that the user gave in
\* time, for that session, and for that input unless the write is one of the
\* bridge calls of a granted tool invocation.
WritesWereApproved ==
  \A c \in Writes : phase[c] # "new" =>
    /\ auth[c] \in yes /\ approval[auth[c]].session = route[c]
    /\ c \in direct => approval[auth[c]].input = Input[c]

\* An approval lets one call or one tool invocation through and is worth nothing
\* afterwards, in whatever order it is presented again.
ApprovalsAreSpentOnce ==
  \A c \in direct : /\ approval[auth[c]].state = "gone"
                    /\ \A d \in Writes : auth[d] = auth[c] => d = c

\* Nothing of a session that was disconnected or quarantined is left in the
\* stores: neither an approval nor a grant comes to life again after the client
\* has reconnected.
EndedSessionsHoldNothing ==
  \A a \in Approvals : approval[a].state \notin {"none", "gone"} => approval[a].session \in live

\* Every call that was let through ends: with its session's queue, its deadline,
\* or the end of its session.
EveryCallEnds == \A c \in Calls : phase[c] = "waiting" ~> phase[c] = "done"

\* Heartbeats keep a connection alive as long as the network does
\* (EXTENSION_RELAY_PROTOCOL.md:62, "Keep connection alive and measure liveness").
HealthyLinkIsKept ==
  [][sock # 0 /\ net[sock] = "up" /\ sock' = 0 => ~ desired']_vars

=============================================================================
