-------------------------- MODULE RemoteGatewayProofs --------------------------
(***************************************************************************)
(* Proofs about RemoteGateway, for any number of calls, sessions and       *)
(* approvals.                                                              *)
(***************************************************************************)
EXTENDS RemoteGateway, SequenceTheorems, TLAPS

Phases == {"new", "waiting", "running", "done"}

-----------------------------------------------------------------------------
(***************************************************************************)
(* The queues.  A session's queue holds, once each, the calls routed to it *)
(* that have not ended; all wait but the first, which may run, and a call  *)
(* that runs is the first of its queue.                                    *)
(***************************************************************************)

QueueOK ==
  /\ queue \in [Sessions -> Seq(Calls)]
  /\ phase \in [Calls -> Phases] /\ route \in [Calls -> 0..MaxSessions]
  /\ \A s \in Sessions : \A i \in 1..Len(queue[s]) :
       /\ route[queue[s][i]] = s
       /\ phase[queue[s][i]] = "waiting" \/ (i = 1 /\ phase[queue[s][i]] = "running")
  /\ \A s \in Sessions : \A i, j \in 1..Len(queue[s]) : queue[s][i] = queue[s][j] => i = j
  /\ \A c \in Calls : phase[c] = "running" => route[c] \in Sessions /\ Turn(route[c], c)

LEMMA TailFacts ==
  ASSUME NEW S, NEW q \in Seq(S), q # << >>
  PROVE  /\ Tail(q) \in Seq(S) /\ Head(q) = q[1] /\ Head(q) \in S
         /\ \A i \in 1..Len(Tail(q)) : i + 1 \in 2..Len(q) /\ Tail(q)[i] = q[i + 1]
  BY HeadTailProperties

\* The first call of a queue ends and leaves it.
LEMMA TurnEnds ==
  ASSUME QueueOK, NEW s \in Sessions, NEW c \in Calls, Turn(s, c),
         queue' = [queue EXCEPT ![s] = Tail(@)],
         phase' = [d \in Calls |-> IF d = c THEN "done" ELSE phase[d]], route' = route
  PROVE  QueueOK'
<1> DEFINE q == queue[s]
           r == Tail(q)
<1>1. q \in Seq(Calls) /\ q # << >> /\ q[1] = c
  BY TailFacts DEF QueueOK, Turn
<1>2. r \in Seq(Calls) /\ \A i \in 1..Len(r) : i + 1 \in 2..Len(q) /\ r[i] = q[i + 1]
  BY <1>1, TailFacts
<1>3. queue' \in [Sessions -> Seq(Calls)] /\ queue'[s] = r
      /\ \A t \in Sessions : t # s => queue'[t] = queue[t]
  BY <1>2 DEF QueueOK
<1>4. phase' \in [Calls -> Phases] /\ phase'[c] = "done"
      /\ \A d \in Calls : d # c => phase'[d] = phase[d]
  BY DEF QueueOK, Phases
<1>5. Len(q) \in Nat /\ \A i \in 2..Len(q) : i \in 1..Len(q) /\ i # 1
  BY <1>1
<1>6. 1 \in 1..Len(q) /\ route[c] = s
  BY <1>1 DEF QueueOK
<1>7. ASSUME NEW t \in Sessions, NEW i \in 1..Len(queue'[t])
      PROVE  /\ route'[queue'[t][i]] = t
             /\ \/ phase'[queue'[t][i]] = "waiting"
                \/ (i = 1 /\ phase'[queue'[t][i]] = "running")
  <2>1. CASE t = s
    <3> DEFINE e == q[i + 1]
    <3>1. i \in 1..Len(r) /\ queue'[t][i] = e /\ i + 1 \in 1..Len(q) /\ i + 1 # 1
      BY <1>2, <1>3, <1>5, <1>7, <2>1
    <3>2. e \in Calls /\ e # c /\ route[e] = s /\ phase[e] = "waiting"
      BY <1>1, <1>6, <3>1 DEF QueueOK
    <3> QED  BY <1>4, <2>1, <3>1, <3>2
  <2>2. CASE t # s
    <3> DEFINE e == queue[t][i]
    <3>1. queue'[t][i] = e /\ i \in 1..Len(queue[t])
      BY <1>3, <1>7, <2>2
    <3>2. queue[t] \in Seq(Calls)
      BY DEF QueueOK
    <3>3. e \in Calls
      BY <3>1, <3>2
    <3>4. route[e] = t /\ (phase[e] = "waiting" \/ (i = 1 /\ phase[e] = "running"))
      BY <3>1 DEF QueueOK
    <3>5. e # c
      BY <1>6, <2>2, <3>4
    <3> QED  BY <1>4, <3>1, <3>3, <3>4, <3>5
  <2> QED  BY <2>1, <2>2
<1>8. ASSUME NEW t \in Sessions, NEW i \in 1..Len(queue'[t]), NEW j \in 1..Len(queue'[t]),
             queue'[t][i] = queue'[t][j]
      PROVE  i = j
  <2>1. CASE t = s
    <3>1. i + 1 \in 1..Len(q) /\ j + 1 \in 1..Len(q) /\ q[i + 1] = q[j + 1]
      BY <1>2, <1>3, <1>5, <1>8, <2>1
    <3>2. i + 1 = j + 1
      BY <3>1 DEF QueueOK
    <3> QED  BY <3>2
  <2>2. CASE t # s
    BY <1>3, <1>8, <2>2 DEF QueueOK
  <2> QED  BY <2>1, <2>2
<1>9. ASSUME NEW d \in Calls, phase'[d] = "running"
      PROVE  route'[d] \in Sessions /\ Turn(route[d], d)'
  <2>1. d # c /\ phase[d] = "running"
    BY <1>4, <1>9
  <2>2. route[d] \in Sessions /\ Turn(route[d], d)
    BY <2>1 DEF QueueOK
  <2>3. route[d] # s
    BY <2>1, <2>2 DEF Turn
  <2> QED  BY <1>3, <2>2, <2>3 DEF Turn
<1>10. \A d \in Calls : phase'[d] = "running" => (route[d] \in Sessions /\ Turn(route[d], d))'
  BY <1>9
<1>11. route' \in [Calls -> 0..MaxSessions]
  BY DEF QueueOK
<1> HIDE DEF q, r
<1> QED  BY <1>3, <1>4, <1>7, <1>8, <1>10, <1>11 DEF QueueOK

LEMMA UnchangedQueueOK ==
  ASSUME QueueOK, UNCHANGED <<queue, phase, route>> PROVE QueueOK'
  BY DEF QueueOK, Turn

LEMMA EnqueueQueueOK ==
  ASSUME QueueOK, NEW c \in Calls, NEW s \in Sessions, NEW a, Enqueue(c, s, a)
  PROVE  QueueOK'
<1> DEFINE q == queue[s]
           r == Append(q, c)
<1>1. q \in Seq(Calls) /\ Len(q) \in Nat /\ phase[c] = "new"
  BY DEF QueueOK, Enqueue
<1>2. r \in Seq(Calls) /\ Len(r) = Len(q) + 1 /\ r[Len(q) + 1] = c
      /\ \A i \in 1..Len(q) : r[i] = q[i]
  BY <1>1
<1>3. queue' \in [Sessions -> Seq(Calls)] /\ queue'[s] = r
      /\ \A t \in Sessions : t # s => queue'[t] = queue[t]
  BY <1>2 DEF QueueOK, Enqueue
<1>4. phase' \in [Calls -> Phases] /\ phase'[c] = "waiting"
      /\ \A d \in Calls : d # c => phase'[d] = phase[d]
  BY DEF QueueOK, Enqueue, Phases
<1>5. route' \in [Calls -> 0..MaxSessions] /\ route'[c] = s
      /\ \A d \in Calls : d # c => route'[d] = route[d]
  <2>1. s \in 0..MaxSessions
    BY GatewayAssumption DEF Sessions
  <2> QED  BY <2>1 DEF QueueOK, Enqueue
<1>6. ASSUME NEW t \in Sessions, NEW i \in 1..Len(queue[t])
      PROVE  queue[t][i] \in Calls /\ queue[t][i] # c
  <2>1. queue[t] \in Seq(Calls)
    BY DEF QueueOK
  <2>2. phase[queue[t][i]] \in {"waiting", "running"}
    BY DEF QueueOK
  <2> QED  BY <1>1, <2>1, <2>2
<1>7. ASSUME NEW t \in Sessions, NEW i \in 1..Len(queue'[t])
      PROVE  \/ t = s /\ i = Len(q) + 1 /\ queue'[t][i] = c
             \/ i \in 1..Len(queue[t]) /\ queue'[t][i] = queue[t][i]
  BY <1>1, <1>2, <1>3, <1>7
<1>8. ASSUME NEW t \in Sessions, NEW i \in 1..Len(queue'[t])
      PROVE  /\ route'[queue'[t][i]] = t
             /\ \/ phase'[queue'[t][i]] = "waiting"
                \/ (i = 1 /\ phase'[queue'[t][i]] = "running")
  <2>1. CASE t = s /\ queue'[t][i] = c
    BY <1>4, <1>5, <2>1
  <2>2. CASE i \in 1..Len(queue[t]) /\ queue'[t][i] = queue[t][i]
    <3>1. queue[t][i] \in Calls /\ queue[t][i] # c
      BY <1>6, <2>2
    <3>2. /\ route[queue[t][i]] = t
          /\ phase[queue[t][i]] = "waiting" \/ (i = 1 /\ phase[queue[t][i]] = "running")
      BY <2>2 DEF QueueOK
    <3> QED  BY <1>4, <1>5, <2>2, <3>1, <3>2
  <2> QED  BY <1>7, <2>1, <2>2
<1>9. ASSUME NEW t \in Sessions, NEW i \in 1..Len(queue'[t]), NEW j \in 1..Len(queue'[t]),
             queue'[t][i] = queue'[t][j]
      PROVE  i = j
  <2>1. CASE i \in 1..Len(queue[t]) /\ j \in 1..Len(queue[t])
    <3>1. queue[t][i] = queue[t][j]
      BY <1>7, <1>9, <1>6, <2>1
    <3> QED  BY <2>1, <3>1 DEF QueueOK
  <2>2. CASE ~ (i \in 1..Len(queue[t]) /\ j \in 1..Len(queue[t]))
    BY <1>6, <1>7, <1>9, <2>2
  <2> QED  BY <2>1, <2>2
<1>10. ASSUME NEW d \in Calls, phase'[d] = "running"
       PROVE  (route[d] \in Sessions /\ Turn(route[d], d))'
  <2>1. d # c /\ phase[d] = "running"
    BY <1>4, <1>10
  <2>2. route[d] \in Sessions /\ Turn(route[d], d)
    BY <2>1 DEF QueueOK
  <2>3. CASE route[d] = s
    <3>1. q # << >> /\ Head(q) = d
      BY <2>2, <2>3 DEF Turn
    <3>2. r # << >> /\ Head(r) = d
      BY <1>1, <3>1
    <3> QED  BY <1>3, <1>5, <2>1, <2>3, <3>2 DEF Turn
  <2>4. CASE route[d] # s
    BY <1>3, <1>5, <2>1, <2>2, <2>4 DEF Turn
  <2> QED  BY <2>3, <2>4
<1>11. \A d \in Calls : phase'[d] = "running" => (route[d] \in Sessions /\ Turn(route[d], d))'
  BY <1>10
<1> HIDE DEF q, r
<1> QED  BY <1>3, <1>4, <1>5, <1>8, <1>9, <1>11 DEF QueueOK

LEMMA DispatchQueueOK ==
  ASSUME QueueOK, NEW s \in Sessions, NEW c \in Calls, Dispatch(s, c) PROVE QueueOK'
<1>1. Turn(s, c) /\ phase[c] = "waiting" /\ route' = route
  BY DEF Dispatch
<1>2. CASE s \in live /\ s \in open
  <2>1. queue' = queue /\ phase' = [phase EXCEPT ![c] = "running"]
    BY <1>2 DEF Dispatch
  <2>2. phase' \in [Calls -> Phases] /\ phase'[c] = "running"
        /\ \A d \in Calls : d # c => phase'[d] = phase[d]
    BY <2>1 DEF QueueOK, Phases
  <2>3. queue[s] \in Seq(Calls) /\ queue[s][1] = c /\ 1 \in 1..Len(queue[s])
    <3>1. queue[s] \in Seq(Calls) /\ queue[s] # << >>
      BY <1>1 DEF QueueOK, Turn
    <3> QED  BY <1>1, <3>1, TailFacts DEF Turn
  <2>4. route[c] = s
    BY <2>3 DEF QueueOK
  <2>5. ASSUME NEW t \in Sessions, NEW i \in 1..Len(queue[t])
        PROVE  /\ route[queue[t][i]] = t
               /\ phase'[queue[t][i]] = "waiting" \/ (i = 1 /\ phase'[queue[t][i]] = "running")
    <3>1. /\ queue[t] \in Seq(Calls) /\ queue[t][i] \in Calls /\ route[queue[t][i]] = t
          /\ phase[queue[t][i]] = "waiting" \/ (i = 1 /\ phase[queue[t][i]] = "running")
      <4>1. queue[t] \in Seq(Calls)
        BY DEF QueueOK
      <4> QED  BY <4>1 DEF QueueOK
    <3>2. CASE queue[t][i] = c
      <4>1. t = s
        BY <2>4, <3>1, <3>2
      <4>2. i = 1
        BY <2>3, <3>2, <4>1 DEF QueueOK
      <4> QED  BY <2>2, <3>1, <3>2, <4>2
    <3>3. CASE queue[t][i] # c
      BY <2>2, <3>1, <3>3
    <3> QED  BY <3>2, <3>3
  <2>6. \A d \in Calls : phase'[d] = "running" => route[d] \in Sessions /\ Turn(route[d], d)
    BY <1>1, <2>2, <2>4 DEF QueueOK
  <2> QED  BY <1>1, <2>1, <2>2, <2>5, <2>6 DEF QueueOK, Turn
<1>3. CASE ~ (s \in live /\ s \in open)
  <2>1. queue' = [queue EXCEPT ![s] = Tail(@)]
        /\ phase' = [d \in Calls |-> IF d = c THEN "done" ELSE phase[d]]
    BY <1>3 DEF Dispatch, Unavailable, Done, Leave
  <2> QED  BY <1>1, <2>1, TurnEnds
<1> QED  BY <1>2, <1>3

\* A running call ends, and its turn with it.
LEMMA RunningEnds ==
  ASSUME QueueOK, NEW c \in Calls, phase[c] = "running", queue' = Leave(route[c], {c}),
         Done({c}), route' = route
  PROVE  QueueOK'
<1>1. route[c] \in Sessions /\ Turn(route[c], c)
  BY DEF QueueOK
<1>2. queue' = [queue EXCEPT ![route[c]] = Tail(@)]
      /\ phase' = [d \in Calls |-> IF d = c THEN "done" ELSE phase[d]]
  BY DEF Leave, Done
<1> QED  BY <1>1, <1>2, TurnEnds

\* Two calls of one session never run at once.
LEMMA OneRuns ==
  ASSUME QueueOK, NEW c \in Calls, NEW d \in Calls,
         phase[c] = "running", phase[d] = "running", route[c] = route[d]
  PROVE  c = d
<1>1. Head(queue[route[c]]) = c /\ Head(queue[route[d]]) = d
  BY DEF QueueOK, Turn
<1> QED  BY <1>1

LEMMA SocketClosedQueueOK ==
  ASSUME QueueOK, pending \subseteq Calls, NEW s \in Sessions, SocketClosed(s)
  PROVE  QueueOK'
<1> DEFINE failed == {c \in {d \in pending : route[d] = s} : phase[c] = "running"}
<1>1. queue' = Leave(s, failed) /\ Done(failed) /\ route' = route
  BY DEF SocketClosed
<1>2. CASE failed = {}
  <2>1. queue' = queue /\ phase' = [c \in Calls |-> phase[c]]
    BY <1>1, <1>2 DEF Leave, Done
  <2>2. phase' = phase
    BY <2>1 DEF QueueOK
  <2> QED  BY <1>1, <2>1, <2>2, UnchangedQueueOK
<1>3. CASE failed # {}
  <2>1. PICK c \in failed : TRUE
    BY <1>3
  <2>2. c \in Calls /\ phase[c] = "running" /\ route[c] = s
    BY <2>1
  <2>3. \A d \in failed : d = c
    BY <2>2, OneRuns
  <2>4. failed = {c}
    BY <2>1, <2>3
  <2> HIDE DEF failed
  <2>5. queue' = Leave(route[c], {c}) /\ Done({c})
    BY <1>1, <2>2, <2>4
  <2> QED  BY <1>1, <2>2, <2>5, RunningEnds
<1> QED  BY <1>2, <1>3

-----------------------------------------------------------------------------
(***************************************************************************)
(* The connections.  A session that was ever live has a socket that was    *)
(* up, and a socket registers once; so a call in the extension either runs *)
(* on a live session, or has ended and its session never comes back.       *)
(***************************************************************************)

Used(s) == net[s] \in {"up", "down"}

LinkOK ==
  /\ net \in [Sessions -> {"none", "opening", "up", "down"}] /\ sock \in 0..MaxSessions
  /\ pending \subseteq Calls /\ wire \cup executing \cup answers \subseteq Calls
  /\ \A s \in live : s \in Sessions /\ Used(s)
  /\ \A c \in Calls :
       /\ phase[c] # "new" => route[c] \in Sessions /\ Used(route[c])
       /\ phase[c] = "running" => c \in pending /\ route[c] \in live
       /\ c \in wire \cup executing =>
            phase[c] = "running" \/ (phase[c] = "done" /\ route[c] \notin live)
       /\ c \in answers => phase[c] \in {"running", "done"}
       /\ c \in wire => c \notin executing
       /\ c \in answers => c \notin wire \cup executing

GatewayInv == QueueOK /\ LinkOK /\ NoOverlapInSession

\* A step that changes neither the calls nor what is live nor what is under way.
Quiet ==
  /\ UNCHANGED <<queue, pending, phase, route, live, executing, wire, answers>>
  /\ net' \in [Sessions -> {"none", "opening", "up", "down"}] /\ sock' \in 0..MaxSessions
  /\ \A s \in Sessions : Used(s) => Used(s)'

LEMMA QuietKeepsInv == ASSUME GatewayInv, Quiet PROVE GatewayInv'
<1>1. QueueOK'
  BY UnchangedQueueOK DEF GatewayInv, Quiet
<1>2. LinkOK'
  BY DEF GatewayInv, LinkOK, Quiet
<1>3. NoOverlapInSession'
  BY DEF GatewayInv, NoOverlapInSession, Quiet
<1> QED  BY <1>1, <1>2, <1>3 DEF GatewayInv

LEMMA DownFacts ==
  ASSUME LinkOK, NEW s \in Sessions \cup {0}
  PROVE  /\ Down(s) \in [Sessions -> {"none", "opening", "up", "down"}]
         /\ \A t \in Sessions : Used(t) => Down(s)[t] \in {"up", "down"}
         /\ \A t \in Sessions : t # s => Down(s)[t] = net[t]
  BY DEF LinkOK, Down, Used

LEMMA QuietSteps ==
  ASSUME LinkOK,
         \/ Connect \/ Disconnect \/ RetryFires \/ HandleClose \/ CheckHeartbeatLiveness
         \/ \E s \in Sessions : Drop(s) \/ CompletePairing(s) \/ Expire(s)
         \/ \E a \in Approvals :
              \/ ApprovalLapses(a) \/ RevokeInvocationGrant(a)
              \/ \E d \in {"approved", "refused"} : ResolveApproval(a, d)
              \/ \E s \in Sessions : \E i : AuthorizeToolInvocation(a, s, i)
         \/ \E c \in Calls, s \in Sessions : RequestApproval(c, s)
         \/ UNCHANGED vars
  PROVE  Quiet
<1>1. sock \in Sessions \cup {0} /\ Sessions \cup {0} = 0..MaxSessions /\ 0 \notin Sessions
  BY GatewayAssumption DEF LinkOK, Sessions
<1>2. CASE Connect
  <2>1. PICK s \in Sessions :
          /\ net[s] = "none" /\ sock' = s /\ net' = [Down(sock) EXCEPT ![s] = "opening"]
    BY <1>2 DEF Connect, OpenSocket
  <2>2. net' \in [Sessions -> {"none", "opening", "up", "down"}]
    BY <1>1, <2>1, DownFacts
  <2>3. \A t \in Sessions : Used(t) => net'[t] \in {"up", "down"}
    BY <1>1, <2>1, DownFacts DEF Used
  <2> QED  BY <1>1, <1>2, <2>1, <2>2, <2>3 DEF Connect, Quiet, Used, gate, calls
<1>3. CASE Disconnect
  <2>1. net' = Down(sock) /\ sock' = 0
    BY <1>3 DEF Disconnect
  <2> QED  BY <1>1, <1>3, <2>1, DownFacts DEF Disconnect, Quiet, Used, gate, calls
<1>4. CASE RetryFires
  <2>1. PICK s \in Sessions : net[s] = "none" /\ sock' = s /\ net' = [net EXCEPT ![s] = "opening"]
    BY <1>4 DEF RetryFires, OpenSocket
  <2> QED  BY <1>1, <1>4, <2>1 DEF RetryFires, LinkOK, Quiet, Used, gate, calls
<1>5. CASE HandleClose
  BY <1>1, <1>5 DEF HandleClose, ScheduleReconnect, LinkOK, Quiet, Used, gate, calls
<1>6. CASE CheckHeartbeatLiveness
  <2>1. net' = Down(sock) /\ sock' = 0
    BY <1>6 DEF CheckHeartbeatLiveness, ScheduleReconnect
  <2> QED  BY <1>1, <1>6, <2>1, DownFacts DEF CheckHeartbeatLiveness, Quiet, Used, gate, calls
<1>7. ASSUME NEW s \in Sessions, Drop(s) PROVE Quiet
  <2>1. net' = Down(s) /\ sock' = sock
    BY <1>7 DEF Drop, client
  <2> QED  BY <1>1, <1>7, <2>1, DownFacts DEF Drop, Quiet, Used, gate, calls
<1>8. ASSUME NEW s \in Sessions, CompletePairing(s) \/ Expire(s) PROVE Quiet
  BY <1>8 DEF CompletePairing, Expire, LinkOK, Quiet, Used, client, calls
<1>9. CASE \E a \in Approvals :
              \/ ApprovalLapses(a) \/ RevokeInvocationGrant(a)
              \/ \E d \in {"approved", "refused"} : ResolveApproval(a, d)
              \/ \E s \in Sessions : \E i : AuthorizeToolInvocation(a, s, i)
  <2>1. UNCHANGED <<client, executing, net, wire, answers, gate, calls>>
    BY <1>9 DEF ApprovalLapses, RevokeInvocationGrant, ResolveApproval, AuthorizeToolInvocation
  <2> QED  BY <2>1 DEF LinkOK, Quiet, Used, client, gate, calls
<1>10. CASE \E c \in Calls, s \in Sessions : RequestApproval(c, s)
  <2>1. UNCHANGED <<client, executing, net, wire, answers, gate, calls>>
    BY <1>10 DEF RequestApproval
  <2> QED  BY <2>1 DEF LinkOK, Quiet, Used, client, gate, calls
<1>11. CASE UNCHANGED vars
  BY <1>11 DEF vars, LinkOK, Quiet, Used, client, gate, calls
<1> QED  BY <1>2, <1>3, <1>4, <1>5, <1>6, <1>7, <1>8, <1>9, <1>10, <1>11

\* A session that is registered was never used: what is in the extension belongs
\* to others.
LEMMA RegisterKeepsInv ==
  ASSUME GatewayInv, NEW s \in Sessions, Register(s) PROVE GatewayInv'
<1>1. /\ UNCHANGED <<queue, pending, phase, route, executing, wire, answers, sock>>
      /\ net[s] = "opening" /\ net' = [net EXCEPT ![s] = "up"] /\ live' = live \cup {s}
  BY DEF Register, calls
<1>2. QueueOK'
  BY <1>1, UnchangedQueueOK DEF GatewayInv
<1>3. NoOverlapInSession'
  BY <1>1 DEF GatewayInv, NoOverlapInSession
<1>4. \A t \in Sessions : Used(t) => Used(t)' /\ t # s
  BY <1>1 DEF GatewayInv, LinkOK, Used
<1>5. LinkOK'
  BY <1>1, <1>4 DEF GatewayInv, LinkOK, Used
<1> QED  BY <1>2, <1>3, <1>5 DEF GatewayInv

LEMMA RouteKeepsInv ==
  ASSUME GatewayInv, NEW c \in Calls, NEW s \in Sessions, NEW a, Enqueue(c, s, a)
  PROVE  GatewayInv'
<1>1. QueueOK'
  BY EnqueueQueueOK DEF GatewayInv
<1>2. /\ UNCHANGED <<executing, wire, answers, net, sock, live, pending>>
      /\ phase[c] = "new" /\ s \in live
  BY DEF Enqueue, Routes, client, gate
<1>3. /\ phase'[c] = "waiting" /\ route'[c] = s
      /\ \A d \in Calls : d # c => phase'[d] = phase[d] /\ route'[d] = route[d]
  BY DEF Enqueue, GatewayInv, QueueOK
<1>4. LinkOK'
  BY <1>2, <1>3 DEF GatewayInv, LinkOK, Used
<1>5. NoOverlapInSession'
  <2>1. c \notin wire \cup executing
    BY <1>2 DEF GatewayInv, LinkOK
  <2>2. wire \cup executing \subseteq Calls
    BY DEF GatewayInv, LinkOK
  <2> QED  BY <1>2, <1>3, <2>1, <2>2 DEF GatewayInv, NoOverlapInSession
<1> QED  BY <1>1, <1>4, <1>5 DEF GatewayInv

\* The call whose turn has come is alone: a call of its session that is still in
\* the extension would be the first of the queue or of a session that is gone.
LEMMA DispatchKeepsInv ==
  ASSUME GatewayInv, NEW c \in Calls, NEW s \in Sessions, Dispatch(s, c) PROVE GatewayInv'
<1>1. QueueOK'
  BY DispatchQueueOK DEF GatewayInv
<1>2. /\ Turn(s, c) /\ phase[c] = "waiting"
      /\ UNCHANGED <<executing, answers, net, sock, live, route>>
  BY DEF Dispatch, client, gate
<1>3. route[c] = s
  <2>1. queue[s] \in Seq(Calls) /\ queue[s] # << >>
    BY <1>2 DEF GatewayInv, QueueOK, Turn
  <2>2. queue[s][1] = c /\ 1 \in 1..Len(queue[s])
    BY <1>2, <2>1, TailFacts DEF Turn
  <2> QED  BY <2>2 DEF GatewayInv, QueueOK
<1>4. c \notin wire \cup executing \cup answers
  BY <1>2 DEF GatewayInv, LinkOK
<1>5. CASE s \in live /\ s \in open
  <2>1. /\ phase' = [phase EXCEPT ![c] = "running"] /\ wire' = wire \cup {c}
        /\ pending' = pending \cup {c}
    BY <1>5 DEF Dispatch
  <2>2. phase'[c] = "running" /\ \A d \in Calls : d # c => phase'[d] = phase[d]
    BY <2>1 DEF GatewayInv, QueueOK
  <2>3. LinkOK'
    BY <1>2, <1>3, <1>4, <1>5, <2>1, <2>2 DEF GatewayInv, LinkOK, Used
  <2>4. ASSUME NEW d \in wire \cup executing PROVE route[d] # s
    <3>1. d \in Calls
      BY DEF GatewayInv, LinkOK
    <3>2. CASE phase[d] = "running"
      <4>1. Turn(route[d], d)
        BY <3>1, <3>2 DEF GatewayInv, QueueOK
      <4> QED  BY <1>2, <3>2, <4>1 DEF Turn
    <3>3. CASE route[d] \notin live
      BY <1>5, <3>3
    <3> QED  BY <3>1, <3>2, <3>3 DEF GatewayInv, LinkOK
  <2>5. NoOverlapInSession'
    BY <1>2, <1>3, <2>1, <2>4 DEF GatewayInv, NoOverlapInSession
  <2> QED  BY <1>1, <2>3, <2>5 DEF GatewayInv
<1>6. CASE ~ (s \in live /\ s \in open)
  <2>1. phase' = [d \in Calls |-> IF d \in {c} THEN "done" ELSE phase[d]]
        /\ UNCHANGED <<wire, pending>>
    BY <1>6 DEF Dispatch, Unavailable, Done
  <2>2. LinkOK'
    BY <1>2, <1>3, <1>4, <2>1 DEF GatewayInv, LinkOK, Used
  <2>3. NoOverlapInSession'
    BY <1>2, <2>1 DEF GatewayInv, NoOverlapInSession
  <2> QED  BY <1>1, <2>2, <2>3 DEF GatewayInv
<1> QED  BY <1>5, <1>6

LEMMA ExtensionKeepsInv ==
  ASSUME GatewayInv, NEW c \in Calls, HandleToolRequest(c) \/ ExecutionEnds(c)
  PROVE  GatewayInv'
<1>1. UNCHANGED <<queue, pending, phase, route, live, net, sock>>
  BY DEF HandleToolRequest, ExecutionEnds, client, gate, calls
<1>2. QueueOK'
  BY <1>1, UnchangedQueueOK DEF GatewayInv
<1>3. (wire \cup executing)' \subseteq wire \cup executing
  BY DEF HandleToolRequest, ExecutionEnds
<1>4. NoOverlapInSession'
  BY <1>1, <1>3 DEF GatewayInv, NoOverlapInSession
<1>5. ASSUME HandleToolRequest(c) PROVE LinkOK'
  BY <1>1, <1>5 DEF HandleToolRequest, GatewayInv, LinkOK, Used
<1>6. ASSUME ExecutionEnds(c) PROVE LinkOK'
  BY <1>1, <1>6 DEF ExecutionEnds, GatewayInv, LinkOK, Used
<1> QED  BY <1>2, <1>4, <1>5, <1>6 DEF GatewayInv

LEMMA ResponseKeepsInv ==
  ASSUME GatewayInv, NEW c \in Calls, HandleResponse(c) PROVE GatewayInv'
<1>1. /\ c \in answers /\ answers' = answers \ {c} /\ pending' = pending \ {c}
      /\ UNCHANGED <<executing, net, sock, wire, live, route>>
  BY DEF HandleResponse, client, gate
<1>2. c \notin wire \cup executing
  BY <1>1 DEF GatewayInv, LinkOK
<1>3. CASE c \in pending /\ phase[c] = "running"
  <2>1. queue' = Leave(route[c], {c}) /\ Done({c})
    BY <1>3 DEF HandleResponse
  <2>2. QueueOK'
    BY <1>1, <1>3, <2>1, RunningEnds DEF GatewayInv
  <2>3. phase' = [d \in Calls |-> IF d = c THEN "done" ELSE phase[d]]
    BY <2>1 DEF Done
  <2>4. LinkOK'
    BY <1>1, <1>2, <1>3, <2>3 DEF GatewayInv, LinkOK, Used
  <2>5. NoOverlapInSession'
    BY <1>1 DEF GatewayInv, NoOverlapInSession
  <2> QED  BY <2>2, <2>4, <2>5 DEF GatewayInv
<1>4. CASE ~ (c \in pending /\ phase[c] = "running")
  <2>1. UNCHANGED <<queue, phase>>
    BY <1>4 DEF HandleResponse
  <2>2. QueueOK'
    BY <1>1, <2>1, UnchangedQueueOK DEF GatewayInv
  <2>3. LinkOK'
    BY <1>1, <1>4, <2>1 DEF GatewayInv, LinkOK, Used
  <2>4. NoOverlapInSession'
    BY <1>1, <2>1 DEF GatewayInv, NoOverlapInSession
  <2> QED  BY <2>2, <2>3, <2>4 DEF GatewayInv
<1> QED  BY <1>3, <1>4

\* A call that is given up takes its session with it.
LEMMA TimeOutKeepsInv ==
  ASSUME GatewayInv, NEW c \in Calls, TimeOut(c) PROVE GatewayInv'
<1> DEFINE s == route[c]
<1>1. /\ phase[c] = "running" /\ Done({c}) /\ queue' = Leave(s, {c})
      /\ live' = live \ {s} /\ net' = Down(s)
      /\ UNCHANGED <<executing, wire, answers, sock, pending, route>>
  BY DEF TimeOut, DisconnectSession, client
<1>2. s \in Sessions
  BY <1>1 DEF GatewayInv, QueueOK
<1>3. QueueOK'
  BY <1>1, RunningEnds DEF GatewayInv
<1>4. NoOverlapInSession'
  BY <1>1 DEF GatewayInv, NoOverlapInSession
<1>5. phase' = [d \in Calls |-> IF d = c THEN "done" ELSE phase[d]]
  BY <1>1 DEF Done
<1>6. \A d \in Calls : phase[d] = "running" /\ d # c => route[d] # s
  BY <1>1, OneRuns DEF GatewayInv
<1>7. net' \in [Sessions -> {"none", "opening", "up", "down"}]
      /\ \A t \in Sessions : Used(t) => Used(t)'
  BY <1>1, <1>2, DownFacts DEF GatewayInv, Used
<1> HIDE DEF s
<1>8. LinkOK'
  BY <1>1, <1>5, <1>6, <1>7 DEF GatewayInv, LinkOK, s
<1> QED  BY <1>3, <1>4, <1>8 DEF GatewayInv

LEMMA SocketClosedKeepsInv ==
  ASSUME GatewayInv, NEW s \in Sessions, SocketClosed(s) PROVE GatewayInv'
<1> DEFINE rejected == {c \in pending : route[c] = s}
           failed == {c \in rejected : phase[c] = "running"}
<1>1. /\ phase' = [c \in Calls |-> IF c \in failed THEN "done" ELSE phase[c]]
      /\ live' = live \ {s} /\ pending' = pending \ rejected
      /\ UNCHANGED <<executing, wire, answers, net, sock, route>>
  BY DEF SocketClosed, Done, DisconnectSession, client
<1>2. QueueOK'
  BY SocketClosedQueueOK DEF GatewayInv, LinkOK
<1>3. NoOverlapInSession'
  BY <1>1 DEF GatewayInv, NoOverlapInSession
<1>4. LinkOK'
  BY <1>1 DEF GatewayInv, LinkOK, Used
<1> QED  BY <1>2, <1>3, <1>4 DEF GatewayInv

LEMMA InitGatewayInv == ASSUME Init PROVE GatewayInv
<1>0. 0 \in 0..MaxSessions
  BY GatewayAssumption
<1>1. QueueOK
  <2>1. queue \in [Sessions -> Seq(Calls)] /\ \A s \in Sessions : Len(queue[s]) = 0
    BY DEF Init
  <2>2. \A s \in Sessions : 1..Len(queue[s]) = {}
    BY <2>1
  <2>3. /\ phase \in [Calls -> Phases] /\ route \in [Calls -> 0..MaxSessions]
        /\ \A c \in Calls : phase[c] # "running"
    BY <1>0 DEF Init, Phases
  <2> QED  BY <2>1, <2>2, <2>3 DEF QueueOK
<1>2. LinkOK
  <2>1. net \in [Sessions -> {"none", "opening", "up", "down"}]
    BY DEF Init
  <2>2. \A c \in Calls : phase[c] = "new"
    BY DEF Init
  <2>3. sock = 0 /\ pending = {} /\ wire = {} /\ executing = {} /\ answers = {} /\ live = {}
    BY DEF Init
  <2> QED  BY <1>0, <2>1, <2>2, <2>3 DEF LinkOK
<1>3. NoOverlapInSession
  BY DEF Init, NoOverlapInSession
<1> QED  BY <1>1, <1>2, <1>3 DEF GatewayInv

LEMMA NextGatewayInv == ASSUME GatewayInv, [Next]_vars PROVE GatewayInv'
<1>1. ASSUME \/ Connect \/ Disconnect \/ RetryFires \/ HandleClose \/ CheckHeartbeatLiveness
             \/ \E s \in Sessions : Drop(s) \/ CompletePairing(s) \/ Expire(s)
             \/ \E a \in Approvals :
                  \/ ApprovalLapses(a) \/ RevokeInvocationGrant(a)
                  \/ \E d \in {"approved", "refused"} : ResolveApproval(a, d)
                  \/ \E s \in Sessions : \E i : AuthorizeToolInvocation(a, s, i)
             \/ \E c \in Calls, s \in Sessions : RequestApproval(c, s)
             \/ UNCHANGED vars
      PROVE  GatewayInv'
  BY <1>1, QuietSteps, QuietKeepsInv DEF GatewayInv
<1>2. ASSUME NEW s \in Sessions, Register(s) \/ SocketClosed(s) PROVE GatewayInv'
  BY <1>2, RegisterKeepsInv, SocketClosedKeepsInv
<1>3. ASSUME NEW c \in Calls, HandleToolRequest(c) \/ ExecutionEnds(c) \/ HandleResponse(c)
                              \/ TimeOut(c)
      PROVE  GatewayInv'
  BY <1>3, ExtensionKeepsInv, ResponseKeepsInv, TimeOutKeepsInv
<1>4. ASSUME NEW c \in Calls, NEW s \in Sessions, Dispatch(s, c) PROVE GatewayInv'
  BY <1>4, DispatchKeepsInv
<1>5. ASSUME NEW c \in Calls, NEW s \in Sessions,
             RouteRead(c, s) \/ \E a \in Approvals : RouteApproved(c, s, a) \/ RouteGranted(c, s, a)
      PROVE  GatewayInv'
  <2>1. PICK a : Enqueue(c, s, a)
    BY <1>5 DEF RouteRead, RouteApproved, RouteGranted
  <2> QED  BY <2>1, RouteKeepsInv
<1> QED  BY <1>1, <1>2, <1>3, <1>4, <1>5 DEF Next

\* The extension never works on two calls of a session at a time: not when a call
\* is given up while the editor is still at it, not when the socket is lost, and
\* not when the client comes back.
THEOREM CallsDoNotOverlap == Spec => []NoOverlapInSession
<1>1. Init => GatewayInv
  BY InitGatewayInv
<1>2. GatewayInv /\ [Next]_vars => GatewayInv'
  BY NextGatewayInv
<1>3. GatewayInv => NoOverlapInSession
  BY DEF GatewayInv
<1> QED  BY <1>1, <1>2, <1>3, PTL DEF Spec

-----------------------------------------------------------------------------
(***************************************************************************)
(* The records of approvals: their type, and what a step may do to them.   *)
(***************************************************************************)

Inputs == {"none"} \cup {Input[c] : c \in Calls}

Records == [session : 0..MaxSessions, lapsed : BOOLEAN, state : States, input : Inputs]

RecordsOK == approval \in [Approvals -> Records]

LEMMA RecordUpdates ==
  ASSUME NEW r \in Records
  PROVE  /\ \A x \in States : /\ [r EXCEPT !.state = x] \in Records
                              /\ [r EXCEPT !.state = x].state = x
                              /\ [r EXCEPT !.state = x].session = r.session
                              /\ [r EXCEPT !.state = x].input = r.input
         /\ \A x \in States : /\ [r EXCEPT !.state = x, !.lapsed = FALSE] \in Records
                              /\ [r EXCEPT !.state = x, !.lapsed = FALSE].state = x
                              /\ [r EXCEPT !.state = x, !.lapsed = FALSE].session = r.session
                              /\ [r EXCEPT !.state = x, !.lapsed = FALSE].input = r.input
         /\ /\ [r EXCEPT !.lapsed = TRUE] \in Records
            /\ [r EXCEPT !.lapsed = TRUE].state = r.state
            /\ [r EXCEPT !.lapsed = TRUE].session = r.session
            /\ [r EXCEPT !.lapsed = TRUE].input = r.input
         /\ r.state \in States /\ r.session \in 0..MaxSessions /\ r.input \in Inputs
<1> DEFINE B == BOOLEAN
           N == 0..MaxSessions
           X == States
           C == [session : N, lapsed : B, state : X, input : Inputs]
<1>1. Records = C /\ TRUE \in B /\ FALSE \in B
  BY DEF Records
<1> HIDE DEF B, N, X
<1>2. r \in C
  BY <1>1
<1>3. \A x \in X : /\ [r EXCEPT !.state = x] \in C
                   /\ [r EXCEPT !.state = x].state = x
                   /\ [r EXCEPT !.state = x].session = r.session
                   /\ [r EXCEPT !.state = x].input = r.input
  BY <1>2
<1>4. \A x \in X : \A b \in B : /\ [r EXCEPT !.state = x, !.lapsed = b] \in C
                   /\ [r EXCEPT !.state = x, !.lapsed = b].state = x
                   /\ [r EXCEPT !.state = x, !.lapsed = b].session = r.session
                   /\ [r EXCEPT !.state = x, !.lapsed = b].input = r.input
  BY <1>2
<1>5. \A b \in B : /\ [r EXCEPT !.lapsed = b] \in C
                   /\ [r EXCEPT !.lapsed = b].state = r.state
                   /\ [r EXCEPT !.lapsed = b].session = r.session
                   /\ [r EXCEPT !.lapsed = b].input = r.input
  BY <1>2
<1>6. r.state \in X /\ r.session \in N /\ r.input \in Inputs
  BY <1>2
<1> HIDE DEF C
<1>7. \A x \in X : /\ [r EXCEPT !.state = x, !.lapsed = FALSE] \in C
                   /\ [r EXCEPT !.state = x, !.lapsed = FALSE].state = x
                   /\ [r EXCEPT !.state = x, !.lapsed = FALSE].session = r.session
                   /\ [r EXCEPT !.state = x, !.lapsed = FALSE].input = r.input
  BY <1>1, <1>4
<1>8. /\ [r EXCEPT !.lapsed = TRUE] \in C
      /\ [r EXCEPT !.lapsed = TRUE].state = r.state
      /\ [r EXCEPT !.lapsed = TRUE].session = r.session
      /\ [r EXCEPT !.lapsed = TRUE].input = r.input
  BY <1>1, <1>5
<1> QED  BY <1>1, <1>3, <1>6, <1>7, <1>8 DEF N, X

LEMMA ApprovalUpdates ==
  ASSUME RecordsOK, NEW a \in Approvals
  PROVE  /\ approval[a] \in Records /\ approval[a].state \in States
         /\ \A x \in States :
              /\ [approval[a] EXCEPT !.state = x] \in Records
              /\ [approval[a] EXCEPT !.state = x].state = x
              /\ [approval[a] EXCEPT !.state = x].session = approval[a].session
              /\ [approval[a] EXCEPT !.state = x].input = approval[a].input
         /\ \A x \in States :
              /\ [approval[a] EXCEPT !.state = x, !.lapsed = FALSE] \in Records
              /\ [approval[a] EXCEPT !.state = x, !.lapsed = FALSE].state = x
              /\ [approval[a] EXCEPT !.state = x, !.lapsed = FALSE].session
                   = approval[a].session
              /\ [approval[a] EXCEPT !.state = x, !.lapsed = FALSE].input = approval[a].input
         /\ [approval[a] EXCEPT !.lapsed = TRUE] \in Records
         /\ [approval[a] EXCEPT !.lapsed = TRUE].state = approval[a].state
         /\ [approval[a] EXCEPT !.lapsed = TRUE].session = approval[a].session
         /\ [approval[a] EXCEPT !.lapsed = TRUE].input = approval[a].input
<1> DEFINE r == approval[a]
<1>1. r \in Records
  BY DEF RecordsOK
<1> HIDE DEF r
<1>2. /\ r.state \in States
      /\ \A x \in States : /\ [r EXCEPT !.state = x] \in Records
                           /\ [r EXCEPT !.state = x].state = x
                           /\ [r EXCEPT !.state = x].session = r.session
                           /\ [r EXCEPT !.state = x].input = r.input
      /\ \A x \in States : /\ [r EXCEPT !.state = x, !.lapsed = FALSE] \in Records
                           /\ [r EXCEPT !.state = x, !.lapsed = FALSE].state = x
                           /\ [r EXCEPT !.state = x, !.lapsed = FALSE].session = r.session
                           /\ [r EXCEPT !.state = x, !.lapsed = FALSE].input = r.input
      /\ [r EXCEPT !.lapsed = TRUE] \in Records
      /\ [r EXCEPT !.lapsed = TRUE].state = r.state
      /\ [r EXCEPT !.lapsed = TRUE].session = r.session
      /\ [r EXCEPT !.lapsed = TRUE].input = r.input
  BY <1>1, RecordUpdates
<1> QED  BY <1>1, <1>2 DEF r

\* What a step may do to the record of a: never change what it is for, never
\* revive it, and let it be approved only by the user.
RecordStep(a) ==
  /\ approval'[a] \in Records
  /\ approval[a].state # "none" =>
       /\ approval'[a].state # "none"
       /\ approval'[a].session = approval[a].session /\ approval'[a].input = approval[a].input
  /\ approval[a].state = "gone" => approval'[a].state = "gone"
  /\ approval'[a].state = "approved" => approval[a].state = "approved" \/ a \in yes'
  /\ approval'[a].state = "granted" => approval[a].state \in {"approved", "granted"}
  /\ approval[a].state = "granted" => approval'[a].state \in {"granted", "gone"}
  /\ approval'[a].state = "none" => approval[a].state = "none"

RecordsStep ==
  /\ approval' \in [Approvals -> Records]
  /\ \A a \in Approvals : RecordStep(a)
  /\ yes \subseteq yes' /\ \A a \in yes' \ yes : a \in Approvals /\ approval'[a].state # "none"

LEMMA SameRecords ==
  ASSUME RecordsOK, UNCHANGED <<approval, yes>> PROVE RecordsStep
  BY DEF RecordsOK, RecordsStep, RecordStep

\* A step that changes records one by one, to the same or by what f says.
LEMMA DeleteRecords ==
  ASSUME RecordsOK, NEW s \in Sessions, approval' = DeleteForSession(s), yes' = yes
  PROVE  RecordsStep
<1>1. ASSUME NEW a \in Approvals
      PROVE  approval'[a] \in Records /\ RecordStep(a)
  <2>1. approval[a] \in Records /\ "gone" \in States
    BY DEF RecordsOK, States
  <2>2. CASE approval[a].session = s
    <3>1. approval'[a] = [approval[a] EXCEPT !.state = "gone"]
      BY <2>2 DEF DeleteForSession
    <3>2. /\ [approval[a] EXCEPT !.state = "gone"] \in Records
          /\ [approval[a] EXCEPT !.state = "gone"].state = "gone"
          /\ [approval[a] EXCEPT !.state = "gone"].session = approval[a].session
          /\ [approval[a] EXCEPT !.state = "gone"].input = approval[a].input
      BY <2>1, ApprovalUpdates, Zenon
    <3>3. /\ approval'[a] \in Records /\ approval'[a].state = "gone"
          /\ approval'[a].session = approval[a].session /\ approval'[a].input = approval[a].input
      BY <3>1, <3>2, Zenon
    <3> QED  BY <3>3 DEF RecordStep
  <2>3. CASE approval[a].session # s
    <3>1. approval'[a] = approval[a]
      BY <2>3 DEF DeleteForSession
    <3> QED  BY <2>1, <3>1 DEF RecordStep
  <2> QED  BY <2>2, <2>3
<1> QED  BY <1>1 DEF RecordsStep, DeleteForSession

\* A step that changes one record.
LEMMA OneRecord ==
  ASSUME RecordsOK, NEW a \in Approvals, NEW r \in Records,
         approval' = [approval EXCEPT ![a] = r], RecordStep(a),
         yes \subseteq yes', yes' \subseteq yes \cup {a}, yes' # yes => r.state # "none"
  PROVE  RecordsStep
<1>1. \A b \in Approvals : approval'[b] = IF b = a THEN r ELSE approval[b]
  BY DEF RecordsOK
<1>2. ASSUME NEW b \in Approvals, b # a PROVE RecordStep(b)
  BY <1>1, <1>2 DEF RecordStep, RecordsOK
<1> QED  BY <1>1, <1>2 DEF RecordsStep, RecordsOK

\* One record gets the state x, and what is lapsed may be reset.
LEMMA OneState ==
  ASSUME RecordsOK, NEW a \in Approvals, NEW x \in States,
         approval[a].state \notin {"none", "gone"}, x # "none",
         x = "approved" => a \in yes', x = "granted" => approval[a].state = "approved",
         approval[a].state = "granted" => x = "gone",
         \/ approval' = [approval EXCEPT ![a].state = x]
         \/ approval' = [approval EXCEPT ![a].state = x, ![a].lapsed = FALSE],
         yes \subseteq yes', yes' \subseteq yes \cup {a}
  PROVE  RecordsStep
<1>1. PICK r \in Records : /\ approval' = [approval EXCEPT ![a] = r] /\ r.state = x
                           /\ r.session = approval[a].session /\ r.input = approval[a].input
  <2>1. CASE approval' = [approval EXCEPT ![a].state = x]
    <3> DEFINE r == [approval[a] EXCEPT !.state = x]
    <3>1. approval' = [approval EXCEPT ![a] = r]
      BY <2>1
    <3>2. /\ r \in Records /\ r.state = x
          /\ r.session = approval[a].session /\ r.input = approval[a].input
      BY ApprovalUpdates, Zenon
    <3> HIDE DEF r
    <3> QED  BY <3>1, <3>2
  <2>2. CASE approval' = [approval EXCEPT ![a].state = x, ![a].lapsed = FALSE]
    <3> DEFINE r == [approval[a] EXCEPT !.state = x, !.lapsed = FALSE]
    <3>1. approval' = [approval EXCEPT ![a] = r]
      BY <2>2
    <3>2. /\ r \in Records /\ r.state = x
          /\ r.session = approval[a].session /\ r.input = approval[a].input
      BY ApprovalUpdates, Zenon
    <3> HIDE DEF r
    <3> QED  BY <3>1, <3>2
  <2> QED  BY <2>1, <2>2
<1>2. approval'[a] = r
  BY <1>1 DEF RecordsOK
<1>3. RecordStep(a)
  BY <1>1, <1>2 DEF RecordStep
<1> QED  BY <1>1, <1>3, OneRecord

LEMMA RequestRecords ==
  ASSUME RecordsOK, NEW c \in Calls, NEW s \in Sessions, RequestApproval(c, s)
  PROVE  RecordsStep
<1>1. PICK a \in Approvals :
        /\ approval[a].state = "none"
        /\ approval' = [b \in Approvals |->
            IF b = a
            THEN [session |-> s, input |-> Input[c], lapsed |-> FALSE,
                  state |-> IF s \in open THEN "pending" ELSE "gone"]
            ELSE IF Stored(b) /\ approval[b].lapsed
                 THEN [approval[b] EXCEPT !.state = "gone"] ELSE approval[b]]
  BY DEF RequestApproval, NextApproval
<1>2. yes' = yes
  BY DEF RequestApproval
<1> DEFINE x == IF s \in open THEN "pending" ELSE "gone"
           r == [session |-> s, input |-> Input[c], lapsed |-> FALSE, state |-> x]
<1>3. approval'[a] = r
  BY <1>1
<1>4. r \in Records /\ r.state \in {"pending", "gone"}
  <2>1. s \in 0..MaxSessions
    BY GatewayAssumption DEF Sessions
  <2>2. x \in States /\ x \in {"pending", "gone"} /\ Input[c] \in Inputs /\ FALSE \in BOOLEAN
    BY DEF States, Inputs
  <2> HIDE DEF x
  <2> QED  BY <2>1, <2>2 DEF Records
<1>5. RecordStep(a)
  BY <1>1, <1>3, <1>4 DEF RecordStep
<1>6. ASSUME NEW b \in Approvals, b # a PROVE RecordStep(b)
  <2>1. CASE Stored(b) /\ approval[b].lapsed
    <3>1. approval'[b] = [approval[b] EXCEPT !.state = "gone"]
      BY <1>1, <1>6, <2>1
    <3>2. "gone" \in States
      BY DEF States
    <3> DEFINE q == [approval[b] EXCEPT !.state = "gone"]
    <3>4. /\ q \in Records /\ q.state = "gone"
          /\ q.session = approval[b].session /\ q.input = approval[b].input
      BY <3>2, ApprovalUpdates, Zenon
    <3> HIDE DEF q
    <3>3. /\ approval'[b] \in Records /\ approval'[b].state = "gone"
          /\ approval'[b].session = approval[b].session /\ approval'[b].input = approval[b].input
      BY <3>1, <3>4 DEF q
    <3> QED  BY <3>3 DEF RecordStep
  <2>2. CASE ~ (Stored(b) /\ approval[b].lapsed)
    <3>1. approval'[b] = approval[b] /\ approval[b] \in Records
      BY <1>1, <1>6, <2>2 DEF RecordsOK
    <3> QED  BY <3>1 DEF RecordStep
  <2> QED  BY <2>1, <2>2
<1>7. \A b \in Approvals : RecordStep(b)
  BY <1>5, <1>6
<1>8. approval' \in [Approvals -> Records]
  BY <1>1, <1>7 DEF RecordStep
<1> QED  BY <1>2, <1>7, <1>8 DEF RecordsStep

LEMMA NextRecords == ASSUME RecordsOK, GatewayInv, [Next]_vars PROVE RecordsStep
<1>s. {"approved", "refused", "granted", "gone"} \subseteq States
  BY DEF States
<1>1. ASSUME NEW a \in Approvals, ApprovalLapses(a) PROVE RecordsStep
  <2>1. /\ approval[a].state \notin {"none", "gone"} /\ yes' = yes
        /\ approval' = [approval EXCEPT ![a] = [approval[a] EXCEPT !.lapsed = TRUE]]
    BY <1>1 DEF ApprovalLapses
  <2>2. PICK r \in Records :
          /\ approval' = [approval EXCEPT ![a] = r] /\ r.state = approval[a].state
          /\ r.session = approval[a].session /\ r.input = approval[a].input
    BY <2>1, ApprovalUpdates
  <2>3. approval'[a] = r
    BY <2>2 DEF RecordsOK
  <2>4. RecordStep(a)
    BY <2>2, <2>3 DEF RecordStep
  <2> QED  BY <2>1, <2>2, <2>4, OneRecord
<1>2. ASSUME NEW a \in Approvals, RevokeInvocationGrant(a) PROVE RecordsStep
  BY <1>s, <1>2, OneState DEF RevokeInvocationGrant
<1>3. ASSUME NEW a \in Approvals, NEW d \in {"approved", "refused"}, ResolveApproval(a, d)
      PROVE  RecordsStep
  <2> DEFINE x == IF approval[a].lapsed THEN "refused" ELSE d
  <2>1. /\ approval[a].state = "pending" /\ approval' = [approval EXCEPT ![a].state = x]
        /\ yes' = IF d = "approved" /\ ~ approval[a].lapsed THEN yes \cup {a} ELSE yes
    BY <1>3 DEF ResolveApproval
  <2>2. x \in States /\ x \in {"approved", "refused"} /\ (x = "approved" => a \in yes')
    BY <1>s, <2>1
  <2>3. yes \subseteq yes' /\ yes' \subseteq yes \cup {a}
    BY <2>1
  <2> HIDE DEF x
  <2> QED  BY <2>1, <2>2, <2>3, OneState
<1>4. ASSUME NEW a \in Approvals, NEW s, NEW i, Approved(a, s, i),
             Consume(a, "granted") \/ Consume(a, "gone"), yes' = yes
      PROVE  RecordsStep
  BY <1>s, <1>4, OneState DEF Approved, Consume
<1>5. ASSUME NEW s \in Sessions, DisconnectSession(s), yes' = yes PROVE RecordsStep
  BY <1>5, DeleteRecords DEF DisconnectSession
<1>6. ASSUME NEW s \in Sessions, SocketClosed(s) PROVE RecordsStep
  BY <1>5, <1>6 DEF SocketClosed
<1>7. ASSUME NEW c \in Calls, TimeOut(c) PROVE RecordsStep
  <2>1. route[c] \in Sessions
    BY <1>7 DEF TimeOut, GatewayInv, QueueOK
  <2> QED  BY <1>5, <1>7, <2>1 DEF TimeOut
<1>8. ASSUME UNCHANGED <<approval, yes>> PROVE RecordsStep
  BY <1>8, SameRecords
<1>9. ASSUME Connect \/ Disconnect \/ RetryFires \/ HandleClose \/ CheckHeartbeatLiveness
             \/ UNCHANGED vars
      PROVE  RecordsStep
  BY <1>8, <1>9 DEF Connect, Disconnect, RetryFires, HandleClose, CheckHeartbeatLiveness, vars
<1>10. ASSUME NEW s \in Sessions, Drop(s) \/ Register(s) \/ CompletePairing(s) \/ Expire(s)
       PROVE  RecordsStep
  BY <1>8, <1>10 DEF Drop, Register, CompletePairing, Expire
<1>11. ASSUME NEW a \in Approvals, NEW s \in Sessions, NEW i, AuthorizeToolInvocation(a, s, i)
       PROVE  RecordsStep
  BY <1>4, <1>11 DEF AuthorizeToolInvocation
<1>12. ASSUME NEW c \in Calls, HandleToolRequest(c) \/ ExecutionEnds(c) \/ HandleResponse(c)
       PROVE  RecordsStep
  BY <1>8, <1>12 DEF HandleToolRequest, ExecutionEnds, HandleResponse
<1>13. ASSUME NEW c \in Calls, NEW s \in Sessions, RouteRead(c, s) \/ Dispatch(s, c)
       PROVE  RecordsStep
  BY <1>8, <1>13 DEF RouteRead, Enqueue, Dispatch
<1>14. ASSUME NEW c \in Calls, NEW s \in Sessions, NEW a \in Approvals, RouteGranted(c, s, a)
       PROVE  RecordsStep
  BY <1>8, <1>14 DEF RouteGranted, Enqueue
<1>15. ASSUME NEW c \in Calls, NEW s \in Sessions, NEW a \in Approvals, RouteApproved(c, s, a)
       PROVE  RecordsStep
  BY <1>4, <1>15 DEF RouteApproved, Enqueue
<1> QED
  BY <1>1, <1>2, <1>3, <1>6, <1>7, <1>9, <1>10, <1>11, <1>12, <1>13, <1>14, <1>15,
     RequestRecords DEF Next

-----------------------------------------------------------------------------
(***************************************************************************)
(* Approvals.  What the user approved is spent by the first call or tool   *)
(* invocation that uses it: as long as it is not granted or gone, no call  *)
(* stands on it, and what is approved or granted the user has approved.    *)
(***************************************************************************)

ApprovalInv ==
  /\ RecordsOK /\ auth \in [Calls -> 0..MaxApprovals]
  /\ yes \subseteq Approvals /\ \A a \in yes : approval[a].state # "none"
  /\ \A a \in Approvals : approval[a].state \in {"approved", "granted"} => a \in yes
  /\ \A a \in Approvals : approval[a].state \notin {"granted", "gone"} =>
       \A c \in Writes : auth[c] # a
  /\ direct \subseteq Writes /\ \A c \in direct : phase[c] # "new"
  /\ WritesWereApproved /\ ApprovalsAreSpentOnce

\* A step that routes no call.
RoutesNone ==
  /\ UNCHANGED <<auth, route, direct>>
  /\ \A c \in Calls : phase'[c] = "new" <=> phase[c] = "new"

\* A step that routes c to the session s with the approval a.
RoutesWrite(c, s, a) ==
  /\ phase[c] = "new" /\ auth' = [auth EXCEPT ![c] = a] /\ route' = [route EXCEPT ![c] = s]
  /\ phase'[c] = "waiting" /\ \A d \in Calls \ {c} : phase'[d] = phase[d]
  /\ approval[a].session = s
  /\ \/ /\ approval[a].state = "approved" /\ approval'[a].state = "gone"
        /\ approval[a].input = Input[c] /\ direct' = direct \cup {c}
     \/ approval[a].state = "granted" /\ approval' = approval /\ direct' = direct

LEMMA RoutesNoneKeeps ==
  ASSUME ApprovalInv, RecordsStep, RoutesNone PROVE ApprovalInv'
<1>1. RecordsOK' /\ auth' \in [Calls -> 0..MaxApprovals]
  BY DEF ApprovalInv, RecordsStep, RecordsOK, RoutesNone
<1>2. yes' \subseteq Approvals /\ \A a \in yes' : approval'[a].state # "none"
  BY DEF ApprovalInv, RecordsStep, RecordStep
<1>3. \A a \in Approvals : approval'[a].state \in {"approved", "granted"} => a \in yes'
  BY DEF ApprovalInv, RecordsStep, RecordStep
<1>4. \A a \in Approvals : approval'[a].state \notin {"granted", "gone"} =>
        \A c \in Writes : auth'[c] # a
  BY DEF ApprovalInv, RecordsStep, RecordStep, RoutesNone
<1>5. direct' \subseteq Writes /\ \A c \in direct' : phase'[c] # "new"
  BY GatewayAssumption DEF ApprovalInv, RoutesNone
<1>6. ASSUME NEW c \in Writes, phase'[c] # "new"
      PROVE  /\ auth'[c] \in yes' /\ approval'[auth'[c]].session = route'[c]
             /\ c \in direct' => approval'[auth'[c]].input = Input[c]
  <2>1. /\ phase[c] # "new" /\ auth'[c] = auth[c] /\ route'[c] = route[c]
        /\ (c \in direct' <=> c \in direct)
    BY <1>6, GatewayAssumption DEF RoutesNone
  <2>2. /\ auth[c] \in yes /\ approval[auth[c]].session = route[c]
        /\ c \in direct => approval[auth[c]].input = Input[c]
    BY <2>1 DEF ApprovalInv, WritesWereApproved
  <2>3. auth[c] \in Approvals /\ approval[auth[c]].state # "none" /\ auth[c] \in yes'
    BY <2>2 DEF ApprovalInv, RecordsStep
  <2>4. /\ approval'[auth[c]].session = approval[auth[c]].session
        /\ approval'[auth[c]].input = approval[auth[c]].input
    BY <2>3 DEF RecordsStep, RecordStep
  <2> QED  BY <2>1, <2>2, <2>3, <2>4
<1>7. ASSUME NEW c \in direct'
      PROVE  /\ approval'[auth'[c]].state = "gone"
             /\ \A d \in Writes : auth'[d] = auth'[c] => d = c
  <2>1. c \in direct /\ c \in Writes /\ phase[c] # "new" /\ auth' = auth
    BY <1>7 DEF ApprovalInv, RoutesNone
  <2>2. /\ approval[auth[c]].state = "gone" /\ \A d \in Writes : auth[d] = auth[c] => d = c
    BY <2>1 DEF ApprovalInv, ApprovalsAreSpentOnce
  <2>3. auth[c] \in Approvals
    BY <2>1 DEF ApprovalInv, WritesWereApproved
  <2>4. approval'[auth[c]].state = "gone"
    BY <2>2, <2>3 DEF RecordsStep, RecordStep
  <2> QED  BY <2>1, <2>2, <2>4
<1>8. WritesWereApproved'
  BY <1>6 DEF WritesWereApproved
<1>9. ApprovalsAreSpentOnce'
  BY <1>7 DEF ApprovalsAreSpentOnce
<1> QED  BY <1>1, <1>2, <1>3, <1>4, <1>5, <1>8, <1>9 DEF ApprovalInv

LEMMA RoutesReadKeeps ==
  ASSUME ApprovalInv, NEW c \in Calls \ Writes, NEW s,
         UNCHANGED <<approval, yes, direct>>,
         auth' = [auth EXCEPT ![c] = 0], route' = [route EXCEPT ![c] = s],
         \A d \in Writes : phase'[d] = phase[d], route \in [Calls -> 0..MaxSessions]
  PROVE  ApprovalInv'
<1>1. \A d \in Writes : auth'[d] = auth[d] /\ route'[d] = route[d]
  BY GatewayAssumption DEF ApprovalInv
<1>2. auth' \in [Calls -> 0..MaxApprovals]
  BY GatewayAssumption DEF ApprovalInv
<1>3. WritesWereApproved'
  BY <1>1 DEF ApprovalInv, WritesWereApproved
<1>4. ApprovalsAreSpentOnce'
  BY <1>1 DEF ApprovalInv, ApprovalsAreSpentOnce
<1>5. RecordsOK'
  BY DEF ApprovalInv, RecordsOK
<1> QED  BY <1>1, <1>2, <1>3, <1>4, <1>5 DEF ApprovalInv

LEMMA RoutesWriteKeeps ==
  ASSUME ApprovalInv, RecordsStep, NEW c \in Writes, NEW s, NEW a \in Approvals,
         RoutesWrite(c, s, a), route \in [Calls -> 0..MaxSessions]
  PROVE  ApprovalInv'
<1>1. /\ auth'[c] = a /\ route'[c] = s /\ c \in Calls
      /\ \A d \in Calls : d # c => auth'[d] = auth[d] /\ route'[d] = route[d]
  BY GatewayAssumption DEF ApprovalInv, RoutesWrite
<1>2. RecordsOK' /\ auth' \in [Calls -> 0..MaxApprovals]
  BY GatewayAssumption DEF ApprovalInv, RecordsStep, RecordsOK, RoutesWrite, Approvals
<1>3. yes' \subseteq Approvals /\ \A b \in yes' : approval'[b].state # "none"
  BY DEF ApprovalInv, RecordsStep, RecordStep
<1>4. \A b \in Approvals : approval'[b].state \in {"approved", "granted"} => b \in yes'
  BY DEF ApprovalInv, RecordsStep, RecordStep
<1>5. approval'[a].state \in {"granted", "gone"}
  BY DEF RoutesWrite
<1>6. ASSUME NEW b \in Approvals, approval'[b].state \notin {"granted", "gone"},
             NEW d \in Writes
      PROVE  auth'[d] # b
  <2>1. b # a /\ approval[b].state \notin {"granted", "gone"}
    BY <1>5, <1>6 DEF RecordsStep, RecordStep
  <2>2. auth[d] # b
    BY <1>6, <2>1 DEF ApprovalInv
  <2> QED  BY <1>1, <2>1, <2>2, GatewayAssumption
<1>7. c \notin direct
  BY DEF ApprovalInv, RoutesWrite
<1>8. direct' \subseteq Writes
  BY DEF ApprovalInv, RoutesWrite
<1>9. a \in yes /\ a \in yes' /\ approval[a].state # "none"
  BY DEF ApprovalInv, RoutesWrite, RecordsStep
<1>10. /\ approval'[a].session = s
       /\ c \in direct' => approval'[a].input = Input[c]
  BY <1>7, <1>9 DEF RoutesWrite, RecordsStep, RecordStep
<1>11. ASSUME NEW d \in Writes, d # c, phase'[d] # "new"
       PROVE  /\ auth'[d] \in yes' /\ approval'[auth'[d]].session = route'[d]
              /\ d \in direct' => approval'[auth'[d]].input = Input[d]
  <2>1. /\ auth'[d] = auth[d] /\ route'[d] = route[d] /\ (d \in direct' => d \in direct)
        /\ phase[d] # "new"
    BY <1>1, <1>11, GatewayAssumption DEF RoutesWrite
  <2>2. /\ auth[d] \in yes /\ approval[auth[d]].session = route[d]
        /\ d \in direct => approval[auth[d]].input = Input[d]
    BY <2>1 DEF ApprovalInv, WritesWereApproved
  <2>3. auth[d] \in Approvals /\ approval[auth[d]].state # "none" /\ auth[d] \in yes'
    BY <2>2 DEF ApprovalInv, RecordsStep
  <2>4. /\ approval'[auth[d]].session = approval[auth[d]].session
        /\ approval'[auth[d]].input = approval[auth[d]].input
    BY <2>3 DEF RecordsStep, RecordStep
  <2> QED  BY <2>1, <2>2, <2>3, <2>4
<1>12. WritesWereApproved'
  BY <1>1, <1>9, <1>10, <1>11 DEF WritesWereApproved
<1>13. \A d \in direct' : phase'[d] # "new"
  BY <1>8, GatewayAssumption DEF ApprovalInv, RoutesWrite
<1>14. ASSUME NEW d \in direct
       PROVE  /\ d \in Calls /\ d # c /\ auth[d] \in Approvals /\ auth[d] # a
              /\ approval[auth[d]].state = "gone"
              /\ \A e \in Writes : auth[e] = auth[d] => e = d
  <2>1. d \in Writes /\ phase[d] # "new" /\ d # c /\ d \in Calls
    BY <1>7, GatewayAssumption DEF ApprovalInv
  <2>2. auth[d] \in Approvals
    BY <2>1 DEF ApprovalInv, WritesWereApproved
  <2>3. approval[auth[d]].state = "gone" /\ \A e \in Writes : auth[e] = auth[d] => e = d
    BY DEF ApprovalInv, ApprovalsAreSpentOnce
  <2>4. auth[d] # a
    BY <2>3 DEF RoutesWrite
  <2> QED  BY <2>1, <2>2, <2>3, <2>4
<1>15. ASSUME NEW d \in direct'
       PROVE  /\ approval'[auth'[d]].state = "gone"
              /\ \A e \in Writes : auth'[e] = auth'[d] => e = d
  <2>1. CASE d = c
    <3>1. approval[a].state = "approved" /\ approval'[a].state = "gone"
      BY <1>7, <1>15, <2>1 DEF RoutesWrite
    <3>2. \A e \in Writes : auth[e] # a
      BY <3>1 DEF ApprovalInv
    <3> QED  BY <1>1, <2>1, <3>1, <3>2, GatewayAssumption
  <2>2. CASE d # c
    <3>1. d \in direct
      BY <1>15, <2>2 DEF RoutesWrite
    <3>2. auth'[d] = auth[d] /\ approval'[auth[d]].state = "gone"
      BY <1>1, <1>14, <3>1 DEF RecordsStep, RecordStep
    <3>3. \A e \in Writes : auth'[e] = auth'[d] => e = d
      BY <1>1, <1>14, <3>1, <3>2, GatewayAssumption
    <3> QED  BY <3>2, <3>3
  <2> QED  BY <2>1, <2>2
<1>16. ApprovalsAreSpentOnce'
  BY <1>15 DEF ApprovalsAreSpentOnce
<1> QED
  BY <1>2, <1>3, <1>4, <1>6, <1>8, <1>12, <1>13, <1>16 DEF ApprovalInv

LEMMA InitApprovalInv == ASSUME Init PROVE ApprovalInv
<1>1. RecordsOK
  <2>1. NoApproval \in Records
    <3>1. 0 \in 0..MaxSessions /\ "none" \in States /\ "none" \in Inputs /\ FALSE \in BOOLEAN
      BY GatewayAssumption DEF States, Inputs
    <3> QED  BY <3>1 DEF NoApproval, Records
  <2> QED  BY <2>1 DEF Init, RecordsOK
<1>2. \A a \in Approvals : approval[a].state = "none"
  BY DEF Init, NoApproval
<1>3. auth \in [Calls -> 0..MaxApprovals] /\ \A c \in Calls : auth[c] = 0
  BY GatewayAssumption DEF Init
<1>4. 0 \notin Approvals
  BY GatewayAssumption DEF Approvals
<1>5. \A a \in Approvals : \A c \in Writes : auth[c] # a
  BY <1>3, <1>4, GatewayAssumption
<1>6. yes = {} /\ direct = {} /\ \A c \in Writes : phase[c] = "new"
  BY GatewayAssumption DEF Init
<1> QED
  BY <1>1, <1>2, <1>3, <1>5, <1>6 DEF ApprovalInv, WritesWereApproved, ApprovalsAreSpentOnce

\* Only the routing of a call makes it stand on an approval.
LEMMA RoutesNoneSteps ==
  ASSUME GatewayInv, [Next]_vars,
         \A c \in Calls, s \in Sessions :
           /\ ~ RouteRead(c, s)
           /\ \A a \in Approvals : ~ RouteApproved(c, s, a) /\ ~ RouteGranted(c, s, a)
  PROVE  RoutesNone
<1>1. ASSUME UNCHANGED calls PROVE RoutesNone
  BY <1>1 DEF calls, RoutesNone
<1>2. ASSUME Connect \/ Disconnect \/ RetryFires \/ HandleClose \/ CheckHeartbeatLiveness
             \/ UNCHANGED vars
      PROVE  RoutesNone
  BY <1>1, <1>2 DEF Connect, Disconnect, RetryFires, HandleClose, CheckHeartbeatLiveness, vars
<1>3. ASSUME NEW s \in Sessions, Drop(s) \/ Register(s) \/ CompletePairing(s) \/ Expire(s)
      PROVE  RoutesNone
  BY <1>1, <1>3 DEF Drop, Register, CompletePairing, Expire
<1>4. ASSUME NEW a \in Approvals,
             \/ ApprovalLapses(a) \/ RevokeInvocationGrant(a)
             \/ \E d \in {"approved", "refused"} : ResolveApproval(a, d)
             \/ \E s \in Sessions : \E i : AuthorizeToolInvocation(a, s, i)
      PROVE  RoutesNone
  BY <1>1, <1>4 DEF ApprovalLapses, RevokeInvocationGrant, ResolveApproval,
                    AuthorizeToolInvocation
<1>5. ASSUME NEW c \in Calls, HandleToolRequest(c) \/ ExecutionEnds(c) PROVE RoutesNone
  BY <1>1, <1>5 DEF HandleToolRequest, ExecutionEnds
<1>6. ASSUME NEW c \in Calls, NEW s \in Sessions, RequestApproval(c, s) PROVE RoutesNone
  BY <1>1, <1>6 DEF RequestApproval
<1>7. ASSUME NEW D, \A c \in D : c \in Calls => phase[c] # "new", Done(D),
             UNCHANGED <<auth, route, direct>>
      PROVE  RoutesNone
  BY <1>7 DEF Done, RoutesNone
<1>8. ASSUME NEW s \in Sessions, SocketClosed(s) PROVE RoutesNone
  <2> DEFINE D == {c \in {d \in pending : route[d] = s} : phase[c] = "running"}
  <2>1. Done(D) /\ UNCHANGED <<auth, route, direct>>
    BY <1>8 DEF SocketClosed
  <2>2. \A c \in D : phase[c] # "new"
    OBVIOUS
  <2> HIDE DEF D
  <2> QED  BY <1>7, <2>1, <2>2
<1>9. ASSUME NEW c \in Calls, HandleResponse(c) PROVE RoutesNone
  <2>1. CASE c \in pending /\ phase[c] = "running"
    BY <1>7, <1>9, <2>1 DEF HandleResponse
  <2>2. CASE ~ (c \in pending /\ phase[c] = "running")
    BY <1>9, <2>2 DEF HandleResponse, RoutesNone
  <2> QED  BY <2>1, <2>2
<1>10. ASSUME NEW c \in Calls, TimeOut(c) PROVE RoutesNone
  BY <1>7, <1>10 DEF TimeOut
<1>11. ASSUME NEW c \in Calls, NEW s \in Sessions, Dispatch(s, c) PROVE RoutesNone
  <2>1. phase[c] = "waiting" /\ UNCHANGED <<auth, route, direct>>
    BY <1>11 DEF Dispatch
  <2>2. CASE s \in live /\ s \in open
    <3>1. phase' = [phase EXCEPT ![c] = "running"] /\ DOMAIN phase = Calls
      BY <1>11, <2>2 DEF Dispatch, GatewayInv, QueueOK
    <3> QED  BY <2>1, <3>1 DEF RoutesNone
  <2>3. CASE ~ (s \in live /\ s \in open)
    BY <1>7, <1>11, <2>1, <2>3 DEF Dispatch, Unavailable
  <2> QED  BY <2>2, <2>3
<1> QED  BY <1>2, <1>3, <1>4, <1>5, <1>6, <1>8, <1>9, <1>10, <1>11 DEF Next

LEMMA NextApprovalInv ==
  ASSUME ApprovalInv, GatewayInv, [Next]_vars PROVE ApprovalInv'
<1>1. RecordsStep
  BY NextRecords DEF ApprovalInv
<1>2. route \in [Calls -> 0..MaxSessions] /\ DOMAIN phase = Calls
  BY DEF GatewayInv, QueueOK
<1>3. ASSUME NEW c \in Calls, NEW s \in Sessions, RouteRead(c, s) PROVE ApprovalInv'
  <2>1. /\ c \in Calls \ Writes /\ UNCHANGED <<approval, yes, direct>>
        /\ auth' = [auth EXCEPT ![c] = 0] /\ route' = [route EXCEPT ![c] = s]
        /\ phase' = [phase EXCEPT ![c] = "waiting"]
    BY <1>3 DEF RouteRead, Enqueue
  <2>2. \A d \in Writes : phase'[d] = phase[d]
    BY <1>2, <2>1, GatewayAssumption
  <2> QED  BY <1>2, <2>1, <2>2, RoutesReadKeeps
<1>4. ASSUME NEW c \in Calls, NEW s \in Sessions, NEW a \in Approvals, RouteApproved(c, s, a)
      PROVE  ApprovalInv'
  <2>1. /\ c \in Writes /\ phase[c] = "new" /\ phase' = [phase EXCEPT ![c] = "waiting"]
        /\ auth' = [auth EXCEPT ![c] = a] /\ route' = [route EXCEPT ![c] = s]
        /\ approval[a].state = "approved" /\ approval[a].session = s
        /\ approval[a].input = Input[c] /\ direct' = direct \cup {c} /\ Consume(a, "gone")
    BY <1>4 DEF RouteApproved, Enqueue, Approved
  <2>2. approval'[a].state = "gone"
    <3>1. "gone" \in States /\ approval' = [approval EXCEPT ![a] =
                                              [approval[a] EXCEPT !.state = "gone", !.lapsed = FALSE]]
      BY <2>1 DEF Consume, States
    <3> DEFINE r == [approval[a] EXCEPT !.state = "gone", !.lapsed = FALSE]
    <3>2. r.state = "gone"
      BY <3>1, ApprovalUpdates, Zenon DEF ApprovalInv
    <3> HIDE DEF r
    <3>3. approval'[a] = r
      BY <3>1 DEF r, ApprovalInv, RecordsOK
    <3> QED  BY <3>2, <3>3
  <2>3. RoutesWrite(c, s, a)
    BY <1>2, <2>1, <2>2 DEF RoutesWrite
  <2> QED  BY <1>1, <1>2, <2>1, <2>3, RoutesWriteKeeps
<1>5. ASSUME NEW c \in Calls, NEW s \in Sessions, NEW a \in Approvals, RouteGranted(c, s, a)
      PROVE  ApprovalInv'
  <2>1. /\ c \in Writes /\ phase[c] = "new" /\ phase' = [phase EXCEPT ![c] = "waiting"]
        /\ auth' = [auth EXCEPT ![c] = a] /\ route' = [route EXCEPT ![c] = s]
        /\ approval[a].state = "granted" /\ approval[a].session = s
        /\ UNCHANGED <<approval, direct>>
    BY <1>5 DEF RouteGranted, Enqueue, Grants
  <2>2. RoutesWrite(c, s, a)
    BY <1>2, <2>1 DEF RoutesWrite
  <2> QED  BY <1>1, <1>2, <2>1, <2>2, RoutesWriteKeeps
<1> QED  BY <1>1, <1>3, <1>4, <1>5, RoutesNoneKeeps, RoutesNoneSteps

\* Every write that is let through stands on an approval that the user gave in
\* time for that session, and for that input unless it belongs to a granted tool
\* invocation; no order of lapses, retries and reconnections gets round it.
THEOREM WritesNeedApproval == Spec => []WritesWereApproved
<1>1. Init => GatewayInv /\ ApprovalInv
  BY InitGatewayInv, InitApprovalInv
<1>2. GatewayInv /\ ApprovalInv /\ [Next]_vars => (GatewayInv /\ ApprovalInv)'
  BY NextGatewayInv, NextApprovalInv
<1>3. ApprovalInv => WritesWereApproved
  BY DEF ApprovalInv
<1> QED  BY <1>1, <1>2, <1>3, PTL DEF Spec

\* An approval that let a call through lets no other through: whoever presents
\* it again meets a record that is gone.
THEOREM ApprovalsSpentOnce == Spec => []ApprovalsAreSpentOnce
<1>1. Init => GatewayInv /\ ApprovalInv
  BY InitGatewayInv, InitApprovalInv
<1>2. GatewayInv /\ ApprovalInv /\ [Next]_vars => (GatewayInv /\ ApprovalInv)'
  BY NextGatewayInv, NextApprovalInv
<1>3. ApprovalInv => ApprovalsAreSpentOnce
  BY DEF ApprovalInv
<1> QED  BY <1>1, <1>2, <1>3, PTL DEF Spec

-----------------------------------------------------------------------------
(***************************************************************************)
(* What the stores keep of sessions that have ended.                       *)
(***************************************************************************)

\* A step that asks for no approval.
AsksNone == \A a \in Approvals : approval[a].state = "none" => approval'[a].state \in {"none", "gone"}

LEMMA LiveKept ==
  ASSUME RecordsOK, RecordsStep, EndedSessionsHoldNothing, live \subseteq live', AsksNone
  PROVE  EndedSessionsHoldNothing'
<1> SUFFICES ASSUME NEW a \in Approvals, approval'[a].state \notin {"none", "gone"}
             PROVE  approval'[a].session \in live'
  BY DEF EndedSessionsHoldNothing
<1>1. approval[a].state \notin {"none", "gone"} /\ approval'[a].session = approval[a].session
  BY DEF AsksNone, RecordsStep, RecordStep
<1> QED  BY <1>1 DEF EndedSessionsHoldNothing

LEMMA EndedSession ==
  ASSUME RecordsOK, EndedSessionsHoldNothing, NEW s \in Sessions, DisconnectSession(s)
  PROVE  EndedSessionsHoldNothing'
<1> SUFFICES ASSUME NEW a \in Approvals, approval'[a].state \notin {"none", "gone"}
             PROVE  approval'[a].session \in live'
  BY DEF EndedSessionsHoldNothing
<1>1. "gone" \in States
  BY DEF States
<1>2. [approval[a] EXCEPT !.state = "gone"].state = "gone"
  BY <1>1, ApprovalUpdates, Zenon
<1>3. approval'[a] = IF approval[a].session = s
                     THEN [approval[a] EXCEPT !.state = "gone"] ELSE approval[a]
  BY DEF DisconnectSession, DeleteForSession
<1>4. approval[a].session # s /\ approval'[a] = approval[a]
  BY <1>2, <1>3
<1> QED  BY <1>4 DEF EndedSessionsHoldNothing, DisconnectSession

LEMMA AskedOfLive ==
  ASSUME RecordsOK, RecordsStep, EndedSessionsHoldNothing,
         NEW c \in Calls, NEW s \in Sessions, RequestApproval(c, s)
  PROVE  EndedSessionsHoldNothing'
<1>1. PICK a \in Approvals :
        approval' = [b \in Approvals |->
            IF b = a
            THEN [session |-> s, input |-> Input[c], lapsed |-> FALSE,
                  state |-> IF s \in open THEN "pending" ELSE "gone"]
            ELSE IF Stored(b) /\ approval[b].lapsed
                 THEN [approval[b] EXCEPT !.state = "gone"] ELSE approval[b]]
  BY DEF RequestApproval
<1>2. s \in live /\ live' = live
  BY DEF RequestApproval, Routes, gate
<1> SUFFICES ASSUME NEW b \in Approvals, approval'[b].state \notin {"none", "gone"}
             PROVE  approval'[b].session \in live'
  BY DEF EndedSessionsHoldNothing
<1>3. CASE b = a
  BY <1>1, <1>2, <1>3
<1>4. CASE b # a
  <2>1. approval[b].state = "none" => approval'[b] = approval[b]
    BY <1>1, <1>4 DEF Stored
  <2>2. approval[b].state \notin {"none", "gone"} /\ approval'[b].session = approval[b].session
    BY <2>1 DEF RecordsStep, RecordStep
  <2> QED  BY <1>2, <2>2 DEF EndedSessionsHoldNothing
<1> QED  BY <1>3, <1>4

LEMMA NextEnded ==
  ASSUME RecordsOK, GatewayInv, EndedSessionsHoldNothing, [Next]_vars
  PROVE  EndedSessionsHoldNothing'
<1>0. RecordsStep
  BY NextRecords
<1>1. ASSUME live \subseteq live', AsksNone PROVE EndedSessionsHoldNothing'
  BY <1>0, <1>1, LiveKept
<1>2. ASSUME UNCHANGED <<live, approval>> PROVE EndedSessionsHoldNothing'
  BY <1>2 DEF EndedSessionsHoldNothing
<1>3. ASSUME UNCHANGED live, NEW a \in Approvals, approval[a].state # "none",
             \A b \in Approvals \ {a} : approval'[b] = approval[b]
      PROVE  EndedSessionsHoldNothing'
  BY <1>1, <1>3 DEF AsksNone
<1>4. ASSUME NEW s \in Sessions, SocketClosed(s) PROVE EndedSessionsHoldNothing'
  BY <1>4, EndedSession DEF SocketClosed
<1>5. ASSUME NEW c \in Calls, TimeOut(c) PROVE EndedSessionsHoldNothing'
  <2>1. route[c] \in Sessions
    BY <1>5 DEF TimeOut, GatewayInv, QueueOK
  <2> QED  BY <1>5, <2>1, EndedSession DEF TimeOut
<1>6. ASSUME NEW s \in Sessions, Register(s) PROVE EndedSessionsHoldNothing'
  BY <1>1, <1>6 DEF Register, AsksNone
<1>7. ASSUME NEW a \in Approvals,
             \/ ApprovalLapses(a) \/ RevokeInvocationGrant(a)
             \/ \E d \in {"approved", "refused"} : ResolveApproval(a, d)
             \/ \E s \in Sessions, i \in {Input[c] : c \in Calls} : AuthorizeToolInvocation(a, s, i)
      PROVE  EndedSessionsHoldNothing'
  <2>1. approval[a].state # "none" /\ UNCHANGED live
        /\ \A b \in Approvals \ {a} : approval'[b] = approval[b]
    BY <1>7 DEF ApprovalLapses, RevokeInvocationGrant, ResolveApproval, AuthorizeToolInvocation,
                Approved, Consume, gate, RecordsOK
  <2> QED  BY <1>3, <2>1
<1>8. ASSUME NEW c \in Calls, NEW s \in Sessions, NEW a \in Approvals, RouteApproved(c, s, a)
      PROVE  EndedSessionsHoldNothing'
  <2>1. approval[a].state # "none" /\ UNCHANGED live
        /\ \A b \in Approvals \ {a} : approval'[b] = approval[b]
    BY <1>8 DEF RouteApproved, Enqueue, Approved, Consume, gate, RecordsOK
  <2> QED  BY <1>3, <2>1
<1>9. ASSUME NEW c \in Calls, NEW s \in Sessions, RequestApproval(c, s)
      PROVE  EndedSessionsHoldNothing'
  BY <1>0, <1>9, AskedOfLive
<1>10. ASSUME \/ UNCHANGED vars
              \/ Connect \/ Disconnect \/ RetryFires \/ HandleClose \/ CheckHeartbeatLiveness
              \/ \E s \in Sessions : Drop(s) \/ CompletePairing(s) \/ Expire(s)
              \/ \E c \in Calls :
                   \/ HandleToolRequest(c) \/ ExecutionEnds(c) \/ HandleResponse(c)
                   \/ \E s \in Sessions :
                        \/ RouteRead(c, s) \/ Dispatch(s, c)
                        \/ \E a \in Approvals : RouteGranted(c, s, a)
       PROVE  EndedSessionsHoldNothing'
  BY <1>2, <1>10 DEF vars, Connect, Disconnect, RetryFires, HandleClose, CheckHeartbeatLiveness,
       Drop, CompletePairing, Expire, HandleToolRequest, ExecutionEnds, HandleResponse,
       RouteRead, Dispatch, RouteGranted, Enqueue, gate
<1> QED
  BY <1>4, <1>5, <1>6, <1>7, <1>8, <1>9, <1>10 DEF Next

\* Neither an approval nor a grant of a session that was disconnected or
\* quarantined comes to life again, in whatever order its socket closes, its calls
\* time out and its client returns (gateway.ts disconnectCurrentSession,
\* quarantineSession).
THEOREM EndedSessionsAreForgotten == Spec => []EndedSessionsHoldNothing
<1>1. Init => GatewayInv /\ ApprovalInv /\ EndedSessionsHoldNothing
  <2>1. Init => EndedSessionsHoldNothing
    BY DEF Init, NoApproval, EndedSessionsHoldNothing
  <2> QED  BY <2>1, InitGatewayInv, InitApprovalInv
<1>2. GatewayInv /\ ApprovalInv /\ EndedSessionsHoldNothing /\ [Next]_vars
        => (GatewayInv /\ ApprovalInv /\ EndedSessionsHoldNothing)'
  <2>1. ApprovalInv => RecordsOK
    BY DEF ApprovalInv
  <2> QED  BY <2>1, NextGatewayInv, NextApprovalInv, NextEnded
<1> QED  BY <1>1, <1>2, PTL DEF Spec

-----------------------------------------------------------------------------
(***************************************************************************)
(* Type correctness, from the invariants above and what is left.           *)
(***************************************************************************)

GateOK ==
  /\ desired \in BOOLEAN /\ code \in {"fresh", "used"} /\ retry \in BOOLEAN
  /\ open \subseteq attached /\ live \subseteq attached
  /\ attached \cup paired \cup expired \subseteq Sessions

LEMMA NextGateOK == ASSUME GateOK, GatewayInv, [Next]_vars PROVE GateOK'
<1> USE DEF GateOK
<1>1. ASSUME UNCHANGED <<desired, code, retry, gate>> PROVE GateOK'
  BY <1>1 DEF gate
<1>2. CASE Connect \/ Disconnect \/ RetryFires \/ HandleClose \/ CheckHeartbeatLiveness
  <2>1. UNCHANGED gate
    BY <1>2 DEF Connect, Disconnect, RetryFires, HandleClose, CheckHeartbeatLiveness
  <2>2. desired' \in BOOLEAN /\ code' \in {"fresh", "used"}
    BY <1>2 DEF Connect, Disconnect, RetryFires, HandleClose, CheckHeartbeatLiveness
  <2>3. retry' \in BOOLEAN
    BY <1>2 DEF Connect, Disconnect, RetryFires, HandleClose, CheckHeartbeatLiveness,
                ScheduleReconnect
  <2> QED  BY <2>1, <2>2, <2>3 DEF gate
<1>3. ASSUME NEW s \in Sessions, Register(s) \/ CompletePairing(s) \/ Expire(s) PROVE GateOK'
  BY <1>3 DEF Register, CompletePairing, Expire, client
<1>4. ASSUME NEW s \in Sessions, SocketClosed(s) PROVE GateOK'
  BY <1>4 DEF SocketClosed, DisconnectSession, client
<1>5. ASSUME NEW c \in Calls, TimeOut(c) PROVE GateOK'
  BY <1>5 DEF TimeOut, DisconnectSession, client
<1>6. ASSUME NEW s \in Sessions, Drop(s) PROVE GateOK'
  BY <1>1, <1>6 DEF Drop, client
<1>7. ASSUME NEW a \in Approvals,
             \/ ApprovalLapses(a) \/ RevokeInvocationGrant(a)
             \/ \E d \in {"approved", "refused"} : ResolveApproval(a, d)
             \/ \E s \in Sessions : \E i : AuthorizeToolInvocation(a, s, i)
      PROVE  GateOK'
  BY <1>1, <1>7 DEF ApprovalLapses, RevokeInvocationGrant, ResolveApproval,
                    AuthorizeToolInvocation, client
<1>8. ASSUME NEW c \in Calls, HandleToolRequest(c) \/ ExecutionEnds(c) \/ HandleResponse(c)
      PROVE  GateOK'
  BY <1>1, <1>8 DEF HandleToolRequest, ExecutionEnds, HandleResponse, client
<1>9. ASSUME NEW c \in Calls, NEW s \in Sessions,
             RequestApproval(c, s) \/ RouteRead(c, s) \/ Dispatch(s, c)
      PROVE  GateOK'
  BY <1>1, <1>9 DEF RequestApproval, RouteRead, Enqueue, Dispatch, client
<1>10. ASSUME NEW c \in Calls, NEW s \in Sessions, NEW a \in Approvals,
              RouteApproved(c, s, a) \/ RouteGranted(c, s, a)
       PROVE  GateOK'
  BY <1>1, <1>10 DEF RouteApproved, RouteGranted, Enqueue, client
<1>11. CASE UNCHANGED vars
  BY <1>1, <1>11 DEF vars, client
<1> QED
  BY <1>2, <1>3, <1>4, <1>5, <1>6, <1>7, <1>8, <1>9, <1>10, <1>11 DEF Next

\* The gateway, the network and the client keep their variables to their types,
\* and a call that runs is the first of its session's queue.
THEOREM TypeCorrect == Spec => []TypeOK
<1>1. Init => GateOK /\ GatewayInv /\ ApprovalInv
  <2>1. Init => GateOK
    BY DEF Init, GateOK
  <2> QED  BY <2>1, InitGatewayInv, InitApprovalInv
<1>2. GateOK /\ GatewayInv /\ ApprovalInv /\ [Next]_vars
        => (GateOK /\ GatewayInv /\ ApprovalInv)'
  BY NextGateOK, NextGatewayInv, NextApprovalInv
<1>3. GateOK /\ GatewayInv /\ ApprovalInv => TypeOK
  <2>1. ASSUME QueueOK, NEW c \in Calls, phase[c] = "running"
        PROVE  route[c] # 0 /\ Head(queue[route[c]]) = c
    <3>1. route[c] \in Sessions /\ Turn(route[c], c)
      BY <2>1 DEF QueueOK
    <3> QED  BY <3>1, GatewayAssumption DEF Turn, Sessions
  <2>2. ApprovalInv => direct \subseteq Calls
    BY GatewayAssumption DEF ApprovalInv
  <2>3. RecordsOK => approval \in [Approvals -> [session : 0..MaxSessions, lapsed : BOOLEAN,
                         state : States, input : {"none"} \cup {Input[c] : c \in Calls}]]
    BY DEF RecordsOK, Records, Inputs
  <2>4. ASSUME GateOK, GatewayInv, ApprovalInv PROVE TypeOK
    <3>1. QueueOK /\ LinkOK
      BY <2>4 DEF GatewayInv
    <3>2. /\ approval \in [Approvals -> [session : 0..MaxSessions, lapsed : BOOLEAN,
                         state : States, input : {"none"} \cup {Input[c] : c \in Calls}]]
          /\ auth \in [Calls -> 0..MaxApprovals] /\ yes \subseteq Approvals
      BY <2>3, <2>4 DEF ApprovalInv
    <3>3. /\ queue \in [Sessions -> Seq(Calls)] /\ route \in [Calls -> 0..MaxSessions]
          /\ phase \in [Calls -> {"new", "waiting", "running", "done"}]
      BY <3>1 DEF QueueOK, Phases
    <3>4. \A c \in Calls : phase[c] = "running" => route[c] # 0 /\ Head(queue[route[c]]) = c
      BY <2>1, <3>1
    <3>5. /\ net \in [Sessions -> {"none", "opening", "up", "down"}]
          /\ sock \in 0..MaxSessions /\ pending \subseteq Calls
          /\ executing \cup wire \cup answers \subseteq Calls
      BY <3>1 DEF LinkOK
    <3> QED  BY <2>2, <2>4, <3>2, <3>3, <3>4, <3>5, Zenon DEF GateOK, TypeOK
  <2> QED  BY <2>4
<1> QED  BY <1>1, <1>2, <1>3, PTL DEF Spec

-----------------------------------------------------------------------------
(***************************************************************************)
(* The queues.  A call that waits is in the queue of its session, behind   *)
(* calls that wait too or the one that runs, and the first of a queue can  *)
(* be dispatched or ends by its deadline: what EveryCallEnds needs.        *)
(***************************************************************************)

InQueue(c, q) == \E i \in 1..Len(q) : q[i] = c

WaitingIsQueued ==
  \A c \in Calls : phase[c] = "waiting" => route[c] \in Sessions /\ InQueue(c, queue[route[c]])

FirstMayLeave ==
  \A s \in Sessions : queue[s] # << >> =>
    LET c == Head(queue[s]) IN
    /\ c \in Calls /\ route[c] = s
    /\ \/ phase[c] = "waiting"
       \/ phase[c] = "running" /\ c \in pending /\ s \in live

LEMMA InAppend ==
  ASSUME NEW q \in Seq(Calls), NEW c \in Calls, NEW d
  PROVE  InQueue(c, Append(q, c)) /\ (InQueue(d, q) => InQueue(d, Append(q, c)))
<1> DEFINE r == Append(q, c)
<1>1. /\ Len(r) = Len(q) + 1 /\ Len(q) \in Nat /\ r[Len(q) + 1] = c
      /\ \A i \in 1..Len(q) : r[i] = q[i]
  OBVIOUS
<1> HIDE DEF r
<1> QED  BY <1>1 DEF InQueue, r

LEMMA InTail ==
  ASSUME NEW q \in Seq(Calls), NEW c, InQueue(c, q), Head(q) # c
  PROVE  InQueue(c, Tail(q))
<1> DEFINE r == Tail(q)
<1>1. PICK i \in 1..Len(q) : q[i] = c
  BY DEF InQueue
<1>2. q # << >> /\ Len(q) \in Nat
  BY <1>1
<1>3. q[1] # c
  BY <1>2, TailFacts
<1>4. i # 1
  BY <1>1, <1>3
<1>5. Len(r) = Len(q) - 1 /\ \A j \in 1..Len(r) : r[j] = q[j + 1]
  BY <1>2, HeadTailProperties
<1> HIDE DEF r
<1>6. i - 1 \in 1..Len(r) /\ (i - 1) + 1 = i
  BY <1>2, <1>4, <1>5
<1>7. r[i - 1] = c
  BY <1>1, <1>5, <1>6
<1> QED  BY <1>6, <1>7 DEF InQueue, r

\* When the first call of a queue leaves it, the others stay.
LEMMA TurnEndsQueued ==
  ASSUME QueueOK, WaitingIsQueued, NEW s \in Sessions, NEW c \in Calls, Turn(s, c),
         queue' = [queue EXCEPT ![s] = Tail(@)],
         phase' = [d \in Calls |-> IF d = c THEN "done" ELSE phase[d]], route' = route
  PROVE  WaitingIsQueued'
<1>1. ASSUME NEW d \in Calls, phase'[d] = "waiting"
      PROVE  route[d] \in Sessions /\ InQueue(d, queue'[route[d]])
  <2>1. phase[d] = "waiting" /\ d # c
    BY <1>1
  <2>2. route[d] \in Sessions /\ InQueue(d, queue[route[d]])
    BY <2>1 DEF WaitingIsQueued
  <2>3. CASE route[d] = s
    <3>1. queue[s] \in Seq(Calls) /\ Head(queue[s]) # d /\ queue'[s] = Tail(queue[s])
      BY <2>1 DEF QueueOK, Turn
    <3> QED  BY <2>2, <2>3, <3>1, InTail
  <2>4. CASE route[d] # s
    BY <2>2, <2>4 DEF QueueOK
  <2> QED  BY <2>2, <2>3, <2>4
<1>2. ASSUME NEW d \in Calls, phase'[d] = "waiting"
      PROVE  route'[d] \in Sessions /\ InQueue(d, queue'[route'[d]])
  BY <1>1, <1>2
<1> QED  BY <1>2 DEF WaitingIsQueued, InQueue

LEMMA RunningEndsQueued ==
  ASSUME QueueOK, WaitingIsQueued, NEW c \in Calls, phase[c] = "running",
         queue' = Leave(route[c], {c}), Done({c}), route' = route
  PROVE  WaitingIsQueued'
<1>1. route[c] \in Sessions /\ Turn(route[c], c)
  BY DEF QueueOK
<1>2. queue' = [queue EXCEPT ![route[c]] = Tail(@)]
      /\ phase' = [d \in Calls |-> IF d = c THEN "done" ELSE phase[d]]
  BY DEF Leave, Done
<1> QED  BY <1>1, <1>2, TurnEndsQueued

LEMMA NextWaitingIsQueued ==
  ASSUME GatewayInv, WaitingIsQueued, [Next]_vars
  PROVE  WaitingIsQueued'
<1>0. QueueOK /\ LinkOK
  BY DEF GatewayInv
<1>1. ASSUME UNCHANGED <<queue, phase, route>> PROVE WaitingIsQueued'
  BY <1>1 DEF WaitingIsQueued, InQueue
<1>2. CASE \/ Connect \/ Disconnect \/ RetryFires \/ HandleClose \/ CheckHeartbeatLiveness
           \/ UNCHANGED vars
  BY <1>1, <1>2 DEF Connect, Disconnect, RetryFires, HandleClose, CheckHeartbeatLiveness,
                    calls, vars
<1>3. ASSUME NEW s \in Sessions, Drop(s) \/ Register(s) \/ CompletePairing(s) \/ Expire(s)
      PROVE  WaitingIsQueued'
  BY <1>1, <1>3 DEF Drop, Register, CompletePairing, Expire, calls
<1>4. ASSUME NEW a \in Approvals,
             \/ ApprovalLapses(a) \/ RevokeInvocationGrant(a)
             \/ \E d \in {"approved", "refused"} : ResolveApproval(a, d)
             \/ \E s \in Sessions : \E i : AuthorizeToolInvocation(a, s, i)
      PROVE  WaitingIsQueued'
  BY <1>1, <1>4 DEF ApprovalLapses, RevokeInvocationGrant, ResolveApproval,
                    AuthorizeToolInvocation, calls
<1>5. ASSUME NEW c \in Calls,
             \/ HandleToolRequest(c) \/ ExecutionEnds(c)
             \/ \E s \in Sessions : RequestApproval(c, s)
      PROVE  WaitingIsQueued'
  BY <1>1, <1>5 DEF HandleToolRequest, ExecutionEnds, RequestApproval, calls
<1>6. ASSUME NEW c \in Calls, NEW s \in Sessions, NEW a, Enqueue(c, s, a)
      PROVE  WaitingIsQueued'
  <2>1. /\ queue'[s] = Append(queue[s], c) /\ \A t \in Sessions : t # s => queue'[t] = queue[t]
        /\ phase'[c] = "waiting" /\ route'[c] = s
        /\ \A d \in Calls : d # c => phase'[d] = phase[d] /\ route'[d] = route[d]
    BY <1>0, <1>6 DEF Enqueue, QueueOK
  <2>2. \A t \in Sessions : queue[t] \in Seq(Calls)
    BY <1>0 DEF QueueOK
  <2>3. ASSUME NEW d \in Calls, phase'[d] = "waiting"
        PROVE  route'[d] \in Sessions /\ InQueue(d, queue'[route'[d]])
    <3>1. CASE d = c
      BY <2>1, <2>2, <3>1, InAppend
    <3>2. CASE d # c
      <4>1. route[d] \in Sessions /\ InQueue(d, queue[route[d]]) /\ route'[d] = route[d]
        BY <2>1, <2>3, <3>2 DEF WaitingIsQueued
      <4>2. CASE route[d] = s
        BY <2>1, <2>2, <4>1, <4>2, InAppend
      <4>3. CASE route[d] # s
        BY <2>1, <4>1, <4>3
      <4> QED  BY <4>2, <4>3
    <3> QED  BY <3>1, <3>2
  <2> QED  BY <2>3 DEF WaitingIsQueued, InQueue
<1>7. ASSUME NEW c \in Calls, NEW s \in Sessions,
             RouteRead(c, s) \/ \E a \in Approvals : RouteApproved(c, s, a) \/ RouteGranted(c, s, a)
      PROVE  WaitingIsQueued'
  BY <1>6, <1>7 DEF RouteRead, RouteApproved, RouteGranted
<1>8. ASSUME NEW c \in Calls, NEW s \in Sessions, Dispatch(s, c) PROVE WaitingIsQueued'
  <2>1. Turn(s, c) /\ route' = route
    BY <1>8 DEF Dispatch
  <2>2. CASE s \in live /\ s \in open
    <3>1. queue' = queue /\ phase' = [phase EXCEPT ![c] = "running"]
      BY <1>8, <2>2 DEF Dispatch
    <3>2. \A d \in Calls : phase'[d] = "waiting" => phase[d] = "waiting"
      BY <1>0, <3>1 DEF QueueOK
    <3> QED  BY <2>1, <3>1, <3>2 DEF WaitingIsQueued, InQueue
  <2>3. CASE ~ (s \in live /\ s \in open)
    <3>1. queue' = [queue EXCEPT ![s] = Tail(@)]
          /\ phase' = [d \in Calls |-> IF d = c THEN "done" ELSE phase[d]]
      BY <1>8, <2>3 DEF Dispatch, Unavailable, Done, Leave
    <3> QED  BY <1>0, <2>1, <3>1, TurnEndsQueued
  <2> QED  BY <2>2, <2>3
<1>9. ASSUME NEW c \in Calls, HandleResponse(c) PROVE WaitingIsQueued'
  <2>1. CASE c \in pending /\ phase[c] = "running"
    BY <1>0, <1>9, <2>1, RunningEndsQueued DEF HandleResponse
  <2>2. CASE ~ (c \in pending /\ phase[c] = "running")
    BY <1>1, <1>9, <2>2 DEF HandleResponse
  <2> QED  BY <2>1, <2>2
<1>10. ASSUME NEW c \in Calls, TimeOut(c) PROVE WaitingIsQueued'
  BY <1>0, <1>10, RunningEndsQueued DEF TimeOut
<1>11. ASSUME NEW s \in Sessions, SocketClosed(s) PROVE WaitingIsQueued'
  <2> DEFINE failed == {c \in {d \in pending : route[d] = s} : phase[c] = "running"}
  <2>1. queue' = Leave(s, failed) /\ Done(failed) /\ route' = route
    BY <1>11 DEF SocketClosed
  <2>2. CASE failed = {}
    <3>1. queue' = queue /\ phase' = [c \in Calls |-> phase[c]]
      BY <2>1, <2>2 DEF Leave, Done
    <3>2. phase' = phase
      BY <1>0, <3>1 DEF QueueOK
    <3> QED  BY <1>1, <2>1, <3>1, <3>2
  <2>3. CASE failed # {}
    <3>1. PICK c \in failed : TRUE
      BY <2>3
    <3>2. c \in Calls /\ phase[c] = "running" /\ route[c] = s
      BY <1>0, <3>1 DEF LinkOK
    <3>3. \A d \in failed : d = c
      BY <1>0, <3>2, OneRuns DEF LinkOK
    <3>4. failed = {c}
      BY <3>1, <3>3
    <3> HIDE DEF failed
    <3>5. queue' = Leave(route[c], {c}) /\ Done({c})
      BY <2>1, <3>2, <3>4
    <3> QED  BY <1>0, <2>1, <3>2, <3>5, RunningEndsQueued
  <2> QED  BY <2>2, <2>3
<1> QED
  BY <1>2, <1>3, <1>4, <1>5, <1>7, <1>8, <1>9, <1>10, <1>11 DEF Next

\* No call is lost in a queue and no queue is stuck: whatever waits stands in the
\* queue of its own session, and the first of every queue either waits for its turn
\* or runs on a session that is still connected, with its request in the table, so
\* that its answer, its deadline or the end of its socket takes it out
\* (dispatchQueue.run, dispatchWithDeadline, disconnectCurrentSession).
THEOREM QueuesAreServed == Spec => [](WaitingIsQueued /\ FirstMayLeave)
<1>1. Init => GatewayInv /\ WaitingIsQueued
  BY InitGatewayInv DEF Init, WaitingIsQueued
<1>2. GatewayInv /\ WaitingIsQueued /\ [Next]_vars => (GatewayInv /\ WaitingIsQueued)'
  BY NextGatewayInv, NextWaitingIsQueued
<1>3. ASSUME GatewayInv PROVE FirstMayLeave
  <2>1. QueueOK /\ LinkOK
    BY <1>3 DEF GatewayInv
  <2>2. ASSUME NEW s \in Sessions, queue[s] # << >>
        PROVE  LET c == Head(queue[s]) IN
               /\ c \in Calls /\ route[c] = s
               /\ phase[c] = "waiting" \/ (phase[c] = "running" /\ c \in pending /\ s \in live)
    <3> DEFINE c == Head(queue[s])
    <3>1. queue[s] \in Seq(Calls)
      BY <2>1 DEF QueueOK
    <3>2. c = queue[s][1] /\ c \in Calls /\ 1 \in 1..Len(queue[s])
      BY <2>2, <3>1, TailFacts
    <3>3. route[c] = s /\ phase[c] \in {"waiting", "running"}
      BY <2>1, <3>2 DEF QueueOK
    <3> HIDE DEF c
    <3>4. phase[c] = "running" => c \in pending /\ s \in live
      BY <2>1, <3>2, <3>3 DEF LinkOK
    <3> QED  BY <3>2, <3>3, <3>4 DEF c
  <2> QED  BY <2>2 DEF FirstMayLeave
<1> QED  BY <1>1, <1>2, <1>3, PTL DEF Spec

=============================================================================
