--------------------------- MODULE LocalRelayProofs ---------------------------
(***************************************************************************)
(* Proofs about LocalRelay, for any number of followers, calls and         *)
(* messages on their way.                                                  *)
(*                                                                         *)
(* FollowersSeeOwner is about followers that have been told.  What is true *)
(* of all of them is Told: the last state on its way to a client, or else  *)
(* the one it shows, is the owner's, unless it missed the last one.  That  *)
(* needs to know what a follower that attaches is sent first (Attaching),  *)
(* and that an owner that is gone has no clients.                          *)
(***************************************************************************)
EXTENDS LocalRelay, SequenceTheorems, TLAPS

\* after the messages d, a follower that showed v shows s
Shows(d, v, s) ==
  \/ (\A i \in 1..Len(d) : d[i].type = "response") /\ v = s
  \/ \E i \in 1..Len(d) : /\ d[i].type # "response" /\ d[i].state = s
                          /\ \A j \in 1..Len(d) : j > i => d[j].type = "response"

NoStatus(d) == \A i \in 1..Len(d) : d[i].type = "response"

Told == \A f \in clients :
  \/ Shows(down[f], view[f], Snapshot)
  \/ relay[f] = "attached" /\ f \in missed /\ NoStatus(down[f])

Attaching ==
  /\ owner = "none" => clients = {}
  /\ \A f \in orphans : net[f] \in {"open", "up"}
  /\ \A f \in Followers :
       /\ net[f] \in {"none", "open"} => down[f] = << >>
       /\ relay[f] = "attaching" /\ net[f] = "up" => down[f] # << >>
       /\ relay[f] = "attaching" /\ down[f] # << >> => Head(down[f]).type = "attached"

RelayInv == TypeOK /\ Attaching /\ Told

-----------------------------------------------------------------------------
(***************************************************************************)
(* Messages.                                                               *)
(***************************************************************************)

LEMMA Messages ==
  /\ \A s \in OwnerStates : Status(s) \in Message /\ Status(s).type = "status"
                            /\ Status(s).state = s
  /\ \A s \in OwnerStates : [type |-> "attached", state |-> s] \in Message
  /\ \A c \in Calls : [type |-> "response", call |-> c] \in Message
  /\ \A m \in Message : m.type # "response" => m.state \in OwnerStates
  /\ \A m \in Message : m.type = "response" => m.call \in Calls
BY DEF Status, Message, OwnerStates

LEMMA SnapshotType == TypeOK /\ owner # "none" => Snapshot \in OwnerStates
BY DEF TypeOK, Snapshot, OwnerStates

\* The last message decides, if it is not a response.
LEMMA ShowsAppended ==
  ASSUME NEW d \in Seq(Message), NEW m \in Message, NEW v, m.type # "response"
  PROVE  Shows(Append(d, m), v, m.state)
<1> DEFINE e == Append(d, m)
<1>1. Len(e) = Len(d) + 1 /\ Len(d) \in Nat /\ e[Len(d) + 1] = m
  BY AppendProperties
<1> HIDE DEF e
<1>2. Len(e) \in 1..Len(e) /\ e[Len(e)] = m /\ \A j \in 1..Len(e) : ~ (j > Len(e))
  BY <1>1
<1>3. Shows(e, v, m.state)
  BY <1>2 DEF Shows
<1> QED BY <1>3 DEF e

\* A response changes nothing.
LEMMA ShowsAfterResponse ==
  ASSUME NEW d \in Seq(Message), NEW m \in Message, NEW v, NEW s, m.type = "response"
  PROVE  /\ Shows(d, v, s) => Shows(Append(d, m), v, s)
         /\ NoStatus(d) => NoStatus(Append(d, m))
<1> DEFINE e == Append(d, m)
<1>1. /\ Len(e) = Len(d) + 1 /\ Len(d) \in Nat /\ e[Len(d) + 1] = m
      /\ \A i \in 1..Len(d) : e[i] = d[i]
  BY AppendProperties
<1> HIDE DEF e
<1>2. \A i \in 1..Len(e) : (i \in 1..Len(d) /\ e[i] = d[i]) \/ e[i].type = "response"
  BY <1>1
<1>3. \A i \in 1..Len(d) : i \in 1..Len(e) /\ e[i] = d[i]
  BY <1>1
<1>4. NoStatus(d) => NoStatus(e)
  BY <1>2 DEF NoStatus
<1>5. Shows(d, v, s) => Shows(e, v, s)
  BY <1>2, <1>3 DEF Shows
<1> QED BY <1>4, <1>5 DEF e

\* What is received is either shown or replaced by what follows.
LEMMA ShowsReceived ==
  ASSUME NEW d \in Seq(Message), NEW v, NEW s, NEW n \in 1..Len(d),
         Shows(d, v, s), NEW e \in Seq(Message), e = SubSeq(d, n + 1, Len(d))
  PROVE  /\ NoStatus(e) \/ \A w : Shows(e, w, s)
         /\ (n = 1 /\ d[1].type # "response") => Shows(e, d[1].state, s)
         /\ (n = 1 /\ d[1].type = "response") => Shows(e, v, s)
<1>1. Len(d) \in Nat /\ Len(e) = Len(d) - n /\ \A i \in 1..Len(e) : e[i] = d[i + n]
  BY SubSeqProperties
<1>2. \A i \in 1..Len(e) : i + n \in 1..Len(d) /\ e[i] = d[i + n]
  BY <1>1
<1>3. \A j \in 1..Len(d) : j > n => j - n \in 1..Len(e) /\ e[j - n] = d[j]
  BY <1>1
<1>4. CASE (\A i \in 1..Len(d) : d[i].type = "response") /\ v = s
  <2>1. NoStatus(e) /\ Shows(e, v, s) /\ d[1].type = "response"
    BY <1>2, <1>4, <1>1 DEF NoStatus, Shows
  <2> QED BY <2>1
<1>5. ASSUME NEW i \in 1..Len(d), d[i].type # "response", d[i].state = s,
             \A j \in 1..Len(d) : j > i => d[j].type = "response"
      PROVE  /\ NoStatus(e) \/ \A w : Shows(e, w, s)
             /\ (n = 1 /\ d[1].type # "response") => Shows(e, d[1].state, s)
             /\ (n = 1 /\ d[1].type = "response") => Shows(e, v, s)
  <2>1. CASE i > n
    <3>1. i - n \in 1..Len(e) /\ e[i - n] = d[i]
      BY <1>3, <2>1
    <3>2. \A j \in 1..Len(e) : j > i - n => e[j].type = "response"
      BY <1>2, <1>5, <1>1
    <3>3. \A w : Shows(e, w, s)
      BY <1>5, <3>1, <3>2 DEF Shows
    <3> QED BY <3>3
  <2>2. CASE i <= n
    <3>1. \A j \in 1..Len(e) : e[j].type = "response"
      BY <1>2, <1>5, <1>1, <2>2
    <3>2. n = 1 => i = 1
      BY <2>2
    <3> QED BY <1>5, <3>1, <3>2 DEF NoStatus, Shows
  <2> QED BY <2>1, <2>2, <1>1
<1> QED BY <1>4, <1>5 DEF Shows

\* What Shows says is what LastStatus is.
LEMMA ShowsLast ==
  ASSUME NEW f \in Followers, NEW s, Shows(down[f], view[f], s)
  PROVE  LastStatus(f) = s
<1>1. CASE (\A i \in 1..Len(down[f]) : down[f][i].type = "response") /\ view[f] = s
  <2>1. Statuses(f) = {}
    BY <1>1 DEF Statuses
  <2> QED BY <1>1, <2>1 DEF LastStatus
<1>2. ASSUME NEW i \in 1..Len(down[f]), down[f][i].type # "response", down[f][i].state = s,
             \A j \in 1..Len(down[f]) : j > i => down[f][j].type = "response"
      PROVE  LastStatus(f) = s
  <2>1. i \in Statuses(f) /\ \A j \in Statuses(f) : j <= i
    BY <1>2 DEF Statuses
  <2>2. \A k \in Statuses(f) : (\A j \in Statuses(f) : j <= k) => k = i
    BY <2>1 DEF Statuses
  <2>3. (CHOOSE k \in Statuses(f) : \A j \in Statuses(f) : j <= k) = i
    BY <2>1, <2>2
  <2> QED BY <1>2, <2>1, <2>3 DEF LastStatus
<1> QED BY <1>1, <1>2 DEF Shows

-----------------------------------------------------------------------------
(***************************************************************************)
(* The steps.                                                              *)
(***************************************************************************)

LEMMA InitRelayInv == Init => RelayInv
<1> SUFFICES ASSUME Init PROVE RelayInv OBVIOUS
<1>1. \A f \in Followers : down[f] = << >> /\ net[f] = "none" /\ relay[f] = "none"
  BY DEF Init
<1>2. down \in [Followers -> Seq(Message)]
  BY DEF Init
<1>3. TypeOK
  BY <1>1, <1>2 DEF Init, TypeOK, OwnerStates
<1>4. Attaching /\ Told
  BY <1>1 DEF Init, Attaching, Told
<1> QED BY <1>3, <1>4 DEF RelayInv

\* What is sent to a client does not become the first message it reads.
LEMMA Appending ==
  ASSUME NEW d \in Seq(Message), NEW m \in Message
  PROVE  /\ Append(d, m) \in Seq(Message) /\ Append(d, m) # << >>
         /\ d # << >> => Head(Append(d, m)) = Head(d)
         /\ d = << >> => Head(Append(d, m)) = m
<1>1. Append(d, m) \in Seq(Message) /\ Append(d, m) # << >>
  BY AppendProperties
<1>2. Append(d, m)[1] = IF d = << >> THEN m ELSE d[1]
  BY AppendProperties
<1> QED BY <1>1, <1>2, HeadTailProperties

\* A change of the owner's state that all clients are sent.
LEMMA BroadcastKeeps ==
  ASSUME RelayInv, NEW s \in OwnerStates, owner # "none",
         owner' \in {"starting", "connecting", "connected"}, Snapshot' = s,
         down' = Broadcast(s),
         UNCHANGED <<clients, serving, orphans, net, relay, view, phase, missed>>
  PROVE  RelayInv'
<1> USE DEF RelayInv
<1> DEFINE m == Status(s)
<1>1. m \in Message /\ m.type # "response" /\ m.state = s
  BY Messages
<1> HIDE DEF m
<1>2. \A f \in Followers :
        down'[f] = IF f \in clients THEN Append(down[f], m) ELSE down[f]
  BY DEF Broadcast, m
<1>3. \A f \in Followers : down[f] \in Seq(Message)
  BY DEF TypeOK
<1>4. down' \in [Followers -> Seq(Message)]
  BY <1>1, <1>3, Appending DEF Broadcast, m
<1>5. TypeOK'
  BY <1>4 DEF TypeOK
<1>6. ASSUME NEW f \in clients PROVE Shows(down'[f], view'[f], Snapshot')
  <2>1. f \in Followers
    BY <1>6 DEF TypeOK
  <2>2. down[f] \in Seq(Message) /\ down'[f] = Append(down[f], m)
    BY <1>2, <1>3, <1>6, <2>1
  <2>3. Shows(Append(down[f], m), view'[f], m.state)
    BY <1>1, <2>2, ShowsAppended
  <2> QED BY <1>1, <2>2, <2>3
<1>7. Told'
  BY <1>6 DEF Told
<1>8. ASSUME NEW f \in Followers
      PROVE  /\ net[f] \in {"none", "open"} => down'[f] = << >>
             /\ relay[f] = "attaching" /\ net[f] = "up" => down'[f] # << >>
             /\ relay[f] = "attaching" /\ down'[f] # << >> => Head(down'[f]).type = "attached"
  <2>1. CASE f \notin clients
    BY <1>2, <2>1 DEF Attaching
  <2>2. CASE f \in clients
    <3>1. net[f] = "up" /\ down'[f] = Append(down[f], m)
      BY <1>2, <2>2 DEF TypeOK
    <3> QED BY <1>1, <1>3, <3>1, Appending DEF Attaching
  <2> QED BY <2>1, <2>2
<1>9. Attaching'
  BY <1>8 DEF Attaching
<1> QED BY <1>5, <1>7, <1>9

\* The relay closes.
LEMMA CloseKeeps ==
  ASSUME RelayInv, NEW gone \in SUBSET Followers, NEW messages, Close(gone, messages),
         clients \subseteq gone, \A f \in gone : net[f] # "none",
         orphans' \subseteq Followers,
         \A f \in Followers : f \in orphans' => net[f] \in {"open", "up"} /\ f \notin gone,
         \A f \in Followers : net[f] = "up" /\ f \notin gone => f \in orphans',
         messages \in [Followers -> Seq(Message)],
         \A f \in Followers : f \notin clients => messages[f] = down[f],
         \A f \in clients : \/ messages[f] \in {<< >>, down[f]}
                            \/ \E m \in Message : messages[f] = Append(down[f], m)
  PROVE  RelayInv'
<1> USE DEF RelayInv
<1>1. /\ owner' = "none" /\ clients' = {} /\ serving' \subseteq serving
      /\ net' = [f \in Followers |-> IF f \in gone THEN "closing" ELSE net[f]]
      /\ down' = messages /\ UNCHANGED <<relay, view, phase, missed>>
  BY DEF Close
<1>2. \A f \in Followers : net'[f] = IF f \in gone THEN "closing" ELSE net[f]
  BY <1>1
<1>3. Told'
  BY <1>1 DEF Told
<1>4. /\ net' \in [Followers -> {"none", "open", "up", "closing"}]
      /\ owner' \in {"none", "starting", "connecting", "connected"}
      /\ clients' \subseteq Followers /\ serving' \subseteq Calls /\ orphans' \subseteq Followers
      /\ down' \in [Followers -> Seq(Message)]
  BY <1>1 DEF TypeOK
<1>5. ASSUME NEW f \in Followers
      PROVE  /\ f \in clients' <=> net'[f] = "up" /\ f \notin orphans'
             /\ relay'[f] = "none" <=> net'[f] = "none"
             /\ relay'[f] = "attached" => net'[f] \in {"up", "closing"}
  BY <1>1, <1>2 DEF TypeOK
<1>6. TypeOK'
  BY <1>1, <1>4, <1>5 DEF TypeOK
<1>7. ASSUME NEW f \in Followers
      PROVE  /\ net'[f] \in {"none", "open"} => down'[f] = << >>
             /\ relay'[f] = "attaching" /\ net'[f] = "up" => down'[f] # << >>
             /\ relay'[f] = "attaching" /\ down'[f] # << >> => Head(down'[f]).type = "attached"
  <2>1. CASE f \notin clients
    BY <1>1, <1>2, <2>1 DEF Attaching
  <2>2. CASE f \in clients
    <3>1. net[f] = "up" /\ net'[f] = "closing" /\ down[f] \in Seq(Message)
      BY <1>2, <2>2 DEF TypeOK
    <3>2. relay[f] = "attaching" => down[f] # << >> /\ Head(down[f]).type = "attached"
      BY <3>1 DEF Attaching
    <3> QED BY <1>1, <2>2, <3>1, <3>2, Appending
  <2> QED BY <2>1, <2>2
<1>8. Attaching'
  BY <1>1, <1>2, <1>7 DEF Attaching
<1> QED BY <1>3, <1>6, <1>8

\* A step that concerns follower f alone: it does what is to be shown of it to f,
\* and nothing to the others.
LEMMA OneFollower ==
  ASSUME RelayInv, NEW f \in Followers, TypeOK', owner' = owner,
         \A g \in Followers \ {f} :
           /\ down'[g] = down[g] /\ view'[g] = view[g] /\ relay'[g] = relay[g]
           /\ net'[g] = net[g] /\ (g \in missed' <=> g \in missed)
           /\ (g \in clients' <=> g \in clients) /\ (g \in orphans' <=> g \in orphans),
         f \in clients' => owner # "none"
                           /\ \/ Shows(down'[f], view'[f], Snapshot)
                              \/ relay'[f] = "attached" /\ f \in missed' /\ NoStatus(down'[f]),
         f \in orphans' => net'[f] \in {"open", "up"},
         net'[f] \in {"none", "open"} => down'[f] = << >>,
         relay'[f] = "attaching" /\ net'[f] = "up" => down'[f] # << >>,
         relay'[f] = "attaching" /\ down'[f] # << >> => Head(down'[f]).type = "attached"
  PROVE  RelayInv'
<1>1. Snapshot' = Snapshot /\ clients' \subseteq Followers /\ orphans' \subseteq Followers
  BY DEF Snapshot, TypeOK
<1>2. ASSUME NEW g \in clients'
      PROVE  \/ Shows(down'[g], view'[g], Snapshot')
             \/ relay'[g] = "attached" /\ g \in missed' /\ NoStatus(down'[g])
  BY <1>1, <1>2 DEF RelayInv, Told
<1>3. Told'
  BY <1>2 DEF Told
<1>4. owner' = "none" => clients' = {}
  BY <1>1 DEF RelayInv, Attaching
<1>5. \A g \in orphans' : net'[g] \in {"open", "up"}
  BY <1>1 DEF RelayInv, Attaching
<1>6. ASSUME NEW g \in Followers
      PROVE  /\ net'[g] \in {"none", "open"} => down'[g] = << >>
             /\ relay'[g] = "attaching" /\ net'[g] = "up" => down'[g] # << >>
             /\ relay'[g] = "attaching" /\ down'[g] # << >> => Head(down'[g]).type = "attached"
  BY DEF RelayInv, Attaching
<1>7. Attaching'
  BY <1>4, <1>5, <1>6 DEF Attaching
<1> QED BY <1>3, <1>7 DEF RelayInv

LEMMA LeaveKeeps ==
  ASSUME RelayInv, NEW f \in Followers, NEW failed, NEW s \in OwnerStates, Leave(f, failed, s)
  PROVE  RelayInv'
<1> USE DEF RelayInv
<1>1. /\ \A g \in Followers \ {f} :
           /\ down'[g] = down[g] /\ view'[g] = view[g] /\ relay'[g] = relay[g]
           /\ net'[g] = net[g] /\ (g \in missed' <=> g \in missed)
           /\ (g \in clients' <=> g \in clients) /\ (g \in orphans' <=> g \in orphans)
      /\ f \notin clients' /\ f \notin orphans'
      /\ down'[f] = << >> /\ relay'[f] = "none" /\ net'[f] = "none"
      /\ owner' = owner /\ serving' = serving
      /\ clients' \subseteq Followers /\ orphans' \subseteq Followers /\ missed' \subseteq Followers
  BY DEF Leave, TypeOK
<1>2. phase' \in [Calls -> {"new", "pending", "done"}]
  BY DEF Leave, Settled, TypeOK
<1>3. << >> \in Seq(Message)
  OBVIOUS
<1>4. /\ down' \in [Followers -> Seq(Message)] /\ view' \in [Followers -> OwnerStates]
      /\ relay' \in [Followers -> {"none", "attaching", "attached"}]
      /\ net' \in [Followers -> {"none", "open", "up", "closing"}]
  BY <1>3 DEF Leave, TypeOK
<1>5. TypeOK'
  BY <1>1, <1>2, <1>4 DEF TypeOK
<1> QED BY <1>1, <1>5, OneFollower

LEMMA NextRelayInv == ASSUME RelayInv, [Next]_vars PROVE RelayInv'
<1> USE DEF RelayInv
<1>a. \A f \in Followers : down[f] \in Seq(Message)
  BY DEF TypeOK
<1>1. CASE StartFollowerRelay
  BY <1>1 DEF StartFollowerRelay, TypeOK, Attaching, Told, link
<1>2. CASE Listen
  <2>1. owner # "none" /\ owner' = "connecting" /\ Snapshot' = "connecting"
    BY <1>2 DEF Listen, Snapshot
  <2> QED BY <1>2, <2>1, BroadcastKeeps DEF Listen, OwnerStates
<1>3. CASE SessionStarts
  <2>1. owner # "none" /\ owner' = "connected" /\ Snapshot' = "connected"
    BY <1>3 DEF SessionStarts, Snapshot
  <2> QED BY <1>3, <2>1, BroadcastKeeps DEF SessionStarts, OwnerStates
<1>4. CASE SessionEnds
  <2>1. owner # "none" /\ owner' = "connecting" /\ Snapshot' = "connecting"
    BY <1>4 DEF SessionEnds, Snapshot
  <2> QED BY <1>4, <2>1, BroadcastKeeps DEF SessionEnds, OwnerStates
<1>5. CASE Heartbeat
  <2>1. owner # "none" /\ owner' = "connected" /\ Snapshot' = "connected"
    BY <1>5 DEF Heartbeat, Snapshot
  <2> QED BY <1>5, <2>1, BroadcastKeeps DEF Heartbeat, OwnerStates
<1>6. CASE ListenFails
  <2>1. Close(clients, down) /\ orphans' = orphans \cup (Connected \ clients)
    BY <1>6 DEF ListenFails
  <2>2. \A f \in clients : net[f] = "up" /\ f \notin orphans
    BY DEF TypeOK
  <2>3. \A f \in Followers : f \in orphans' => net[f] \in {"open", "up"} /\ f \notin clients
    BY <2>1, <2>2 DEF Connected, Attaching
  <2>4. \A f \in Followers : net[f] = "up" /\ f \notin clients => f \in orphans'
    BY <2>1 DEF TypeOK
  <2>5. orphans' \subseteq Followers /\ clients \in SUBSET Followers
        /\ down \in [Followers -> Seq(Message)]
    BY <2>1 DEF TypeOK, Connected
  <2> QED BY <2>1, <2>2, <2>3, <2>4, <2>5, CloseKeeps
<1>7. /\ Connected \in SUBSET Followers /\ clients \subseteq Connected
      /\ \A f \in Connected : net[f] # "none"
      /\ \A f \in Followers : net[f] = "up" /\ f \notin Connected => f \in orphans
      /\ \A f \in orphans : net[f] \in {"open", "up"} /\ f \notin Connected
  BY DEF Connected, TypeOK, Attaching
<1>8. CASE Shutdown
  <2> DEFINE m == Status("disconnected")
  <2>1. Close(Connected, Broadcast("disconnected")) /\ orphans' = orphans
    BY <1>8 DEF Shutdown
  <2>2. m \in Message
    BY Messages DEF OwnerStates
  <2>3. Broadcast("disconnected") =
          [f \in Followers |-> IF f \in clients THEN Append(down[f], m) ELSE down[f]]
    BY DEF Broadcast
  <2> DEFINE B == Broadcast("disconnected")
  <2> HIDE DEF m
  <2>4. /\ \A f \in Followers : f \notin clients => B[f] = down[f]
        /\ \A f \in clients : B[f] = Append(down[f], m)
    BY <2>3 DEF TypeOK
  <2>5. B \in [Followers -> Seq(Message)]
    BY <1>a, <2>2, <2>3, Appending
  <2> HIDE DEF B
  <2>6. Close(Connected, B)
    BY <2>1 DEF B
  <2>7. orphans' \subseteq Followers
    BY <2>1 DEF TypeOK
  <2>8. \A f \in clients : \E n \in Message : B[f] = Append(down[f], n)
    BY <2>2, <2>4
  <2> QED BY <1>7, <2>1, <2>4, <2>5, <2>6, <2>7, <2>8, CloseKeeps
<1>9. CASE Crash
  <2>1. PICK lost \in SUBSET clients :
          Close(Connected, [f \in Followers |-> IF f \in lost THEN << >> ELSE down[f]])
    BY <1>9 DEF Crash
  <2> DEFINE B == [f \in Followers |-> IF f \in lost THEN << >> ELSE down[f]]
  <2>2. \A f \in Followers : B[f] = IF f \in lost THEN << >> ELSE down[f]
    OBVIOUS
  <2>3. B \in [Followers -> Seq(Message)]
    BY <1>a
  <2>4. Close(Connected, B) /\ orphans' = orphans
    BY <1>9, <2>1 DEF Crash
  <2> HIDE DEF B
  <2>5. /\ \A f \in clients : B[f] \in {<< >>, down[f]}
        /\ \A f \in Followers : f \notin clients => B[f] = down[f]
    BY <2>2 DEF TypeOK
  <2>6. orphans' \subseteq Followers
    BY <2>4 DEF TypeOK
  <2> QED BY <1>7, <2>3, <2>4, <2>5, <2>6, CloseKeeps
<1>10. ASSUME NEW f \in Followers, AttachAccepted(f) PROVE RelayInv'
  <2> DEFINE m == [type |-> "attached", state |-> IF f \in orphans THEN "error" ELSE Snapshot]
  <2>1. /\ net[f] = "open" /\ (owner # "none" \/ f \in orphans)
        /\ net' = [net EXCEPT ![f] = "up"]
        /\ clients' = IF f \in orphans THEN clients ELSE clients \cup {f}
        /\ down' = [down EXCEPT ![f] = Append(@, m)]
        /\ UNCHANGED <<owner, serving, orphans, relay, view, phase, missed>>
    BY <1>10 DEF AttachAccepted
  <2>2. (IF f \in orphans THEN "error" ELSE Snapshot) \in OwnerStates
    BY <2>1, SnapshotType DEF OwnerStates
  <2>3. m \in Message /\ m.type = "attached" /\ (f \notin orphans => m.state = Snapshot)
    BY <2>2 DEF Message
  <2> HIDE DEF m
  <2>4. down[f] = << >> /\ relay[f] = "attaching" /\ f \notin clients
    BY <2>1 DEF Attaching, TypeOK
  <2>5. down'[f] = Append(down[f], m) /\ down'[f] \in Seq(Message) /\ down'[f] # << >>
        /\ Head(down'[f]) = m
    BY <1>a, <2>1, <2>3, <2>4, Appending DEF TypeOK
  <2>6. f \notin orphans => Shows(down'[f], view[f], Snapshot)
    BY <1>a, <2>3, <2>5, ShowsAppended
  <2>7. down' \in [Followers -> Seq(Message)]
    BY <2>1, <2>5 DEF TypeOK
  <2>8. TypeOK'
    BY <2>1, <2>4, <2>7 DEF TypeOK
  <2>9. net'[f] = "up" /\ (f \in clients' => f \notin orphans)
        /\ \A g \in Followers \ {f} : down'[g] = down[g] /\ net'[g] = net[g]
                                      /\ (g \in clients' <=> g \in clients)
    BY <2>1, <2>4 DEF TypeOK
  <2> QED BY <2>1, <2>3, <2>4, <2>5, <2>6, <2>8, <2>9, OneFollower
<1>11. ASSUME NEW f \in Followers, AttachRefused(f) \/ OrphanCloses(f) PROVE RelayInv'
  <2>1. /\ net[f] \in {"open", "up"} /\ f \notin clients
        /\ net' = [net EXCEPT ![f] = "closing"] /\ orphans' = orphans \ {f}
        /\ serving' \subseteq serving
        /\ UNCHANGED <<owner, clients, down, relay, view, phase, missed>>
    BY <1>11 DEF AttachRefused, OrphanCloses, TypeOK, Attaching
  <2>2. net'[f] = "closing" /\ \A g \in Followers \ {f} : net'[g] = net[g]
    BY <2>1 DEF TypeOK
  <2>3. TypeOK'
    BY <2>1, <2>2 DEF TypeOK
  <2>4. relay[f] = "attaching" /\ down[f] # << >> => Head(down[f]).type = "attached"
    BY DEF Attaching
  <2> QED BY <2>1, <2>2, <2>3, <2>4, OneFollower
<1>12. ASSUME NEW c \in Calls, CallAnswered(c) PROVE RelayInv'
  <2> DEFINE f == CallerOf[c]
             m == [type |-> "response", call |-> c]
  <2>1. /\ serving' \subseteq serving
        /\ down' = [down EXCEPT ![f] = IF net[f] = "up" THEN Append(@, m) ELSE @]
        /\ UNCHANGED <<owner, clients, orphans, net, relay, view, phase, missed>>
    BY <1>12 DEF CallAnswered
  <2>2. m \in Message /\ m.type = "response"
    BY Messages
  <2>3. f \in Followers
    BY RelayAssumption
  <2> HIDE DEF f, m
  <2>4. down'[f] = IF net[f] = "up" THEN Append(down[f], m) ELSE down[f]
    BY <2>1, <2>3 DEF TypeOK
  <2>5. /\ down'[f] \in Seq(Message)
        /\ \A g \in Followers \ {f} : down'[g] = down[g]
    BY <1>a, <2>1, <2>2, <2>3, <2>4, Appending DEF TypeOK
  <2>6. down' \in [Followers -> Seq(Message)]
    BY <2>1, <2>5 DEF TypeOK
  <2>7. TypeOK'
    BY <2>1, <2>6 DEF TypeOK
  <2>8. f \in clients =>
          /\ owner # "none"
          /\ \/ Shows(down'[f], view[f], Snapshot)
             \/ relay[f] = "attached" /\ f \in missed /\ NoStatus(down'[f])
    BY <1>a, <2>2, <2>3, <2>4, ShowsAfterResponse DEF Told, Attaching
  <2>9. /\ net[f] \in {"none", "open"} => down'[f] = << >>
        /\ relay[f] = "attaching" /\ net[f] = "up" => down'[f] # << >>
        /\ relay[f] = "attaching" /\ down'[f] # << >> => Head(down'[f]).type = "attached"
    BY <1>a, <2>2, <2>3, <2>4, Appending DEF Attaching
  <2>10. f \in orphans => net[f] \in {"open", "up"}
    BY DEF Attaching
  <2> QED BY <2>1, <2>3, <2>5, <2>7, <2>8, <2>9, <2>10, OneFollower
<1>13. ASSUME NEW f \in Followers, Attach(f) PROVE RelayInv'
  <2>1. /\ relay[f] = "none" /\ relay' = [relay EXCEPT ![f] = "attaching"]
        /\ net'[f] \in {"open", "closing"} /\ net' \in [Followers -> {"none", "open", "up", "closing"}]
        /\ \A g \in Followers \ {f} : net'[g] = net[g]
        /\ down' = [down EXCEPT ![f] = << >>]
        /\ UNCHANGED <<owner, clients, serving, orphans, view, phase, missed>>
    BY <1>13 DEF Attach, TypeOK
  <2>2. net[f] = "none" /\ f \notin clients /\ f \notin orphans
    BY <2>1 DEF TypeOK, Attaching
  <2>3. << >> \in Seq(Message)
    OBVIOUS
  <2>4. /\ relay'[f] = "attaching" /\ down'[f] = << >>
        /\ \A g \in Followers \ {f} : relay'[g] = relay[g] /\ down'[g] = down[g]
        /\ down' \in [Followers -> Seq(Message)]
        /\ relay' \in [Followers -> {"none", "attaching", "attached"}]
    BY <2>1, <2>3 DEF TypeOK
  <2>5. TypeOK'
    BY <2>1, <2>2, <2>4 DEF TypeOK
  <2> QED BY <2>1, <2>2, <2>4, <2>5, OneFollower
<1>14. ASSUME NEW f \in Followers, Attached(f) PROVE RelayInv'
  <2> DEFINE d == down[f]
  <2>1. /\ relay[f] = "attaching" /\ d # << >>
        /\ relay' = [relay EXCEPT ![f] = "attached"]
        /\ view' = [view EXCEPT ![f] = Head(d).state]
        /\ UNCHANGED <<owner, clients, serving, orphans, net, phase>>
    BY <1>14 DEF Attached
  <2>2. PICK k \in 0..(Len(d) - 1) :
          /\ down' = [down EXCEPT ![f] = SubSeq(@, k + 2, Len(@))]
          /\ missed' = IF k = 0 THEN missed \ {f} ELSE missed \cup {f}
    BY <1>14 DEF Attached
  <2>3. d \in Seq(Message) /\ Len(d) \in Nat
    BY <1>a
  <2>4. PICK n \in 1..Len(d) : n = k + 1
    BY <2>2, <2>3
  <2>5. n + 1 = k + 2 /\ (n = 1 <=> k = 0)
    BY <2>2, <2>4
  <2>6. Head(d) = d[1] /\ Head(d).type = "attached" /\ Head(d) \in Message
    BY <2>1, <2>3, HeadTailProperties DEF Attaching
  <2>7. d[1].type # "response" /\ d[1].state \in OwnerStates
    BY <2>6, Messages
  <2>8. down'[f] = SubSeq(d, n + 1, Len(d)) /\ relay'[f] = "attached"
        /\ view'[f] = d[1].state /\ (f \in missed' <=> n # 1)
    BY <2>1, <2>2, <2>5, <2>6 DEF TypeOK
  <2>9. down'[f] \in Seq(Message)
    BY <2>3, <2>4, <2>8, SubSeqProperties
  <2>10. \A g \in Followers \ {f} :
           /\ down'[g] = down[g] /\ view'[g] = view[g] /\ relay'[g] = relay[g]
           /\ (g \in missed' <=> g \in missed)
    BY <2>1, <2>2 DEF TypeOK
  <2>11. net[f] \in {"up", "closing"}
    BY <2>1 DEF Attaching, TypeOK
  <2>12. /\ down' \in [Followers -> Seq(Message)] /\ missed' \subseteq Followers
         /\ view' \in [Followers -> OwnerStates]
         /\ relay' \in [Followers -> {"none", "attaching", "attached"}]
    BY <2>1, <2>2, <2>6, <2>7, <2>9 DEF TypeOK
  <2>13. TypeOK'
    BY <2>1, <2>8, <2>10, <2>11, <2>12 DEF TypeOK
  <2>14. f \in clients => owner # "none" /\ Shows(d, view[f], Snapshot)
    BY <2>1 DEF Told, Attaching
  <2>15. f \in clients => \/ Shows(down'[f], view'[f], Snapshot)
                          \/ f \in missed' /\ NoStatus(down'[f])
    BY <2>3, <2>4, <2>7, <2>8, <2>9, <2>14, ShowsReceived
  <2>16. f \in orphans => net[f] \in {"open", "up"}
    BY DEF Attaching
  <2> QED BY <2>1, <2>8, <2>10, <2>11, <2>13, <2>14, <2>15, <2>16, OneFollower
<1>15. ASSUME NEW f \in Followers, relay[f] = "attached", down[f] # << >>,
              down' = [down EXCEPT ![f] = Tail(@)],
              UNCHANGED <<owner, clients, serving, orphans, net, relay>>,
              phase' \in [Calls -> {"new", "pending", "done"}],
              \/ /\ Head(down[f]).type = "status" /\ missed' = missed \ {f}
                 /\ view' = [view EXCEPT ![f] = Head(down[f]).state]
              \/ Head(down[f]).type = "response" /\ UNCHANGED <<view, missed>>
       PROVE  RelayInv'
  <2> DEFINE d == down[f]
  <2>1. d \in Seq(Message) /\ Len(d) \in Nat /\ Len(d) >= 1
    BY <1>a, <1>15
  <2>2. Head(d) = d[1] /\ Head(d) \in Message /\ Tail(d) \in Seq(Message)
    BY <1>15, <2>1, HeadTailProperties
  <2>3. Tail(d) = SubSeq(d, 2, Len(d))
    BY <1>15, <2>1, TailIsSubSeq
  <2>4. down'[f] = Tail(d) /\ \A g \in Followers \ {f} : down'[g] = down[g]
    BY <1>15 DEF TypeOK
  <2>5. d[1].type = "status" => d[1].state \in OwnerStates /\ d[1].type # "response"
    BY <2>2, Messages
  <2>6. /\ down' \in [Followers -> Seq(Message)] /\ view' \in [Followers -> OwnerStates]
        /\ missed' \subseteq Followers
    <3>1. down' \in [Followers -> Seq(Message)] /\ missed' \subseteq Followers
      BY <1>15, <2>2 DEF TypeOK
    <3>2. view' \in [Followers -> OwnerStates]
      BY <1>15, <2>2, <2>5 DEF TypeOK
    <3> QED BY <3>1, <3>2
  <2>7. TypeOK'
    BY <1>15, <2>6 DEF TypeOK
  <2>8. /\ \A g \in Followers \ {f} : view'[g] = view[g] /\ (g \in missed' <=> g \in missed)
        /\ \/ d[1].type = "status" /\ view'[f] = d[1].state
           \/ d[1].type = "response" /\ view'[f] = view[f] /\ (f \in missed' <=> f \in missed)
    BY <1>15, <2>2 DEF TypeOK
  <2>9. net[f] \in {"up", "closing"} /\ (f \in orphans => net[f] \in {"open", "up"})
    BY <1>15 DEF TypeOK, Attaching
  <2>10. 1 \in 1..Len(d)
    BY <2>1
  <2>11. CASE Shows(d, view[f], Snapshot)
    <3>1. /\ d[1].type # "response" => Shows(Tail(d), d[1].state, Snapshot)
          /\ d[1].type = "response" => Shows(Tail(d), view[f], Snapshot)
      <4> DEFINE e == Tail(d)
      <4>1. e \in Seq(Message) /\ e = SubSeq(d, 1 + 1, Len(d))
        BY <2>2, <2>3
      <4> HIDE DEF e, d
      <4>2. /\ d[1].type # "response" => Shows(e, d[1].state, Snapshot)
            /\ d[1].type = "response" => Shows(e, view[f], Snapshot)
        BY <2>1, <2>10, <2>11, <4>1, ShowsReceived
      <4> QED BY <4>2 DEF e
    <3>4. Shows(down'[f], view'[f], Snapshot)
      BY <2>4, <2>5, <2>8, <3>1
    <3>2. f \in clients => owner # "none"
      BY DEF Attaching
    <3> QED BY <1>15, <2>4, <2>7, <2>8, <2>9, <3>2, <3>4, OneFollower
  <2>12. CASE f \in missed /\ NoStatus(d)
    <3>1. d[1].type = "response" /\ view'[f] = view[f] /\ f \in missed'
      BY <2>5, <2>8, <2>10, <2>12 DEF NoStatus
    <3>2. NoStatus(down'[f])
      <4>1. \A i \in 1..Len(Tail(d)) : i + 1 \in 1..Len(d) /\ Tail(d)[i] = d[i + 1]
        BY <1>15, <2>1, HeadTailProperties
      <4> QED BY <2>4, <2>12, <4>1 DEF NoStatus
    <3>3. f \in clients => owner # "none"
      BY DEF Attaching
    <3> QED BY <1>15, <2>4, <2>7, <2>8, <2>9, <3>1, <3>2, <3>3, OneFollower
  <2>13. CASE f \notin clients
    BY <1>15, <2>4, <2>7, <2>8, <2>9, <2>13, OneFollower
  <2> QED BY <2>11, <2>12, <2>13 DEF Told
<1>16. ASSUME NEW f \in Followers, ReceiveStatus(f) PROVE RelayInv'
  BY <1>15, <1>16 DEF ReceiveStatus, TypeOK
<1>17. ASSUME NEW f \in Followers, ReceiveResponse(f) PROVE RelayInv'
  <2>1. phase' \in [Calls -> {"new", "pending", "done"}]
    BY <1>17 DEF ReceiveResponse, Settled, TypeOK
  <2> QED BY <1>15, <1>17, <2>1 DEF ReceiveResponse
<1>18. ASSUME NEW c \in Calls, Call(c) \/ CallTimesOut(c) PROVE RelayInv'
  <2>1. /\ UNCHANGED <<owner, orphans, clients, net, down, relay, view, missed>>
        /\ serving' \subseteq Calls
    BY <1>18 DEF Call, CallTimesOut, link, TypeOK
  <2>2. phase' \in [Calls -> {"new", "pending", "done"}]
    BY <1>18 DEF Call, CallTimesOut, Settled, TypeOK
  <2> QED BY <2>1, <2>2 DEF TypeOK, Attaching, Told, Snapshot
<1>19. ASSUME NEW f \in Followers, Closed(f) \/ AttachTimesOut(f) \/ Disconnect(f) PROVE RelayInv'
  <2>1. PICK s \in OwnerStates : \E failed : Leave(f, failed, s)
    BY <1>19 DEF Closed, AttachTimesOut, Disconnect, OwnerStates
  <2> QED BY <2>1, LeaveKeeps
<1>20. CASE UNCHANGED vars
  BY <1>20 DEF vars, link, TypeOK, Attaching, Told, Snapshot
<1> QED
  BY <1>1, <1>2, <1>3, <1>4, <1>5, <1>6, <1>8, <1>9, <1>10, <1>11, <1>12, <1>13, <1>14,
     <1>16, <1>17, <1>18, <1>19, <1>20 DEF Next, Owner

LEMMA SpecRelayInv == Spec => []RelayInv
BY InitRelayInv, NextRelayInv, PTL DEF Spec

\* Owner, sockets and followers keep their types and agree on who is attached, for
\* any number of followers, calls and messages on their way (local-bridge-relay.ts).
THEOREM TypeCorrect == Spec => []TypeOK
<1>1. RelayInv => TypeOK
  BY DEF RelayInv
<1> QED BY <1>1, SpecRelayInv, PTL

\* Whoever has received all that was sent to it shows the state of its owner,
\* however attaches, changes, answers, closings and crashes interleave
\* (broadcastFollowerSnapshot, handleConnection, applyFollowerSnapshot).
THEOREM FollowersSeeTheirOwner == Spec => []FollowersSeeOwner
<1>1. ASSUME RelayInv PROVE FollowersSeeOwner
  <2>1. \A f \in clients : (relay[f] = "attached" => f \notin missed)
                             => Shows(down[f], view[f], Snapshot)
    BY <1>1 DEF RelayInv, Told
  <2>2. clients \subseteq Followers
    BY <1>1 DEF RelayInv, TypeOK
  <2> QED BY <2>1, <2>2, ShowsLast DEF FollowersSeeOwner
<1> QED BY <1>1, SpecRelayInv, PTL

-----------------------------------------------------------------------------
(***************************************************************************)
(* The calls.  Every pending call is at the owner, or answered, or its     *)
(* follower is about to learn that the socket is closed: this is what      *)
(* makes RelayedCallsEnd true, one step at a time.                         *)
(***************************************************************************)

Response(c) == [type |-> "response", call |-> c]

AnswerIn(c, d) == \E i \in 1..Len(d) : d[i] = Response(c)

\* what becomes of a call c of follower f, if it is pending
Carries(f, c) ==
  /\ relay[f] = "attached"
  /\ \/ net[f] = "closing"
     \/ net[f] = "up" /\ (c \in serving \/ AnswerIn(c, down[f]))

PendingIsCarried == \A c \in Calls : phase[c] = "pending" => Carries(CallerOf[c], c)

LEMMA AnswerAppended ==
  ASSUME NEW d \in Seq(Message), NEW m \in Message, NEW c
  PROVE  /\ AnswerIn(c, d) => AnswerIn(c, Append(d, m))
         /\ m = Response(c) => AnswerIn(c, Append(d, m))
<1> DEFINE e == Append(d, m)
<1>1. /\ Len(e) = Len(d) + 1 /\ Len(d) \in Nat /\ e[Len(d) + 1] = m
      /\ \A i \in 1..Len(d) : e[i] = d[i]
  BY AppendProperties
<1> HIDE DEF e
<1> QED BY <1>1 DEF AnswerIn, e

\* An answer that is not the first message is still there when that is received.
LEMMA AnswerReceived ==
  ASSUME NEW d \in Seq(Message), d # << >>, NEW c, AnswerIn(c, d), Head(d) # Response(c)
  PROVE  AnswerIn(c, Tail(d))
<1> DEFINE e == Tail(d)
<1>1. PICK i \in 1..Len(d) : d[i] = Response(c)
  BY DEF AnswerIn
<1>2. /\ Len(e) = Len(d) - 1 /\ Len(d) \in Nat /\ d[1] = Head(d)
      /\ \A j \in 1..Len(e) : e[j] = d[j + 1]
  BY HeadTailProperties
<1>3. i # 1
  BY <1>1, <1>2
<1> HIDE DEF e
<1>4. i - 1 \in 1..Len(e) /\ (i - 1) + 1 = i
  BY <1>2, <1>3
<1>5. e[i - 1] = Response(c)
  BY <1>1, <1>2, <1>4
<1> QED BY <1>4, <1>5 DEF AnswerIn, e

\* A step carries a call on, if it leaves the follower attached and does no harm
\* to the socket, the call and the answer.
LEMMA StillCarried ==
  ASSUME NEW f, NEW c, Carries(f, c), relay'[f] = "attached",
         net'[f] = "closing"
           \/ (net'[f] = net[f] /\ (c \in serving => c \in serving' \/ AnswerIn(c, down'[f]))
               /\ (AnswerIn(c, down[f]) => AnswerIn(c, down'[f])))
  PROVE  Carries(f, c)'
BY DEF Carries, AnswerIn, Response

LEMMA NextCarried ==
  ASSUME RelayInv, PendingIsCarried, [Next]_vars
  PROVE  PendingIsCarried'
<1> USE DEF RelayInv
<1>t. \A c \in Calls : CallerOf[c] \in Followers
  BY RelayAssumption
<1>p. ASSUME NEW c \in Calls, phase[c] = "pending"
      PROVE  Carries(CallerOf[c], c) /\ relay[CallerOf[c]] = "attached"
             /\ net[CallerOf[c]] \in {"up", "closing"}
  BY <1>p DEF PendingIsCarried, Carries
<1>d. \A f \in Followers : down[f] \in Seq(Message)
  BY DEF TypeOK
\* the broadcasts
<1>1. ASSUME NEW s \in OwnerStates, down' \in {down, Broadcast(s)},
             UNCHANGED <<serving, net, relay, phase>>
      PROVE  PendingIsCarried'
  <2>1. ASSUME NEW c \in Calls, phase[c] = "pending" PROVE Carries(CallerOf[c], c)'
    <3>1. AnswerIn(c, down[CallerOf[c]]) => AnswerIn(c, down'[CallerOf[c]])
      <4>1. \/ down'[CallerOf[c]] = down[CallerOf[c]]
            \/ down'[CallerOf[c]] = Append(down[CallerOf[c]], Status(s))
        BY <1>1, <1>t DEF Broadcast
      <4>2. Status(s) \in Message
        BY Messages
      <4> QED BY <1>t, <1>d, <4>1, <4>2, AnswerAppended
    <3> QED BY <1>1, <1>p, <2>1, <3>1, StillCarried
  <2> QED BY <1>1, <2>1 DEF PendingIsCarried
<1>2. CASE StartFollowerRelay \/ Listen \/ SessionStarts \/ SessionEnds \/ Heartbeat
  <2>1. PICK s \in OwnerStates : down' \in {down, Broadcast(s)}
    BY <1>2 DEF StartFollowerRelay, Listen, SessionStarts, SessionEnds, Heartbeat, link,
                OwnerStates
  <2>2. UNCHANGED <<serving, net, relay, phase>>
    BY <1>2 DEF StartFollowerRelay, Listen, SessionStarts, SessionEnds, Heartbeat, link
  <2> QED BY <1>1, <2>1, <2>2
\* the ends of the relay
<1>3. ASSUME NEW gone \in SUBSET Followers, NEW messages, Close(gone, messages),
             \A f \in Followers : net[f] = "up" /\ f \notin gone => f \in orphans,
             \A f \in Followers \ gone : messages[f] = down[f]
      PROVE  PendingIsCarried'
  <2>1. ASSUME NEW c \in Calls, phase[c] = "pending" PROVE Carries(CallerOf[c], c)'
    <3> DEFINE f == CallerOf[c]
    <3>1. /\ relay' = relay /\ down' = messages
          /\ serving' = {d \in serving : CallerOf[d] \in orphans}
          /\ net'[f] = IF f \in gone THEN "closing" ELSE net[f]
      BY <1>3, <1>t DEF Close
    <3>2. CASE f \in gone
      BY <1>p, <2>1, <3>1, <3>2, StillCarried
    <3>3. CASE f \notin gone
      <4>1. net[f] = "up" => f \in orphans
        BY <1>3, <1>t, <3>3
      <4>2. down'[f] = down[f] /\ net'[f] = net[f]
        BY <1>3, <1>t, <3>1, <3>3
      <4>3. net[f] = "up" /\ c \in serving => c \in serving'
        BY <3>1, <4>1
      <4> QED BY <1>p, <2>1, <3>1, <4>2, <4>3 DEF Carries, AnswerIn, Response
    <3> QED BY <3>2, <3>3
  <2> QED BY <1>3, <2>1 DEF PendingIsCarried, Close
<1>4. /\ clients \in SUBSET Followers /\ Connected \in SUBSET Followers
      /\ \A f \in Followers : net[f] = "up" /\ f \notin clients => f \in orphans
      /\ \A f \in Followers : net[f] = "up" /\ f \notin Connected => f \in orphans
      /\ clients \subseteq Connected
  BY DEF TypeOK, Connected
<1>5. CASE ListenFails
  BY <1>3, <1>4, <1>5 DEF ListenFails
<1>6. CASE Shutdown
  <2>1. \A f \in Followers \ Connected : Broadcast("disconnected")[f] = down[f]
    BY <1>4 DEF Broadcast
  <2> QED BY <1>3, <1>4, <1>6, <2>1 DEF Shutdown
<1>7. CASE Crash
  <2>1. PICK lost \in SUBSET clients :
          Close(Connected, [f \in Followers |-> IF f \in lost THEN << >> ELSE down[f]])
    BY <1>7 DEF Crash
  <2> DEFINE left == [f \in Followers |-> IF f \in lost THEN << >> ELSE down[f]]
  <2>2. \A f \in Followers \ Connected : left[f] = down[f]
    BY <1>4
  <2> QED BY <1>3, <1>4, <2>1, <2>2
\* a socket
<1>8. ASSUME NEW f \in Followers, AttachRefused(f) \/ OrphanCloses(f) PROVE PendingIsCarried'
  <2>1. /\ relay' = relay /\ phase' = phase /\ down' = down /\ net'[f] = "closing"
        /\ \A g \in Followers : g # f => net'[g] = net[g]
        /\ \A c \in Calls : c \in serving /\ CallerOf[c] # f => c \in serving'
    BY <1>8 DEF AttachRefused, OrphanCloses, TypeOK
  <2>2. ASSUME NEW c \in Calls, phase[c] = "pending" PROVE Carries(CallerOf[c], c)'
    BY <1>p, <1>t, <2>1, <2>2, StillCarried
  <2> QED BY <2>1, <2>2 DEF PendingIsCarried
<1>9. ASSUME NEW f \in Followers,
             AttachAccepted(f) \/ Attach(f) \/ Attached(f) \/ AttachTimesOut(f)
      PROVE  PendingIsCarried'
  <2>1. relay[f] # "attached"
    BY <1>9 DEF AttachAccepted, Attach, Attached, AttachTimesOut, TypeOK
  <2>2. \A c \in Calls : phase'[c] = "pending" => phase[c] = "pending"
    BY <1>9 DEF AttachAccepted, Attach, Attached, AttachTimesOut, Leave, Settled
  <2>3. \A g \in Followers \ {f} : relay'[g] = relay[g] /\ net'[g] = net[g] /\ down'[g] = down[g]
    BY <1>9 DEF AttachAccepted, Attach, Attached, AttachTimesOut, Leave, TypeOK
  <2>4. serving' = serving
    BY <1>9 DEF AttachAccepted, Attach, Attached, AttachTimesOut, Leave
  <2>5. ASSUME NEW c \in Calls, phase'[c] = "pending" PROVE Carries(CallerOf[c], c)'
    <3>1. phase[c] = "pending" /\ CallerOf[c] \in Followers \ {f}
      BY <1>p, <1>t, <2>1, <2>2, <2>5
    <3> QED BY <1>p, <2>3, <2>4, <3>1, StillCarried
  <2> QED BY <2>5 DEF PendingIsCarried
<1>10. ASSUME NEW f \in Followers, Closed(f) \/ Disconnect(f) PROVE PendingIsCarried'
  <2>1. PICK s : Leave(f, Pending(f), s)
    BY <1>10 DEF Closed, Disconnect
  <2>2. ASSUME NEW c \in Calls, phase'[c] = "pending" PROVE Carries(CallerOf[c], c)'
    <3>1. phase[c] = "pending" /\ CallerOf[c] # f
      BY <2>1, <2>2 DEF Leave, Settled, Pending
    <3>2. /\ relay'[CallerOf[c]] = relay[CallerOf[c]] /\ net'[CallerOf[c]] = net[CallerOf[c]]
          /\ down'[CallerOf[c]] = down[CallerOf[c]] /\ serving' = serving
      BY <1>t, <2>1, <3>1 DEF Leave, TypeOK
    <3> QED BY <1>p, <3>1, <3>2, StillCarried
  <2> QED BY <2>2 DEF PendingIsCarried
\* what a follower receives
<1>11. ASSUME NEW f \in Followers, ReceiveStatus(f) \/ ReceiveResponse(f) PROVE PendingIsCarried'
  <2>1. /\ down[f] # << >> /\ down'[f] = Tail(down[f])
        /\ \A g \in Followers : g # f => down'[g] = down[g]
        /\ UNCHANGED <<serving, net, relay>>
    BY <1>11 DEF ReceiveStatus, ReceiveResponse, TypeOK
  <2>2. ASSUME NEW c \in Calls, phase'[c] = "pending" PROVE Carries(CallerOf[c], c)'
    <3>1. phase[c] = "pending" /\ Head(down[f]) # Response(c)
      BY <1>11, <2>2 DEF ReceiveStatus, ReceiveResponse, Settled, Response
    <3>2. AnswerIn(c, down[CallerOf[c]]) => AnswerIn(c, down'[CallerOf[c]])
      <4>1. CASE CallerOf[c] = f
        BY <1>d, <2>1, <3>1, <4>1, AnswerReceived
      <4>2. CASE CallerOf[c] # f
        BY <1>t, <2>1, <4>2
      <4> QED BY <4>1, <4>2
    <3> QED BY <1>p, <2>1, <3>1, <3>2, StillCarried
  <2> QED BY <2>2 DEF PendingIsCarried
\* the calls
<1>12. ASSUME NEW c \in Calls, Call(c) PROVE PendingIsCarried'
  <2>1. /\ UNCHANGED <<net, down, relay>> /\ serving' = serving \cup {c}
        /\ relay[CallerOf[c]] = "attached" /\ net[CallerOf[c]] = "up"
    BY <1>12 DEF Call, link
  <2>2. ASSUME NEW d \in Calls, phase'[d] = "pending" PROVE Carries(CallerOf[d], d)'
    <3>1. CASE d = c
      BY <2>1, <3>1 DEF Carries
    <3>2. CASE d # c
      <4>1. phase[d] = "pending"
        BY <1>12, <2>2, <3>2 DEF Call, TypeOK
      <4> QED BY <1>p, <2>1, <4>1, StillCarried
    <3> QED BY <3>1, <3>2
  <2> QED BY <2>2 DEF PendingIsCarried
<1>13. ASSUME NEW c \in Calls, CallTimesOut(c) PROVE PendingIsCarried'
  <2>1. UNCHANGED <<serving, net, down, relay>>
    BY <1>13 DEF CallTimesOut, link
  <2>2. \A d \in Calls : phase'[d] = "pending" => phase[d] = "pending"
    BY <1>13 DEF CallTimesOut, Settled
  <2>3. ASSUME NEW d \in Calls, phase'[d] = "pending" PROVE Carries(CallerOf[d], d)'
    BY <1>p, <2>1, <2>2, <2>3, StillCarried
  <2> QED BY <2>3 DEF PendingIsCarried
<1>14. ASSUME NEW c \in Calls, CallAnswered(c) PROVE PendingIsCarried'
  <2> DEFINE f == CallerOf[c]
  <2>1. /\ UNCHANGED <<net, relay, phase>> /\ serving' = serving \ {c}
        /\ down'[f] = IF net[f] = "up" THEN Append(down[f], Response(c)) ELSE down[f]
        /\ \A g \in Followers : g # f => down'[g] = down[g]
    BY <1>14, <1>t DEF CallAnswered, TypeOK, Response
  <2>2. /\ net[f] = "up" => AnswerIn(c, down'[f])
        /\ \A d \in Calls : AnswerIn(d, down[f]) => AnswerIn(d, down'[f])
    <3>1. Response(c) \in Message
      BY Messages DEF Response
    <3> QED BY <1>d, <1>t, <2>1, <3>1, AnswerAppended
  <2>3. ASSUME NEW d \in Calls, phase[d] = "pending" PROVE Carries(CallerOf[d], d)'
    <3>1. AnswerIn(d, down[CallerOf[d]]) => AnswerIn(d, down'[CallerOf[d]])
      BY <1>t, <2>1, <2>2
    <3>2. CASE d # c
      BY <1>p, <2>1, <2>3, <3>1, <3>2, StillCarried
    <3>3. CASE d = c
      <4>1. relay[f] = "attached" /\ net[f] \in {"up", "closing"}
        BY <1>p, <2>3, <3>3
      <4>2. (AnswerIn(c, down[f]))' <=> AnswerIn(c, down'[f])
        BY DEF AnswerIn, Response
      <4> HIDE DEF f
      <4> QED BY <2>1, <2>2, <3>3, <4>1, <4>2, StillCarried DEF Carries, f
    <3> QED BY <3>2, <3>3
  <2> QED BY <2>1, <2>3 DEF PendingIsCarried
<1>15. CASE UNCHANGED vars
  BY <1>15 DEF vars, link, PendingIsCarried, Carries, AnswerIn, Response
<1> QED
  BY <1>2, <1>5, <1>6, <1>7, <1>8, <1>9, <1>10, <1>11, <1>12, <1>13, <1>14, <1>15
     DEF Next, Owner

\* No pending call is forgotten: until it ends, the owner is at it, or its answer
\* is on its way, or its follower is still to hear that the socket has closed,
\* whichever process shuts down, dies or loses its relay meanwhile
\* (LocalBridgeRelayClient.call, handleConnection, the close handlers of both ends).
THEOREM PendingCallsAreCarried == Spec => []PendingIsCarried
<1>1. Init => PendingIsCarried
  BY DEF Init, PendingIsCarried
<1>2. RelayInv /\ PendingIsCarried /\ [Next]_vars => PendingIsCarried'
  BY NextCarried
<1> QED BY <1>1, <1>2, SpecRelayInv, PTL DEF Spec

=============================================================================
