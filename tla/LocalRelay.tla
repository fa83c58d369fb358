------------------------------ MODULE LocalRelay ------------------------------
(***************************************************************************)
(* The relay by which processes that found the bridge listener owned share *)
(* its session (bridge/local-bridge-relay.ts with its use in               *)
(* bridge/manager.ts): followers attach, receive every change of the       *)
(* owner's state in order, and have their calls made by the owner.         *)
(*                                                                         *)
(* BridgeManager models one process and has its relay as environment; here *)
(* are both ends.  A socket is closed for both at once, except that what   *)
(* was sent before is still delivered.                                     *)
(***************************************************************************)
EXTENDS Naturals, Sequences, FiniteSets

CONSTANTS
  Followers, Calls,
  CallerOf,      \* of each call: the follower that makes it
  MaxClients,    \* sockets that the relay accepts
  MaxDown        \* bound: no broadcast while so many messages wait for a follower

ASSUME RelayAssumption ==
  /\ IsFiniteSet(Followers) /\ CallerOf \in [Calls -> Followers]
  /\ MaxClients \in Nat /\ MaxDown \in Nat

VARIABLES
  \* the owner
  owner,      \* its state while its relay listens, or "none"; it is "starting"
              \* before it listens for extensions
  clients,    \* followers whose socket it has authenticated
  serving,    \* calls that are made for followers
  orphans,    \* followers whose socket was left open by a relay that closed
  \* the network
  net,        \* of each follower's socket: "none", "open", "up" or "closing"
  down,       \* of each follower: the messages on their way to it
  \* the followers
  relay,      \* of each follower: "none", "attaching", "attached"
  view,       \* of each follower: the state that it took over
  phase,      \* of each call: "new", "pending" or "done"
  \* history
  missed      \* followers whose last status came before they listened for it

link == <<clients, net, down>>
vars == <<owner, serving, orphans, link, relay, view, phase, missed>>

OwnerStates == {"connecting", "connected", "disconnected", "error"}
Message == [type : {"attached", "status"}, state : OwnerStates]
           \cup [type : {"response"}, call : Calls]

TypeOK ==
  /\ owner \in {"none", "starting", "connecting", "connected"}
  /\ clients \subseteq Followers /\ serving \subseteq Calls
  /\ net \in [Followers -> {"none", "open", "up", "closing"}]
  /\ down \in [Followers -> Seq(Message)]
  /\ relay \in [Followers -> {"none", "attaching", "attached"}]
  /\ view \in [Followers -> OwnerStates]
  /\ phase \in [Calls -> {"new", "pending", "done"}]
  /\ missed \subseteq Followers /\ orphans \subseteq Followers
  /\ \A f \in Followers :
       /\ f \in clients <=> net[f] = "up" /\ f \notin orphans
       /\ relay[f] = "none" <=> net[f] = "none"
       /\ relay[f] = "attached" => net[f] \in {"up", "closing"}

Init ==
  /\ owner = "none" /\ clients = {} /\ serving = {} /\ orphans = {}
  /\ net = [f \in Followers |-> "none"] /\ down = [f \in Followers |-> << >>]
  /\ relay = [f \in Followers |-> "none"]
  /\ view = [f \in Followers |-> "error"]
  /\ phase = [c \in Calls |-> "new"] /\ missed = {}

-----------------------------------------------------------------------------
(* The owner                                                               *)

Status(s) == [type |-> "status", state |-> s]

\* what the followers are sent when the owner's state becomes s
Broadcast(s) ==
  [f \in Followers |-> IF f \in clients THEN Append(down[f], Status(s)) ELSE down[f]]

Snapshot == IF owner = "starting" THEN "connecting" ELSE owner

HasRoom == \A f \in clients : Len(down[f]) < MaxDown

StartFollowerRelay ==
  /\ owner = "none" /\ owner' = "starting"
  /\ UNCHANGED <<serving, orphans, link, relay, view, phase, missed>>

\* connect() has found a port for the extensions ...
Listen ==
  /\ owner = "starting" /\ HasRoom
  /\ owner' = "connecting" /\ down' = Broadcast("connecting")
  /\ UNCHANGED <<clients, serving, orphans, net, relay, view, phase, missed>>

\* the handshake of an extension
SessionStarts ==
  /\ owner = "connecting" /\ HasRoom
  /\ owner' = "connected" /\ down' = Broadcast("connected")
  /\ UNCHANGED <<clients, serving, orphans, net, relay, view, phase, missed>>

\* the close event of the session
SessionEnds_Quietly ==
  /\ owner = "connected" /\ HasRoom
  /\ owner' = "connecting"
  /\ UNCHANGED <<link, serving, orphans, relay, view, phase, missed>>
SessionEnds ==
  /\ owner = "connected" /\ HasRoom
  /\ owner' = "connecting" /\ down' = Broadcast("connecting")
  /\ UNCHANGED <<clients, serving, orphans, net, relay, view, phase, missed>>

\* a heartbeat of the extension
Heartbeat_Quietly == owner = "connected" /\ HasRoom /\ UNCHANGED vars
Heartbeat ==
  /\ owner = "connected" /\ HasRoom
  /\ down' = Broadcast("connected")
  /\ UNCHANGED <<owner, clients, serving, orphans, net, relay, view, phase, missed>>

\* The relay closes the sockets of gone, and messages is what still arrives.
Close(gone, messages) ==
  /\ owner' = "none" /\ clients' = {}
  /\ serving' = {c \in serving : CallerOf[c] \in orphans}
  /\ net' = [f \in Followers |-> IF f \in gone THEN "closing" ELSE net[f]]
  /\ down' = messages
  /\ UNCHANGED <<relay, view, phase, missed>>

Connected == {f \in Followers : net[f] \in {"open", "up"}} \ orphans

\* ... or none: the relay closes what it has authenticated, and not the socket
\* of a follower whose attach is still on its way.
ListenFails ==
  /\ owner = "starting"
  /\ Close(clients, down) /\ orphans' = orphans \cup (Connected \ clients)

\* disconnect(), before the process ends
Shutdown ==
  /\ owner # "none"
  /\ Close(Connected, Broadcast("disconnected")) /\ UNCHANGED orphans

Crash ==
  /\ owner # "none"
  /\ \E lost \in SUBSET clients :
       Close(Connected, [f \in Followers |-> IF f \in lost THEN << >> ELSE down[f]])
  /\ UNCHANGED orphans

\* The process that left a socket open ends.
OrphanCloses(f) ==
  /\ f \in orphans /\ orphans' = orphans \ {f}
  /\ net' = [net EXCEPT ![f] = "closing"]
  /\ serving' = {c \in serving : CallerOf[c] # f}
  /\ UNCHANGED <<owner, clients, down, relay, view, phase, missed>>

\* handleConnection, on the follower's attach
AttachAccepted(f) ==
  /\ net[f] = "open" /\ (owner # "none" \/ f \in orphans)
  /\ net' = [net EXCEPT ![f] = "up"]
  /\ clients' = IF f \in orphans THEN clients ELSE clients \cup {f}
  /\ down' = [down EXCEPT ![f] = Append(@, [type |-> "attached",
                 state |-> IF f \in orphans THEN "error" ELSE Snapshot])]
  /\ UNCHANGED <<owner, serving, orphans, relay, view, phase, missed>>

\* not authenticated in time, or with another token
AttachRefused(f) ==
  /\ net[f] = "open"
  /\ net' = [net EXCEPT ![f] = "closing"] /\ orphans' = orphans \ {f}
  /\ UNCHANGED <<owner, clients, serving, down, relay, view, phase, missed>>

\* BridgeManager.call of the owner has ended, in either way.
CallAnswered_OnlySuccess(c) ==
  /\ c \in serving /\ serving' = serving \ {c}
  /\ \E ok \in BOOLEAN :
       LET f == CallerOf[c] IN
       down' = [down EXCEPT ![f] = IF net[f] = "up" /\ ok
                                   THEN Append(@, [type |-> "response", call |-> c]) ELSE @]
  /\ UNCHANGED <<owner, clients, orphans, net, relay, view, phase, missed>>
CallAnswered(c) ==
  /\ c \in serving /\ serving' = serving \ {c}
  /\ LET f == CallerOf[c] IN
     down' = [down EXCEPT ![f] = IF net[f] = "up"
                                 THEN Append(@, [type |-> "response", call |-> c]) ELSE @]
  /\ UNCHANGED <<owner, clients, orphans, net, relay, view, phase, missed>>

-----------------------------------------------------------------------------
(* A follower                                                              *)

Pending(f) == {c \in Calls : CallerOf[c] = f /\ phase[c] = "pending"}
Settled(calls) == [c \in Calls |-> IF c \in calls THEN "done" ELSE phase[c]]

\* A relay at its capacity closes the socket at once.
Attach(f) ==
  /\ relay[f] = "none" /\ owner # "none"
  /\ relay' = [relay EXCEPT ![f] = "attaching"]
  /\ net' = [net EXCEPT ![f] =
       IF Cardinality({g \in Followers : net[g] \in {"open", "up"}}) < MaxClients
       THEN "open" ELSE "closing"]
  /\ down' = [down EXCEPT ![f] = << >>]
  /\ UNCHANGED <<owner, clients, serving, orphans, view, phase, missed>>

\* The answer to the attach.  attachFollowerRelay goes on, and listens for the
\* status, only after the n messages that came in the same read.
Attached(f) ==
  /\ relay[f] = "attaching" /\ down[f] # << >>
  /\ \E n \in 0..(Len(down[f]) - 1) :
       /\ down' = [down EXCEPT ![f] = SubSeq(@, n + 2, Len(@))]
       /\ missed' = IF n = 0 THEN missed \ {f} ELSE missed \cup {f}
  /\ relay' = [relay EXCEPT ![f] = "attached"]
  /\ view' = [view EXCEPT ![f] = Head(down[f]).state]
  /\ UNCHANGED <<owner, clients, serving, orphans, net, phase>>

ReceiveStatus(f) ==
  /\ relay[f] = "attached" /\ down[f] # << >> /\ Head(down[f]).type = "status"
  /\ view' = [view EXCEPT ![f] = Head(down[f]).state]
  /\ down' = [down EXCEPT ![f] = Tail(@)] /\ missed' = missed \ {f}
  /\ UNCHANGED <<owner, clients, serving, orphans, net, relay, phase>>

ReceiveResponse(f) ==
  /\ relay[f] = "attached" /\ down[f] # << >> /\ Head(down[f]).type = "response"
  /\ phase' = Settled({Head(down[f]).call})
  /\ down' = [down EXCEPT ![f] = Tail(@)]
  /\ UNCHANGED <<owner, clients, serving, orphans, net, relay, view, missed>>

\* callThroughFollower, and the call's message on its way to the owner
Call(c) ==
  /\ phase[c] = "new" /\ relay[CallerOf[c]] = "attached" /\ net[CallerOf[c]] = "up"
  /\ phase' = [phase EXCEPT ![c] = "pending"] /\ serving' = serving \cup {c}
  /\ UNCHANGED <<owner, orphans, link, relay, view, missed>>

CallTimesOut(c) ==
  /\ phase[c] = "pending" /\ phase' = Settled({c})
  /\ UNCHANGED <<owner, serving, orphans, link, relay, view, missed>>

\* The end of the follower's socket: these calls fail, and it shows that state.
Leave_StaysClient(f, failed, state) ==
  /\ relay' = [relay EXCEPT ![f] = "none"] /\ net' = [net EXCEPT ![f] = "none"]
  /\ clients' = clients /\ orphans' = orphans \ {f}
  /\ down' = [down EXCEPT ![f] = << >>]
  /\ phase' = Settled(failed) /\ missed' = missed \ {f}
  /\ view' = [view EXCEPT ![f] = state]
  /\ UNCHANGED <<owner, serving>>
Leave(f, failed, state) ==
  /\ relay' = [relay EXCEPT ![f] = "none"] /\ net' = [net EXCEPT ![f] = "none"]
  /\ clients' = clients \ {f} /\ orphans' = orphans \ {f}
  /\ down' = [down EXCEPT ![f] = << >>]
  /\ phase' = Settled(failed) /\ missed' = missed \ {f}
  /\ view' = [view EXCEPT ![f] = state]
  /\ UNCHANGED <<owner, serving>>

\* the close event of the socket, after all that was sent
Closed(f) ==
  /\ net[f] = "closing"
  /\ relay[f] = "attaching" \/ down[f] = << >>
  /\ Leave(f, Pending(f), "error")

AttachTimesOut(f) ==
  /\ relay[f] = "attaching" /\ Leave(f, {}, "error")

Disconnect(f) ==
  /\ relay[f] = "attached" /\ Leave(f, Pending(f), "disconnected")

-----------------------------------------------------------------------------
Owner == \/ StartFollowerRelay \/ Listen \/ ListenFails \/ SessionStarts \/ SessionEnds
         \/ Heartbeat \/ Shutdown \/ Crash

Next ==
  \/ Owner
  \/ \E f \in Followers :
       \/ AttachAccepted(f) \/ AttachRefused(f) \/ OrphanCloses(f)
       \/ Attach(f) \/ Attached(f) \/ ReceiveStatus(f) \/ ReceiveResponse(f)
       \/ Closed(f) \/ AttachTimesOut(f) \/ Disconnect(f)
  \/ \E c \in Calls : Call(c) \/ CallAnswered(c) \/ CallTimesOut(c)

Spec == Init /\ [][Next]_vars

\* Messages and close events arrive, the owner's calls end, and an extension
\* that stays connected sends its heartbeats.
Fairness ==
  /\ SF_vars(Heartbeat)
  /\ \A f \in Followers :
       WF_vars(Attached(f)) /\ WF_vars(ReceiveStatus(f)) /\ WF_vars(ReceiveResponse(f))
       /\ WF_vars(Closed(f))
  /\ \A c \in Calls : WF_vars(CallAnswered(c))

FairSpec == Spec /\ Fairness

-----------------------------------------------------------------------------
(* What the relay guarantees                                               *)

Statuses(f) == {i \in 1..Len(down[f]) : down[f][i].type # "response"}
LastStatus(f) ==
  IF Statuses(f) = {} THEN view[f]
  ELSE down[f][CHOOSE i \in Statuses(f) : \A j \in Statuses(f) : j <= i].state

\* A follower that has received all that was sent to it shows the state of its
\* owner: no change of it is without a broadcast to every attached follower
\* (broadcastFollowerSnapshot, applyFollowerSnapshot), except for one that the
\* follower did not listen for yet.
FollowersSeeOwner ==
  \A f \in clients : (relay[f] = "attached" => f \notin missed) => LastStatus(f) = Snapshot

\* The next heartbeat of the extension makes up for a status that a follower
\* missed while it attached (broadcastFollowerSnapshot in handleConnection).
MissedStatusIsRepaired ==
  \A f \in Followers :
    <>[](f \in clients /\ relay[f] = "attached" /\ owner = "connected")
      => <>[](view[f] = "connected")

\* A call that a follower passed to its owner ends, whether the owner answers,
\* fails, shuts down or dies, without help of the time-out
\* (LocalBridgeRelayClient.call, handleConnection).
RelayedCallsEnd == \A c \in Calls : phase[c] = "pending" ~> phase[c] = "done"

=============================================================================
