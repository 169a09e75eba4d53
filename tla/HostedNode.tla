----------------------------- MODULE HostedNode -----------------------------
(***************************************************************************)
(* The Node an application hosts: a process is started for each connection *)
(* and closed before the next one is started, when a connection fails, and *)
(* when the application closes.  Sessions are leased within a process, so  *)
(* two processes at a time could open the same session file.               *)
(*   lib/core/pi_node_composition.dart          (LazyHostedPiNodeApi)      *)
(*   lib/platform/agent_host/pi_node_host_controller.dart                  *)
(*                                                                         *)
(* Hosts are numbered by the generation they belong to.  The transport's   *)
(* close() ends the process, if need be by killing it, and throws nothing  *)
(* (ProtocolConnection).  Only what connects calls a host, which is closed *)
(* after its start has returned.                                           *)
(*                                                                         *)
(* An operator Faulty* is no part of the specification: it is the operator *)
(* below it with a plausible mistake, which a property must refute.        *)
(***************************************************************************)
EXTENDS Naturals

CONSTANT MaxConnects   \* bound: calls of _connectFresh

ASSUME HostedAssumption == MaxConnects \in Nat

VARIABLES
    generation,  \* _generation
    connecting,  \* _connectFuture: where _connectFresh is, and its generation
    apiClosing,  \* _closed, _closeFuture: where _close is
    hosted,      \* _session: its generation, 0 for null
    link,        \* the client of that session
    disposed,    \* the session that _disposeSession is given, 0 for none
    process,     \* the process of each host
    shownLink    \* _connection

hostedVars == <<generation, connecting, apiClosing, hosted, link, disposed, process, shownLink>>

Hosts == 1..MaxConnects
Steps == {"idle", "disposing", "starting", "started", "handshaking", "undoing"}
Links == {"connecting", "connected", "disconnected"}

ApiClosed == apiClosing # "no"

HostedInit ==
    /\ generation = 0 /\ hosted = 0 /\ disposed = 0
    /\ connecting = "idle" /\ apiClosing = "no"
    /\ link = "disconnected" /\ shownLink = "disconnected"
    /\ process = [g \in Hosts |-> "none"]

(* _emitConnection for the generation that connects *)
FaultyShown(snapshot) == shownLink' = snapshot
Shown(snapshot) == shownLink' = IF ApiClosed THEN shownLink ELSE snapshot

(* _disposeSession up to its first await; the rest of it, which closes the *)
(* client, its transport and the host, is Ended.                           *)
Disposes(g) == disposed' = g /\ hosted' = 0

Ended(g) == [process EXCEPT ![g] = IF process[g] = "alive" THEN "dead" ELSE process[g]]
EndedDisposed == IF disposed = 0 THEN process ELSE Ended(disposed)

-----------------------------------------------------------------------------
(* connect(), _connectFresh *)

(* Another call finds a connection, or awaits the one under way, or is     *)
(* refused after close().                                                  *)
Connect ==
    /\ ~ApiClosed /\ connecting = "idle" /\ ~(hosted # 0 /\ link = "connected")
    /\ generation < MaxConnects
    /\ generation' = generation + 1
    /\ connecting' = "disposing" /\ Disposes(hosted)
    /\ UNCHANGED <<apiClosing, link, process, shownLink>>

FaultyOldDisposed ==
    /\ connecting = "disposing"
    /\ connecting' = IF ApiClosed THEN "idle" ELSE "starting"
    /\ Shown("connecting") /\ disposed' = 0
    /\ UNCHANGED <<generation, apiClosing, hosted, link, process>>
OldDisposed ==
    /\ connecting = "disposing"
    /\ process' = EndedDisposed /\ disposed' = 0
    /\ connecting' = IF ApiClosed THEN "idle" ELSE "starting"
    /\ Shown("connecting")
    /\ UNCHANGED <<generation, apiClosing, hosted, link>>

(* host.start(): the runtime is located and its process launched, or not.  *)
(* A close() since has taken another generation; it starts none.           *)
Mine == IF ApiClosed THEN generation - 1 ELSE generation

Launched ==
    /\ connecting = "starting"
    /\ connecting' = "started" /\ process' = [process EXCEPT ![Mine] = "alive"]
    /\ UNCHANGED <<generation, apiClosing, hosted, link, disposed, shownLink>>

LaunchFails ==
    /\ connecting = "starting"
    /\ connecting' = "idle" /\ Shown("disconnected")
    /\ UNCHANGED <<generation, apiClosing, hosted, link, disposed, process>>

Started ==
    /\ connecting = "started"
    /\ IF ApiClosed
       THEN connecting' = "undoing" /\ disposed' = Mine /\ UNCHANGED <<hosted, link>>
       ELSE /\ connecting' = "handshaking" /\ hosted' = Mine /\ link' = "connecting"
            /\ UNCHANGED disposed
    /\ UNCHANGED <<generation, apiClosing, process, shownLink>>

(* api.connect(), and what follows it without an await *)
Accepted ==
    /\ connecting = "handshaking"
    /\ link' = "connected" /\ Shown("connected")
    /\ IF ApiClosed THEN connecting' = "undoing" /\ Disposes(hosted)
       ELSE connecting' = "idle" /\ UNCHANGED <<disposed, hosted>>
    /\ UNCHANGED <<generation, apiClosing, process>>

HandshakeFails ==
    /\ connecting = "handshaking"
    /\ link' = "disconnected" /\ Shown("disconnected")
    /\ connecting' = "undoing" /\ Disposes(hosted)
    /\ UNCHANGED <<generation, apiClosing, process>>

(* The disposal of a connection that failed, or came after close(); the    *)
(* error is thrown on.                                                     *)
FaultyUndone ==
    /\ connecting = "undoing" /\ apiClosing \in {"no", "closed"}   \* awaits close() itself
    /\ process' = EndedDisposed /\ disposed' = 0
    /\ connecting' = "idle" /\ Shown("disconnected")
    /\ UNCHANGED <<generation, apiClosing, hosted, link>>
Undone ==
    /\ connecting = "undoing"
    /\ process' = EndedDisposed /\ disposed' = 0
    /\ connecting' = "idle" /\ Shown("disconnected")
    /\ UNCHANGED <<generation, apiClosing, hosted, link>>

-----------------------------------------------------------------------------
(* close(), _close *)

Close ==
    /\ ~ApiClosed
    /\ apiClosing' = "awaiting" /\ generation' = generation + 1 /\ shownLink' = "closing"
    /\ UNCHANGED <<connecting, hosted, link, disposed, process>>

FaultyConnectingAwaited ==
    /\ apiClosing = "awaiting"
    /\ apiClosing' = "disposing"
    /\ IF hosted = 0 THEN UNCHANGED <<disposed, hosted>> ELSE Disposes(hosted)
    /\ UNCHANGED <<generation, connecting, link, process, shownLink>>
ConnectingAwaited ==
    /\ apiClosing = "awaiting" /\ connecting = "idle"
    /\ apiClosing' = "disposing" /\ Disposes(hosted)
    /\ UNCHANGED <<generation, connecting, link, process, shownLink>>

AllDisposed ==
    /\ apiClosing = "disposing"
    /\ process' = EndedDisposed /\ disposed' = 0
    /\ apiClosing' = "closed" /\ shownLink' = "closed"
    /\ UNCHANGED <<generation, connecting, hosted, link>>

-----------------------------------------------------------------------------
(* The process dies, and its client finds out; or the client gives up a    *)
(* Node that breaks the protocol, and the process may live on.             *)

Dies(g) ==
    /\ process[g] = "alive" /\ process' = Ended(g)
    /\ UNCHANGED <<generation, connecting, apiClosing, hosted, link, disposed, shownLink>>

LinkFails ==
    /\ hosted # 0 /\ connecting = "idle" /\ link = "connected"
    /\ link' = "disconnected" /\ Shown("disconnected")
    /\ UNCHANGED <<generation, connecting, apiClosing, hosted, disposed, process>>

HostedContinues ==
    \/ OldDisposed \/ Launched \/ LaunchFails \/ Started \/ Accepted \/ HandshakeFails \/ Undone
    \/ ConnectingAwaited \/ AllDisposed

HostedNext ==
    \/ Connect \/ Close \/ HostedContinues
    \/ LinkFails \/ \E g \in Hosts : Dies(g)

(* Each await returns.  For the handshake this is an assumption about the  *)
(* Node: it answers, or its process ends.  There is no timeout for it, and *)
(* close() awaits it too.                                                  *)
HostedSpec == HostedInit /\ [][HostedNext]_hostedVars /\ WF_hostedVars(HostedContinues)

-----------------------------------------------------------------------------
(* Properties *)

(* Every variable has its type. *)
HostedTypeOK ==
    /\ generation \in 0 .. MaxConnects + 1
    /\ connecting \in Steps /\ apiClosing \in {"no", "awaiting", "disposing", "closed"}
    /\ hosted \in 0..MaxConnects /\ disposed \in 0..MaxConnects
    /\ link \in Links /\ shownLink \in Links \cup {"closing", "closed"}
    /\ process \in [Hosts -> {"none", "alive", "dead"}]

(***************************************************************************)
(* There are never two Node processes, however often the connection fails, *)
(* is made again or closed meanwhile: the leases of sessions are kept in   *)
(* the memory of one.  _connectFresh                                       *)
(***************************************************************************)
OneNode == \A g, h \in Hosts : process[g] = "alive" /\ process[h] = "alive" => g = h

(***************************************************************************)
(* When close() is over no process is left, and none is started later,     *)
(* also if a connection was being made.  _close                            *)
(***************************************************************************)
NothingHosted ==
    apiClosing = "closed" => connecting = "idle" /\ \A g \in Hosts : process[g] # "alive"

(***************************************************************************)
(* What is shown as connected is the session that requests go to, and its  *)
(* client is connected.  _emitConnection, _requireConnectedApi             *)
(***************************************************************************)
ShownIsHosted == shownLink = "connected" => hosted # 0 /\ link = "connected"

(***************************************************************************)
(* The application has one Node while it is open, none after, and knows    *)
(* which.                                                                  *)
(***************************************************************************)
HostingRight == OneNode /\ NothingHosted /\ ShownIsHosted

(* close() ends, also while a connection is being made.  _close            *)
HostedCloseEnds == apiClosing = "awaiting" ~> apiClosing = "closed"
=============================================================================
