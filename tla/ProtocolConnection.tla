------------------------- MODULE ProtocolConnection -------------------------
(***************************************************************************)
(* One connection of a client to a Pi Node process, from the handshake to  *)
(* the end of the process: which operations reach the domain, and what the *)
(* client makes of the answers.                                            *)
(*   node/src/protocol/pi-node-protobuf-connection.ts                      *)
(*   node/src/stdio/pi-node-stdio-server.ts, node/src/stdio-main.ts        *)
(*   lib/api/pi_node/pi_node_client.dart                                   *)
(*   lib/protocol/protobuf_pi_protocol_codec.dart                          *)
(*   lib/transport/local_direct_pi_transport_io.dart                       *)
(*                                                                         *)
(* The Node handles one frame at a time: it awaits the domain before it    *)
(* takes the next.  Events are in SessionEvents, the frames of a transfer  *)
(* in Transfer, the bytes of a frame in IpcFraming.                        *)
(*                                                                         *)
(* An operator Faulty* is no part of the specification: it is the operator *)
(* below it with a plausible mistake, which a property must refute.        *)
(***************************************************************************)
EXTENDS Naturals, Sequences, FiniteSets, Functions

CONSTANTS
    Kinds,             \* kinds of operations the application uses
    Projects,          \* projects it may name
    Commands,          \* command identifiers; it may use one again
    NodeVersions,      \* SUPPORTED_UNPUBLISHED_PROTOCOL_VERSIONS
    NodeCapabilities,  \* SUPPORTED_PROTOCOL_CAPABILITIES
    Offers,            \* offers a client may make: versions, by preference, and capabilities
    MaxRequests,       \* bound: operations of the application
    MaxTracked,        \* MAX_TRACKED_IDENTIFIERS
    PipeSize,          \* frames the pipe to the Node holds
    None

(* What validateTransportFrame asks of an offer. *)
AcceptsOffer(offer) ==
    /\ offer.versions \in Seq(Nat) /\ offer.versions # <<>>
    /\ \A i, j \in DOMAIN offer.versions : i # j => offer.versions[i] # offer.versions[j]

ASSUME ConnectionAssumption ==
    /\ MaxRequests \in Nat /\ MaxTracked \in Nat \ {0} /\ PipeSize \in Nat \ {0}
    /\ None \notin Projects \cup Commands
    /\ \A o \in Offers : AcceptsOffer(o)

VARIABLES
    client,     \* PiNodeClient and its codec
    result,     \* what the application has of each of its operations
    outgoing,   \* frames the transport has not written yet
    toNode,     \* the pipe to the Node
    toClient,   \* the pipe to the client
    transport,  \* LocalDirectPiTransport
    node,       \* PiNodeProtobufConnection and the process around it
    handler,    \* the request the Node handles
    called,     \* history: how often each command reached the domain
    carried     \* history: the operations the domain carried out, `unsent` the
                \* ones of them whose answer the codec refused

vars == <<client, result, outgoing, toNode, toClient, transport, node, handler, called, carried>>

-----------------------------------------------------------------------------
(* Operations.                                                             *)

Request == 1 .. MaxRequests

DomainCommands == {"prompt", "abort"}
Administrations == {"rename", "clearName", "autoName", "delete"}
TreeMutations == {"navigate", "fork", "clone"}
CommandKinds == DomainCommands \cup Administrations \cup TreeMutations
Discoveries == {"bootstrap", "validate", "known", "trust"}
Transfers == {"content", "export"}
Queries == {"browse", "list", "get", "create", "tree", "history", "stats", "health"}
AllKinds == CommandKinds \cup Discoveries \cup Transfers \cup Queries

ASSUME KindsAssumption == Kinds \subseteq AllKinds

(* The capabilities a handler requires, "health" being one nobody offers.  *)
Required(kind) ==
    CASE kind \in {"bootstrap", "browse", "validate", "known"} -> {"discovery"}
      [] kind \in Administrations -> {"admin"}
      [] kind \in TreeMutations \cup {"tree"} -> {"tree"}
      [] kind \in {"list", "get"} -> {"read"}
      [] kind \in Transfers -> {kind, "transfer", "flowControl", "cancellation"}
      [] OTHER -> {kind}

NeedsProject(kind) ==
    kind \notin DomainCommands \cup {"bootstrap", "browse", "validate", "known", "health"}

(* An answer that carries data may not fit a frame. *)
MayBeLarge(kind) == kind \notin DomainCommands \cup Transfers

-----------------------------------------------------------------------------
(* State.                                                                  *)

Results == {"none", "pending", "ok", "rejected", "uncertain", "failed"}

NoRequest == [id |-> 0, kind |-> "health", command |-> None, project |-> None]

Init ==
    /\ \E offer \in Offers :
          client = [status |-> "new", offer |-> offer, capabilities |-> {}, next |-> 1,
                    sequence |-> 0, seen |-> 0, told |-> {}, asked |-> [r \in Request |-> NoRequest],
                    error |-> "none"]
    /\ result = [r \in Request |-> "none"]
    /\ outgoing = <<>> /\ toNode = <<>> /\ toClient = <<>>
    /\ transport = "open"
    /\ node = [phase |-> "serving", handshake |-> "awaiting", capabilities |-> {}, received |-> 0,
               sent |-> 0, requests |-> {}, commands |-> {}, projects |-> {}, violation |-> "none"]
    /\ handler = NoRequest
    /\ called = [c \in Commands |-> 0]
    /\ carried = [done |-> {}, unsent |-> {}]

historyVars == <<called, carried>>
nodeVars == <<node, handler, called, carried>>
clientVars == <<client, result>>

-----------------------------------------------------------------------------
(* The client.                                                             *)

Waiting == {r \in Request : result[r] = "pending"}

(* What an operation that gets no answer is told: a command may have been  *)
(* carried out.                                                            *)
FaultyLost(kind) == "failed"
Lost(kind) == IF kind \in CommandKinds THEN "uncertain" ELSE "failed"

FaultyAllLost == result
AllLost == [r \in Request |-> IF r \in Waiting THEN Lost(client.asked[r].kind) ELSE result[r]]

CloseTransport == transport' = IF transport = "open" THEN "closing" ELSE transport

(* Every pending operation fails; the client is of no use any more. *)
FailConnection(error) ==
    /\ client' = [client EXCEPT !.status = "lost", !.error = error]
    /\ result' = AllLost

(* connect(), and its microtask that sends the offer. *)
Connect ==
    /\ client.status = "new"
    /\ client' = [client EXCEPT !.status = "offering"]
    /\ UNCHANGED <<result, outgoing, toNode, toClient, transport, nodeVars>>

SendOffer ==
    /\ client.status = "offering"
    /\ client' = [client EXCEPT !.status = "connecting", !.sequence = @ + 1]
    /\ outgoing' = Append(outgoing, [seq |-> client.sequence + 1, type |-> "offer",
                                     request |-> NoRequest])
    /\ UNCHANGED <<result, toNode, toClient, transport, nodeVars>>

(* An operation takes its request identifier whether or not the codec can  *)
(* encode it; only a frame that is sent takes a frame sequence.            *)
FaultyEncodeFails == [client EXCEPT !.next = @ + 1, !.sequence = @ + 1]
EncodeFails == [client EXCEPT !.next = @ + 1]

Operate(kind, command, project) ==
    /\ client.status = "connected" /\ client.next \in Request
    /\ (command = None) = (kind \notin CommandKinds)
    /\ (project = None) = ~NeedsProject(kind)
    /\ LET request == [id |-> client.next, kind |-> kind, command |-> command,
                       project |-> project]
       IN  \/ /\ client' = EncodeFails
              /\ result' = [result EXCEPT ![client.next] = "failed"]
              /\ UNCHANGED outgoing
           \/ /\ client' = [client EXCEPT !.next = @ + 1, !.sequence = @ + 1,
                               !.asked[client.next] = request]
              /\ result' = [result EXCEPT ![client.next] = "pending"]
              /\ outgoing' = Append(outgoing, [seq |-> client.sequence + 1, type |-> "request",
                                               request |-> request])
    /\ UNCHANGED <<toNode, toClient, transport, nodeVars>>

(* close() *)
Close ==
    /\ client.status \in {"new", "offering", "connecting", "connected", "lost"}
    /\ client' = [client EXCEPT !.status = "closing"]
    /\ result' = AllLost
    /\ CloseTransport
    /\ UNCHANGED <<outgoing, toNode, toClient, nodeVars>>

CloseReturns ==
    /\ client.status = "closing" /\ transport = "done"
    /\ client' = [client EXCEPT !.status = "closed"]
    /\ UNCHANGED <<result, outgoing, toNode, toClient, transport, nodeVars>>

-----------------------------------------------------------------------------
(* The client reads: while it closes, and after it failed, nothing counts. *)

Listening == client.status \in {"offering", "connecting", "connected"}
Seen(f) == [client EXCEPT !.seen = f.seq]

TakeFrame(f) ==
    /\ toClient # <<>> /\ f = Head(toClient) /\ toClient' = Tail(toClient)

(* A frame out of sequence, and an error without correlation, which the    *)
(* codec does not know, cannot be decoded.                                 *)
Malformed(f) == f.seq # client.seen + 1 \/ f.type = "violation"

(* Frames that the handshake does not expect, and answers nobody waits     *)
(* for, are failures as well.                                              *)
Unexpected(f) ==
    \/ Malformed(f)
    \/ client.status = "connected" /\ ~(f.type = "answer" /\ f.id \in Waiting)
    \/ client.status # "connected" /\ f.type = "answer"

Usable(f) == f.type = "accepted" /\ f.version \in Range(client.offer.versions)

ReadHandshake(f) ==
    /\ TakeFrame(f) /\ Listening /\ ~Unexpected(f) /\ f.type # "answer"
    /\ \/ /\ Usable(f)
          /\ client' = [Seen(f) EXCEPT !.status = "connected", !.capabilities = f.capabilities]
          /\ UNCHANGED <<result, transport>>
       \/ /\ ~Usable(f)
          /\ FailConnection("protocolMismatch") /\ CloseTransport
    /\ UNCHANGED <<outgoing, toNode, nodeVars>>

Outcome(how) ==
    CASE how = "done" -> "ok" [] how = "uncertain" -> "uncertain" [] OTHER -> "rejected"

ReadAnswer(f) ==
    /\ TakeFrame(f) /\ Listening /\ ~Unexpected(f) /\ f.type = "answer"
    /\ result' = [result EXCEPT ![f.id] = Outcome(f.how)]
    /\ client' = [Seen(f) EXCEPT !.told = @ \cup f.projects]
    /\ UNCHANGED <<outgoing, toNode, transport, nodeVars>>

ReadUnexpected(f) ==
    /\ TakeFrame(f) /\ Listening /\ Unexpected(f)
    /\ FailConnection(IF Malformed(f) THEN "malformedFrame" ELSE "unexpectedResponse")
    /\ CloseTransport
    /\ UNCHANGED <<outgoing, toNode, nodeVars>>

ReadInVain(f) ==
    /\ TakeFrame(f) /\ ~Listening
    /\ UNCHANGED <<clientVars, outgoing, toNode, transport, nodeVars>>

(* The Node process is gone, and its output read. *)
SeeEnd ==
    /\ node.phase = "exited" /\ toClient = <<>> /\ Listening
    /\ FailConnection("disconnected")
    /\ UNCHANGED <<outgoing, toNode, toClient, transport, nodeVars>>

-----------------------------------------------------------------------------
(* The transport: one write after the other; to close it, the writes are   *)
(* awaited, the input of the Node is closed, and the process is killed if  *)
(* it does not end in time.                                                *)

WriteFrame ==
    /\ outgoing # <<>> /\ node.phase # "exited" /\ Len(toNode) < PipeSize
    /\ toNode' = Append(toNode, Head(outgoing)) /\ outgoing' = Tail(outgoing)
    /\ UNCHANGED <<clientVars, toClient, transport, nodeVars>>

(* The operation of a frame that cannot be written fails by itself. *)
WriteFails ==
    /\ outgoing # <<>> /\ node.phase = "exited"
    /\ outgoing' = Tail(outgoing)
    /\ LET f == Head(outgoing) IN
       \/ /\ f.type = "request" /\ f.request.id \in Waiting
          /\ result' = [result EXCEPT ![f.request.id] = Lost(f.request.kind)]
          /\ UNCHANGED client
       \/ f.type = "request" /\ f.request.id \notin Waiting /\ UNCHANGED clientVars
       \/ f.type = "offer" /\ Listening /\ FailConnection("disconnected")
       \/ f.type = "offer" /\ ~Listening /\ UNCHANGED clientVars
    /\ UNCHANGED <<toNode, toClient, transport, nodeVars>>

CloseInput ==
    /\ transport = "closing" /\ outgoing = <<>>
    /\ transport' = "inputClosed"
    /\ UNCHANGED <<clientVars, outgoing, toNode, toClient, nodeVars>>

ProcessEnds == node' = [node EXCEPT !.phase = "exited"] /\ handler' = NoRequest

FaultyMayKill == transport = "inputClosed" /\ node.phase = "serving" /\ handler = NoRequest
MayKill == transport = "inputClosed" /\ node.phase # "exited"

Kill ==
    /\ MayKill /\ ProcessEnds
    /\ UNCHANGED <<clientVars, outgoing, toNode, toClient, transport, historyVars>>

TransportDone ==
    /\ transport = "inputClosed" /\ node.phase = "exited" /\ toClient = <<>>
    /\ transport' = "done"
    /\ UNCHANGED <<clientVars, outgoing, toNode, toClient, nodeVars>>

-----------------------------------------------------------------------------
(* The Node: its handshake.                                                *)

Idle == node.phase = "serving" /\ handler = NoRequest

(* #sendOperation numbers a frame once it is known to fit. *)
SendFrame(f) == toClient' = Append(toClient, f)
Sent(n) == [n EXCEPT !.sent = @ + 1]

AnswerTo(request, how, projects) ==
    [seq |-> node.sent + 1, type |-> "answer", id |-> request.id, how |-> how,
     projects |-> projects]

TakeRequest(f) ==
    /\ Idle /\ toNode # <<>> /\ f = Head(toNode) /\ toNode' = Tail(toNode)
    /\ UNCHANGED <<clientVars, outgoing, transport>>

InSequence(f) == f.seq = node.received + 1

(* failProtocol: an error that answers nothing, and the end. *)
FailProtocol(violation) ==
    /\ SendFrame([seq |-> node.sent + 1, type |-> "violation"])
    /\ node' = [Sent(node) EXCEPT !.phase = "disposing", !.violation = violation]

Chosen(versions) ==
    LET usable == {i \in DOMAIN versions : versions[i] \in NodeVersions}
    IN  IF usable = {} THEN 0 ELSE CHOOSE i \in usable : \A j \in usable : i <= j

FaultyNegotiated(offer) == NodeCapabilities
Negotiated(offer) == offer.capabilities \cap NodeCapabilities

HandleOffer(f) ==
    /\ TakeRequest(f) /\ f.type = "offer" /\ InSequence(f) /\ node.handshake = "awaiting"
    /\ LET i == Chosen(client.offer.versions)
           both == Negotiated(client.offer)
           n == [Sent(node) EXCEPT !.received = f.seq]
       IN  \/ /\ i = 0
              /\ SendFrame([seq |-> node.sent + 1, type |-> "rejected"])
              /\ node' = [n EXCEPT !.handshake = "rejected", !.phase = "disposing"]
           \/ /\ i # 0
              /\ SendFrame([seq |-> node.sent + 1, type |-> "accepted",
                            version |-> client.offer.versions[i], capabilities |-> both])
              /\ node' = [n EXCEPT !.handshake = "accepted", !.capabilities = both]
    /\ UNCHANGED <<handler, historyVars>>

HandleBadFrame(f) ==
    /\ TakeRequest(f)
    /\ ~InSequence(f) \/ (f.type = "offer") # (node.handshake = "awaiting")
    /\ FailProtocol("frame")
    /\ UNCHANGED <<handler, historyVars>>

-----------------------------------------------------------------------------
(* The Node: a request is claimed, then a command, then the capabilities   *)
(* are required, then the project; what fails is refused, or ends the      *)
(* connection if too many identifiers were used.                           *)

ClaimsRequest(q) == Cardinality(node.requests) < MaxTracked /\ q.id \notin node.requests

FaultyClaimsCommand(q) == TRUE
ClaimsCommand(q) == q.command = None \/ q.command \notin node.commands

IdentifiersExhausted(q) ==
    \/ Cardinality(node.requests) >= MaxTracked
    \/ /\ q.id \notin node.requests
       /\ q.command # None /\ Cardinality(node.commands) >= MaxTracked

Claimed(q) ==
    [node EXCEPT !.received = @ + 1,
        !.requests = IF Cardinality(@) < MaxTracked THEN @ \cup {q.id} ELSE @,
        !.commands = IF ClaimsRequest(q) /\ q.command # None /\ Cardinality(@) < MaxTracked
                     THEN @ \cup {q.command} ELSE @]

Permitted(q) == Required(q.kind) \subseteq node.capabilities

Registered(q) == ~NeedsProject(q.kind) \/ q.project \in node.projects

Admitted(q) == ClaimsRequest(q) /\ ClaimsCommand(q) /\ Permitted(q) /\ Registered(q)

Received(f) ==
    TakeRequest(f) /\ f.type = "request" /\ InSequence(f) /\ node.handshake = "accepted"

Exhaust(f) ==
    /\ Received(f) /\ IdentifiersExhausted(f.request)
    /\ FailProtocol("identifiers")
    /\ UNCHANGED <<handler, historyVars>>

Refuse(f) ==
    /\ Received(f) /\ ~IdentifiersExhausted(f.request) /\ ~Admitted(f.request)
    /\ SendFrame(AnswerTo(f.request, "refused", {}))
    /\ node' = Sent(Claimed(f.request))
    /\ UNCHANGED <<handler, historyVars>>

CallDomain(f) ==
    /\ Received(f) /\ ~IdentifiersExhausted(f.request) /\ Admitted(f.request)
    /\ handler' = f.request
    /\ node' = Claimed(f.request)
    /\ called' = IF f.request.command = None THEN called
                 ELSE [called EXCEPT ![f.request.command] = @ + 1]
    /\ UNCHANGED <<toClient, carried>>

-----------------------------------------------------------------------------
(* The domain returns.  An answer the codec refuses, as too large or for   *)
(* what it holds (the handler's catch), is replaced by a rejection, though *)
(* the operation was carried out.                                          *)

Learns(q, projects) ==
    IF q.kind \notin Discoveries THEN {}
    ELSE IF q.kind = "trust" THEN {q.project} ELSE projects

FaultyRegister(q, projects) == IF q.kind = "known" THEN {} ELSE Learns(q, projects)
Register(q, projects) == Learns(q, projects)

Answer(how, projects) ==
    /\ SendFrame(AnswerTo(handler, how, projects))
    /\ handler' = NoRequest

Running == node.phase = "serving" /\ handler # NoRequest

DomainSucceeds(projects) ==
    /\ Running /\ (handler.kind \notin Discoveries \ {"trust"} => projects = {})
    /\ \/ /\ Answer("done", Learns(handler, projects))
          /\ carried' = [carried EXCEPT !.done = @ \cup {handler.id}]
       \/ /\ MayBeLarge(handler.kind)
          /\ \E how \in {"tooLarge", "failed"} : Answer(how, {})
          /\ carried' = [done |-> carried.done \cup {handler.id},
                         unsent |-> carried.unsent \cup {handler.id}]
    /\ node' = [Sent(node) EXCEPT !.projects = @ \cup Register(handler, projects)]
    /\ UNCHANGED <<clientVars, outgoing, toNode, transport, called>>

DomainFails ==
    /\ Running
    /\ Answer("failed", {})
    /\ node' = Sent(node)
    /\ UNCHANGED <<clientVars, outgoing, toNode, transport, historyVars>>

(* The admission of a prompt could not be confirmed. *)
DomainUncertain ==
    /\ Running /\ handler.kind = "prompt"
    /\ Answer("uncertain", {})
    /\ node' = Sent(node)
    /\ carried' \in {carried, [carried EXCEPT !.done = @ \cup {handler.id}]}
    /\ UNCHANGED <<clientVars, outgoing, toNode, transport, called>>

DomainReturns ==
    (\E projects \in SUBSET Projects : DomainSucceeds(projects)) \/ DomainFails \/ DomainUncertain

(* The input ended and was read: the connection and the domain are         *)
(* disposed, as they are after a rejected handshake or a violation.        *)
InputEnds ==
    /\ Idle /\ toNode = <<>> /\ transport \in {"inputClosed", "done"}
    /\ node' = [node EXCEPT !.phase = "disposing"]
    /\ UNCHANGED <<clientVars, outgoing, toNode, toClient, transport, handler, historyVars>>

Disposed ==
    /\ node.phase = "disposing" /\ ProcessEnds
    /\ UNCHANGED <<clientVars, outgoing, toNode, toClient, transport, historyVars>>

Crash ==
    /\ node.phase # "exited" /\ ProcessEnds
    /\ UNCHANGED <<clientVars, outgoing, toNode, toClient, transport, historyVars>>

-----------------------------------------------------------------------------
Application ==
    \/ Connect \/ Close
    \/ \E kind \in Kinds, command \in Commands \cup {None}, project \in Projects \cup {None} :
          Operate(kind, command, project)

ClientReads ==
    \/ SeeEnd
    \/ /\ toClient # <<>>
       /\ LET f == Head(toClient)
          IN  ReadHandshake(f) \/ ReadAnswer(f) \/ ReadUnexpected(f) \/ ReadInVain(f)

TransportRuns == WriteFrame \/ WriteFails \/ CloseInput \/ TransportDone

NodeReads ==
    \/ /\ toNode # <<>>
       /\ LET f == Head(toNode)
          IN  HandleOffer(f) \/ HandleBadFrame(f) \/ Exhaust(f) \/ Refuse(f) \/ CallDomain(f)
    \/ InputEnds

Next ==
    \/ Application \/ SendOffer \/ CloseReturns \/ ClientReads
    \/ TransportRuns \/ Kill
    \/ NodeReads \/ DomainReturns \/ Disposed \/ Crash

Spec == Init /\ [][Next]_vars

(* Both programs run, and the transport kills a Node that does not end.    *)
(* The application need not do anything, the domain need not return, and   *)
(* no process need crash.                                                  *)
Fairness ==
    /\ WF_vars(SendOffer) /\ WF_vars(CloseReturns) /\ WF_vars(ClientReads)
    /\ WF_vars(TransportRuns) /\ WF_vars(Kill)
    /\ WF_vars(NodeReads) /\ WF_vars(Disposed)

FairSpec == Spec /\ Fairness

-----------------------------------------------------------------------------
(* Properties.                                                             *)

RequestIn == [id : Request \cup {0}, kind : AllKinds, command : Commands \cup {None},
              project : Projects \cup {None}]

(* Neither of two correct peers ever accuses the other: the client meets   *)
(* no malformed or unexpected frame and the Node no protocol violation,    *)
(* whatever is refused, cannot be encoded or is written after a close; but *)
(* for one that has used all the identifiers a connection has.             *)
HonestPeersAgree ==
    /\ node.violation \in {"none", "identifiers"}
    /\ node.violation = "identifiers" => client.next > MaxTracked
    /\ client.error \in {"unexpectedResponse", "malformedFrame"} => node.violation = "identifiers"
    /\ client.error = "protocolMismatch" =>
          Range(client.offer.versions) \cap NodeVersions = {}

(* A command identifier reaches the domain at most once on a connection,   *)
(* also when the application, told that an outcome is uncertain, sends it  *)
(* again, or the first use of it was refused (#claimCommand).              *)
CommandOnce == \A c \in Commands : called[c] <= 1

(* What the application is told of an operation is so: `ok` of what was    *)
(* carried out; never that a command failed or was rejected which was      *)
(* carried out, unless the codec refused its answer                        *)
(* (#sendRequestOperation, _PendingOperation.fail).                        *)
ResultsTruthful ==
    \A r \in Request :
        /\ result[r] = "ok" => r \in carried.done
        /\ result[r] = "rejected" => r \notin carried.done \ carried.unsent
        /\ result[r] = "failed" /\ r \in carried.done => client.asked[r].kind \notin CommandKinds

(***************************************************************************)
(* A command is carried out at most once, and the application is told what *)
(* became of it.                                                           *)
(***************************************************************************)
CommandsTruthful == CommandOnce /\ ResultsTruthful

(* Both sides hold the same negotiated capabilities, and the Node calls    *)
(* its domain for nothing the client did not offer.                        *)
NegotiationAgrees ==
    /\ client.status = "connected" => client.capabilities = node.capabilities
    /\ handler # NoRequest => Required(handler.kind) \subseteq client.offer.capabilities

(* A project the Node told this client of is one the Node has registered:  *)
(* an operation in it is not refused as naming an unknown project.         *)
ToldProjectsAreKnown == node.phase = "serving" => client.told \subseteq node.projects

(***************************************************************************)
(* The two ends of a connection never disagree: on what is a legal frame,  *)
(* on what was negotiated, or on which projects there are.                 *)
(***************************************************************************)
PeersAgree == HonestPeersAgree /\ NegotiationAgrees /\ ToldProjectsAreKnown

(* If the domain returns from every call, every operation ends for the     *)
(* application: it is answered, or fails with the connection, whatever is  *)
(* refused, crashes or is closed in between.                               *)
OperationEnds ==
    []<>(handler = NoRequest) =>
        \A r \in Request : (result[r] = "pending") ~> (result[r] # "pending")

(* close() returns, with the Node process ended, also when the domain      *)
(* never returns from a call, once what was written before is in the pipe. *)
CloseEnds ==
    client.status = "closing" /\ outgoing = <<>> ~> client.status = "closed" /\ node.phase = "exited"
=============================================================================
