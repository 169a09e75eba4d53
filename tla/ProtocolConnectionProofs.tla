------------------------ MODULE ProtocolConnectionProofs ------------------------
(***************************************************************************)
(* Proofs about ProtocolConnection, for any operations, projects,          *)
(* commands, offers and limits, and about the framing below it, IpcFraming.*)
(*                                                                         *)
(* Neither peer sees the other's tables of identifiers: the invariant      *)
(* relates both to the frames on their way between them.  Its parts are,   *)
(* beside the types,                                                       *)
(*   Numbers    the frames on their way go on from the last one read, and  *)
(*              the handshake is the first of either direction;            *)
(*   Requests   a request on its way is one the client remembers and the   *)
(*              Node has not seen;                                         *)
(*   Answers    an answer on its way is the only one of an operation that  *)
(*              waits for it, and says what the domain did;                *)
(*   Tables     what the Node has counted of identifiers and commands.     *)
(* TLC finds no state of the instance of run `connection` that violates it.*)
(***************************************************************************)
EXTENDS ProtocolConnection, IpcFraming, FiniteSetTheorems, SequenceTheorems,
        WellFoundedInduction, TLAPS

(* Types *)

(* A request names a command or a project exactly if its kind needs one. *)
RequestOf ==
    {q \in RequestIn : /\ q.command = None <=> q.kind \notin CommandKinds
                       /\ q.project = None <=> ~NeedsProject(q.kind)}

ClientRecord ==
    [status : {"new", "offering", "connecting", "connected", "lost", "closing", "closed"},
     offer : Offers, capabilities : SUBSET NodeCapabilities, next : Nat \ {0}, sequence : Nat,
     seen : Nat, told : SUBSET Projects, asked : [Request -> RequestOf],
     error : {"none", "protocolMismatch", "malformedFrame", "unexpectedResponse", "disconnected"}]

NodeRecord ==
    [phase : {"serving", "disposing", "exited"}, handshake : {"awaiting", "accepted", "rejected"},
     capabilities : SUBSET NodeCapabilities, received : Nat, sent : Nat,
     requests : SUBSET Request, commands : SUBSET Commands, projects : SUBSET Projects,
     violation : {"none", "frame", "identifiers"}]

OutFrame == [seq : Nat, type : {"offer", "request"}, request : RequestOf]
ViolationFrame == [seq : Nat, type : {"violation"}]
RejectedFrame == [seq : Nat, type : {"rejected"}]
AcceptedFrame ==
    [seq : Nat, type : {"accepted"}, version : Nat, capabilities : SUBSET NodeCapabilities]
AnswerFrame ==
    [seq : Nat, type : {"answer"}, id : Request,
     how : {"done", "tooLarge", "failed", "uncertain", "refused"}, projects : SUBSET Projects]
InFrame == ViolationFrame \cup RejectedFrame \cup AcceptedFrame \cup AnswerFrame

ConnectionTypeOK ==
    /\ client \in ClientRecord /\ result \in [Request -> Results]
    /\ outgoing \in Seq(OutFrame) /\ toNode \in Seq(OutFrame) /\ toClient \in Seq(InFrame)
    /\ transport \in {"open", "closing", "inputClosed", "done"}
    /\ node \in NodeRecord /\ handler \in RequestOf
    /\ called \in [Commands -> Nat]
    /\ carried \in [done : SUBSET Request, unsent : SUBSET Request]

-----------------------------------------------------------------------------
(* The invariant *)

OnTheirWay == {toNode[i] : i \in DOMAIN toNode} \cup {outgoing[i] : i \in DOMAIN outgoing}

(* Frames to the Node: the first is the offer. *)
NumbersOut ==
    /\ \A i \in DOMAIN outgoing : outgoing[i].seq + Len(outgoing) = client.sequence + i
    /\ node.phase # "exited" =>
          \A i \in DOMAIN toNode :
              toNode[i].seq + Len(toNode) + Len(outgoing) = client.sequence + i
    /\ node.phase = "serving" =>
          /\ node.received + Len(toNode) + Len(outgoing) = client.sequence
          /\ node.handshake = IF node.received = 0 THEN "awaiting" ELSE "accepted"
    /\ client.status \in {"new", "offering"} => client.sequence = 0
    /\ client.status \in {"connecting", "connected"} => client.sequence > 0
    /\ \A f \in OnTheirWay :
          f.seq \in 1 .. client.sequence /\ (f.type = "offer" <=> f.seq = 1)

(* Frames to the client: the first is the answer to the offer. *)
NumbersIn ==
    /\ \A i \in DOMAIN toClient : toClient[i].seq + Len(toClient) = node.sent + i
    /\ Len(toClient) <= node.sent
    /\ node.sent > 0 => client.sequence > 0
    /\ client.status = "new" => client.seen = 0
    /\ Listening =>
          /\ client.seen + Len(toClient) = node.sent
          /\ client.status = "connected" <=> client.seen > 0
    /\ node.handshake = "awaiting" <=> node.sent = 0
    /\ \A i \in DOMAIN toClient :
          toClient[i].type \in {"accepted", "rejected"} <=> toClient[i].seq = 1

Numbers == NumbersOut /\ NumbersIn

(* Requests on their way have the identifiers that the client gave them,   *)
(* in its order, and the Node none of them.                                *)
Requests ==
    /\ \A f \in OnTheirWay :
          /\ f.request.id < client.next
          /\ f.type = "request" =>
                /\ f.request.id # 0 /\ f.request = client.asked[f.request.id]
                /\ result[f.request.id] \in {"pending", Lost(f.request.kind)}
                /\ Listening /\ node.phase = "serving" => result[f.request.id] = "pending"
          /\ \A r \in node.requests : r < f.request.id
    /\ \A f, g \in OnTheirWay : f.seq < g.seq => f.request.id < g.request.id

(* The operation the Node is at has not been answered. *)
Handled ==
    handler # NoRequest =>
        /\ node.phase = "serving" /\ node.handshake = "accepted"
        /\ handler.id \in node.requests /\ handler = client.asked[handler.id]
        /\ handler.id \notin carried.done
        /\ result[handler.id] \in {"pending", Lost(handler.kind)}
        /\ Listening => result[handler.id] = "pending"
        /\ Required(handler.kind) \subseteq node.capabilities
        /\ \A i \in DOMAIN toClient : toClient[i].type = "answer" => toClient[i].id # handler.id

(* An answer says what became of the operation, and waits to be read by it.*)
Answers ==
    \A i \in DOMAIN toClient :
        LET f == toClient[i] IN
        /\ f.type = "answer" =>
              /\ f.id \in node.requests /\ f.projects \subseteq node.projects
              /\ f.how = "done" => f.id \in carried.done
              /\ f.how \notin {"done", "uncertain"} => f.id \notin carried.done \ carried.unsent
              /\ Listening => result[f.id] = "pending"
              /\ \A j \in DOMAIN toClient :
                    j # i /\ toClient[j].type = "answer" => toClient[j].id # f.id
        /\ f.type = "accepted" =>
              f.version \in Range(client.offer.versions) /\ f.capabilities = node.capabilities
        /\ f.type = "rejected" => Range(client.offer.versions) \cap NodeVersions = {}
        /\ f.type = "violation" => node.violation = "identifiers"

(* The Node has claimed an identifier for every operation, and a command   *)
(* for every one it has passed on.                                         *)
Tables ==
    /\ node.requests \subseteq 1 .. client.next - 1
    /\ node.sent = 0 => node.requests = {}
    /\ Cardinality(node.commands) <= Cardinality(node.requests)
    /\ IsFiniteSet(node.commands)
    /\ carried.done \subseteq node.requests
    /\ \A c \in Commands : c \notin node.commands => called[c] = 0
    /\ node.capabilities \subseteq client.offer.capabilities
    /\ client.told \subseteq node.projects
    /\ client.status = "connected" => client.capabilities = node.capabilities

ConnectionInv ==
    /\ ConnectionTypeOK /\ Numbers /\ Requests /\ Handled /\ Answers /\ Tables
    /\ HonestPeersAgree /\ CommandsTruthful

-----------------------------------------------------------------------------
(* Sequences, sets and records                                             *)

LEMMA QueueAppended ==
    ASSUME NEW S, NEW q \in Seq(S), NEW x \in S
    PROVE  /\ Append(q, x) \in Seq(S) /\ Len(Append(q, x)) = Len(q) + 1 /\ Len(q) \in Nat
           /\ DOMAIN Append(q, x) = 1..(Len(q) + 1) /\ DOMAIN q = 1..Len(q)
           /\ Append(q, x)[Len(q) + 1] = x
           /\ \A i \in DOMAIN q : Append(q, x)[i] = q[i] /\ q[i] \in S
  OBVIOUS

LEMMA QueueTaken ==
    ASSUME NEW S, NEW q \in Seq(S), q # <<>>
    PROVE  /\ Head(q) \in S /\ Head(q) = q[1] /\ 1 \in DOMAIN q
           /\ Tail(q) \in Seq(S) /\ DOMAIN Tail(q) = 1..(Len(q) - 1) /\ Len(Tail(q)) = Len(q) - 1
           /\ DOMAIN q = 1..Len(q) /\ Len(q) \in Nat \ {0}
           /\ \A i \in DOMAIN Tail(q) : i + 1 \in DOMAIN q /\ Tail(q)[i] = q[i + 1]
  OBVIOUS

LEMMA SmallestOf ==
    ASSUME NEW S \in SUBSET Nat, S # {}
    PROVE  \E i \in S : \A j \in S : i <= j
  <1>. DEFINE R == OpToRel(<, Nat)
  <1>1. IsWellFoundedOn(R, Nat)
    BY NatLessThanWellFounded
  <1>2. PICK i \in S : \A j \in S : ~(<<j, i>> \in R)
    BY <1>1, WFMin
  <1>3. \A j \in S : ~(j < i)
    BY <1>2 DEF OpToRel
  <1>. QED BY <1>3

(* The Node chooses a version of its own that was offered, if there is one.*)
LEMMA ChosenUsable ==
    ASSUME NEW versions \in Seq(Nat)
    PROVE  /\ Chosen(versions) # 0 =>
                 /\ Chosen(versions) \in DOMAIN versions
                 /\ versions[Chosen(versions)] \in NodeVersions
           /\ Chosen(versions) = 0 => Range(versions) \cap NodeVersions = {}
  <1>. DEFINE usable == {i \in DOMAIN versions : versions[i] \in NodeVersions}
  <1>1. usable \in SUBSET Nat /\ 0 \notin usable
    OBVIOUS
  <1>2. CASE usable = {}
    BY <1>2 DEF Chosen, Range
  <1>3. CASE usable # {}
    <2>1. \E i \in usable : \A j \in usable : i <= j
      BY <1>1, <1>3, SmallestOf
    <2>2. Chosen(versions) = CHOOSE i \in usable : \A j \in usable : i <= j
      BY <1>3 DEF Chosen
    <2>3. Chosen(versions) \in usable
      BY <2>1, <2>2
    <2>. QED BY <2>3, <1>1
  <1>. QED BY <1>2, <1>3

LEMMA ClientFields ==
    ASSUME NEW c \in ClientRecord
    PROVE  /\ \A v \in {"new", "offering", "connecting", "connected", "lost", "closing", "closed"} :
                 [c EXCEPT !.status = v] \in ClientRecord
           /\ \A v \in SUBSET NodeCapabilities : [c EXCEPT !.capabilities = v] \in ClientRecord
           /\ \A v \in Nat \ {0} : [c EXCEPT !.next = v] \in ClientRecord
           /\ \A v \in Nat : /\ [c EXCEPT !.sequence = v] \in ClientRecord
                             /\ [c EXCEPT !.seen = v] \in ClientRecord
           /\ \A v \in SUBSET Projects : [c EXCEPT !.told = v] \in ClientRecord
           /\ \A v \in [Request -> RequestOf] : [c EXCEPT !.asked = v] \in ClientRecord
           /\ \A v \in {"none", "protocolMismatch", "malformedFrame", "unexpectedResponse",
                        "disconnected"} : [c EXCEPT !.error = v] \in ClientRecord
  BY DEF ClientRecord

LEMMA NodeFields ==
    ASSUME NEW n \in NodeRecord
    PROVE  /\ \A v \in {"serving", "disposing", "exited"} : [n EXCEPT !.phase = v] \in NodeRecord
           /\ \A v \in {"awaiting", "accepted", "rejected"} :
                 [n EXCEPT !.handshake = v] \in NodeRecord
           /\ \A v \in SUBSET NodeCapabilities : [n EXCEPT !.capabilities = v] \in NodeRecord
           /\ \A v \in Nat : /\ [n EXCEPT !.received = v] \in NodeRecord
                             /\ [n EXCEPT !.sent = v] \in NodeRecord
           /\ \A v \in SUBSET Request : [n EXCEPT !.requests = v] \in NodeRecord
           /\ \A v \in SUBSET Commands : [n EXCEPT !.commands = v] \in NodeRecord
           /\ \A v \in SUBSET Projects : [n EXCEPT !.projects = v] \in NodeRecord
           /\ \A v \in {"none", "frame", "identifiers"} :
                 [n EXCEPT !.violation = v] \in NodeRecord
  BY DEF NodeRecord

LEMMA NoRequestType == NoRequest \in RequestOf
  BY DEF NoRequest, RequestOf, RequestIn, AllKinds, Queries, CommandKinds, DomainCommands,
         Administrations, TreeMutations, NeedsProject

LEMMA Outcomes ==
    /\ \A kind \in AllKinds : Lost(kind) \in {"uncertain", "failed"}
    /\ \A how : Outcome(how) \in Results
  BY DEF Lost, Outcome, Results

(* What is lost of the operations that wait. *)
LEMMA AllLostEffect ==
    ASSUME ConnectionTypeOK
    PROVE  /\ AllLost \in [Request -> Results]
           /\ \A r \in Request :
                 AllLost[r] = IF result[r] = "pending" THEN Lost(client.asked[r].kind)
                              ELSE result[r]
  BY DEF ConnectionTypeOK, AllLost, Waiting, Lost, Results

-----------------------------------------------------------------------------
(* Types are kept.                                                         *)

LEMMA FrameTypes ==
    ASSUME NEW s \in Nat
    PROVE  /\ \A q \in RequestOf : [seq |-> s, type |-> "request", request |-> q] \in OutFrame
           /\ [seq |-> s, type |-> "offer", request |-> NoRequest] \in OutFrame
           /\ [seq |-> s, type |-> "violation"] \in InFrame
           /\ [seq |-> s, type |-> "rejected"] \in InFrame
           /\ \A v \in Nat, cs \in SUBSET NodeCapabilities :
                 [seq |-> s, type |-> "accepted", version |-> v, capabilities |-> cs] \in InFrame
           /\ \A r \in Request, ps \in SUBSET Projects,
                 h \in {"done", "tooLarge", "failed", "uncertain", "refused"} :
                 [seq |-> s, type |-> "answer", id |-> r, how |-> h, projects |-> ps] \in InFrame
  BY NoRequestType
     DEF OutFrame, InFrame, ViolationFrame, RejectedFrame, AcceptedFrame, AnswerFrame

LEMMA InFrameType ==
    ASSUME NEW f \in InFrame
    PROVE  /\ f.seq \in Nat
           /\ f.type \in {"violation", "rejected", "accepted", "answer"}
           /\ f.type = "accepted" => f.version \in Nat /\ f.capabilities \in SUBSET NodeCapabilities
           /\ f.type = "answer" =>
                 /\ f.id \in Request /\ f.projects \in SUBSET Projects
                 /\ f.how \in {"done", "tooLarge", "failed", "uncertain", "refused"}
  BY DEF InFrame, ViolationFrame, RejectedFrame, AcceptedFrame, AnswerFrame

LEMMA FailTypes ==
    ASSUME ConnectionTypeOK,
           NEW e \in {"none", "protocolMismatch", "malformedFrame", "unexpectedResponse",
                      "disconnected"},
           FailConnection(e)
    PROVE  client' \in ClientRecord /\ result' \in [Request -> Results]
  <1>1. client \in ClientRecord
    BY DEF ConnectionTypeOK
  <1>2. PICK c : c = [client EXCEPT !.status = "lost"]
    OBVIOUS
  <1>3. c \in ClientRecord
    BY <1>1, <1>2, ClientFields, Zenon
  <1>4. client' = [c EXCEPT !.error = e]
    BY <1>1, <1>2 DEF FailConnection, ClientRecord
  <1>5. client' \in ClientRecord
    BY <1>3, <1>4, ClientFields, Zenon
  <1>. QED BY <1>5, AllLostEffect DEF FailConnection

LEMMA ApplicationTypes ==
    ASSUME ConnectionTypeOK, Application \/ SendOffer \/ CloseReturns
    PROVE  ConnectionTypeOK'
  <1>0. client \in ClientRecord /\ result \in [Request -> Results] /\ outgoing \in Seq(OutFrame)
    BY DEF ConnectionTypeOK
  <1>s. client.sequence + 1 \in Nat /\ client.next \in Nat \ {0} /\ client.next + 1 \in Nat \ {0}
    BY <1>0 DEF ClientRecord
  <1>1. CASE Connect
    <2>1. client' \in ClientRecord
      BY <1>0, <1>1, ClientFields, Zenon DEF Connect
    <2>. QED BY <1>1, <2>1 DEF Connect, ConnectionTypeOK, nodeVars
  <1>2. CASE SendOffer
    <2>1. PICK c : c = [client EXCEPT !.status = "connecting"]
      OBVIOUS
    <2>2. c \in ClientRecord
      BY <1>0, <2>1, ClientFields, Zenon
    <2>3. client' = [c EXCEPT !.sequence = client.sequence + 1]
      BY <1>0, <1>2, <2>1 DEF SendOffer, ClientRecord
    <2>4. client' \in ClientRecord
      BY <1>s, <2>2, <2>3, ClientFields, Zenon
    <2>5. outgoing' \in Seq(OutFrame)
      BY <1>0, <1>2, <1>s, FrameTypes, QueueAppended, Zenon DEF SendOffer
    <2>. QED BY <1>2, <2>4, <2>5 DEF SendOffer, ConnectionTypeOK, nodeVars
  <1>3. CASE \E kind \in Kinds, command \in Commands \cup {None}, project \in Projects \cup {None} :
                 Operate(kind, command, project)
    <2>1. PICK kind \in Kinds, command \in Commands \cup {None}, project \in Projects \cup {None} :
                 Operate(kind, command, project)
      BY <1>3
    <2>2. PICK q : q = [id |-> client.next, kind |-> kind, command |-> command,
                        project |-> project]
      OBVIOUS
    <2>3. client.next \in Request /\ q \in RequestOf
      BY <2>1, <2>2, KindsAssumption DEF Operate, RequestOf, RequestIn, NeedsProject
    <2>4. PICK n : n = [client EXCEPT !.next = client.next + 1]
      OBVIOUS
    <2>5. n \in ClientRecord
      BY <1>0, <1>s, <2>4, ClientFields, Zenon
    <2>6. UNCHANGED <<toNode, toClient, transport, nodeVars>>
      BY <2>1 DEF Operate
    <2>7. \/ client' = n /\ result' = [result EXCEPT ![client.next] = "failed"]
             /\ UNCHANGED outgoing
          \/ /\ client' = [client EXCEPT !.next = @ + 1, !.sequence = @ + 1,
                               !.asked[client.next] = q]
             /\ result' = [result EXCEPT ![client.next] = "pending"]
             /\ outgoing' = Append(outgoing, [seq |-> client.sequence + 1, type |-> "request",
                                              request |-> q])
      BY <2>1, <2>2, <2>4 DEF Operate, EncodeFails
    <2>8. result' \in [Request -> Results]
      BY <1>0, <2>3, <2>7 DEF Results
    <2>9. client' \in ClientRecord
      <3>1. CASE client' = n
        BY <2>5, <3>1
      <3>2. CASE client' = [client EXCEPT !.next = @ + 1, !.sequence = @ + 1,
                               !.asked[client.next] = q]
        <4>1. PICK m : m = [n EXCEPT !.sequence = client.sequence + 1]
          OBVIOUS
        <4>2. m \in ClientRecord
          BY <1>s, <2>5, <4>1, ClientFields, Zenon
        <4>3. PICK a : a = [client.asked EXCEPT ![client.next] = q]
          OBVIOUS
        <4>4. a \in [Request -> RequestOf]
          BY <1>0, <2>3, <4>3 DEF ClientRecord
        <4>5. client' = [m EXCEPT !.asked = a]
          BY <1>0, <2>4, <3>2, <4>1, <4>3 DEF ClientRecord
        <4>. QED BY <4>2, <4>4, <4>5, ClientFields, Zenon
      <3>. QED BY <2>7, <3>1, <3>2
    <2>10. outgoing' \in Seq(OutFrame)
      <3>1. [seq |-> client.sequence + 1, type |-> "request", request |-> q] \in OutFrame
        BY <1>s, <2>3, FrameTypes
      <3>. QED BY <1>0, <2>7, <3>1, QueueAppended
    <2>. QED BY <2>6, <2>8, <2>9, <2>10 DEF ConnectionTypeOK, nodeVars
  <1>4. CASE Close
    <2>1. client' \in ClientRecord
      BY <1>0, <1>4, ClientFields, Zenon DEF Close
    <2>2. result' \in [Request -> Results]
      BY <1>4, AllLostEffect DEF Close
    <2>. QED BY <1>4, <2>1, <2>2 DEF Close, CloseTransport, ConnectionTypeOK, nodeVars
  <1>5. CASE CloseReturns
    <2>1. client' \in ClientRecord
      BY <1>0, <1>5, ClientFields, Zenon DEF CloseReturns
    <2>. QED BY <1>5, <2>1 DEF CloseReturns, ConnectionTypeOK, nodeVars
  <1>. QED BY <1>1, <1>2, <1>3, <1>4, <1>5 DEF Application

LEMMA ReadTypes ==
    ASSUME ConnectionTypeOK, ClientReads
    PROVE  ConnectionTypeOK'
  <1>0. client \in ClientRecord /\ result \in [Request -> Results] /\ toClient \in Seq(InFrame)
    BY DEF ConnectionTypeOK
  <1>1. CASE SeeEnd
    BY <1>1, FailTypes DEF SeeEnd, ConnectionTypeOK, nodeVars
  <1>2. CASE toClient # <<>>
    <2>1. PICK f : f = Head(toClient)
      OBVIOUS
    <2>2. f \in InFrame /\ Tail(toClient) \in Seq(InFrame) /\ f.seq \in Nat
      BY <1>0, <1>2, <2>1, QueueTaken, InFrameType
    <2>3. PICK c : c = Seen(f)
      OBVIOUS
    <2>4. c \in ClientRecord
      BY <1>0, <2>2, <2>3, ClientFields, Zenon DEF Seen
    <2>5. CASE ReadHandshake(f)
      <3>1. CASE /\ Usable(f)
                 /\ client' = [Seen(f) EXCEPT !.status = "connected",
                                             !.capabilities = f.capabilities]
                 /\ UNCHANGED <<result, transport>>
        <4>1. f.capabilities \in SUBSET NodeCapabilities
          BY <2>2, <3>1, InFrameType DEF Usable
        <4>2. PICK d : d = [c EXCEPT !.status = "connected"]
          OBVIOUS
        <4>3. d \in ClientRecord
          BY <2>4, <4>2, ClientFields, Zenon
        <4>4. client' = [d EXCEPT !.capabilities = f.capabilities]
          BY <2>3, <2>4, <3>1, <4>2 DEF ClientRecord
        <4>5. client' \in ClientRecord
          BY <4>1, <4>3, <4>4, ClientFields, Zenon
        <4>. QED BY <2>2, <2>5, <3>1, <4>5, <2>1 DEF ReadHandshake, TakeFrame, ConnectionTypeOK, nodeVars
      <3>2. CASE FailConnection("protocolMismatch") /\ CloseTransport
        BY <2>1, <2>2, <2>5, <3>2, FailTypes
           DEF ReadHandshake, TakeFrame, CloseTransport, ConnectionTypeOK, nodeVars
      <3>. QED BY <2>5, <3>1, <3>2 DEF ReadHandshake
    <2>6. CASE ReadAnswer(f)
      <3>1. f.id \in Request /\ f.projects \in SUBSET Projects
        BY <2>2, <2>6, InFrameType DEF ReadAnswer
      <3>2. client.told \cup f.projects \in SUBSET Projects
        BY <1>0, <3>1 DEF ClientRecord
      <3>3. client' = [c EXCEPT !.told = client.told \cup f.projects]
        BY <1>0, <2>3, <2>6 DEF ReadAnswer, Seen, ClientRecord
      <3>4. client' \in ClientRecord
        BY <2>4, <3>2, <3>3, ClientFields, Zenon
      <3>5. result' \in [Request -> Results]
        BY <1>0, <2>6, <3>1, Outcomes DEF ReadAnswer
      <3>. QED BY <2>1, <2>2, <2>6, <3>4, <3>5 DEF ReadAnswer, TakeFrame, ConnectionTypeOK, nodeVars
    <2>7. CASE ReadUnexpected(f)
      <3>1. PICK e \in {"malformedFrame", "unexpectedResponse"} : FailConnection(e)
        BY <2>7 DEF ReadUnexpected
      <3>2. client' \in ClientRecord /\ result' \in [Request -> Results]
        BY <3>1, FailTypes
      <3>. QED BY <2>1, <2>2, <2>7, <3>2
                  DEF ReadUnexpected, TakeFrame, CloseTransport, ConnectionTypeOK, nodeVars
    <2>8. CASE ReadInVain(f)
      BY <2>1, <2>2, <2>8 DEF ReadInVain, TakeFrame, ConnectionTypeOK, nodeVars, clientVars
    <2>. QED BY <1>2, <2>1, <2>5, <2>6, <2>7, <2>8, <1>1 DEF ClientReads
  <1>. QED BY <1>1, <1>2 DEF ClientReads

LEMMA TransportTypes ==
    ASSUME ConnectionTypeOK, TransportRuns
    PROVE  ConnectionTypeOK'
  <1>0. client \in ClientRecord /\ result \in [Request -> Results]
        /\ outgoing \in Seq(OutFrame) /\ toNode \in Seq(OutFrame)
    BY DEF ConnectionTypeOK
  <1>1. CASE WriteFrame
    BY <1>0, <1>1, QueueTaken, QueueAppended
       DEF WriteFrame, ConnectionTypeOK, nodeVars, clientVars
  <1>2. CASE WriteFails
    <2>1. Head(outgoing) \in OutFrame /\ outgoing' \in Seq(OutFrame)
      BY <1>0, <1>2, QueueTaken DEF WriteFails
    <2>2. Head(outgoing).request.kind \in AllKinds
      BY <2>1 DEF OutFrame, RequestOf, RequestIn
    <2>3. client' \in ClientRecord /\ result' \in [Request -> Results]
      <3>1. Lost(Head(outgoing).request.kind) \in Results
        BY <2>2, Outcomes DEF Results
      <3>2. CASE Head(outgoing).type = "request"
        BY <1>0, <1>2, <3>1, <3>2 DEF WriteFails, clientVars
      <3>3. CASE Head(outgoing).type = "offer"
        BY <1>0, <1>2, <3>3, FailTypes DEF WriteFails, clientVars
      <3>. QED BY <1>2, <3>2, <3>3 DEF WriteFails
    <2>. QED BY <1>2, <2>1, <2>3 DEF WriteFails, ConnectionTypeOK, nodeVars
  <1>3. CASE CloseInput \/ TransportDone
    BY <1>3 DEF CloseInput, TransportDone, ConnectionTypeOK, nodeVars, clientVars
  <1>. QED BY <1>1, <1>2, <1>3 DEF TransportRuns

LEMMA ProcessTypes ==
    ASSUME ConnectionTypeOK, Kill \/ Disposed \/ Crash \/ InputEnds
    PROVE  ConnectionTypeOK'
  <1>1. node' \in NodeRecord
    BY NodeFields, Zenon
       DEF ConnectionTypeOK, Kill, Disposed, Crash, InputEnds, ProcessEnds
  <1>. QED BY <1>1, NoRequestType
              DEF ConnectionTypeOK, Kill, Disposed, Crash, InputEnds, ProcessEnds,
                  clientVars, historyVars

LEMMA SentType ==
    ASSUME NEW n \in NodeRecord
    PROVE  Sent(n) \in NodeRecord
  <1>1. n.sent + 1 \in Nat
    BY DEF NodeRecord
  <1>. QED BY <1>1, NodeFields, Zenon DEF Sent

LEMMA ClaimedType ==
    ASSUME ConnectionTypeOK, NEW q \in RequestOf, q.id # 0
    PROVE  Claimed(q) \in NodeRecord
  <1>0. node \in NodeRecord /\ q.id \in Request /\ q.command \in Commands \cup {None}
    BY DEF ConnectionTypeOK, RequestOf, RequestIn
  <1>1. PICK a : a = [node EXCEPT !.received = node.received + 1]
    OBVIOUS
  <1>2. a \in NodeRecord
    <2>1. node.received + 1 \in Nat
      BY <1>0 DEF NodeRecord
    <2>. QED BY <1>0, <1>1, <2>1, NodeFields, Zenon
  <1>3. PICK rs : rs = IF Cardinality(node.requests) < MaxTracked
                      THEN node.requests \cup {q.id} ELSE node.requests
    OBVIOUS
  <1>4. rs \in SUBSET Request
    BY <1>0, <1>3 DEF NodeRecord
  <1>5. PICK cs : cs = IF ClaimsRequest(q) /\ q.command # None /\ Cardinality(node.commands) < MaxTracked
                       THEN node.commands \cup {q.command} ELSE node.commands
    OBVIOUS
  <1>6. cs \in SUBSET Commands
    BY <1>0, <1>5 DEF NodeRecord
  <1>7. PICK b : b = [a EXCEPT !.requests = rs]
    OBVIOUS
  <1>8. b \in NodeRecord
    BY <1>2, <1>4, <1>7, NodeFields, Zenon
  <1>9. Claimed(q) = [b EXCEPT !.commands = cs]
    BY <1>0, <1>1, <1>3, <1>5, <1>7 DEF Claimed, NodeRecord
  <1>. QED BY <1>6, <1>8, <1>9, NodeFields, Zenon

LEMMA TakeTypes ==
    ASSUME ConnectionTypeOK, NEW f, TakeRequest(f)
    PROVE  /\ f \in OutFrame /\ f.request \in RequestOf /\ toNode' \in Seq(OutFrame)
           /\ client' \in ClientRecord /\ result' \in [Request -> Results]
           /\ outgoing' \in Seq(OutFrame) /\ transport' = transport
  <1>1. toNode \in Seq(OutFrame) /\ toNode # <<>> /\ f = Head(toNode) /\ toNode' = Tail(toNode)
    BY DEF ConnectionTypeOK, TakeRequest
  <1>2. f \in OutFrame /\ toNode' \in Seq(OutFrame)
    BY <1>1, QueueTaken
  <1>3. f.request \in RequestOf
    BY <1>2 DEF OutFrame
  <1>. QED BY <1>2, <1>3 DEF ConnectionTypeOK, TakeRequest, clientVars

LEMMA SendTypes ==
    ASSUME ConnectionTypeOK, NEW f \in InFrame, SendFrame(f)
    PROVE  toClient' \in Seq(InFrame)
  BY QueueAppended DEF ConnectionTypeOK, SendFrame

LEMMA OfferTypes ==
    ASSUME ConnectionTypeOK, NEW f, HandleOffer(f)
    PROVE  ConnectionTypeOK'
  <1>0. node \in NodeRecord /\ client \in ClientRecord /\ f \in OutFrame
    BY TakeTypes DEF ConnectionTypeOK, HandleOffer
  <1>1. f.seq \in Nat /\ node.sent + 1 \in Nat
    BY <1>0 DEF OutFrame, NodeRecord
  <1>2. client.offer.versions \in Seq(Nat)
    BY <1>0, ConnectionAssumption DEF ClientRecord, AcceptsOffer
  <1>3. PICK i : i = Chosen(client.offer.versions)
    OBVIOUS
  <1>4. i # 0 => client.offer.versions[i] \in Nat
    BY <1>2, <1>3, ChosenUsable
  <1>5. PICK both : both = Negotiated(client.offer)
    OBVIOUS
  <1>6. both \in SUBSET NodeCapabilities
    BY <1>5 DEF Negotiated
  <1>7. PICK n : n = [Sent(node) EXCEPT !.received = f.seq]
    OBVIOUS
  <1>8. n \in NodeRecord
    BY <1>0, <1>1, <1>7, SentType, NodeFields, Zenon
  <1>9. \/ /\ SendFrame([seq |-> node.sent + 1, type |-> "rejected"])
           /\ node' = [n EXCEPT !.handshake = "rejected", !.phase = "disposing"]
        \/ /\ i # 0
           /\ SendFrame([seq |-> node.sent + 1, type |-> "accepted",
                         version |-> client.offer.versions[i], capabilities |-> both])
           /\ node' = [n EXCEPT !.handshake = "accepted", !.capabilities = both]
    BY <1>3, <1>5, <1>7 DEF HandleOffer
  <1>10. toClient' \in Seq(InFrame)
    <2>1. [seq |-> node.sent + 1, type |-> "rejected"] \in InFrame
      BY <1>1, FrameTypes
    <2>2. i # 0 => [seq |-> node.sent + 1, type |-> "accepted",
                    version |-> client.offer.versions[i], capabilities |-> both] \in InFrame
      BY <1>1, <1>4, <1>6, FrameTypes
    <2>. QED BY <1>9, <2>1, <2>2, SendTypes
  <1>11. node' \in NodeRecord
    <2>1. CASE node' = [n EXCEPT !.handshake = "rejected", !.phase = "disposing"]
      <3>1. PICK m : m = [n EXCEPT !.handshake = "rejected"]
        OBVIOUS
      <3>2. m \in NodeRecord
        BY <1>8, <3>1, NodeFields, Zenon
      <3>3. node' = [m EXCEPT !.phase = "disposing"]
        BY <1>8, <2>1, <3>1 DEF NodeRecord
      <3>. QED BY <3>2, <3>3, NodeFields, Zenon
    <2>2. CASE node' = [n EXCEPT !.handshake = "accepted", !.capabilities = both]
      <3>1. PICK m : m = [n EXCEPT !.handshake = "accepted"]
        OBVIOUS
      <3>2. m \in NodeRecord
        BY <1>8, <3>1, NodeFields, Zenon
      <3>3. node' = [m EXCEPT !.capabilities = both]
        BY <1>8, <2>2, <3>1 DEF NodeRecord
      <3>. QED BY <1>6, <3>2, <3>3, NodeFields, Zenon
    <2>. QED BY <1>9, <2>1, <2>2
  <1>. QED BY <1>10, <1>11, TakeTypes
              DEF HandleOffer, ConnectionTypeOK, historyVars

LEMMA ViolationTypes ==
    ASSUME ConnectionTypeOK, NEW v \in {"frame", "identifiers"}, FailProtocol(v)
    PROVE  node' \in NodeRecord /\ toClient' \in Seq(InFrame)
  <1>0. node \in NodeRecord /\ node.sent + 1 \in Nat
    BY DEF ConnectionTypeOK, NodeRecord
  <1>1. [seq |-> node.sent + 1, type |-> "violation"] \in InFrame
    BY <1>0, FrameTypes
  <1>2. PICK n : n = [Sent(node) EXCEPT !.phase = "disposing"]
    OBVIOUS
  <1>3. n \in NodeRecord
    BY <1>0, <1>2, SentType, NodeFields, Zenon
  <1>4. node' = [n EXCEPT !.violation = v]
    <2>1. Sent(node) \in NodeRecord
      BY <1>0, SentType
    <2>. QED BY <1>2, <2>1 DEF FailProtocol, NodeRecord
  <1>5. node' \in NodeRecord
    BY <1>3, <1>4, NodeFields, Zenon
  <1>. QED BY <1>1, <1>5, SendTypes DEF FailProtocol

LEMMA RequestTypes ==
    ASSUME ConnectionTypeOK, NEW f, f.type = "request" => f.request.id # 0,
           HandleBadFrame(f) \/ Exhaust(f) \/ Refuse(f) \/ CallDomain(f)
    PROVE  ConnectionTypeOK'
  <1>0. node \in NodeRecord /\ node.sent + 1 \in Nat /\ handler \in RequestOf
        /\ called \in [Commands -> Nat]
    BY DEF ConnectionTypeOK, NodeRecord
  <1>1. CASE HandleBadFrame(f)
    BY <1>1, TakeTypes, ViolationTypes DEF HandleBadFrame, ConnectionTypeOK, historyVars
  <1>2. CASE Exhaust(f)
    BY <1>2, TakeTypes, ViolationTypes DEF Exhaust, Received, ConnectionTypeOK, historyVars
  <1>3. ASSUME Received(f)
        PROVE  /\ f.request \in RequestOf /\ f.request.id \in Request
               /\ Claimed(f.request) \in NodeRecord
    BY <1>3, TakeTypes, ClaimedType DEF Received, RequestOf, RequestIn
  <1>4. CASE Refuse(f)
    <2>1. AnswerTo(f.request, "refused", {}) \in InFrame
      BY <1>0, <1>3, <1>4, FrameTypes DEF AnswerTo, Refuse
    <2>2. node' \in NodeRecord
      BY <1>3, <1>4, SentType DEF Refuse
    <2>3. toClient' \in Seq(InFrame)
      BY <1>4, <2>1, SendTypes DEF Refuse
    <2>. QED BY <1>4, <2>2, <2>3, TakeTypes DEF Refuse, Received, ConnectionTypeOK, historyVars
  <1>5. CASE CallDomain(f)
    <2>1. called' \in [Commands -> Nat]
      <3>1. f.request.command \in Commands \cup {None}
        BY <1>3, <1>5 DEF CallDomain, RequestOf, RequestIn
      <3>. QED BY <1>0, <1>5, <3>1 DEF CallDomain
    <2>. QED BY <1>3, <1>5, <2>1, TakeTypes DEF CallDomain, Received, ConnectionTypeOK
  <1>. QED BY <1>1, <1>2, <1>4, <1>5

LEMMA DomainTypes ==
    ASSUME ConnectionTypeOK, handler # NoRequest => handler.id \in Request, DomainReturns
    PROVE  ConnectionTypeOK'
  <1>0. node \in NodeRecord /\ node.sent + 1 \in Nat /\ handler \in RequestOf
        /\ carried \in [done : SUBSET Request, unsent : SUBSET Request]
    BY DEF ConnectionTypeOK, NodeRecord
  <1>1. handler.id \in Request
    BY DEF DomainReturns, DomainSucceeds, DomainFails, DomainUncertain, Running
  <1>2. \A h \in {"done", "tooLarge", "failed", "uncertain"}, ps \in SUBSET Projects :
           Answer(h, ps) => toClient' \in Seq(InFrame) /\ handler' \in RequestOf
    <2>1. \A h \in {"done", "tooLarge", "failed", "uncertain"}, ps \in SUBSET Projects :
             AnswerTo(handler, h, ps) \in InFrame
      BY <1>0, <1>1, FrameTypes DEF AnswerTo
    <2>. QED BY <2>1, SendTypes, NoRequestType DEF Answer
  <1>3. /\ carried.done \cup {handler.id} \in SUBSET Request
        /\ carried.unsent \cup {handler.id} \in SUBSET Request
    BY <1>0, <1>1
  <1>4. CASE \E projects \in SUBSET Projects : DomainSucceeds(projects)
    <2>1. PICK ps \in SUBSET Projects : DomainSucceeds(ps)
      BY <1>4
    <2>2. Learns(handler, ps) \in SUBSET Projects /\ Register(handler, ps) \in SUBSET Projects
      <3>1. handler.kind = "trust" => handler.project \in Projects
        BY <1>0 DEF RequestOf, RequestIn, NeedsProject, DomainCommands
      <3>. QED BY <3>1 DEF Learns, Register
    <2>3. toClient' \in Seq(InFrame) /\ handler' \in RequestOf
      BY <1>2, <2>1, <2>2 DEF DomainSucceeds
    <2>4. node' \in NodeRecord
      <3>1. node.projects \cup Register(handler, ps) \in SUBSET Projects
        BY <1>0, <2>2 DEF NodeRecord
      <3>2. node' = [Sent(node) EXCEPT !.projects = node.projects \cup Register(handler, ps)]
        BY <1>0, <2>1 DEF DomainSucceeds, Sent, NodeRecord
      <3>. QED BY <1>0, <3>1, <3>2, SentType, NodeFields, Zenon
    <2>5. carried' \in [done : SUBSET Request, unsent : SUBSET Request]
      BY <1>0, <1>3, <2>1 DEF DomainSucceeds
    <2>. QED BY <2>1, <2>3, <2>4, <2>5 DEF DomainSucceeds, ConnectionTypeOK, clientVars
  <1>5. CASE DomainFails
    BY <1>0, <1>2, <1>5, SentType
       DEF DomainFails, ConnectionTypeOK, clientVars, historyVars
  <1>6. CASE DomainUncertain
    <2>1. carried' \in [done : SUBSET Request, unsent : SUBSET Request]
      BY <1>0, <1>3, <1>6 DEF DomainUncertain
    <2>. QED BY <1>0, <1>2, <1>6, <2>1, SentType DEF DomainUncertain, ConnectionTypeOK, clientVars
  <1>. QED BY <1>4, <1>5, <1>6 DEF DomainReturns

-----------------------------------------------------------------------------
(* Steps that say nothing new: the client gives up, what is on its way is  *)
(* not read, the Node's process ends.                                      *)

Remembers ==
    /\ client'.offer = client.offer /\ client'.capabilities = client.capabilities
    /\ client'.next = client.next /\ client'.sequence = client.sequence
    /\ client'.seen = client.seen /\ client'.told = client.told /\ client'.asked = client.asked

NodeKept ==
    /\ node'.handshake = node.handshake /\ node'.capabilities = node.capabilities
    /\ node'.received = node.received /\ node'.sent = node.sent
    /\ node'.requests = node.requests /\ node'.commands = node.commands
    /\ node'.projects = node.projects /\ node'.violation = node.violation

Fades ==
    /\ Remembers /\ NodeKept /\ toNode' = toNode /\ UNCHANGED historyVars
    /\ \/ outgoing' = outgoing
       \/ node.phase = "exited" /\ outgoing # <<>> /\ outgoing' = Tail(outgoing)
    /\ \/ toClient' = toClient
       \/ toClient # <<>> /\ toClient' = Tail(toClient) /\ ~Listening'
    /\ \/ client'.status = client.status /\ result' = result
       \/ client'.status \in {"lost", "closing", "closed"} /\ result' \in {result, AllLost}
    /\ \/ node'.phase = node.phase /\ handler' = handler
       \/ /\ node'.phase \in {"disposing", "exited"} /\ handler' = NoRequest
          /\ node.phase = "exited" => node'.phase = "exited"

LEMMA WayTypes ==
    ASSUME ConnectionTypeOK, NEW f \in OnTheirWay
    PROVE  /\ f \in OutFrame /\ f.request \in RequestOf /\ f.seq \in Nat
           /\ f.request.id \in Request \cup {0} /\ f.request.kind \in AllKinds
  <1>1. f \in OutFrame
    BY DEF ConnectionTypeOK, OnTheirWay
  <1>2. f.request \in RequestOf /\ f.seq \in Nat
    BY <1>1 DEF OutFrame
  <1>3. f.request.id \in Request \cup {0} /\ f.request.kind \in AllKinds
    BY <1>2 DEF RequestOf, RequestIn
  <1>. QED BY <1>1, <1>2, <1>3

LEMMA InTypes ==
    ASSUME ConnectionTypeOK, NEW i \in DOMAIN toClient
    PROVE  /\ toClient[i] \in InFrame /\ toClient[i].seq \in Nat
           /\ toClient[i].type = "answer" => toClient[i].id \in Request
  <1>1. toClient[i] \in InFrame
    BY DEF ConnectionTypeOK
  <1>. QED BY <1>1, InFrameType

(* A queue, or what is left of it when its head is taken. *)
LEMMA Fewer ==
    ASSUME NEW S, NEW q \in Seq(S), NEW p, p = q \/ (q # <<>> /\ p = Tail(q))
    PROVE  /\ \A i \in DOMAIN p :
                 /\ i \in Nat
                 /\ \E j \in DOMAIN q : j \in Nat /\ p[i] = q[j] /\ j + Len(p) = i + Len(q)
           /\ Len(p) <= Len(q) /\ Len(q) \in Nat /\ Len(p) \in Nat
  <1>1. CASE p = q
    BY <1>1
  <1>2. CASE q # <<>> /\ p = Tail(q)
    <2>1. /\ DOMAIN p = 1..(Len(q) - 1) /\ Len(p) = Len(q) - 1
          /\ DOMAIN q = 1..Len(q) /\ Len(q) \in Nat \ {0}
          /\ \A i \in DOMAIN p : i + 1 \in DOMAIN q /\ p[i] = q[i + 1]
      BY <1>2, QueueTaken
    <2>2. ASSUME NEW i \in DOMAIN p
          PROVE  /\ i \in Nat
                 /\ \E j \in DOMAIN q : j \in Nat /\ p[i] = q[j] /\ j + Len(p) = i + Len(q)
      <3>1. i \in Nat /\ i + 1 \in DOMAIN q /\ p[i] = q[i + 1] /\ i + 1 + Len(p) = i + Len(q)
        BY <2>1
      <3>. QED BY <3>1, SMTT(30)
    <2>. QED BY <2>1, <2>2
  <1>. QED BY <1>1, <1>2

LEMMA FadedQueues ==
    ASSUME ConnectionTypeOK, Fades
    PROVE  /\ OnTheirWay' \subseteq OnTheirWay
           /\ \A i \in DOMAIN toClient' :
                 /\ i \in Nat
                 /\ \E j \in DOMAIN toClient :
                       /\ j \in Nat /\ toClient'[i] = toClient[j]
                       /\ j + Len(toClient') = i + Len(toClient)
           /\ Len(toClient') <= Len(toClient)
           /\ \A i \in DOMAIN outgoing' :
                 /\ i \in Nat
                 /\ \E j \in DOMAIN outgoing :
                       /\ j \in Nat /\ outgoing'[i] = outgoing[j]
                       /\ j + Len(outgoing') = i + Len(outgoing)
           /\ Len(toClient) \in Nat /\ Len(toClient') \in Nat
           /\ Len(outgoing) \in Nat /\ Len(outgoing') \in Nat
  <1>0. toClient \in Seq(InFrame) /\ outgoing \in Seq(OutFrame)
    BY DEF ConnectionTypeOK
  <1>1. /\ toClient' = toClient \/ (toClient # <<>> /\ toClient' = Tail(toClient))
        /\ outgoing' = outgoing \/ (outgoing # <<>> /\ outgoing' = Tail(outgoing))
        /\ toNode' = toNode
    BY DEF Fades
  <1>2. /\ \A i \in DOMAIN toClient' :
                 /\ i \in Nat
                 /\ \E j \in DOMAIN toClient :
                       /\ j \in Nat /\ toClient'[i] = toClient[j]
                       /\ j + Len(toClient') = i + Len(toClient)
        /\ Len(toClient') <= Len(toClient)
        /\ Len(toClient) \in Nat /\ Len(toClient') \in Nat
    BY <1>0, <1>1, Fewer
  <1>3. /\ \A i \in DOMAIN outgoing' :
                 /\ i \in Nat
                 /\ \E j \in DOMAIN outgoing :
                       /\ j \in Nat /\ outgoing'[i] = outgoing[j]
                       /\ j + Len(outgoing') = i + Len(outgoing)
        /\ Len(outgoing) \in Nat /\ Len(outgoing') \in Nat
    BY <1>0, <1>1, Fewer
  <1>4. OnTheirWay' \subseteq OnTheirWay
    BY <1>1, <1>3 DEF OnTheirWay
  <1>. QED BY <1>2, <1>3, <1>4

LEMMA Shift ==
    ASSUME NEW s \in Nat, NEW l \in Nat, NEW m \in Nat, NEW q \in Nat, NEW i \in Nat, NEW j \in Nat,
           s + l = q + j, j + m = i + l
    PROVE  s + m = q + i
  OBVIOUS

LEMMA FadesNumbers ==
    ASSUME ConnectionTypeOK, ConnectionTypeOK', Numbers, Fades
    PROVE  Numbers'
  <1>0. /\ client.sequence \in Nat /\ client'.sequence = client.sequence /\ client'.seen = client.seen
        /\ node'.sent = node.sent /\ node.sent \in Nat /\ node'.handshake = node.handshake
        /\ node'.received = node.received /\ client.seen \in Nat /\ toNode' = toNode
        /\ Len(toNode) \in Nat
    BY DEF Fades, Remembers, NodeKept, ConnectionTypeOK, ClientRecord, NodeRecord
  <1>1. NumbersOut'
    <2>1. \A i \in DOMAIN outgoing' : outgoing'[i].seq + Len(outgoing') = client'.sequence + i
      <3>. SUFFICES ASSUME NEW i \in DOMAIN outgoing'
                    PROVE  outgoing'[i].seq + Len(outgoing') = client'.sequence + i
        OBVIOUS
      <3>1. PICK j \in DOMAIN outgoing :
               /\ j \in Nat /\ outgoing'[i] = outgoing[j] /\ j + Len(outgoing') = i + Len(outgoing)
        BY FadedQueues
      <3>2. outgoing[j].seq \in Nat /\ outgoing[j].seq + Len(outgoing) = client.sequence + j
        BY WayTypes DEF OnTheirWay, Numbers, NumbersOut
      <3>3. i \in Nat /\ Len(outgoing) \in Nat /\ Len(outgoing') \in Nat
        BY FadedQueues
      <3>a. PICK s \in Nat, l \in Nat, m \in Nat, q \in Nat :
               s = outgoing[j].seq /\ l = Len(outgoing) /\ m = Len(outgoing') /\ q = client.sequence
        BY <1>0, <3>2, <3>3
      <3>b. s + l = q + j /\ j + m = i + l
        BY <3>1, <3>2, <3>a
      <3>c. s + m = q + i
        <4>1. i \in Nat /\ j \in Nat
          BY <3>1, <3>3
        <4>. QED BY <4>1, <3>b, Shift
      <3>4. outgoing[j].seq + Len(outgoing') = client.sequence + i
        BY <3>a, <3>c
      <3>. QED BY <1>0, <3>1, <3>4
    <2>2. node'.phase # "exited" => node.phase # "exited" /\ outgoing' = outgoing
      BY DEF Fades
    <2>3. node'.phase # "exited" =>
             \A i \in DOMAIN toNode : toNode[i].seq + Len(toNode) + Len(outgoing) = client.sequence + i
      BY <2>2 DEF Numbers, NumbersOut
    <2>4. node'.phase = "serving" => node.phase = "serving" /\ outgoing' = outgoing
      BY DEF Fades, ConnectionTypeOK, NodeRecord
    <2>5. node'.phase = "serving" =>
             /\ node.received + Len(toNode) + Len(outgoing) = client.sequence
             /\ node.handshake = IF node.received = 0 THEN "awaiting" ELSE "accepted"
      BY <2>4 DEF Numbers, NumbersOut
    <2>6. /\ client'.status \in {"new", "offering"} => client'.sequence = 0
          /\ client'.status \in {"connecting", "connected"} => client'.sequence > 0
      BY <1>0 DEF Fades, Numbers, NumbersOut
    <2>7. \A f \in OnTheirWay' :
             f.seq \in 1 .. client'.sequence /\ (f.type = "offer" <=> f.seq = 1)
      BY <1>0, FadedQueues DEF Numbers, NumbersOut
    <2>. QED BY <1>0, <2>1, <2>2, <2>3, <2>4, <2>5, <2>6, <2>7 DEF NumbersOut
  <1>2. NumbersIn'
    <2>1. \A i \in DOMAIN toClient' :
             /\ toClient'[i].seq + Len(toClient') = node'.sent + i
             /\ toClient'[i].type \in {"accepted", "rejected"} <=> toClient'[i].seq = 1
      <3>. SUFFICES ASSUME NEW i \in DOMAIN toClient'
                    PROVE  /\ toClient'[i].seq + Len(toClient') = node'.sent + i
                           /\ toClient'[i].type \in {"accepted", "rejected"} <=> toClient'[i].seq = 1
        OBVIOUS
      <3>1. PICK j \in DOMAIN toClient :
               /\ j \in Nat /\ toClient'[i] = toClient[j] /\ j + Len(toClient') = i + Len(toClient)
        BY FadedQueues
      <3>2. /\ toClient[j].seq \in Nat /\ toClient[j].seq + Len(toClient) = node.sent + j
            /\ toClient[j].type \in {"accepted", "rejected"} <=> toClient[j].seq = 1
        BY InTypes DEF Numbers, NumbersIn
      <3>3. i \in Nat /\ Len(toClient) \in Nat /\ Len(toClient') \in Nat
        BY FadedQueues
      <3>a. PICK s \in Nat, l \in Nat, m \in Nat, q \in Nat :
               s = toClient[j].seq /\ l = Len(toClient) /\ m = Len(toClient') /\ q = node.sent
        BY <1>0, <3>2, <3>3
      <3>b. s + l = q + j /\ j + m = i + l
        BY <3>1, <3>2, <3>a
      <3>c. s + m = q + i
        <4>1. i \in Nat /\ j \in Nat
          BY <3>1, <3>3
        <4>. QED BY <4>1, <3>b, Shift
      <3>4. toClient[j].seq + Len(toClient') = node.sent + i
        BY <3>a, <3>c
      <3>. QED BY <1>0, <3>1, <3>2, <3>4
    <2>2. Len(toClient') <= node'.sent
      BY <1>0, FadedQueues DEF Numbers, NumbersIn
    <2>3. Listening' => Listening /\ toClient' = toClient /\ client'.status = client.status
      BY DEF Fades, Listening
    <2>. QED BY <1>0, <2>1, <2>2, <2>3 DEF Numbers, NumbersIn, Fades
  <1>. QED BY <1>1, <1>2 DEF Numbers

LEMMA FadedResults ==
    ASSUME ConnectionTypeOK, Fades, NEW r \in Request
    PROVE  /\ result'[r] = result[r] \/ (result[r] = "pending" /\ result'[r] = Lost(client.asked[r].kind))
           /\ Listening' => Listening /\ result'[r] = result[r]
  <1>1. AllLost[r] = IF result[r] = "pending" THEN Lost(client.asked[r].kind) ELSE result[r]
    BY AllLostEffect
  <1>2. CASE client'.status = client.status /\ result' = result
    BY <1>2 DEF Listening
  <1>3. CASE client'.status \in {"lost", "closing", "closed"} /\ result' \in {result, AllLost}
    BY <1>1, <1>3 DEF Listening
  <1>. QED BY <1>2, <1>3 DEF Fades

LEMMA FadesRequests ==
    ASSUME ConnectionTypeOK, Requests, Handled, Answers, Fades
    PROVE  Requests' /\ Handled' /\ Answers'
  <1>0. /\ client'.next = client.next /\ client'.asked = client.asked /\ client'.offer = client.offer
        /\ node'.requests = node.requests /\ node'.projects = node.projects
        /\ node'.capabilities = node.capabilities /\ node'.violation = node.violation
        /\ node'.handshake = node.handshake /\ carried' = carried
        /\ node'.phase = "serving" => node.phase = "serving"
    BY DEF Fades, Remembers, NodeKept, historyVars, ConnectionTypeOK, NodeRecord
  <1>1. Requests'
    <2>. SUFFICES ASSUME NEW f \in OnTheirWay'
                  PROVE  /\ f.request.id < client'.next
                         /\ f.type = "request" =>
                              /\ f.request.id # 0 /\ f.request = client'.asked[f.request.id]
                              /\ result'[f.request.id] \in {"pending", Lost(f.request.kind)}
                              /\ Listening' /\ node'.phase = "serving" => result'[f.request.id] = "pending"
                         /\ \A r \in node'.requests : r < f.request.id
      BY FadedQueues DEF Requests
    <2>1. f \in OnTheirWay
      BY FadedQueues
    <2>2. f.request.id \in Request \cup {0}
      BY <2>1, WayTypes
    <2>3. CASE f.type = "request"
      <3>1. f.request.id \in Request /\ f.request = client.asked[f.request.id]
        BY <2>1, <2>2, <2>3 DEF Requests
      <3>2. /\ result[f.request.id] \in {"pending", Lost(f.request.kind)}
            /\ Listening /\ node.phase = "serving" => result[f.request.id] = "pending"
        BY <2>1, <2>3 DEF Requests
      <3>. QED BY <1>0, <2>1, <3>1, <3>2, FadedResults DEF Requests
    <2>4. CASE f.type # "request"
      BY <1>0, <2>1, <2>4 DEF Requests
    <2>. QED BY <2>3, <2>4
  <1>2. Handled'
    <2>. SUFFICES ASSUME handler' # NoRequest PROVE Handled'
      BY DEF Handled
    <2>1. handler' = handler /\ node'.phase = node.phase
      BY DEF Fades
    <2>2. handler.id \in Request
      BY <2>1 DEF Handled, ConnectionTypeOK, NodeRecord
    <2>3. \A i \in DOMAIN toClient' : toClient'[i].type = "answer" => toClient'[i].id # handler.id
      BY <2>1, FadedQueues DEF Handled
    <2>. QED BY <1>0, <2>1, <2>2, <2>3, FadedResults DEF Handled
  <1>3. Answers'
    <2>. SUFFICES ASSUME NEW i \in DOMAIN toClient', NEW f, f = toClient'[i]
                  PROVE
          /\ f.type = "answer" =>
              /\ f.id \in node'.requests /\ f.projects \subseteq node'.projects
              /\ f.how = "done" => f.id \in carried'.done
              /\ f.how \notin {"done", "uncertain"} => f.id \notin carried'.done \ carried'.unsent
              /\ Listening' => result'[f.id] = "pending"
              /\ \A j \in DOMAIN toClient' :
                    j # i /\ toClient'[j].type = "answer" => toClient'[j].id # f.id
          /\ f.type = "accepted" =>
              f.version \in Range(client'.offer.versions) /\ f.capabilities = node'.capabilities
          /\ f.type = "rejected" => Range(client'.offer.versions) \cap NodeVersions = {}
          /\ f.type = "violation" => node'.violation = "identifiers"
      BY DEF Answers
    <2>1. PICK k \in DOMAIN toClient :
             /\ i \in Nat /\ k \in Nat /\ f = toClient[k] /\ k + Len(toClient') = i + Len(toClient)
      BY FadedQueues
    <2>0. Len(toClient) \in Nat /\ Len(toClient') \in Nat
      BY FadedQueues
    <2>2. CASE f.type = "answer"
      <3>1. f.id \in Request
        BY <2>1, <2>2, InTypes
      <3>2. Listening' => result'[f.id] = "pending"
        BY <2>1, <2>2, <3>1, FadedResults DEF Answers
      <3>3. ASSUME NEW j \in DOMAIN toClient', j # i, toClient'[j].type = "answer"
            PROVE  toClient'[j].id # f.id
        <4>1. PICK l \in DOMAIN toClient :
                 /\ j \in Nat /\ l \in Nat /\ toClient'[j] = toClient[l]
                 /\ l + Len(toClient') = j + Len(toClient)
          BY FadedQueues
        <4>2. l # k
          BY <2>0, <2>1, <3>3, <4>1
        <4>. QED BY <2>1, <2>2, <3>3, <4>1, <4>2 DEF Answers
      <3>4. /\ f.id \in node.requests /\ f.projects \subseteq node.projects
            /\ f.how = "done" => f.id \in carried.done
            /\ f.how \notin {"done", "uncertain"} => f.id \notin carried.done \ carried.unsent
        BY <2>1, <2>2 DEF Answers
      <3>. QED BY <1>0, <2>2, <3>2, <3>3, <3>4
    <2>3. CASE f.type # "answer"
      BY <1>0, <2>1, <2>3 DEF Answers
    <2>. QED BY <2>2, <2>3
  <1>. QED BY <1>1, <1>2, <1>3

LEMMA FadesTables ==
    ASSUME ConnectionTypeOK, Tables, CommandsTruthful, Fades
    PROVE  Tables' /\ CommandsTruthful'
  <1>1. Tables'
    BY DEF Tables, Fades, Remembers, NodeKept, historyVars
  <1>2. CommandOnce'
    BY DEF CommandsTruthful, CommandOnce, Fades, historyVars
  <1>3. ASSUME NEW r \in Request
        PROVE  /\ result'[r] = "ok" => r \in carried'.done
               /\ result'[r] = "rejected" => r \notin carried'.done \ carried'.unsent
               /\ result'[r] = "failed" /\ r \in carried'.done => client'.asked[r].kind \notin CommandKinds
    <2>1. carried' = carried /\ client'.asked = client.asked
      BY DEF Fades, Remembers, historyVars
    <2>2. CASE result'[r] = result[r]
      BY <2>1, <2>2 DEF CommandsTruthful, ResultsTruthful
    <2>3. CASE result'[r] = Lost(client.asked[r].kind)
      BY <2>1, <2>3 DEF Lost
    <2>. QED BY <2>2, <2>3, FadedResults
  <1>. QED BY <1>1, <1>2, <1>3 DEF CommandsTruthful, ResultsTruthful

LEMMA FadesKeeps ==
    ASSUME ConnectionInv, ConnectionTypeOK', Fades, HonestPeersAgree'
    PROVE  ConnectionInv'
  BY FadesNumbers, FadesRequests, FadesTables DEF ConnectionInv

LEMMA ClientKnown ==
    ASSUME ConnectionTypeOK
    PROVE  /\ client \in ClientRecord /\ client.next \in Nat \ {0} /\ client.sequence \in Nat
           /\ client.seen \in Nat /\ client.asked \in [Request -> RequestOf]
           /\ client.offer \in Offers /\ client.told \in SUBSET Projects
           /\ client.offer.versions \in Seq(Nat)
           /\ client.status \in {"new", "offering", "connecting", "connected", "lost", "closing",
                                 "closed"}
  BY ConnectionAssumption DEF ConnectionTypeOK, ClientRecord, AcceptsOffer

LEMMA NodeKnown ==
    ASSUME ConnectionTypeOK
    PROVE  /\ node \in NodeRecord /\ node.received \in Nat /\ node.sent \in Nat
           /\ node.phase \in {"serving", "disposing", "exited"}
           /\ node.handshake \in {"awaiting", "accepted", "rejected"}
           /\ node.requests \in SUBSET Request /\ node.commands \in SUBSET Commands
           /\ node.projects \in SUBSET Projects /\ node.capabilities \in SUBSET NodeCapabilities
  BY DEF ConnectionTypeOK, NodeRecord

(* What the client reads next, while it reads: the handshake first, then   *)
(* an answer to an operation that waits, or the Node's complaint.          *)
LEMMA ReadFacts ==
    ASSUME ConnectionInv, Listening, toClient # <<>>, NEW f, f = Head(toClient)
    PROVE  /\ f \in InFrame /\ f = toClient[1] /\ 1 \in DOMAIN toClient
           /\ f.seq = client.seen + 1
           /\ f.type \in {"accepted", "rejected"} <=> client.status # "connected"
           /\ f.type = "answer" => f.id \in Waiting
           /\ Unexpected(f) <=> f.type = "violation"
  <1>0. ConnectionTypeOK /\ NumbersIn /\ Answers
    BY DEF ConnectionInv, Numbers
  <1>1. /\ f \in InFrame /\ f = toClient[1] /\ 1 \in DOMAIN toClient
        /\ Len(toClient) \in Nat \ {0}
    BY <1>0, QueueTaken DEF ConnectionTypeOK
  <1>2. f.seq \in Nat /\ client.seen \in Nat /\ node.sent \in Nat
        /\ f.type \in {"violation", "rejected", "accepted", "answer"}
    BY <1>0, <1>1, InFrameType, ClientKnown, NodeKnown
  <1>3. f.seq + Len(toClient) = node.sent + 1 /\ client.seen + Len(toClient) = node.sent
    BY <1>0, <1>1 DEF NumbersIn
  <1>4. f.seq = client.seen + 1
    BY <1>1, <1>2, <1>3
  <1>5. f.type \in {"accepted", "rejected"} <=> client.status # "connected"
    <2>1. f.type \in {"accepted", "rejected"} <=> f.seq = 1
      BY <1>0, <1>1 DEF NumbersIn
    <2>2. client.status = "connected" <=> client.seen > 0
      BY <1>0 DEF NumbersIn
    <2>. QED BY <1>2, <1>4, <2>1, <2>2
  <1>6. f.type = "answer" => f.id \in Waiting
    BY <1>0, <1>1, InFrameType DEF Answers, Waiting
  <1>7. Unexpected(f) <=> f.type = "violation"
    BY <1>2, <1>4, <1>5, <1>6 DEF Unexpected, Malformed
  <1>. QED BY <1>1, <1>4, <1>5, <1>6, <1>7

LEMMA HonestKept ==
    ASSUME ConnectionTypeOK, HonestPeersAgree, NodeKept, Remembers,
           client'.error \in {client.error, "disconnected"}
    PROVE  HonestPeersAgree'
  BY DEF HonestPeersAgree, NodeKept, Remembers

LEMMA FailRemembers ==
    ASSUME ConnectionTypeOK, NEW e, FailConnection(e)
    PROVE  /\ Remembers /\ client'.status = "lost" /\ client'.error = e /\ result' = AllLost
  BY DEF ConnectionTypeOK, ClientRecord, FailConnection, Remembers

LEMMA EndKeeps ==
    ASSUME ConnectionInv,
           \/ Close \/ CloseReturns \/ SeeEnd \/ CloseInput \/ TransportDone
           \/ Kill \/ InputEnds \/ Disposed \/ Crash
    PROVE  ConnectionInv'
  <1>0. ConnectionTypeOK /\ HonestPeersAgree
    BY DEF ConnectionInv
  <1>1. ConnectionTypeOK'
    BY <1>0, ApplicationTypes, ReadTypes, TransportTypes, ProcessTypes
       DEF Application, ClientReads, TransportRuns
  <1>2. /\ Remembers
        /\ client'.error \in {client.error, "disconnected"}
        /\ \/ client'.status = client.status /\ result' = result
           \/ client'.status \in {"lost", "closing", "closed"} /\ result' \in {result, AllLost}
    BY <1>0, FailRemembers
       DEF ConnectionTypeOK, ClientRecord, Remembers, Close, CloseReturns, SeeEnd, CloseInput,
           TransportDone, Kill, InputEnds, Disposed, Crash, clientVars
  <1>3. /\ NodeKept
        /\ \/ node'.phase = node.phase /\ handler' = handler
           \/ /\ node'.phase \in {"disposing", "exited"} /\ handler' = NoRequest
              /\ node.phase = "exited" => node'.phase = "exited"
    BY <1>0
       DEF ConnectionTypeOK, NodeRecord, NodeKept, Close, CloseReturns, SeeEnd, CloseInput,
           TransportDone, Kill, InputEnds, Disposed, Crash, ProcessEnds, Idle, nodeVars
  <1>4. toNode' = toNode /\ outgoing' = outgoing /\ toClient' = toClient /\ UNCHANGED historyVars
    BY DEF Close, CloseReturns, SeeEnd, CloseInput, TransportDone, Kill, InputEnds, Disposed,
           Crash, nodeVars, historyVars
  <1>5. HonestPeersAgree'
    BY <1>0, <1>2, <1>3, HonestKept
  <1>6. Fades
    BY <1>2, <1>3, <1>4 DEF Fades
  <1>. QED BY <1>1, <1>5, <1>6, FadesKeeps

LEMMA ReadInVainKeeps ==
    ASSUME ConnectionInv, NEW f, ReadInVain(f)
    PROVE  ConnectionInv'
  <1>0. ConnectionTypeOK /\ HonestPeersAgree
    BY DEF ConnectionInv
  <1>1. ConnectionTypeOK'
    <2>1. ClientReads
      BY DEF ClientReads, ReadInVain, TakeFrame
    <2>. QED BY <1>0, <2>1, ReadTypes
  <1>2. Remembers /\ NodeKept /\ ~Listening'
    BY DEF Remembers, NodeKept, ReadInVain, Listening, clientVars, nodeVars
  <1>3. HonestPeersAgree'
    BY <1>0, <1>2, HonestKept DEF ReadInVain, clientVars
  <1>4. Fades
    BY <1>2 DEF Fades, ReadInVain, TakeFrame, clientVars, nodeVars, historyVars
  <1>. QED BY <1>1, <1>3, <1>4, FadesKeeps

(* A frame the client cannot take is a complaint of the Node. *)
LEMMA ReadUnexpectedKeeps ==
    ASSUME ConnectionInv, NEW f, ReadUnexpected(f)
    PROVE  ConnectionInv'
  <1>0. ConnectionTypeOK /\ HonestPeersAgree /\ Answers
    BY DEF ConnectionInv
  <1>1. ConnectionTypeOK'
    <2>1. ClientReads
      BY DEF ClientReads, ReadUnexpected, TakeFrame
    <2>. QED BY <1>0, <2>1, ReadTypes
  <1>2. toClient # <<>> /\ f = Head(toClient) /\ toClient' = Tail(toClient) /\ Listening
        /\ Unexpected(f)
    BY DEF ReadUnexpected, TakeFrame
  <1>3. node.violation = "identifiers"
    BY <1>0, <1>2, ReadFacts DEF Answers
  <1>4. PICK e \in {"malformedFrame", "unexpectedResponse"} : FailConnection(e)
    BY DEF ReadUnexpected
  <1>5. Remembers /\ client'.status = "lost" /\ client'.error = e /\ result' = AllLost
    BY <1>0, <1>4, FailRemembers
  <1>6. NodeKept
    BY DEF NodeKept, ReadUnexpected, nodeVars
  <1>7. HonestPeersAgree'
    BY <1>0, <1>3, <1>5, <1>6 DEF HonestPeersAgree, NodeKept, Remembers
  <1>8. Fades
    BY <1>2, <1>5, <1>6 DEF Fades, Listening, ReadUnexpected, nodeVars, historyVars
  <1>. QED BY <1>1, <1>7, <1>8, FadesKeeps

LEMMA MismatchKeeps ==
    ASSUME ConnectionInv, NEW f, ReadHandshake(f), ~Usable(f)
    PROVE  ConnectionInv'
  <1>0. ConnectionTypeOK /\ HonestPeersAgree /\ Answers
    BY DEF ConnectionInv
  <1>1. ConnectionTypeOK'
    <2>1. ClientReads
      BY DEF ClientReads, ReadHandshake, TakeFrame
    <2>. QED BY <1>0, <2>1, ReadTypes
  <1>2. toClient # <<>> /\ f = Head(toClient) /\ toClient' = Tail(toClient) /\ Listening
        /\ f.type # "answer" /\ ~Unexpected(f) /\ FailConnection("protocolMismatch")
    BY DEF ReadHandshake, TakeFrame
  <1>3. Range(client.offer.versions) \cap NodeVersions = {}
    <2>1. f \in InFrame /\ f = toClient[1] /\ 1 \in DOMAIN toClient /\ f.type # "violation"
      BY <1>2, ReadFacts
    <2>2. f.type = "accepted" => f.version \in Range(client.offer.versions)
      BY <1>0, <2>1 DEF Answers
    <2>3. f.type = "rejected"
      BY <1>2, <2>1, <2>2, InFrameType DEF Usable
    <2>. QED BY <1>0, <2>1, <2>3 DEF Answers
  <1>5. Remembers /\ client'.status = "lost" /\ client'.error = "protocolMismatch" /\ result' = AllLost
    BY <1>0, <1>2, FailRemembers
  <1>6. NodeKept
    BY DEF NodeKept, ReadHandshake, nodeVars
  <1>7. HonestPeersAgree'
    BY <1>0, <1>3, <1>5, <1>6 DEF HonestPeersAgree, NodeKept, Remembers
  <1>8. Fades
    BY <1>2, <1>5, <1>6 DEF Fades, Listening, ReadHandshake, nodeVars, historyVars
  <1>. QED BY <1>1, <1>7, <1>8, FadesKeeps

-----------------------------------------------------------------------------
(* The client speaks.                                                      *)

LEMMA Quiet ==
    ASSUME ConnectionInv, client.sequence = 0
    PROVE  /\ OnTheirWay = {} /\ toClient = <<>> /\ handler = NoRequest /\ node.sent = 0
           /\ node.requests = {} /\ outgoing = <<>> /\ toNode = <<>>
  <1>0. ConnectionTypeOK /\ NumbersIn /\ NumbersOut /\ Handled /\ Tables
    BY DEF ConnectionInv, Numbers
  <1>1. node.sent = 0
    BY <1>0, NodeKnown DEF NumbersIn
  <1>2. Len(toClient) <= 0 /\ toClient \in Seq(InFrame)
    BY <1>0, <1>1 DEF NumbersIn, ConnectionTypeOK
  <1>3. toClient = <<>>
    BY <1>2
  <1>4. \A f \in OnTheirWay : FALSE
    <2>1. \A f \in OnTheirWay : f.seq \in 1 .. 0
      BY <1>0 DEF NumbersOut
    <2>. QED BY <2>1
  <1>5. outgoing = <<>> /\ toNode = <<>>
    <2>1. outgoing \in Seq(OutFrame) /\ toNode \in Seq(OutFrame)
      BY <1>0 DEF ConnectionTypeOK
    <2>2. DOMAIN outgoing = {} /\ DOMAIN toNode = {}
      BY <1>4 DEF OnTheirWay
    <2>3. Len(outgoing) = 0 /\ Len(toNode) = 0
      BY <2>1, <2>2
    <2>. QED BY <2>1, <2>3
  <1>6. node.requests = {}
    BY <1>0, <1>1 DEF Tables
  <1>7. handler = NoRequest
    BY <1>0, <1>6 DEF Handled
  <1>. QED BY <1>1, <1>3, <1>4, <1>5, <1>6, <1>7

LEMMA ConnectKeeps ==
    ASSUME ConnectionInv, Connect
    PROVE  ConnectionInv'
  <1>0. ConnectionTypeOK /\ Numbers /\ Tables /\ HonestPeersAgree /\ CommandsTruthful
    BY DEF ConnectionInv
  <1>1. ConnectionTypeOK'
    BY <1>0, ApplicationTypes DEF Application
  <1>2. Remembers /\ client'.error = client.error /\ client'.status = "offering" /\ client.status = "new"
    BY <1>0 DEF Connect, Remembers, ConnectionTypeOK, ClientRecord
  <1>3. UNCHANGED <<result, outgoing, toNode, toClient, transport, node, handler, called, carried>>
    BY DEF Connect, nodeVars
  <1>4. client.sequence = 0 /\ client.seen = 0
    BY <1>0, <1>2 DEF Numbers, NumbersOut, NumbersIn
  <1>5. /\ OnTheirWay' = {} /\ toClient' = <<>> /\ handler' = NoRequest /\ node'.sent = 0
        /\ outgoing' = <<>> /\ toNode' = <<>> /\ node' = node
    BY <1>3, <1>4, Quiet DEF OnTheirWay
  <1>6. NumbersOut'
    BY <1>0, <1>2, <1>3, <1>4, <1>5 DEF Numbers, NumbersOut, Remembers
  <1>7. NumbersIn'
    <2>1. Len(toClient') = 0 /\ DOMAIN toClient' = {}
      BY <1>5
    <2>. QED BY <1>0, <1>2, <1>4, <1>5, <2>1 DEF Numbers, NumbersIn, Remembers
  <1>8. Requests' /\ Handled' /\ Answers'
    BY <1>5 DEF Requests, Handled, Answers
  <1>9. Tables'
    BY <1>0, <1>2, <1>3 DEF Tables, Remembers
  <1>10. HonestPeersAgree' /\ CommandsTruthful'
    BY <1>0, <1>2, <1>3
       DEF HonestPeersAgree, CommandsTruthful, CommandOnce, ResultsTruthful, Remembers
  <1>. QED BY <1>1, <1>6, <1>7, <1>8, <1>9, <1>10 DEF ConnectionInv, Numbers

LEMMA WayAppended ==
    ASSUME ConnectionTypeOK, NEW g \in OutFrame, outgoing' = Append(outgoing, g), toNode' = toNode
    PROVE  OnTheirWay' \subseteq OnTheirWay \cup {g}
  <1>1. outgoing \in Seq(OutFrame)
    BY DEF ConnectionTypeOK
  <1>2. \A i \in DOMAIN outgoing' : outgoing'[i] = g \/ \E j \in DOMAIN outgoing : outgoing'[i] = outgoing[j]
    BY <1>1, QueueAppended
  <1>. QED BY <1>2 DEF OnTheirWay

LEMMA OneLonger ==
    ASSUME NEW s \in Nat, NEW t \in Nat, NEW l \in Nat, NEW q \in Nat, NEW i \in Nat
    PROVE  /\ s + l = q + i => s + (l + 1) = (q + 1) + i
           /\ s + t + l = q + i => s + t + (l + 1) = (q + 1) + i
           /\ s + t + l = q => s + t + (l + 1) = q + 1
           /\ s = q + 1 => s + (l + 1) = (q + 1) + (l + 1)
  OBVIOUS

(* A frame is sent with the next number. *)
LEMMA SpokenNumbers ==
    ASSUME ConnectionTypeOK, NumbersOut, NEW g \in OutFrame, g.seq = client.sequence + 1,
           g.type = "offer" <=> client.sequence = 0,
           outgoing' = Append(outgoing, g), toNode' = toNode, node' = node,
           client'.sequence = client.sequence + 1, client'.status \in {"connecting", "connected"}
    PROVE  NumbersOut'
  <1>0. outgoing \in Seq(OutFrame) /\ toNode \in Seq(OutFrame) /\ client.sequence \in Nat
    BY ClientKnown DEF ConnectionTypeOK
  <1>a. PICK l \in Nat, t \in Nat, q \in Nat, r \in Nat :
           l = Len(outgoing) /\ t = Len(toNode) /\ q = client.sequence /\ r = node.received
    BY <1>0, NodeKnown
  <1>1. /\ Len(outgoing') = l + 1
        /\ DOMAIN outgoing' = 1..(l + 1) /\ outgoing'[l + 1] = g /\ DOMAIN outgoing = 1..l
        /\ \A i \in DOMAIN outgoing : outgoing'[i] = outgoing[i] /\ outgoing[i] \in OutFrame
    BY <1>0, <1>a, QueueAppended
  <1>b. client'.sequence = q + 1
    BY <1>a
  <1>2. \A i \in DOMAIN outgoing' : outgoing'[i].seq + Len(outgoing') = client'.sequence + i
    <2>1. ASSUME NEW i \in 1..l
          PROVE  outgoing'[i].seq + Len(outgoing') = client'.sequence + i
      <3>1. outgoing[i] \in OutFrame /\ outgoing[i].seq + l = q + i
        BY <1>1, <1>a DEF NumbersOut
      <3>2. PICK s \in Nat : s = outgoing[i].seq
        BY <3>1 DEF OutFrame
      <3>3. s + (l + 1) = (q + 1) + i
        <4>1. i \in Nat /\ s + l = q + i
          BY <3>1, <3>2
        <4>. QED BY <4>1, OneLonger
      <3>4. outgoing'[i].seq = s
        BY <1>1, <3>2
      <3>. QED BY <1>1, <1>b, <3>3, <3>4
    <2>2. g.seq + Len(outgoing') = client'.sequence + (l + 1)
      BY <1>1, <1>a, <1>b
    <2>3. \A i \in 1..(l + 1) : i \in 1..l \/ i = l + 1
      BY <1>a
    <2>. QED BY <1>1, <2>1, <2>2, <2>3
  <1>3. node.phase # "exited" =>
           \A i \in DOMAIN toNode : toNode[i].seq + Len(toNode) + Len(outgoing') = client'.sequence + i
    <2>. SUFFICES ASSUME node.phase # "exited", NEW i \in DOMAIN toNode
                  PROVE  toNode[i].seq + t + (l + 1) = (q + 1) + i
      BY <1>a, <1>b, <1>1
    <2>1. toNode[i] \in OutFrame /\ i \in Nat
      BY <1>0
    <2>2. toNode[i].seq + t + l = q + i
      BY <1>a DEF NumbersOut
    <2>3. PICK s \in Nat : s = toNode[i].seq
      BY <2>1 DEF OutFrame
    <2>4. s + t + (l + 1) = (q + 1) + i
      <3>1. i \in Nat /\ s + t + l = q + i
        BY <2>1, <2>2, <2>3
      <3>. QED BY <3>1, OneLonger
    <2>. QED BY <2>3, <2>4
  <1>4. node.phase = "serving" =>
          /\ node.received + Len(toNode) + Len(outgoing') = client'.sequence
          /\ node.handshake = IF node.received = 0 THEN "awaiting" ELSE "accepted"
    <2>. SUFFICES ASSUME node.phase = "serving" PROVE r + t + (l + 1) = q + 1
      BY <1>a, <1>b, <1>1 DEF NumbersOut
    <2>1. r + t + l = q
      BY <1>a DEF NumbersOut
    <2>. QED BY <2>1, OneLonger
  <1>5. \A f \in OnTheirWay' : f.seq \in 1 .. client'.sequence /\ (f.type = "offer" <=> f.seq = 1)
    <2>1. \A f \in OnTheirWay : f.seq \in 1 .. client.sequence /\ (f.type = "offer" <=> f.seq = 1)
      BY DEF NumbersOut
    <2>. QED BY <1>0, <2>1, WayAppended
  <1>. QED BY <1>0, <1>2, <1>3, <1>4, <1>5 DEF NumbersOut

LEMMA SendOfferKeeps ==
    ASSUME ConnectionInv, SendOffer
    PROVE  ConnectionInv'
  <1>0. ConnectionTypeOK /\ Numbers /\ Tables /\ HonestPeersAgree /\ CommandsTruthful
    BY DEF ConnectionInv
  <1>1. ConnectionTypeOK'
    BY <1>0, ApplicationTypes
  <1>2. /\ client.status = "offering" /\ client'.status = "connecting"
        /\ client'.sequence = client.sequence + 1 /\ client'.next = client.next
        /\ client'.offer = client.offer /\ client'.capabilities = client.capabilities
        /\ client'.seen = client.seen /\ client'.told = client.told /\ client'.asked = client.asked
        /\ client'.error = client.error
    BY <1>0 DEF SendOffer, ConnectionTypeOK, ClientRecord
  <1>3. UNCHANGED <<result, toNode, toClient, transport, node, handler, called, carried>>
    BY DEF SendOffer, nodeVars
  <1>4. client.sequence = 0
    BY <1>0, <1>2 DEF Numbers, NumbersOut
  <1>5. PICK g : g = [seq |-> client.sequence + 1, type |-> "offer", request |-> NoRequest]
    OBVIOUS
  <1>6. g \in OutFrame /\ g.seq = client.sequence + 1 /\ g.type = "offer" /\ g.request.id = 0
        /\ outgoing' = Append(outgoing, g)
    <2>1. client.sequence + 1 \in Nat
      BY <1>4
    <2>2. g \in OutFrame
      BY <1>5, <2>1, FrameTypes
    <2>. QED BY <1>5, <2>2 DEF SendOffer, NoRequest
  <1>7. /\ OnTheirWay = {} /\ toClient = <<>> /\ handler = NoRequest /\ node.sent = 0
        /\ node.requests = {}
    BY <1>4, Quiet
  <1>8. NumbersOut'
    BY <1>0, <1>2, <1>3, <1>4, <1>6, SpokenNumbers DEF Numbers
  <1>9. NumbersIn'
    BY <1>0, <1>2, <1>3, <1>4, ClientKnown DEF Numbers, NumbersIn, Listening
  <1>10. Requests'
    <2>1. \A f \in OnTheirWay' : f = g
      BY <1>0, <1>3, <1>6, <1>7, WayAppended
    <2>2. g.type # "request" /\ g.request.id < client'.next
      BY <1>0, <1>2, <1>6, ClientKnown
    <2>. QED BY <1>3, <1>4, <1>6, <1>7, <2>1, <2>2 DEF Requests
  <1>11. Handled' /\ Answers'
    BY <1>3, <1>7 DEF Handled, Answers
  <1>12. Tables'
    BY <1>0, <1>2, <1>3 DEF Tables
  <1>13. HonestPeersAgree' /\ CommandsTruthful'
    BY <1>0, <1>2, <1>3 DEF HonestPeersAgree, CommandsTruthful, CommandOnce, ResultsTruthful
  <1>. QED BY <1>1, <1>8, <1>9, <1>10, <1>11, <1>12, <1>13 DEF ConnectionInv, Numbers

(* An operation takes the next identifier; it is neither at the Node nor   *)
(* on its way.                                                             *)
TakesIdentifier(n) ==
    /\ client.status = "connected" /\ n = client.next /\ n \in Request
    /\ client'.status = client.status /\ client'.offer = client.offer
    /\ client'.capabilities = client.capabilities /\ client'.next = n + 1
    /\ client'.seen = client.seen /\ client'.told = client.told /\ client'.error = client.error
    /\ \A r \in Request : r # n => result'[r] = result[r] /\ client'.asked[r] = client.asked[r]
    /\ result'[n] \in {"pending", "failed"}
    /\ UNCHANGED <<toNode, toClient, transport, node, handler, called, carried>>

LEMMA OperateEffect ==
    ASSUME ConnectionTypeOK, NEW kind \in Kinds, NEW command \in Commands \cup {None},
           NEW project \in Projects \cup {None}, Operate(kind, command, project),
           NEW q, q = [id |-> client.next, kind |-> kind, command |-> command, project |-> project]
    PROVE  /\ TakesIdentifier(client.next) /\ q \in RequestOf
           /\ \/ /\ client'.sequence = client.sequence /\ client'.asked = client.asked
                 /\ outgoing' = outgoing
              \/ /\ client'.sequence = client.sequence + 1 /\ client'.asked[client.next] = q
                 /\ result'[client.next] = "pending"
                 /\ outgoing' = Append(outgoing, [seq |-> client.sequence + 1, type |-> "request",
                                                  request |-> q])
  <1>0. client \in ClientRecord /\ result \in [Request -> Results]
        /\ client.asked \in [Request -> RequestOf]
    BY DEF ConnectionTypeOK, ClientRecord
  <1>1. client.next \in Request /\ client.status = "connected" /\ q \in RequestOf
    BY KindsAssumption DEF Operate, RequestOf, RequestIn, NeedsProject
  <1>2. UNCHANGED <<toNode, toClient, transport, node, handler, called, carried>>
    BY DEF Operate, nodeVars
  <1>3. CASE client' = EncodeFails /\ result' = [result EXCEPT ![client.next] = "failed"]
             /\ UNCHANGED outgoing
    <2>1. /\ client'.status = client.status /\ client'.offer = client.offer
          /\ client'.capabilities = client.capabilities /\ client'.next = client.next + 1
          /\ client'.seen = client.seen /\ client'.told = client.told /\ client'.error = client.error
          /\ client'.sequence = client.sequence /\ client'.asked = client.asked
      BY <1>0, <1>3 DEF EncodeFails, ClientRecord
    <2>2. \A r \in Request : result'[r] = IF r = client.next THEN "failed" ELSE result[r]
      BY <1>0, <1>3
    <2>. QED BY <1>1, <1>2, <1>3, <2>1, <2>2 DEF TakesIdentifier
  <1>4. CASE /\ client' = [client EXCEPT !.next = @ + 1, !.sequence = @ + 1,
                               !.asked[client.next] = q]
             /\ result' = [result EXCEPT ![client.next] = "pending"]
             /\ outgoing' = Append(outgoing, [seq |-> client.sequence + 1, type |-> "request",
                                              request |-> q])
    <2>1. /\ client'.status = client.status /\ client'.offer = client.offer
          /\ client'.capabilities = client.capabilities /\ client'.next = client.next + 1
          /\ client'.seen = client.seen /\ client'.told = client.told /\ client'.error = client.error
          /\ client'.sequence = client.sequence + 1
          /\ client'.asked = [client.asked EXCEPT ![client.next] = q]
      BY <1>0, <1>4 DEF ClientRecord
    <2>2. \A r \in Request : result'[r] = IF r = client.next THEN "pending" ELSE result[r]
      BY <1>0, <1>4
    <2>3. \A r \in Request : client'.asked[r] = IF r = client.next THEN q ELSE client.asked[r]
      BY <1>0, <2>1
    <2>. QED BY <1>1, <1>2, <1>4, <2>1, <2>2, <2>3 DEF TakesIdentifier
  <1>. QED BY <1>3, <1>4 DEF Operate

LEMMA OperateKeeps ==
    ASSUME ConnectionInv, NEW kind \in Kinds, NEW command \in Commands \cup {None},
           NEW project \in Projects \cup {None}, Operate(kind, command, project)
    PROVE  ConnectionInv'
  <1>0. ConnectionTypeOK /\ Numbers /\ Requests /\ Handled /\ Answers /\ Tables
        /\ HonestPeersAgree /\ CommandsTruthful
    BY DEF ConnectionInv
  <1>1. ConnectionTypeOK'
    BY <1>0, ApplicationTypes DEF Application
  <1>2. PICK q : q = [id |-> client.next, kind |-> kind, command |-> command, project |-> project]
    OBVIOUS
  <1>3. PICK n \in Nat : n = client.next
    BY <1>0, ClientKnown
  <1>4. /\ TakesIdentifier(n) /\ q \in RequestOf /\ q.id = n
        /\ \/ /\ client'.sequence = client.sequence /\ client'.asked = client.asked
              /\ outgoing' = outgoing
           \/ /\ client'.sequence = client.sequence + 1 /\ client'.asked[n] = q
              /\ result'[n] = "pending"
              /\ outgoing' = Append(outgoing, [seq |-> client.sequence + 1, type |-> "request",
                                               request |-> q])
    BY <1>0, <1>2, <1>3, OperateEffect
  <1>5. /\ n \in Request /\ client.status = "connected" /\ client'.status = "connected"
        /\ client'.next = n + 1
        /\ UNCHANGED <<toNode, toClient, transport, node, handler, called, carried>>
        /\ \A r \in Request : r # n => result'[r] = result[r] /\ client'.asked[r] = client.asked[r]
    BY <1>4 DEF TakesIdentifier
  <1>6. \A r \in node.requests : r \in Request /\ r < n /\ r # n
    <2>. SUFFICES ASSUME NEW r \in node.requests PROVE r \in Request /\ r < n /\ r # n
      OBVIOUS
    <2>1. r \in Request /\ r \in 1 .. n - 1
      BY <1>0, <1>3, NodeKnown DEF Tables
    <2>2. r \in Nat /\ r < n /\ r # n
      BY <2>1
    <2>. QED BY <2>1, <2>2
  <1>7. NumbersIn'
    BY <1>0, <1>4, ClientKnown DEF Numbers, NumbersIn, Listening, TakesIdentifier, NumbersOut
  <1>8. Handled'
    <2>. SUFFICES ASSUME handler # NoRequest PROVE Handled'
      BY <1>5 DEF Handled
    <2>1. handler.id \in node.requests /\ handler.id \in Request /\ handler.id # n
      BY <1>0, <1>6 DEF Handled
    <2>. QED BY <1>0, <1>5, <2>1 DEF Handled, Listening
  <1>9. Answers'
    <2>. SUFFICES ASSUME NEW i \in DOMAIN toClient
                  PROVE  toClient[i].type = "answer" /\ Listening' => result'[toClient[i].id] = "pending"
      BY <1>0, <1>4, <1>5 DEF Answers, TakesIdentifier
    <2>. SUFFICES ASSUME toClient[i].type = "answer" PROVE result'[toClient[i].id] = "pending"
      OBVIOUS
    <2>1. toClient[i].id \in node.requests /\ result[toClient[i].id] = "pending"
      BY <1>0, <1>5 DEF Answers, Listening
    <2>2. PICK r \in Request : r = toClient[i].id
      BY <1>6, <2>1
    <2>3. r # n /\ result[r] = "pending"
      BY <1>6, <2>1, <2>2
    <2>4. result'[r] = "pending"
      BY <1>5, <2>3
    <2>. QED BY <2>2, <2>4
  <1>10. Tables'
    <2>1. node.requests \subseteq 1..(n + 1) - 1
      BY <1>0, <1>3 DEF Tables
    <2>. QED BY <1>0, <1>4, <1>5, <2>1 DEF Tables, TakesIdentifier
  <1>11. HonestPeersAgree'
    <2>1. client'.next >= client.next /\ client'.error = client.error /\ client'.offer = client.offer
      BY <1>3, <1>4 DEF TakesIdentifier
    <2>2. client.next > MaxTracked => client'.next > MaxTracked
      BY <1>3, <1>5, ConnectionAssumption
    <2>. QED BY <1>0, <1>5, <2>1, <2>2 DEF HonestPeersAgree
  <1>12. CommandsTruthful'
    <2>1. n \notin carried.done
      BY <1>0, <1>3, <1>6 DEF Tables
    <2>2. ASSUME NEW r \in Request
          PROVE  /\ result'[r] = "ok" => r \in carried.done
                 /\ result'[r] = "rejected" => r \notin carried.done \ carried.unsent
                 /\ result'[r] = "failed" /\ r \in carried.done => client'.asked[r].kind \notin CommandKinds
      <3>1. CASE r = n
        BY <1>4, <2>1, <3>1 DEF TakesIdentifier
      <3>2. CASE r # n
        BY <1>0, <1>5, <3>2 DEF CommandsTruthful, ResultsTruthful
      <3>. QED BY <3>1, <3>2
    <2>. QED BY <1>0, <1>5, <2>2 DEF CommandsTruthful, CommandOnce, ResultsTruthful
  <1>13. \A f \in OnTheirWay :
            /\ f.seq \in Nat /\ f.seq <= client.sequence
            /\ f.request.id < n /\ f.request.id < client'.next
            /\ f.type = "request" =>
                  /\ f.request.id # 0 /\ f.request = client'.asked[f.request.id]
                  /\ result'[f.request.id] \in {"pending", Lost(f.request.kind)}
                  /\ Listening' /\ node'.phase = "serving" => result'[f.request.id] = "pending"
            /\ \A r \in node'.requests : r < f.request.id
    <2>. SUFFICES ASSUME NEW f \in OnTheirWay
                  PROVE
            /\ f.seq \in Nat /\ f.seq <= client.sequence
            /\ f.request.id < n /\ f.request.id < client'.next
            /\ f.type = "request" =>
                  /\ f.request.id # 0 /\ f.request = client'.asked[f.request.id]
                  /\ result'[f.request.id] \in {"pending", Lost(f.request.kind)}
                  /\ Listening' /\ node'.phase = "serving" => result'[f.request.id] = "pending"
            /\ \A r \in node'.requests : r < f.request.id
      OBVIOUS
    <2>1. f.seq \in Nat /\ f.request.id \in Request \cup {0}
      BY <1>0, WayTypes
    <2>2. f.seq <= client.sequence
      BY <1>0, <2>1, ClientKnown DEF Numbers, NumbersOut
    <2>3. PICK x \in Nat : x = f.request.id
      BY <2>1 DEF Request
    <2>4. x < n
      BY <1>0, <1>3, <2>3 DEF Requests
    <2>5. x < n + 1 /\ x # n
      BY <2>4
    <2>6. f.request.id < n /\ f.request.id < client'.next
      BY <1>5, <2>3, <2>4, <2>5
    <2>7. \A r \in node'.requests : r < f.request.id
      BY <1>0, <1>5 DEF Requests
    <2>8. ASSUME f.type = "request"
          PROVE  /\ f.request.id # 0 /\ f.request = client'.asked[f.request.id]
                 /\ result'[f.request.id] \in {"pending", Lost(f.request.kind)}
                 /\ Listening' /\ node'.phase = "serving" => result'[f.request.id] = "pending"
      <3>1. /\ f.request.id # 0 /\ f.request = client.asked[f.request.id]
            /\ result[f.request.id] \in {"pending", Lost(f.request.kind)}
            /\ Listening /\ node.phase = "serving" => result[f.request.id] = "pending"
        BY <1>0, <2>8 DEF Requests
      <3>2. x \in Request /\ x # n
        BY <2>1, <2>3, <2>5, <3>1
      <3>3. result'[x] = result[x] /\ client'.asked[x] = client.asked[x]
        BY <1>5, <3>2
      <3>4. Listening
        BY <1>5 DEF Listening
      <3>. QED BY <1>5, <2>3, <3>1, <3>3, <3>4
    <2>. QED BY <2>1, <2>2, <2>6, <2>7, <2>8
  <1>14. CASE outgoing' = outgoing /\ client'.sequence = client.sequence
    <2>1. OnTheirWay' = OnTheirWay
      BY <1>5, <1>14 DEF OnTheirWay
    <2>2. NumbersOut'
      BY <1>0, <1>5, <1>14, <2>1 DEF Numbers, NumbersOut
    <2>3. Requests'
      <3>1. \A f, h \in OnTheirWay : f.seq < h.seq => f.request.id < h.request.id
        BY <1>0 DEF Requests
      <3>. QED BY <1>13, <2>1, <3>1 DEF Requests
    <2>. QED BY <1>1, <1>7, <1>8, <1>9, <1>10, <1>11, <1>12, <2>2, <2>3 DEF ConnectionInv, Numbers
  <1>15. CASE /\ client'.sequence = client.sequence + 1 /\ client'.asked[n] = q
              /\ result'[n] = "pending"
              /\ outgoing' = Append(outgoing, [seq |-> client.sequence + 1, type |-> "request",
                                               request |-> q])
    <2>1. PICK g : g = [seq |-> client.sequence + 1, type |-> "request", request |-> q]
      OBVIOUS
    <2>2. client.sequence \in Nat /\ client.sequence + 1 \in Nat /\ client.sequence > 0
      BY <1>0, <1>5, ClientKnown DEF Numbers, NumbersOut
    <2>3. g \in OutFrame /\ g.seq = client.sequence + 1 /\ g.type = "request" /\ g.request = q
      BY <1>4, <2>1, <2>2, FrameTypes
    <2>4. outgoing' = Append(outgoing, g)
      BY <1>15, <2>1
    <2>5. OnTheirWay' \subseteq OnTheirWay \cup {g}
      BY <1>0, <1>5, <2>3, <2>4, WayAppended
    <2>6. NumbersOut'
      BY <1>0, <1>5, <1>15, <2>2, <2>3, <2>4, SpokenNumbers DEF Numbers
    <2>7. Requests'
      <3>1. /\ g.request.id = n /\ n # 0 /\ g.request = client'.asked[n] /\ result'[n] = "pending"
            /\ n < client'.next
        <4>1. n < n + 1
          OBVIOUS
        <4>2. n # 0
          BY <1>5 DEF Request
        <4>. QED BY <1>4, <1>5, <1>15, <2>3, <4>1, <4>2
      <3>2. \A f \in OnTheirWay' :
              /\ f.request.id < client'.next
              /\ f.type = "request" =>
                    /\ f.request.id # 0 /\ f.request = client'.asked[f.request.id]
                    /\ result'[f.request.id] \in {"pending", Lost(f.request.kind)}
                    /\ Listening' /\ node'.phase = "serving" => result'[f.request.id] = "pending"
              /\ \A r \in node'.requests : r < f.request.id
        <4>. SUFFICES ASSUME NEW f \in OnTheirWay'
                      PROVE
              /\ f.request.id < client'.next
              /\ f.type = "request" =>
                    /\ f.request.id # 0 /\ f.request = client'.asked[f.request.id]
                    /\ result'[f.request.id] \in {"pending", Lost(f.request.kind)}
                    /\ Listening' /\ node'.phase = "serving" => result'[f.request.id] = "pending"
              /\ \A r \in node'.requests : r < f.request.id
          OBVIOUS
        <4>1. CASE f = g
          <5>1. \A r \in node'.requests : r < n
            BY <1>5, <1>6
          <5>. QED BY <3>1, <4>1, <5>1
        <4>2. CASE f \in OnTheirWay
          BY <1>13, <4>2
        <4>. QED BY <2>5, <4>1, <4>2
      <3>3. ASSUME NEW f \in OnTheirWay', NEW h \in OnTheirWay', f.seq < h.seq
            PROVE  f.request.id < h.request.id
        <4>1. CASE f \in OnTheirWay /\ h \in OnTheirWay
          BY <1>0, <3>3, <4>1 DEF Requests
        <4>2. CASE f \in OnTheirWay /\ h = g
          BY <1>13, <3>1, <4>2
        <4>3. CASE f = g
          <5>1. h.seq <= client.sequence + 1 /\ h.seq \in Nat
            BY <1>13, <2>2, <2>3, <2>5
          <5>. QED BY <2>2, <2>3, <3>3, <4>3, <5>1
        <4>. QED BY <2>5, <4>1, <4>2, <4>3
      <3>. QED BY <3>2, <3>3 DEF Requests
    <2>. QED BY <1>1, <1>7, <1>8, <1>9, <1>10, <1>11, <1>12, <2>6, <2>7 DEF ConnectionInv, Numbers
  <1>. QED BY <1>4, <1>14, <1>15

-----------------------------------------------------------------------------
(* The client reads what it expects.                                       *)

LEMMA AnswerTaken ==
    ASSUME ConnectionTypeOK, NumbersIn, toClient # <<>>, toClient' = Tail(toClient)
    PROVE  /\ Len(toClient) \in Nat \ {0} /\ Len(toClient') = Len(toClient) - 1
           /\ \A i \in DOMAIN toClient' :
                 /\ i \in Nat \ {0} /\ i + 1 \in DOMAIN toClient /\ toClient'[i] = toClient[i + 1]
                 /\ toClient'[i].seq + Len(toClient') = node.sent + i
                 /\ toClient'[i].type \in {"accepted", "rejected"} <=> toClient'[i].seq = 1
  <1>0. toClient \in Seq(InFrame) /\ node.sent \in Nat
    BY NodeKnown DEF ConnectionTypeOK
  <1>1. /\ DOMAIN toClient' = 1..(Len(toClient) - 1) /\ Len(toClient') = Len(toClient) - 1
        /\ DOMAIN toClient = 1..Len(toClient) /\ Len(toClient) \in Nat \ {0}
        /\ \A i \in DOMAIN toClient' : i + 1 \in DOMAIN toClient /\ toClient'[i] = toClient[i + 1]
    BY <1>0, QueueTaken
  <1>2. ASSUME NEW i \in DOMAIN toClient'
        PROVE  /\ i \in Nat \ {0} /\ i + 1 \in DOMAIN toClient /\ toClient'[i] = toClient[i + 1]
               /\ toClient'[i].seq + Len(toClient') = node.sent + i
               /\ toClient'[i].type \in {"accepted", "rejected"} <=> toClient'[i].seq = 1
    <2>1. i \in Nat \ {0} /\ i + 1 \in DOMAIN toClient /\ toClient'[i] = toClient[i + 1]
      BY <1>1
    <2>2. toClient[i + 1].seq \in Nat
      BY <2>1, InTypes
    <2>3. /\ toClient[i + 1].seq + Len(toClient) = node.sent + (i + 1)
          /\ toClient[i + 1].type \in {"accepted", "rejected"} <=> toClient[i + 1].seq = 1
      BY <2>1 DEF NumbersIn
    <2>4. PICK s \in Nat, l \in Nat, q \in Nat :
             s = toClient[i + 1].seq /\ l = Len(toClient) /\ q = node.sent
      BY <1>0, <1>1, <2>2
    <2>5. s + (l - 1) = q + i
      BY <2>1, <2>3, <2>4, SMTT(30)
    <2>. QED BY <1>1, <2>1, <2>3, <2>4, <2>5
  <1>. QED BY <1>1, <1>2

ReadsOn(f) ==
    /\ Listening /\ toClient # <<>> /\ f = Head(toClient) /\ toClient' = Tail(toClient)
    /\ client'.status = "connected" /\ client'.seen = client.seen + 1
    /\ client'.offer = client.offer /\ client'.next = client.next
    /\ client'.sequence = client.sequence /\ client'.asked = client.asked
    /\ client'.error = client.error /\ client'.capabilities = node.capabilities
    /\ client'.told \subseteq node.projects
    /\ \A r \in Request : result'[r] = result[r] \/ (f.type = "answer" /\ r = f.id)
    /\ UNCHANGED <<outgoing, toNode, node, handler, called, carried>>

LEMMA ReadsOnKeeps ==
    ASSUME ConnectionInv, ConnectionTypeOK', NEW f, ReadsOn(f), CommandsTruthful'
    PROVE  ConnectionInv'
  <1>0. ConnectionTypeOK /\ Numbers /\ Requests /\ Handled /\ Answers /\ Tables
        /\ HonestPeersAgree /\ NumbersIn /\ NumbersOut
    BY DEF ConnectionInv, Numbers
  <1>1. /\ Listening /\ toClient # <<>> /\ f = Head(toClient) /\ toClient' = Tail(toClient)
        /\ client'.status = "connected" /\ client'.seen = client.seen + 1
        /\ client'.offer = client.offer /\ client'.next = client.next
        /\ client'.sequence = client.sequence /\ client'.asked = client.asked
        /\ client'.error = client.error /\ client'.capabilities = node.capabilities
        /\ client'.told \subseteq node.projects
        /\ \A r \in Request : result'[r] = result[r] \/ (f.type = "answer" /\ r = f.id)
        /\ UNCHANGED <<outgoing, toNode, node, handler, called, carried>>
    BY DEF ReadsOn
  <1>2. f = toClient[1] /\ 1 \in DOMAIN toClient /\ f \in InFrame
    BY <1>1, ReadFacts
  <1>3. OnTheirWay' = OnTheirWay
    BY <1>1 DEF OnTheirWay
  <1>4. PICK l \in Nat \ {0}, s \in Nat, n \in Nat :
           l = Len(toClient) /\ s = client.seen /\ n = node.sent /\ s + l = n
    BY <1>0, <1>1, AnswerTaken, ClientKnown, NodeKnown DEF NumbersIn
  <1>5. n > 0 /\ s + 1 > 0 /\ (s + 1) + (l - 1) = n /\ l - 1 <= n
    BY <1>4
  <1>6. client.sequence > 0
    BY <1>0, <1>4, <1>5 DEF NumbersIn
  <1>7. NumbersOut'
    BY <1>0, <1>1, <1>3, <1>6 DEF NumbersOut
  <1>8. Len(toClient') = l - 1
    BY <1>0, <1>1, <1>4, AnswerTaken
  <1>9. NumbersIn'
    <2>1. \A i \in DOMAIN toClient' :
             /\ toClient'[i].seq + Len(toClient') = node'.sent + i
             /\ toClient'[i].type \in {"accepted", "rejected"} <=> toClient'[i].seq = 1
      BY <1>0, <1>1, AnswerTaken
    <2>2. Len(toClient') <= node'.sent /\ client'.seen + Len(toClient') = node'.sent /\ client'.seen > 0
      BY <1>1, <1>4, <1>5, <1>8
    <2>3. node'.sent > 0 => client'.sequence > 0
      BY <1>1, <1>6
    <2>4. node'.handshake = "awaiting" <=> node'.sent = 0
      BY <1>0, <1>1 DEF NumbersIn
    <2>. QED BY <1>1, <2>1, <2>2, <2>3, <2>4 DEF NumbersIn
  <1>10. f.type = "answer" => f.id \in node.requests
    BY <1>0, <1>2 DEF Answers
  <1>11. Listening'
    BY <1>1 DEF Listening
  <1>12. Requests'
    <2>1. \A g \in OnTheirWay : g.type = "request" => result'[g.request.id] = result[g.request.id]
      <3>. SUFFICES ASSUME NEW g \in OnTheirWay, g.type = "request"
                    PROVE  result'[g.request.id] = result[g.request.id]
        OBVIOUS
      <3>1. g.request.id \in Request
        BY <1>0, WayTypes DEF Requests
      <3>2. PICK x \in Nat : x = g.request.id
        BY <3>1 DEF Request
      <3>3. \A r \in node.requests : r < x
        BY <1>0, <3>2 DEF Requests
      <3>4. ~(x < x)
        OBVIOUS
      <3>5. f.type = "answer" => x # f.id
        BY <1>10, <3>3, <3>4
      <3>. QED BY <1>1, <3>1, <3>2, <3>5
    <2>2. ASSUME NEW g \in OnTheirWay
          PROVE  /\ g.request.id < client'.next
                 /\ g.type = "request" =>
                     /\ g.request.id # 0 /\ g.request = client'.asked[g.request.id]
                     /\ result'[g.request.id] \in {"pending", Lost(g.request.kind)}
                     /\ Listening' /\ node'.phase = "serving" => result'[g.request.id] = "pending"
                 /\ \A r \in node'.requests : r < g.request.id
      BY <1>0, <1>1, <2>1 DEF Requests
    <2>3. \A g, h \in OnTheirWay : g.seq < h.seq => g.request.id < h.request.id
      BY <1>0 DEF Requests
    <2>. QED BY <1>3, <2>2, <2>3 DEF Requests
  <1>13. Handled'
    <2>. SUFFICES ASSUME handler # NoRequest PROVE Handled'
      BY <1>1 DEF Handled
    <2>1. handler.id \in Request /\ (f.type = "answer" => f.id # handler.id)
      BY <1>0, <1>2, NodeKnown DEF Handled
    <2>2. result'[handler.id] = result[handler.id]
      BY <1>1, <2>1
    <2>3. \A i \in DOMAIN toClient' : toClient'[i].type = "answer" => toClient'[i].id # handler.id
      BY <1>0, <1>1, AnswerTaken DEF Handled
    <2>. QED BY <1>0, <1>1, <2>2, <2>3 DEF Handled
  <1>14. Answers'
    <2>. SUFFICES ASSUME NEW i \in DOMAIN toClient', NEW g, g = toClient'[i]
                  PROVE
          /\ g.type = "answer" =>
              /\ g.id \in node'.requests /\ g.projects \subseteq node'.projects
              /\ g.how = "done" => g.id \in carried'.done
              /\ g.how \notin {"done", "uncertain"} => g.id \notin carried'.done \ carried'.unsent
              /\ Listening' => result'[g.id] = "pending"
              /\ \A j \in DOMAIN toClient' :
                    j # i /\ toClient'[j].type = "answer" => toClient'[j].id # g.id
          /\ g.type = "accepted" =>
              g.version \in Range(client'.offer.versions) /\ g.capabilities = node'.capabilities
          /\ g.type = "rejected" => Range(client'.offer.versions) \cap NodeVersions = {}
          /\ g.type = "violation" => node'.violation = "identifiers"
      BY DEF Answers
    <2>1. \A j \in DOMAIN toClient' :
             j \in Nat \ {0} /\ j + 1 \in DOMAIN toClient /\ toClient'[j] = toClient[j + 1]
      BY <1>0, <1>1, AnswerTaken
    <2>2. PICK k \in DOMAIN toClient : k = i + 1 /\ g = toClient[k]
      BY <2>1
    <2>3. CASE g.type = "answer"
      <3>1. /\ g.id \in node.requests /\ g.projects \subseteq node.projects
            /\ g.how = "done" => g.id \in carried.done
            /\ g.how \notin {"done", "uncertain"} => g.id \notin carried.done \ carried.unsent
            /\ result[g.id] = "pending"
            /\ \A j \in DOMAIN toClient : j # k /\ toClient[j].type = "answer" => toClient[j].id # g.id
        BY <1>0, <1>1, <2>2, <2>3 DEF Answers
      <3>2. ASSUME NEW j \in DOMAIN toClient', j # i, toClient'[j].type = "answer"
            PROVE  toClient'[j].id # g.id
        <4>1. j + 1 # k
          BY <2>1, <2>2, <3>2
        <4>. QED BY <2>1, <3>1, <3>2, <4>1
      <3>3. g.id \in Request /\ (f.type = "answer" => g.id # f.id)
        <4>1. 1 # k
          BY <2>1, <2>2
        <4>. QED BY <1>0, <1>2, <3>1, <4>1, NodeKnown
      <3>4. result'[g.id] = "pending"
        BY <1>1, <3>1, <3>3
      <3>. QED BY <1>1, <2>3, <3>1, <3>2, <3>4
    <2>4. CASE g.type # "answer"
      BY <1>0, <1>1, <2>2, <2>4 DEF Answers
    <2>. QED BY <2>3, <2>4
  <1>15. Tables'
    BY <1>0, <1>1 DEF Tables
  <1>16. HonestPeersAgree'
    BY <1>0, <1>1 DEF HonestPeersAgree
  <1>. QED BY <1>7, <1>9, <1>12, <1>13, <1>14, <1>15, <1>16 DEF ConnectionInv, Numbers

LEMMA AcceptedKeeps ==
    ASSUME ConnectionInv, NEW f, ReadHandshake(f), Usable(f)
    PROVE  ConnectionInv'
  <1>0. ConnectionTypeOK /\ Answers /\ Tables /\ CommandsTruthful
    BY DEF ConnectionInv
  <1>1. ConnectionTypeOK'
    <2>1. ClientReads
      BY DEF ClientReads, ReadHandshake, TakeFrame
    <2>. QED BY <1>0, <2>1, ReadTypes
  <1>2. /\ Listening /\ toClient # <<>> /\ f = Head(toClient) /\ toClient' = Tail(toClient)
        /\ client' = [Seen(f) EXCEPT !.status = "connected", !.capabilities = f.capabilities]
        /\ UNCHANGED <<result, outgoing, toNode, node, handler, called, carried>>
    BY DEF ReadHandshake, TakeFrame, nodeVars
  <1>3. f = toClient[1] /\ 1 \in DOMAIN toClient /\ f.seq = client.seen + 1 /\ f.type = "accepted"
    BY <1>2, ReadFacts DEF Usable
  <1>4. f.capabilities = node.capabilities
    BY <1>0, <1>3 DEF Answers
  <1>5. /\ client'.status = "connected" /\ client'.seen = f.seq
        /\ client'.offer = client.offer /\ client'.next = client.next
        /\ client'.sequence = client.sequence /\ client'.asked = client.asked
        /\ client'.error = client.error /\ client'.capabilities = f.capabilities
        /\ client'.told = client.told
    <2>1. client \in ClientRecord
      BY <1>0 DEF ConnectionTypeOK
    <2>. QED BY <1>2, <2>1 DEF Seen, ClientRecord
  <1>6. ReadsOn(f)
    BY <1>0, <1>2, <1>3, <1>4, <1>5 DEF ReadsOn, Tables
  <1>7. CommandsTruthful'
    BY <1>0, <1>2, <1>5 DEF CommandsTruthful, CommandOnce, ResultsTruthful
  <1>. QED BY <1>1, <1>6, <1>7, ReadsOnKeeps

LEMMA AnswerKeeps ==
    ASSUME ConnectionInv, NEW f, ReadAnswer(f)
    PROVE  ConnectionInv'
  <1>0. ConnectionTypeOK /\ NumbersIn /\ Answers /\ Tables /\ CommandsTruthful
    BY DEF ConnectionInv, Numbers
  <1>1. ConnectionTypeOK'
    <2>1. ClientReads
      BY DEF ClientReads, ReadAnswer, TakeFrame
    <2>. QED BY <1>0, <2>1, ReadTypes
  <1>2. /\ Listening /\ toClient # <<>> /\ f = Head(toClient) /\ toClient' = Tail(toClient)
        /\ client' = [Seen(f) EXCEPT !.told = @ \cup f.projects]
        /\ result' = [result EXCEPT ![f.id] = Outcome(f.how)]
        /\ UNCHANGED <<outgoing, toNode, node, handler, called, carried>> /\ f.type = "answer"
    BY DEF ReadAnswer, TakeFrame, nodeVars
  <1>3. f = toClient[1] /\ 1 \in DOMAIN toClient /\ f.seq = client.seen + 1
        /\ client.status = "connected"
    BY <1>2, ReadFacts
  <1>4. /\ f.id \in node.requests /\ f.projects \subseteq node.projects
        /\ f.how = "done" => f.id \in carried.done
        /\ f.how \notin {"done", "uncertain"} => f.id \notin carried.done \ carried.unsent
    BY <1>0, <1>2, <1>3 DEF Answers
  <1>5. /\ client'.status = client.status /\ client'.seen = f.seq
        /\ client'.offer = client.offer /\ client'.next = client.next
        /\ client'.sequence = client.sequence /\ client'.asked = client.asked
        /\ client'.error = client.error /\ client'.capabilities = client.capabilities
        /\ client'.told = client.told \cup f.projects
    <2>1. client \in ClientRecord
      BY <1>0 DEF ConnectionTypeOK
    <2>. QED BY <1>2, <2>1 DEF Seen, ClientRecord
  <1>6. f.id \in Request /\ \A r \in Request : result'[r] = IF r = f.id THEN Outcome(f.how) ELSE result[r]
    <2>1. result \in [Request -> Results] /\ f.id \in Request
      BY <1>0, <1>4, NodeKnown DEF ConnectionTypeOK
    <2>. QED BY <1>2, <2>1
  <1>7. ReadsOn(f)
    <2>1. client'.told \subseteq node.projects /\ client'.capabilities = node.capabilities
      BY <1>0, <1>3, <1>4, <1>5 DEF Tables
    <2>. QED BY <1>2, <1>3, <1>5, <1>6, <2>1 DEF ReadsOn
  <1>8. CommandsTruthful'
    <2>1. ASSUME NEW r \in Request
          PROVE  /\ result'[r] = "ok" => r \in carried.done
                 /\ result'[r] = "rejected" => r \notin carried.done \ carried.unsent
                 /\ result'[r] = "failed" /\ r \in carried.done => client.asked[r].kind \notin CommandKinds
      <3>1. CASE r = f.id
        BY <1>4, <1>6, <3>1 DEF Outcome
      <3>2. CASE r # f.id
        BY <1>0, <1>6, <3>2 DEF CommandsTruthful, ResultsTruthful
      <3>. QED BY <3>1, <3>2
    <2>. QED BY <1>0, <1>2, <1>5, <2>1 DEF CommandsTruthful, CommandOnce, ResultsTruthful
  <1>. QED BY <1>1, <1>7, <1>8, ReadsOnKeeps

-----------------------------------------------------------------------------
(* The transport writes.                                                   *)

LEMMA OutTaken ==
    ASSUME ConnectionTypeOK, NumbersOut, outgoing # <<>>, outgoing' = Tail(outgoing)
    PROVE  /\ Head(outgoing) \in OutFrame /\ Head(outgoing) \in OnTheirWay
           /\ Len(outgoing) \in Nat \ {0} /\ Len(outgoing') = Len(outgoing) - 1
           /\ Head(outgoing).seq \in Nat
           /\ Head(outgoing).seq + Len(outgoing) = client.sequence + 1
           /\ \A i \in DOMAIN outgoing' :
                 /\ outgoing'[i] \in OnTheirWay
                 /\ outgoing'[i].seq + Len(outgoing') = client.sequence + i
  <1>0. outgoing \in Seq(OutFrame) /\ client.sequence \in Nat
    BY ClientKnown DEF ConnectionTypeOK
  <1>1. /\ Head(outgoing) \in OutFrame /\ Head(outgoing) = outgoing[1] /\ 1 \in DOMAIN outgoing
        /\ DOMAIN outgoing' = 1..(Len(outgoing) - 1) /\ Len(outgoing') = Len(outgoing) - 1
        /\ DOMAIN outgoing = 1..Len(outgoing) /\ Len(outgoing) \in Nat \ {0}
        /\ \A i \in DOMAIN outgoing' : i + 1 \in DOMAIN outgoing /\ outgoing'[i] = outgoing[i + 1]
    BY <1>0, QueueTaken
  <1>2. ASSUME NEW i \in DOMAIN outgoing'
        PROVE  /\ outgoing'[i] \in OnTheirWay
               /\ outgoing'[i].seq + Len(outgoing') = client.sequence + i
    <2>1. i \in Nat \ {0} /\ i + 1 \in DOMAIN outgoing /\ outgoing'[i] = outgoing[i + 1]
      BY <1>1
    <2>2. outgoing[i + 1] \in OnTheirWay
      BY <2>1 DEF OnTheirWay
    <2>3. outgoing[i + 1].seq \in Nat /\ outgoing[i + 1].seq + Len(outgoing) = client.sequence + (i + 1)
      BY <2>1, <2>2, WayTypes DEF NumbersOut
    <2>4. PICK s \in Nat, l \in Nat, q \in Nat :
             s = outgoing[i + 1].seq /\ l = Len(outgoing) /\ q = client.sequence
      BY <1>0, <1>1, <2>3
    <2>5. s + (l - 1) = q + i
      BY <2>1, <2>3, <2>4, SMTT(30)
    <2>. QED BY <1>1, <2>1, <2>2, <2>4, <2>5
  <1>3. Head(outgoing) \in OnTheirWay
    BY <1>1 DEF OnTheirWay
  <1>4. Head(outgoing).seq \in Nat /\ Head(outgoing).seq + Len(outgoing) = client.sequence + 1
    BY <1>1, <1>3, WayTypes DEF NumbersOut
  <1>. QED BY <1>1, <1>2, <1>3, <1>4

(* Fewer frames are on their way. *)
LEMMA FewerRequests ==
    ASSUME Requests, OnTheirWay' \subseteq OnTheirWay,
           UNCHANGED <<client, result, node>>
    PROVE  Requests'
  <1>1. Listening' <=> Listening
    BY DEF Listening
  <1>2. ASSUME NEW f \in OnTheirWay
        PROVE  /\ f.request.id < client'.next
               /\ f.type = "request" =>
                   /\ f.request.id # 0 /\ f.request = client'.asked[f.request.id]
                   /\ result'[f.request.id] \in {"pending", Lost(f.request.kind)}
                   /\ Listening' /\ node'.phase = "serving" => result'[f.request.id] = "pending"
               /\ \A r \in node'.requests : r < f.request.id
    BY <1>1 DEF Requests
  <1>3. \A f, g \in OnTheirWay : f.seq < g.seq => f.request.id < g.request.id
    BY DEF Requests
  <1>. QED BY <1>2, <1>3 DEF Requests

LEMMA WriteFrameKeeps ==
    ASSUME ConnectionInv, WriteFrame
    PROVE  ConnectionInv'
  <1>0. ConnectionTypeOK /\ NumbersOut /\ NumbersIn /\ Requests /\ Handled /\ Answers /\ Tables
        /\ HonestPeersAgree /\ CommandsTruthful
    BY DEF ConnectionInv, Numbers
  <1>1. ConnectionTypeOK'
    BY <1>0, TransportTypes DEF TransportRuns
  <1>2. PICK h : h = Head(outgoing)
    OBVIOUS
  <1>3. /\ outgoing # <<>> /\ node.phase # "exited"
        /\ toNode' = Append(toNode, h) /\ outgoing' = Tail(outgoing)
        /\ UNCHANGED <<client, result, toClient, node, handler, called, carried>>
    BY <1>2 DEF WriteFrame, clientVars, nodeVars
  <1>4. /\ h \in OutFrame /\ h \in OnTheirWay
        /\ Len(outgoing) \in Nat \ {0} /\ Len(outgoing') = Len(outgoing) - 1
        /\ h.seq \in Nat /\ h.seq + Len(outgoing) = client.sequence + 1
        /\ \A i \in DOMAIN outgoing' :
              /\ outgoing'[i] \in OnTheirWay
              /\ outgoing'[i].seq + Len(outgoing') = client.sequence + i
    BY <1>0, <1>2, <1>3, OutTaken
  <1>5. /\ Len(toNode) \in Nat /\ Len(toNode') = Len(toNode) + 1
        /\ DOMAIN toNode' = 1..(Len(toNode) + 1) /\ DOMAIN toNode = 1..Len(toNode)
        /\ toNode'[Len(toNode) + 1] = h /\ \A i \in DOMAIN toNode : toNode'[i] = toNode[i]
    <2>1. toNode \in Seq(OutFrame)
      BY <1>0 DEF ConnectionTypeOK
    <2>. QED BY <1>3, <1>4, <2>1, QueueAppended
  <1>6. OnTheirWay' \subseteq OnTheirWay
    <2>1. \A i \in DOMAIN toNode' : toNode'[i] \in OnTheirWay
      BY <1>4, <1>5 DEF OnTheirWay
    <2>. QED BY <1>4, <2>1 DEF OnTheirWay
  <1>7. PICK l \in Nat \ {0}, t \in Nat, q \in Nat, r \in Nat, x \in Nat :
           /\ l = Len(outgoing) /\ t = Len(toNode) /\ q = client.sequence /\ r = node.received
           /\ x = h.seq
    BY <1>0, <1>4, <1>5, ClientKnown, NodeKnown
  <1>8. Len(outgoing') = l - 1 /\ Len(toNode') = t + 1 /\ client'.sequence = q
    BY <1>3, <1>4, <1>5, <1>7
  <1>9. \A i \in DOMAIN toNode' : toNode'[i].seq + Len(toNode') + Len(outgoing') = client'.sequence + i
    <2>1. ASSUME NEW i \in 1..t
          PROVE  toNode'[i].seq + Len(toNode') + Len(outgoing') = client'.sequence + i
      <3>1. i \in DOMAIN toNode /\ i \in Nat /\ toNode'[i] = toNode[i]
        BY <1>5, <1>7
      <3>2. toNode[i].seq \in Nat /\ toNode[i].seq + Len(toNode) + Len(outgoing) = client.sequence + i
        BY <1>0, <1>3, <3>1, WayTypes DEF NumbersOut, OnTheirWay
      <3>3. PICK s \in Nat : s = toNode[i].seq
        BY <3>2
      <3>4. s + t + l = q + i
        BY <1>7, <3>2, <3>3
      <3>5. s + (t + 1) + (l - 1) = q + i
        BY <3>1, <3>4
      <3>. QED BY <1>8, <3>1, <3>3, <3>5
    <2>2. toNode'[t + 1].seq + Len(toNode') + Len(outgoing') = client'.sequence + (t + 1)
      <3>1. x + l = q + 1
        BY <1>4, <1>7
      <3>2. x + (t + 1) + (l - 1) = q + (t + 1)
        BY <3>1
      <3>. QED BY <1>5, <1>7, <1>8, <3>2
    <2>3. \A i \in DOMAIN toNode' : i \in 1..t \/ i = t + 1
      BY <1>5, <1>7
    <2>. QED BY <2>1, <2>2, <2>3
  <1>10. node.phase = "serving" => node.received + Len(toNode') + Len(outgoing') = client'.sequence
    <2>. SUFFICES ASSUME node.phase = "serving" PROVE r + (t + 1) + (l - 1) = q
      BY <1>7, <1>8
    <2>1. r + t + l = q
      BY <1>0, <1>7 DEF NumbersOut
    <2>. QED BY <2>1
  <1>11. NumbersOut'
    BY <1>0, <1>3, <1>4, <1>6, <1>9, <1>10 DEF NumbersOut
  <1>12. NumbersIn'
    BY <1>0, <1>3 DEF NumbersIn, Listening
  <1>13. Requests'
    BY <1>0, <1>3, <1>6, FewerRequests
  <1>14. Handled' /\ Answers' /\ Tables' /\ HonestPeersAgree' /\ CommandsTruthful'
    BY <1>0, <1>3
       DEF Handled, Answers, Tables, HonestPeersAgree, CommandsTruthful, CommandOnce,
           ResultsTruthful, Listening
  <1>. QED BY <1>1, <1>11, <1>12, <1>13, <1>14 DEF ConnectionInv, Numbers

(* A request that cannot be written is no more at the Node than one on its *)
(* way.                                                                    *)
LEMMA WriteFailsKeeps ==
    ASSUME ConnectionInv, WriteFails
    PROVE  ConnectionInv'
  <1>0. ConnectionTypeOK /\ NumbersOut /\ NumbersIn /\ Requests /\ Handled /\ Answers /\ Tables
        /\ HonestPeersAgree /\ CommandsTruthful
    BY DEF ConnectionInv, Numbers
  <1>1. ConnectionTypeOK'
    BY <1>0, TransportTypes DEF TransportRuns
  <1>2. PICK h : h = Head(outgoing)
    OBVIOUS
  <1>3. /\ outgoing # <<>> /\ node.phase = "exited" /\ outgoing' = Tail(outgoing)
        /\ UNCHANGED <<toNode, toClient, node, handler, called, carried>>
    BY <1>2 DEF WriteFails, nodeVars
  <1>4. /\ h \in OnTheirWay /\ Len(outgoing') = Len(outgoing) - 1
        /\ \A i \in DOMAIN outgoing' :
              /\ outgoing'[i] \in OnTheirWay
              /\ outgoing'[i].seq + Len(outgoing') = client.sequence + i
    BY <1>0, <1>2, <1>3, OutTaken
  <1>5. NodeKept
    BY <1>3 DEF NodeKept
  <1>6. CASE h.type = "request" /\ h.request.id \in Waiting
             /\ result' = [result EXCEPT ![h.request.id] = Lost(h.request.kind)] /\ client' = client
    <2>1. PICK x \in Request : x = h.request.id
      BY <1>6 DEF Waiting
    <2>2. \A r \in Request : result'[r] = IF r = x THEN Lost(h.request.kind) ELSE result[r]
      BY <1>0, <1>6, <2>1 DEF ConnectionTypeOK
    <2>3. h.request = client.asked[x] /\ \A r \in node.requests : r < x
      BY <1>0, <1>4, <1>6, <2>1 DEF Requests
    <2>4. \A r \in node.requests : r # x /\ result'[r] = result[r]
      <3>1. x \in Nat /\ ~(x < x)
        BY DEF Request
      <3>. QED BY <1>0, <2>2, <2>3, <3>1, NodeKnown
    <2>5. OnTheirWay' \subseteq OnTheirWay
      BY <1>3, <1>4 DEF OnTheirWay
    <2>6. NumbersOut'
      <3>1. node'.phase = "exited"
        BY <1>3
      <3>. QED BY <1>0, <1>4, <1>6, <2>5, <3>1 DEF NumbersOut
    <2>7. NumbersIn'
      BY <1>0, <1>3, <1>6 DEF NumbersIn, Listening
    <2>8. Requests'
      <3>1. ASSUME NEW f \in OnTheirWay
            PROVE  /\ f.request.id < client'.next
                   /\ f.type = "request" =>
                       /\ f.request.id # 0 /\ f.request = client'.asked[f.request.id]
                       /\ result'[f.request.id] \in {"pending", Lost(f.request.kind)}
                   /\ \A r \in node'.requests : r < f.request.id
        <4>1. /\ f.request.id < client.next /\ \A r \in node.requests : r < f.request.id
              /\ f.type = "request" =>
                       /\ f.request.id # 0 /\ f.request = client.asked[f.request.id]
                       /\ result[f.request.id] \in {"pending", Lost(f.request.kind)}
          BY <1>0 DEF Requests
        <4>2. f.type = "request" => f.request.id \in Request
          BY <1>0, <4>1, WayTypes
        <4>. QED BY <1>3, <1>6, <2>2, <2>3, <4>1, <4>2
      <3>2. \A f, g \in OnTheirWay : f.seq < g.seq => f.request.id < g.request.id
        BY <1>0 DEF Requests
      <3>. QED BY <1>3, <2>5, <3>1, <3>2 DEF Requests
    <2>9. Handled'
      BY <1>0, <1>3 DEF Handled
    <2>10. Answers'
      BY <1>0, <1>3, <1>6, <2>4 DEF Answers, Listening
    <2>11. Tables' /\ HonestPeersAgree'
      BY <1>0, <1>3, <1>6 DEF Tables, HonestPeersAgree
    <2>12. CommandsTruthful'
      <3>1. ASSUME NEW r \in Request
            PROVE  /\ result'[r] = "ok" => r \in carried.done
                   /\ result'[r] = "rejected" => r \notin carried.done \ carried.unsent
                   /\ result'[r] = "failed" /\ r \in carried.done => client.asked[r].kind \notin CommandKinds
        <4>1. CASE r = x
          BY <2>2, <2>3, <4>1 DEF Lost
        <4>2. CASE r # x
          BY <1>0, <2>2, <4>2 DEF CommandsTruthful, ResultsTruthful
        <4>. QED BY <4>1, <4>2
      <3>. QED BY <1>0, <1>3, <1>6, <3>1 DEF CommandsTruthful, CommandOnce, ResultsTruthful
    <2>. QED BY <1>1, <2>6, <2>7, <2>8, <2>9, <2>10, <2>11, <2>12 DEF ConnectionInv, Numbers
  <1>7. CASE client' = client /\ result' = result
    <2>1. Remembers /\ HonestPeersAgree'
      BY <1>0, <1>3, <1>7 DEF Remembers, HonestPeersAgree
    <2>2. Fades
      BY <1>3, <1>5, <1>7, <2>1 DEF Fades, historyVars
    <2>. QED BY <1>1, <2>1, <2>2, FadesKeeps
  <1>8. CASE FailConnection("disconnected")
    <2>1. Remembers /\ client'.status = "lost" /\ client'.error = "disconnected" /\ result' = AllLost
      BY <1>0, <1>8, FailRemembers
    <2>2. HonestPeersAgree'
      BY <1>0, <1>5, <2>1, HonestKept
    <2>3. Fades
      BY <1>3, <1>5, <2>1 DEF Fades, historyVars
    <2>. QED BY <1>1, <2>2, <2>3, FadesKeeps
  <1>. QED BY <1>2, <1>6, <1>7, <1>8 DEF WriteFails, clientVars

-----------------------------------------------------------------------------
(* The Node takes a frame, and sends one.                                  *)

LEMMA TakenOut ==
    ASSUME ConnectionInv, node.phase = "serving", toNode # <<>>, NEW f, f = Head(toNode),
           toNode' = Tail(toNode), outgoing' = outgoing
    PROVE  /\ f \in OnTheirWay /\ f \in OutFrame /\ f.seq = node.received + 1
           /\ Len(toNode) \in Nat \ {0} /\ Len(toNode') = Len(toNode) - 1
           /\ \A i \in DOMAIN toNode' :
                 toNode'[i].seq + Len(toNode') + Len(outgoing') = client.sequence + i
           /\ OnTheirWay' \subseteq OnTheirWay
           /\ \A g \in OnTheirWay' : f.seq < g.seq
           /\ client.sequence > 0
  <1>0. ConnectionTypeOK /\ NumbersOut
    BY DEF ConnectionInv, Numbers
  <1>1. toNode \in Seq(OutFrame) /\ outgoing \in Seq(OutFrame)
    BY <1>0 DEF ConnectionTypeOK
  <1>2. /\ f \in OutFrame /\ f = toNode[1] /\ 1 \in DOMAIN toNode
        /\ DOMAIN toNode' = 1..(Len(toNode) - 1) /\ Len(toNode') = Len(toNode) - 1
        /\ DOMAIN toNode = 1..Len(toNode) /\ Len(toNode) \in Nat \ {0}
        /\ \A i \in DOMAIN toNode' : i + 1 \in DOMAIN toNode /\ toNode'[i] = toNode[i + 1]
    BY <1>1, QueueTaken
  <1>3. PICK t \in Nat \ {0}, l \in Nat, q \in Nat, r \in Nat :
           t = Len(toNode) /\ l = Len(outgoing) /\ q = client.sequence /\ r = node.received
    <2>1. Len(outgoing) \in Nat
      BY <1>1
    <2>. QED BY <1>0, <1>2, <2>1, ClientKnown, NodeKnown
  <1>4. f \in OnTheirWay
    BY <1>2 DEF OnTheirWay
  <1>5. r + t + l = q
    BY <1>0, <1>3 DEF NumbersOut
  <1>6. f.seq \in Nat /\ f.seq = r + 1
    <2>1. f.seq \in Nat /\ f.seq + t + l = q + 1
      BY <1>0, <1>2, <1>3, <1>4, WayTypes DEF NumbersOut
    <2>2. PICK x \in Nat : x = f.seq
      BY <2>1
    <2>3. x = r + 1
      BY <1>5, <2>1, <2>2
    <2>. QED BY <2>2, <2>3
  <1>7. ASSUME NEW i \in DOMAIN toNode'
        PROVE  /\ toNode'[i] \in OnTheirWay /\ f.seq < toNode'[i].seq
               /\ toNode'[i].seq + Len(toNode') + Len(outgoing') = client.sequence + i
    <2>1. i \in Nat \ {0} /\ i + 1 \in DOMAIN toNode /\ toNode'[i] = toNode[i + 1]
      BY <1>2
    <2>2. toNode[i + 1] \in OnTheirWay
      BY <2>1 DEF OnTheirWay
    <2>3. toNode[i + 1].seq \in Nat /\ toNode[i + 1].seq + t + l = q + (i + 1)
      BY <1>0, <1>3, <2>1, <2>2, WayTypes DEF NumbersOut
    <2>4. PICK s \in Nat : s = toNode[i + 1].seq
      BY <2>3
    <2>5. s + (t - 1) + l = q + i /\ r + 1 < s
      BY <1>5, <2>1, <2>3, <2>4, SMTT(30)
    <2>. QED BY <1>2, <1>3, <1>6, <2>1, <2>2, <2>4, <2>5
  <1>8. ASSUME NEW i \in DOMAIN outgoing
        PROVE  outgoing[i] \in OnTheirWay /\ f.seq < outgoing[i].seq
    <2>1. i \in Nat \ {0} /\ outgoing[i] \in OnTheirWay
      BY <1>1 DEF OnTheirWay
    <2>2. outgoing[i].seq \in Nat /\ outgoing[i].seq + l = q + i
      BY <1>0, <1>3, <2>1, WayTypes DEF NumbersOut
    <2>3. PICK s \in Nat : s = outgoing[i].seq
      BY <2>2
    <2>4. s + l = q + i /\ i \in Nat \ {0}
      BY <2>1, <2>2, <2>3
    <2>5. r + 1 < s
      BY <1>5, <2>4
    <2>. QED BY <1>6, <2>1, <2>3, <2>5
  <1>9. OnTheirWay' \subseteq OnTheirWay /\ \A g \in OnTheirWay' : f.seq < g.seq
    BY <1>7, <1>8 DEF OnTheirWay
  <1>10. client.sequence > 0
    BY <1>3, <1>5
  <1>. QED BY <1>2, <1>3, <1>4, <1>6, <1>7, <1>9, <1>10

(* It is the frame the Node expects: the offer exactly while it awaits one.*)
LEMMA TakenFrame ==
    ASSUME ConnectionInv, NEW f, TakeRequest(f)
    PROVE  /\ InSequence(f) /\ (f.type = "offer" <=> node.handshake = "awaiting")
           /\ node.handshake \in {"awaiting", "accepted"}
           /\ f.type = "request" =>
                 /\ f.request.id \in Request /\ f.request \in RequestOf
                 /\ f.request.id < client.next /\ f.request.id \notin node.requests
                 /\ f.request = client.asked[f.request.id]
                 /\ \A g \in OnTheirWay' : f.request.id < g.request.id
                 /\ result[f.request.id] \in {"pending", Lost(f.request.kind)}
                 /\ Listening => result[f.request.id] = "pending"
  <1>0. ConnectionTypeOK /\ NumbersOut /\ Requests
    BY DEF ConnectionInv, Numbers
  <1>1. node.phase = "serving" /\ toNode # <<>> /\ f = Head(toNode) /\ toNode' = Tail(toNode)
        /\ outgoing' = outgoing
    BY DEF TakeRequest, Idle
  <1>2. /\ f \in OnTheirWay /\ f.seq = node.received + 1 /\ OnTheirWay' \subseteq OnTheirWay
        /\ \A g \in OnTheirWay' : f.seq < g.seq
    BY <1>1, TakenOut
  <1>3. f.type = "offer" <=> f.seq = 1
    BY <1>0, <1>2 DEF NumbersOut
  <1>4. node.handshake = IF node.received = 0 THEN "awaiting" ELSE "accepted"
    BY <1>0, <1>1 DEF NumbersOut
  <1>5. node.received \in Nat
    BY <1>0, NodeKnown
  <1>6. f.type = "request" =>
                 /\ f.request.id \in Request /\ f.request \in RequestOf
                 /\ f.request.id < client.next /\ f.request.id \notin node.requests
                 /\ f.request = client.asked[f.request.id]
                 /\ \A g \in OnTheirWay' : f.request.id < g.request.id
                 /\ result[f.request.id] \in {"pending", Lost(f.request.kind)}
                 /\ Listening => result[f.request.id] = "pending"
    <2>. SUFFICES ASSUME f.type = "request"
                  PROVE
                 /\ f.request.id \in Request /\ f.request \in RequestOf
                 /\ f.request.id < client.next /\ f.request.id \notin node.requests
                 /\ f.request = client.asked[f.request.id]
                 /\ \A g \in OnTheirWay' : f.request.id < g.request.id
                 /\ result[f.request.id] \in {"pending", Lost(f.request.kind)}
                 /\ Listening => result[f.request.id] = "pending"
      OBVIOUS
    <2>1. f.request \in RequestOf /\ f.request.id \in Request \cup {0}
      BY <1>0, <1>2, WayTypes
    <2>2. /\ f.request.id < client.next /\ f.request.id # 0
          /\ f.request = client.asked[f.request.id]
          /\ result[f.request.id] \in {"pending", Lost(f.request.kind)}
          /\ Listening => result[f.request.id] = "pending"
          /\ \A r \in node.requests : r < f.request.id
      BY <1>0, <1>1, <1>2 DEF Requests
    <2>3. \A g \in OnTheirWay' : f.request.id < g.request.id
      BY <1>0, <1>2 DEF Requests
    <2>4. f.request.id \notin node.requests
      <3>1. PICK x \in Nat : x = f.request.id
        BY <2>1 DEF Request
      <3>2. ~(x < x)
        OBVIOUS
      <3>. QED BY <2>2, <3>1, <3>2
    <2>. QED BY <2>1, <2>2, <2>3, <2>4
  <1>7. f.type = "offer" <=> node.handshake = "awaiting"
    BY <1>2, <1>3, <1>4, <1>5
  <1>. QED BY <1>2, <1>4, <1>6, <1>7 DEF InSequence

LEMMA TakenNumbers ==
    ASSUME ConnectionInv, NEW f, TakeRequest(f), node'.phase # "exited",
           node'.phase = "serving" =>
              node'.received = node.received + 1 /\ node'.handshake = "accepted"
    PROVE  NumbersOut' /\ client.sequence > 0
  <1>0. ConnectionTypeOK /\ NumbersOut
    BY DEF ConnectionInv, Numbers
  <1>1. node.phase = "serving" /\ toNode # <<>> /\ f = Head(toNode) /\ toNode' = Tail(toNode)
        /\ outgoing' = outgoing /\ client' = client
    BY DEF TakeRequest, Idle, clientVars
  <1>2. /\ Len(toNode) \in Nat \ {0} /\ Len(toNode') = Len(toNode) - 1
        /\ \A i \in DOMAIN toNode' :
              toNode'[i].seq + Len(toNode') + Len(outgoing') = client.sequence + i
        /\ OnTheirWay' \subseteq OnTheirWay /\ client.sequence > 0
    BY <1>1, TakenOut
  <1>3. PICK t \in Nat \ {0}, l \in Nat, q \in Nat, r \in Nat :
           t = Len(toNode) /\ l = Len(outgoing) /\ q = client.sequence /\ r = node.received
    <2>1. Len(outgoing) \in Nat
      BY <1>0 DEF ConnectionTypeOK
    <2>. QED BY <1>0, <1>2, <2>1, ClientKnown, NodeKnown
  <1>4. (r + 1) + (t - 1) + l = q /\ r + 1 # 0
    <2>1. r + t + l = q
      BY <1>0, <1>1, <1>3 DEF NumbersOut
    <2>. QED BY <2>1
  <1>5. node'.phase = "serving" =>
           /\ node'.received + Len(toNode') + Len(outgoing') = client'.sequence
           /\ node'.handshake = IF node'.received = 0 THEN "awaiting" ELSE "accepted"
    BY <1>1, <1>2, <1>3, <1>4
  <1>. QED BY <1>0, <1>1, <1>2, <1>5 DEF NumbersOut

LEMMA SentNumbers ==
    ASSUME ConnectionTypeOK, NumbersIn, client.sequence > 0, NEW g \in InFrame, SendFrame(g),
           g.seq = node.sent + 1, g.type \in {"accepted", "rejected"} <=> node.sent = 0,
           node'.sent = node.sent + 1, node'.handshake # "awaiting", client' = client
    PROVE  NumbersIn'
  <1>1. toClient \in Seq(InFrame) /\ toClient' = Append(toClient, g)
    BY DEF ConnectionTypeOK, SendFrame
  <1>2. PICK l \in Nat, n \in Nat, s \in Nat :
           l = Len(toClient) /\ n = node.sent /\ s = client.seen
    BY <1>1, ClientKnown, NodeKnown
  <1>3. /\ Len(toClient') = l + 1 /\ DOMAIN toClient' = 1..(l + 1) /\ DOMAIN toClient = 1..l
        /\ toClient'[l + 1] = g /\ \A i \in DOMAIN toClient : toClient'[i] = toClient[i]
    BY <1>1, <1>2, QueueAppended
  <1>4. \A i \in DOMAIN toClient' :
             /\ toClient'[i].seq + Len(toClient') = node'.sent + i
             /\ toClient'[i].type \in {"accepted", "rejected"} <=> toClient'[i].seq = 1
    <2>1. ASSUME NEW i \in 1..l
          PROVE  /\ toClient'[i].seq + Len(toClient') = node'.sent + i
                 /\ toClient'[i].type \in {"accepted", "rejected"} <=> toClient'[i].seq = 1
      <3>1. i \in Nat /\ i \in DOMAIN toClient /\ toClient'[i] = toClient[i]
        BY <1>3
      <3>2. /\ toClient[i].seq \in Nat /\ toClient[i].seq + l = n + i
            /\ toClient[i].type \in {"accepted", "rejected"} <=> toClient[i].seq = 1
        BY <1>2, <3>1, InTypes DEF NumbersIn
      <3>3. PICK x \in Nat : x = toClient[i].seq
        BY <3>2
      <3>4. x + (l + 1) = (n + 1) + i
        <4>1. x + l = n + i /\ i \in Nat
          BY <3>1, <3>2, <3>3
        <4>. QED BY <4>1, OneLonger
      <3>. QED BY <1>2, <1>3, <3>1, <3>2, <3>3, <3>4
    <2>2. /\ g.seq + Len(toClient') = node'.sent + (l + 1)
          /\ g.type \in {"accepted", "rejected"} <=> g.seq = 1
      <3>1. (n + 1) + (l + 1) = (n + 1) + (l + 1) /\ (n + 1 = 1 <=> n = 0)
        OBVIOUS
      <3>. QED BY <1>2, <1>3, <3>1
    <2>3. \A i \in DOMAIN toClient' : i \in 1..l \/ i = l + 1
      BY <1>3
    <2>. QED BY <1>3, <2>1, <2>2, <2>3
  <1>5. Len(toClient') <= node'.sent
    <2>1. l <= n
      BY <1>2 DEF NumbersIn
    <2>2. l + 1 <= n + 1
      BY <2>1
    <2>. QED BY <1>2, <1>3, <2>2
  <1>6. Listening' =>
          /\ client'.seen + Len(toClient') = node'.sent
          /\ client'.status = "connected" <=> client'.seen > 0
    <2>. SUFFICES ASSUME Listening
                  PROVE  /\ client.seen + Len(toClient') = node'.sent
                         /\ client.status = "connected" <=> client.seen > 0
      BY DEF Listening
    <2>1. s + l = n
      BY <1>2 DEF NumbersIn
    <2>2. s + (l + 1) = n + 1
      BY <2>1
    <2>. QED BY <1>2, <1>3, <2>2 DEF NumbersIn
  <1>7. node'.sent # 0
    BY <1>2
  <1>. QED BY <1>4, <1>5, <1>6, <1>7 DEF NumbersIn

(* What an answer that is sent has to say. *)
Fits(g) ==
    /\ g.type = "answer" =>
          /\ g.id \in node'.requests /\ g.projects \subseteq node'.projects
          /\ g.how = "done" => g.id \in carried'.done
          /\ g.how \notin {"done", "uncertain"} => g.id \notin carried'.done \ carried'.unsent
          /\ Listening => result[g.id] = "pending"
          /\ \A j \in DOMAIN toClient : toClient[j].type = "answer" => toClient[j].id # g.id
    /\ g.type = "accepted" =>
          g.version \in Range(client.offer.versions) /\ g.capabilities = node'.capabilities
    /\ g.type = "rejected" => Range(client.offer.versions) \cap NodeVersions = {}
    /\ g.type = "violation" => node'.violation = "identifiers"

LEMMA SentAnswers ==
    ASSUME ConnectionTypeOK, Answers, NEW g \in InFrame, SendFrame(g), Fits(g),
           client' = client, result' = result,
           node.requests \subseteq node'.requests, node.projects \subseteq node'.projects,
           node.violation = "identifiers" => node'.violation = "identifiers",
           toClient # <<>> => node'.capabilities = node.capabilities,
           \A j \in DOMAIN toClient : toClient[j].type = "answer" =>
              /\ toClient[j].id \in carried'.done <=> toClient[j].id \in carried.done
              /\ toClient[j].id \in carried'.unsent <=> toClient[j].id \in carried.unsent
    PROVE  Answers'
  <1>1. toClient \in Seq(InFrame) /\ toClient' = Append(toClient, g)
    BY DEF ConnectionTypeOK, SendFrame
  <1>2. PICK l \in Nat : l = Len(toClient)
    BY <1>1
  <1>3. /\ DOMAIN toClient' = 1..(l + 1) /\ DOMAIN toClient = 1..l
        /\ toClient'[l + 1] = g /\ \A i \in DOMAIN toClient : toClient'[i] = toClient[i]
    BY <1>1, <1>2, QueueAppended
  <1>4. \A i \in DOMAIN toClient' :
           \/ i \in DOMAIN toClient /\ i # l + 1 /\ toClient'[i] = toClient[i]
           \/ i = l + 1 /\ toClient'[i] = g
    BY <1>2, <1>3
  <1>5. Listening' <=> Listening
    BY DEF Listening
  <1>. SUFFICES ASSUME NEW i \in DOMAIN toClient', NEW f, f = toClient'[i]
                PROVE
          /\ f.type = "answer" =>
              /\ f.id \in node'.requests /\ f.projects \subseteq node'.projects
              /\ f.how = "done" => f.id \in carried'.done
              /\ f.how \notin {"done", "uncertain"} => f.id \notin carried'.done \ carried'.unsent
              /\ Listening' => result'[f.id] = "pending"
              /\ \A j \in DOMAIN toClient' :
                    j # i /\ toClient'[j].type = "answer" => toClient'[j].id # f.id
          /\ f.type = "accepted" =>
              f.version \in Range(client'.offer.versions) /\ f.capabilities = node'.capabilities
          /\ f.type = "rejected" => Range(client'.offer.versions) \cap NodeVersions = {}
          /\ f.type = "violation" => node'.violation = "identifiers"
    BY DEF Answers
  <1>6. CASE i = l + 1 /\ f = g
    <2>1. \A j \in DOMAIN toClient' : j # i => j \in DOMAIN toClient /\ toClient'[j] = toClient[j]
      BY <1>4, <1>6
    <2>. QED BY <1>5, <1>6, <2>1 DEF Fits
  <1>7. CASE i \in DOMAIN toClient /\ i # l + 1 /\ f = toClient[i]
    <2>1. CASE f.type = "answer"
      <3>1. /\ f.id \in node.requests /\ f.projects \subseteq node.projects
            /\ f.how = "done" => f.id \in carried.done
            /\ f.how \notin {"done", "uncertain"} => f.id \notin carried.done \ carried.unsent
            /\ Listening => result[f.id] = "pending"
            /\ \A j \in DOMAIN toClient : j # i /\ toClient[j].type = "answer" => toClient[j].id # f.id
        BY <1>7, <2>1 DEF Answers
      <3>2. ASSUME NEW j \in DOMAIN toClient', j # i, toClient'[j].type = "answer"
            PROVE  toClient'[j].id # f.id
        <4>1. CASE j = l + 1 /\ toClient'[j] = g
          BY <1>7, <2>1, <3>2, <4>1 DEF Fits
        <4>2. CASE j \in DOMAIN toClient /\ toClient'[j] = toClient[j]
          BY <3>1, <3>2, <4>2
        <4>. QED BY <1>4, <4>1, <4>2
      <3>3. /\ f.id \in carried'.done <=> f.id \in carried.done
            /\ f.id \in carried'.unsent <=> f.id \in carried.unsent
        BY <1>7, <2>1
      <3>4. Listening' => result'[f.id] = "pending"
        BY <1>5, <3>1
      <3>5. /\ f.id \in node'.requests /\ f.projects \subseteq node'.projects
            /\ f.how = "done" => f.id \in carried'.done
            /\ f.how \notin {"done", "uncertain"} => f.id \notin carried'.done \ carried'.unsent
        BY <3>1, <3>3
      <3>. QED BY <2>1, <3>2, <3>4, <3>5
    <2>2. CASE f.type # "answer"
      <3>1. toClient # <<>>
        BY <1>7
      <3>2. /\ f.type = "accepted" =>
                 f.version \in Range(client.offer.versions) /\ f.capabilities = node.capabilities
            /\ f.type = "rejected" => Range(client.offer.versions) \cap NodeVersions = {}
            /\ f.type = "violation" => node.violation = "identifiers"
        BY <1>7, <2>2 DEF Answers
      <3>. QED BY <2>2, <3>1, <3>2
    <2>. QED BY <2>1, <2>2
  <1>. QED BY <1>4, <1>6, <1>7

(* The identifiers the Node claims are below those on their way. *)
LEMMA ClaimedRequests ==
    ASSUME Requests, OnTheirWay' \subseteq OnTheirWay, client' = client, result' = result,
           node.phase = "serving",
           \A r \in node'.requests : r \in node.requests \/ \A g \in OnTheirWay' : r < g.request.id
    PROVE  Requests'
  <1>1. Listening' <=> Listening
    BY DEF Listening
  <1>2. ASSUME NEW f \in OnTheirWay'
        PROVE  /\ f.request.id < client'.next
               /\ f.type = "request" =>
                   /\ f.request.id # 0 /\ f.request = client'.asked[f.request.id]
                   /\ result'[f.request.id] \in {"pending", Lost(f.request.kind)}
                   /\ Listening' /\ node'.phase = "serving" => result'[f.request.id] = "pending"
               /\ \A r \in node'.requests : r < f.request.id
    <2>1. f \in OnTheirWay
      OBVIOUS
    <2>. QED BY <1>1, <2>1 DEF Requests
  <1>3. \A f, g \in OnTheirWay' : f.seq < g.seq => f.request.id < g.request.id
    BY DEF Requests
  <1>. QED BY <1>2, <1>3 DEF Requests

-----------------------------------------------------------------------------
(* The Node reads.                                                         *)

LEMMA NoBadFrame ==
    ASSUME ConnectionInv, NEW f
    PROVE  ~HandleBadFrame(f)
  <1>. SUFFICES ASSUME HandleBadFrame(f) PROVE FALSE
    OBVIOUS
  <1>1. /\ TakeRequest(f)
        /\ ~InSequence(f) \/ (f.type = "offer") # (node.handshake = "awaiting")
    BY DEF HandleBadFrame
  <1>2. InSequence(f) /\ (f.type = "offer" <=> node.handshake = "awaiting")
    BY <1>1, TakenFrame
  <1>. QED BY <1>1, <1>2

LEMMA RequestsFinite ==
    ASSUME ConnectionTypeOK
    PROVE  IsFiniteSet(node.requests) /\ Cardinality(node.requests) \in Nat
  <1>1. IsFiniteSet(1..MaxRequests)
    BY FS_Interval, ConnectionAssumption
  <1>2. node.requests \subseteq 1..MaxRequests
    BY NodeKnown DEF Request
  <1>. QED BY <1>1, <1>2, FS_Subset, FS_CardinalityType

(* It has counted at most the identifiers that were given. *)
LEMMA RequestsCounted ==
    ASSUME ConnectionTypeOK, Tables
    PROVE  /\ Cardinality(node.requests) < client.next
           /\ Cardinality(node.commands) < client.next
           /\ Cardinality(node.commands) \in Nat
  <1>1. PICK n \in Nat \ {0} : n = client.next
    BY ClientKnown
  <1>2. IsFiniteSet(1..n - 1) /\ Cardinality(1..n - 1) = n - 1
    <2>1. n - 1 \in Nat
      BY <1>1
    <2>2. \A a, b \in Int : IsFiniteSet(a..b) /\ Cardinality(a..b) = IF a > b THEN 0 ELSE b - a + 1
      BY FS_Interval
    <2>3. IsFiniteSet(1..n - 1) /\ Cardinality(1..n - 1) = IF 1 > n - 1 THEN 0 ELSE n - 1 - 1 + 1
      BY <2>1, <2>2
    <2>. QED BY <2>1, <2>3
  <1>3. node.requests \subseteq 1..n - 1
    BY <1>1 DEF Tables
  <1>4. Cardinality(node.requests) <= n - 1
    BY <1>2, <1>3, FS_Subset
  <1>5. Cardinality(node.requests) \in Nat /\ Cardinality(node.commands) \in Nat
        /\ Cardinality(node.commands) <= Cardinality(node.requests)
    BY RequestsFinite, FS_CardinalityType DEF Tables
  <1>6. Cardinality(node.requests) < n
    BY <1>1, <1>4, <1>5
  <1>7. Cardinality(node.commands) < n
    BY <1>1, <1>5, <1>6
  <1>. QED BY <1>1, <1>5, <1>6, <1>7

LEMMA OfferKeeps ==
    ASSUME ConnectionInv, NEW f, HandleOffer(f)
    PROVE  ConnectionInv'
  <1>0. ConnectionTypeOK /\ NumbersOut /\ NumbersIn /\ Requests /\ Handled /\ Answers /\ Tables
        /\ HonestPeersAgree /\ CommandsTruthful
    BY DEF ConnectionInv, Numbers
  <1>1. ConnectionTypeOK'
    BY <1>0, OfferTypes
  <1>2. /\ TakeRequest(f) /\ node.phase = "serving" /\ handler = NoRequest
        /\ toNode # <<>> /\ f = Head(toNode) /\ toNode' = Tail(toNode)
        /\ node.handshake = "awaiting"
        /\ UNCHANGED <<client, result, outgoing, handler, called, carried>>
    BY DEF HandleOffer, TakeRequest, Idle, clientVars, historyVars
  <1>3. /\ f.seq = node.received + 1 /\ OnTheirWay' \subseteq OnTheirWay /\ client.sequence > 0
        /\ f \in OutFrame
    BY <1>2, TakenOut
  <1>4. node.sent = 0 /\ node.requests = {} /\ toClient = <<>>
    <2>1. node.sent = 0 /\ Len(toClient) <= 0
      BY <1>0, <1>2 DEF NumbersIn
    <2>2. toClient \in Seq(InFrame)
      BY <1>0 DEF ConnectionTypeOK
    <2>. QED BY <1>0, <2>1, <2>2 DEF Tables
  <1>5. client.status # "connected"
    <2>1. Len(toClient) = 0 /\ client.seen \in Nat
      BY <1>0, <1>4, ClientKnown
    <2>2. Listening => client.seen = 0
      BY <1>0, <1>4, <2>1 DEF NumbersIn
    <2>. QED BY <1>0, <2>2 DEF NumbersIn, Listening
  <1>6. PICK i : i = Chosen(client.offer.versions)
    OBVIOUS
  <1>7. /\ i # 0 => /\ client.offer.versions[i] \in Range(client.offer.versions)
                    /\ client.offer.versions[i] \in Nat
        /\ i = 0 => Range(client.offer.versions) \cap NodeVersions = {}
    <2>1. client.offer.versions \in Seq(Nat)
      BY <1>0, ClientKnown
    <2>2. /\ i # 0 => i \in DOMAIN client.offer.versions
          /\ i = 0 => Range(client.offer.versions) \cap NodeVersions = {}
      BY <1>6, <2>1, ChosenUsable
    <2>. QED BY <2>1, <2>2 DEF Range
  <1>8. PICK both : both = Negotiated(client.offer)
    OBVIOUS
  <1>9. both \in SUBSET NodeCapabilities /\ both \subseteq client.offer.capabilities
    BY <1>8 DEF Negotiated
  <1>10. PICK n : n = [Sent(node) EXCEPT !.received = f.seq]
    OBVIOUS
  <1>11. /\ n \in NodeRecord /\ n.sent = node.sent + 1 /\ n.received = f.seq
         /\ n.phase = "serving" /\ n.capabilities = node.capabilities
         /\ n.requests = node.requests /\ n.commands = node.commands
         /\ n.projects = node.projects /\ n.violation = node.violation
    <2>1. node \in NodeRecord /\ node.sent + 1 \in Nat /\ f.seq \in Nat
      BY <1>0, <1>3, NodeKnown
    <2>2. n \in NodeRecord
      BY <1>10, <2>1, SentType, NodeFields, Zenon
    <2>. QED BY <1>2, <1>10, <2>1, <2>2 DEF Sent, NodeRecord
  <1>12. ASSUME NEW g \in InFrame, SendFrame(g), g.seq = node.sent + 1,
                g.type \in {"accepted", "rejected"}, Fits(g),
                node'.sent = node.sent + 1, node'.phase # "exited",
                node'.handshake # "awaiting", node'.capabilities \subseteq client.offer.capabilities,
                node'.phase = "serving" =>
                   node'.received = node.received + 1 /\ node'.handshake = "accepted",
                node'.requests = node.requests, node'.commands = node.commands,
                node'.projects = node.projects, node'.violation = node.violation
         PROVE  ConnectionInv'
    <2>1. NumbersOut'
      BY <1>2, <1>12, TakenNumbers
    <2>2. NumbersIn'
      BY <1>0, <1>2, <1>3, <1>4, <1>12, SentNumbers
    <2>3. Requests'
      BY <1>0, <1>2, <1>3, <1>12, ClaimedRequests
    <2>4. Handled'
      BY <1>2 DEF Handled
    <2>5. Answers'
      BY <1>0, <1>2, <1>4, <1>12, SentAnswers
    <2>6. Tables'
      BY <1>0, <1>2, <1>4, <1>5, <1>12 DEF Tables
    <2>7. HonestPeersAgree' /\ CommandsTruthful'
      BY <1>0, <1>2, <1>12 DEF HonestPeersAgree, CommandsTruthful, CommandOnce, ResultsTruthful
    <2>. QED BY <1>1, <2>1, <2>2, <2>3, <2>4, <2>5, <2>6, <2>7 DEF ConnectionInv, Numbers
  <1>13. CASE /\ i = 0 /\ SendFrame([seq |-> node.sent + 1, type |-> "rejected"])
              /\ node' = [n EXCEPT !.handshake = "rejected", !.phase = "disposing"]
    <2>1. PICK g : g = [seq |-> node.sent + 1, type |-> "rejected"]
      OBVIOUS
    <2>2. g \in InFrame
      <3>1. node.sent + 1 \in Nat
        BY <1>0, NodeKnown
      <3>. QED BY <2>1, <3>1, FrameTypes
    <2>3. g.seq = node.sent + 1 /\ g.type = "rejected" /\ SendFrame(g)
      BY <1>13, <2>1
    <2>4. /\ node'.sent = n.sent /\ node'.phase = "disposing" /\ node'.handshake = "rejected"
          /\ node'.capabilities = n.capabilities /\ node'.requests = n.requests
          /\ node'.commands = n.commands /\ node'.projects = n.projects
          /\ node'.violation = n.violation
      BY <1>11, <1>13 DEF NodeRecord
    <2>5. Fits(g)
      BY <1>7, <1>13, <2>3 DEF Fits
    <2>6. node'.capabilities \subseteq client.offer.capabilities
      BY <1>0, <1>11, <2>4 DEF Tables
    <2>. QED BY <1>11, <1>12, <2>2, <2>3, <2>4, <2>5, <2>6
  <1>14. CASE /\ i # 0
              /\ SendFrame([seq |-> node.sent + 1, type |-> "accepted",
                            version |-> client.offer.versions[i], capabilities |-> both])
              /\ node' = [n EXCEPT !.handshake = "accepted", !.capabilities = both]
    <2>1. PICK g : g = [seq |-> node.sent + 1, type |-> "accepted",
                        version |-> client.offer.versions[i], capabilities |-> both]
      OBVIOUS
    <2>2. g \in InFrame
      <3>1. node.sent + 1 \in Nat /\ client.offer.versions[i] \in Nat
        BY <1>0, <1>7, <1>14, NodeKnown
      <3>. QED BY <1>9, <2>1, <3>1, FrameTypes
    <2>3. /\ g.seq = node.sent + 1 /\ g.type = "accepted" /\ SendFrame(g)
          /\ g.version = client.offer.versions[i] /\ g.capabilities = both
      BY <1>14, <2>1
    <2>4. /\ node'.sent = n.sent /\ node'.phase = n.phase /\ node'.handshake = "accepted"
          /\ node'.capabilities = both /\ node'.requests = n.requests
          /\ node'.commands = n.commands /\ node'.projects = n.projects
          /\ node'.violation = n.violation /\ node'.received = n.received
      BY <1>11, <1>14 DEF NodeRecord
    <2>5. Fits(g)
      BY <1>7, <1>14, <2>3, <2>4 DEF Fits
    <2>. QED BY <1>3, <1>9, <1>11, <1>12, <2>2, <2>3, <2>4, <2>5
  <1>. QED BY <1>6, <1>8, <1>10, <1>13, <1>14 DEF HandleOffer

LEMMA ReceivedFacts ==
    ASSUME ConnectionInv, NEW f, Received(f)
    PROVE  /\ TakeRequest(f) /\ node.phase = "serving" /\ handler = NoRequest
           /\ UNCHANGED <<client, result, outgoing>>
           /\ f.type = "request" /\ f.request.id \in Request /\ f.request \in RequestOf
           /\ f.request.id < client.next /\ f.request.id \notin node.requests
           /\ f.request = client.asked[f.request.id]
           /\ \A g \in OnTheirWay' : f.request.id < g.request.id
           /\ result[f.request.id] \in {"pending", Lost(f.request.kind)}
           /\ Listening => result[f.request.id] = "pending"
           /\ OnTheirWay' \subseteq OnTheirWay /\ client.sequence > 0
           /\ node.handshake = "accepted" /\ node.sent # 0
           /\ f.request.id \notin carried.done
           /\ \A i \in DOMAIN toClient : toClient[i].type = "answer" => toClient[i].id # f.request.id
  <1>0. ConnectionTypeOK /\ NumbersIn /\ Answers /\ Tables
    BY DEF ConnectionInv, Numbers
  <1>1. /\ TakeRequest(f) /\ node.phase = "serving" /\ handler = NoRequest
        /\ UNCHANGED <<client, result, outgoing>> /\ f.type = "request"
        /\ toNode # <<>> /\ f = Head(toNode) /\ toNode' = Tail(toNode)
        /\ node.handshake = "accepted"
    BY DEF Received, TakeRequest, Idle, clientVars
  <1>2. OnTheirWay' \subseteq OnTheirWay /\ client.sequence > 0
    BY <1>1, TakenOut
  <1>3. node.sent # 0
    BY <1>0, <1>1 DEF NumbersIn
  <1>4. /\ f.request.id \in Request /\ f.request \in RequestOf
        /\ f.request.id < client.next /\ f.request.id \notin node.requests
        /\ f.request = client.asked[f.request.id]
        /\ \A g \in OnTheirWay' : f.request.id < g.request.id
        /\ result[f.request.id] \in {"pending", Lost(f.request.kind)}
        /\ Listening => result[f.request.id] = "pending"
    BY <1>1, TakenFrame
  <1>5. f.request.id \notin carried.done
    BY <1>0, <1>4 DEF Tables
  <1>6. \A i \in DOMAIN toClient : toClient[i].type = "answer" => toClient[i].id # f.request.id
    BY <1>0, <1>4 DEF Answers
  <1>. QED BY <1>1, <1>2, <1>3, <1>4, <1>5, <1>6

LEMMA ExhaustKeeps ==
    ASSUME ConnectionInv, NEW f, Exhaust(f)
    PROVE  ConnectionInv'
  <1>0. ConnectionTypeOK /\ NumbersOut /\ NumbersIn /\ Requests /\ Handled /\ Answers /\ Tables
        /\ HonestPeersAgree /\ CommandsTruthful
    BY DEF ConnectionInv, Numbers
  <1>1. /\ Received(f) /\ IdentifiersExhausted(f.request) /\ FailProtocol("identifiers")
        /\ UNCHANGED <<handler, called, carried>>
    BY DEF Exhaust, historyVars
  <1>2. /\ TakeRequest(f) /\ node.phase = "serving" /\ handler = NoRequest
        /\ UNCHANGED <<client, result, outgoing>> /\ f.request.id \in Request
        /\ OnTheirWay' \subseteq OnTheirWay /\ client.sequence > 0
        /\ node.handshake = "accepted" /\ node.sent # 0
    BY <1>1, ReceivedFacts
  <1>3. ConnectionTypeOK'
    <2>1. f.request.id # 0
      BY <1>2 DEF Request
    <2>. QED BY <1>0, <2>1, RequestTypes
  <1>4. PICK g : g = [seq |-> node.sent + 1, type |-> "violation"]
    OBVIOUS
  <1>5. g \in InFrame /\ g.seq = node.sent + 1 /\ g.type = "violation" /\ SendFrame(g)
    <2>1. node.sent + 1 \in Nat
      BY <1>0, NodeKnown
    <2>2. g \in InFrame
      BY <1>4, <2>1, FrameTypes
    <2>. QED BY <1>1, <1>4, <2>2 DEF FailProtocol
  <1>6. /\ node'.phase = "disposing" /\ node'.violation = "identifiers"
        /\ node'.sent = node.sent + 1 /\ node'.handshake = node.handshake
        /\ node'.capabilities = node.capabilities /\ node'.received = node.received
        /\ node'.requests = node.requests /\ node'.commands = node.commands
        /\ node'.projects = node.projects
    <2>1. node \in NodeRecord
      BY <1>0, NodeKnown
    <2>2. node' = [Sent(node) EXCEPT !.phase = "disposing", !.violation = "identifiers"]
      BY <1>1 DEF FailProtocol
    <2>. QED BY <2>1, <2>2 DEF Sent, NodeRecord
  <1>7. NumbersOut'
    BY <1>2, <1>6, TakenNumbers
  <1>8. NumbersIn'
    BY <1>0, <1>2, <1>5, <1>6, SentNumbers
  <1>9. Requests'
    BY <1>0, <1>2, <1>6, ClaimedRequests
  <1>10. Handled'
    BY <1>1, <1>2 DEF Handled
  <1>11. Answers'
    <2>1. Fits(g)
      BY <1>5, <1>6 DEF Fits
    <2>. QED BY <1>0, <1>1, <1>2, <1>5, <1>6, <2>1, SentAnswers
  <1>12. Tables'
    <2>1. node'.sent # 0
      BY <1>0, <1>6, NodeKnown
    <2>. QED BY <1>0, <1>1, <1>2, <1>6, <2>1 DEF Tables
  <1>13. HonestPeersAgree'
    <2>1. client.next > MaxTracked
      <3>1. /\ Cardinality(node.requests) < client.next /\ Cardinality(node.commands) < client.next
            /\ Cardinality(node.requests) \in Nat /\ Cardinality(node.commands) \in Nat
            /\ client.next \in Nat /\ MaxTracked \in Nat
        BY <1>0, RequestsFinite, RequestsCounted, ClientKnown, ConnectionAssumption
      <3>2. Cardinality(node.requests) >= MaxTracked \/ Cardinality(node.commands) >= MaxTracked
        BY <1>1 DEF IdentifiersExhausted
      <3>. QED BY <3>1, <3>2
    <2>. QED BY <1>0, <1>2, <1>6, <2>1 DEF HonestPeersAgree
  <1>14. CommandsTruthful'
    BY <1>0, <1>1, <1>2 DEF CommandsTruthful, CommandOnce, ResultsTruthful
  <1>. QED BY <1>3, <1>7, <1>8, <1>9, <1>10, <1>11, <1>12, <1>13, <1>14 DEF ConnectionInv, Numbers

(* A request that is claimed, and the command it may name with it. *)
LEMMA ClaimedFacts ==
    ASSUME ConnectionTypeOK, Tables, NEW q \in RequestOf, q.id \in Request,
           q.id \notin node.requests, q.id < client.next, ~IdentifiersExhausted(q)
    PROVE  /\ Claimed(q).requests = node.requests \cup {q.id}
           /\ Claimed(q).commands = node.commands \cup ({q.command} \ {None})
           /\ Claimed(q).received = node.received + 1 /\ Claimed(q).sent = node.sent
           /\ Claimed(q).phase = node.phase /\ Claimed(q).handshake = node.handshake
           /\ Claimed(q).capabilities = node.capabilities
           /\ Claimed(q).projects = node.projects /\ Claimed(q).violation = node.violation
           /\ Claimed(q) \in NodeRecord
           /\ Claimed(q).requests \subseteq 1..client.next - 1
           /\ IsFiniteSet(Claimed(q).commands)
           /\ Cardinality(Claimed(q).commands) <= Cardinality(Claimed(q).requests)
           /\ ClaimsRequest(q)
  <1>1. /\ IsFiniteSet(node.requests) /\ Cardinality(node.requests) \in Nat
        /\ IsFiniteSet(node.commands) /\ Cardinality(node.commands) \in Nat
        /\ Cardinality(node.commands) <= Cardinality(node.requests)
        /\ MaxTracked \in Nat
    BY RequestsFinite, RequestsCounted, ConnectionAssumption DEF Tables
  <1>2. /\ Cardinality(node.requests) < MaxTracked
        /\ q.command # None => Cardinality(node.commands) < MaxTracked
    BY <1>1 DEF IdentifiersExhausted
  <1>3. ClaimsRequest(q)
    BY <1>2 DEF ClaimsRequest
  <1>4. node \in NodeRecord /\ None \notin Commands /\ node.commands \in SUBSET Commands
    BY NodeKnown, ConnectionAssumption
  <1>5. /\ Claimed(q).requests = IF Cardinality(node.requests) < MaxTracked
                                 THEN node.requests \cup {q.id} ELSE node.requests
        /\ Claimed(q).commands =
              IF ClaimsRequest(q) /\ q.command # None /\ Cardinality(node.commands) < MaxTracked
              THEN node.commands \cup {q.command} ELSE node.commands
        /\ Claimed(q).received = node.received + 1 /\ Claimed(q).sent = node.sent
        /\ Claimed(q).phase = node.phase /\ Claimed(q).handshake = node.handshake
        /\ Claimed(q).capabilities = node.capabilities
        /\ Claimed(q).projects = node.projects /\ Claimed(q).violation = node.violation
    BY <1>4 DEF Claimed, NodeRecord
  <1>6. Claimed(q).requests = node.requests \cup {q.id}
    BY <1>2, <1>5
  <1>7. Claimed(q).commands = node.commands \cup ({q.command} \ {None})
    <2>1. CASE q.command = None
      BY <1>5, <2>1
    <2>2. CASE q.command # None
      BY <1>2, <1>3, <1>5, <2>2
    <2>. QED BY <2>1, <2>2
  <1>8. Claimed(q) \in NodeRecord
    <2>1. q.id # 0
      BY DEF Request
    <2>. QED BY <2>1, ClaimedType
  <1>9. Claimed(q).requests \subseteq 1..client.next - 1
    <2>1. PICK n \in Nat : n = client.next
      BY ClientKnown
    <2>2. node.requests \subseteq 1..n - 1
      BY <2>1 DEF Tables
    <2>3. PICK x \in Nat \ {0} : x = q.id
      BY DEF Request
    <2>4. x < n
      BY <2>1, <2>3
    <2>5. x \in 1..n - 1
      BY <2>4
    <2>. QED BY <1>6, <2>1, <2>2, <2>3, <2>5
  <1>10. Cardinality(Claimed(q).requests) = Cardinality(node.requests) + 1
    BY <1>1, <1>6, FS_AddElement
  <1>11. /\ IsFiniteSet(Claimed(q).commands)
         /\ Cardinality(Claimed(q).commands) <= Cardinality(node.commands) + 1
    <2>1. CASE q.command = None
      <3>1. Claimed(q).commands = node.commands
        BY <1>7, <2>1
      <3>. QED BY <1>1, <3>1
    <2>2. CASE q.command # None
      <3>1. Claimed(q).commands = node.commands \cup {q.command}
        BY <1>7, <2>2
      <3>2. /\ IsFiniteSet(node.commands \cup {q.command})
            /\ \/ Cardinality(node.commands \cup {q.command}) = Cardinality(node.commands)
               \/ Cardinality(node.commands \cup {q.command}) = Cardinality(node.commands) + 1
        BY <1>1, FS_AddElement
      <3>. QED BY <1>1, <3>1, <3>2
    <2>. QED BY <2>1, <2>2
  <1>12. Cardinality(Claimed(q).commands) <= Cardinality(Claimed(q).requests)
    <2>1. Cardinality(Claimed(q).commands) \in Nat
      BY <1>11, FS_CardinalityType
    <2>. QED BY <1>1, <1>10, <1>11, <2>1
  <1>. QED BY <1>3, <1>5, <1>6, <1>7, <1>8, <1>9, <1>11, <1>12

LEMMA RefuseKeeps ==
    ASSUME ConnectionInv, NEW f, Refuse(f)
    PROVE  ConnectionInv'
  <1>0. ConnectionTypeOK /\ NumbersOut /\ NumbersIn /\ Requests /\ Handled /\ Answers /\ Tables
        /\ HonestPeersAgree /\ CommandsTruthful
    BY DEF ConnectionInv, Numbers
  <1>1. /\ Received(f) /\ ~IdentifiersExhausted(f.request)
        /\ SendFrame(AnswerTo(f.request, "refused", {})) /\ node' = Sent(Claimed(f.request))
        /\ UNCHANGED <<handler, called, carried>>
    BY DEF Refuse, historyVars
  <1>2. /\ TakeRequest(f) /\ node.phase = "serving" /\ handler = NoRequest
        /\ UNCHANGED <<client, result, outgoing>>
        /\ f.request.id \in Request /\ f.request \in RequestOf
        /\ f.request.id < client.next /\ f.request.id \notin node.requests
        /\ \A g \in OnTheirWay' : f.request.id < g.request.id
        /\ Listening => result[f.request.id] = "pending"
        /\ OnTheirWay' \subseteq OnTheirWay /\ client.sequence > 0
        /\ node.handshake = "accepted" /\ node.sent # 0
        /\ f.request.id \notin carried.done
        /\ \A i \in DOMAIN toClient : toClient[i].type = "answer" => toClient[i].id # f.request.id
    BY <1>1, ReceivedFacts
  <1>3. ConnectionTypeOK'
    <2>1. f.request.id # 0
      BY <1>2 DEF Request
    <2>. QED BY <1>0, <2>1, RequestTypes
  <1>4. PICK n : n = Claimed(f.request)
    OBVIOUS
  <1>5. /\ n.requests = node.requests \cup {f.request.id}
        /\ n.commands = node.commands \cup ({f.request.command} \ {None})
        /\ n.received = node.received + 1 /\ n.sent = node.sent
        /\ n.phase = node.phase /\ n.handshake = node.handshake
        /\ n.capabilities = node.capabilities
        /\ n.projects = node.projects /\ n.violation = node.violation
        /\ n \in NodeRecord /\ n.requests \subseteq 1..client.next - 1
        /\ IsFiniteSet(n.commands) /\ Cardinality(n.commands) <= Cardinality(n.requests)
    BY <1>0, <1>1, <1>2, <1>4, ClaimedFacts
  <1>6. /\ node'.sent = n.sent + 1 /\ node'.phase = n.phase /\ node'.handshake = n.handshake
        /\ node'.capabilities = n.capabilities /\ node'.received = n.received
        /\ node'.requests = n.requests /\ node'.commands = n.commands
        /\ node'.projects = n.projects /\ node'.violation = n.violation
    BY <1>1, <1>4, <1>5 DEF Sent, NodeRecord
  <1>7. PICK g : g = AnswerTo(f.request, "refused", {})
    OBVIOUS
  <1>8. /\ g \in InFrame /\ g.seq = node.sent + 1 /\ g.type = "answer" /\ g.id = f.request.id
        /\ g.how = "refused" /\ g.projects = {} /\ SendFrame(g)
    <2>1. node.sent + 1 \in Nat
      BY <1>0, NodeKnown
    <2>2. g \in InFrame
      BY <1>2, <1>7, <2>1, FrameTypes DEF AnswerTo
    <2>. QED BY <1>1, <1>7, <2>2 DEF AnswerTo
  <1>9. NumbersOut'
    BY <1>2, <1>5, <1>6, TakenNumbers
  <1>10. NumbersIn'
    BY <1>0, <1>2, <1>5, <1>6, <1>8, SentNumbers
  <1>11. Requests'
    BY <1>0, <1>2, <1>5, <1>6, ClaimedRequests
  <1>12. Handled'
    BY <1>1, <1>2 DEF Handled
  <1>13. Answers'
    <2>1. Fits(g)
      BY <1>1, <1>2, <1>5, <1>6, <1>8 DEF Fits
    <2>. QED BY <1>0, <1>1, <1>2, <1>5, <1>6, <1>8, <2>1, SentAnswers
  <1>14. Tables'
    <2>1. node'.sent # 0
      BY <1>0, <1>5, <1>6, NodeKnown
    <2>. QED BY <1>0, <1>1, <1>2, <1>5, <1>6, <2>1 DEF Tables
  <1>15. HonestPeersAgree' /\ CommandsTruthful'
    BY <1>0, <1>1, <1>2, <1>5, <1>6
       DEF HonestPeersAgree, CommandsTruthful, CommandOnce, ResultsTruthful
  <1>. QED BY <1>3, <1>9, <1>10, <1>11, <1>12, <1>13, <1>14, <1>15 DEF ConnectionInv, Numbers

LEMMA CallDomainKeeps ==
    ASSUME ConnectionInv, NEW f, CallDomain(f)
    PROVE  ConnectionInv'
  <1>0. ConnectionTypeOK /\ NumbersOut /\ NumbersIn /\ Requests /\ Handled /\ Answers /\ Tables
        /\ HonestPeersAgree /\ CommandsTruthful
    BY DEF ConnectionInv, Numbers
  <1>1. /\ Received(f) /\ ~IdentifiersExhausted(f.request)
        /\ ClaimsCommand(f.request) /\ Permitted(f.request)
        /\ handler' = f.request /\ node' = Claimed(f.request)
        /\ called' = IF f.request.command = None THEN called
                     ELSE [called EXCEPT ![f.request.command] = @ + 1]
        /\ UNCHANGED <<toClient, carried>>
    BY DEF CallDomain, Admitted
  <1>2. /\ TakeRequest(f) /\ node.phase = "serving"
        /\ UNCHANGED <<client, result, outgoing>>
        /\ f.request.id \in Request /\ f.request \in RequestOf
        /\ f.request.id < client.next /\ f.request.id \notin node.requests
        /\ f.request = client.asked[f.request.id]
        /\ \A g \in OnTheirWay' : f.request.id < g.request.id
        /\ result[f.request.id] \in {"pending", Lost(f.request.kind)}
        /\ Listening => result[f.request.id] = "pending"
        /\ OnTheirWay' \subseteq OnTheirWay /\ client.sequence > 0
        /\ node.handshake = "accepted" /\ node.sent # 0
        /\ f.request.id \notin carried.done
        /\ \A i \in DOMAIN toClient : toClient[i].type = "answer" => toClient[i].id # f.request.id
    BY <1>1, ReceivedFacts
  <1>3. ConnectionTypeOK'
    <2>1. f.request.id # 0
      BY <1>2 DEF Request
    <2>. QED BY <1>0, <2>1, RequestTypes
  <1>4. /\ node'.requests = node.requests \cup {f.request.id}
        /\ node'.commands = node.commands \cup ({f.request.command} \ {None})
        /\ node'.received = node.received + 1 /\ node'.sent = node.sent
        /\ node'.phase = node.phase /\ node'.handshake = node.handshake
        /\ node'.capabilities = node.capabilities
        /\ node'.projects = node.projects /\ node'.violation = node.violation
        /\ node'.requests \subseteq 1..client.next - 1
        /\ IsFiniteSet(node'.commands) /\ Cardinality(node'.commands) <= Cardinality(node'.requests)
    BY <1>0, <1>1, <1>2, ClaimedFacts
  <1>5. NumbersOut'
    BY <1>2, <1>4, TakenNumbers
  <1>6. NumbersIn'
    BY <1>0, <1>1, <1>2, <1>4 DEF NumbersIn, Listening
  <1>7. Requests'
    BY <1>0, <1>2, <1>4, ClaimedRequests
  <1>8. Handled'
    BY <1>1, <1>2, <1>4 DEF Handled, Permitted, Listening
  <1>9. Answers'
    BY <1>0, <1>1, <1>2, <1>4 DEF Answers, Listening
  <1>10. /\ \A c \in Commands : c \notin node'.commands => called'[c] = 0
         /\ \A c \in Commands : called'[c] <= 1
    <2>0. called \in [Commands -> Nat] /\ None \notin Commands
      BY <1>0, ConnectionAssumption DEF ConnectionTypeOK
    <2>1. ASSUME NEW c \in Commands
          PROVE  /\ c \notin node'.commands => called'[c] = 0
                 /\ called'[c] <= 1
      <3>1. (c \notin node.commands => called[c] = 0) /\ called[c] <= 1
        BY <1>0 DEF Tables, CommandsTruthful, CommandOnce
      <3>2. CASE c # f.request.command
        <4>1. called'[c] = called[c]
          BY <1>1, <2>0, <3>2
        <4>. QED BY <1>4, <3>1, <4>1
      <3>3. CASE c = f.request.command
        <4>1. c # None /\ c \notin node.commands /\ c \in node'.commands
          BY <1>1, <1>4, <2>0, <3>3 DEF ClaimsCommand
        <4>2. called'[c] = called[c] + 1
          BY <1>1, <2>0, <3>3, <4>1
        <4>. QED BY <3>1, <4>1, <4>2
      <3>. QED BY <3>2, <3>3
    <2>. QED BY <2>1
  <1>11. Tables'
    BY <1>0, <1>1, <1>2, <1>4, <1>10 DEF Tables
  <1>12. HonestPeersAgree' /\ CommandsTruthful'
    BY <1>0, <1>1, <1>2, <1>4, <1>10
       DEF HonestPeersAgree, CommandsTruthful, CommandOnce, ResultsTruthful
  <1>. QED BY <1>3, <1>5, <1>6, <1>7, <1>8, <1>9, <1>11, <1>12 DEF ConnectionInv, Numbers

-----------------------------------------------------------------------------
(* The domain returns.                                                     *)

LEMMA DomainReturnsKeeps ==
    ASSUME ConnectionInv, DomainReturns
    PROVE  ConnectionInv'
  <1>0. ConnectionTypeOK /\ NumbersOut /\ NumbersIn /\ Requests /\ Handled /\ Answers /\ Tables
        /\ HonestPeersAgree /\ CommandsTruthful
    BY DEF ConnectionInv, Numbers
  <1>1. Running /\ UNCHANGED <<client, result, outgoing, toNode, called>>
    BY DEF DomainReturns, DomainSucceeds, DomainFails, DomainUncertain, clientVars, historyVars
  <1>2. /\ node.phase = "serving" /\ node.handshake = "accepted"
        /\ handler.id \in node.requests /\ handler = client.asked[handler.id]
        /\ handler.id \notin carried.done
        /\ result[handler.id] \in {"pending", Lost(handler.kind)}
        /\ Listening => result[handler.id] = "pending"
        /\ \A i \in DOMAIN toClient : toClient[i].type = "answer" => toClient[i].id # handler.id
        /\ handler.id \in Request /\ handler \in RequestOf
    BY <1>0, <1>1, NodeKnown DEF Handled, Running, ConnectionTypeOK
  <1>3. ConnectionTypeOK'
    BY <1>0, <1>2, DomainTypes
  <1>4. node.sent # 0 /\ client.sequence > 0
    BY <1>0, <1>2, NodeKnown DEF NumbersIn
  <1>5. ASSUME NEW how \in {"done", "tooLarge", "failed", "uncertain"}, NEW ps \in SUBSET Projects,
               Answer(how, ps), ps \subseteq node'.projects, node.projects \subseteq node'.projects,
               node'.sent = node.sent + 1, node'.phase = node.phase,
               node'.handshake = node.handshake, node'.capabilities = node.capabilities,
               node'.received = node.received, node'.requests = node.requests,
               node'.commands = node.commands, node'.violation = node.violation,
               carried'.done \in {carried.done, carried.done \cup {handler.id}},
               carried'.unsent \in {carried.unsent, carried.unsent \cup {handler.id}},
               how = "done" => handler.id \in carried'.done,
               how \in {"tooLarge", "failed"} => handler.id \notin carried'.done \ carried'.unsent
        PROVE  ConnectionInv'
    <2>1. PICK g : g = AnswerTo(handler, how, ps)
      OBVIOUS
    <2>2. /\ g \in InFrame /\ g.seq = node.sent + 1 /\ g.type = "answer" /\ g.id = handler.id
          /\ g.how = how /\ g.projects = ps /\ SendFrame(g) /\ handler' = NoRequest
      <3>1. node.sent + 1 \in Nat
        BY <1>0, NodeKnown
      <3>2. g \in InFrame
        BY <1>2, <2>1, <3>1, FrameTypes DEF AnswerTo
      <3>. QED BY <1>5, <2>1, <3>2 DEF AnswerTo, Answer
    <2>3. OnTheirWay' = OnTheirWay
      BY <1>1 DEF OnTheirWay
    <2>4. NumbersOut'
      BY <1>0, <1>1, <1>5, <2>3 DEF NumbersOut
    <2>5. NumbersIn'
      BY <1>0, <1>1, <1>2, <1>4, <1>5, <2>2, SentNumbers
    <2>6. Requests'
      BY <1>0, <1>1, <1>2, <1>5, <2>3, ClaimedRequests
    <2>7. Handled'
      BY <2>2 DEF Handled
    <2>8. Answers'
      <3>1. Fits(g)
        BY <1>2, <1>5, <2>2 DEF Fits
      <3>2. \A j \in DOMAIN toClient : toClient[j].type = "answer" =>
               /\ toClient[j].id \in carried'.done <=> toClient[j].id \in carried.done
               /\ toClient[j].id \in carried'.unsent <=> toClient[j].id \in carried.unsent
        BY <1>2, <1>5
      <3>. QED BY <1>0, <1>1, <1>5, <2>2, <3>1, <3>2, SentAnswers
    <2>9. Tables'
      <3>1. node'.sent # 0
        BY <1>0, <1>5, NodeKnown
      <3>2. carried'.done \subseteq node'.requests
        BY <1>0, <1>2, <1>5 DEF Tables
      <3>. QED BY <1>0, <1>1, <1>5, <3>1, <3>2 DEF Tables
    <2>10. HonestPeersAgree'
      BY <1>0, <1>1, <1>5 DEF HonestPeersAgree
    <2>11. CommandsTruthful'
      <3>1. ASSUME NEW r \in Request
            PROVE  /\ result[r] = "ok" => r \in carried'.done
                   /\ result[r] = "rejected" => r \notin carried'.done \ carried'.unsent
                   /\ result[r] = "failed" /\ r \in carried'.done => client.asked[r].kind \notin CommandKinds
        <4>1. CASE r = handler.id
          BY <1>2, <4>1 DEF Lost
        <4>2. CASE r # handler.id
          <5>1. (r \in carried'.done <=> r \in carried.done) /\ (r \in carried'.unsent <=> r \in carried.unsent)
            BY <1>5, <4>2
          <5>. QED BY <1>0, <5>1 DEF CommandsTruthful, ResultsTruthful
        <4>. QED BY <4>1, <4>2
      <3>. QED BY <1>0, <1>1, <3>1 DEF CommandsTruthful, CommandOnce, ResultsTruthful
    <2>. QED BY <1>3, <2>4, <2>5, <2>6, <2>7, <2>8, <2>9, <2>10, <2>11 DEF ConnectionInv, Numbers
  <1>6. /\ Sent(node).sent = node.sent + 1 /\ Sent(node).phase = node.phase
        /\ Sent(node).handshake = node.handshake /\ Sent(node).capabilities = node.capabilities
        /\ Sent(node).received = node.received /\ Sent(node).requests = node.requests
        /\ Sent(node).commands = node.commands /\ Sent(node).violation = node.violation
        /\ Sent(node).projects = node.projects
    <2>1. node \in NodeRecord
      BY <1>0, NodeKnown
    <2>. QED BY <2>1 DEF Sent, NodeRecord
  <1>c. carried \in [done : SUBSET Request, unsent : SUBSET Request]
    BY <1>0 DEF ConnectionTypeOK
  <1>7. CASE \E projects \in SUBSET Projects : DomainSucceeds(projects)
    <2>1. PICK projects \in SUBSET Projects : DomainSucceeds(projects)
      BY <1>7
    <2>2. PICK ps \in SUBSET Projects : ps = Learns(handler, projects)
      <3>1. handler.kind = "trust" => handler.project \in Projects
        BY <1>2 DEF RequestOf, RequestIn, NeedsProject, DomainCommands
      <3>. QED BY <3>1 DEF Learns
    <2>3. /\ node'.projects = node.projects \cup ps
          /\ node'.sent = node.sent + 1 /\ node'.phase = node.phase
          /\ node'.handshake = node.handshake /\ node'.capabilities = node.capabilities
          /\ node'.received = node.received /\ node'.requests = node.requests
          /\ node'.commands = node.commands /\ node'.violation = node.violation
      <3>1. Sent(node) \in NodeRecord
        BY <1>0, NodeKnown, SentType
      <3>2. node' = [Sent(node) EXCEPT !.projects = @ \cup ps]
        BY <2>1, <2>2 DEF DomainSucceeds, Register
      <3>. QED BY <1>6, <3>1, <3>2 DEF NodeRecord
    <2>4. CASE Answer("done", ps) /\ carried' = [carried EXCEPT !.done = @ \cup {handler.id}]
      <3>1. carried'.done = carried.done \cup {handler.id} /\ carried'.unsent = carried.unsent
        BY <1>c, <2>4
      <3>. QED BY <1>5, <2>3, <2>4, <3>1
    <2>5. CASE /\ \E how \in {"tooLarge", "failed"} : Answer(how, {})
               /\ carried' = [done |-> carried.done \cup {handler.id},
                              unsent |-> carried.unsent \cup {handler.id}]
      <3>1. carried'.done = carried.done \cup {handler.id}
            /\ carried'.unsent = carried.unsent \cup {handler.id}
        BY <2>5
      <3>2. {} \in SUBSET Projects /\ {} \subseteq node'.projects
        OBVIOUS
      <3>. QED BY <1>5, <2>3, <2>5, <3>1, <3>2
    <2>. QED BY <2>1, <2>2, <2>4, <2>5 DEF DomainSucceeds
  <1>8. CASE DomainFails
    <2>1. Answer("failed", {}) /\ node' = Sent(node) /\ carried' = carried
      BY <1>8 DEF DomainFails, historyVars
    <2>2. {} \in SUBSET Projects /\ {} \subseteq node'.projects
      OBVIOUS
    <2>. QED BY <1>2, <1>5, <1>6, <2>1, <2>2
  <1>9. CASE DomainUncertain
    <2>1. /\ Answer("uncertain", {}) /\ node' = Sent(node)
          /\ carried' \in {carried, [carried EXCEPT !.done = @ \cup {handler.id}]}
      BY <1>9 DEF DomainUncertain
    <2>2. carried'.done \in {carried.done, carried.done \cup {handler.id}} /\ carried'.unsent = carried.unsent
      BY <1>c, <2>1
    <2>3. {} \in SUBSET Projects /\ {} \subseteq node'.projects
      OBVIOUS
    <2>. QED BY <1>5, <1>6, <2>1, <2>2, <2>3
  <1>. QED BY <1>7, <1>8, <1>9 DEF DomainReturns

-----------------------------------------------------------------------------
(* Theorems.                                                               *)

LEMMA InitInv ==
    ASSUME Init
    PROVE  ConnectionInv
  <1>1. PICK offer \in Offers :
          client = [status |-> "new", offer |-> offer, capabilities |-> {}, next |-> 1,
                    sequence |-> 0, seen |-> 0, told |-> {}, asked |-> [r \in Request |-> NoRequest],
                    error |-> "none"]
    BY DEF Init
  <1>2. /\ result = [r \in Request |-> "none"]
        /\ outgoing = <<>> /\ toNode = <<>> /\ toClient = <<>> /\ transport = "open"
        /\ node = [phase |-> "serving", handshake |-> "awaiting", capabilities |-> {},
                   received |-> 0, sent |-> 0, requests |-> {}, commands |-> {}, projects |-> {},
                   violation |-> "none"]
        /\ handler = NoRequest
        /\ called = [c \in Commands |-> 0] /\ carried = [done |-> {}, unsent |-> {}]
    BY DEF Init
  <1>3. OnTheirWay = {} /\ Len(toClient) = 0 /\ Len(toNode) = 0 /\ Len(outgoing) = 0
    BY <1>2 DEF OnTheirWay
  <1>4. ConnectionTypeOK
    <2>1. [r \in Request |-> NoRequest] \in [Request -> RequestOf]
      BY NoRequestType
    <2>2. client \in ClientRecord
      BY <1>1, <2>1 DEF ClientRecord
    <2>3. node \in NodeRecord
      BY <1>2 DEF NodeRecord
    <2>4. result \in [Request -> Results] /\ called \in [Commands -> Nat]
          /\ carried \in [done : SUBSET Request, unsent : SUBSET Request]
      BY <1>2 DEF Results
    <2>. QED BY <1>2, <2>2, <2>3, <2>4, NoRequestType DEF ConnectionTypeOK
  <1>5. Numbers
    BY <1>1, <1>2, <1>3 DEF Numbers, NumbersOut, NumbersIn, Listening
  <1>6. Requests /\ Handled /\ Answers
    BY <1>2, <1>3 DEF Requests, Handled, Answers
  <1>7. Tables
    <2>1. IsFiniteSet({}) /\ Cardinality({}) = 0
      BY FS_EmptySet
    <2>2. \A c \in Commands : called[c] = 0
      BY <1>2
    <2>3. Cardinality(node.commands) <= Cardinality(node.requests) /\ IsFiniteSet(node.commands)
      BY <1>2, <2>1
    <2>. QED BY <1>1, <1>2, <2>2, <2>3 DEF Tables
  <1>8. HonestPeersAgree /\ CommandsTruthful
    <2>1. /\ \A c \in Commands : called[c] = 0
          /\ \A r \in Request : result[r] = "none"
      BY <1>2
    <2>. QED BY <1>1, <1>2, <2>1 DEF HonestPeersAgree, CommandsTruthful, CommandOnce, ResultsTruthful
  <1>. QED BY <1>4, <1>5, <1>6, <1>7, <1>8 DEF ConnectionInv

LEMMA StutterKeeps ==
    ASSUME ConnectionInv, UNCHANGED vars
    PROVE  ConnectionInv'
  <1>1. UNCHANGED <<client, result, outgoing, toNode, toClient, transport, node, handler, called, carried>>
    BY DEF vars
  <1>2. OnTheirWay' = OnTheirWay /\ (Listening' <=> Listening)
    BY <1>1 DEF OnTheirWay, Listening
  <1>3. ConnectionTypeOK'
    BY <1>1 DEF ConnectionInv, ConnectionTypeOK
  <1>4. Numbers'
    BY <1>1, <1>2 DEF ConnectionInv, Numbers, NumbersOut, NumbersIn
  <1>5. Requests' /\ Handled' /\ Answers'
    BY <1>1, <1>2 DEF ConnectionInv, Requests, Handled, Answers
  <1>6. Tables' /\ HonestPeersAgree' /\ CommandsTruthful'
    BY <1>1
       DEF ConnectionInv, Tables, HonestPeersAgree, CommandsTruthful, CommandOnce, ResultsTruthful
  <1>. QED BY <1>3, <1>4, <1>5, <1>6 DEF ConnectionInv

LEMMA StepKeeps ==
    ASSUME ConnectionInv, [Next]_vars
    PROVE  ConnectionInv'
  <1>1. CASE Application
    BY <1>1, ConnectKeeps, EndKeeps, OperateKeeps DEF Application
  <1>2. CASE SendOffer
    BY <1>2, SendOfferKeeps
  <1>3. CASE CloseReturns \/ Kill \/ Disposed \/ Crash
    BY <1>3, EndKeeps
  <1>4. CASE ClientReads
    <2>1. ASSUME NEW f, ReadHandshake(f)
          PROVE  ConnectionInv'
      BY <2>1, AcceptedKeeps, MismatchKeeps
    <2>. QED BY <1>4, <2>1, EndKeeps, AnswerKeeps, ReadUnexpectedKeeps, ReadInVainKeeps
             DEF ClientReads
  <1>5. CASE TransportRuns
    BY <1>5, WriteFrameKeeps, WriteFailsKeeps, EndKeeps DEF TransportRuns
  <1>6. CASE NodeReads
    BY <1>6, OfferKeeps, NoBadFrame, ExhaustKeeps, RefuseKeeps, CallDomainKeeps, EndKeeps
       DEF NodeReads
  <1>7. CASE DomainReturns
    BY <1>7, DomainReturnsKeeps
  <1>8. CASE UNCHANGED vars
    BY <1>8, StutterKeeps
  <1>. QED BY <1>1, <1>2, <1>3, <1>4, <1>5, <1>6, <1>7, <1>8 DEF Next

(* What the two ends remember always agrees with what is on its way between*)
(* them, whatever the application asks, the limits and however the         *)
(* processes end.                                                          *)
THEOREM ConnectionInvariant == Spec => []ConnectionInv
  <1>1. Init => ConnectionInv
    BY InitInv
  <1>2. ConnectionInv /\ [Next]_vars => ConnectionInv'
    BY StepKeeps
  <1>. QED BY <1>1, <1>2, PTL DEF Spec

(* Neither of two correct peers ever accuses the other, but for one that   *)
(* has used all the identifiers of a connection, both hold the capabilities*)
(* that were negotiated, and a project the client was told of is one the   *)
(* Node knows (decodeFrame and _fail of the client, #claimRequest and      *)
(* #negotiate of the Node).                                                *)
THEOREM ThePeersAgree == Spec => []PeersAgree
  <1>1. ConnectionInv => PeersAgree
    <2>. SUFFICES ASSUME ConnectionInv PROVE PeersAgree
      OBVIOUS
    <2>1. HonestPeersAgree /\ Handled /\ Tables
      BY DEF ConnectionInv
    <2>2. NegotiationAgrees /\ ToldProjectsAreKnown
      BY <2>1 DEF Handled, Tables, NegotiationAgrees, ToldProjectsAreKnown
    <2>. QED BY <2>1, <2>2 DEF PeersAgree
  <1>. QED BY <1>1, ConnectionInvariant, PTL

(* A command identifier reaches the domain at most once on a connection,   *)
(* and no operation is told to have failed or been rejected that was       *)
(* carried out, but for one that is no command or whose answer did not fit *)
(* a frame (#claimCommand and _PendingOperation.fail).                     *)
THEOREM CommandsAreTruthful == Spec => []CommandsTruthful
  <1>1. ConnectionInv => CommandsTruthful
    BY DEF ConnectionInv
  <1>. QED BY <1>1, ConnectionInvariant, PTL

-----------------------------------------------------------------------------
(* Framing.  The decoder knows a frame's end by the prefix it reads, a byte*)
(* at a time if the pipe will have it so: the invariant counts where the   *)
(* frames that were written end on the stream (Ends), and says of each     *)
(* byte that is not decoded which byte of which frame it is.  The loop of  *)
(* push is a function defined by recursion, and so are a prefix and its    *)
(* value: what each is, is shown by induction over the numbers up to its   *)
(* argument.                                                               *)

(* Induction over the numbers up to a bound, for a set.                    *)
LEMMA StepByStep ==
    ASSUME NEW S, NEW n \in Nat, 0 \in S, \A k \in 1..n : k - 1 \in S => k \in S
    PROVE  \A k \in 0..n : k \in S
  <1> DEFINE T == {k \in 0..n : k \notin S}
  <1> SUFFICES ASSUME T # {}  PROVE FALSE
    OBVIOUS
  <1>1. T \in SUBSET Nat
    OBVIOUS
  <1>2. PICK m \in T : \A k \in T : m <= k
    <2> HIDE DEF T
    <2> QED BY <1>1, SmallestOf
  <1>3. m \in 1..n /\ m - 1 \in 0..n
    BY <1>2
  <1>4. m - 1 \notin T
    <2>1. m \in Nat /\ ~(m <= m - 1)
      BY <1>3
    <2> QED BY <1>2, <2>1
  <1> QED BY <1>2, <1>3, <1>4

(* What is defined step by step exists: g[k] makes the k-th of the one       *)
(* before it.                                                                *)
Maps(g, n, D) == \A k \in 1..n : \A d \in D : g[k][d] \in D
Follows(f, first, n, g) == f[0] = first /\ \A k \in 1..n : f[k] = g[k][f[k - 1]]

LEMMA Iterates ==
    ASSUME NEW D, NEW first \in D, NEW n \in Nat, NEW g, Maps(g, n, D)
    PROVE  \E f \in [0..n -> D] : Follows(f, first, n, g)
  <1> USE DEF Maps, Follows
  <1> DEFINE Good(f, m) == Follows(f, first, m, g)
             S == {m \in 0..n : \E f \in [0..m -> D] : Good(f, m)}
  <1>1. 0 \in S
    <2> DEFINE f == [k \in 0..0 |-> first]
    <2>1. f \in [0..0 -> D] /\ f[0] = first /\ 1..0 = {}
      OBVIOUS
    <2> HIDE DEF f
    <2>2. Good(f, 0)
      BY <2>1
    <2> QED BY <2>1, <2>2
  <1>2. ASSUME NEW m \in 1..n, m - 1 \in S
        PROVE  m \in S
    <2>1. PICK f \in [0..(m - 1) -> D] : Good(f, m - 1)
      BY <1>2
    <2> DEFINE h == [k \in 0..m |-> IF k = m THEN g[m][f[m - 1]] ELSE f[k]]
    <2>2. m - 1 \in 0..(m - 1) /\ f[m - 1] \in D /\ g[m][f[m - 1]] \in D
      BY <2>1
    <2>3. \A k \in 0..m : k # m => k \in 0..(m - 1)
      OBVIOUS
    <2>4. h \in [0..m -> D]
      BY <2>2, <2>3
    <2>5. h[m] = g[m][f[m - 1]] /\ \A k \in 0..(m - 1) : h[k] = f[k]
      OBVIOUS
    <2> HIDE DEF h
    <2>6. h[0] = first
      BY <2>1, <2>5
    <2>7. ASSUME NEW k \in 1..m
          PROVE  h[k] = g[k][h[k - 1]]
      <3>1. CASE k = m
        BY <2>2, <2>5, <3>1
      <3>2. CASE k # m
        <4>1. k \in 1..(m - 1) /\ k \in 0..(m - 1) /\ k - 1 \in 0..(m - 1)
          BY <3>2
        <4> QED BY <2>1, <2>5, <4>1
      <3> QED BY <3>1, <3>2
    <2> QED BY <2>4, <2>6, <2>7
  <1> HIDE DEF S
  <1>3. n \in S
    BY <1>1, <1>2, StepByStep
  <1> QED BY <1>3 DEF S

LEMMA Division ==
    ASSUME NEW x \in Nat
    PROVE  /\ x \div Base \in Nat /\ x % Base \in Nat
           /\ ((x \div Base) * Base) + (x % Base) = x
  BY FramingAssumption

LEMMA ShiftedFacts ==
    ASSUME NEW length \in Nat
    PROVE  /\ Shifted(length) \in [0..PrefixBytes -> Nat]
           /\ Shifted(length)[0] = length
           /\ \A k \in 1..PrefixBytes :
                 Shifted(length)[k] = Shifted(length)[k - 1] \div Base
  <1> DEFINE g == [k \in 1..PrefixBytes |-> [d \in Nat |-> d \div Base]]
             All(f) == [k \in 0..PrefixBytes |-> IF k = 0 THEN length ELSE f[k - 1] \div Base]
             h == CHOOSE f : f = All(f)
  <1>1. PrefixBytes \in Nat
    BY FramingAssumption
  <1>2. /\ \A k \in 1..PrefixBytes : \A d \in Nat : g[k][d] = d \div Base
        /\ \A k \in 1..PrefixBytes : \A d \in Nat : g[k][d] \in Nat
    BY Division
  <1>3. PICK f \in [0..PrefixBytes -> Nat] :
            f[0] = length /\ \A k \in 1..PrefixBytes : f[k] = g[k][f[k - 1]]
    <2> DEFINE D == Nat
    <2>1. length \in D /\ Maps(g, PrefixBytes, D)
      BY <1>2 DEF Maps
    <2> HIDE DEF g, D
    <2>2. \E f \in [0..PrefixBytes -> D] : Follows(f, length, PrefixBytes, g)
      BY <1>1, <2>1, Iterates
    <2> QED BY <2>2 DEF D, Follows
  <1> HIDE DEF g
  <1>4. ASSUME NEW k \in 1..PrefixBytes
        PROVE  f[k] = f[k - 1] \div Base
    <2>1. k - 1 \in 0..PrefixBytes
      BY <1>1
    <2>2. f[k - 1] \in Nat
      BY <1>3, <2>1
    <2> QED BY <1>2, <1>3, <2>2
  <1>5. f = All(f)
    <2>1. \A k \in 0..PrefixBytes : f[k] = All(f)[k]
      BY <1>1, <1>3, <1>4
    <2>2. DOMAIN f = 0..PrefixBytes /\ f = [k \in 0..PrefixBytes |-> f[k]]
      BY <1>3
    <2> QED BY <2>1, <2>2
  <1>6. h = All(h)
    <2> HIDE DEF All
    <2> QED BY <1>5
  <1>7. Shifted(length) = h
    BY Zenon DEF Shifted
  <1> HIDE DEF h
  <1>8. h[0] = length /\ \A k \in 1..PrefixBytes : h[k] = h[k - 1] \div Base
    <2>1. \A k \in 0..PrefixBytes : h[k] = IF k = 0 THEN length ELSE h[k - 1] \div Base
      BY <1>6
    <2> HIDE DEF All
    <2> QED BY <1>1, <2>1
  <1>9. \A k \in 0..PrefixBytes : h[k] \in Nat
    <2> DEFINE S == {k \in 0..PrefixBytes : h[k] \in Nat}
    <2>1. 0 \in S
      BY <1>1, <1>8
    <2>2. \A k \in 1..PrefixBytes : k - 1 \in S => k \in S
      <3> SUFFICES ASSUME NEW k \in 1..PrefixBytes, h[k - 1] \in Nat
                   PROVE  h[k] \in Nat /\ k \in 0..PrefixBytes
        OBVIOUS
      <3>1. h[k] = h[k - 1] \div Base
        BY <1>8
      <3>2. h[k - 1] \div Base \in Nat
        <4> DEFINE x == h[k - 1]
        <4>1. x \in Nat
          OBVIOUS
        <4> HIDE DEF x
        <4>2. x \div Base \in Nat
          BY <4>1, Division
        <4> QED BY <4>2 DEF x
      <3> QED BY <1>1, <3>1, <3>2
    <2> HIDE DEF S
    <2>3. \A k \in 0..PrefixBytes : k \in S
      BY <1>1, <2>1, <2>2, StepByStep
    <2> QED BY <2>3 DEF S
  <1>10. h \in [0..PrefixBytes -> Nat]
    BY <1>6, <1>9
  <1> QED BY <1>7, <1>8, <1>10

LEMMA PrefixFacts ==
    ASSUME NEW length \in Nat
    PROVE  /\ Prefix(length) \in Seq(Nat) /\ Len(Prefix(length)) = PrefixBytes
           /\ \A i \in 1..PrefixBytes :
                 Prefix(length)[i] = Shifted(length)[PrefixBytes - i] % Base
  <1>1. PrefixBytes \in Nat
    BY FramingAssumption
  <1>2. ASSUME NEW i \in 1..PrefixBytes
        PROVE  Shifted(length)[PrefixBytes - i] % Base \in Nat
    <2> DEFINE x == Shifted(length)[PrefixBytes - i]
    <2>1. PrefixBytes - i \in 0..PrefixBytes
      BY <1>1
    <2>2. x \in Nat
      BY <2>1, ShiftedFacts
    <2> HIDE DEF x
    <2>3. x % Base \in Nat
      BY <2>2, Division
    <2> QED BY <2>3 DEF x
  <1>3. Prefix(length) \in [1..PrefixBytes -> Nat]
    BY <1>2 DEF Prefix
  <1>4. Prefix(length) \in Seq(Nat) /\ Len(Prefix(length)) = PrefixBytes
    BY <1>1, <1>3
  <1> QED BY <1>4 DEF Prefix

(* The bytes of a prefix, read again, are the length.                      *)
LEMMA LengthRead ==
    ASSUME NEW length \in 1..MaxFrameBytes, NEW bytes \in Seq(Nat), PrefixBytes <= Len(bytes),
           \A i \in 1..PrefixBytes : bytes[i] = Prefix(length)[i]
    PROVE  Length(bytes) = length
  <1> DEFINE D == Nat
             value == [k \in 0..PrefixBytes |-> Shifted(length)[PrefixBytes - k]]
             All(f) == [k \in 0..PrefixBytes |->
                           IF k = 0 THEN 0 ELSE f[k - 1] * Base + bytes[k]]
             h == CHOOSE f : f = All(f)
  <1>1. PrefixBytes \in Nat /\ length \in Nat /\ Shifted(length)[PrefixBytes] = 0
    BY FramingAssumption
  <1>2. ASSUME NEW k \in 1..PrefixBytes
        PROVE  value[k] = value[k - 1] * Base + bytes[k]
    <2> DEFINE x == Shifted(length)[PrefixBytes - k]
               y == Shifted(length)[PrefixBytes - (k - 1)]
    <2>1. value[k] = x /\ value[k - 1] = y
      BY <1>1
    <2>2. /\ PrefixBytes - k \in 0..PrefixBytes /\ PrefixBytes - (k - 1) \in 1..PrefixBytes
          /\ (PrefixBytes - (k - 1)) - 1 = PrefixBytes - k
      BY <1>1
    <2>3. x \in Nat /\ y = x \div Base
      <3>1. /\ Shifted(length) \in [0..PrefixBytes -> Nat]
            /\ \A j \in 1..PrefixBytes : Shifted(length)[j] = Shifted(length)[j - 1] \div Base
        BY <1>1, ShiftedFacts
      <3> QED BY <2>2, <3>1
    <2>4. bytes[k] = x % Base
      BY <1>1, PrefixFacts
    <2> HIDE DEF x, y, value
    <2>5. x = ((x \div Base) * Base) + (x % Base)
      BY <2>3, Division
    <2> QED BY <2>1, <2>3, <2>4, <2>5
  <1>3. value[0] = 0 /\ value[PrefixBytes] = length
    BY <1>1, ShiftedFacts
  <1>4. value = All(value)
    <2>1. \A k \in 0..PrefixBytes : value[k] = IF k = 0 THEN 0 ELSE value[k - 1] * Base + bytes[k]
      <3> HIDE DEF value
      <3> QED BY <1>1, <1>2, <1>3
    <2>2. value = [k \in 0..PrefixBytes |-> value[k]]
      OBVIOUS
    <2> HIDE DEF value
    <2> QED BY <2>1, <2>2
  <1>5. h = All(h)
    <2> HIDE DEF All, value
    <2> QED BY <1>4
  <1>6. Length(bytes) = h[PrefixBytes]
    BY Zenon DEF Length
  <1> HIDE DEF h, value
  <1>7. h[0] = 0 /\ \A k \in 1..PrefixBytes : h[k] = h[k - 1] * Base + bytes[k]
    <2>1. \A k \in 0..PrefixBytes : h[k] = IF k = 0 THEN 0 ELSE h[k - 1] * Base + bytes[k]
      BY <1>5
    <2> HIDE DEF All
    <2> QED BY <1>1, <2>1
  <1>8. h[PrefixBytes] = value[PrefixBytes]
    <2> DEFINE S == {k \in 0..PrefixBytes : h[k] = value[k]}
    <2>1. 0 \in S
      BY <1>1, <1>3, <1>7
    <2>2. \A k \in 1..PrefixBytes : k - 1 \in S => k \in S
      <3> HIDE DEF All
      <3> QED BY <1>1, <1>2, <1>7
    <2> HIDE DEF S
    <2>3. \A k \in 0..PrefixBytes : k \in S
      BY <1>1, <2>1, <2>2, StepByStep
    <2> QED BY <1>1, <2>3 DEF S
  <1> QED BY <1>3, <1>6, <1>8

LEMMA EncodedFacts ==
    ASSUME NEW payload \in Seq(Nat)
    PROVE  /\ Encoded(payload) \in Seq(Nat)
           /\ Len(Encoded(payload)) = PrefixBytes + Len(payload)
           /\ \A i \in 1..PrefixBytes : Encoded(payload)[i] = Prefix(Len(payload))[i]
           /\ \A i \in 1..Len(payload) : Encoded(payload)[PrefixBytes + i] = payload[i]
  <1> DEFINE p == Prefix(Len(payload))
  <1>1. p \in Seq(Nat) /\ Len(p) = PrefixBytes /\ Len(payload) \in Nat /\ PrefixBytes \in Nat
    BY PrefixFacts, FramingAssumption
  <1> HIDE DEF p
  <1>2. /\ p \o payload \in Seq(Nat) /\ Len(p \o payload) = Len(p) + Len(payload)
        /\ \A i \in 1..Len(p) + Len(payload) :
              (p \o payload)[i] = IF i <= Len(p) THEN p[i] ELSE payload[i - Len(p)]
    BY <1>1, ConcatProperties
  <1>3. \A i \in 1..PrefixBytes : (p \o payload)[i] = p[i]
    BY <1>1, <1>2
  <1>4. \A i \in 1..Len(payload) : (p \o payload)[PrefixBytes + i] = payload[i]
    BY <1>1, <1>2
  <1> QED BY <1>1, <1>2, <1>3, <1>4 DEF Encoded, p

-----------------------------------------------------------------------------
(* Where the frames of a sequence of payloads end on the stream.           *)
Ends(payloads) ==
    LET ends[j \in 0..Len(payloads)] ==
            IF j = 0 THEN 0 ELSE ends[j - 1] + PrefixBytes + Len(payloads[j])
    IN  ends

Sendable == {payload \in Payloads : Allowed(Len(payload))}

(* The bytes of frames k + 1 to j, and what carries the frames after k.    *)
Bytes(payloads, k, j) == Ends(payloads)[j] - Ends(payloads)[k]

Carries(bytes, payloads, k) ==
    \A j \in k + 1..Len(payloads) : \A i \in 1..PrefixBytes + Len(payloads[j]) :
        Bytes(payloads, k, j - 1) + i <= Len(bytes) =>
            bytes[Bytes(payloads, k, j - 1) + i] = Encoded(payloads[j])[i]

FramingTypeOK ==
    /\ written \in Seq(Sendable) /\ frames \in Seq(Sendable)
    /\ stream \in Seq(Nat) /\ pending \in Seq(Nat)
    /\ writer \in {"open", "ended", "torn"} /\ reader \in {"reading", "finished", "failed"}

(* What is returned are the first payloads that were written, the rest is  *)
(* still to come, the last perhaps only in part ...                        *)
FramesAhead ==
    LET k == Len(frames)
        last == Len(written)
        left == pending \o stream
    IN  /\ k <= last /\ frames = SubSeq(written, 1, k)
        /\ Carries(left, written, k)
        /\ writer # "torn" => Len(left) = Bytes(written, k, last)
        /\ writer = "torn" =>
              k < last /\ Bytes(written, k, last - 1) < Len(left) /\ Len(left) < Bytes(written, k, last)

(* ... no whole frame is kept ...                                          *)
NoneKept ==
    Len(frames) < Len(written) => Len(pending) < Bytes(written, Len(frames), Len(frames) + 1)

(* ... and the reader has ended only once all of the stream is read.       *)
EndedAtEnd ==
    /\ reader # "reading" => writer # "open" /\ stream = <<>>
    /\ reader = "finished" => pending = <<>>
    /\ reader = "failed" => pending # <<>>

(* The inductive invariant of the framing.                                 *)
FramingInv == FramingTypeOK /\ FramesAhead /\ NoneKept /\ EndedAtEnd

-----------------------------------------------------------------------------
(* Parts of sequences.                                                     *)

LEMMA PartFacts ==
    ASSUME NEW S, NEW s \in Seq(S), NEW i \in 1..Len(s) + 1, NEW j \in i - 1..Len(s)
    PROVE  /\ SubSeq(s, i, j) \in Seq(S) /\ Len(SubSeq(s, i, j)) = j + 1 - i
           /\ \A x \in 1..j + 1 - i : SubSeq(s, i, j)[x] = s[i + x - 1]
  <1>1. Len(s) \in Nat /\ i \in Int /\ j \in Int /\ \A x \in i..j : s[x] \in S
    OBVIOUS
  <1>2. /\ SubSeq(s, i, j) \in Seq(S)
        /\ Len(SubSeq(s, i, j)) = IF i <= j THEN j - i + 1 ELSE 0
        /\ \A x \in 1..j - i + 1 : SubSeq(s, i, j)[x] = s[i + x - 1]
    BY <1>1, SubSeqProperties
  <1> QED BY <1>1, <1>2

LEMMA PartOfBytes ==
    \A s \in Seq(Nat) : \A i \in 1..Len(s) + 1 : \A j \in i - 1..Len(s) :
        /\ SubSeq(s, i, j) \in Seq(Nat) /\ Len(SubSeq(s, i, j)) = j + 1 - i
        /\ \A x \in 1..j + 1 - i : SubSeq(s, i, j)[x] = s[i + x - 1]
  <1> DEFINE S == Nat
  <1> SUFFICES ASSUME NEW s \in Seq(S), NEW i \in 1..Len(s) + 1, NEW j \in i - 1..Len(s)
               PROVE  /\ SubSeq(s, i, j) \in Seq(S) /\ Len(SubSeq(s, i, j)) = j + 1 - i
                      /\ \A x \in 1..j + 1 - i : SubSeq(s, i, j)[x] = s[i + x - 1]
    OBVIOUS
  <1> HIDE DEF S
  <1> QED BY PartFacts

LEMMA JoinedInAnyOrder == \A s, t, u \in Seq(Nat) : s \o (t \o u) = (s \o t) \o u
  <1> DEFINE S == Nat
  <1> SUFFICES ASSUME NEW s \in Seq(S), NEW t \in Seq(S), NEW u \in Seq(S)
               PROVE  s \o (t \o u) = (s \o t) \o u
    OBVIOUS
  <1> HIDE DEF S
  <1> QED BY ConcatAssociative

LEMMA Joined ==
    \A s, t \in Seq(Nat) : \A x \in 1..Len(s) + Len(t) :
        (s \o t)[x] = IF x <= Len(s) THEN s[x] ELSE t[x - Len(s)]
  <1> DEFINE S == Nat
  <1> SUFFICES ASSUME NEW s \in Seq(S), NEW t \in Seq(S)
               PROVE  \A x \in 1..Len(s) + Len(t) :
                         (s \o t)[x] = IF x <= Len(s) THEN s[x] ELSE t[x - Len(s)]
    OBVIOUS
  <1> HIDE DEF S
  <1> QED BY ConcatProperties

LEMMA FromFacts ==
    ASSUME NEW S, NEW s \in Seq(S), NEW n \in 0..Len(s)
    PROVE  /\ From(s, n) \in Seq(S) /\ Len(From(s, n)) = Len(s) - n
           /\ \A x \in 1..Len(s) - n : From(s, n)[x] = s[n + x]
  <1> DEFINE i == n + 1
             j == Len(s)
  <1>1. Len(s) \in Nat /\ i \in 1..Len(s) + 1 /\ j \in i - 1..Len(s)
    OBVIOUS
  <1>2. /\ SubSeq(s, i, j) \in Seq(S) /\ Len(SubSeq(s, i, j)) = j + 1 - i
        /\ \A x \in 1..j + 1 - i : SubSeq(s, i, j)[x] = s[i + x - 1]
    <2> HIDE DEF i, j
    <2> QED BY <1>1, PartFacts
  <1> QED BY <1>1, <1>2 DEF From

LEMMA FromFrom ==
    ASSUME NEW S, NEW s \in Seq(S), NEW m \in Nat, NEW n \in Nat, m + n <= Len(s)
    PROVE  From(From(s, m), n) = From(s, m + n)
  <1> DEFINE t == From(s, m)
  <1>1. Len(s) \in Nat /\ m \in 0..Len(s) /\ m + n \in 0..Len(s) /\ n \in 0..Len(s) - m
    OBVIOUS
  <1>2. t \in Seq(S) /\ Len(t) = Len(s) - m /\ \A x \in 1..Len(s) - m : t[x] = s[m + x]
    BY <1>1, FromFacts
  <1> HIDE DEF t
  <1>3. /\ From(t, n) \in Seq(S) /\ Len(From(t, n)) = Len(t) - n
        /\ \A x \in 1..Len(t) - n : From(t, n)[x] = t[n + x]
    <2>1. n \in 0..Len(t)
      BY <1>1, <1>2
    <2>2. t \in Seq(S)
      BY <1>2
    <2> QED BY <2>1, <2>2, FromFacts
  <1> DEFINE k == m + n
  <1>4. /\ From(s, k) \in Seq(S) /\ Len(From(s, k)) = Len(s) - k
        /\ \A x \in 1..Len(s) - k : From(s, k)[x] = s[k + x]
    <2> HIDE DEF k
    <2> QED BY <1>1, FromFacts DEF k
  <1>5. Len(From(t, n)) = Len(From(s, k))
    <2>1. Len(t) - n = Len(s) - k
      BY <1>1, <1>2
    <2> QED BY <1>3, <1>4, <2>1
  <1>6. ASSUME NEW x \in 1..Len(From(t, n))
        PROVE  From(t, n)[x] = From(s, k)[x]
    <2>1. /\ x \in 1..Len(t) - n /\ n + x \in 1..Len(s) - m /\ x \in 1..Len(s) - k
          /\ m + (n + x) = k + x
      BY <1>1, <1>2, <1>3
    <2>2. From(t, n)[x] = s[m + (n + x)]
      BY <1>2, <1>3, <2>1
    <2>3. From(s, k)[x] = s[k + x]
      BY <1>4, <2>1
    <2> QED BY <2>1, <2>2, <2>3
  <1> HIDE DEF k
  <1>7. From(t, n) = From(s, k)
    BY <1>3, <1>4, <1>5, <1>6, SeqEqual
  <1> QED BY <1>7 DEF t, k

LEMMA FromConcat ==
    ASSUME NEW S, NEW s \in Seq(S), NEW t \in Seq(S), NEW n \in 0..Len(s)
    PROVE  From(s, n) \o t = From(s \o t, n)
  <1> DEFINE u == From(s, n)
             v == s \o t
  <1>1. u \in Seq(S) /\ Len(u) = Len(s) - n /\ \A x \in 1..Len(s) - n : u[x] = s[n + x]
    BY FromFacts
  <1>2. /\ v \in Seq(S) /\ Len(v) = Len(s) + Len(t) /\ Len(s) \in Nat /\ Len(t) \in Nat
        /\ \A x \in 1..Len(s) + Len(t) : v[x] = IF x <= Len(s) THEN s[x] ELSE t[x - Len(s)]
    BY ConcatProperties
  <1> HIDE DEF u, v
  <1>3. /\ u \o t \in Seq(S) /\ Len(u \o t) = Len(u) + Len(t)
        /\ \A x \in 1..Len(u) + Len(t) : (u \o t)[x] = IF x <= Len(u) THEN u[x] ELSE t[x - Len(u)]
    BY <1>1, ConcatProperties
  <1>4. /\ From(v, n) \in Seq(S) /\ Len(From(v, n)) = Len(v) - n
        /\ \A x \in 1..Len(v) - n : From(v, n)[x] = v[n + x]
    <2>1. n \in 0..Len(v) /\ v \in Seq(S)
      BY <1>2
    <2> QED BY <2>1, FromFacts
  <1>5. Len(u \o t) = Len(From(v, n))
    BY <1>1, <1>2, <1>3, <1>4
  <1>6. ASSUME NEW x \in 1..Len(u \o t)
        PROVE  (u \o t)[x] = From(v, n)[x]
    <2>1. CASE x <= Len(u)
      BY <1>1, <1>2, <1>3, <1>4, <2>1
    <2>2. CASE ~(x <= Len(u))
      <3>1. /\ x - Len(u) = (n + x) - Len(s) /\ n + x \in 1..Len(s) + Len(t) /\ ~(n + x <= Len(s))
            /\ x \in 1..Len(u) + Len(t) /\ x \in 1..Len(v) - n
        BY <1>1, <1>2, <1>3, <2>2
      <3> QED BY <1>2, <1>3, <1>4, <2>2, <3>1
    <2> QED BY <2>1, <2>2
  <1>7. u \o t = From(v, n)
    BY <1>3, <1>4, <1>5, <1>6, SeqEqual
  <1> QED BY <1>7 DEF u, v

LEMMA PartAppended ==
    ASSUME NEW S, NEW s \in Seq(S), NEW i \in 1..Len(s), NEW j \in i - 1..Len(s) - 1
    PROVE  Append(SubSeq(s, i, j), s[j + 1]) = SubSeq(s, i, j + 1)
  <1> DEFINE t == SubSeq(s, i, j)
             u == SubSeq(s, i, j + 1)
  <1>1. Len(s) \in Nat /\ i \in 1..Len(s) + 1 /\ j \in i - 1..Len(s) /\ j + 1 \in i - 1..Len(s)
        /\ j \in Int /\ i \in Int
    OBVIOUS
  <1>2. t \in Seq(S) /\ Len(t) = j + 1 - i /\ \A x \in 1..j + 1 - i : t[x] = s[i + x - 1]
    BY <1>1, PartFacts
  <1>3. /\ u \in Seq(S) /\ Len(u) = (j + 1) + 1 - i
        /\ \A x \in 1..(j + 1) + 1 - i : u[x] = s[i + x - 1]
    <2> DEFINE n == j + 1
    <2> HIDE DEF n
    <2>1. /\ SubSeq(s, i, n) \in Seq(S) /\ Len(SubSeq(s, i, n)) = n + 1 - i
          /\ \A x \in 1..n + 1 - i : SubSeq(s, i, n)[x] = s[i + x - 1]
      BY <1>1, PartFacts DEF n
    <2> QED BY <2>1 DEF n
  <1> DEFINE e == s[j + 1]
  <1>4. e \in S
    BY <1>1
  <1>9. e = s[i + (Len(t) + 1) - 1]
    BY <1>1, <1>2
  <1> HIDE DEF t, u, e
  <1>5. /\ Append(t, e) \in Seq(S) /\ Len(Append(t, e)) = Len(t) + 1
        /\ \A x \in 1..Len(t) : Append(t, e)[x] = t[x]
        /\ Append(t, e)[Len(t) + 1] = e
    BY <1>2, <1>4, QueueAppended
  <1>6. Len(Append(t, e)) = Len(u)
    BY <1>1, <1>2, <1>3, <1>5
  <1>7. ASSUME NEW x \in 1..Len(u)
        PROVE  Append(t, e)[x] = u[x]
    <2>1. CASE x <= Len(t)
      BY <1>1, <1>2, <1>3, <1>5, <2>1
    <2>2. CASE ~(x <= Len(t))
      <3>1. x = Len(t) + 1 /\ x \in 1..(j + 1) + 1 - i
        BY <1>1, <1>2, <1>3, <2>2
      <3> QED BY <1>3, <1>5, <1>9, <3>1
    <2> QED BY <2>1, <2>2
  <1>8. Append(t, e) = u
    BY <1>3, <1>5, <1>6, <1>7, SeqEqual
  <1> QED BY <1>8 DEF t, u, e

-----------------------------------------------------------------------------
(* Where frames end.                                                       *)

LEMMA EndsFacts ==
    ASSUME NEW payloads, Len(payloads) \in Nat, \A j \in 1..Len(payloads) : Len(payloads[j]) \in Nat
    PROVE  /\ Ends(payloads) \in [0..Len(payloads) -> Nat]
           /\ Ends(payloads)[0] = 0
           /\ \A j \in 1..Len(payloads) :
                 Ends(payloads)[j] = Ends(payloads)[j - 1] + PrefixBytes + Len(payloads[j])
  <1> DEFINE N == Len(payloads)
             g == [j \in 1..N |-> [d \in Nat |-> d + PrefixBytes + Len(payloads[j])]]
             All(f) == [j \in 0..N |->
                           IF j = 0 THEN 0 ELSE f[j - 1] + PrefixBytes + Len(payloads[j])]
             h == CHOOSE f : f = All(f)
  <1>1. N \in Nat /\ PrefixBytes \in Nat
    BY FramingAssumption
  <1>2. /\ \A j \in 1..N : \A d \in Nat : g[j][d] = d + PrefixBytes + Len(payloads[j])
        /\ \A j \in 1..N : \A d \in Nat : g[j][d] \in Nat
    <2> SUFFICES ASSUME NEW j \in 1..N, NEW d \in Nat
                 PROVE  g[j][d] = d + PrefixBytes + Len(payloads[j]) /\ g[j][d] \in Nat
      BY Zenon
    <2>1. g[j][d] = d + PrefixBytes + Len(payloads[j])
      OBVIOUS
    <2>2. Len(payloads[j]) \in Nat
      OBVIOUS
    <2> DEFINE l == Len(payloads[j])
    <2>3. d + PrefixBytes + l \in Nat
      <3>1. l \in Nat
        BY <2>2
      <3> HIDE DEF l, N
      <3> QED BY <1>1, <3>1
    <2> HIDE DEF g
    <2> QED BY <2>1, <2>3
  <1>3. PICK f \in [0..N -> Nat] : f[0] = 0 /\ \A j \in 1..N : f[j] = g[j][f[j - 1]]
    <2> DEFINE D == Nat
    <2>1. 0 \in D /\ Maps(g, N, D)
      BY <1>2 DEF Maps
    <2> HIDE DEF g, D, N
    <2>2. \E f \in [0..N -> D] : Follows(f, 0, N, g)
      BY <1>1, <2>1, Iterates
    <2> QED BY <2>2 DEF D, Follows
  <1> HIDE DEF g
  <1>4. ASSUME NEW j \in 1..N
        PROVE  f[j] = f[j - 1] + PrefixBytes + Len(payloads[j])
    <2>1. j - 1 \in 0..N
      BY <1>1
    <2>2. f[j - 1] \in Nat
      BY <1>3, <2>1
    <2> QED BY <1>2, <1>3, <2>2
  <1>5. f = All(f)
    <2>1. \A j \in 0..N : f[j] = All(f)[j]
      BY <1>1, <1>3, <1>4
    <2>2. DOMAIN f = 0..N /\ f = [j \in 0..N |-> f[j]]
      BY <1>3
    <2> QED BY <2>1, <2>2
  <1>6. h = All(h)
    <2> HIDE DEF All
    <2> QED BY <1>5
  <1>7. Ends(payloads) = h
    BY Zenon DEF Ends
  <1> HIDE DEF h
  <1>8. h[0] = 0 /\ \A j \in 1..N : h[j] = h[j - 1] + PrefixBytes + Len(payloads[j])
    <2>1. \A j \in 0..N : h[j] = IF j = 0 THEN 0 ELSE h[j - 1] + PrefixBytes + Len(payloads[j])
      BY <1>6
    <2> HIDE DEF All
    <2> QED BY <1>1, <2>1
  <1>9. \A j \in 0..N : h[j] \in Nat
    <2> DEFINE S == {j \in 0..N : h[j] \in Nat}
    <2>1. 0 \in S
      BY <1>1, <1>8
    <2>2. ASSUME NEW j \in 1..N, j - 1 \in S
          PROVE  j \in S
      <3>1. h[j] = h[j - 1] + PrefixBytes + Len(payloads[j]) /\ Len(payloads[j]) \in Nat
        BY <1>8
      <3>2. h[j - 1] \in Nat
        BY <2>2
      <3>3. h[j] \in Nat /\ j \in 0..N
        BY <1>1, <3>1, <3>2
      <3> QED BY <3>3
    <2> HIDE DEF S
    <2>3. \A j \in 0..N : j \in S
      BY <1>1, <2>1, <2>2, StepByStep
    <2> QED BY <2>3 DEF S
  <1>10. h \in [0..N -> Nat]
    BY <1>6, <1>9
  <1> QED BY <1>7, <1>8, <1>10

LEMMA SendableFacts ==
    ASSUME NEW payloads \in Seq(Sendable)
    PROVE  /\ Len(payloads) \in Nat
           /\ \A j \in 1..Len(payloads) :
                 /\ payloads[j] \in Seq(Nat) /\ Len(payloads[j]) \in 1..MaxFrameBytes
                 /\ payloads[j] \in Sendable
  <1>1. Len(payloads) \in Nat
    OBVIOUS
  <1>2. ASSUME NEW j \in 1..Len(payloads)
        PROVE  /\ payloads[j] \in Seq(Nat) /\ Len(payloads[j]) \in 1..MaxFrameBytes
               /\ payloads[j] \in Sendable
    <2> DEFINE p == payloads[j]
    <2>1. p \in Sendable
      OBVIOUS
    <2> HIDE DEF p
    <2>2. p \in Seq(0..Base - 1) /\ Allowed(Len(p))
      BY <2>1, FramingAssumption DEF Sendable
    <2>3. 0..Base - 1 \subseteq Nat
      BY FramingAssumption
    <2>4. p \in Seq(Nat)
      BY <2>2, <2>3, SeqMonotonic
    <2>5. Len(p) \in 1..MaxFrameBytes
      <3>1. Len(p) \in Nat
        BY <2>4
      <3> QED BY <2>2, <3>1, FramingAssumption DEF Allowed
    <2> QED BY <2>1, <2>4, <2>5 DEF p
  <1> QED BY <1>1, <1>2

(* A frame has bytes.                                                      *)
LEMMA EndsGrow ==
    ASSUME NEW payloads \in Seq(Sendable), NEW j \in 0..Len(payloads), NEW i \in 0..j
    PROVE  /\ Ends(payloads)[i] \in Nat /\ Ends(payloads)[j] \in Nat
           /\ Ends(payloads)[i] + (j - i) <= Ends(payloads)[j]
  <1> DEFINE E == Ends(payloads)
             N == Len(payloads)
             S == {b \in 0..N : \A a \in 0..b : E[a] + (b - a) <= E[b]}
  <1>1. N \in Nat /\ PrefixBytes \in Nat /\ \A b \in 1..N : Len(payloads[b]) \in Nat \ {0}
    BY SendableFacts, FramingAssumption
  <1>2. /\ \A b \in 0..N : E[b] \in Nat
        /\ \A b \in 1..N : E[b] = E[b - 1] + PrefixBytes + Len(payloads[b])
    <2>1. /\ E \in [0..N -> Nat]
          /\ \A b \in 1..N : E[b] = E[b - 1] + PrefixBytes + Len(payloads[b])
      BY <1>1, EndsFacts
    <2> HIDE DEF E
    <2> QED BY <2>1
  <1> HIDE DEF E
  <1>3. 0 \in S
    BY <1>1, <1>2
  <1>4. ASSUME NEW b \in 1..N, b - 1 \in S
        PROVE  b \in S
    <2>1. E[b] = E[b - 1] + PrefixBytes + Len(payloads[b]) /\ Len(payloads[b]) \in Nat \ {0}
      BY <1>1, <1>2
    <2>2. E[b - 1] \in Nat /\ E[b] \in Nat /\ b \in 0..N
      BY <1>1, <1>2
    <2>3. ASSUME NEW a \in 0..b
          PROVE  E[a] + (b - a) <= E[b]
      <3>1. CASE a = b
        BY <2>2, <3>1
      <3>2. CASE a # b
        <4>1. a \in 0..b - 1 /\ E[a] \in Nat
          BY <1>1, <1>2, <3>2
        <4>2. E[a] + ((b - 1) - a) <= E[b - 1]
          BY <1>4, <4>1
        <4> DEFINE l == Len(payloads[b])
        <4>3. l \in Nat \ {0} /\ E[b] = E[b - 1] + PrefixBytes + l
          BY <2>1
        <4> DEFINE x == E[a]
                   y == E[b - 1]
                   v == E[b]
        <4>4. /\ x \in Nat /\ y \in Nat /\ v \in Nat /\ x + ((b - 1) - a) <= y
              /\ v = y + PrefixBytes + l
          BY <2>2, <4>1, <4>2, <4>3
        <4>5. a \in Int /\ b \in Int
          BY <1>1
        <4> HIDE DEF l, N, x, y, v
        <4>6. x + (b - a) <= v
          BY <1>1, <4>3, <4>4, <4>5
        <4> QED BY <4>6 DEF x, v
      <3> QED BY <3>1, <3>2
    <2> QED BY <2>2, <2>3
  <1> HIDE DEF S, N
  <1>5. \A b \in 0..N : b \in S
    BY <1>1, <1>3, <1>4, StepByStep
  <1>6. j \in S
    BY <1>5 DEF N
  <1>7. E[i] + (j - i) <= E[j]
    BY <1>6 DEF S
  <1>8. i \in 0..N
    BY <1>1 DEF N
  <1> QED BY <1>2, <1>7, <1>8 DEF E, N

(* What is written later does not move the ends.                           *)
LEMMA EndsAppended ==
    ASSUME NEW payloads \in Seq(Sendable), NEW payload \in Sendable
    PROVE  /\ \A j \in 0..Len(payloads) : Ends(Append(payloads, payload))[j] = Ends(payloads)[j]
           /\ Ends(Append(payloads, payload))[Len(payloads) + 1] =
                 Ends(payloads)[Len(payloads)] + PrefixBytes + Len(payload)
  <1> DEFINE more == Append(payloads, payload)
             E == Ends(payloads)
             F == Ends(more)
             N == Len(payloads)
             S == {j \in 0..N : F[j] = E[j]}
  <1>1. /\ more \in Seq(Sendable) /\ Len(more) = N + 1 /\ N \in Nat
        /\ more[N + 1] = payload /\ \A j \in 1..N : more[j] = payloads[j]
    BY QueueAppended
  <1> HIDE DEF more
  <1>2. /\ \A j \in 1..N : Len(payloads[j]) \in Nat
        /\ \A j \in 1..N + 1 : Len(more[j]) \in Nat
    BY <1>1, SendableFacts
  <1>3. E[0] = 0 /\ \A j \in 1..N : E[j] = E[j - 1] + PrefixBytes + Len(payloads[j])
    BY <1>1, <1>2, EndsFacts
  <1>4. F[0] = 0 /\ \A j \in 1..N + 1 : F[j] = F[j - 1] + PrefixBytes + Len(more[j])
    BY <1>1, <1>2, EndsFacts
  <1> HIDE DEF E, F, N
  <1>5. 0 \in S
    BY <1>1, <1>3, <1>4
  <1>6. ASSUME NEW j \in 1..N, j - 1 \in S
        PROVE  j \in S
    <2>1. j \in 0..N /\ j \in 1..N + 1
      BY <1>1
    <2> QED BY <1>1, <1>3, <1>4, <1>6, <2>1
  <1> HIDE DEF S
  <1>7. \A j \in 0..N : j \in S
    BY <1>1, <1>5, <1>6, StepByStep
  <1>8. \A j \in 0..N : F[j] = E[j]
    BY <1>7 DEF S
  <1>9. F[N + 1] = E[N] + PrefixBytes + Len(payload)
    <2>1. N + 1 \in 1..N + 1 /\ (N + 1) - 1 = N /\ N \in 0..N
      BY <1>1
    <2>2. F[N + 1] = F[(N + 1) - 1] + PrefixBytes + Len(more[N + 1])
      BY <1>4, <2>1
    <2> QED BY <1>1, <1>8, <2>1, <2>2
  <1> QED BY <1>8, <1>9 DEF E, F, N, more

-----------------------------------------------------------------------------
(* The decoder.                                                            *)

(* What the loop has after the frames to the c-th, of bytes that carry the *)
(* frames after k.                                                         *)
State(bytes, payloads, k, c) ==
    [valid |-> TRUE, found |-> SubSeq(payloads, k + 1, c),
     rest |-> From(bytes, Bytes(payloads, k, c))]

Within(bytes, payloads, k, c) == Bytes(payloads, k, c) <= Len(bytes)

(* One round of the loop takes the next frame off, if it is there.         *)
LEMMA TakesNext ==
    ASSUME NEW payloads \in Seq(Sendable), NEW k \in 0..Len(payloads), NEW c \in k..Len(payloads),
           NEW bytes \in Seq(Nat), Carries(bytes, payloads, k),
           Within(bytes, payloads, k, c), Len(bytes) <= Bytes(payloads, k, Len(payloads))
    PROVE  TakeFrameOff(State(bytes, payloads, k, c)) =
             IF c < Len(payloads) /\ Within(bytes, payloads, k, c + 1)
             THEN State(bytes, payloads, k, c + 1) ELSE State(bytes, payloads, k, c)
  <1> DEFINE N == Len(payloads)
             a == Bytes(payloads, k, c)
             rest == From(bytes, a)
             d == State(bytes, payloads, k, c)
             payload == payloads[c + 1]
             l == Len(payload)
  <1>1. /\ N \in Nat /\ PrefixBytes \in Nat \ {0} /\ Len(bytes) \in Nat /\ k \in 0..N /\ c \in k..N
        /\ c \in 0..N
    BY SendableFacts, FramingAssumption
  <1>2. a \in Nat /\ a <= Len(bytes)
    <2>1. /\ Ends(payloads)[k] \in Nat /\ Ends(payloads)[c] \in Nat
          /\ Ends(payloads)[k] + (c - k) <= Ends(payloads)[c]
      <3>1. k \in 0..c
        BY <1>1
      <3> QED BY <1>1, <3>1, EndsGrow
    <2>2. Bytes(payloads, k, c) \in Nat
      BY <1>1, <2>1 DEF Bytes
    <2> QED BY <2>2 DEF Within
  <1>3. /\ rest \in Seq(Nat) /\ Len(rest) = Len(bytes) - a
        /\ \A i \in 1..Len(bytes) - a : rest[i] = bytes[a + i]
    <2> HIDE DEF a
    <2>1. a \in 0..Len(bytes)
      BY <1>1, <1>2
    <2> QED BY <2>1, FromFacts
  <1>4. d.valid /\ d.found = SubSeq(payloads, k + 1, c) /\ d.rest = rest
    BY DEF State
  <1>5. CASE c = N
    <2>1. Len(rest) = 0
      <3> HIDE DEF a, rest
      <3> QED BY <1>1, <1>2, <1>3, <1>5 DEF a
    <2>2. Len(d.rest) < PrefixBytes
      BY <1>1, <1>4, <2>1
    <2> HIDE DEF d
    <2>3. TakeFrameOff(d) = d
      BY <2>2 DEF TakeFrameOff
    <2> QED BY <1>1, <1>5, <2>3 DEF d
  <1>6. CASE c < N
    <2>1. /\ c + 1 \in 1..N /\ c + 1 \in k + 1..N /\ payload \in Seq(Nat) /\ payload \in Sendable
          /\ l \in 1..MaxFrameBytes /\ l \in Nat \ {0}
      <3>1. c + 1 \in 1..N /\ c + 1 \in k + 1..N
        BY <1>1, <1>6
      <3> QED BY <3>1, SendableFacts
    <2>2. Bytes(payloads, k, c + 1) = a + PrefixBytes + l
      <3>1. \A j \in 1..N : Len(payloads[j]) \in Nat
        BY SendableFacts
      <3>2. /\ Ends(payloads) \in [0..N -> Nat]
            /\ \A j \in 1..N : Ends(payloads)[j] = Ends(payloads)[j - 1] + PrefixBytes + Len(payloads[j])
        BY <1>1, <3>1, EndsFacts
      <3>3. Ends(payloads)[c] \in Nat /\ Ends(payloads)[k] \in Nat
        BY <1>1, <3>2
      <3>4. Ends(payloads)[c + 1] = Ends(payloads)[c] + PrefixBytes + l
        <4>1. (c + 1) - 1 = c
          BY <1>1
        <4> HIDE DEF l
        <4> QED BY <2>1, <3>2, <4>1 DEF l
      <3> HIDE DEF l
      <3> QED BY <1>1, <2>1, <3>3, <3>4 DEF Bytes
    <2>3. \A i \in 1..PrefixBytes + l : a + i <= Len(bytes) => bytes[a + i] = Encoded(payload)[i]
      <3> DEFINE j == c + 1
      <3>1. j - 1 = c
        BY <1>1
      <3>2. \A i \in 1..PrefixBytes + Len(payloads[j]) :
                Bytes(payloads, k, j - 1) + i <= Len(bytes) =>
                    bytes[Bytes(payloads, k, j - 1) + i] = Encoded(payloads[j])[i]
        <4> HIDE DEF j
        <4> QED BY <2>1 DEF Carries, j
      <3> QED BY <3>1, <3>2
    <2>4. /\ \A i \in 1..PrefixBytes : Encoded(payload)[i] = Prefix(l)[i]
          /\ \A i \in 1..l : Encoded(payload)[PrefixBytes + i] = payload[i]
      BY <2>1, EncodedFacts
    <2> HIDE DEF a, rest, payload, l, d
    <2>5. CASE Len(rest) < PrefixBytes
      <3>1. TakeFrameOff(d) = d
        BY <1>4, <2>5 DEF TakeFrameOff
      <3>2. ~Within(bytes, payloads, k, c + 1)
        BY <1>1, <1>2, <1>3, <2>1, <2>2, <2>5 DEF Within
      <3> QED BY <3>1, <3>2 DEF d
    <2>6. CASE ~(Len(rest) < PrefixBytes)
      <3>1. \A i \in 1..PrefixBytes : rest[i] = Prefix(l)[i]
        <4> SUFFICES ASSUME NEW i \in 1..PrefixBytes  PROVE rest[i] = Prefix(l)[i]
          OBVIOUS
        <4>1. i \in 1..Len(bytes) - a /\ i \in 1..PrefixBytes + l /\ a + i <= Len(bytes)
          BY <1>1, <1>2, <1>3, <2>1, <2>6
        <4> QED BY <1>3, <2>3, <2>4, <4>1
      <3>2. Length(rest) = l
        <4>1. PrefixBytes <= Len(rest)
          BY <1>1, <1>2, <1>3, <2>6
        <4> QED BY <1>3, <2>1, <3>1, <4>1, LengthRead
      <3>3. Allowed(l)
        BY <2>1, FramingAssumption DEF Allowed
      <3>4. Within(bytes, payloads, k, c + 1) <=> ~(Len(rest) < PrefixBytes + l)
        BY <1>1, <1>2, <1>3, <2>1, <2>2 DEF Within
      <3>5. CASE Len(rest) < PrefixBytes + l
        <4>1. TakeFrameOff(d) = d
          BY <1>4, <2>6, <3>2, <3>3, <3>5 DEF TakeFrameOff
        <4> QED BY <3>4, <3>5, <4>1 DEF d
      <3>6. CASE ~(Len(rest) < PrefixBytes + l)
        <4> DEFINE e == State(bytes, payloads, k, c + 1)
                   x == SubSeq(rest, PrefixBytes + 1, PrefixBytes + l)
        <4>1. x = payload
          <5> DEFINE m == PrefixBytes + 1
                     n == PrefixBytes + l
          <5>1. m \in 1..Len(rest) + 1 /\ n \in m - 1..Len(rest)
            BY <1>1, <1>3, <2>1, <3>6
          <5>2. /\ SubSeq(rest, m, n) \in Seq(Nat) /\ Len(SubSeq(rest, m, n)) = n + 1 - m
                /\ \A i \in 1..n + 1 - m : SubSeq(rest, m, n)[i] = rest[m + i - 1]
            <6> HIDE DEF m, n
            <6>1. rest \in Seq(Nat)
              BY <1>3
            <6> QED BY <5>1, <6>1, PartOfBytes
          <5>3. n + 1 - m = l
            BY <1>1, <2>1
          <5> HIDE DEF x
          <5>4. x \in Seq(Nat) /\ Len(x) = Len(payload)
            BY <5>2, <5>3 DEF x, l
          <5>5. ASSUME NEW i \in 1..l
                PROVE  x[i] = payload[i]
            <6>1. x[i] = rest[m + i - 1]
              BY <5>2, <5>3 DEF x
            <6>2. /\ m + i - 1 = PrefixBytes + i /\ PrefixBytes + i \in 1..Len(bytes) - a
                  /\ PrefixBytes + i \in 1..PrefixBytes + l /\ a + (PrefixBytes + i) <= Len(bytes)
              BY <1>1, <1>2, <1>3, <2>1, <3>6
            <6>3. rest[PrefixBytes + i] = Encoded(payload)[PrefixBytes + i]
              BY <1>3, <2>3, <6>2
            <6> QED BY <2>4, <6>1, <6>2, <6>3
          <5> QED BY <2>1, <5>4, <5>5, SeqEqual DEF l
        <4>2. Append(SubSeq(payloads, k + 1, c), payload) = SubSeq(payloads, k + 1, c + 1)
          <5> DEFINE i == k + 1
          <5>1. i \in 1..Len(payloads) /\ c \in i - 1..Len(payloads) - 1
            BY <1>1, <1>6
          <5> HIDE DEF i
          <5>2. Append(SubSeq(payloads, i, c), payloads[c + 1]) = SubSeq(payloads, i, c + 1)
            BY <5>1, PartAppended
          <5> QED BY <5>2 DEF i, payload
        <4>3. From(rest, PrefixBytes + l) = From(bytes, Bytes(payloads, k, c + 1))
          <5> DEFINE n == PrefixBytes + l
          <5>1. n \in Nat /\ a + n <= Len(bytes) /\ a + n = Bytes(payloads, k, c + 1)
            BY <1>1, <1>2, <1>3, <2>1, <2>2, <3>6
          <5> HIDE DEF n
          <5>2. From(From(bytes, a), n) = From(bytes, a + n)
            BY <1>2, <5>1, FromFrom
          <5> QED BY <5>1, <5>2 DEF n, rest
        <4>4. TakeFrameOff(d) =
                [d EXCEPT !.found = Append(@, x), !.rest = From(@, PrefixBytes + l)]
          BY <1>4, <2>6, <3>2, <3>3, <3>6 DEF TakeFrameOff
        <4> HIDE DEF x
        <4>5. TakeFrameOff(d) = e
          BY <1>4, <4>1, <4>2, <4>3, <4>4 DEF State, d
        <4> QED BY <1>6, <3>4, <3>6, <4>5 DEF d
      <3> QED BY <3>5, <3>6
    <2> QED BY <2>5, <2>6
  <1>7. c = N \/ c < N
    BY <1>1
  <1> HIDE DEF N, a, rest, d, payload, l
  <1> QED BY <1>5, <1>6, <1>7, Zenon

(* All the loop takes: the frames that are whole, and what is left.        *)
LEMMA DecodedIs ==
    ASSUME NEW payloads \in Seq(Sendable), NEW k \in 0..Len(payloads), NEW bytes \in Seq(Nat),
           Carries(bytes, payloads, k), Len(bytes) <= Bytes(payloads, k, Len(payloads))
    PROVE  \E c \in k..Len(payloads) :
              /\ Decoded(bytes) = State(bytes, payloads, k, c)
              /\ Within(bytes, payloads, k, c)
              /\ c < Len(payloads) => ~Within(bytes, payloads, k, c + 1)
  <1> DEFINE N == Len(payloads)
             L == Len(bytes)
             T == {N - c : c \in {b \in k..N : Within(bytes, payloads, k, b)}}
  <1>1. N \in Nat /\ L \in Nat /\ k \in 0..N
    BY SendableFacts
  <1>2. \A c \in k..N : Bytes(payloads, k, c) \in Nat /\ c - k <= Bytes(payloads, k, c)
    <2> SUFFICES ASSUME NEW c \in k..N
                 PROVE  Bytes(payloads, k, c) \in Nat /\ c - k <= Bytes(payloads, k, c)
      OBVIOUS
    <2>1. c \in 0..N /\ k \in 0..c
      BY <1>1
    <2>2. /\ Ends(payloads)[k] \in Nat /\ Ends(payloads)[c] \in Nat
          /\ Ends(payloads)[k] + (c - k) <= Ends(payloads)[c]
      BY <2>1, EndsGrow
    <2> QED BY <1>1, <2>1, <2>2 DEF Bytes
  <1>3. Within(bytes, payloads, k, k)
    <2>1. Bytes(payloads, k, k) = 0
      <3>1. k \in 0..k
        BY <1>1
      <3>2. Ends(payloads)[k] \in Nat
        BY <3>1, EndsGrow
      <3> QED BY <3>2 DEF Bytes
    <2> QED BY <1>1, <2>1 DEF Within
  <1>4. PICK z \in k..N : /\ Within(bytes, payloads, k, z)
                          /\ z < N => ~Within(bytes, payloads, k, z + 1)
    <2>1. T \in SUBSET Nat /\ N - k \in T
      BY <1>1, <1>3
    <2>2. PICK t \in T : \A u \in T : t <= u
      <3> HIDE DEF T
      <3> QED BY <2>1, SmallestOf
    <2>3. PICK z \in k..N : t = N - z /\ Within(bytes, payloads, k, z)
      BY <2>2
    <2>4. ASSUME z < N, Within(bytes, payloads, k, z + 1)
          PROVE  FALSE
      <3>1. z + 1 \in k..N
        BY <1>1, <2>4
      <3>2. N - (z + 1) \in T
        BY <2>4, <3>1
      <3> HIDE DEF T
      <3>3. N - z <= N - (z + 1)
        BY <2>2, <2>3, <3>2
      <3> QED BY <1>1, <3>3
    <2> QED BY <2>3, <2>4
  <1> HIDE DEF T
  <1> DEFINE first == [valid |-> TRUE, found |-> <<>>, rest |-> bytes]
             upTo == [n \in 0..L |-> IF k + n <= z THEN k + n ELSE z]
             run == [n \in 0..L |-> State(bytes, payloads, k, upTo[n])]
             All(f) == [n \in 0..L |-> IF n = 0 THEN first ELSE TakeFrameOff(f[n - 1])]
             h == CHOOSE f : f = All(f)
  <1>5. ASSUME NEW n \in 0..L
        PROVE  upTo[n] \in k..z /\ upTo[n] \in k..N /\ Within(bytes, payloads, k, upTo[n])
    <2>1. upTo[n] = IF k + n <= z THEN k + n ELSE z
      OBVIOUS
    <2> HIDE DEF upTo
    <2>2. upTo[n] \in k..z /\ upTo[n] \in k..N
      BY <1>1, <2>1
    <2>3. Bytes(payloads, k, upTo[n]) <= Bytes(payloads, k, z)
      <3> DEFINE c == upTo[n]
      <3>1. z \in 0..N /\ c \in 0..z /\ k \in 0..c /\ c \in 0..N
        BY <1>1, <2>2
      <3> HIDE DEF c
      <3>2. /\ Ends(payloads)[c] \in Nat /\ Ends(payloads)[z] \in Nat
            /\ Ends(payloads)[c] + (z - c) <= Ends(payloads)[z]
        BY <3>1, EndsGrow
      <3>3. Ends(payloads)[k] \in Nat
        BY <3>1, EndsGrow
      <3> DEFINE x == Ends(payloads)[c]
                 y == Ends(payloads)[z]
                 v == Ends(payloads)[k]
      <3>4. x \in Nat /\ y \in Nat /\ v \in Nat /\ x + (z - c) <= y
        BY <3>2, <3>3
      <3>5. Bytes(payloads, k, c) = x - v /\ Bytes(payloads, k, z) = y - v
        BY DEF Bytes
      <3> HIDE DEF x, y, v
      <3>6. x - v <= y - v
        BY <1>1, <3>1, <3>4
      <3> QED BY <3>5, <3>6 DEF c
    <2> QED BY <1>1, <1>2, <1>4, <2>2, <2>3 DEF Within
  <1>6. upTo[0] = k /\ upTo[L] = z
    <2>1. Bytes(payloads, k, z) \in Nat /\ z - k <= Bytes(payloads, k, z)
      BY <1>2
    <2>2. Bytes(payloads, k, z) <= L
      BY <1>4 DEF Within
    <2>3. z - k <= L /\ k <= z
      BY <1>1, <2>1, <2>2
    <2> QED BY <1>1, <2>3
  <1>7. run[0] = first
    <2>1. run[0] = State(bytes, payloads, k, k)
      <3>1. 0 \in 0..L
        BY <1>1
      <3> HIDE DEF upTo
      <3> QED BY <1>6, <3>1
    <2>2. SubSeq(payloads, k + 1, k) = <<>>
      <3>1. k + 1 \in Int /\ k \in Int /\ k < k + 1
        BY <1>1
      <3> QED BY <3>1, SubSeqEmpty
    <2>3. From(bytes, Bytes(payloads, k, k)) = bytes
      <3>1. k \in 0..k
        BY <1>1
      <3>2. Ends(payloads)[k] \in Nat
        BY <3>1, EndsGrow
      <3>3. Bytes(payloads, k, k) = 0
        BY <3>2 DEF Bytes
      <3>4. SubSeq(bytes, 1, Len(bytes)) = bytes
        BY SubSeqFull
      <3> QED BY <3>3, <3>4 DEF From
    <2> HIDE DEF run
    <2> QED BY <2>1, <2>2, <2>3 DEF State
  <1>8. ASSUME NEW n \in 1..L
        PROVE  run[n] = TakeFrameOff(run[n - 1])
    <2> DEFINE c == upTo[n - 1]
    <2>1. n - 1 \in 0..L /\ n \in 0..L
      BY <1>1
    <2>2. /\ c = IF k + (n - 1) <= z THEN k + (n - 1) ELSE z
          /\ upTo[n] = IF k + n <= z THEN k + n ELSE z
      BY <2>1
    <2>3. c \in k..z /\ c \in k..N /\ Within(bytes, payloads, k, c)
      BY <1>5, <2>1
    <2>4. /\ run[n - 1] = State(bytes, payloads, k, c)
          /\ run[n] = State(bytes, payloads, k, upTo[n])
      <3> HIDE DEF upTo
      <3> QED BY <2>1
    <2> DEFINE b == upTo[n]
    <2>5. b \in k..z /\ b \in k..N /\ Within(bytes, payloads, k, b)
      BY <1>5, <2>1
    <2>6. b = IF c < z THEN c + 1 ELSE c
      <3> HIDE DEF b, c
      <3> QED BY <1>1, <2>2, <2>3 DEF b, c
    <2> HIDE DEF run, upTo, b, c
    <2>7. TakeFrameOff(State(bytes, payloads, k, c)) =
             IF c < Len(payloads) /\ Within(bytes, payloads, k, c + 1)
             THEN State(bytes, payloads, k, c + 1) ELSE State(bytes, payloads, k, c)
      BY <1>1, <2>3, TakesNext
    <2>8. CASE c < z
      <3>1. b = c + 1 /\ c < Len(payloads)
        BY <1>1, <2>3, <2>6, <2>8
      <3>2. Within(bytes, payloads, k, c + 1)
        BY <2>5, <3>1
      <3> QED BY <2>4, <2>7, <3>1, <3>2 DEF b
    <2>9. CASE ~(c < z)
      <3>1. b = c /\ c = z
        BY <1>1, <2>3, <2>6, <2>9
      <3>2. ~(c < Len(payloads) /\ Within(bytes, payloads, k, c + 1))
        BY <1>4, <3>1
      <3> QED BY <2>4, <2>7, <3>1, <3>2 DEF b
    <2> QED BY <2>8, <2>9
  <1>9. run = All(run)
    <2> DEFINE D == [n \in 0..L |-> run[n]]
    <2>1. run = D
      OBVIOUS
    <2> HIDE DEF run
    <2>2. \A n \in 0..L : run[n] = IF n = 0 THEN first ELSE TakeFrameOff(run[n - 1])
      <3> HIDE DEF first
      <3> QED BY <1>1, <1>7, <1>8
    <2> HIDE DEF first
    <2> QED BY <2>1, <2>2
  <1>10. h = All(h)
    <2> HIDE DEF All, run
    <2> QED BY <1>9
  <1>11. Decoded(bytes) = h[L]
    BY Zenon DEF Decoded
  <1>12. run[L] = State(bytes, payloads, k, z)
    <2>1. L \in 0..L
      BY <1>1
    <2> HIDE DEF upTo
    <2> QED BY <1>6, <2>1
  <1> HIDE DEF h, run, first, upTo
  <1>13. \A n \in 0..L : h[n] = IF n = 0 THEN first ELSE TakeFrameOff(h[n - 1])
    BY <1>10
  <1>14. h[L] = run[L]
    <2> DEFINE S == {n \in 0..L : h[n] = run[n]}
    <2> HIDE DEF All
    <2>1. 0 \in S
      BY <1>1, <1>7, <1>13
    <2>2. ASSUME NEW n \in 1..L, n - 1 \in S
          PROVE  n \in S
      BY <1>1, <1>8, <1>13, <2>2
    <2> HIDE DEF S
    <2>3. \A n \in 0..L : n \in S
      BY <1>1, <2>1, <2>2, StepByStep
    <2> QED BY <1>1, <2>3 DEF S
  <1> QED BY <1>4, <1>11, <1>12, <1>14

LEMMA BytesFacts ==
    ASSUME NEW payloads \in Seq(Sendable), NEW c \in 0..Len(payloads), NEW k \in 0..c
    PROVE  /\ Bytes(payloads, k, c) \in Nat /\ c - k <= Bytes(payloads, k, c)
           /\ \A j \in c..Len(payloads) :
                 Bytes(payloads, k, j) = Bytes(payloads, k, c) + Bytes(payloads, c, j)
           /\ c < Len(payloads) =>
                 Bytes(payloads, k, c + 1) = Bytes(payloads, k, c) + PrefixBytes + Len(payloads[c + 1])
  <1> DEFINE N == Len(payloads)
             E == Ends(payloads)
  <1>1. N \in Nat /\ PrefixBytes \in Nat /\ \A j \in 1..N : Len(payloads[j]) \in Nat
    BY SendableFacts, FramingAssumption
  <1>2. /\ E \in [0..N -> Nat] /\ \A j \in 1..N : E[j] = E[j - 1] + PrefixBytes + Len(payloads[j])
    BY <1>1, EndsFacts
  <1>3. E[k] + (c - k) <= E[c]
    BY EndsGrow
  <1> HIDE DEF E
  <1>4. k \in 0..N /\ c \in 0..N /\ k \in Int /\ c \in Int /\ E[k] \in Nat /\ E[c] \in Nat
    <2>1. k \in 0..N /\ c \in 0..N /\ k \in Int /\ c \in Int
      BY <1>1
    <2>2. \A j \in 0..N : E[j] \in Nat
      BY <1>2
    <2> QED BY <2>1, <2>2
  <1>5. Bytes(payloads, k, c) \in Nat /\ c - k <= Bytes(payloads, k, c)
    BY <1>3, <1>4 DEF Bytes, E
  <1>6. ASSUME NEW j \in c..N
        PROVE  Bytes(payloads, k, j) = Bytes(payloads, k, c) + Bytes(payloads, c, j)
    <2>1. j \in 0..N /\ E[j] \in Nat
      BY <1>1, <1>2, <1>4
    <2> QED BY <1>4, <2>1 DEF Bytes, E
  <1>7. ASSUME c < N
        PROVE  Bytes(payloads, k, c + 1) = Bytes(payloads, k, c) + PrefixBytes + Len(payloads[c + 1])
    <2> DEFINE j == c + 1
    <2>1. j \in 1..N /\ j - 1 = c
      BY <1>1, <1>4, <1>7
    <2> DEFINE l == Len(payloads[j])
    <2>2. l \in Nat
      BY <1>1, <2>1
    <2> HIDE DEF j
    <2>3. E[j] = E[c] + PrefixBytes + l
      BY <1>2, <2>1
    <2> HIDE DEF l
    <2>4. E[j] - E[k] = (E[c] - E[k]) + PrefixBytes + l
      BY <1>1, <1>4, <2>2, <2>3
    <2> QED BY <2>4 DEF Bytes, E, j, l
  <1> QED BY <1>5, <1>6, <1>7

(* A part of a frame, at the end of what carries the frames before it.     *)
LEMMA CarriesMore ==
    ASSUME NEW payloads \in Seq(Sendable), NEW k \in 0..Len(payloads), NEW bytes \in Seq(Nat),
           Carries(bytes, payloads, k), Len(bytes) = Bytes(payloads, k, Len(payloads)),
           NEW payload \in Sendable, NEW part \in Seq(Nat), Len(part) <= PrefixBytes + Len(payload),
           \A i \in 1..Len(part) : part[i] = Encoded(payload)[i]
    PROVE  /\ Carries(bytes \o part, Append(payloads, payload), k)
           /\ \A j \in k..Len(payloads) :
                 Bytes(Append(payloads, payload), k, j) = Bytes(payloads, k, j)
           /\ Bytes(Append(payloads, payload), k, Len(payloads) + 1) =
                 Bytes(payloads, k, Len(payloads)) + PrefixBytes + Len(payload)
  <1> DEFINE N == Len(payloads)
             more == Append(payloads, payload)
             left == bytes \o part
  <1>1. /\ more \in Seq(Sendable) /\ Len(more) = N + 1 /\ N \in Nat
        /\ more[N + 1] = payload /\ \A j \in 1..N : more[j] = payloads[j]
    BY QueueAppended
  <1>2. /\ left \in Seq(Nat) /\ Len(left) = Len(bytes) + Len(part)
        /\ Len(bytes) \in Nat /\ Len(part) \in Nat
        /\ \A x \in 1..Len(bytes) + Len(part) :
              left[x] = IF x <= Len(bytes) THEN bytes[x] ELSE part[x - Len(bytes)]
    <2> HIDE DEF more, N
    <2>1. Len(bytes) \in Nat /\ Len(part) \in Nat
      OBVIOUS
    <2> QED BY <2>1, ConcatProperties
  <1>3. /\ \A j \in 0..N : Ends(more)[j] = Ends(payloads)[j] /\ Ends(payloads)[j] \in Nat
        /\ Ends(more)[N + 1] = Ends(payloads)[N] + PrefixBytes + Len(payload)
    <2>1. \A j \in 0..N : Ends(payloads)[j] \in Nat
      <3> SUFFICES ASSUME NEW j \in 0..N  PROVE Ends(payloads)[j] \in Nat
        OBVIOUS
      <3>1. 0 \in 0..j
        BY <1>1
      <3> QED BY <3>1, EndsGrow
    <2> QED BY <2>1, EndsAppended
  <1>4. PrefixBytes \in Nat /\ Len(payload) \in Nat
    <2>1. Len(more[N + 1]) \in Nat
      <3>1. N + 1 \in 1..Len(more)
        BY <1>1
      <3> HIDE DEF more
      <3> QED BY <1>1, <3>1, SendableFacts
    <2> QED BY <1>1, <2>1, FramingAssumption
  <1> HIDE DEF more, left
  <1>5. \A j \in k..N : Bytes(more, k, j) = Bytes(payloads, k, j)
    <2>1. k \in 0..N /\ \A j \in k..N : j \in 0..N
      BY <1>1
    <2> QED BY <1>3, <2>1 DEF Bytes
  <1>6. Bytes(more, k, N + 1) = Bytes(payloads, k, N) + PrefixBytes + Len(payload)
    <2>1. k \in 0..N /\ N \in 0..N
      BY <1>1
    <2>2. Ends(payloads)[N] \in Nat /\ Ends(payloads)[k] \in Nat /\ Ends(more)[k] = Ends(payloads)[k]
      BY <1>3, <2>1
    <2> DEFINE l == Len(payload)
    <2> HIDE DEF l
    <2>3. Ends(more)[N + 1] = Ends(payloads)[N] + PrefixBytes + l
      BY <1>3 DEF l
    <2>4. l \in Nat
      BY <1>4 DEF l
    <2>5. Bytes(more, k, N + 1) = Bytes(payloads, k, N) + PrefixBytes + l
      <3> DEFINE x == Ends(payloads)[N]
                 y == Ends(payloads)[k]
      <3>1. Bytes(more, k, N + 1) = (x + PrefixBytes + l) - y /\ Bytes(payloads, k, N) = x - y
        BY <2>2, <2>3 DEF Bytes
      <3>2. x \in Nat /\ y \in Nat
        BY <2>2
      <3> HIDE DEF x, y
      <3> QED BY <1>4, <2>4, <3>1, <3>2
    <2> QED BY <2>5 DEF l
  <1>7. ASSUME NEW j \in k + 1..N + 1, NEW i \in 1..PrefixBytes + Len(more[j]),
               Bytes(more, k, j - 1) + i <= Len(left)
        PROVE  left[Bytes(more, k, j - 1) + i] = Encoded(more[j])[i]
    <2> DEFINE b == Bytes(payloads, k, j - 1)
    <2>1. k \in 0..N /\ j - 1 \in k..N /\ j - 1 \in 0..N /\ k \in 0..j - 1
      BY <1>1
    <2>2. Bytes(more, k, j - 1) = b /\ b \in Nat
      <3> DEFINE m == j - 1
      <3> HIDE DEF m
      <3>1. Bytes(more, k, m) = Bytes(payloads, k, m) /\ Bytes(payloads, k, m) \in Nat
        BY <1>5, <2>1, BytesFacts DEF m
      <3> QED BY <3>1 DEF m
    <2>3. CASE j <= N
      <3>1. j \in k + 1..N /\ more[j] = payloads[j] /\ j \in 1..N
        BY <1>1, <2>1, <2>3
      <3> DEFINE l == Len(payloads[j])
      <3>2. l \in Nat
        BY <3>1, SendableFacts
      <3>3. b + PrefixBytes + l <= Len(bytes)
        <4> DEFINE m == j - 1
        <4>1. m \in 0..N /\ k \in 0..m /\ m < N /\ m + 1 = j
          BY <1>1, <2>1, <2>3
        <4> HIDE DEF m
        <4>2. Bytes(payloads, k, m + 1) = Bytes(payloads, k, m) + PrefixBytes + Len(payloads[m + 1])
          BY <4>1, BytesFacts
        <4>3. Bytes(payloads, k, j) = b + PrefixBytes + l
          BY <4>1, <4>2 DEF m
        <4>4. Bytes(payloads, k, N) = Bytes(payloads, k, j) + Bytes(payloads, j, N)
          <5>1. j \in 0..N /\ k \in 0..j /\ N \in j..N
            BY <1>1, <2>1, <3>1
          <5> QED BY <5>1, BytesFacts
        <4>5. Bytes(payloads, j, N) \in Nat
          <5>1. N \in 0..N /\ j \in 0..N
            BY <1>1, <3>1
          <5> QED BY <5>1, BytesFacts
        <4> HIDE DEF b, l
        <4> QED BY <1>2, <1>4, <2>2, <3>2, <4>3, <4>4, <4>5
      <3>4. i \in 1..PrefixBytes + l
        BY <3>1
      <3> HIDE DEF l
      <3>8. i \in Nat \ {0} /\ i <= PrefixBytes + l
        BY <1>4, <3>2, <3>4
      <3>9. b + i <= Len(bytes)
        <4> HIDE DEF b
        <4> QED BY <1>2, <1>4, <2>2, <3>2, <3>3, <3>8
      <3>5. b + i \in 1..Len(bytes) /\ b + i <= Len(bytes) /\ b + i \in 1..Len(bytes) + Len(part)
        <4> HIDE DEF b
        <4> QED BY <1>2, <2>2, <3>8, <3>9
      <3>6. left[b + i] = bytes[b + i]
        BY <1>2, <3>5
      <3>7. bytes[b + i] = Encoded(payloads[j])[i]
        BY <3>1, <3>4, <3>5 DEF Carries, l
      <3> QED BY <2>2, <3>1, <3>6, <3>7
    <2>4. CASE ~(j <= N)
      <3>1. j = N + 1 /\ j - 1 = N /\ more[j] = payload
        BY <1>1, <2>1, <2>4
      <3>2. b = Len(bytes)
        BY <3>1
      <3> HIDE DEF b
      <3>5. i \in Nat \ {0}
        BY <1>4, <3>1
      <3>6. b + i <= Len(bytes) + Len(part)
        BY <1>2, <1>7, <2>2
      <3>3. i \in 1..Len(part) /\ b + i \in 1..Len(bytes) + Len(part) /\ ~(b + i <= Len(bytes))
            /\ (b + i) - Len(bytes) = i
        <4>1. Len(bytes) \in Nat /\ Len(part) \in Nat
          BY <1>2
        <4>2. i <= Len(part)
          BY <3>2, <3>5, <3>6, <4>1
        <4>3. i \in 1..Len(part)
          BY <3>5, <4>1, <4>2
        <4>4. ~(b + i <= Len(bytes)) /\ (b + i) - Len(bytes) = i
          BY <3>2, <3>5, <4>1
        <4>5. b + i \in 1..Len(bytes) + Len(part)
          BY <3>2, <3>5, <3>6, <4>1
        <4> QED BY <4>3, <4>4, <4>5
      <3>4. left[b + i] = part[i]
        BY <1>2, <3>3
      <3> QED BY <2>2, <3>1, <3>3, <3>4
    <2> QED BY <2>3, <2>4
  <1>8. Carries(left, more, k)
    BY <1>1, <1>7 DEF Carries
  <1> QED BY <1>5, <1>6, <1>8 DEF more, left

(* The first of the bytes, and the bytes after some of the frames.         *)
LEMMA CarriesFewer ==
    ASSUME NEW payloads, NEW k \in 0..Len(payloads), NEW bytes \in Seq(Nat), NEW part \in Seq(Nat),
           Len(part) <= Len(bytes), \A i \in 1..Len(part) : part[i] = bytes[i],
           Carries(bytes, payloads, k), payloads \in Seq(Sendable)
    PROVE  Carries(part, payloads, k)
  <1> DEFINE N == Len(payloads)
  <1>1. N \in Nat /\ Len(part) \in Nat /\ Len(bytes) \in Nat /\ PrefixBytes \in Nat
    BY SendableFacts, FramingAssumption
  <1>2. ASSUME NEW j \in k + 1..N, NEW i \in 1..PrefixBytes + Len(payloads[j]),
               Bytes(payloads, k, j - 1) + i <= Len(part)
        PROVE  part[Bytes(payloads, k, j - 1) + i] = Encoded(payloads[j])[i]
    <2> DEFINE b == Bytes(payloads, k, j - 1)
               l == Len(payloads[j])
    <2>1. b \in Nat
      <3> DEFINE m == j - 1
      <3>1. m \in 0..N /\ k \in 0..m
        BY <1>1
      <3> HIDE DEF m
      <3>2. Bytes(payloads, k, m) \in Nat
        BY <3>1, BytesFacts
      <3> QED BY <3>2 DEF m
    <2>2. l \in Nat
      <3>1. j \in 1..N
        BY <1>1
      <3> QED BY <3>1, SendableFacts
    <2>3. bytes[b + i] = Encoded(payloads[j])[i] \/ ~(b + i <= Len(bytes))
      BY <1>2 DEF Carries
    <2> HIDE DEF b, l
    <2>4. b + i <= Len(part) /\ i \in 1..PrefixBytes + l
      BY <1>2 DEF b, l
    <2>5. b + i \in 1..Len(part) /\ b + i <= Len(bytes)
      BY <1>1, <2>1, <2>2, <2>4
    <2>6. part[b + i] = Encoded(payloads[j])[i]
      BY <2>3, <2>5
    <2> QED BY <2>6 DEF b
  <1> QED BY <1>2 DEF Carries

LEMMA CarriesOn ==
    ASSUME NEW payloads \in Seq(Sendable), NEW c \in 0..Len(payloads), NEW k \in 0..c,
           NEW bytes \in Seq(Nat), Carries(bytes, payloads, k), Within(bytes, payloads, k, c)
    PROVE  Carries(From(bytes, Bytes(payloads, k, c)), payloads, c)
  <1> DEFINE N == Len(payloads)
             b == Bytes(payloads, k, c)
             left == From(bytes, b)
  <1>1. N \in Nat /\ Len(bytes) \in Nat /\ PrefixBytes \in Nat /\ c \in Int /\ k \in Int
    BY SendableFacts, FramingAssumption
  <1>2. b \in Nat /\ b \in 0..Len(bytes)
    BY <1>1, BytesFacts DEF Within
  <1>3. Len(left) = Len(bytes) - b /\ \A x \in 1..Len(bytes) - b : left[x] = bytes[b + x]
    <2> HIDE DEF b
    <2> QED BY <1>2, FromFacts
  <1> HIDE DEF b, left
  <1>4. ASSUME NEW j \in c + 1..N, NEW i \in 1..PrefixBytes + Len(payloads[j]),
               Bytes(payloads, c, j - 1) + i <= Len(left)
        PROVE  left[Bytes(payloads, c, j - 1) + i] = Encoded(payloads[j])[i]
    <2> DEFINE m == j - 1
               l == Len(payloads[j])
               d == Bytes(payloads, c, m)
    <2>1. m \in 0..N /\ c \in 0..m /\ m \in c..N /\ j \in k + 1..N /\ j \in 1..N
      BY <1>1
    <2>2. l \in Nat
      BY <2>1, SendableFacts
    <2>3. d \in Nat /\ Bytes(payloads, k, m) = b + d
      <3> HIDE DEF m
      <3> QED BY <2>1, BytesFacts DEF b
    <2>4. Bytes(payloads, k, m) + i <= Len(bytes) =>
             bytes[Bytes(payloads, k, m) + i] = Encoded(payloads[j])[i]
      BY <2>1 DEF Carries
    <2>5. d + i <= Len(left) /\ i \in 1..PrefixBytes + l
      BY <1>4
    <2> HIDE DEF m, l, d
    <2>9. i \in Nat \ {0}
      BY <1>1, <2>2, <2>5
    <2>10. d + i <= Len(bytes) - b
      BY <1>3, <2>5
    <2>6. d + i \in 1..Len(bytes) - b /\ (b + d) + i = b + (d + i) /\ (b + d) + i <= Len(bytes)
      BY <1>1, <1>2, <2>3, <2>9, <2>10
    <2>7. left[d + i] = bytes[b + (d + i)]
      BY <1>3, <2>6
    <2>8. bytes[(b + d) + i] = Encoded(payloads[j])[i]
      BY <2>3, <2>4, <2>6
    <2> QED BY <2>6, <2>7, <2>8 DEF d, m
  <1> QED BY <1>4 DEF Carries, left, b

-----------------------------------------------------------------------------
(* The steps.                                                              *)

LEMMA FramingInitially == FramingInit => FramingInv
  <1> SUFFICES ASSUME FramingInit  PROVE FramingInv
    OBVIOUS
  <1>1. FramingTypeOK
    BY DEF FramingInit, FramingTypeOK
  <1>2. written = <<>> /\ frames = <<>> /\ Len(<<>>) = 0
    BY DEF FramingInit
  <1>3. pending \o stream = <<>> /\ Len(pending \o stream) = 0
    <2>1. <<>> \in Seq(Nat)
      OBVIOUS
    <2>2. <<>> \o <<>> = <<>>
      BY <2>1, ConcatEmptySeq
    <2> QED BY <2>2 DEF FramingInit
  <1>4. Bytes(written, 0, 0) = 0
    <2>1. <<>> \in Seq(Sendable) /\ 0 \in 0..Len(<<>>) /\ 0 \in 0..0
      OBVIOUS
    <2>2. Ends(<<>>)[0] \in Nat
      BY <2>1, EndsGrow
    <2> QED BY <1>2, <2>2 DEF Bytes
  <1>5. Carries(pending \o stream, written, 0)
    BY <1>2 DEF Carries
  <1>6. frames = SubSeq(written, 1, 0)
    <2>1. SubSeq(written, 1, 0) = <<>>
      BY SubSeqEmpty
    <2> QED BY <1>2, <2>1
  <1>7. FramesAhead
    BY <1>2, <1>3, <1>4, <1>5, <1>6 DEF FramingInit, FramesAhead
  <1>8. NoneKept /\ EndedAtEnd
    BY <1>2 DEF FramingInit, NoneKept, EndedAtEnd
  <1> QED BY <1>1, <1>7, <1>8 DEF FramingInv

LEMMA FrameCounts ==
    ASSUME FramingTypeOK
    PROVE  /\ Len(frames) \in Nat /\ Len(written) \in Nat /\ Len(pending) \in Nat
           /\ Len(stream) \in Nat /\ pending \o stream \in Seq(Nat)
           /\ Len(pending \o stream) = Len(pending) + Len(stream)
  <1>1. pending \in Seq(Nat) /\ stream \in Seq(Nat) /\ written \in Seq(Sendable) /\ frames \in Seq(Sendable)
    BY DEF FramingTypeOK
  <1>2. /\ pending \o stream \in Seq(Nat)
        /\ Len(pending \o stream) = Len(pending) + Len(stream)
    BY <1>1, ConcatProperties
  <1> QED BY <1>1, <1>2

(* A frame, or the beginning of one, is written.                           *)
LEMMA WritingKeeps ==
    ASSUME FramingInv, writer = "open", NEW payload \in Sendable, NEW part \in Seq(Nat),
           \A i \in 1..Len(part) : part[i] = Encoded(payload)[i],
           stream' = stream \o part, written' = Append(written, payload),
           UNCHANGED <<pending, frames, reader>>,
           \/ writer' = "open" /\ Len(part) = PrefixBytes + Len(payload)
           \/ writer' = "torn" /\ Len(part) \in 1..PrefixBytes + Len(payload) - 1
    PROVE  FramingInv'
  <1> DEFINE k == Len(frames)
             N == Len(written)
             left == pending \o stream
  <1>1. /\ written \in Seq(Sendable) /\ frames \in Seq(Sendable) /\ stream \in Seq(Nat) /\ pending \in Seq(Nat)
        /\ reader \in {"reading", "finished", "failed"}
    BY DEF FramingInv, FramingTypeOK
  <1>2. /\ k \in Nat /\ N \in Nat /\ Len(pending) \in Nat /\ Len(stream) \in Nat
        /\ left \in Seq(Nat) /\ Len(left) = Len(pending) + Len(stream)
    BY FrameCounts DEF FramingInv
  <1>3. /\ k <= N /\ frames = SubSeq(written, 1, k) /\ Carries(left, written, k)
        /\ Len(left) = Bytes(written, k, N)
    BY DEF FramingInv, FramesAhead
  <1>4. k \in 0..N /\ N \in 0..N
    BY <1>2, <1>3
  <1>5. Len(part) \in Nat /\ PrefixBytes \in Nat /\ Len(payload) \in Nat \ {0}
    <2>1. <<payload>> \in Seq(Sendable) /\ 1 \in 1..Len(<<payload>>) /\ <<payload>>[1] = payload
      OBVIOUS
    <2>2. Len(<<payload>>[1]) \in 1..MaxFrameBytes
      BY <2>1, SendableFacts
    <2> QED BY <2>1, <2>2, FramingAssumption
  <1>6. Len(part) <= PrefixBytes + Len(payload)
    BY <1>5
  <1>7. /\ written' \in Seq(Sendable) /\ Len(written') = N + 1
    BY <1>1, QueueAppended
  <1>8. stream' \in Seq(Nat) /\ pending' \o stream' = left \o part
    <2>1. stream \o part \in Seq(Nat)
      BY <1>1, ConcatProperties
    <2>2. pending \o (stream \o part) = (pending \o stream) \o part
      <3> HIDE DEF left, k, N
      <3>1. pending \in Seq(Nat) /\ stream \in Seq(Nat) /\ part \in Seq(Nat)
        BY <1>1
      <3> QED BY <3>1, JoinedInAnyOrder
    <2> QED BY <2>1, <2>2
  <1> HIDE DEF left, k, N
  <1>9. Len(left \o part) = Len(left) + Len(part)
    BY <1>2, ConcatProperties
  <1>10. /\ Carries(left \o part, written', k)
         /\ \A j \in k..N : Bytes(written', k, j) = Bytes(written, k, j)
         /\ Bytes(written', k, N + 1) = Bytes(written, k, N) + PrefixBytes + Len(payload)
    <2>1. k \in 0..Len(written) /\ Len(left) = Bytes(written, k, Len(written))
      BY <1>3, <1>4 DEF N
    <2>2. /\ Carries(left \o part, Append(written, payload), k)
          /\ \A j \in k..Len(written) :
                Bytes(Append(written, payload), k, j) = Bytes(written, k, j)
          /\ Bytes(Append(written, payload), k, Len(written) + 1) =
                Bytes(written, k, Len(written)) + PrefixBytes + Len(payload)
      BY <1>1, <1>2, <1>3, <1>6, <2>1, CarriesMore
    <2> QED BY <2>2 DEF N
  <1>11. FramingTypeOK'
    BY <1>1, <1>7, <1>8 DEF FramingTypeOK
  <1>12. k' = k /\ Len(written') = N + 1 /\ Len(frames') = k
    BY <1>7 DEF k
  <1>13. frames' = SubSeq(written', 1, k)
    <2>1. 1 \in 1..N + 1 /\ k \in 1 - 1..N /\ k \in 1 - 1..N + 1 /\ 1 \in 1..(N + 1) + 1
      BY <1>2, <1>4
    <2>2. /\ frames \in Seq(Sendable) /\ Len(frames) = k + 1 - 1
          /\ \A x \in 1..k + 1 - 1 : frames[x] = written[1 + x - 1]
      BY <1>1, <1>3, <2>1, PartFacts DEF N
    <2> DEFINE more == SubSeq(written', 1, k)
    <2>3. /\ more \in Seq(Sendable) /\ Len(more) = k + 1 - 1
          /\ \A x \in 1..k + 1 - 1 : more[x] = written'[1 + x - 1]
      <3> DEFINE longer == written'
      <3>1. longer \in Seq(Sendable) /\ 1 \in 1..Len(longer) + 1 /\ k \in 1 - 1..Len(longer)
        BY <1>7, <2>1
      <3> HIDE DEF longer
      <3>2. /\ SubSeq(longer, 1, k) \in Seq(Sendable) /\ Len(SubSeq(longer, 1, k)) = k + 1 - 1
            /\ \A x \in 1..k + 1 - 1 : SubSeq(longer, 1, k)[x] = longer[1 + x - 1]
        BY <3>1, PartFacts
      <3> QED BY <3>2 DEF longer
    <2>4. \A x \in 1..N : written'[x] = written[x]
      BY <1>1, QueueAppended DEF N
    <2> HIDE DEF more
    <2>5. ASSUME NEW x \in 1..Len(frames)
          PROVE  frames[x] = more[x]
      <3>1. x \in 1..k + 1 - 1 /\ x \in 1..N /\ 1 + x - 1 = x
        BY <1>2, <1>4, <2>2
      <3> QED BY <2>2, <2>3, <2>4, <3>1
    <2>6. frames = more
      BY <2>2, <2>3, <2>5, SeqEqual
    <2> QED BY <2>6 DEF more
  <1>14. Bytes(written, k, N) \in Nat /\ Bytes(written', k, N) = Bytes(written, k, N)
    <2>1. N \in k..N
      BY <1>2, <1>4
    <2> QED BY <1>1, <1>4, <1>10, <2>1, BytesFacts DEF N
  <1>15. FramesAhead'
    <2>1. k <= N + 1 /\ k < N + 1 /\ (N + 1) - 1 = N
      BY <1>2, <1>4
    <2> DEFINE l == Len(payload)
               n == Len(part)
               b == Bytes(written, k, N)
    <2>4. /\ Bytes(written', k, N + 1) = b + PrefixBytes + l /\ Bytes(written', k, N) = b
          /\ Len(left \o part) = b + n /\ b \in Nat /\ n \in Nat /\ l \in Nat /\ PrefixBytes \in Nat
      BY <1>3, <1>5, <1>9, <1>10, <1>14
    <2>5. \/ writer' = "open" /\ n = PrefixBytes + l
          \/ writer' = "torn" /\ n \in 1..PrefixBytes + l - 1
      OBVIOUS
    <2> HIDE DEF l, n, b
    <2>2. ASSUME writer' # "torn"
          PROVE  Len(left \o part) = Bytes(written', k, N + 1)
      <3>1. n = PrefixBytes + l
        BY <2>2, <2>5
      <3>2. b + n = b + PrefixBytes + l
        BY <2>4, <3>1
      <3> QED BY <2>4, <3>2
    <2>3. writer' = "torn" => /\ Bytes(written', k, N) < Len(left \o part)
                              /\ Len(left \o part) < Bytes(written', k, N + 1)
      BY <2>4, <2>5
    <2> QED BY <1>8, <1>10, <1>12, <1>13, <2>1, <2>2, <2>3 DEF FramesAhead
  <1>16. NoneKept'
    <2>1. CASE k < N
      <3>1. Len(pending) < Bytes(written, k, k + 1)
        BY <2>1 DEF FramingInv, NoneKept, k, N
      <3>2. k + 1 \in k..N
        BY <1>2, <2>1
      <3>3. Bytes(written', k, k + 1) = Bytes(written, k, k + 1)
        BY <1>10, <3>2
      <3> QED BY <1>12, <3>1, <3>3 DEF NoneKept
    <2>2. CASE k = N
      <3>1. Len(pending) = 0
        <4>1. Bytes(written, k, k) = 0
          <5>1. k \in 0..k /\ k \in 0..Len(written)
            BY <1>2, <1>4 DEF N
          <5>2. Ends(written)[k] \in Nat
            BY <1>1, <5>1, EndsGrow
          <5> QED BY <5>2 DEF Bytes
        <4>2. Len(left) = 0
          BY <1>3, <2>2, <4>1
        <4> QED BY <1>2, <4>2
      <3>2. Bytes(written', k, k + 1) > 0
        <4>1. Bytes(written', k, N + 1) = Bytes(written, k, N) + PrefixBytes + Len(payload)
          BY <1>10
        <4> DEFINE l == Len(payload)
        <4>2. l \in Nat \ {0}
          BY <1>5
        <4> HIDE DEF l
        <4>3. Bytes(written', k, N + 1) = Bytes(written, k, N) + PrefixBytes + l
          BY <4>1 DEF l
        <4> QED BY <1>5, <1>14, <2>2, <4>2, <4>3
      <3> QED BY <1>12, <3>1, <3>2 DEF NoneKept
    <2> QED BY <1>2, <1>4, <2>1, <2>2
  <1>17. EndedAtEnd'
    <2>1. reader = "reading"
      BY <1>1 DEF FramingInv, EndedAtEnd
    <2> QED BY <2>1 DEF EndedAtEnd
  <1> QED BY <1>11, <1>15, <1>16, <1>17 DEF FramingInv

LEMMA WriteKeeps ==
    ASSUME FramingInv, NEW payload \in Payloads,
           Write(payload) \/ \E part \in 1..PrefixBytes + MaxFrameBytes : Tear(payload, part)
    PROVE  FramingInv'
  <1>1. writer = "open" /\ payload \in Sendable
    BY DEF Write, Tear, Sendable
  <1>2. payload \in Seq(Nat) /\ Len(payload) \in Nat
    <2>1. <<payload>> \in Seq(Sendable) /\ 1 \in 1..Len(<<payload>>) /\ <<payload>>[1] = payload
      BY <1>1
    <2>2. <<payload>>[1] \in Seq(Nat)
      BY <2>1, SendableFacts
    <2> QED BY <2>1, <2>2
  <1>3. Encoded(payload) \in Seq(Nat) /\ Len(Encoded(payload)) = PrefixBytes + Len(payload)
    BY <1>2, EncodedFacts
  <1>4. CASE Write(payload)
    <2> DEFINE part == Encoded(payload)
    <2>1. /\ stream' = stream \o part /\ written' = Append(written, payload)
          /\ UNCHANGED <<pending, frames, reader>> /\ writer' = "open"
      BY <1>1, <1>4 DEF Write
    <2>2. \A i \in 1..Len(part) : part[i] = Encoded(payload)[i]
      OBVIOUS
    <2> HIDE DEF part
    <2>3. part \in Seq(Nat) /\ Len(part) = PrefixBytes + Len(payload)
      BY <1>3 DEF part
    <2> QED BY <1>1, <2>1, <2>2, <2>3, WritingKeeps
  <1>5. ASSUME NEW n \in 1..PrefixBytes + MaxFrameBytes, Tear(payload, n)
        PROVE  FramingInv'
    <2> DEFINE part == SubSeq(Encoded(payload), 1, n)
    <2>1. /\ stream' = stream \o part /\ written' = Append(written, payload)
          /\ UNCHANGED <<pending, frames, reader>> /\ writer' = "torn"
          /\ n \in 1..Len(Encoded(payload)) - 1
      BY <1>5 DEF Tear
    <2>2. /\ part \in Seq(Nat) /\ Len(part) = n + 1 - 1
          /\ \A x \in 1..n + 1 - 1 : part[x] = Encoded(payload)[1 + x - 1]
      <3>1. 1 \in 1..Len(Encoded(payload)) + 1 /\ n \in 1 - 1..Len(Encoded(payload))
        <4> DEFINE e == Len(Encoded(payload))
        <4>1. e \in Nat /\ n \in 1..e - 1
          BY <1>3, <2>1
        <4> HIDE DEF e
        <4>2. 1 \in 1..e + 1 /\ n \in 1 - 1..e
          BY <4>1
        <4> QED BY <4>2 DEF e
      <3> QED BY <1>3, <3>1, PartFacts
    <2> HIDE DEF part
    <2>3. n \in Nat /\ n + 1 - 1 = n /\ \A x \in 1..n : 1 + x - 1 = x
      BY <2>1
    <2>4. Len(part) \in 1..PrefixBytes + Len(payload) - 1
      <3>1. n \in 1..PrefixBytes + Len(payload) - 1
        <4> DEFINE e == Len(Encoded(payload))
        <4>1. n \in 1..e - 1 /\ e = PrefixBytes + Len(payload)
          BY <1>3, <2>1
        <4>2. PrefixBytes \in Nat /\ Len(payload) \in Nat
          BY <1>2, FramingAssumption
        <4> HIDE DEF e
        <4> QED BY <4>1, <4>2
      <3> QED BY <2>2, <2>3, <3>1
    <2>5. \A i \in 1..Len(part) : part[i] = Encoded(payload)[i]
      BY <2>2, <2>3
    <2> QED BY <1>1, <2>1, <2>2, <2>4, <2>5, WritingKeeps
  <1> QED BY <1>4, <1>5

LEMMA WriterEndKeeps == ASSUME FramingInv, End PROVE FramingInv'
  <1>1. writer = "open" /\ writer' = "ended" /\ UNCHANGED <<written, stream, pending, frames, reader>>
    BY DEF End
  <1>2. FramingTypeOK'
    BY <1>1 DEF FramingInv, FramingTypeOK
  <1>3. FramesAhead'
    BY <1>1 DEF FramingInv, FramesAhead
  <1>4. NoneKept' /\ EndedAtEnd'
    BY <1>1 DEF FramingInv, NoneKept, EndedAtEnd
  <1> QED BY <1>2, <1>3, <1>4 DEF FramingInv

LEMMA FinishKeeps == ASSUME FramingInv, Finish PROVE FramingInv'
  <1>1. /\ UNCHANGED <<written, stream, writer, pending, frames>> /\ writer # "open" /\ stream = <<>>
        /\ reader' = IF pending = <<>> THEN "finished" ELSE "failed"
    BY DEF Finish, Whole
  <1>2. FramingTypeOK'
    BY <1>1 DEF FramingInv, FramingTypeOK
  <1>3. FramesAhead' /\ NoneKept'
    BY <1>1 DEF FramingInv, FramesAhead, NoneKept
  <1>4. EndedAtEnd'
    BY <1>1 DEF EndedAtEnd
  <1> QED BY <1>2, <1>3, <1>4 DEF FramingInv

LEMMA PushKeeps == ASSUME FramingInv, NEW n \in 1..Len(stream), Push(n) PROVE FramingInv'
  <1> DEFINE k == Len(frames)
             N == Len(written)
             chunk == SubSeq(stream, 1, n)
             later == From(stream, n)
             bytes == pending \o chunk
             left == pending \o stream
  <1>1. /\ written \in Seq(Sendable) /\ frames \in Seq(Sendable) /\ stream \in Seq(Nat) /\ pending \in Seq(Nat)
        /\ writer \in {"open", "ended", "torn"}
    BY DEF FramingInv, FramingTypeOK
  <1>2. /\ k \in Nat /\ N \in Nat /\ Len(pending) \in Nat /\ Len(stream) \in Nat
        /\ left \in Seq(Nat) /\ Len(left) = Len(pending) + Len(stream)
    BY FrameCounts DEF FramingInv
  <1>3. /\ k <= N /\ frames = SubSeq(written, 1, k) /\ Carries(left, written, k)
        /\ writer # "torn" => Len(left) = Bytes(written, k, N)
        /\ writer = "torn" =>
              k < N /\ Bytes(written, k, N - 1) < Len(left) /\ Len(left) < Bytes(written, k, N)
    BY DEF FramingInv, FramesAhead
  <1>4. k \in 0..N /\ N \in 0..N /\ n \in Nat /\ n \in 0..Len(stream)
    BY <1>2, <1>3
  <1>5. chunk \in Seq(Nat) /\ Len(chunk) = n /\ later \in Seq(Nat) /\ chunk \o later = stream
    <2>1. /\ 1 \in 1..Len(stream) + 1 /\ n \in 1 - 1..Len(stream) /\ n + 1 - 1 = n
          /\ Len(stream) \in n..Len(stream)
      BY <1>2, <1>4
    <2>2. chunk \in Seq(Nat) /\ Len(chunk) = n + 1 - 1
      BY <1>1, <2>1, PartFacts
    <2>3. later \in Seq(Nat)
      BY <1>1, <1>4, FromFacts
    <2>4. chunk \o later = SubSeq(stream, 1, Len(stream))
      <3> DEFINE m == Len(stream)
      <3> HIDE DEF m
      <3>1. SubSeq(stream, 1, n) \o SubSeq(stream, n + 1, m) = SubSeq(stream, 1, m)
        BY <1>1, <2>1, ConcatAdjacentSubSeq DEF m
      <3> QED BY <3>1 DEF m, From
    <2>5. SubSeq(stream, 1, Len(stream)) = stream
      BY <1>1, SubSeqFull
    <2> QED BY <2>1, <2>2, <2>3, <2>4, <2>5
  <1> HIDE DEF chunk, later, k, N
  <1>6. /\ bytes \in Seq(Nat) /\ Len(bytes) = Len(pending) + n
        /\ bytes \o later = left
    <2>1. bytes \in Seq(Nat) /\ Len(bytes) = Len(pending) + Len(chunk)
      BY <1>1, <1>5, ConcatProperties
    <2>2. pending \o (chunk \o later) = (pending \o chunk) \o later
      <3> HIDE DEF bytes, left
      <3>1. pending \in Seq(Nat) /\ chunk \in Seq(Nat) /\ later \in Seq(Nat)
        BY <1>1, <1>5
      <3> QED BY <3>1, JoinedInAnyOrder
    <2> QED BY <1>5, <2>1, <2>2
  <1> HIDE DEF bytes, left
  <1>7. \A x \in 1..Len(bytes) : bytes[x] = left[x]
    <2>1. \A x \in 1..Len(bytes) + Len(later) :
             (bytes \o later)[x] = IF x <= Len(bytes) THEN bytes[x] ELSE later[x - Len(bytes)]
      BY <1>5, <1>6, Joined
    <2>2. Len(bytes) \in Nat /\ Len(later) \in Nat
      BY <1>5, <1>6
    <2>3. \A x \in 1..Len(bytes) : x \in 1..Len(bytes) + Len(later) /\ x <= Len(bytes)
      BY <2>2
    <2>4. \A x \in 1..Len(bytes) : (bytes \o later)[x] = bytes[x]
      BY <2>1, <2>3
    <2> QED BY <1>6, <2>4
  <1>8. Len(bytes) \in Nat /\ Len(left) \in Nat /\ Len(bytes) <= Len(left)
    BY <1>2, <1>4, <1>6
  <1>9. Bytes(written, k, N) \in Nat /\ Len(left) <= Bytes(written, k, N)
    <2>1. Bytes(written, k, N) \in Nat
      BY <1>1, <1>4, BytesFacts DEF N
    <2> QED BY <1>3, <1>8, <2>1
  <1>10. PICK c \in k..N :
            /\ Decoded(bytes) = State(bytes, written, k, c)
            /\ Within(bytes, written, k, c)
            /\ c < N => ~Within(bytes, written, k, c + 1)
    <2>1. k \in 0..Len(written)
      BY <1>4 DEF N
    <2>2. Carries(bytes, written, k)
      BY <1>1, <1>2, <1>3, <1>6, <1>7, <1>8, <2>1, CarriesFewer
    <2>3. Len(bytes) <= Bytes(written, k, Len(written))
      BY <1>8, <1>9 DEF N
    <2> QED BY <1>1, <1>6, <2>1, <2>2, <2>3, DecodedIs DEF N
  <1> DEFINE b == Bytes(written, k, c)
             m == Len(bytes)
  <1>11. /\ c \in Nat /\ c \in 0..N /\ k \in 0..c /\ k <= c /\ c <= N /\ b \in Nat /\ b <= m
         /\ Bytes(written, k, N) = b + Bytes(written, c, N) /\ Bytes(written, c, N) \in Nat
    <2>1. c \in Nat /\ c \in 0..N /\ k \in 0..c /\ k <= c /\ c <= N /\ N \in c..N
      BY <1>2, <1>4
    <2>2. Bytes(written, k, c) \in Nat /\ Bytes(written, k, N) = Bytes(written, k, c) + Bytes(written, c, N)
      BY <1>1, <2>1, BytesFacts DEF N
    <2>3. Bytes(written, c, N) \in Nat
      BY <1>1, <1>4, <2>1, BytesFacts DEF N
    <2> QED BY <1>10, <2>1, <2>2, <2>3 DEF Within
  <1>12. /\ frames' = frames \o SubSeq(written, k + 1, c) /\ pending' = From(bytes, b)
         /\ UNCHANGED <<reader, written, writer>> /\ stream' = later /\ reader = "reading"
    <2>1. /\ Decoded(bytes).valid /\ Decoded(bytes).found = SubSeq(written, k + 1, c)
          /\ Decoded(bytes).rest = From(bytes, b)
      <3> DEFINE d == State(bytes, written, k, c)
      <3>1. d.valid /\ d.found = SubSeq(written, k + 1, c) /\ d.rest = From(bytes, b)
        BY DEF State
      <3> HIDE DEF d, b, m
      <3>2. Decoded(bytes) = d
        BY <1>10 DEF d
      <3> QED BY <3>1, <3>2
    <2>2. Combined(SubSeq(stream, 1, n)) = bytes
      BY DEF Combined, bytes, chunk
    <2> HIDE DEF b, m
    <2> QED BY <2>1, <2>2 DEF Push, later
  <1>13. frames' = SubSeq(written, 1, c)
    <2>1. /\ 1 \in 1..Len(written) + 1 /\ k \in 1 - 1..Len(written) /\ c \in k..Len(written)
      BY <1>2, <1>4, <1>11 DEF N
    <2>2. SubSeq(written, 1, k) \o SubSeq(written, k + 1, c) = SubSeq(written, 1, c)
      BY <1>1, <2>1, ConcatAdjacentSubSeq
    <2> QED BY <1>3, <1>12, <2>2
  <1>14. frames' \in Seq(Sendable) /\ Len(frames') = c
    <2>1. 1 \in 1..Len(written) + 1 /\ c \in 1 - 1..Len(written) /\ c + 1 - 1 = c
      BY <1>11 DEF N
    <2>2. SubSeq(written, 1, c) \in Seq(Sendable) /\ Len(SubSeq(written, 1, c)) = c + 1 - 1
      BY <1>1, <2>1, PartFacts
    <2> QED BY <1>13, <2>1, <2>2
  <1>15. /\ pending' \in Seq(Nat) /\ Len(pending') = m - b
         /\ pending' \o stream' = From(left, b) /\ Len(From(left, b)) = Len(left) - b
    <2>1. b \in 0..Len(bytes) /\ b \in 0..Len(left)
      BY <1>8, <1>11
    <2> HIDE DEF b
    <2>2. From(bytes, b) \in Seq(Nat) /\ Len(From(bytes, b)) = Len(bytes) - b
      BY <1>6, <2>1, FromFacts
    <2>3. From(bytes, b) \o later = From(left, b)
      <3>1. From(bytes, b) \o later = From(bytes \o later, b)
        BY <1>5, <1>6, <2>1, FromConcat
      <3> QED BY <1>6, <3>1
    <2>4. Len(From(left, b)) = Len(left) - b
      BY <1>2, <2>1, FromFacts
    <2> QED BY <1>12, <2>2, <2>3, <2>4
  <1>16. FramingTypeOK'
    BY <1>1, <1>5, <1>12, <1>14, <1>15 DEF FramingInv, FramingTypeOK
  <1>17. Carries(From(left, b), written, c)
    <2>1. Within(left, written, k, c)
      BY <1>8, <1>11 DEF Within
    <2> QED BY <1>1, <1>2, <1>3, <1>11, <2>1, CarriesOn DEF N
  <1> HIDE DEF b, m
  <1>18. FramesAhead'
    <2>1. ASSUME writer # "torn"
          PROVE  Len(From(left, b)) = Bytes(written, c, N)
      <3>1. Len(left) = Bytes(written, k, N)
        BY <1>3, <2>1
      <3>2. Len(left) - b = Bytes(written, c, N)
        BY <1>8, <1>11, <3>1
      <3> QED BY <1>15, <3>2
    <2>2. ASSUME writer = "torn"
          PROVE  /\ c < N /\ Bytes(written, c, N - 1) < Len(From(left, b))
                 /\ Len(From(left, b)) < Bytes(written, c, N)
      <3>1. Bytes(written, k, N - 1) < Len(left) /\ Len(left) < Bytes(written, k, N)
        BY <1>3, <2>2
      <3>2. c < N
        <4>1. b < Bytes(written, k, N)
          BY <1>8, <1>9, <1>11, <3>1 DEF m
        <4>2. c # N
          BY <1>9, <4>1 DEF b
        <4> QED BY <1>2, <1>11, <4>2
      <3>3. N - 1 \in c..N /\ N - 1 \in 0..N /\ c \in 0..N - 1
        BY <1>2, <1>11, <3>2
      <3>4. /\ Bytes(written, k, N - 1) = b + Bytes(written, c, N - 1)
            /\ Bytes(written, c, N - 1) \in Nat
        <4> DEFINE p == N - 1
        <4> HIDE DEF p
        <4>1. Bytes(written, k, p) = Bytes(written, k, c) + Bytes(written, c, p)
          BY <1>1, <1>11, <3>3, BytesFacts DEF N, p
        <4>2. Bytes(written, c, p) \in Nat
          BY <1>1, <3>3, BytesFacts DEF N, p
        <4> QED BY <4>1, <4>2 DEF p, b
      <3>5. /\ Bytes(written, c, N - 1) < Len(From(left, b))
            /\ Len(From(left, b)) < Bytes(written, c, N)
        BY <1>8, <1>11, <1>15, <3>1, <3>4
      <3> QED BY <3>2, <3>5
    <2>3. /\ Len(frames') = c /\ Len(written') = N /\ written' = written /\ writer' = writer
          /\ c <= N /\ frames' = SubSeq(written', 1, c)
      BY <1>11, <1>12, <1>13, <1>14 DEF N
    <2> QED BY <1>15, <1>17, <2>1, <2>2, <2>3 DEF FramesAhead
  <1>19. NoneKept'
    <2> SUFFICES ASSUME c < N  PROVE Len(pending') < Bytes(written, c, c + 1)
      BY <1>12, <1>14 DEF NoneKept, N
    <2>1. ~(Bytes(written, k, c + 1) <= m)
      BY <1>10 DEF Within, m
    <2>2. c + 1 \in c..N /\ c + 1 \in 0..N /\ c \in 0..c + 1
      BY <1>2, <1>11
    <2>3. Bytes(written, k, c + 1) = b + Bytes(written, c, c + 1) /\ Bytes(written, c, c + 1) \in Nat
      <3> DEFINE p == c + 1
      <3> HIDE DEF p
      <3>1. Bytes(written, k, p) = Bytes(written, k, c) + Bytes(written, c, p)
        BY <1>1, <1>11, <2>2, BytesFacts DEF N, p
      <3>2. Bytes(written, c, p) \in Nat
        BY <1>1, <2>2, BytesFacts DEF N, p
      <3> QED BY <3>1, <3>2 DEF p, b
    <2>4. m \in Nat
      BY <1>8 DEF m
    <2> QED BY <1>11, <1>15, <2>1, <2>3, <2>4
  <1>20. EndedAtEnd'
    BY <1>12 DEF EndedAtEnd
  <1> QED BY <1>16, <1>18, <1>19, <1>20 DEF FramingInv

LEMMA FramingStep == ASSUME FramingInv, [FramingNext]_framingVars PROVE FramingInv'
  <1>1. CASE UNCHANGED framingVars
    BY <1>1 DEF framingVars, FramingInv, FramingTypeOK, FramesAhead, NoneKept, EndedAtEnd
  <1>2. ASSUME NEW payload \in Payloads,
               Write(payload) \/ \E part \in 1..PrefixBytes + MaxFrameBytes : Tear(payload, part)
        PROVE  FramingInv'
    BY <1>2, WriteKeeps
  <1>3. ASSUME NEW n \in 1..Len(stream), Push(n)  PROVE FramingInv'
    BY <1>3, PushKeeps
  <1>4. CASE End \/ Finish
    BY <1>4, WriterEndKeeps, FinishKeeps
  <1> QED BY <1>1, <1>2, <1>3, <1>4 DEF FramingNext

(* FramingInv is an invariant of a writer and the decoder: what the decoder  *)
(* (push and finish of ipc_length_prefix.ts) has returned, keeps and still   *)
(* has to read are together the frames that were written.                    *)
THEOREM FramingInvariant == FramingSpec => []FramingInv
  <1>1. FramingInit => FramingInv
    BY FramingInitially
  <1>2. FramingInv /\ [FramingNext]_framingVars => FramingInv'
    BY FramingStep
  <1> QED BY <1>1, <1>2, PTL DEF FramingSpec

LEMMA ExactNow == ASSUME FramingInv PROVE FramesExact
  <1> DEFINE k == Len(frames)
             N == Len(written)
             left == pending \o stream
  <1>1. /\ written \in Seq(Sendable) /\ frames \in Seq(Sendable) /\ stream \in Seq(Nat) /\ pending \in Seq(Nat)
        /\ writer \in {"open", "ended", "torn"}
    BY DEF FramingInv, FramingTypeOK
  <1>2. /\ k \in Nat /\ N \in Nat /\ Len(pending) \in Nat /\ Len(stream) \in Nat
        /\ Len(left) = Len(pending) + Len(stream)
    BY FrameCounts DEF FramingInv
  <1>3. /\ k <= N /\ frames = SubSeq(written, 1, k)
        /\ writer # "torn" => Len(left) = Bytes(written, k, N)
        /\ writer = "torn" =>
              k < N /\ Bytes(written, k, N - 1) < Len(left) /\ Len(left) < Bytes(written, k, N)
    BY DEF FramingInv, FramesAhead
  <1>4. k < N => Len(pending) < Bytes(written, k, k + 1)
    BY DEF FramingInv, NoneKept
  <1>5. k \in 0..N /\ N \in 0..N /\ k \in 0..k
    BY <1>2, <1>3
  <1> HIDE DEF k, N, left
  <1>6. Bytes(written, k, k) = 0 /\ Bytes(written, k, N) \in Nat
    <2>1. Ends(written)[k] \in Nat
      BY <1>1, <1>5, EndsGrow DEF N
    <2>2. Bytes(written, k, N) \in Nat
      BY <1>1, <1>5, BytesFacts DEF N
    <2> QED BY <2>1, <2>2 DEF Bytes
  <1>7. k < N => /\ Bytes(written, k, k + 1) \in Nat
                 /\ Bytes(written, k, k + 1) <= PrefixBytes + MaxFrameBytes
    <2> SUFFICES ASSUME k < N
                 PROVE  /\ Bytes(written, k, k + 1) \in Nat
                        /\ Bytes(written, k, k + 1) <= PrefixBytes + MaxFrameBytes
      OBVIOUS
    <2>1. k + 1 \in 1..N
      BY <1>2
    <2> DEFINE l == Len(written[k + 1])
    <2>2. l \in 1..MaxFrameBytes
      BY <1>1, <2>1, SendableFacts DEF N
    <2>3. Bytes(written, k, k + 1) = Bytes(written, k, k) + PrefixBytes + l
      BY <1>1, <1>5, BytesFacts DEF N
    <2> HIDE DEF l
    <2> QED BY <1>6, <2>2, <2>3, FramingAssumption
  (* The bytes up to a later frame are those up to the next one and more. *)
  <1>8. \A j \in k + 1..N : Bytes(written, k, j) \in Nat /\ Bytes(written, k, k + 1) <= Bytes(written, k, j)
    <2> SUFFICES ASSUME NEW j \in k + 1..N
                 PROVE  /\ Bytes(written, k, j) \in Nat
                        /\ Bytes(written, k, k + 1) <= Bytes(written, k, j)
      OBVIOUS
    <2> DEFINE c == k + 1
    <2>1. c \in 0..N /\ k \in 0..c /\ j \in c..N /\ c \in 0..j /\ j \in 0..N
      BY <1>2
    <2> HIDE DEF c
    <2>2. /\ Bytes(written, k, c) \in Nat
          /\ Bytes(written, k, j) = Bytes(written, k, c) + Bytes(written, c, j)
      BY <1>1, <2>1, BytesFacts DEF N
    <2>3. Bytes(written, c, j) \in Nat
      BY <1>1, <2>1, BytesFacts DEF N
    <2>4. Bytes(written, k, j) \in Nat /\ Bytes(written, k, c) <= Bytes(written, k, j)
      BY <2>2, <2>3
    <2> QED BY <2>4 DEF c
  <1>9. IsPrefix(frames, written)
    <2>1. SubSeq(frames, 1, Len(frames)) = frames
      BY <1>1, SubSeqFull
    <2> QED BY <1>3, <2>1 DEF IsPrefix, k, N
  <1>10. Len(pending) < PrefixBytes + MaxFrameBytes
    <2>1. CASE k < N
      BY <1>2, <1>4, <1>7, <2>1, FramingAssumption
    <2>2. CASE k = N
      <3>1. Len(left) = 0
        BY <1>3, <1>6, <2>2
      <3> QED BY <1>2, <3>1, FramingAssumption
    <2> QED BY <1>2, <1>3, <2>1, <2>2
  <1>11. stream = <<>> => Len(left) = Len(pending)
    BY <1>2
  <1>12. pending = <<>> <=> Len(pending) = 0
    BY <1>1
  <1>13. ASSUME reader = "finished"
         PROVE  writer = "ended" /\ frames = written
    <2>1. writer # "open" /\ stream = <<>> /\ pending = <<>>
      BY <1>13 DEF FramingInv, EndedAtEnd
    <2>2. Len(left) = 0
      BY <1>11, <1>12, <2>1
    <2>3. writer # "torn"
      <3> SUFFICES ASSUME writer = "torn"  PROVE FALSE
        OBVIOUS
      <3>1. k < N /\ Bytes(written, k, N - 1) < 0
        BY <1>3, <2>2
      <3>2. N - 1 \in 0..N /\ k \in 0..N - 1
        BY <1>2, <1>5, <3>1
      <3> DEFINE p == N - 1
      <3> HIDE DEF p
      <3>3. Bytes(written, k, p) \in Nat
        BY <1>1, <3>2, BytesFacts DEF N, p
      <3> QED BY <3>1, <3>3 DEF p
    <2>4. k = N
      <3> SUFFICES ASSUME k # N  PROVE FALSE
        OBVIOUS
      <3>1. k < N /\ N \in k + 1..N
        BY <1>2, <1>3
      <3>2. Len(pending) < Bytes(written, k, N)
        BY <1>2, <1>4, <1>7, <1>8, <3>1
      <3> QED BY <1>3, <1>6, <1>12, <2>1, <2>2, <2>3, <3>2
    <2>5. frames = written
      <3>1. SubSeq(written, 1, Len(written)) = written
        BY <1>1, SubSeqFull
      <3> QED BY <1>3, <2>4, <3>1 DEF N
    <2> QED BY <1>1, <2>1, <2>3, <2>5
  <1>14. ASSUME reader = "failed"
         PROVE  writer = "torn" /\ frames = Front(written)
    <2>1. writer # "open" /\ stream = <<>> /\ pending # <<>>
      BY <1>14 DEF FramingInv, EndedAtEnd
    <2>2. Len(left) = Len(pending) /\ Len(pending) > 0
      BY <1>2, <1>11, <1>12, <2>1
    <2>3. k < N
      <3> SUFFICES ASSUME k = N  PROVE FALSE
        BY <1>2, <1>3
      <3>1. Len(left) = 0
        BY <1>3, <1>6
      <3> QED BY <1>2, <2>2, <3>1
    <2>4. writer = "torn"
      <3> SUFFICES ASSUME writer # "torn"  PROVE FALSE
        OBVIOUS
      <3>1. N \in k + 1..N
        BY <1>2, <2>3
      <3> QED BY <1>2, <1>3, <1>4, <1>6, <1>7, <1>8, <2>2, <2>3, <3>1
    <2>5. k = N - 1
      <3> SUFFICES ASSUME k # N - 1  PROVE FALSE
        OBVIOUS
      <3>1. N - 1 \in k + 1..N
        BY <1>2, <2>3
      <3>2. Bytes(written, k, N - 1) < Len(left)
        BY <1>3, <2>4
      <3> QED BY <1>2, <1>4, <1>7, <1>8, <2>2, <2>3, <3>1, <3>2
    <2> QED BY <1>3, <2>4, <2>5 DEF Front, N
  <1> QED BY <1>9, <1>10, <1>13, <1>14 DEF FramesExact

(* FramesExact: however the pipe cuts the bytes, the decoder returns exactly *)
(* the payloads that were written, whole and in their order; it keeps less   *)
(* than a frame, and takes the end of the stream for a good one exactly if   *)
(* no frame is cut.  For any width of a prefix and base of its digits, and   *)
(* any largest frame that a prefix can count.                                *)
THEOREM FramesAreExact == FramingSpec => []FramesExact
  <1>1. FramingInv => FramesExact
    BY ExactNow
  <1> QED BY <1>1, FramingInvariant, PTL
=============================================================================
