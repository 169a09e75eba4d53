--------------------------- MODULE SessionEvents ---------------------------
(***************************************************************************)
(* The events of one session, from the domain service over one connection  *)
(* to the client.                                                          *)
(*   node/src/protocol/pi-node-protobuf-connection.ts                      *)
(*       (PiNodeProtobufConnection: observations, admissions, writes)      *)
(*   node/src/pi-node-domain-service.ts  (#emit, observeSession)           *)
(*   lib/api/pi_node/pi_node_client.dart (_handleSessionEvent)             *)
(*                                                                         *)
(* The connection handles one client frame after the other.  A domain      *)
(* event waits on its observation's eventTail, or, while an answer is due  *)
(* that must come first, in the pending admission of the session.  All     *)
(* frames leave in order through writeTail, and who sent one continues     *)
(* when it is written; what then runs up to the next await is one step.    *)
(* The client reads a frame when it is written.                            *)
(*                                                                         *)
(* An operator Faulty* is no part of the specification: it is the operator *)
(* below it with a plausible mistake, which a property must refute.        *)
(***************************************************************************)
EXTENDS Naturals, Sequences

CONSTANTS
    Cmds,       \* prompt commands, each sent once
    Requests,   \* kinds of client requests that occur
    MaxEvents,  \* bound: conversation events emitted
    MaxStream,  \* bound: observations made
    KeepsUp,    \* no prompt or abort arrives while events wait for the output
    Oversized,  \* answers and events may exceed the negotiated frame limit
    None

ASSUME EventsAssumption ==
    /\ MaxEvents \in Nat /\ MaxStream \in Nat \ {0}
    /\ KeepsUp \in BOOLEAN /\ Oversized \in BOOLEAN
    /\ Requests \subseteq {"get", "history", "prompt", "abort", "change", "approve",
                        "cancel", "leave"}
    /\ None \notin Cmds

VARIABLES
    session,    \* domain: is it loaded, its event counter, its active command,
                \* and (history) the event that completed each command
    conn,       \* connection: observations, pending admission, frames to write
    handler,    \* the client frame that is being handled
    client,     \* the client's sequence state and what its view contains
    wire        \* history: the last session event frame, and stream, written

vars == <<session, conn, handler, client, wire>>

-----------------------------------------------------------------------------
(* Data *)

Stream == 1..MaxStream
NoStream == 0

(* A domain event: its sequence, the command it completes, its size. *)
Event(n, c, big) == [n |-> n, cmd |-> c, big |-> big]

(* ObservedSession: lastDomainSequence, eventSequence, eventTail. *)
FaultyNewStream(n) == [domain |-> n, sent |-> 0, tail |-> <<>>, sending |-> FALSE, closed |-> FALSE]
NewStream(n) == [domain |-> n, sent |-> n, tail |-> <<>>, sending |-> FALSE, closed |-> FALSE]

(* A frame, with the continuation that awaits its write.  Event frames     *)
(* carry event_sequence and stand for domain event n; other frames carry   *)
(* the snapshot's sequence (n) and the stream their request opened or shut.*)
Frame(kind, s, seq, n, c, waiter) ==
    [kind |-> kind, stream |-> s, seq |-> seq, n |-> n, cmd |-> c, waiter |-> waiter]

NoHandler == [phase |-> "idle", kind |-> "none", cmd |-> None, verdict |-> "none",
              snapshot |-> 0, admission |-> FALSE]

Handle(kind, c) == [NoHandler EXCEPT !.phase = "calling", !.kind = kind, !.cmd = c]

-----------------------------------------------------------------------------
(* The connection, as functions of its state k.                            *)

(* sendOperation *)
Send(k, frame) == [k EXCEPT !.writes = Append(@, frame)]

(* dropObservation, and the first half of closeObservation *)
FaultyUnobserve(k, s) ==
    [k EXCEPT !.stream[s].closed = TRUE, !.observed = NoStream, !.pending = FALSE,
              !.buffer = <<>>]
Unobserve(k, s) ==
    [k EXCEPT !.stream[s].closed = TRUE, !.observed = NoStream, !.pending = FALSE,
              !.buffer = <<>>, !.listener = IF @ = s THEN NoStream ELSE @]

CloseObservation(k, s, waiter) ==
    Send(Unobserve(k, s), Frame("closed", s, k.stream[s].sent + 1, 0, None, waiter))

FaultyInOrder(k, s, e) == TRUE
InOrder(k, s, e) == e.n > k.stream[s].domain

(* forwardDomainEvent on an open stream *)
Forward(k, s, e, waiter) ==
    IF ~InOrder(k, s, e) \/ e.big THEN CloseObservation(k, s, waiter)
    ELSE Send([k EXCEPT !.stream[s].domain = e.n],
              Frame("event", s, k.stream[s].sent + 1, e.n, e.cmd, waiter))

(* eventTail goes on with its next event; on a closed stream they are void.*)
RunTail(k, s) ==
    IF k.stream[s].closed THEN [k EXCEPT !.stream[s].tail = <<>>]
    ELSE IF k.stream[s].sending \/ k.stream[s].tail = <<>> THEN k
    ELSE Forward([k EXCEPT !.stream[s].tail = Tail(@), !.stream[s].sending = TRUE],
                 s, Head(k.stream[s].tail), "tail")

(* acceptDomainEvent, called for the listener the session has *)
FaultyAccept(k, e) ==
    IF k.listener = NoStream THEN k
    ELSE RunTail([k EXCEPT !.stream[k.listener].tail = Append(@, e)], k.listener)
Accept(k, e) ==
    IF k.listener = NoStream THEN k
    ELSE IF k.pending THEN [k EXCEPT !.buffer = Append(@, e)]
    ELSE RunTail([k EXCEPT !.stream[k.listener].tail = Append(@, e)], k.listener)

(* beginAdmission *)
BeginAdmission(k) == [k EXCEPT !.pending = k.observed # NoStream, !.buffer = <<>>]

(* ensureObservation: a new stream starts at the sequence n of the snapshot*)
(* taken with the subscription.                                            *)
EnsureObservation(k, n) ==
    IF k.observed # NoStream THEN k
    ELSE LET s == k.streams + 1 IN
         [k EXCEPT !.streams = s, !.stream[s] = NewStream(n), !.observed = s,
                   !.listener = s, !.pending = TRUE, !.buffer = <<>>]

(* One round of flushAdmission: forward the oldest event, or end. *)
FaultyEndFlush(k) == k
EndFlush(k) == [k EXCEPT !.pending = FALSE]
FlushRound(k) ==
    IF k.buffer = <<>> THEN EndFlush(k)
    ELSE Forward([k EXCEPT !.buffer = Tail(@)], k.observed, Head(k.buffer), "flush")

-----------------------------------------------------------------------------
Init ==
    /\ session = [loaded |-> FALSE, seq |-> 0, active |-> None,
                  done |-> [c \in Cmds |-> 0]]
    /\ conn = [stream |-> [s \in Stream |-> NewStream(0)], streams |-> 0,
               observed |-> NoStream, listener |-> NoStream,
               pending |-> FALSE, buffer |-> <<>>, writes |-> <<>>, terminal |-> FALSE]
    /\ handler = NoHandler
    /\ client = [open |-> FALSE, listening |-> FALSE, last |-> 0, view |-> 0, gap |-> "none",
                 sent |-> {}, answered |-> {}, accepted |-> {}, completed |-> {},
                 connected |-> TRUE]
    /\ wire = [stream |-> NoStream, seq |-> 0, n |-> 0, opened |-> NoStream, shut |-> NoStream]

-----------------------------------------------------------------------------
(* The client's frames, handled one at a time.                             *)

Receives(kind) ==
    kind \in Requests /\ handler.phase = "idle" /\ client.connected /\ ~conn.terminal

(* The output kept up: behind the event being written none is waiting. *)
Current == KeepsUp => \A s \in Stream : conn.stream[s].tail = <<>>

(* Bound: at most MaxStream observations are made. *)
CanObserve == conn.observed # NoStream \/ conn.streams < MaxStream

(* The requests that observe the session: getSession and createSession,    *)
(* and getSessionHistory for the latest page.                              *)
Observing == {"get", "history"}

(* The view asks for the history, and again if there was a gap. *)
GetSession(kind) ==
    /\ Receives(kind)
    /\ CanObserve
    /\ handler' = Handle(kind, None)
    /\ client' = [client EXCEPT !.gap = IF @ = "known" THEN "reloading" ELSE @]
    /\ UNCHANGED <<session, conn, wire>>

(* The client prompts in a session it has opened and listens to. *)
Prompt(c) ==
    /\ Receives("prompt") /\ c \notin client.sent /\ client.listening /\ Current
    /\ client' = [client EXCEPT !.sent = @ \cup {c}]
    /\ conn' = BeginAdmission(conn)
    /\ handler' = [Handle("prompt", c) EXCEPT !.admission = conn.observed # NoStream]
    /\ UNCHANGED <<session, wire>>

Abort ==
    /\ Receives("abort") /\ client.listening /\ Current
    /\ conn' = BeginAdmission(conn)
    /\ handler' = [Handle("abort", None) EXCEPT !.admission = conn.observed # NoStream]
    /\ UNCHANGED <<session, client, wire>>

(* Rename, delete, navigate, ...: the observation is dropped first. *)
FaultyDropped(k) == k
Dropped(k) == IF k.observed = NoStream THEN k ELSE Unobserve(k, k.observed)

ChangeSession ==
    /\ Receives("change")
    /\ conn' = Dropped(conn)
    /\ handler' = Handle("change", None)
    /\ UNCHANGED <<session, client, wire>>

ApproveTrust ==
    /\ Receives("approve")
    /\ handler' = Handle("approve", None)
    /\ UNCHANGED <<session, conn, client, wire>>

(* Cancel(stream_id) is not answered. *)
CancelStream ==
    /\ Receives("cancel")
    /\ conn' = Dropped(conn)
    /\ UNCHANGED <<session, handler, client, wire>>

-----------------------------------------------------------------------------
(* The domain service.                                                     *)

(* #emit to the listener of the loaded session *)
Emit(c, big) ==
    /\ session' = [session EXCEPT !.seq = @ + 1, !.active = IF c = @ THEN None ELSE @,
                                  !.done = [x \in Cmds |-> IF x = c THEN session.seq + 1
                                                                   ELSE @[x]]]
    /\ conn' = Accept(conn, Event(session.seq + 1, c, big))

(* A conversation event of the running command. *)
ConversationEvent ==
    /\ session.loaded /\ session.active # None /\ ~conn.terminal
    /\ session.seq < MaxEvents
    /\ \E big \in {FALSE, Oversized} : Emit(None, big)
    /\ UNCHANGED <<handler, client, wire>>

(* #settleCommand, which has to wait for a submitPrompt that is running *)
CommandCompletes ==
    /\ session.loaded /\ session.active # None /\ ~conn.terminal
    /\ handler.phase # "admitting"
    /\ Emit(session.active, FALSE)
    /\ UNCHANGED <<handler, client, wire>>

(* loadSession answers with a snapshot, getLoadedSessionHistory with a     *)
(* page, of this moment; the events go on.                                 *)
SessionLoaded ==
    /\ handler.phase = "calling" /\ handler.kind \in Observing
    /\ session' = [session EXCEPT !.loaded = TRUE]
    /\ handler' = [handler EXCEPT !.phase = "returned", !.snapshot = session.seq]
    /\ UNCHANGED <<conn, client, wire>>

LoadFails ==
    /\ handler.phase = "calling" /\ handler.kind \in Observing /\ ~session.loaded
    /\ handler' = [handler EXCEPT !.phase = "returned", !.verdict = "rejected"]
    /\ UNCHANGED <<session, conn, client, wire>>

(* submitPrompt: the command is active before its admission is known. *)
CommandStarts ==
    /\ handler.phase = "calling" /\ handler.kind = "prompt"
    /\ session.loaded /\ session.active = None
    /\ session' = [session EXCEPT !.active = handler.cmd]
    /\ handler' = [handler EXCEPT !.phase = "admitting"]
    /\ UNCHANGED <<conn, client, wire>>

CommandAdmitted ==
    /\ handler.phase = "admitting"
    /\ \E verdict \in {"accepted", "uncertain"} :
          handler' = [handler EXCEPT !.phase = "returned", !.verdict = verdict]
    /\ UNCHANGED <<session, conn, client, wire>>

(* #rejectCommand, at once or after the start; a session that is not loaded*)
(* has nobody to emit to.                                                  *)
CommandRejected ==
    /\ handler.kind = "prompt" /\ handler.phase \in {"calling", "admitting"}
    /\ IF session.loaded THEN Emit(handler.cmd, FALSE) ELSE UNCHANGED <<session, conn>>
    /\ handler' = [handler EXCEPT !.phase = "returned", !.verdict = "rejected"]
    /\ UNCHANGED <<client, wire>>

AbortReturns ==
    /\ handler.phase = "calling" /\ handler.kind = "abort"
    /\ handler' = [handler EXCEPT !.phase = "returned"]
    /\ UNCHANGED <<session, conn, client, wire>>

(* Administration and trust approval close the session; a navigation needs *)
(* it idle and clears its listeners; each may fail and do nothing.         *)
SessionChanges ==
    /\ handler.phase = "calling" /\ handler.kind \in {"change", "approve"}
    /\ \/ /\ session' = [session EXCEPT !.loaded = FALSE, !.active = None]
          /\ conn' = [conn EXCEPT !.listener = NoStream]
       \/ /\ handler.kind = "change" /\ session.loaded /\ session.active = None
          /\ conn' = [conn EXCEPT !.listener = NoStream]
          /\ UNCHANGED session
       \/ UNCHANGED <<session, conn>>
    /\ handler' = [handler EXCEPT !.phase = "returned"]
    /\ UNCHANGED <<client, wire>>

-----------------------------------------------------------------------------
(* The handler answers and flushes the admission.                          *)

(* The sequence of what the answer shows, which leaves the connection k.   *)
(* A new observation answers getSession with the snapshot taken with it,   *)
(* an existing one with the one that loadSession returned; the history is  *)
(* answered with the page read before.                                     *)
FaultyAnswered(k) == handler.snapshot
Answered(k) ==
    IF k = conn \/ handler.kind = "history" THEN handler.snapshot ELSE session.seq

(* The frame that answers. *)
Answer ==
    /\ handler.phase = "returned" /\ ~conn.terminal
    /\ LET opens == handler.kind \in Observing /\ handler.verdict = "none"
           k == IF opens THEN EnsureObservation(conn, session.seq) ELSE conn
           kinds == IF ~opens
                    THEN {IF handler.verdict = "none" THEN handler.kind ELSE handler.verdict}
                    ELSE {handler.kind} \cup IF Oversized THEN {"rejected"} ELSE {} IN
       /\ opens => CanObserve
       /\ handler' = [handler EXCEPT !.phase = "answering", !.admission = @ \/ k # conn]
       /\ \E kind \in kinds :
             conn' = Send(k, Frame(kind, k.streams, 0, Answered(k), handler.cmd, "handler"))
    /\ UNCHANGED <<session, client, wire>>

(* The output has failed before: so does the answer, and failProtocol. *)
AnswerFails ==
    /\ handler.phase = "returned" /\ conn.terminal
    /\ handler' = NoHandler
    /\ UNCHANGED <<session, conn, client, wire>>

(* The next round of the flush, or the end of the handler; k is conn with  *)
(* the frame that was awaited written.                                     *)
Continue(k) ==
    LET next == IF handler.admission /\ k.pending THEN FlushRound(k) ELSE k IN
    /\ conn' = next
    /\ handler' = IF Len(next.writes) > Len(k.writes)
                  THEN [handler EXCEPT !.phase = "flushing"] ELSE NoHandler

(* sendSessionEvent: the sequence moves on when the frame is written. *)
FaultyWritten(f) == [conn EXCEPT !.writes = Tail(@)]
Written(f) ==
    [conn EXCEPT !.writes = Tail(@),
                 !.stream = IF f.kind = "event" THEN [@ EXCEPT ![f.stream].sent = f.seq] ELSE @]

(* A frame that answers the request that opened its stream. *)
Opens(f) == f.kind \in Observing \cup {"rejected"} /\ f.cmd = None

(* What the client does with a frame.  It knows the sequence of the last   *)
(* snapshot or event, skips what is not newer and reports a gap, for which *)
(* the session has to be loaded again.  The outcome of a change makes it   *)
(* forget the session's event state.  Its codec does not know streamClosed:*)
(* the connection ends.                                                    *)
Fresh(f) == client.listening /\ f.seq > client.last
Read(f) ==
    client' =
    CASE f.kind \in Observing ->
            [client EXCEPT !.open = TRUE, !.last = f.n, !.view = f.n,
                           !.gap = IF @ = "reloading" THEN "none" ELSE @]
      [] f.kind = "event" /\ Fresh(f) /\ f.seq = client.last + 1 ->
            [client EXCEPT !.last = f.seq, !.view = f.n,
                           !.completed = @ \cup ({f.cmd} \ {None})]
      [] f.kind = "event" /\ Fresh(f) /\ f.seq # client.last + 1 ->
            [client EXCEPT !.last = f.seq, !.gap = "known"]
      [] f.kind = "closed" -> [client EXCEPT !.connected = FALSE]
      [] f.kind \in {"accepted", "uncertain", "rejected"} ->
            [client EXCEPT !.answered = @ \cup ({f.cmd} \ {None}),
                           !.gap = IF Opens(f) /\ @ = "reloading" THEN "known" ELSE @,
                           !.accepted = IF f.kind = "accepted" THEN @ \cup {f.cmd} ELSE @]
      [] f.kind = "change" -> [client EXCEPT !.open = FALSE, !.listening = FALSE, !.last = 0,
                                                !.accepted = {}]
      [] OTHER -> client

Write ==
    /\ conn.writes # <<>>
    /\ LET f == Head(conn.writes)
           k == Written(f) IN
       /\ CASE f.waiter = "tail" ->
                  /\ conn' = RunTail([k EXCEPT !.stream[f.stream].sending = FALSE], f.stream)
                  /\ UNCHANGED handler
            [] f.waiter \in {"handler", "flush"} -> Continue(k)
       /\ IF client.connected THEN Read(f) ELSE UNCHANGED client
       /\ wire' = CASE f.kind = "event" ->
                          [wire EXCEPT !.stream = f.stream, !.seq = f.seq, !.n = f.n]
                    [] Opens(f) -> [wire EXCEPT !.opened = f.stream]
                    [] f.kind = "change" -> [wire EXCEPT !.shut = f.stream]
                    [] OTHER -> wire
    /\ UNCHANGED session

(* The client starts to listen to the events of a session it has opened. *)
Listen ==
    /\ client.connected /\ client.open /\ ~client.listening
    /\ client' = [client EXCEPT !.listening = TRUE]
    /\ UNCHANGED <<session, conn, handler, wire>>

(* The input ends, after the frame that was being handled: dispose. *)
InputEnds ==
    /\ ~conn.terminal /\ handler.phase = "idle"
    /\ "leave" \in Requests \/ ~client.connected
    /\ conn' = [Dropped(conn) EXCEPT !.terminal = TRUE]
    /\ client' = [client EXCEPT !.connected = FALSE]
    /\ UNCHANGED <<session, handler, wire>>

(* The output fails, for all frames that wait.  A handler that awaits one  *)
(* fails the protocol, the tail closes the observation, and no event is    *)
(* accepted any more.                                                      *)
OutputFails ==
    /\ ~conn.terminal /\ conn.writes # <<>>
    /\ "leave" \in Requests \/ ~client.connected
    /\ conn' = [Dropped(conn) EXCEPT !.terminal = TRUE, !.writes = <<>>]
    /\ handler' = IF handler.phase \in {"answering", "flushing"} THEN NoHandler ELSE handler
    /\ client' = [client EXCEPT !.connected = FALSE]
    /\ UNCHANGED <<session, wire>>

-----------------------------------------------------------------------------
Domain ==
    \/ SessionLoaded \/ LoadFails \/ CommandStarts \/ CommandAdmitted \/ CommandRejected
    \/ AbortReturns \/ SessionChanges

Next ==
    \/ (\E kind \in Observing : GetSession(kind)) \/ (\E c \in Cmds : Prompt(c)) \/ Abort
    \/ ChangeSession \/ ApproveTrust \/ CancelStream
    \/ ConversationEvent \/ CommandCompletes \/ Domain
    \/ Answer \/ AnswerFails \/ Write \/ Listen \/ InputEnds \/ OutputFails

Spec == Init /\ [][Next]_vars

(* A view that knows of a gap loads the history again (workspace.vm.dart). *)
Reload == client.gap = "known" /\ GetSession("history")

(* Calls of the domain return, a run that started ends, the output is      *)
(* drained, and a reload gets its turn among the client's requests, which  *)
(* are handled first come, first served.                                   *)
Fairness ==
    /\ WF_vars(Domain) /\ WF_vars(CommandCompletes)
    /\ WF_vars(Answer) /\ WF_vars(Write) /\ SF_vars(Reload)

FairSpec == Spec /\ Fairness

-----------------------------------------------------------------------------
(* Properties *)

Command == Cmds \cup {None}
AnswerKind ==
    {"get", "history", "rejected", "accepted", "uncertain", "abort", "change", "approve"}
FrameType ==
    [kind : AnswerKind \cup {"event", "closed"}, stream : Stream \cup {NoStream}, seq : Nat,
     n : Nat, cmd : Command, waiter : {"handler", "tail", "flush"}]
EventType == [n : Nat \ {0}, cmd : Command, big : BOOLEAN]

Queued == DOMAIN conn.writes

(* The completion of a command is never written before the answer that     *)
(* says whether it was admitted, however fast the run ended: handlePrompt  *)
(* holds the session's events back from beginAdmission to flushAdmission.  *)
AnswerBeforeCompletion ==
    \A j \in Queued :
        LET c == conn.writes[j].cmd IN
        conn.writes[j].kind = "event" /\ c # None /\ client.connected =>
            \/ c \in client.answered
            \/ \E i \in 1..(j - 1) : conn.writes[i].kind # "event" /\ conn.writes[i].cmd = c

(* A stream goes on from what the client was answered with: no event of it *)
(* is written before that answer.  handleGetSession answers with what      *)
(* observeSession returned, from where the stream starts; what loadSession *)
(* returned may be older by then.  So may the page that getSessionHistory  *)
(* answers be, and events between the two reach the client with neither.   *)
(* But it is never newer, or the client would take events of the stream    *)
(* for old ones: it skips none, and sees from the next one what is missing.*)
Meets(f, domain) ==
    /\ f.kind \in Observing => f.n <= domain
    /\ f.kind = "get" => f.n = domain

SnapshotMeetsStream ==
    \A j \in Queued :
        LET f == conn.writes[j]
            Earlier(s) == \E i \in 1..(j - 1) : Opens(conn.writes[i]) /\ conn.writes[i].stream >= s
        IN
        /\ f.kind = "event" => f.stream <= wire.opened \/ Earlier(f.stream)
        /\ f.kind \in Observing /\ f.stream > wire.opened /\ ~Earlier(f.stream)
               => Meets(f, conn.stream[f.stream].domain)

Later(s, n, f) == f.stream > s \/ (f.stream = s /\ f.n > n)

(* Events are written in the order in which the domain emitted them and    *)
(* none is written twice, though the tail and the flush of an admission    *)
(* write concurrently: forwardDomainEvent closes a stream rather than      *)
(* forward an older event.                                                 *)
WireInOrder ==
    \A j \in Queued :
        conn.writes[j].kind = "event" =>
            /\ Later(wire.stream, wire.n, conn.writes[j])
            /\ \A i \in 1..(j - 1) :
                  conn.writes[i].kind = "event" =>
                      Later(conn.writes[i].stream, conn.writes[i].n, conn.writes[j])

(***************************************************************************)
(* What is written of a stream is in an order the client can take: after   *)
(* the answer that admitted it, and event by event.  handlePrompt,         *)
(* forwardDomainEvent                                                      *)
(***************************************************************************)
FramesInOrder == AnswerBeforeCompletion /\ WireInOrder

(* After the outcome of an administration or a tree mutation, which makes  *)
(* the client forget the session's sequence, no event of a stream from     *)
(* before is written: the handlers drop the observation before the call.   *)
OldStreamSilent ==
    \A j \in Queued :
        conn.writes[j].kind = "event" =>
            /\ conn.writes[j].stream > wire.shut
            /\ \A i \in 1..(j - 1) :
                  conn.writes[i].kind = "change" =>
                      conn.writes[j].stream > conn.writes[i].stream

(***************************************************************************)
(* The events a client reads are of the stream that continues the snapshot *)
(* or page it was given, exactly from there on after getSession, none      *)
(* before the answer, and of no stream it was told to leave.               *)
(* handleGetSession, handleGetSessionHistory, the handlers of              *)
(* administration and tree mutations                                       *)
(***************************************************************************)
StreamsExact == SnapshotMeetsStream /\ OldStreamSilent

(* The domain holds no listener of a stream the connection has forgotten,  *)
(* nor of a connection that ended: every way to end an observation         *)
(* unsubscribes it.                                                        *)
ListenerIsObserved ==
    conn.listener # NoStream =>
        /\ conn.listener = conn.observed
        /\ ~conn.stream[conn.listener].closed
        /\ ~conn.terminal

(* Within a stream, event_sequence grows from frame to frame.              *)
StrictlyIncreasing ==
    \A j \in Queued :
        conn.writes[j].kind = "event" =>
            /\ conn.writes[j].stream = wire.stream => conn.writes[j].seq > wire.seq
            /\ \A i \in 1..(j - 1) :
                  conn.writes[i].kind = "event" /\ conn.writes[i].stream = conn.writes[j].stream
                  => conn.writes[j].seq > conn.writes[i].seq

(* The client's conversation advances by the next domain event, by a       *)
(* snapshot or page, or the client knows that it is incomplete: no event   *)
(* is lost behind a sequence that looks contiguous, or repeats itself.     *)
(* What a page and its stream have both missed shows with the next event   *)
(* (_handleSessionEvent).                                                  *)
NoSilentLoss ==
    [][/\ StrictlyIncreasing'
       /\ client'.view # client.view =>
             \/ client'.view = client.view + 1
             \/ client.gap # "none"
             \/ Head(conn.writes).kind \in Observing]_vars

(* The client learns that c completed: by the event or a newer snapshot.   *)
Informed(c) ==
    \/ c \in client.completed
    \/ session.done[c] # 0 /\ client.view >= session.done[c]
    \/ ~client.connected

(* Every command that was accepted is followed by its completion on the    *)
(* session's event stream, unless a change of the session ends it.         *)
CompletionArrives ==
    \A c \in Cmds : c \in client.accepted ~> Informed(c) \/ c \notin client.accepted
=============================================================================
