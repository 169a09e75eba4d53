------------------------ MODULE SessionEventsProofs ------------------------
(***************************************************************************)
(* Proofs about SessionEvents, for any set of commands and any number of   *)
(* events and observations.                                                *)
(*                                                                         *)
(* The connection works on its state by operators (Forward, RunTail,       *)
(* Accept, FlushRound, Dropped, ...), several in one step.  The invariant  *)
(* is therefore stated of a connection k, a handler h, a client cl, a wire *)
(* w and the session's active command c, not of the variables: a lemma     *)
(* says of each operator that what it makes of k keeps the invariant, and  *)
(* an action is a chain of them.  Its parts are, beside the types,         *)
(*   Observations  which stream is observed, and by whom;                  *)
(*   Awaited       who waits for which frame, and what a handler has left  *)
(*                 behind while it asks the domain;                        *)
(*   Answers       an event of a command waits behind the answer to it, in *)
(*                 the tail, the pending admission or the queue;           *)
(*   Order         the queue goes on from what was written;                *)
(*   Opened        the snapshot that opens a stream meets its first event; *)
(*   Silent        a stream that was observed before a change is over.     *)
(* TLC finds no state of the instance of run `events` that violates it.    *)
(***************************************************************************)
EXTENDS SessionEvents, TLAPS

USE DEF Observing

(* Types *)

StreamRecord ==
    [domain : Nat, sent : Nat, tail : Seq(EventType), sending : BOOLEAN, closed : BOOLEAN]

Conn ==
    [stream : [Stream -> StreamRecord], streams : Nat, observed : Stream \cup {NoStream},
     listener : Stream \cup {NoStream}, pending : BOOLEAN, buffer : Seq(EventType),
     writes : Seq(FrameType), terminal : BOOLEAN]

Handler ==
    [phase : {"idle", "calling", "admitting", "returned", "answering", "flushing"},
     kind : {"none", "get", "history", "prompt", "abort", "change", "approve"}, cmd : Command,
     verdict : {"none", "accepted", "uncertain", "rejected"}, snapshot : Nat,
     admission : BOOLEAN]

Client ==
    [open : BOOLEAN, listening : BOOLEAN, last : Nat, view : Nat,
     gap : {"none", "known", "reloading"}, sent : SUBSET Cmds, answered : SUBSET Command,
     accepted : SUBSET Command, completed : SUBSET Command, connected : BOOLEAN]

Session == [loaded : BOOLEAN, seq : Nat, active : Command, done : [Cmds -> Nat]]

Wire == [stream : Nat, seq : Nat, n : Nat, opened : Nat, shut : Nat]

EventsTypeOK ==
    /\ session \in Session /\ conn \in Conn /\ handler \in Handler
    /\ client \in Client /\ wire \in Wire

-----------------------------------------------------------------------------
(* The invariant *)

(* The handler has not sent its answer yet. *)
Asking == {"calling", "admitting", "returned"}

(* Only the newest stream is observed, only the observed one is open and   *)
(* only it has a listener; an admission is pending for it alone.           *)
Observations(k) ==
    /\ k.streams <= MaxStream
    /\ k.observed \in {NoStream, k.streams}
    /\ k.listener \in {NoStream, k.observed}
    /\ \A s \in Stream : s <= k.streams => (k.stream[s].closed <=> s # k.observed)
    /\ k.pending => k.observed # NoStream
    /\ k.terminal => k.observed = NoStream

(* A handler awaits one frame, and only while it answers or flushes; all   *)
(* other frames are of a tail.  While a prompt asks the domain, the events *)
(* of the observed stream are held back; while a change does, there is no  *)
(* stream to send them.                                                    *)
Awaited(k, h) ==
    /\ \A j \in DOMAIN k.writes :
          LET f == k.writes[j] IN
          /\ f.kind \in {"event", "closed"} <=> f.waiter # "handler"
          /\ f.waiter # "handler" => f.stream \in 1..k.streams
          /\ f.kind # "event" /\ f.cmd # None => f.kind \in {"accepted", "uncertain", "rejected"}
          /\ f.waiter # "tail" =>
                /\ h.phase \in {"answering", "flushing"}
                /\ \A i \in DOMAIN k.writes : i # j => k.writes[i].waiter = "tail"
    /\ h.phase \in Asking /\ h.kind = "prompt" /\ k.observed # NoStream => k.pending
    /\ h.phase \in Asking /\ h.kind = "change" => k.observed = NoStream
    /\ h.phase \in {"calling", "admitting"} /\ h.kind = "prompt" => h.cmd # None
    /\ h.phase = "returned" =>
          IF h.kind = "prompt" THEN h.verdict # "none" /\ h.cmd # None
          ELSE h.cmd = None /\ h.verdict \in {"none", "rejected"}

(* The answer to c has been written or waits. *)
Told(c, k, cl) ==
    \/ ~cl.connected
    \/ c \in cl.answered
    \/ \E i \in DOMAIN k.writes : k.writes[i].kind # "event" /\ k.writes[i].cmd = c

(* The answer to c will come before the admission is flushed. *)
Pends(c, h) == h.kind = "prompt" /\ h.cmd = c /\ h.phase \in Asking
Due(c, k, h, cl) == Told(c, k, cl) \/ Pends(c, h)

(* Whatever waits of a command waits behind the answer to it.  An event in *)
(* the queue has the answer before it, one in a tail was told; one that is *)
(* held back, and the active command that will emit one, may yet be due.   *)
Answers(k, h, cl, c) ==
    /\ \A j \in DOMAIN k.writes :
          k.writes[j].kind = "event" /\ k.writes[j].cmd # None /\ cl.connected =>
              \/ k.writes[j].cmd \in cl.answered
              \/ \E i \in 1..(j - 1) : k.writes[i].kind # "event" /\ k.writes[i].cmd = k.writes[j].cmd
    /\ \A s \in Stream : \A i \in DOMAIN k.stream[s].tail :
          k.stream[s].tail[i].cmd # None => Told(k.stream[s].tail[i].cmd, k, cl)
    /\ \A i \in DOMAIN k.buffer : k.buffer[i].cmd # None => Due(k.buffer[i].cmd, k, h, cl)
    /\ c # None => Due(c, k, h, cl)
    /\ k.terminal => ~cl.connected

(* Events leave in the order of their streams and of the domain. *)
Order(k, w) ==
    /\ w.stream <= k.streams
    /\ w.stream # NoStream => w.n <= k.stream[w.stream].domain
    /\ \A j \in DOMAIN k.writes :
          k.writes[j].kind = "event" =>
              /\ k.writes[j].n <= k.stream[k.writes[j].stream].domain
              /\ Later(w.stream, w.n, k.writes[j])
              /\ \A i \in 1..(j - 1) : k.writes[i].kind = "event" =>
                    Later(k.writes[i].stream, k.writes[i].n, k.writes[j])

(* Until the answer that opens the newest stream is written, the stream    *)
(* forwards nothing: its tail is empty and its events are held back, so    *)
(* the snapshot in that answer is where it goes on, a page not behind it.  *)
Opened(k, w) ==
    /\ w.opened <= k.streams
    /\ k.terminal \/ k.streams <= w.opened \/ \E j \in DOMAIN k.writes : Opens(k.writes[j])
    /\ \A j \in DOMAIN k.writes :
          /\ Opens(k.writes[j]) =>
                /\ k.writes[j].stream = k.streams
                /\ k.streams > w.opened => Meets(k.writes[j], k.stream[k.streams].domain)
                /\ k.streams > w.opened =>
                      /\ k.stream[k.streams].tail = <<>>
                      /\ k.observed = k.streams => k.pending
          /\ k.writes[j].kind = "event" =>
                k.writes[j].stream <= w.opened \/ \E i \in 1..(j - 1) : Opens(k.writes[i])

(* The outcome of a change closes every stream up to the newest one. *)
Silent(k, w) ==
    /\ w.shut <= k.streams
    /\ k.observed # NoStream => k.observed > w.shut
    /\ \A j \in DOMAIN k.writes :
          /\ k.writes[j].kind = "change" =>
                /\ k.writes[j].stream <= k.streams
                /\ k.observed # NoStream => k.observed > k.writes[j].stream
          /\ k.writes[j].kind = "event" =>
                /\ k.writes[j].stream > w.shut
                /\ \A i \in 1..(j - 1) :
                      k.writes[i].kind = "change" => k.writes[j].stream > k.writes[i].stream

(* What the handler asks the domain for. *)
Asks(h) ==
    /\ h.phase # "idle" => h.kind # "none"
    /\ h.phase = "calling" =>
          IF h.kind = "prompt" THEN h.cmd # None ELSE h.cmd = None /\ h.verdict = "none"
    /\ h.phase = "admitting" => h.kind = "prompt"

(* What the handler was answered is not newer than the session. *)
Seen == handler.snapshot <= session.seq

EventsInv ==
    /\ EventsTypeOK /\ Asks(handler)
    /\ Observations(conn) /\ Awaited(conn, handler)
    /\ Answers(conn, handler, client, session.active)
    /\ Order(conn, wire) /\ Opened(conn, wire) /\ Silent(conn, wire)

(***************************************************************************)
(* Queues and records                                                      *)
(***************************************************************************)

LEMMA QueueAppended ==
    ASSUME NEW S, NEW q \in Seq(S), NEW x \in S
    PROVE  /\ Append(q, x) \in Seq(S) /\ Len(Append(q, x)) = Len(q) + 1
           /\ DOMAIN Append(q, x) = 1..(Len(q) + 1) /\ DOMAIN q = 1..Len(q)
           /\ Append(q, x)[Len(q) + 1] = x
           /\ \A i \in DOMAIN q : Append(q, x)[i] = q[i]
  OBVIOUS

LEMMA QueueTaken ==
    ASSUME NEW S, NEW q \in Seq(S), q # <<>>
    PROVE  /\ Head(q) \in S /\ Head(q) = q[1] /\ 1 \in DOMAIN q
           /\ Tail(q) \in Seq(S) /\ DOMAIN Tail(q) = 1..(Len(q) - 1)
           /\ DOMAIN q = 1..Len(q) /\ Len(q) \in Nat
           /\ \A i \in DOMAIN Tail(q) : i + 1 \in DOMAIN q /\ Tail(q)[i] = q[i + 1]
  OBVIOUS

LEMMA ConnFields ==
    ASSUME NEW k \in Conn
    PROVE  /\ \A x \in [Stream -> StreamRecord] : [k EXCEPT !.stream = x] \in Conn
           /\ \A x \in Nat : [k EXCEPT !.streams = x] \in Conn
           /\ \A x \in Stream \cup {NoStream} : [k EXCEPT !.observed = x] \in Conn
           /\ \A x \in Stream \cup {NoStream} : [k EXCEPT !.listener = x] \in Conn
           /\ \A x \in BOOLEAN : [k EXCEPT !.pending = x] \in Conn
           /\ \A x \in Seq(EventType) : [k EXCEPT !.buffer = x] \in Conn
           /\ \A x \in Seq(FrameType) : [k EXCEPT !.writes = x] \in Conn
           /\ \A x \in BOOLEAN : [k EXCEPT !.terminal = x] \in Conn
  BY DEF Conn

LEMMA StreamFields ==
    ASSUME NEW f \in [Stream -> StreamRecord], NEW s \in Stream
    PROVE  /\ \A x \in Nat : [f EXCEPT ![s].domain = x] \in [Stream -> StreamRecord]
           /\ \A x \in Nat : [f EXCEPT ![s].sent = x] \in [Stream -> StreamRecord]
           /\ \A x \in Seq(EventType) : [f EXCEPT ![s].tail = x] \in [Stream -> StreamRecord]
           /\ \A x \in BOOLEAN : [f EXCEPT ![s].sending = x] \in [Stream -> StreamRecord]
           /\ \A x \in BOOLEAN : [f EXCEPT ![s].closed = x] \in [Stream -> StreamRecord]
           /\ \A x \in StreamRecord : [f EXCEPT ![s] = x] \in [Stream -> StreamRecord]
  BY DEF StreamRecord

(***************************************************************************)
(* What the operators make of a connection k                               *)
(***************************************************************************)

(* What an operation leaves as it is. *)
SameStreams(k, n) ==
    /\ n.streams = k.streams
    /\ \A s \in Stream : n.stream[s].domain = k.stream[s].domain
SameTails(k, n) == \A s \in Stream : n.stream[s].tail = k.stream[s].tail
SameClosed(k, n) == \A s \in Stream : n.stream[s].closed = k.stream[s].closed
SameObservation(k, n) ==
    n.observed = k.observed /\ n.listener = k.listener /\ n.terminal = k.terminal

Unobserved(k, n) ==
    /\ SameStreams(k, n) /\ SameTails(k, n)
    /\ \A s \in Stream : n.stream[s].closed <=> k.stream[s].closed \/ s = k.observed
    /\ n.observed = NoStream /\ n.listener = NoStream /\ ~n.pending /\ n.buffer = <<>>
    /\ n.writes = k.writes /\ n.terminal = k.terminal

LEMMA UnobserveEffect ==
    ASSUME NEW k \in Conn, k.observed # NoStream, k.listener \in {NoStream, k.observed}
    PROVE  Unobserve(k, k.observed) \in Conn /\ Unobserved(k, Unobserve(k, k.observed))
  <1>8. Unobserved(k, Unobserve(k, k.observed))
    BY DEF Unobserve, Unobserved, SameStreams, SameTails, Conn, StreamRecord
  <1>0. k.observed \in Stream /\ k.stream \in [Stream -> StreamRecord]
    BY DEF Conn
  <1>1. PICK st \in [Stream -> StreamRecord] : st = [k.stream EXCEPT ![k.observed].closed = TRUE]
    BY <1>0, StreamFields
  <1>2. PICK k1 \in Conn : k1 = [k EXCEPT !.stream = st]
    BY ConnFields
  <1>3. PICK k2 \in Conn : k2 = [k1 EXCEPT !.observed = NoStream]
    BY ConnFields
  <1>4. PICK k3 \in Conn : k3 = [k2 EXCEPT !.pending = FALSE]
    BY ConnFields
  <1>5. PICK k4 \in Conn : k4 = [k3 EXCEPT !.buffer = <<>>]
    <2>1. <<>> \in Seq(EventType)
      OBVIOUS
    <2>2. QED
      BY <2>1, ConnFields
  <1>6. PICK n \in Conn : n = [k4 EXCEPT !.listener = NoStream]
    BY ConnFields
  <1>7. Unobserve(k, k.observed) = n
    BY <1>1, <1>2, <1>3, <1>4, <1>5, <1>6 DEF Unobserve, Conn
  <1>9. QED
    BY <1>6, <1>7, <1>8

(* A frame more *)
Sends(k, n, f) ==
    /\ SameStreams(k, n) /\ SameTails(k, n) /\ SameClosed(k, n) /\ SameObservation(k, n)
    /\ n.pending = k.pending /\ n.buffer = k.buffer
    /\ n.writes = Append(k.writes, f)

LEMMA SendEffect ==
    ASSUME NEW k \in Conn, NEW f \in FrameType
    PROVE  Send(k, f) \in Conn /\ Sends(k, Send(k, f), f)
  <1>1. Append(k.writes, f) \in Seq(FrameType)
    BY DEF Conn
  <1>2. Send(k, f) \in Conn
    BY <1>1, ConnFields DEF Send
  <1>3. Sends(k, Send(k, f), f)
    BY DEF Send, Sends, SameStreams, SameTails, SameClosed, SameObservation, Conn
  <1>4. QED
    BY <1>2, <1>3

(* A stream with another tail, of which an event may be on its way. *)
Retailed(k, n, s, t) ==
    /\ SameStreams(k, n) /\ SameClosed(k, n) /\ SameObservation(k, n)
    /\ n.pending = k.pending /\ n.buffer = k.buffer /\ n.writes = k.writes
    /\ n.stream[s].tail = t
    /\ \A r \in Stream \ {s} : n.stream[r].tail = k.stream[r].tail

LEMMA RetailEffect ==
    ASSUME NEW k \in Conn, NEW s \in Stream, NEW t \in Seq(EventType), NEW b \in BOOLEAN
    PROVE  /\ [k EXCEPT !.stream[s].tail = t] \in Conn
           /\ Retailed(k, [k EXCEPT !.stream[s].tail = t], s, t)
           /\ [k EXCEPT !.stream[s].tail = t, !.stream[s].sending = b] \in Conn
           /\ Retailed(k, [k EXCEPT !.stream[s].tail = t, !.stream[s].sending = b], s, t)
  <1>1. k.stream \in [Stream -> StreamRecord]
    BY DEF Conn
  <1>2. PICK st \in [Stream -> StreamRecord] : st = [k.stream EXCEPT ![s].tail = t]
    BY <1>1, StreamFields
  <1>3. PICK n \in Conn : n = [k EXCEPT !.stream = st]
    BY ConnFields
  <1>4. [k EXCEPT !.stream[s].tail = t] = n
    BY <1>2, <1>3 DEF Conn
  <1>5. PICK su \in [Stream -> StreamRecord] : su = [st EXCEPT ![s].sending = b]
    BY StreamFields
  <1>6. PICK m \in Conn : m = [n EXCEPT !.stream = su]
    BY ConnFields
  <1>7. [k EXCEPT !.stream[s].tail = t, !.stream[s].sending = b] = m
    BY <1>2, <1>3, <1>5, <1>6 DEF Conn
  <1>8. Retailed(k, n, s, t)
    <2>1. /\ st[s].tail = t /\ st[s].closed = k.stream[s].closed
          /\ st[s].domain = k.stream[s].domain /\ st[s].sent = k.stream[s].sent
      BY <1>1, <1>2 DEF StreamRecord
    <2>2. \A r \in Stream \ {s} : st[r] = k.stream[r]
      BY <1>1, <1>2
    <2>3. /\ n.stream = st /\ n.observed = k.observed /\ n.listener = k.listener
          /\ n.streams = k.streams /\ n.terminal = k.terminal
          /\ n.pending = k.pending /\ n.buffer = k.buffer /\ n.writes = k.writes
      BY <1>3 DEF Conn
    <2>4. QED
      BY <2>1, <2>2, <2>3 DEF Retailed, SameStreams, SameClosed, SameObservation
  <1>9. Retailed(k, m, s, t)
    BY <1>1, <1>2, <1>3, <1>5, <1>6
    DEF Retailed, SameStreams, SameClosed, SameObservation, Conn, StreamRecord
  <1>10. QED
    BY <1>3, <1>4, <1>6, <1>7, <1>8, <1>9, Zenon

(* Other events are held back. *)
Buffers(k, n, b) ==
    /\ SameStreams(k, n) /\ SameTails(k, n) /\ SameClosed(k, n) /\ SameObservation(k, n)
    /\ n.pending = k.pending /\ n.buffer = b /\ n.writes = k.writes

LEMMA BufferEffect ==
    ASSUME NEW k \in Conn, NEW b \in Seq(EventType)
    PROVE  /\ [k EXCEPT !.buffer = b] \in Conn
           /\ Buffers(k, [k EXCEPT !.buffer = b], b)
  <1>1. [k EXCEPT !.buffer = b] \in Conn
    BY ConnFields
  <1>2. Buffers(k, [k EXCEPT !.buffer = b], b)
    BY DEF Buffers, SameStreams, SameTails, SameClosed, SameObservation, Conn
  <1>3. QED
    BY <1>1, <1>2

(* The observed stream forwards an event. *)
Forwards(k, n, f) ==
    /\ n.streams = k.streams
    /\ \A s \in Stream :
          n.stream[s].domain = IF s = k.observed THEN f.n ELSE k.stream[s].domain
    /\ SameTails(k, n) /\ SameClosed(k, n) /\ SameObservation(k, n)
    /\ n.pending = k.pending /\ n.buffer = k.buffer
    /\ n.writes = Append(k.writes, f)

LEMMA ForwardEffect ==
    ASSUME NEW k \in Conn, k.observed # NoStream, NEW f \in FrameType
    PROVE  /\ Send([k EXCEPT !.stream[k.observed].domain = f.n], f) \in Conn
           /\ Forwards(k, Send([k EXCEPT !.stream[k.observed].domain = f.n], f), f)
  <1>1. k.observed \in Stream /\ k.stream \in [Stream -> StreamRecord] /\ f.n \in Nat
    BY DEF Conn, FrameType
  <1>2. Forwards(k, Send([k EXCEPT !.stream[k.observed].domain = f.n], f), f)
    BY <1>1 DEF Send, Forwards, SameTails, SameClosed, SameObservation, Conn, StreamRecord
  <1>3. PICK st \in [Stream -> StreamRecord] : st = [k.stream EXCEPT ![k.observed].domain = f.n]
    BY <1>1, StreamFields
  <1>4. PICK n \in Conn : n = [k EXCEPT !.stream = st]
    BY ConnFields
  <1>5. [k EXCEPT !.stream[k.observed].domain = f.n] = n
    BY <1>3, <1>4 DEF Conn
  <1>6. Send(n, f) \in Conn
    BY SendEffect
  <1>7. QED
    BY <1>2, <1>5, <1>6

Inv(k, h, cl, w, c) ==
    /\ Observations(k) /\ Awaited(k, h) /\ Answers(k, h, cl, c)
    /\ Order(k, w) /\ Opened(k, w) /\ Silent(k, w)

(* Events move within the connection. *)
Quiet(k, n, h, cl, w) ==
    /\ SameStreams(k, n) /\ SameClosed(k, n) /\ SameObservation(k, n)
    /\ n.pending = k.pending /\ n.writes = k.writes
    /\ \A s \in Stream : \A i \in DOMAIN n.stream[s].tail :
          n.stream[s].tail[i].cmd # None => Told(n.stream[s].tail[i].cmd, k, cl)
    /\ \A i \in DOMAIN n.buffer : n.buffer[i].cmd # None => Due(n.buffer[i].cmd, k, h, cl)
    /\ \A s \in Stream :
          s > w.opened /\ k.stream[s].tail = <<>> /\ (k.observed = s => k.pending)
              => n.stream[s].tail = <<>>

LEMMA FrameNumbers ==
    ASSUME NEW f \in FrameType
    PROVE  f.n \in Nat /\ f.stream \in Nat /\ f.cmd \in Command
  BY DEF FrameType, Stream, NoStream

LEMMA EventStreams ==
    ASSUME NEW k \in Conn, NEW h \in Handler, NEW w \in Wire,
           Observations(k), Awaited(k, h), Order(k, w)
    PROVE  /\ \A j \in DOMAIN k.writes :
                 k.writes[j].waiter # "handler" => k.writes[j].stream \in Stream
           /\ \A j \in DOMAIN k.writes :
                 k.writes[j].kind = "event" => k.writes[j].stream \in Stream
           /\ w.stream # NoStream => w.stream \in Stream
  <1>1. k.streams \in Nat /\ k.streams <= MaxStream /\ w.stream \in Nat /\ MaxStream \in Nat
    BY EventsAssumption DEF Conn, Wire, Observations
  <1>2. 1..k.streams \subseteq Stream
    BY <1>1 DEF Stream
  <1>3. \A j \in DOMAIN k.writes :
           /\ k.writes[j].waiter # "handler" => k.writes[j].stream \in 1..k.streams
           /\ k.writes[j].kind = "event" => k.writes[j].waiter # "handler"
    BY DEF Awaited
  <1>4. w.stream <= k.streams
    BY DEF Order
  <1>5. QED
    BY <1>1, <1>2, <1>3, <1>4 DEF NoStream, Stream

LEMMA QuietKeeps ==
    ASSUME NEW k \in Conn, NEW n \in Conn, NEW h \in Handler, NEW cl \in Client, NEW w \in Wire,
           NEW c \in Command, Inv(k, h, cl, w, c), Quiet(k, n, h, cl, w)
    PROVE  Inv(n, h, cl, w, c)
  <1> USE DEF Inv, Quiet, SameStreams, SameClosed, SameObservation
  <1>1. Observations(n)
    BY DEF Observations
  <1>2. Awaited(n, h)
    BY DEF Awaited
  <1>3. Answers(n, h, cl, c)
    BY DEF Answers, Told, Due
  <1>4. Order(n, w)
    BY EventStreams DEF Order
  <1>5. Opened(n, w)
    <2>1. k.streams \in Stream \/ k.streams = 0
      BY EventsAssumption DEF Observations, Conn, Stream
    <2>2. w.opened \in Nat
      BY DEF Wire
    <2>3. ASSUME NEW j \in DOMAIN k.writes, Opens(k.writes[j]), k.streams > w.opened
          PROVE  /\ n.stream[k.streams].tail = <<>>
                 /\ n.stream[k.streams].domain = k.stream[k.streams].domain
      BY <2>1, <2>2, <2>3 DEF Opened
    <2>4. QED
      BY <2>3 DEF Opened
  <1>6. Silent(n, w)
    BY DEF Silent
  <1>7. QED
    BY <1>1, <1>2, <1>3, <1>4, <1>5, <1>6

LEMMA UnobservedKeeps ==
    ASSUME NEW k \in Conn, NEW n \in Conn, NEW h \in Handler, NEW cl \in Client, NEW w \in Wire,
           NEW c \in Command, Inv(k, h, cl, w, c), Unobserved(k, n)
    PROVE  Inv(n, h, cl, w, c)
  <1> USE DEF Inv, Unobserved, SameStreams, SameTails
  <1>1. Observations(n)
    BY DEF Observations, Conn, Stream, NoStream
  <1>2. Awaited(n, h)
    BY DEF Awaited
  <1>3. Answers(n, h, cl, c)
    BY DEF Answers, Told, Due
  <1>4. Order(n, w)
    BY EventStreams DEF Order
  <1>5. Opened(n, w)
    <2>1. k.streams > w.opened => k.streams \in Stream
      BY EventsAssumption DEF Observations, Conn, Wire, Stream
    <2>2. k.streams # NoStream => n.observed # n.streams
      BY DEF NoStream
    <2>3. w.opened \in Nat /\ n.streams = k.streams
      BY DEF Wire
    <2>4. ASSUME NEW j \in DOMAIN k.writes, Opens(k.writes[j])
          PROVE  /\ k.writes[j].stream = n.streams
                 /\ n.streams > w.opened =>
                       /\ Meets(k.writes[j], n.stream[n.streams].domain)
                       /\ n.stream[n.streams].tail = <<>>
                       /\ n.observed # n.streams
      BY <2>1, <2>2, <2>3, <2>4 DEF Opened, NoStream
    <2>5. QED
      BY <2>3, <2>4 DEF Opened
  <1>6. Silent(n, w)
    BY DEF Silent
  <1>7. QED
    BY <1>1, <1>2, <1>3, <1>4, <1>5, <1>6

(* Who may still send for a handler: none of its frames waits. *)
MaySend(k, h, f) ==
    \/ f.waiter = "tail"
    \/ /\ f.waiter = "flush" /\ h.phase \in {"answering", "flushing"}
       /\ \A j \in DOMAIN k.writes : k.writes[j].waiter = "tail"

LEMMA ForwardKeeps ==
    ASSUME NEW k \in Conn, NEW n \in Conn, NEW h \in Handler, NEW cl \in Client, NEW w \in Wire,
           NEW c \in Command, Inv(k, h, cl, w, c), k.observed # NoStream,
           NEW f \in FrameType, f.kind = "event", f.stream = k.observed,
           f.n > k.stream[k.observed].domain, f.cmd # None => Told(f.cmd, k, cl),
           k.streams <= w.opened, MaySend(k, h, f), Forwards(k, n, f)
    PROVE  Inv(n, h, cl, w, c)
  <1> USE DEF Inv, Forwards, SameTails, SameClosed, SameObservation
  <1>0. /\ DOMAIN n.writes = 1..(Len(k.writes) + 1) /\ DOMAIN k.writes = 1..Len(k.writes)
        /\ Len(k.writes) \in Nat
        /\ n.writes[Len(k.writes) + 1] = f
        /\ \A i \in DOMAIN k.writes : n.writes[i] = k.writes[i] /\ k.writes[i] \in FrameType
        /\ \A i \in DOMAIN n.writes : i \in DOMAIN k.writes \/ i = Len(k.writes) + 1
    BY QueueAppended DEF Conn
  <1>1. Observations(n)
    BY DEF Observations
  <1>2. Awaited(n, h)
    BY <1>0 DEF Awaited, MaySend, Observations, Conn, Stream
  <1>3. Answers(n, h, cl, c)
    <2>1. \A x : Told(x, k, cl) => Told(x, n, cl)
      BY <1>0 DEF Told
    <2>2. \A x : Due(x, k, h, cl) => Due(x, n, h, cl)
      BY <2>1 DEF Due
    <2>3. ASSUME NEW j \in DOMAIN n.writes,
                 n.writes[j].kind = "event", n.writes[j].cmd # None, cl.connected
          PROVE  \/ n.writes[j].cmd \in cl.answered
                 \/ \E i \in 1..(j - 1) :
                       n.writes[i].kind # "event" /\ n.writes[i].cmd = n.writes[j].cmd
      <3>1. CASE j \in DOMAIN k.writes
        BY <1>0, <2>3, <3>1 DEF Answers
      <3>2. CASE j = Len(k.writes) + 1
        BY <1>0, <2>3, <3>2 DEF Told
      <3>3. QED
        BY <1>0, <3>1, <3>2
    <2>4. QED
      BY <2>1, <2>2, <2>3 DEF Answers
  <1>4. Order(n, w)
    <2>1. k.observed \in Stream /\ k.observed = k.streams /\ k.streams \in Nat
      BY DEF Observations, Conn
    <2>a. \A s \in Stream : k.stream[s].domain \in Nat
      BY DEF Conn, StreamRecord
    <2>b. f.n \in Nat /\ w.n \in Nat /\ w.stream \in Nat
          /\ \A i \in DOMAIN k.writes : k.writes[i].n \in Nat /\ k.writes[i].stream \in Nat
      BY <1>0, FrameNumbers DEF Wire
    <2>c. \A s \in Stream : n.stream[s].domain >= k.stream[s].domain
      BY <2>a, <2>b
    <2>2. w.stream # NoStream => w.stream \in Stream /\ w.n <= n.stream[w.stream].domain
      <3>1. SUFFICES ASSUME w.stream # NoStream
                     PROVE  w.stream \in Stream /\ w.n <= n.stream[w.stream].domain
        OBVIOUS
      <3>2. w.stream \in Stream
        BY <3>1, EventStreams
      <3>3. w.n <= k.stream[w.stream].domain
        BY <3>1 DEF Order
      <3>4. n.stream[w.stream].domain \in Nat
        BY <3>2 DEF Conn, StreamRecord
      <3>5. QED
        BY <2>a, <2>b, <2>c, <3>2, <3>3, <3>4
    <2>3. ASSUME NEW j \in DOMAIN k.writes, k.writes[j].kind = "event"
          PROVE  /\ k.writes[j].stream \in Stream /\ k.writes[j].stream <= k.streams
                 /\ k.writes[j].n <= n.stream[k.writes[j].stream].domain
                 /\ k.writes[j].stream = k.observed => k.writes[j].n < f.n
      <3>1. k.writes[j].stream \in Stream
        BY <2>3, EventStreams
      <3>2. k.writes[j].n <= k.stream[k.writes[j].stream].domain
        BY <2>3 DEF Order
      <3>3. k.writes[j].stream <= k.streams
        BY <2>1, <2>3 DEF Awaited
      <3>4. n.stream[k.writes[j].stream].domain \in Nat
        BY <3>1 DEF Conn, StreamRecord
      <3>5. k.stream[k.writes[j].stream].domain \in Nat
        BY <2>a, <3>1
      <3>6. k.writes[j].n <= n.stream[k.writes[j].stream].domain
        <4>1. k.stream[k.writes[j].stream].domain <= n.stream[k.writes[j].stream].domain
          BY <2>c, <3>1, <3>4, <3>5
        <4>2. k.writes[j].n \in Nat
          BY <2>b, <2>3
        <4>3. QED
          BY <3>2, <3>4, <3>5, <4>1, <4>2
      <3>7. k.writes[j].stream = k.observed => k.writes[j].n < f.n
        BY <2>b, <3>2, <3>5
      <3>8. QED
        BY <3>1, <3>3, <3>6, <3>7
    <2>4. Later(w.stream, w.n, f)
      <3>1. w.stream <= f.stream
        BY <2>1 DEF Order
      <3>2. w.stream = f.stream => w.n <= k.stream[k.observed].domain
        BY DEF Order
      <3>3. k.stream[k.observed].domain \in Nat /\ k.stream[k.observed].domain < f.n
        BY <2>1, <2>a
      <3>4. w.stream = f.stream => w.n < f.n
        BY <2>b, <3>2, <3>3
      <3>5. QED
        BY <2>1, <2>b, <3>1, <3>4 DEF Later
    <2>5. ASSUME NEW i \in DOMAIN k.writes, k.writes[i].kind = "event"
          PROVE  Later(k.writes[i].stream, k.writes[i].n, f)
      BY <2>1, <2>b, <2>3, <2>5 DEF Later
    <2>6. n.stream[f.stream].domain = f.n
      BY <2>1
    <2>7. ASSUME NEW j \in DOMAIN n.writes, n.writes[j].kind = "event"
          PROVE  /\ n.writes[j].n <= n.stream[n.writes[j].stream].domain
                 /\ Later(w.stream, w.n, n.writes[j])
                 /\ \A i \in 1..(j - 1) : n.writes[i].kind = "event" =>
                       Later(n.writes[i].stream, n.writes[i].n, n.writes[j])
      <3>1. CASE j \in DOMAIN k.writes
        BY <1>0, <2>3, <2>7, <3>1 DEF Order
      <3>2. CASE j = Len(k.writes) + 1
        BY <1>0, <2>4, <2>5, <2>6, <3>2 DEF FrameType
      <3>3. QED
        BY <1>0, <3>1, <3>2
    <2>8. QED
      BY <2>2, <2>7 DEF Order
  <1>5. Opened(n, w)
    <2>1. f.stream <= w.opened /\ ~Opens(f)
      BY DEF Observations, Opens
    <2>2. ASSUME NEW j \in DOMAIN n.writes, n.writes[j].kind = "event"
          PROVE  n.writes[j].stream <= w.opened \/ \E i \in 1..(j - 1) : Opens(n.writes[i])
      <3>1. CASE j \in DOMAIN k.writes
        BY <1>0, <2>2, <3>1 DEF Opened
      <3>2. CASE j = Len(k.writes) + 1
        BY <1>0, <2>1, <3>2
      <3>3. QED
        BY <1>0, <3>1, <3>2
    <2>3. ~(k.streams > w.opened)
      BY DEF Conn, Wire
    <2>4. \A j \in DOMAIN n.writes : Opens(n.writes[j]) => n.writes[j].stream = n.streams
      BY <1>0, <2>1 DEF Opened
    <2>5. QED
      BY <2>2, <2>3, <2>4 DEF Opened
  <1>6. Silent(n, w)
    <2>1. k.observed > w.shut /\ f.kind # "change"
      BY DEF Silent
    <2>2. ASSUME NEW j \in DOMAIN n.writes, n.writes[j].kind = "event"
          PROVE  /\ n.writes[j].stream > w.shut
                 /\ \A i \in 1..(j - 1) :
                       n.writes[i].kind = "change" => n.writes[j].stream > n.writes[i].stream
      <3>1. CASE j \in DOMAIN k.writes
        BY <1>0, <2>2, <3>1 DEF Silent
      <3>2. CASE j = Len(k.writes) + 1
        BY <1>0, <2>1, <3>2 DEF Silent
      <3>3. QED
        BY <1>0, <3>1, <3>2
    <2>3. \A j \in DOMAIN n.writes : n.writes[j].kind = "change" =>
             n.writes[j].stream <= n.streams /\ n.observed > n.writes[j].stream
      BY <1>0, <2>1 DEF Silent
    <2>4. QED
      BY <2>1, <2>2, <2>3 DEF Silent
  <1>7. QED
    BY <1>1, <1>2, <1>3, <1>4, <1>5, <1>6

LEMMA ClosedKeeps ==
    ASSUME NEW k \in Conn, NEW n \in Conn, NEW h \in Handler, NEW cl \in Client, NEW w \in Wire,
           NEW c \in Command, Inv(k, h, cl, w, c),
           NEW f \in FrameType, f.kind = "closed", f.stream \in 1..k.streams, f.cmd = None,
           MaySend(k, h, f), Sends(k, n, f)
    PROVE  Inv(n, h, cl, w, c)
  <1> USE DEF Inv, Sends, SameStreams, SameTails, SameClosed, SameObservation
  <1>0. /\ DOMAIN n.writes = 1..(Len(k.writes) + 1) /\ DOMAIN k.writes = 1..Len(k.writes)
        /\ Len(k.writes) \in Nat
        /\ n.writes[Len(k.writes) + 1] = f
        /\ \A i \in DOMAIN k.writes : n.writes[i] = k.writes[i] /\ k.writes[i] \in FrameType
        /\ \A i \in DOMAIN n.writes : i \in DOMAIN k.writes \/ i = Len(k.writes) + 1
    BY QueueAppended DEF Conn
  <1>1. Observations(n)
    BY DEF Observations
  <1>2. Awaited(n, h)
    BY <1>0 DEF Awaited, MaySend
  <1>3. Answers(n, h, cl, c)
    BY <1>0, SMTT(30) DEF Answers, Told, Due
  <1>4. Order(n, w)
    <2>1. \A j \in DOMAIN n.writes : n.writes[j].kind = "event" => j \in DOMAIN k.writes
      BY <1>0
    <2>2. ASSUME NEW j \in DOMAIN k.writes, k.writes[j].kind = "event"
          PROVE  /\ k.writes[j].n <= n.stream[k.writes[j].stream].domain
                 /\ Later(w.stream, w.n, k.writes[j])
                 /\ \A i \in 1..(j - 1) : k.writes[i].kind = "event" =>
                       Later(k.writes[i].stream, k.writes[i].n, k.writes[j])
      BY <2>2, EventStreams DEF Order
    <2>3. \A j \in DOMAIN k.writes : \A i \in 1..(j - 1) : n.writes[i] = k.writes[i]
      BY <1>0
    <2>4. w.stream <= n.streams /\ (w.stream # NoStream => w.n <= n.stream[w.stream].domain)
      BY EventStreams DEF Order
    <2>5. QED
      BY <1>0, <2>1, <2>2, <2>3, <2>4 DEF Order
  <1>5. Opened(n, w)
    <2>1. ~Opens(f) /\ f.kind # "event"
      BY DEF Opens
    <2>2. (k.streams > w.opened) => k.streams \in Stream
      BY EventsAssumption DEF Observations, Conn, Wire, Stream
    <2>3. \A j \in DOMAIN n.writes :
             Opens(n.writes[j]) \/ n.writes[j].kind = "event" => j \in DOMAIN k.writes
      BY <1>0, <2>1
    <2>4. ASSUME NEW j \in DOMAIN k.writes
          PROVE  /\ Opens(n.writes[j]) =>
                    /\ n.writes[j].stream = n.streams
                    /\ n.streams > w.opened => Meets(n.writes[j], n.stream[n.streams].domain)
                    /\ n.streams > w.opened =>
                          /\ n.stream[n.streams].tail = <<>>
                          /\ n.observed = n.streams => n.pending
                 /\ n.writes[j].kind = "event" =>
                    n.writes[j].stream <= w.opened \/ \E i \in 1..(j - 1) : Opens(n.writes[i])
      <3>1. n.writes[j] = k.writes[j] /\ \A i \in 1..(j - 1) : n.writes[i] = k.writes[i]
        BY <1>0, <2>4
      <3>2. /\ n.streams = k.streams /\ n.observed = k.observed /\ n.pending = k.pending
            /\ \A s \in Stream : /\ n.stream[s].domain = k.stream[s].domain
                                 /\ n.stream[s].tail = k.stream[s].tail
        OBVIOUS
      <3>3. Opens(n.writes[j]) =>
               /\ n.writes[j].stream = n.streams
               /\ n.streams > w.opened => Meets(n.writes[j], n.stream[n.streams].domain)
               /\ n.streams > w.opened =>
                     /\ n.stream[n.streams].tail = <<>>
                     /\ n.observed = n.streams => n.pending
        <4>1. Opens(k.writes[j]) =>
                 /\ k.writes[j].stream = k.streams
                 /\ k.streams > w.opened =>
                       /\ Meets(k.writes[j], k.stream[k.streams].domain)
                       /\ k.stream[k.streams].tail = <<>>
                       /\ k.observed = k.streams => k.pending
          BY <2>4 DEF Opened
        <4>2. k.streams > w.opened =>
                 /\ n.stream[k.streams].domain = k.stream[k.streams].domain
                 /\ n.stream[k.streams].tail = k.stream[k.streams].tail
          BY <2>2, <3>2
        <4> HIDE DEF Inv, Sends, SameStreams, SameTails, SameClosed, SameObservation
        <4>3. QED
          BY <3>1, <3>2, <4>1, <4>2
      <3>4. n.writes[j].kind = "event" =>
               n.writes[j].stream <= w.opened \/ \E i \in 1..(j - 1) : Opens(n.writes[i])
        BY <2>4, <3>1 DEF Opened
      <3>5. QED
        BY <3>3, <3>4
    <2>5. n.terminal \/ n.streams <= w.opened \/ \E j \in DOMAIN n.writes : Opens(n.writes[j])
      BY <1>0 DEF Opened
    <2>6. QED
      BY <2>3, <2>4, <2>5 DEF Opened
  <1>6. Silent(n, w)
    BY <1>0 DEF Silent, Observations
  <1>7. QED
    BY <1>1, <1>2, <1>3, <1>4, <1>5, <1>6

LEMMA AppendTyped ==
    ASSUME NEW q \in Seq(EventType), NEW e \in EventType
    PROVE  /\ Append(q, e) \in Seq(EventType)
           /\ \A i \in DOMAIN Append(q, e) :
                 Append(q, e)[i] = e \/ \E j \in DOMAIN q : Append(q, e)[i] = q[j]
  <1>1. PICK n \in Nat : n = Len(q)
    OBVIOUS
  <1>2. /\ Append(q, e) \in Seq(EventType)
        /\ DOMAIN Append(q, e) = 1..(n + 1) /\ DOMAIN q = 1..n
        /\ Append(q, e)[n + 1] = e
        /\ \A i \in DOMAIN q : Append(q, e)[i] = q[i]
    BY <1>1, QueueAppended
  <1>3. \A i \in 1..(n + 1) : i = n + 1 \/ i \in 1..n
    OBVIOUS
  <1>4. QED
    BY <1>2, <1>3

LEMMA ForwardOpKeeps ==
    ASSUME NEW k \in Conn, NEW h \in Handler, NEW cl \in Client, NEW w \in Wire,
           NEW c \in Command, Inv(k, h, cl, w, c), k.observed # NoStream,
           NEW e \in EventType, e.cmd # None => Told(e.cmd, k, cl),
           k.streams <= w.opened, NEW waiter \in {"tail", "flush"},
           waiter = "flush" =>
               /\ h.phase \in {"answering", "flushing"}
               /\ \A j \in DOMAIN k.writes : k.writes[j].waiter = "tail"
    PROVE  /\ Forward(k, k.observed, e, waiter) \in Conn
           /\ Inv(Forward(k, k.observed, e, waiter), h, cl, w, c)
           /\ \E f \in FrameType :
                 Forward(k, k.observed, e, waiter).writes = Append(k.writes, f)
  <1> DEFINE s == k.observed
  <1>1. /\ s \in Stream /\ s = k.streams /\ k.listener \in {NoStream, s}
        /\ s \in 1..k.streams
    BY DEF Inv, Observations, Conn, Stream, NoStream
  <1>2. k.stream[s].sent + 1 \in Nat /\ e.n \in Nat /\ e.cmd \in Command
    BY <1>1 DEF Conn, StreamRecord, EventType
  <1>3. CASE ~InOrder(k, s, e) \/ e.big
    <2>1. PICK m \in Conn : m = Unobserve(k, s) /\ Unobserved(k, m)
      BY <1>1, UnobserveEffect
    <2>2. Inv(m, h, cl, w, c)
      BY <2>1, UnobservedKeeps
    <2>3. PICK f \in FrameType : f = Frame("closed", s, k.stream[s].sent + 1, 0, None, waiter)
      BY <1>1, <1>2 DEF Frame, FrameType, Command
    <2>4. PICK n \in Conn : n = Send(m, f) /\ Sends(m, n, f)
      BY SendEffect
    <2>5. /\ f.kind = "closed" /\ f.stream \in 1..m.streams /\ f.cmd = None
          /\ f.waiter = waiter
      BY <1>1, <2>1, <2>3 DEF Frame, Unobserved, SameStreams
    <2>6. MaySend(m, h, f)
      BY <2>1, <2>5 DEF MaySend, Unobserved
    <2>7. Inv(n, h, cl, w, c)
      BY <2>2, <2>4, <2>5, <2>6, ClosedKeeps
    <2>8. Forward(k, s, e, waiter) = n
      BY <1>3, <2>1, <2>3, <2>4 DEF Forward, CloseObservation
    <2>9. n.writes = Append(k.writes, f)
      BY <2>1, <2>4 DEF Unobserved, Sends
    <2>10. QED
      BY <2>7, <2>8, <2>9
  <1>4. CASE InOrder(k, s, e) /\ ~e.big
    <2>1. PICK f \in FrameType :
             f = Frame("event", s, k.stream[s].sent + 1, e.n, e.cmd, waiter)
      BY <1>1, <1>2 DEF Frame, FrameType
    <2>2. /\ f.kind = "event" /\ f.stream = s /\ f.n = e.n /\ f.cmd = e.cmd
          /\ f.waiter = waiter
      BY <2>1 DEF Frame
    <2>3. PICK n \in Conn : n = Send([k EXCEPT !.stream[s].domain = f.n], f) /\ Forwards(k, n, f)
      BY ForwardEffect
    <2>4. MaySend(k, h, f)
      BY <2>2 DEF MaySend
    <2>5. f.n > k.stream[s].domain
      BY <1>4, <2>2 DEF InOrder
    <2>6. Inv(n, h, cl, w, c)
      BY <2>2, <2>3, <2>4, <2>5, ForwardKeeps
    <2>7. Forward(k, s, e, waiter) = n
      BY <1>4, <2>1, <2>2, <2>3 DEF Forward
    <2>8. n.writes = Append(k.writes, f)
      BY <2>3 DEF Forwards
    <2>9. QED
      BY <2>6, <2>7, <2>8
  <1>5. QED
    BY <1>3, <1>4 DEF EventType

LEMMA RunTailKeeps ==
    ASSUME NEW k \in Conn, NEW h \in Handler, NEW cl \in Client, NEW w \in Wire,
           NEW c \in Command, Inv(k, h, cl, w, c), NEW s \in Stream, s <= k.streams
    PROVE  RunTail(k, s) \in Conn /\ Inv(RunTail(k, s), h, cl, w, c)
  <1>1. k.stream[s].tail \in Seq(EventType) /\ k.stream[s].closed \in BOOLEAN
        /\ k.stream[s].sending \in BOOLEAN
    BY DEF Conn, StreamRecord
  <1>2. ASSUME NEW t \in Seq(EventType), NEW n \in Conn, Retailed(k, n, s, t),
               \A i \in DOMAIN t : \E j \in DOMAIN k.stream[s].tail : t[i] = k.stream[s].tail[j],
               k.stream[s].tail = <<>> => t = <<>>
        PROVE  Inv(n, h, cl, w, c)
    <2>1. ASSUME NEW r \in Stream, NEW i \in DOMAIN n.stream[r].tail,
                 n.stream[r].tail[i].cmd # None
          PROVE  Told(n.stream[r].tail[i].cmd, k, cl)
      <3>1. \E j \in DOMAIN k.stream[r].tail : n.stream[r].tail[i] = k.stream[r].tail[j]
        BY <1>2, <2>1 DEF Retailed
      <3>2. QED
        BY <2>1, <3>1 DEF Inv, Answers
    <2>2. Quiet(k, n, h, cl, w)
      BY <1>2, <2>1 DEF Quiet, Retailed, Inv, Answers
    <2>3. QED
      BY <2>2, QuietKeeps
  <1>3. CASE k.stream[s].closed
    <2>1. <<>> \in Seq(EventType) /\ DOMAIN <<>> = {}
      OBVIOUS
    <2>2. PICK n \in Conn : n = [k EXCEPT !.stream[s].tail = <<>>] /\ Retailed(k, n, s, <<>>)
      BY <2>1, RetailEffect
    <2>3. Inv(n, h, cl, w, c)
      BY <1>2, <2>1, <2>2
    <2>4. QED
      BY <1>3, <2>2, <2>3 DEF RunTail
  <1>4. CASE ~k.stream[s].closed /\ (k.stream[s].sending \/ k.stream[s].tail = <<>>)
    BY <1>4 DEF RunTail
  <1>5. CASE ~k.stream[s].closed /\ ~k.stream[s].sending /\ k.stream[s].tail # <<>>
    <2> DEFINE t == k.stream[s].tail
    <2>1. /\ Tail(t) \in Seq(EventType) /\ Head(t) \in EventType /\ Head(t) = t[1]
          /\ 1 \in DOMAIN t
          /\ \A i \in DOMAIN Tail(t) : i + 1 \in DOMAIN t /\ Tail(t)[i] = t[i + 1]
      BY <1>1, <1>5, QueueTaken
    <2>2. PICK n \in Conn : n = [k EXCEPT !.stream[s].tail = Tail(t), !.stream[s].sending = TRUE]
                            /\ Retailed(k, n, s, Tail(t))
      BY <2>1, RetailEffect
    <2>3. Inv(n, h, cl, w, c)
      BY <1>2, <1>5, <2>1, <2>2
    <2>4. k.observed = s /\ k.streams = s /\ ~k.terminal /\ s # NoStream
      BY <1>5 DEF Inv, Observations, Stream, NoStream
    <2>5. k.streams <= w.opened
      BY <1>5, <2>4 DEF Inv, Opened, Conn, Wire
    <2>6. Head(t).cmd # None => Told(Head(t).cmd, n, cl)
      <3>1. Head(t).cmd # None => Told(Head(t).cmd, k, cl)
        BY <2>1 DEF Inv, Answers
      <3>2. n.writes = k.writes
        BY <2>2 DEF Retailed
      <3>3. QED
        BY <3>1, <3>2 DEF Told
    <2>7. n.observed = s /\ n.streams = k.streams
      BY <2>2, <2>4 DEF Retailed, SameStreams, SameObservation
    <2>8. PICK m \in Conn : m = Forward(n, s, Head(t), "tail") /\ Inv(m, h, cl, w, c)
      BY <2>1, <2>3, <2>4, <2>5, <2>6, <2>7, ForwardOpKeeps
    <2>9. RunTail(k, s) = m
      BY <1>5, <2>2, <2>8 DEF RunTail
    <2>10. QED
      BY <2>8, <2>9
  <1>6. QED
    BY <1>1, <1>3, <1>4, <1>5

LEMMA AcceptKeeps ==
    ASSUME NEW k \in Conn, NEW h \in Handler, NEW cl \in Client, NEW w \in Wire,
           NEW c \in Command, Inv(k, h, cl, w, c),
           NEW e \in EventType, e.cmd # None => Due(e.cmd, k, h, cl)
    PROVE  Accept(k, e) \in Conn /\ Inv(Accept(k, e), h, cl, w, c)
  <1>1. CASE k.listener = NoStream
    BY <1>1 DEF Accept
  <1>2. CASE k.listener # NoStream /\ k.pending
    <2>1. k.buffer \in Seq(EventType)
      BY DEF Conn
    <2>2. PICK b \in Seq(EventType) : b = Append(k.buffer, e)
      BY <2>1, AppendTyped
    <2>3. PICK n \in Conn : n = [k EXCEPT !.buffer = b] /\ Buffers(k, n, b)
      BY BufferEffect
    <2>4. \A i \in DOMAIN b : b[i] = e \/ \E j \in DOMAIN k.buffer : b[i] = k.buffer[j]
      BY <2>1, <2>2, AppendTyped
    <2>5. Quiet(k, n, h, cl, w)
      <3>1. \A i \in DOMAIN n.buffer :
               n.buffer[i].cmd # None => Due(n.buffer[i].cmd, k, h, cl)
        BY <2>3, <2>4 DEF Buffers, Inv, Answers
      <3>2. QED
        BY <2>3, <3>1 DEF Quiet, Buffers, SameTails, Inv, Answers
    <2>6. Inv(n, h, cl, w, c)
      BY <2>5, QuietKeeps
    <2>7. Accept(k, e) = n
      BY <1>2, <2>2, <2>3 DEF Accept
    <2>8. QED
      BY <2>6, <2>7
  <1>3. CASE k.listener # NoStream /\ ~k.pending
    <2> DEFINE s == k.listener
    <2>1. /\ s = k.observed /\ s = k.streams /\ s \in Stream
          /\ k.stream[s].tail \in Seq(EventType)
      BY <1>3 DEF Inv, Observations, Conn, StreamRecord
    <2>2. PICK t \in Seq(EventType) : t = Append(k.stream[s].tail, e)
      BY <2>1, AppendTyped
    <2>3. PICK n \in Conn : n = [k EXCEPT !.stream[s].tail = t] /\ Retailed(k, n, s, t)
      BY <2>1, RetailEffect
    <2>4. \A i \in DOMAIN t : t[i] = e \/ \E j \in DOMAIN k.stream[s].tail : t[i] = k.stream[s].tail[j]
      BY <2>1, <2>2, AppendTyped
    <2>5. e.cmd # None => Told(e.cmd, k, cl)
      BY <1>3, <2>1 DEF Due, Pends, Inv, Awaited
    <2>6. ASSUME NEW r \in Stream, NEW i \in DOMAIN n.stream[r].tail,
                 n.stream[r].tail[i].cmd # None
          PROVE  Told(n.stream[r].tail[i].cmd, k, cl)
      <3>1. CASE r = s
        BY <2>3, <2>4, <2>5, <2>6, <3>1 DEF Retailed, Inv, Answers
      <3>2. CASE r # s
        BY <2>3, <2>6, <3>2 DEF Retailed, Inv, Answers
      <3>3. QED
        BY <3>1, <3>2
    <2>7. \A r \in Stream :
             r > w.opened /\ k.stream[r].tail = <<>> /\ (k.observed = r => k.pending)
                 => n.stream[r].tail = <<>>
      BY <1>3, <2>1, <2>3 DEF Retailed
    <2>8. Quiet(k, n, h, cl, w)
      BY <2>3, <2>6, <2>7 DEF Quiet, Retailed, Inv, Answers
    <2>9. Inv(n, h, cl, w, c)
      BY <2>8, QuietKeeps
    <2>10. s <= n.streams
      BY <2>1, <2>3 DEF Retailed, SameStreams, Conn
    <2>11. Accept(k, e) = RunTail(n, s)
      BY <1>3, <2>2, <2>3 DEF Accept
    <2>12. QED
      BY <2>1, <2>9, <2>10, <2>11, RunTailKeeps
  <1>4. QED
    BY <1>1, <1>2, <1>3

LEMMA FlushRoundKeeps ==
    ASSUME NEW k \in Conn, NEW h \in Handler, NEW cl \in Client, NEW w \in Wire,
           NEW c \in Command, Inv(k, h, cl, w, c), k.pending,
           h.phase \in {"answering", "flushing"},
           \A j \in DOMAIN k.writes : k.writes[j].waiter = "tail"
    PROVE  /\ FlushRound(k) \in Conn /\ Inv(FlushRound(k), h, cl, w, c)
           /\ \/ FlushRound(k).writes = k.writes
              \/ Len(FlushRound(k).writes) > Len(k.writes)
  <1>1. k.observed # NoStream /\ ~k.terminal /\ k.buffer \in Seq(EventType)
    BY DEF Inv, Observations, Conn
  <1>2. \A j \in DOMAIN k.writes : ~Opens(k.writes[j])
    BY DEF Inv, Awaited, Opens
  <1>3. k.streams <= w.opened
    BY <1>1, <1>2 DEF Inv, Opened
  <1>4. CASE k.buffer = <<>>
    <2>1. PICK n \in Conn : n = [k EXCEPT !.pending = FALSE]
      BY ConnFields
    <2>2. /\ SameStreams(k, n) /\ SameTails(k, n) /\ SameClosed(k, n) /\ SameObservation(k, n)
          /\ ~n.pending /\ n.buffer = k.buffer /\ n.writes = k.writes
          /\ n.stream = k.stream
      BY <2>1 DEF SameStreams, SameTails, SameClosed, SameObservation, Conn
    <2>3. Observations(n) /\ Order(n, w)
      BY <2>2 DEF Inv, Observations, Order, SameStreams, SameObservation
    <2>4. Awaited(n, h)
      BY <2>2 DEF Inv, Awaited, SameStreams, Asking
    <2>5. Answers(n, h, cl, c)
      BY <2>2 DEF Inv, Answers, Told, Due, SameObservation
    <2>6. Opened(n, w)
      BY <1>2, <1>3, <2>2 DEF Inv, Opened, SameStreams, SameObservation
    <2>7. Silent(n, w)
      BY <2>2 DEF Inv, Silent, SameStreams, SameObservation
    <2>8. FlushRound(k) = n
      BY <1>4, <2>1 DEF FlushRound, EndFlush
    <2>9. QED
      BY <2>2, <2>3, <2>4, <2>5, <2>6, <2>7, <2>8 DEF Inv
  <1>5. CASE k.buffer # <<>>
    <2> DEFINE e == Head(k.buffer)
    <2>1. /\ Tail(k.buffer) \in Seq(EventType) /\ e \in EventType /\ e = k.buffer[1]
          /\ 1 \in DOMAIN k.buffer
          /\ \A i \in DOMAIN Tail(k.buffer) :
                i + 1 \in DOMAIN k.buffer /\ Tail(k.buffer)[i] = k.buffer[i + 1]
      BY <1>1, <1>5, QueueTaken
    <2>2. PICK n \in Conn : n = [k EXCEPT !.buffer = Tail(k.buffer)]
                            /\ Buffers(k, n, Tail(k.buffer))
      BY <2>1, BufferEffect
    <2>3. Quiet(k, n, h, cl, w)
      <3>1. \A i \in DOMAIN n.buffer : \E j \in DOMAIN k.buffer : n.buffer[i] = k.buffer[j]
        BY <2>1, <2>2 DEF Buffers
      <3>2. \A i \in DOMAIN n.buffer :
               n.buffer[i].cmd # None => Due(n.buffer[i].cmd, k, h, cl)
        BY <3>1 DEF Inv, Answers
      <3>3. QED
        BY <2>2, <3>2 DEF Quiet, Buffers, SameTails, Inv, Answers
    <2>4. Inv(n, h, cl, w, c)
      BY <2>3, QuietKeeps
    <2>5. e.cmd # None => Told(e.cmd, n, cl)
      BY <2>1, <2>2 DEF Inv, Answers, Due, Pends, Asking, Told, Buffers
    <2>6. n.observed = k.observed /\ n.streams = k.streams /\ n.writes = k.writes
      BY <2>2 DEF Buffers, SameStreams, SameObservation
    <2>a. /\ n.observed # NoStream /\ n.streams <= w.opened
          /\ \A j \in DOMAIN n.writes : n.writes[j].waiter = "tail"
      BY <1>1, <1>3, <2>6
    <2>b. /\ Forward(n, n.observed, e, "flush") \in Conn
          /\ Inv(Forward(n, n.observed, e, "flush"), h, cl, w, c)
          /\ \E f \in FrameType : Forward(n, n.observed, e, "flush").writes = Append(n.writes, f)
      <3>1. "flush" \in {"tail", "flush"}
        OBVIOUS
      <3>2. PICK d \in EventType : d = e
        BY <2>1
      <3>3. d.cmd # None => Told(d.cmd, n, cl)
        BY <2>5, <3>2
      <3>4. /\ Forward(n, n.observed, d, "flush") \in Conn
            /\ Inv(Forward(n, n.observed, d, "flush"), h, cl, w, c)
            /\ \E f \in FrameType : Forward(n, n.observed, d, "flush").writes = Append(n.writes, f)
        BY <2>4, <2>a, <3>1, <3>3, ForwardOpKeeps
      <3>5. QED
        BY <3>2, <3>4
    <2>7. PICK m \in Conn : /\ m = Forward(n, n.observed, e, "flush") /\ Inv(m, h, cl, w, c)
                            /\ \E f \in FrameType : m.writes = Append(n.writes, f)
      BY <2>b, Zenon
    <2>8. FlushRound(k) = m
      BY <1>5, <2>2, <2>6, <2>7 DEF FlushRound
    <2>9. Len(m.writes) = Len(k.writes) + 1 /\ Len(k.writes) \in Nat
      BY <2>6, <2>7 DEF Conn
    <2>10. QED
      BY <2>7, <2>8, <2>9
  <1>6. QED
    BY <1>4, <1>5

LEMMA DroppedKeeps ==
    ASSUME NEW k \in Conn, NEW h \in Handler, NEW cl \in Client, NEW w \in Wire,
           NEW c \in Command, Inv(k, h, cl, w, c)
    PROVE  /\ Dropped(k) \in Conn /\ Inv(Dropped(k), h, cl, w, c)
           /\ Dropped(k).observed = NoStream /\ Dropped(k).listener = NoStream
           /\ ~Dropped(k).pending
           /\ Dropped(k).streams = k.streams /\ Dropped(k).writes = k.writes
           /\ Dropped(k).terminal = k.terminal
  <1>1. CASE k.observed = NoStream
    BY <1>1 DEF Dropped, Inv, Observations, Conn
  <1>2. CASE k.observed # NoStream
    <2>1. k.listener \in {NoStream, k.observed}
      BY DEF Inv, Observations
    <2>2. PICK n \in Conn : n = Unobserve(k, k.observed) /\ Unobserved(k, n)
      BY <1>2, <2>1, UnobserveEffect
    <2>3. Inv(n, h, cl, w, c)
      BY <2>2, UnobservedKeeps
    <2>4. Dropped(k) = n
      BY <1>2, <2>2 DEF Dropped
    <2>5. QED
      BY <2>2, <2>3, <2>4 DEF Unobserved, SameStreams
  <1>3. QED
    BY <1>1, <1>2

LEMMA HandlerKeeps ==
    ASSUME NEW k \in Conn, NEW h \in Handler, NEW cl \in Client, NEW w \in Wire,
           NEW c \in Command, Inv(k, h, cl, w, c),
           NEW g \in Handler, NEW cm \in Client, NEW d \in Command,
           Awaited(k, g), cm.answered = cl.answered, cm.connected = cl.connected,
           \A x \in Cmds : Pends(x, h) => Pends(x, g) \/ Told(x, k, cl),
           d # None => Due(d, k, g, cm)
    PROVE  Inv(k, g, cm, w, d)
  <1>1. \A x : Told(x, k, cl) <=> Told(x, k, cm)
    BY DEF Told
  <1>2. \A x \in Cmds : Due(x, k, h, cl) => Due(x, k, g, cm)
    BY <1>1 DEF Due
  <1>3. \A i \in DOMAIN k.buffer : k.buffer[i].cmd # None => k.buffer[i].cmd \in Cmds
    <2>1. PICK q \in Seq(EventType) : q = k.buffer
      BY DEF Conn
    <2>2. \A i \in DOMAIN q : q[i] \in EventType
      OBVIOUS
    <2>3. QED
      BY <2>1, <2>2 DEF EventType, Command
  <1>4. Answers(k, g, cm, d)
    BY <1>1, <1>2, <1>3 DEF Inv, Answers
  <1>5. QED
    BY <1>4 DEF Inv

LEMMA AdmissionKeeps ==
    ASSUME NEW k \in Conn, NEW h \in Handler, NEW cl \in Client, NEW w \in Wire,
           NEW c \in Command, Inv(k, h, cl, w, c), h.phase = "idle",
           NEW g \in Handler, g.phase = "calling", g.kind \in {"prompt", "abort"},
           g.kind = "prompt" => g.cmd # None
    PROVE  BeginAdmission(k) \in Conn /\ Inv(BeginAdmission(k), g, cl, w, c)
  <1>1. PICK m \in Conn : m = [k EXCEPT !.pending = k.observed # NoStream]
    BY ConnFields
  <1>2. PICK n \in Conn : n = [m EXCEPT !.buffer = <<>>]
    <2>1. <<>> \in Seq(EventType)
      OBVIOUS
    <2>2. QED
      BY <2>1, ConnFields
  <1>3. /\ SameStreams(k, n) /\ SameTails(k, n) /\ SameClosed(k, n) /\ SameObservation(k, n)
        /\ n.pending = (k.observed # NoStream) /\ n.buffer = <<>> /\ n.writes = k.writes
    BY <1>1, <1>2 DEF SameStreams, SameTails, SameClosed, SameObservation, Conn
  <1>4. \A j \in DOMAIN k.writes : k.writes[j].waiter = "tail" /\ ~Opens(k.writes[j])
    BY DEF Inv, Awaited, Opens
  <1>5. Observations(n)
    BY <1>3 DEF Inv, Observations, SameStreams, SameClosed, SameObservation
  <1>6. Awaited(n, g)
    <2>1. \A j \in DOMAIN n.writes : n.writes[j].waiter = "tail"
      BY <1>3, <1>4
    <2>2. /\ g.phase = "calling" /\ g.kind # "change"
          /\ n.observed # NoStream => n.pending
      BY <1>3 DEF SameObservation
    <2>3. QED
      BY <1>3, <2>1, <2>2 DEF Inv, Awaited, SameStreams, SameObservation
  <1>7. Answers(n, g, cl, c)
    <2>1. \A x : Told(x, k, cl) <=> Told(x, n, cl)
      BY <1>3 DEF Told
    <2>2. \A x : ~Pends(x, h)
      BY DEF Pends, Asking
    <2>3. \A x : Due(x, k, h, cl) => Due(x, n, g, cl)
      BY <2>1, <2>2 DEF Due
    <2>4. DOMAIN n.buffer = {}
      BY <1>3
    <2>5. QED
      BY <1>3, <2>1, <2>3, <2>4 DEF Inv, Answers, SameTails, SameObservation
  <1>8. Order(n, w)
    BY <1>3, EventStreams DEF Inv, Order, SameStreams
  <1>9. Opened(n, w)
    BY <1>3, <1>4 DEF Inv, Opened, SameStreams, SameObservation
  <1>10. Silent(n, w)
    BY <1>3 DEF Inv, Silent, SameStreams, SameObservation
  <1>11. n = BeginAdmission(k)
    BY <1>1, <1>2 DEF BeginAdmission, Conn
  <1>12. QED
    BY <1>5, <1>6, <1>7, <1>8, <1>9, <1>10, <1>11 DEF Inv

(* A new observation of a session whose sequence is d. *)
Started(k, m, d) ==
    /\ k.streams + 1 \in Stream /\ k.observed = NoStream
    /\ m.streams = k.streams + 1 /\ m.observed = m.streams /\ m.listener = m.streams
    /\ m.pending /\ m.buffer = <<>> /\ m.writes = k.writes /\ m.terminal = k.terminal
    /\ m.stream[m.streams].domain = d /\ m.stream[m.streams].tail = <<>>
    /\ ~m.stream[m.streams].closed
    /\ \A r \in Stream \ {m.streams} : m.stream[r] = k.stream[r]

LEMMA EnsureEffect ==
    ASSUME NEW k \in Conn, NEW d \in Nat, k.observed = NoStream, k.streams < MaxStream
    PROVE  EnsureObservation(k, d) \in Conn /\ Started(k, EnsureObservation(k, d), d)
  <1>1. PICK s \in Stream : s = k.streams + 1
    BY EventsAssumption DEF Conn, Stream
  <1>2. s \in Nat /\ NewStream(d) \in StreamRecord
    BY <1>1 DEF Conn, NewStream, StreamRecord
  <1>3. PICK r \in StreamRecord : r = NewStream(d) /\ r.domain = d /\ r.tail = <<>> /\ ~r.closed
    BY <1>2 DEF NewStream
  <1>4. PICK st \in [Stream -> StreamRecord] : st = [k.stream EXCEPT ![s] = r]
    BY StreamFields DEF Conn
  <1>5. EnsureObservation(k, d) =
           [k EXCEPT !.streams = s, !.stream = st, !.observed = s, !.listener = s,
                     !.pending = TRUE, !.buffer = <<>>]
    BY <1>1, <1>3, <1>4 DEF EnsureObservation, Conn
  <1>6. PICK k1 \in Conn : k1 = [k EXCEPT !.streams = s]
    BY <1>2, ConnFields
  <1>7. PICK k2 \in Conn : k2 = [k1 EXCEPT !.stream = st]
    BY ConnFields
  <1>8. PICK k3 \in Conn : k3 = [k2 EXCEPT !.observed = s]
    BY ConnFields
  <1>9. PICK k4 \in Conn : k4 = [k3 EXCEPT !.listener = s]
    BY ConnFields
  <1>10. PICK k5 \in Conn : k5 = [k4 EXCEPT !.pending = TRUE]
    BY ConnFields
  <1>11. PICK n \in Conn : n = [k5 EXCEPT !.buffer = <<>>]
    <2>1. <<>> \in Seq(EventType)
      OBVIOUS
    <2>2. QED
      BY <2>1, ConnFields
  <1>12. EnsureObservation(k, d) = n
    BY <1>5, <1>6, <1>7, <1>8, <1>9, <1>10, <1>11 DEF Conn
  <1>13. Started(k, n, d)
    <2>1. /\ n.streams = s /\ n.observed = s /\ n.listener = s /\ n.pending /\ n.buffer = <<>>
          /\ n.writes = k.writes /\ n.terminal = k.terminal /\ n.stream = st
      BY <1>6, <1>7, <1>8, <1>9, <1>10, <1>11 DEF Conn
    <2>2. \A q \in Stream : st[q] = IF q = s THEN r ELSE k.stream[q]
      BY <1>4 DEF Conn
    <2>3. QED
      <3>1. n.stream[s] = r /\ \A q \in Stream \ {s} : n.stream[q] = k.stream[q]
        BY <2>1, <2>2
      <3>2. QED
        BY <1>1, <1>3, <2>1, <3>1 DEF Started
  <1>14. QED
    BY <1>12, <1>13

LEMMA AnswerKeeps ==
    ASSUME NEW k \in Conn, NEW m \in Conn, NEW n \in Conn, NEW h \in Handler, NEW cl \in Client,
           NEW w \in Wire, NEW c \in Command, Inv(k, h, cl, w, c), h.phase = "returned",
           ~k.terminal, NEW d \in Nat, m = k \/ (Started(k, m, d) /\ h.kind \in Observing),
           NEW f \in FrameType, f.stream = m.streams, f.cmd = h.cmd, f.waiter = "handler",
           f.kind \in AnswerKind, m # k => Meets(f, d),
           f.cmd # None => h.kind = "prompt",
           h.kind = "prompt" => f.kind \in {"accepted", "uncertain", "rejected"},
           f.kind = "change" => h.kind = "change",
           m # k => Opens(f),
           Sends(m, n, f),
           NEW g \in Handler, g.phase = "answering"
    PROVE  Inv(n, g, cl, w, c)
  <1> USE DEF Inv
  <1>0. /\ DOMAIN n.writes = 1..(Len(k.writes) + 1) /\ DOMAIN k.writes = 1..Len(k.writes)
        /\ Len(k.writes) \in Nat
        /\ n.writes[Len(k.writes) + 1] = f
        /\ \A i \in DOMAIN k.writes : n.writes[i] = k.writes[i] /\ k.writes[i] \in FrameType
        /\ \A i \in DOMAIN n.writes : i \in DOMAIN k.writes \/ i = Len(k.writes) + 1
    <2>1. m.writes = k.writes
      BY DEF Started
    <2>2. QED
      BY <2>1, QueueAppended DEF Conn, Sends
  <1>1. \A i \in DOMAIN k.writes :
           k.writes[i].waiter = "tail" /\ ~Opens(k.writes[i]) /\ k.writes[i].kind # "change"
    BY DEF Awaited, Opens
  <1>2. k.streams <= w.opened
    BY <1>1 DEF Opened
  <1>3. f.kind \notin {"event", "closed"}
    BY DEF AnswerKind
  <1>4. /\ n.streams = m.streams /\ n.observed = m.observed /\ n.listener = m.listener
        /\ n.pending = m.pending /\ n.buffer = m.buffer /\ n.terminal = m.terminal
        /\ \A r \in Stream : /\ n.stream[r].domain = m.stream[r].domain
                             /\ n.stream[r].tail = m.stream[r].tail
                             /\ n.stream[r].closed = m.stream[r].closed
    BY DEF Sends, SameStreams, SameTails, SameClosed, SameObservation
  <1>5. /\ k.streams \in Nat /\ n.streams \in Nat /\ k.streams <= n.streams /\ ~n.terminal
        /\ n.streams <= MaxStream /\ n.streams = f.stream
        /\ \A r \in Stream : /\ n.stream[r].tail \in {<<>>, k.stream[r].tail}
                             /\ r <= k.streams => n.stream[r].domain = k.stream[r].domain
    <2>1. k.streams \in Nat /\ n.streams \in Nat /\ k.streams <= MaxStream /\ MaxStream \in Nat
      BY EventsAssumption DEF Conn, Observations
    <2>2. CASE m = k
      BY <1>4, <2>1, <2>2
    <2>3. CASE m # k
      BY <1>4, <2>1, <2>3 DEF Started, Stream
    <2>4. QED
      BY <2>2, <2>3
  <1>6. \/ /\ n.streams = k.streams /\ n.observed = k.observed /\ n.pending = k.pending
           /\ n.buffer = k.buffer
        \/ /\ k.observed = NoStream /\ n.streams = k.streams + 1 /\ n.observed = n.streams
           /\ n.observed \in Stream /\ n.pending /\ n.buffer = <<>> /\ Opens(f)
           /\ n.stream[n.streams].tail = <<>>
           /\ Meets(f, n.stream[n.streams].domain)
    <2>1. CASE m = k
      BY <1>4, <2>1
    <2>2. CASE m # k
      BY <1>4, <2>2 DEF Started
    <2>3. QED
      BY <2>1, <2>2
  <1>7. Observations(n)
    <2>1. CASE m = k
      BY <1>4, <2>1 DEF Observations
    <2>2. CASE m # k
      <3>1. /\ n.streams = k.streams + 1 /\ n.observed = n.streams /\ n.listener = n.streams
            /\ n.streams \in Stream /\ n.pending /\ ~n.stream[n.streams].closed
            /\ k.observed = NoStream
            /\ \A r \in Stream \ {n.streams} : n.stream[r].closed = k.stream[r].closed
        BY <1>4, <2>2 DEF Started
      <3>2. ASSUME NEW r \in Stream, r <= n.streams
            PROVE  n.stream[r].closed <=> r # n.observed
        <4>1. CASE r = n.streams
          BY <3>1, <4>1
        <4>2. CASE r # n.streams
          <5>1. r <= k.streams /\ r # NoStream
            BY <1>5, <3>1, <3>2, <4>2 DEF Stream, NoStream
          <5>2. QED
            BY <3>1, <4>2, <5>1 DEF Observations
        <4>3. QED
          BY <4>1, <4>2
      <3>3. n.observed # NoStream
        BY <3>1 DEF Stream, NoStream
      <3>4. QED
        BY <1>5, <3>1, <3>2, <3>3 DEF Observations
    <2>3. QED
      BY <2>1, <2>2
  <1>8. Awaited(n, g)
    <2>1. ASSUME NEW j \in DOMAIN k.writes
          PROVE  /\ k.writes[j].waiter = "tail" /\ k.writes[j].kind \in {"event", "closed"}
                 /\ k.writes[j].stream \in 1..n.streams
                 /\ k.writes[j].kind # "event" => k.writes[j].cmd = None
      BY <1>1, <1>5, <2>1 DEF Awaited
    <2>2. f.cmd # None => f.kind \in {"accepted", "uncertain", "rejected"}
      OBVIOUS
    <2>3. ASSUME NEW j \in DOMAIN n.writes
          PROVE  /\ n.writes[j].kind \in {"event", "closed"} <=> n.writes[j].waiter # "handler"
                 /\ n.writes[j].waiter # "handler" => n.writes[j].stream \in 1..n.streams
                 /\ n.writes[j].kind # "event" /\ n.writes[j].cmd # None =>
                       n.writes[j].kind \in {"accepted", "uncertain", "rejected"}
                 /\ n.writes[j].waiter # "tail" => j = Len(k.writes) + 1
      <3>1. CASE j \in DOMAIN k.writes
        BY <1>0, <2>1, <3>1
      <3>2. CASE j = Len(k.writes) + 1
        BY <1>0, <1>3, <2>2, <3>2
      <3>3. QED
        BY <1>0, <3>1, <3>2
    <2>4. ASSUME NEW j \in DOMAIN n.writes, n.writes[j].waiter # "tail",
                 NEW i \in DOMAIN n.writes, i # j
          PROVE  n.writes[i].waiter = "tail"
      BY <2>3, <2>4
    <2>5. g.phase \notin Asking
      BY DEF Asking
    <2>6. QED
      BY <2>3, <2>4, <2>5 DEF Awaited, Asking
  <1>9. Answers(n, g, cl, c)
    <2>1. \A x : Told(x, k, cl) => Told(x, n, cl)
      BY <1>0 DEF Told
    <2>2. \A x : Pends(x, h) => Told(x, n, cl)
      BY <1>0, <1>3 DEF Told, Pends
    <2>3. \A x : Due(x, k, h, cl) => Told(x, n, cl)
      BY <2>1, <2>2 DEF Due
    <2>4. ASSUME NEW j \in DOMAIN n.writes,
                 n.writes[j].kind = "event", n.writes[j].cmd # None, cl.connected
          PROVE  \/ n.writes[j].cmd \in cl.answered
                 \/ \E i \in 1..(j - 1) :
                       n.writes[i].kind # "event" /\ n.writes[i].cmd = n.writes[j].cmd
      <3>1. j \in DOMAIN k.writes
        BY <1>0, <1>3, <2>4
      <3>2. n.writes[j] = k.writes[j] /\ \A i \in 1..(j - 1) : n.writes[i] = k.writes[i]
        BY <1>0, <3>1
      <3>3. QED
        BY <2>4, <3>1, <3>2 DEF Answers
    <2>5. ASSUME NEW r \in Stream, NEW i \in DOMAIN n.stream[r].tail,
                 n.stream[r].tail[i].cmd # None
          PROVE  Told(n.stream[r].tail[i].cmd, n, cl)
      <3>1. n.stream[r].tail = k.stream[r].tail
        BY <1>5, <2>5
      <3>2. QED
        BY <2>1, <2>5, <3>1 DEF Answers
    <2>6. ASSUME NEW i \in DOMAIN n.buffer, n.buffer[i].cmd # None
          PROVE  Told(n.buffer[i].cmd, n, cl)
      <3>1. n.buffer = k.buffer
        BY <1>6, <2>6
      <3>2. QED
        BY <2>3, <2>6, <3>1 DEF Answers
    <2>7. QED
      BY <1>5, <2>3, <2>4, <2>5, <2>6 DEF Answers, Due
  <1>10. Order(n, w)
    <2>1. \A j \in DOMAIN n.writes : n.writes[j].kind = "event" => j \in DOMAIN k.writes
      BY <1>0, <1>3
    <2>2. \A j \in DOMAIN k.writes : k.writes[j].kind = "event" =>
             /\ k.writes[j].stream \in Stream /\ k.writes[j].stream <= k.streams
             /\ n.stream[k.writes[j].stream].domain = k.stream[k.writes[j].stream].domain
      <3>1. SUFFICES ASSUME NEW j \in DOMAIN k.writes, k.writes[j].kind = "event"
                     PROVE  /\ k.writes[j].stream \in Stream /\ k.writes[j].stream <= k.streams
                            /\ n.stream[k.writes[j].stream].domain
                                   = k.stream[k.writes[j].stream].domain
        OBVIOUS
      <3>2. k.writes[j].stream \in Stream
        BY <3>1, EventStreams
      <3>3. k.writes[j].stream <= k.streams
        BY <1>5, <3>1 DEF Awaited
      <3>4. QED
        BY <1>5, <3>2, <3>3
    <2>3. w.stream <= n.streams /\ (w.stream # NoStream => w.n <= n.stream[w.stream].domain)
      <3>1. w.stream <= k.streams /\ w.stream \in Nat
        BY DEF Order, Wire
      <3>2. w.stream # NoStream => n.stream[w.stream].domain = k.stream[w.stream].domain
        BY <1>5, <3>1, EventStreams
      <3>3. QED
        BY <1>5, <3>1, <3>2 DEF Order
    <2>4. ASSUME NEW j \in DOMAIN k.writes, k.writes[j].kind = "event"
          PROVE  /\ k.writes[j].n <= n.stream[k.writes[j].stream].domain
                 /\ Later(w.stream, w.n, k.writes[j])
                 /\ \A i \in 1..(j - 1) : k.writes[i].kind = "event" =>
                       Later(k.writes[i].stream, k.writes[i].n, k.writes[j])
      BY <2>2, <2>4 DEF Order
    <2>5. ASSUME NEW j \in DOMAIN k.writes, NEW i \in 1..(j - 1)
          PROVE  n.writes[i] = k.writes[i]
      <3>1. PICK len \in Nat : len = Len(k.writes) /\ DOMAIN k.writes = 1..len
        BY <1>0
      <3>2. i \in 1..len
        BY <3>1
      <3>3. QED
        BY <1>0, <3>1, <3>2
    <2>6. QED
      BY <1>0, <2>1, <2>3, <2>4, <2>5 DEF Order
  <1>11. Opened(n, w)
    <2>1. ASSUME NEW j \in DOMAIN n.writes, Opens(n.writes[j])
          PROVE  /\ n.writes[j] = f /\ n.writes[j].stream = n.streams
                 /\ n.streams > w.opened => Meets(n.writes[j], n.stream[n.streams].domain)
                 /\ n.streams > w.opened =>
                       /\ n.stream[n.streams].tail = <<>>
                       /\ n.observed = n.streams => n.pending
      <3>1. n.writes[j] = f
        BY <1>0, <1>1, <2>1
      <3>2. w.opened \in Nat
        BY DEF Wire
      <3>3. QED
        BY <1>2, <1>5, <1>6, <3>1, <3>2
    <2>2. ASSUME NEW j \in DOMAIN n.writes, n.writes[j].kind = "event"
          PROVE  n.writes[j].stream <= w.opened \/ \E i \in 1..(j - 1) : Opens(n.writes[i])
      <3>1. j \in DOMAIN k.writes
        BY <1>0, <1>3, <2>2
      <3>2. \A i \in 1..(j - 1) : n.writes[i] = k.writes[i]
        BY <1>0, <3>1
      <3>3. QED
        BY <1>0, <2>2, <3>1, <3>2 DEF Opened
    <2>3. n.streams <= w.opened \/ \E j \in DOMAIN n.writes : Opens(n.writes[j])
      BY <1>0, <1>2, <1>6
    <2>4. w.opened <= n.streams
      BY <1>5 DEF Opened, Wire
    <2>5. QED
      BY <2>1, <2>2, <2>3, <2>4 DEF Opened
  <1>12. Silent(n, w)
    <2>1. w.shut <= k.streams /\ w.shut \in Nat
      BY DEF Silent, Wire
    <2>2. n.observed # NoStream => n.observed > w.shut
      BY <1>5, <1>6, <2>1 DEF Silent
    <2>3. f.kind = "change" => n.observed = NoStream
      <3>1. SUFFICES ASSUME f.kind = "change"
                     PROVE  n.observed = NoStream
        OBVIOUS
      <3>2. k.observed = NoStream
        BY <3>1 DEF Awaited, Asking
      <3>3. ~Opens(f)
        BY <3>1 DEF Opens
      <3>4. QED
        BY <1>6, <3>2, <3>3
    <2>4. ASSUME NEW j \in DOMAIN n.writes, n.writes[j].kind = "change"
          PROVE  n.writes[j] = f
      BY <1>0, <1>1, <2>4
    <2>5. ASSUME NEW j \in DOMAIN n.writes, n.writes[j].kind = "event"
          PROVE  /\ n.writes[j].stream > w.shut
                 /\ \A i \in 1..(j - 1) :
                       n.writes[i].kind = "change" => n.writes[j].stream > n.writes[i].stream
      <3>1. j \in DOMAIN k.writes
        BY <1>0, <1>3, <2>5
      <3>2. \A i \in 1..(j - 1) : n.writes[i] = k.writes[i]
        BY <1>0, <3>1
      <3>3. QED
        BY <1>0, <2>5, <3>1, <3>2 DEF Silent
    <2>6. QED
      BY <1>5, <2>1, <2>2, <2>3, <2>4, <2>5 DEF Silent
  <1>13. QED
    BY <1>7, <1>8, <1>9, <1>10, <1>11, <1>12

(* The head of the queue is written; the client and the wire take it. *)
Taken(f, cl, cm, w, v) ==
    /\ cm.connected => cl.connected
    /\ cl.answered \subseteq cm.answered
    /\ f.kind # "event" /\ f.cmd # None /\ cm.connected => f.cmd \in cm.answered
    /\ IF f.kind = "event" THEN v.stream = f.stream /\ v.n = f.n
       ELSE v.stream = w.stream /\ v.n = w.n
    /\ v.opened = IF Opens(f) THEN f.stream ELSE w.opened
    /\ v.shut = IF f.kind = "change" THEN f.stream ELSE w.shut

LEMMA TakenKeeps ==
    ASSUME NEW k \in Conn, NEW m \in Conn, NEW h \in Handler, NEW cl \in Client,
           NEW cm \in Client, NEW w \in Wire, NEW v \in Wire, NEW c \in Command,
           Inv(k, h, cl, w, c), k.writes # <<>>, NEW f \in FrameType, f = Head(k.writes),
           SameStreams(k, m), SameTails(k, m), SameClosed(k, m), SameObservation(k, m),
           m.pending = k.pending, m.buffer = k.buffer, m.writes = Tail(k.writes),
           Taken(f, cl, cm, w, v)
    PROVE  Inv(m, h, cm, v, c)
  <1>0. PICK q \in Seq(FrameType) : q = k.writes
    BY DEF Conn
  <1>1. PICK r \in Seq(FrameType) : r = m.writes
    BY DEF Conn
  <1>2. PICK len \in Nat : len = Len(q)
    OBVIOUS
  <1>3. /\ f = q[1] /\ 1 \in DOMAIN q /\ DOMAIN q = 1..len /\ DOMAIN r = 1..(len - 1)
        /\ \A i \in DOMAIN r : i + 1 \in DOMAIN q /\ r[i] = q[i + 1]
    BY <1>0, <1>1, <1>2, QueueTaken
  <1>4. \A j \in DOMAIN r : \A i \in 1..(j - 1) :
           i \in DOMAIN r /\ i + 1 \in 1..((j + 1) - 1) /\ r[i] = q[i + 1]
    BY <1>3, SMTT(30)
  <1>5. \A j \in DOMAIN q : j = 1 \/ (j - 1 \in DOMAIN r /\ q[j] = r[j - 1])
    BY <1>3
  <1>a. \A j \in DOMAIN r : \A i \in 1..((j + 1) - 1) : i = 1 \/ (i - 1 \in 1..(j - 1) /\ q[i] = r[i - 1])
    BY <1>3
  <1>b. \A j \in DOMAIN q : q[j] \in FrameType
    OBVIOUS
  <1>6. Observations(m)
    BY DEF Inv, Observations, SameStreams, SameClosed, SameObservation
  <1>7. Awaited(m, h)
    <2>1. ASSUME NEW j \in DOMAIN r
          PROVE  /\ r[j].kind \in {"event", "closed"} <=> r[j].waiter # "handler"
                 /\ r[j].waiter # "handler" => r[j].stream \in 1..k.streams
                 /\ r[j].kind # "event" /\ r[j].cmd # None =>
                       r[j].kind \in {"accepted", "uncertain", "rejected"}
                 /\ r[j].waiter # "tail" =>
                       /\ h.phase \in {"answering", "flushing"}
                       /\ \A i \in DOMAIN r : i # j => r[i].waiter = "tail"
      <3>1. /\ q[j + 1].kind \in {"event", "closed"} <=> q[j + 1].waiter # "handler"
            /\ q[j + 1].waiter # "handler" => q[j + 1].stream \in 1..k.streams
            /\ q[j + 1].kind # "event" /\ q[j + 1].cmd # None =>
                       q[j + 1].kind \in {"accepted", "uncertain", "rejected"}
            /\ q[j + 1].waiter # "tail" =>
                       /\ h.phase \in {"answering", "flushing"}
                       /\ \A i \in DOMAIN q : i # j + 1 => q[i].waiter = "tail"
        BY <1>0, <1>3 DEF Inv, Awaited
      <3>2. \A i \in DOMAIN r : i # j => i + 1 # j + 1
        BY <1>3
      <3>3. QED
        BY <1>3, <3>1, <3>2
    <2>2. QED
      BY <1>1, <2>1 DEF Inv, Awaited, SameStreams, SameObservation
  <1>8. Answers(m, h, cm, c)
    <2>1. \A x \in Cmds : Told(x, k, cl) => Told(x, m, cm)
      <3>1. SUFFICES ASSUME NEW x \in Cmds, Told(x, k, cl), cm.connected, x \notin cm.answered
                     PROVE  \E i \in DOMAIN r : r[i].kind # "event" /\ r[i].cmd = x
        BY <1>1 DEF Told
      <3>2. PICK i \in DOMAIN q : q[i].kind # "event" /\ q[i].cmd = x
        BY <1>0, <3>1 DEF Told, Taken
      <3>3. x # None
        BY EventsAssumption
      <3>4. i # 1
        BY <1>3, <3>1, <3>2, <3>3 DEF Taken
      <3>5. QED
        BY <1>5, <3>2, <3>4
    <2>2. \A x \in Cmds : Due(x, k, h, cl) => Due(x, m, h, cm)
      BY <2>1 DEF Due
    <2>3. ASSUME NEW j \in DOMAIN r, r[j].kind = "event", r[j].cmd # None, cm.connected
          PROVE  \/ r[j].cmd \in cm.answered
                 \/ \E i \in 1..(j - 1) : r[i].kind # "event" /\ r[i].cmd = r[j].cmd
      <3>1. \/ q[j + 1].cmd \in cl.answered
            \/ \E i \in 1..((j + 1) - 1) : q[i].kind # "event" /\ q[i].cmd = q[j + 1].cmd
        BY <1>0, <1>3, <2>3 DEF Inv, Answers, Taken
      <3>2. q[j + 1] = r[j]
        BY <1>3
      <3>3. CASE q[j + 1].cmd \in cl.answered
        BY <3>2, <3>3 DEF Taken
      <3>4. ASSUME NEW i \in 1..((j + 1) - 1), q[i].kind # "event", q[i].cmd = q[j + 1].cmd
            PROVE  \/ r[j].cmd \in cm.answered
                   \/ \E l \in 1..(j - 1) : r[l].kind # "event" /\ r[l].cmd = r[j].cmd
        <4>1. CASE i = 1
          BY <1>3, <2>3, <3>2, <3>4, <4>1 DEF Taken
        <4>2. CASE i # 1
          BY <1>a, <3>2, <3>4, <4>2
        <4>3. QED
          BY <4>1, <4>2
      <3>5. QED
        BY <3>1, <3>3, <3>4
    <2>4. ASSUME NEW s \in Stream, NEW i \in DOMAIN m.stream[s].tail,
                 m.stream[s].tail[i].cmd # None
          PROVE  Told(m.stream[s].tail[i].cmd, m, cm)
      <3>1. m.stream[s].tail = k.stream[s].tail /\ k.stream[s].tail \in Seq(EventType)
        BY DEF SameTails, Conn, StreamRecord
      <3>2. m.stream[s].tail[i] \in EventType
        BY <2>4, <3>1
      <3>3. m.stream[s].tail[i].cmd \in Cmds
        BY <2>4, <3>2 DEF EventType, Command
      <3>4. QED
        BY <2>1, <2>4, <3>1, <3>3 DEF Inv, Answers
    <2>5. ASSUME NEW i \in DOMAIN m.buffer, m.buffer[i].cmd # None
          PROVE  Due(m.buffer[i].cmd, m, h, cm)
      <3>1. k.buffer \in Seq(EventType)
        BY DEF Conn
      <3>2. m.buffer[i] \in EventType
        BY <2>5, <3>1
      <3>3. m.buffer[i].cmd \in Cmds
        BY <2>5, <3>2 DEF EventType, Command
      <3>4. QED
        BY <2>2, <2>5, <3>3 DEF Inv, Answers
    <2>6. c # None => Due(c, m, h, cm)
      BY <2>2 DEF Inv, Answers, Command
    <2>7. m.terminal => ~cm.connected
      BY DEF Inv, Answers, Taken, SameObservation
    <2>8. QED
      BY <1>1, <2>3, <2>4, <2>5, <2>6, <2>7 DEF Answers
  <1>9. \A j \in DOMAIN q : q[j].kind = "event" => q[j].stream \in Stream
    BY <1>0, EventStreams DEF Inv
  <1>10. Order(m, v)
    <2>1. ASSUME NEW j \in DOMAIN r, r[j].kind = "event"
          PROVE  /\ r[j].n <= m.stream[r[j].stream].domain
                 /\ Later(v.stream, v.n, r[j])
                 /\ \A i \in 1..(j - 1) : r[i].kind = "event" => Later(r[i].stream, r[i].n, r[j])
      <3>1. /\ q[j + 1].n <= k.stream[q[j + 1].stream].domain
            /\ Later(w.stream, w.n, q[j + 1])
            /\ \A i \in 1..((j + 1) - 1) :
                  q[i].kind = "event" => Later(q[i].stream, q[i].n, q[j + 1])
        BY <1>0, <1>3, <2>1 DEF Inv, Order
      <3>2. q[j + 1] = r[j] /\ r[j].stream \in Stream /\ 1 \in 1..((j + 1) - 1)
        BY <1>3, <1>9, <2>1
      <3>3. Later(v.stream, v.n, r[j])
        BY <1>3, <3>1, <3>2 DEF Taken
      <3>4. \A i \in 1..(j - 1) : r[i].kind = "event" => Later(r[i].stream, r[i].n, r[j])
        BY <1>4, <3>1, <3>2
      <3>5. QED
        BY <3>1, <3>2, <3>3, <3>4 DEF SameStreams
    <2>2. v.stream <= m.streams /\ (v.stream # NoStream => v.n <= m.stream[v.stream].domain)
      <3>1. CASE f.kind = "event"
        <4>1. f.stream \in Stream /\ f.stream \in 1..k.streams /\ f.n <= k.stream[f.stream].domain
          BY <1>0, <1>3, <1>9, <3>1 DEF Inv, Order, Awaited
        <4>2. QED
          BY <3>1, <4>1 DEF Taken, SameStreams, Conn
      <3>2. CASE f.kind # "event"
        BY <3>2, EventStreams DEF Taken, Inv, Order, SameStreams
      <3>3. QED
        BY <3>1, <3>2
    <2>3. QED
      BY <1>1, <2>1, <2>2 DEF Order
  <1>11. Opened(m, v)
    <2>1. Opens(f) => \A j \in DOMAIN r : ~Opens(r[j])
      <3>1. ASSUME Opens(f), NEW j \in DOMAIN r, Opens(r[j])
            PROVE  FALSE
        <4>1. \A i \in DOMAIN q : Opens(q[i]) => q[i].waiter = "handler"
          BY <1>0 DEF Inv, Awaited, Opens
        <4>2. q[1].waiter = "handler" /\ Opens(q[j + 1])
          BY <1>3, <3>1, <4>1
        <4>3. q[j + 1].waiter = "handler" /\ j + 1 # 1 /\ j + 1 \in DOMAIN q
          BY <1>3, <4>1, <4>2
        <4>4. QED
          BY <1>0, <1>3, <4>2, <4>3 DEF Inv, Awaited
      <3>2. QED
        BY <3>1
    <2>2. /\ v.opened \in Nat /\ w.opened \in Nat /\ k.streams \in Nat /\ m.streams = k.streams
          /\ w.opened <= k.streams
      BY DEF Wire, Conn, SameStreams, Inv, Opened
    <2>3. Opens(f) => f.stream = k.streams
      BY <1>0, <1>3 DEF Inv, Opened
    <2>4. v.opened <= m.streams /\ w.opened <= v.opened
      BY <2>2, <2>3 DEF Taken
    <2>5. m.terminal \/ m.streams <= v.opened \/ \E j \in DOMAIN r : Opens(r[j])
      <3>1. CASE Opens(f)
        BY <2>2, <2>3, <3>1 DEF Taken
      <3>2. CASE ~Opens(f)
        <4>1. k.terminal \/ k.streams <= w.opened \/ \E j \in DOMAIN q : Opens(q[j])
          BY <1>0 DEF Inv, Opened
        <4>2. ASSUME NEW j \in DOMAIN q, Opens(q[j])
              PROVE  \E i \in DOMAIN r : Opens(r[i])
          BY <1>3, <1>5, <3>2, <4>2
        <4>3. QED
          BY <2>2, <3>2, <4>1, <4>2 DEF Taken, SameObservation
      <3>3. QED
        BY <3>1, <3>2
    <2>6. ASSUME NEW j \in DOMAIN r, Opens(r[j])
          PROVE  /\ r[j].stream = m.streams
                 /\ m.streams > v.opened => Meets(r[j], m.stream[m.streams].domain)
                 /\ m.streams > v.opened =>
                       /\ m.stream[m.streams].tail = <<>>
                       /\ m.observed = m.streams => m.pending
      <3>1. /\ q[j + 1].stream = k.streams
            /\ k.streams > w.opened => Meets(q[j + 1], k.stream[k.streams].domain)
            /\ k.streams > w.opened =>
                       /\ k.stream[k.streams].tail = <<>>
                       /\ k.observed = k.streams => k.pending
        BY <1>0, <1>3, <2>6 DEF Inv, Opened
      <3>2. v.opened = w.opened
        BY <2>1, <2>6 DEF Taken
      <3>3. k.streams > w.opened => k.streams \in Stream
        BY <2>2, EventsAssumption DEF Inv, Observations, Stream
      <3>4. QED
        BY <1>3, <2>2, <3>1, <3>2, <3>3 DEF SameStreams, SameTails, SameObservation
    <2>7. ASSUME NEW j \in DOMAIN r, r[j].kind = "event"
          PROVE  r[j].stream <= v.opened \/ \E i \in 1..(j - 1) : Opens(r[i])
      <3>1. q[j + 1] = r[j] /\ j + 1 \in DOMAIN q /\ r[j].stream \in Nat
        BY <1>3, <1>9, <2>7 DEF Stream
      <3>2. r[j].stream <= w.opened \/ \E i \in 1..((j + 1) - 1) : Opens(q[i])
        BY <1>0, <2>7, <3>1 DEF Inv, Opened
      <3>3. r[j].stream <= k.streams
        BY <1>0, <2>2, <2>7, <3>1 DEF Inv, Awaited
      <3>4. CASE Opens(f)
        BY <2>3, <3>3, <3>4 DEF Taken
      <3>5. CASE ~Opens(f) /\ r[j].stream <= w.opened
        BY <3>5 DEF Taken
      <3>6. CASE ~Opens(f) /\ \E i \in 1..((j + 1) - 1) : Opens(q[i])
        <4>1. PICK i \in 1..((j + 1) - 1) : Opens(q[i])
          BY <3>6
        <4>2. i # 1
          BY <1>3, <3>6, <4>1
        <4>3. QED
          BY <1>a, <4>1, <4>2
      <3>7. QED
        BY <3>2, <3>4, <3>5, <3>6
    <2>8. QED
      BY <1>1, <2>4, <2>5, <2>6, <2>7 DEF Opened
  <1>12. Silent(m, v)
    <2>1. ASSUME NEW j \in DOMAIN q
          PROVE  /\ q[j].kind = "change" =>
                       /\ q[j].stream <= k.streams
                       /\ k.observed # NoStream => k.observed > q[j].stream
                 /\ q[j].kind = "event" =>
                       /\ q[j].stream > w.shut
                       /\ \A i \in 1..(j - 1) :
                             q[i].kind = "change" => q[j].stream > q[i].stream
      BY <1>0 DEF Inv, Silent
    <2>2. w.shut <= k.streams /\ (k.observed # NoStream => k.observed > w.shut)
      BY DEF Inv, Silent
    <2>3. v.shut <= m.streams /\ (m.observed # NoStream => m.observed > v.shut)
      BY <1>3, <2>1, <2>2 DEF Taken, SameStreams, SameObservation
    <2>4. ASSUME NEW j \in DOMAIN r
          PROVE  /\ r[j].kind = "change" =>
                       /\ r[j].stream <= m.streams
                       /\ m.observed # NoStream => m.observed > r[j].stream
                 /\ r[j].kind = "event" =>
                       /\ r[j].stream > v.shut
                       /\ \A i \in 1..(j - 1) :
                             r[i].kind = "change" => r[j].stream > r[i].stream
      <3>1. q[j + 1] = r[j] /\ j + 1 \in DOMAIN q /\ 1 \in 1..((j + 1) - 1)
        BY <1>3
      <3>2. r[j].kind = "event" => r[j].stream > v.shut
        BY <1>3, <2>1, <3>1 DEF Taken
      <3>3. QED
        BY <1>4, <2>1, <3>1, <3>2 DEF SameStreams, SameObservation
    <2>5. QED
      BY <1>1, <2>3, <2>4 DEF Silent
  <1>13. QED
    BY <1>6, <1>7, <1>8, <1>10, <1>11, <1>12 DEF Inv

(* The output is over, for the frames that wait or for later ones. *)
LEMMA EndKeeps ==
    ASSUME NEW k \in Conn, NEW h \in Handler, NEW cl \in Client, NEW w \in Wire,
           NEW c \in Command, Inv(k, h, cl, w, c), k.observed = NoStream,
           NEW m \in Conn, SameStreams(k, m), SameTails(k, m), SameClosed(k, m),
           m.observed = NoStream, m.listener = NoStream, ~m.pending, m.terminal,
           m.writes \in {k.writes, <<>>},
           NEW cm \in Client, ~cm.connected, NEW g \in Handler,
           IF m.writes = <<>>
           THEN g = h \/ g.phase = "idle"
           ELSE g = h
    PROVE  Inv(m, g, cm, w, c)
  <1>1. \A j \in DOMAIN m.writes : j \in DOMAIN k.writes /\ m.writes = k.writes
    OBVIOUS
  <1>2. Observations(m)
    BY DEF Inv, Observations, SameStreams, SameClosed
  <1>3. Awaited(m, g)
    <2>1. CASE g = h
      BY <1>1, <2>1 DEF Inv, Awaited, SameStreams
    <2>2. CASE g # h
      BY <1>1, <2>2 DEF Inv, Awaited, SameStreams, Asking
    <2>3. QED
      BY <2>1, <2>2
  <1>4. Answers(m, g, cm, c)
    BY DEF Answers, Told, Due
  <1>5. Order(m, w)
    BY <1>1, EventStreams DEF Inv, Order, SameStreams
  <1>6. Opened(m, w)
    <2>1. k.streams \in Nat /\ w.opened \in Nat /\ k.streams <= MaxStream
      BY DEF Inv, Observations, Conn, Wire
    <2>2. k.streams > w.opened => k.streams \in Stream
      BY <2>1, EventsAssumption DEF Stream
    <2>3. m.streams > w.opened =>
             /\ m.stream[m.streams].tail = k.stream[k.streams].tail
             /\ m.stream[m.streams].domain = k.stream[k.streams].domain
      BY <2>2 DEF SameStreams, SameTails
    <2>4. ASSUME NEW j \in DOMAIN m.writes
          PROVE  /\ Opens(m.writes[j]) =>
                    /\ m.writes[j].stream = m.streams
                    /\ m.streams > w.opened => Meets(m.writes[j], m.stream[m.streams].domain)
                    /\ m.streams > w.opened =>
                          /\ m.stream[m.streams].tail = <<>>
                          /\ m.observed = m.streams => m.pending
                 /\ m.writes[j].kind = "event" =>
                    m.writes[j].stream <= w.opened \/ \E i \in 1..(j - 1) : Opens(m.writes[i])
      BY <1>1, <2>1, <2>3, <2>4 DEF Inv, Opened, SameStreams, NoStream
    <2>5. QED
      BY <2>4 DEF Inv, Opened, SameStreams
  <1>7. Silent(m, w)
    BY <1>1 DEF Inv, Silent, SameStreams
  <1>8. QED
    BY <1>2, <1>3, <1>4, <1>5, <1>6, <1>7 DEF Inv

(***************************************************************************)
(* The actions                                                             *)
(***************************************************************************)

LEMMA SessionFields ==
    ASSUME NEW s \in Session
    PROVE  /\ \A x \in BOOLEAN : [s EXCEPT !.loaded = x] \in Session
           /\ \A x \in Nat : [s EXCEPT !.seq = x] \in Session
           /\ \A x \in Command : [s EXCEPT !.active = x] \in Session
           /\ \A x \in [Cmds -> Nat] : [s EXCEPT !.done = x] \in Session
  BY DEF Session

LEMMA HandlerFields ==
    ASSUME NEW h \in Handler
    PROVE  /\ \A x \in {"idle", "calling", "admitting", "returned", "answering", "flushing"} :
                 [h EXCEPT !.phase = x] \in Handler
           /\ \A x \in {"none", "get", "history", "prompt", "abort", "change", "approve"} :
                 [h EXCEPT !.kind = x] \in Handler
           /\ \A x \in Command : [h EXCEPT !.cmd = x] \in Handler
           /\ \A x \in {"none", "accepted", "uncertain", "rejected"} :
                 [h EXCEPT !.verdict = x] \in Handler
           /\ \A x \in Nat : [h EXCEPT !.snapshot = x] \in Handler
           /\ \A x \in BOOLEAN : [h EXCEPT !.admission = x] \in Handler
  BY DEF Handler

LEMMA ClientFields ==
    ASSUME NEW s \in Client
    PROVE  /\ \A x \in BOOLEAN : [s EXCEPT !.open = x] \in Client
           /\ \A x \in BOOLEAN : [s EXCEPT !.listening = x] \in Client
           /\ \A x \in Nat : [s EXCEPT !.last = x] \in Client
           /\ \A x \in Nat : [s EXCEPT !.view = x] \in Client
           /\ \A x \in {"none", "known", "reloading"} : [s EXCEPT !.gap = x] \in Client
           /\ \A x \in SUBSET Cmds : [s EXCEPT !.sent = x] \in Client
           /\ \A x \in SUBSET Command : [s EXCEPT !.answered = x] \in Client
           /\ \A x \in SUBSET Command : [s EXCEPT !.accepted = x] \in Client
           /\ \A x \in SUBSET Command : [s EXCEPT !.completed = x] \in Client
           /\ \A x \in BOOLEAN : [s EXCEPT !.connected = x] \in Client
  BY DEF Client

LEMMA InvNow ==
    ASSUME EventsInv
    PROVE  /\ session \in Session /\ conn \in Conn /\ handler \in Handler
           /\ client \in Client /\ wire \in Wire /\ session.active \in Command
           /\ Asks(handler) /\ Inv(conn, handler, client, wire, session.active)
  BY DEF EventsInv, EventsTypeOK, Inv, Session

LEMMA InvNext ==
    ASSUME session' \in Session, conn' \in Conn, handler' \in Handler, client' \in Client,
           wire' \in Wire, Asks(handler'),
           Inv(conn', handler', client', wire', session'.active)
    PROVE  EventsInv'
  BY DEF EventsInv, EventsTypeOK, Inv

LEMMA HandleEffect ==
    ASSUME NEW kind \in {"get", "history", "prompt", "abort", "change", "approve"}, NEW c \in Command,
           kind = "prompt" <=> c # None
    PROVE  /\ NoHandler \in Handler /\ NoHandler.phase = "idle"
           /\ Handle(kind, c) \in Handler /\ Asks(Handle(kind, c))
           /\ Handle(kind, c).phase = "calling" /\ Handle(kind, c).kind = kind
           /\ Handle(kind, c).cmd = c
  BY DEF NoHandler, Handle, Handler, Asks, Command

LEMMA NobodyHandles == NoHandler \in Handler /\ Asks(NoHandler) /\ NoHandler.phase = "idle"
  BY DEF NoHandler, Handler, Asks, Command

(* The handler goes on while none of its frames waits. *)
LEMMA HandlerMoves ==
    ASSUME NEW k \in Conn, NEW h \in Handler, NEW cl \in Client, NEW w \in Wire,
           NEW c \in Command, Inv(k, h, cl, w, c),
           NEW g \in Handler, NEW cm \in Client, NEW d \in Command,
           h.phase \notin {"answering", "flushing"},
           g.phase \in Asking /\ g.kind = "prompt" /\ k.observed # NoStream => k.pending,
           g.phase \in Asking /\ g.kind = "change" => k.observed = NoStream,
           g.phase \in {"calling", "admitting"} /\ g.kind = "prompt" => g.cmd # None,
           g.phase = "returned" =>
              IF g.kind = "prompt" THEN g.verdict # "none" /\ g.cmd # None
              ELSE g.cmd = None /\ g.verdict \in {"none", "rejected"},
           cm.answered = cl.answered, cm.connected = cl.connected,
           \A x \in Cmds : Pends(x, h) => Pends(x, g) \/ Told(x, k, cl),
           d # None => Due(d, k, g, cm)
    PROVE  Inv(k, g, cm, w, d)
  <1>1. Awaited(k, g)
    BY DEF Inv, Awaited
  <1>2. QED
    BY <1>1, HandlerKeeps

LEMMA GetSessionKeeps ==
    ASSUME EventsInv, NEW kind \in Observing, GetSession(kind)
    PROVE  EventsInv'
  <1>1. PICK g \in Handler : /\ g = Handle(kind, None) /\ Asks(g) /\ g.phase = "calling"
                             /\ g.kind = kind
    BY HandleEffect DEF Command
  <1>2. handler' = g /\ UNCHANGED <<session, conn, wire>> /\ handler.phase = "idle"
    BY <1>1 DEF GetSession, Receives
  <1>3. client' \in Client /\ client'.answered = client.answered
        /\ client'.connected = client.connected
    <2>1. PICK x \in {"none", "known", "reloading"} :
             x = IF client.gap = "known" THEN "reloading" ELSE client.gap
      BY InvNow DEF Client
    <2>2. client' = [client EXCEPT !.gap = x]
      BY <2>1 DEF GetSession
    <2>3. client' \in Client
      BY <2>1, <2>2, InvNow, ClientFields
    <2>4. QED
      BY <2>2, <2>3, InvNow DEF Client
  <1>4. \A x \in Cmds : ~Pends(x, handler)
    BY <1>2 DEF Pends, Asking
  <1>5. session.active # None => Due(session.active, conn, g, client')
    BY <1>3, <1>4, InvNow DEF Inv, Answers, Due, Told, Command
  <1>6. Inv(conn, g, client', wire, session.active)
    BY <1>1, <1>2, <1>3, <1>4, <1>5, InvNow, HandlerMoves
  <1>7. QED
    BY <1>1, <1>2, <1>3, <1>6, InvNow, InvNext

LEMMA ApproveTrustKeeps ==
    ASSUME EventsInv, ApproveTrust
    PROVE  EventsInv'
  <1>1. PICK g \in Handler : /\ g = Handle("approve", None) /\ Asks(g) /\ g.phase = "calling"
                             /\ g.kind = "approve"
    BY HandleEffect DEF Command
  <1>2. handler' = g /\ UNCHANGED <<session, conn, client, wire>> /\ handler.phase = "idle"
    BY <1>1 DEF ApproveTrust, Receives
  <1>4. \A x \in Cmds : ~Pends(x, handler)
    BY <1>2 DEF Pends, Asking
  <1>5. session.active # None => Due(session.active, conn, g, client)
    BY <1>4, InvNow DEF Inv, Answers, Due, Told, Command
  <1>6. Inv(conn, g, client, wire, session.active)
    BY <1>1, <1>2, <1>4, <1>5, InvNow, HandlerMoves
  <1>7. QED
    BY <1>1, <1>2, <1>6, InvNow, InvNext

LEMMA ListenKeeps ==
    ASSUME EventsInv, Listen
    PROVE  EventsInv'
  <1>1. client' \in Client /\ client'.answered = client.answered
        /\ client'.connected = client.connected
    <2>1. client' = [client EXCEPT !.listening = TRUE]
      BY DEF Listen
    <2>2. client' \in Client
      BY <2>1, InvNow, ClientFields
    <2>3. QED
      BY <2>1, <2>2, InvNow DEF Client
  <1>2. session.active # None => Due(session.active, conn, handler, client')
    BY <1>1, InvNow DEF Inv, Answers, Due, Told
  <1>3. Inv(conn, handler, client', wire, session.active)
    BY <1>1, <1>2, InvNow, HandlerKeeps DEF Inv
  <1>4. QED
    BY <1>1, <1>3, InvNow, InvNext DEF Listen

LEMMA PromptKeeps ==
    ASSUME EventsInv, NEW c \in Cmds, Prompt(c)
    PROVE  EventsInv'
  <1>1. PICK b \in BOOLEAN : b = (conn.observed # NoStream)
    OBVIOUS
  <1>2. c \in Command /\ c # None
    BY EventsAssumption DEF Command
  <1>3. PICK g0 \in Handler : /\ g0 = Handle("prompt", c) /\ Asks(g0) /\ g0.phase = "calling"
                              /\ g0.kind = "prompt" /\ g0.cmd = c
    BY <1>2, HandleEffect
  <1>4. PICK g \in Handler : g = [g0 EXCEPT !.admission = b]
    BY HandlerFields
  <1>5. g.phase = "calling" /\ g.kind = "prompt" /\ g.cmd = c /\ Asks(g)
    BY <1>2, <1>3, <1>4 DEF Handler, Asks
  <1>6. handler' = g /\ conn' = BeginAdmission(conn) /\ UNCHANGED <<session, wire>>
        /\ handler.phase = "idle"
    BY <1>1, <1>3, <1>4 DEF Prompt, Receives
  <1>7. BeginAdmission(conn) \in Conn
        /\ Inv(BeginAdmission(conn), g, client, wire, session.active)
    BY <1>2, <1>5, <1>6, InvNow, AdmissionKeeps
  <1>8. client' \in Client /\ client'.answered = client.answered
        /\ client'.connected = client.connected
    <2>1. client.sent \cup {c} \in SUBSET Cmds
      BY InvNow DEF Client
    <2>2. client' = [client EXCEPT !.sent = client.sent \cup {c}]
      BY DEF Prompt
    <2>3. client' \in Client
      BY <2>1, <2>2, InvNow, ClientFields
    <2>4. QED
      BY <2>2, <2>3, InvNow DEF Client
  <1>9. PICK k \in Conn : k = BeginAdmission(conn)
    BY <1>7
  <1>10. session.active # None => Due(session.active, k, g, client')
    BY <1>7, <1>8, <1>9 DEF Inv, Answers, Due, Told
  <1>11. Inv(k, g, client', wire, session.active)
    BY <1>7, <1>8, <1>9, <1>10, InvNow, HandlerKeeps DEF Inv
  <1>12. QED
    BY <1>5, <1>6, <1>8, <1>9, <1>11, InvNow, InvNext

LEMMA AbortKeeps ==
    ASSUME EventsInv, Abort
    PROVE  EventsInv'
  <1>1. PICK b \in BOOLEAN : b = (conn.observed # NoStream)
    OBVIOUS
  <1>3. PICK g0 \in Handler : /\ g0 = Handle("abort", None) /\ Asks(g0) /\ g0.phase = "calling"
                              /\ g0.kind = "abort"
    BY HandleEffect DEF Command
  <1>4. PICK g \in Handler : g = [g0 EXCEPT !.admission = b]
    BY HandlerFields
  <1>5. g.phase = "calling" /\ g.kind = "abort" /\ Asks(g)
    BY <1>3, <1>4 DEF Handler, Asks
  <1>6. handler' = g /\ conn' = BeginAdmission(conn) /\ UNCHANGED <<session, client, wire>>
        /\ handler.phase = "idle"
    BY <1>1, <1>3, <1>4 DEF Abort, Receives
  <1>7. BeginAdmission(conn) \in Conn
        /\ Inv(BeginAdmission(conn), g, client, wire, session.active)
    BY <1>5, <1>6, InvNow, AdmissionKeeps
  <1>8. QED
    BY <1>5, <1>6, <1>7, InvNow, InvNext

LEMMA ChangeSessionKeeps ==
    ASSUME EventsInv, ChangeSession
    PROVE  EventsInv'
  <1>1. PICK g \in Handler : /\ g = Handle("change", None) /\ Asks(g) /\ g.phase = "calling"
                             /\ g.kind = "change"
    BY HandleEffect DEF Command
  <1>2. /\ handler' = g /\ conn' = Dropped(conn) /\ UNCHANGED <<session, client, wire>>
        /\ handler.phase = "idle"
    BY <1>1 DEF ChangeSession, Receives
  <1>3. PICK k \in Conn : /\ k = Dropped(conn) /\ Inv(k, handler, client, wire, session.active)
                          /\ k.observed = NoStream
    BY InvNow, DroppedKeeps
  <1>4. \A x \in Cmds : ~Pends(x, handler)
    BY <1>2 DEF Pends, Asking
  <1>5. session.active # None => Due(session.active, k, g, client)
    BY <1>3, <1>4, InvNow DEF Inv, Answers, Due, Command
  <1>6. Inv(k, g, client, wire, session.active)
    BY <1>1, <1>2, <1>3, <1>4, <1>5, InvNow, HandlerMoves
  <1>7. QED
    BY <1>1, <1>2, <1>3, <1>6, InvNow, InvNext

LEMMA CancelStreamKeeps ==
    ASSUME EventsInv, CancelStream
    PROVE  EventsInv'
  <1>1. conn' = Dropped(conn) /\ UNCHANGED <<session, handler, client, wire>>
    BY DEF CancelStream
  <1>2. Dropped(conn) \in Conn /\ Inv(Dropped(conn), handler, client, wire, session.active)
    BY InvNow, DroppedKeeps
  <1>3. QED
    BY <1>1, <1>2, InvNow, InvNext

(* The session with an event more *)
LEMMA EmitKeeps ==
    ASSUME EventsInv, NEW c \in Command, NEW big \in BOOLEAN, Emit(c, big),
           c # None => Due(c, conn, handler, client)
    PROVE  /\ session' \in Session /\ session'.active \in {None, session.active}
           /\ conn' \in Conn
           /\ Inv(conn', handler, client, wire, session.active)
  <1>1. PICK n \in Nat : n = session.seq + 1 /\ n # 0
    BY InvNow DEF Session
  <1>2. PICK e \in EventType : e = Event(n, c, big) /\ e.cmd = c
    <2>1. n \in Nat \ {0}
      BY <1>1
    <2>2. Event(n, c, big) \in EventType
      BY <2>1 DEF Event, EventType
    <2>3. Event(n, c, big).cmd = c
      BY DEF Event
    <2>4. QED
      BY <2>2, <2>3
  <1>3. conn' = Accept(conn, e)
    BY <1>1, <1>2 DEF Emit
  <1>4. conn' \in Conn /\ Inv(conn', handler, client, wire, session.active)
    BY <1>2, <1>3, InvNow, AcceptKeeps
  <1>5. PICK d \in [Cmds -> Nat] :
           d = [x \in Cmds |-> IF x = c THEN n ELSE session.done[x]]
    BY <1>1, InvNow DEF Session
  <1>6. PICK a \in Command : /\ a = IF c = session.active THEN None ELSE session.active
                             /\ a \in {None, session.active}
    BY InvNow DEF Command
  <1>7. PICK s1 \in Session : s1 = [session EXCEPT !.seq = n]
    BY InvNow, SessionFields
  <1>8. PICK s2 \in Session : s2 = [s1 EXCEPT !.active = a]
    BY SessionFields
  <1>9. PICK s3 \in Session : s3 = [s2 EXCEPT !.done = d]
    BY SessionFields
  <1>10. session' = [session EXCEPT !.seq = n, !.active = a, !.done = d]
    BY <1>1, <1>5, <1>6, InvNow DEF Emit, Session
  <1>11. session' = s3
    BY <1>7, <1>8, <1>9, <1>10, InvNow DEF Session
  <1>12. session'.active = a
    BY <1>8, <1>9, <1>11 DEF Session
  <1>13. QED
    BY <1>4, <1>6, <1>11, <1>12

LEMMA StillDue ==
    ASSUME NEW k \in Conn, NEW h \in Handler, NEW cl \in Client, NEW w \in Wire,
           NEW c \in Command, Inv(k, h, cl, w, c), NEW d \in {None, c}
    PROVE  d # None => Due(d, k, h, cl)
  BY DEF Inv, Answers

LEMMA ConversationEventKeeps ==
    ASSUME EventsInv, ConversationEvent
    PROVE  EventsInv'
  <1>1. PICK big \in BOOLEAN : Emit(None, big)
    BY EventsAssumption DEF ConversationEvent
  <1>2. UNCHANGED <<handler, client, wire>>
    BY DEF ConversationEvent
  <1>3. /\ session' \in Session /\ session'.active \in {None, session.active}
        /\ conn' \in Conn
        /\ Inv(conn', handler, client, wire, session.active)
    BY <1>1, EmitKeeps DEF Command
  <1>4. PICK k \in Conn : k = conn'
    BY <1>3
  <1>5. session'.active \in Command
    BY <1>3 DEF Session
  <1>6. session'.active # None => Due(session'.active, k, handler, client)
    BY <1>3, <1>4, InvNow, StillDue
  <1>7. Inv(k, handler, client, wire, session'.active)
    BY <1>3, <1>4, <1>5, <1>6, InvNow, HandlerKeeps DEF Inv
  <1>8. QED
    BY <1>2, <1>3, <1>4, <1>7, InvNow, InvNext

LEMMA CommandCompletesKeeps ==
    ASSUME EventsInv, CommandCompletes
    PROVE  EventsInv'
  <1>1. PICK c \in Command : c = session.active
    BY InvNow
  <1>2. Emit(c, FALSE) /\ UNCHANGED <<handler, client, wire>>
    BY <1>1 DEF CommandCompletes
  <1>3. c # None => Due(c, conn, handler, client)
    BY <1>1, InvNow DEF Inv, Answers
  <1>4. /\ session' \in Session /\ session'.active \in {None, session.active}
        /\ conn' \in Conn
        /\ Inv(conn', handler, client, wire, session.active)
    BY <1>2, <1>3, EmitKeeps
  <1>5. PICK k \in Conn : k = conn'
    BY <1>4
  <1>6. session'.active \in Command
    BY <1>4 DEF Session
  <1>7. session'.active # None => Due(session'.active, k, handler, client)
    BY <1>4, <1>5, InvNow, StillDue
  <1>8. Inv(k, handler, client, wire, session'.active)
    BY <1>4, <1>5, <1>6, <1>7, InvNow, HandlerKeeps DEF Inv
  <1>9. QED
    BY <1>2, <1>4, <1>5, <1>8, InvNow, InvNext

LEMMA SessionLoadedKeeps ==
    ASSUME EventsInv, SessionLoaded
    PROVE  EventsInv'
  <1>1. handler.phase = "calling" /\ handler.kind \in Observing /\ handler.cmd = None
        /\ handler.verdict = "none"
    BY InvNow DEF SessionLoaded, Asks
  <1>2. session' \in Session /\ session'.active = session.active
    <2>1. session' = [session EXCEPT !.loaded = TRUE]
      BY DEF SessionLoaded
    <2>2. session' \in Session
      BY <2>1, InvNow, SessionFields
    <2>3. QED
      BY <2>1, <2>2, InvNow DEF Session
  <1>3. PICK n \in Nat : n = session.seq
    BY InvNow DEF Session
  <1>4. PICK g0 \in Handler : g0 = [handler EXCEPT !.phase = "returned"]
    BY InvNow, HandlerFields
  <1>5. PICK g \in Handler : g = [g0 EXCEPT !.snapshot = n]
    BY HandlerFields
  <1>6. handler' = g
    BY <1>3, <1>4, <1>5, InvNow DEF SessionLoaded, Handler
  <1>7. g.phase = "returned" /\ g.kind \in Observing /\ g.cmd = None /\ g.verdict = "none" /\ Asks(g)
    BY <1>1, <1>4, <1>5, InvNow DEF Handler, Asks
  <1>8. \A x \in Cmds : ~Pends(x, handler)
    BY <1>1 DEF Pends
  <1>9. session.active # None => Due(session.active, conn, g, client)
    BY <1>8, InvNow DEF Inv, Answers, Due, Command
  <1>10. Inv(conn, g, client, wire, session.active)
    BY <1>1, <1>7, <1>8, <1>9, InvNow, HandlerMoves
  <1>11. QED
    BY <1>2, <1>6, <1>7, <1>10, InvNow, InvNext DEF SessionLoaded

LEMMA LoadFailsKeeps ==
    ASSUME EventsInv, LoadFails
    PROVE  EventsInv'
  <1>1. handler.phase = "calling" /\ handler.kind \in Observing /\ handler.cmd = None
        /\ handler.verdict = "none"
    BY InvNow DEF LoadFails, Asks
  <1>4. PICK g0 \in Handler : g0 = [handler EXCEPT !.phase = "returned"]
    BY InvNow, HandlerFields
  <1>5. PICK g \in Handler : g = [g0 EXCEPT !.verdict = "rejected"]
    BY HandlerFields
  <1>6. handler' = g
    BY <1>4, <1>5, InvNow DEF LoadFails, Handler
  <1>7. g.phase = "returned" /\ g.kind \in Observing /\ g.cmd = None /\ g.verdict = "rejected" /\ Asks(g)
    BY <1>1, <1>4, <1>5, InvNow DEF Handler, Asks
  <1>8. \A x \in Cmds : ~Pends(x, handler)
    BY <1>1 DEF Pends
  <1>9. session.active # None => Due(session.active, conn, g, client)
    BY <1>8, InvNow DEF Inv, Answers, Due, Command
  <1>10. Inv(conn, g, client, wire, session.active)
    BY <1>1, <1>7, <1>8, <1>9, InvNow, HandlerMoves
  <1>11. QED
    BY <1>6, <1>7, <1>10, InvNow, InvNext DEF LoadFails

LEMMA AbortReturnsKeeps ==
    ASSUME EventsInv, AbortReturns
    PROVE  EventsInv'
  <1>1. handler.phase = "calling" /\ handler.kind = "abort" /\ handler.cmd = None
        /\ handler.verdict = "none"
    BY InvNow DEF AbortReturns, Asks
  <1>4. PICK g \in Handler : g = [handler EXCEPT !.phase = "returned"]
    BY InvNow, HandlerFields
  <1>6. handler' = g
    BY <1>4 DEF AbortReturns
  <1>7. g.phase = "returned" /\ g.kind = "abort" /\ g.cmd = None /\ g.verdict = "none" /\ Asks(g)
    BY <1>1, <1>4, InvNow DEF Handler, Asks
  <1>8. \A x \in Cmds : ~Pends(x, handler)
    BY <1>1 DEF Pends
  <1>9. session.active # None => Due(session.active, conn, g, client)
    BY <1>8, InvNow DEF Inv, Answers, Due, Command
  <1>10. Inv(conn, g, client, wire, session.active)
    BY <1>1, <1>7, <1>8, <1>9, InvNow, HandlerMoves
  <1>11. QED
    BY <1>6, <1>7, <1>10, InvNow, InvNext DEF AbortReturns

LEMMA CommandStartsKeeps ==
    ASSUME EventsInv, CommandStarts
    PROVE  EventsInv'
  <1>1. handler.phase = "calling" /\ handler.kind = "prompt" /\ handler.cmd # None
    BY InvNow DEF CommandStarts, Asks
  <1>2. PICK c \in Command : c = handler.cmd
    BY InvNow DEF Handler
  <1>3. session' \in Session /\ session'.active = c
    <2>1. session' = [session EXCEPT !.active = c]
      BY <1>2 DEF CommandStarts
    <2>2. session' \in Session
      BY <2>1, InvNow, SessionFields
    <2>3. QED
      BY <2>1, <2>2, InvNow DEF Session
  <1>4. PICK g \in Handler : g = [handler EXCEPT !.phase = "admitting"]
    BY InvNow, HandlerFields
  <1>5. handler' = g
    BY <1>4 DEF CommandStarts
  <1>6. g.phase = "admitting" /\ g.kind = "prompt" /\ g.cmd = c /\ Asks(g)
    BY <1>1, <1>2, <1>4, InvNow DEF Handler, Asks
  <1>7. \A x \in Cmds : Pends(x, handler) => Pends(x, g)
    BY <1>2, <1>6 DEF Pends, Asking
  <1>8. Due(c, conn, g, client)
    BY <1>6 DEF Due, Pends, Asking
  <1>9. conn.observed # NoStream => conn.pending
    BY <1>1, InvNow DEF Inv, Awaited, Asking
  <1>10. Inv(conn, g, client, wire, c)
    BY <1>1, <1>2, <1>6, <1>7, <1>8, <1>9, InvNow, HandlerMoves
  <1>11. QED
    BY <1>3, <1>5, <1>6, <1>10, InvNow, InvNext DEF CommandStarts

LEMMA CommandAdmittedKeeps ==
    ASSUME EventsInv, CommandAdmitted
    PROVE  EventsInv'
  <1>1. handler.phase = "admitting" /\ handler.kind = "prompt" /\ handler.cmd # None
    BY InvNow DEF CommandAdmitted, Asks, Inv, Awaited
  <1>2. PICK v \in {"accepted", "uncertain"} :
           handler' = [handler EXCEPT !.phase = "returned", !.verdict = v]
    BY DEF CommandAdmitted
  <1>3. PICK g0 \in Handler : g0 = [handler EXCEPT !.phase = "returned"]
    BY InvNow, HandlerFields
  <1>4. PICK g \in Handler : g = [g0 EXCEPT !.verdict = v]
    BY HandlerFields
  <1>5. handler' = g
    BY <1>2, <1>3, <1>4, InvNow DEF Handler
  <1>6. /\ g.phase = "returned" /\ g.kind = "prompt" /\ g.cmd = handler.cmd /\ g.verdict = v
        /\ Asks(g)
    BY <1>1, <1>3, <1>4, InvNow DEF Handler, Asks
  <1>7. \A x \in Cmds : Pends(x, handler) => Pends(x, g)
    BY <1>6 DEF Pends, Asking
  <1>8. session.active # None => Due(session.active, conn, g, client)
    BY <1>7, InvNow DEF Inv, Answers, Due, Command
  <1>9. conn.observed # NoStream => conn.pending
    BY <1>1, InvNow DEF Inv, Awaited, Asking
  <1>10. Inv(conn, g, client, wire, session.active)
    BY <1>1, <1>6, <1>7, <1>8, <1>9, InvNow, HandlerMoves
  <1>11. QED
    BY <1>5, <1>6, <1>10, InvNow, InvNext DEF CommandAdmitted

LEMMA CommandRejectedKeeps ==
    ASSUME EventsInv, CommandRejected
    PROVE  EventsInv'
  <1>1. handler.phase \in {"calling", "admitting"} /\ handler.kind = "prompt"
        /\ handler.cmd # None
    BY InvNow DEF CommandRejected, Inv, Awaited
  <1>2. PICK c \in Command : c = handler.cmd
    BY InvNow DEF Handler
  <1>3. Due(c, conn, handler, client)
    BY <1>1, <1>2 DEF Due, Pends, Asking
  <1>4. /\ session' \in Session /\ session'.active \in {None, session.active}
        /\ conn' \in Conn
        /\ Inv(conn', handler, client, wire, session.active)
    <2>1. CASE session.loaded
      <3>1. Emit(c, FALSE)
        BY <1>2, <2>1 DEF CommandRejected
      <3>2. QED
        BY <1>3, <3>1, EmitKeeps
    <2>2. CASE ~session.loaded
      BY <2>2, InvNow DEF CommandRejected
    <2>3. QED
      BY <2>1, <2>2
  <1>5. PICK k \in Conn : k = conn'
    BY <1>4
  <1>6. PICK d \in Command : d = session'.active
    BY <1>4 DEF Session
  <1>7. PICK g0 \in Handler : g0 = [handler EXCEPT !.phase = "returned"]
    BY InvNow, HandlerFields
  <1>8. PICK g \in Handler : g = [g0 EXCEPT !.verdict = "rejected"]
    BY HandlerFields
  <1>9. handler' = g
    BY <1>7, <1>8, InvNow DEF CommandRejected, Handler
  <1>10. /\ g.phase = "returned" /\ g.kind = "prompt" /\ g.cmd = c /\ g.verdict = "rejected"
         /\ Asks(g)
    BY <1>1, <1>2, <1>7, <1>8, InvNow DEF Handler, Asks
  <1>11. \A x \in Cmds : Pends(x, handler) => Pends(x, g)
    BY <1>2, <1>10 DEF Pends, Asking
  <1>12. d # None => Due(d, k, g, client)
    <2>1. d # None => Due(d, k, handler, client)
      BY <1>4, <1>5, <1>6, InvNow, StillDue
    <2>2. QED
      BY <1>11, <2>1 DEF Due, Command
  <1>13. k.observed # NoStream => k.pending
    BY <1>1, <1>4, <1>5, InvNow DEF Inv, Awaited, Asking
  <1>14. Inv(k, g, client, wire, d)
    BY <1>1, <1>2, <1>4, <1>5, <1>10, <1>11, <1>12, <1>13, InvNow, HandlerMoves
  <1>15. QED
    BY <1>4, <1>5, <1>6, <1>9, <1>10, <1>14, InvNow, InvNext DEF CommandRejected

(* The domain forgets the listener. *)
LEMMA UnheardKeeps ==
    ASSUME NEW k \in Conn, NEW h \in Handler, NEW cl \in Client, NEW w \in Wire,
           NEW c \in Command, Inv(k, h, cl, w, c),
           NEW m \in Conn, m = [k EXCEPT !.listener = NoStream]
    PROVE  Inv(m, h, cl, w, c) /\ m.observed = k.observed /\ m.pending = k.pending
  <1>1. /\ m.stream = k.stream /\ m.streams = k.streams /\ m.observed = k.observed
        /\ m.listener = NoStream /\ m.pending = k.pending /\ m.buffer = k.buffer
        /\ m.writes = k.writes /\ m.terminal = k.terminal
    BY DEF Conn
  <1>2. Observations(m)
    BY <1>1 DEF Inv, Observations
  <1>3. Awaited(m, h)
    BY <1>1 DEF Inv, Awaited
  <1>4. Answers(m, h, cl, c)
    BY <1>1 DEF Inv, Answers, Due, Told
  <1>5. Order(m, w)
    BY <1>1 DEF Inv, Order
  <1>6. Opened(m, w)
    BY <1>1 DEF Inv, Opened
  <1>7. Silent(m, w)
    BY <1>1 DEF Inv, Silent
  <1>8. QED
    BY <1>1, <1>2, <1>3, <1>4, <1>5, <1>6, <1>7 DEF Inv

LEMMA SessionChangesKeeps ==
    ASSUME EventsInv, SessionChanges
    PROVE  EventsInv'
  <1>1. /\ handler.phase = "calling" /\ handler.kind \in {"change", "approve"}
        /\ handler.cmd = None /\ handler.verdict = "none"
    BY InvNow DEF SessionChanges, Asks
  <1>2. PICK g \in Handler : g = [handler EXCEPT !.phase = "returned"]
    BY InvNow, HandlerFields
  <1>3. handler' = g /\ UNCHANGED <<client, wire>>
    BY <1>2 DEF SessionChanges
  <1>4. /\ g.phase = "returned" /\ g.kind = handler.kind /\ g.cmd = None /\ g.verdict = "none"
        /\ Asks(g)
    BY <1>1, <1>2, InvNow DEF Handler, Asks
  <1>5. session' \in Session /\ session'.active \in {None, session.active}
    <2>1. CASE session' = session
      BY <2>1, InvNow
    <2>2. CASE session' = [session EXCEPT !.loaded = FALSE, !.active = None]
      <3>1. PICK s1 \in Session : s1 = [session EXCEPT !.loaded = FALSE]
        BY InvNow, SessionFields
      <3>2. PICK s2 \in Session : s2 = [s1 EXCEPT !.active = None]
        BY SessionFields DEF Command
      <3>3. session' = s2
        BY <2>2, <3>1, <3>2, InvNow DEF Session
      <3>4. QED
        BY <3>2, <3>3 DEF Session
    <2>3. QED
      BY <2>1, <2>2 DEF SessionChanges
  <1>6. PICK d \in Command : d = session'.active
    BY <1>5 DEF Session
  <1>7. PICK m \in Conn : m = [conn EXCEPT !.listener = NoStream]
    BY InvNow, ConnFields
  <1>8. conn' \in {conn, m}
    BY <1>7 DEF SessionChanges
  <1>9. PICK k \in Conn : /\ k = conn' /\ Inv(k, handler, client, wire, session.active)
                          /\ k.observed = conn.observed
    BY <1>7, <1>8, InvNow, UnheardKeeps
  <1>10. \A x \in Cmds : ~Pends(x, handler)
    BY <1>1 DEF Pends
  <1>11. d # None => Due(d, k, g, client)
    <2>1. d # None => Due(d, k, handler, client)
      BY <1>5, <1>6, <1>9, InvNow, StillDue
    <2>2. QED
      BY <1>10, <2>1 DEF Due, Command
  <1>12. g.kind = "change" => k.observed = NoStream
    BY <1>1, <1>4, <1>9, InvNow DEF Inv, Awaited, Asking
  <1>13. Inv(k, g, client, wire, d)
    BY <1>1, <1>4, <1>6, <1>9, <1>10, <1>11, <1>12, InvNow, HandlerMoves
  <1>14. QED
    BY <1>3, <1>4, <1>5, <1>6, <1>9, <1>13, InvNow, InvNext

LEMMA AnswerFailsKeeps ==
    ASSUME EventsInv, AnswerFails
    PROVE  EventsInv'
  <1>1. handler.phase = "returned" /\ conn.terminal /\ handler' = NoHandler
        /\ UNCHANGED <<session, conn, client, wire>>
    BY DEF AnswerFails
  <1>2. \A x \in Cmds : Told(x, conn, client)
    BY <1>1, InvNow DEF Inv, Answers, Told
  <1>3. session.active # None => Due(session.active, conn, NoHandler, client)
    BY <1>2, InvNow DEF Due, Command
  <1>4. NoHandler.phase \notin Asking /\ NoHandler.phase # "returned"
    BY NobodyHandles DEF Asking
  <1>5. Inv(conn, NoHandler, client, wire, session.active)
    BY <1>1, <1>2, <1>3, <1>4, InvNow, NobodyHandles, HandlerMoves DEF Asking
  <1>6. QED
    BY <1>1, <1>5, InvNow, InvNext, NobodyHandles

LEMMA AnswerActionKeeps ==
    ASSUME EventsInv, Seen, Answer
    PROVE  EventsInv'
  <1>. DEFINE opens == handler.kind \in Observing /\ handler.verdict = "none"
  <1>1. handler.phase = "returned" /\ ~conn.terminal /\ UNCHANGED <<session, client, wire>>
        /\ (opens => CanObserve)
    BY DEF Answer
  <1>2. PICK d \in Nat : d = session.seq
    BY InvNow DEF Session
  <1>3. PICK m \in Conn :
           /\ m = IF opens THEN EnsureObservation(conn, session.seq) ELSE conn
           /\ m = conn \/ (opens /\ Started(conn, m, d) /\ m # conn)
    <2>1. CASE opens /\ conn.observed = NoStream
      <3>1. conn.streams < MaxStream
        BY <1>1, <2>1 DEF CanObserve
      <3>2. PICK m \in Conn : m = EnsureObservation(conn, d) /\ Started(conn, m, d)
        BY <2>1, <3>1, InvNow, EnsureEffect
      <3>3. m # conn
        BY <3>2, InvNow DEF Started, Conn
      <3>4. QED
        BY <1>2, <2>1, <3>2, <3>3
    <2>2. CASE ~(opens /\ conn.observed = NoStream)
      BY <2>2, InvNow DEF EnsureObservation
    <2>3. QED
      BY <2>1, <2>2
  <1>4. PICK kind : /\ IF opens THEN kind \in {handler.kind, "rejected"}
                       ELSE kind = IF handler.verdict = "none" THEN handler.kind
                                   ELSE handler.verdict
                    /\ conn' = Send(m, Frame(kind, m.streams, 0, Answered(m), handler.cmd,
                                             "handler"))
    BY <1>3 DEF Answer
  <1>5. PICK b \in BOOLEAN : b = (handler.admission \/ m # conn)
    OBVIOUS
  <1>6. PICK g0 \in Handler : g0 = [handler EXCEPT !.phase = "answering"]
    BY InvNow, HandlerFields
  <1>7. PICK g \in Handler : g = [g0 EXCEPT !.admission = b]
    BY HandlerFields
  <1>8. handler' = g
    <2>1. handler' = [handler EXCEPT !.phase = "answering", !.admission = @ \/ m # conn]
      BY <1>3 DEF Answer
    <2>2. QED
      BY <1>5, <1>6, <1>7, <2>1, InvNow DEF Handler
  <1>9. g.phase = "answering" /\ Asks(g)
    BY <1>1, <1>6, <1>7, InvNow DEF Handler, Asks
  <1>10. IF handler.kind = "prompt" THEN handler.verdict # "none" /\ handler.cmd # None
         ELSE handler.cmd = None /\ handler.verdict \in {"none", "rejected"}
    BY <1>1, InvNow DEF Inv, Awaited
  <1>11. handler.kind # "none"
    BY <1>1, InvNow DEF Asks
  <1>12. /\ kind \in AnswerKind /\ (kind = "change" => handler.kind = "change")
         /\ handler.kind = "prompt" => kind \in {"accepted", "uncertain", "rejected"}
         /\ opens => kind \in Observing \cup {"rejected"} /\ (kind = "get" => handler.kind = "get")
    BY <1>4, <1>10, <1>11, InvNow DEF Handler, AnswerKind
  <1>13. PICK n \in Nat : /\ n = Answered(m)
                          /\ m # conn => n <= d /\ (handler.kind = "get" => n = d)
    BY <1>2, InvNow DEF Answered, Handler, Seen
  <1>14. m.streams \in Stream \cup {NoStream}
    <2>1. CASE m = conn
      BY <2>1, InvNow DEF Inv, Observations, Conn, Stream, NoStream
    <2>2. CASE m # conn
      BY <1>3, <2>2 DEF Started
    <2>3. QED
      BY <2>1, <2>2
  <1>15. PICK f \in FrameType :
            /\ f = Frame(kind, m.streams, 0, n, handler.cmd, "handler")
            /\ f.kind = kind /\ f.stream = m.streams /\ f.n = n /\ f.cmd = handler.cmd
            /\ f.waiter = "handler"
    <2>1. handler.cmd \in Command
      BY InvNow DEF Handler
    <2>2. kind \in AnswerKind \cup {"event", "closed"}
      BY <1>12
    <2>3. Frame(kind, m.streams, 0, n, handler.cmd, "handler") \in FrameType
      BY <1>14, <2>1, <2>2 DEF Frame, FrameType
    <2>4. QED
      BY <2>3 DEF Frame
  <1>16. PICK k \in Conn : k = Send(m, f) /\ Sends(m, k, f)
    BY SendEffect
  <1>17. conn' = k
    BY <1>4, <1>13, <1>15, <1>16
  <1>18. m # conn => Opens(f)
    BY <1>3, <1>10, <1>12, <1>15 DEF Opens
  <1>19. Inv(k, g, client, wire, session.active)
    <2>1. PICK x \in Conn : x = conn /\ Inv(x, handler, client, wire, session.active)
      BY InvNow
    <2>2. m = x \/ (Started(x, m, d) /\ handler.kind \in Observing)
      BY <1>3, <2>1
    <2>3. m # x => Meets(f, d)
      BY <1>3, <1>12, <1>13, <1>15, <2>1 DEF Meets
    <2>4. f.cmd # None => handler.kind = "prompt"
      BY <1>10, <1>15
    <2>5. /\ f.kind \in AnswerKind
          /\ handler.kind = "prompt" => f.kind \in {"accepted", "uncertain", "rejected"}
          /\ f.kind = "change" => handler.kind = "change"
      BY <1>12, <1>15
    <2>6. QED
      BY <1>1, <1>9, <1>15, <1>16, <1>18, <2>1, <2>2, <2>3, <2>4, <2>5, InvNow, AnswerKeeps
  <1>20. QED
    BY <1>1, <1>8, <1>9, <1>17, <1>19, InvNow, InvNext

LEMMA EndedEffect ==
    ASSUME NEW k \in Conn, NEW q \in Seq(FrameType)
    PROVE  /\ [k EXCEPT !.terminal = TRUE] \in Conn
           /\ [k EXCEPT !.terminal = TRUE, !.writes = q] \in Conn
           /\ \A m \in {[k EXCEPT !.terminal = TRUE], [k EXCEPT !.terminal = TRUE, !.writes = q]} :
                 /\ SameStreams(k, m) /\ SameTails(k, m) /\ SameClosed(k, m)
                 /\ m.observed = k.observed /\ m.listener = k.listener
                 /\ m.pending = k.pending /\ m.terminal
           /\ [k EXCEPT !.terminal = TRUE].writes = k.writes
           /\ [k EXCEPT !.terminal = TRUE, !.writes = q].writes = q
  <1>1. PICK n \in Conn : n = [k EXCEPT !.terminal = TRUE]
    BY ConnFields
  <1>2. PICK m \in Conn : m = [n EXCEPT !.writes = q]
    BY ConnFields
  <1>3. m = [k EXCEPT !.terminal = TRUE, !.writes = q]
    BY <1>1, <1>2 DEF Conn
  <1>4. \A x \in {n, m} :
                 /\ SameStreams(k, x) /\ SameTails(k, x) /\ SameClosed(k, x)
                 /\ x.observed = k.observed /\ x.listener = k.listener
                 /\ x.pending = k.pending /\ x.terminal
    BY <1>1, <1>2 DEF SameStreams, SameTails, SameClosed, Conn
  <1>5. n.writes = k.writes /\ m.writes = q
    BY <1>1, <1>2 DEF Conn
  <1>6. QED
    BY <1>1, <1>2, <1>3, <1>4, <1>5

LEMMA InputEndsKeeps ==
    ASSUME EventsInv, InputEnds
    PROVE  EventsInv'
  <1>1. PICK k \in Conn : /\ k = Dropped(conn) /\ Inv(k, handler, client, wire, session.active)
                          /\ k.observed = NoStream /\ k.listener = NoStream /\ ~k.pending
    BY InvNow, DroppedKeeps
  <1>2. k.writes \in Seq(FrameType)
    BY DEF Conn
  <1>3. PICK m \in Conn :
           /\ m = [k EXCEPT !.terminal = TRUE]
           /\ SameStreams(k, m) /\ SameTails(k, m) /\ SameClosed(k, m)
           /\ m.observed = k.observed /\ m.listener = k.listener
           /\ m.pending = k.pending /\ m.terminal /\ m.writes = k.writes
    BY <1>2, EndedEffect
  <1>4. conn' = m /\ UNCHANGED <<session, handler, wire>>
    BY <1>1, <1>3 DEF InputEnds
  <1>5. client' \in Client /\ ~client'.connected
    <2>1. client' = [client EXCEPT !.connected = FALSE]
      BY DEF InputEnds
    <2>2. client' \in Client
      BY <2>1, InvNow, ClientFields
    <2>3. QED
      BY <2>1, <2>2, InvNow DEF Client
  <1>6. Inv(m, handler, client', wire, session.active)
    BY <1>1, <1>3, <1>5, InvNow, EndKeeps
  <1>7. QED
    BY <1>4, <1>5, <1>6, InvNow, InvNext

LEMMA OutputFailsKeeps ==
    ASSUME EventsInv, OutputFails
    PROVE  EventsInv'
  <1>1. PICK k \in Conn : /\ k = Dropped(conn) /\ Inv(k, handler, client, wire, session.active)
                          /\ k.observed = NoStream /\ k.listener = NoStream /\ ~k.pending
    BY InvNow, DroppedKeeps
  <1>2. <<>> \in Seq(FrameType)
    OBVIOUS
  <1>3. PICK m \in Conn :
           /\ m = [k EXCEPT !.terminal = TRUE, !.writes = <<>>]
           /\ SameStreams(k, m) /\ SameTails(k, m) /\ SameClosed(k, m)
           /\ m.observed = k.observed /\ m.listener = k.listener
           /\ m.pending = k.pending /\ m.terminal /\ m.writes = <<>>
    BY <1>2, EndedEffect
  <1>4. conn' = m /\ UNCHANGED <<session, wire>>
    BY <1>1, <1>3 DEF OutputFails
  <1>5. client' \in Client /\ ~client'.connected
    <2>1. client' = [client EXCEPT !.connected = FALSE]
      BY DEF OutputFails
    <2>2. client' \in Client
      BY <2>1, InvNow, ClientFields
    <2>3. QED
      BY <2>1, <2>2, InvNow DEF Client
  <1>6. handler' \in Handler /\ Asks(handler') /\ (handler' = handler \/ handler'.phase = "idle")
    BY InvNow, NobodyHandles DEF OutputFails
  <1>7. PICK g \in Handler : g = handler'
    BY <1>6
  <1>8. Inv(m, g, client', wire, session.active)
    <2>1. IF m.writes = <<>> THEN g = handler \/ g.phase = "idle" ELSE g = handler
      BY <1>3, <1>6, <1>7
    <2>2. /\ m.observed = NoStream /\ m.listener = NoStream /\ ~m.pending /\ m.terminal
          /\ m.writes \in {k.writes, <<>>}
          /\ SameStreams(k, m) /\ SameTails(k, m) /\ SameClosed(k, m)
      BY <1>1, <1>3
    <2>3. PICK cm \in Client : cm = client' /\ ~cm.connected
      BY <1>5
    <2>4. PICK c \in Command : c = session.active
      BY InvNow
    <2>5. g \in Handler /\ handler \in Handler /\ wire \in Wire
          /\ k.observed = NoStream /\ Inv(k, handler, client, wire, c) /\ client \in Client
      BY <1>1, <1>7, <2>4, InvNow
    <2>6. Inv(m, g, cm, wire, c)
      BY <2>1, <2>2, <2>3, <2>5, EndKeeps
    <2>7. QED
      BY <2>3, <2>4, <2>6
  <1>9. QED
    BY <1>4, <1>5, <1>6, <1>7, <1>8, InvNow, InvNext

(* The frame f has been written. *)
LEMMA WrittenEffect ==
    ASSUME conn \in Conn, conn.writes # <<>>, NEW f \in FrameType, f = Head(conn.writes),
           f.kind = "event" => f.stream \in Stream
    PROVE  /\ Written(f) \in Conn
           /\ \A m \in {Written(f)} \cup
                       {[Written(f) EXCEPT !.stream[s].sending = FALSE] : s \in Stream} :
                 /\ m \in Conn
                 /\ SameStreams(conn, m) /\ SameTails(conn, m) /\ SameClosed(conn, m)
                 /\ SameObservation(conn, m)
                 /\ m.pending = conn.pending /\ m.buffer = conn.buffer
                 /\ m.writes = Tail(conn.writes)
  <1>1. conn.stream \in [Stream -> StreamRecord] /\ f.seq \in Nat
    BY DEF Conn, FrameType
  <1>2. PICK q \in Seq(FrameType) : q = Tail(conn.writes)
    BY QueueTaken DEF Conn
  <1>3. PICK st \in [Stream -> StreamRecord] :
           st = IF f.kind = "event" THEN [conn.stream EXCEPT ![f.stream].sent = f.seq]
                ELSE conn.stream
    BY <1>1, StreamFields
  <1>4. PICK k0 \in Conn : k0 = [conn EXCEPT !.writes = q]
    BY ConnFields
  <1>5. PICK k \in Conn : k = [k0 EXCEPT !.stream = st]
    BY ConnFields
  <1>6. Written(f) = k
    BY <1>2, <1>3, <1>4, <1>5 DEF Written, Conn
  <1>7. \A s \in Stream : /\ st[s].domain = conn.stream[s].domain
                          /\ st[s].tail = conn.stream[s].tail
                          /\ st[s].closed = conn.stream[s].closed
    <2>1. \A s \in Stream : conn.stream[s] \in StreamRecord
      BY <1>1
    <2>2. CASE f.kind = "event"
      <3>1. \A s \in Stream : st[s] \in {conn.stream[s], [conn.stream[s] EXCEPT !.sent = f.seq]}
        BY <1>1, <1>3, <2>2
      <3>2. QED
        BY <2>1, <3>1 DEF StreamRecord
    <2>3. CASE f.kind # "event"
      BY <1>3, <2>3
    <2>4. QED
      BY <2>2, <2>3
  <1>8. /\ SameStreams(conn, k) /\ SameTails(conn, k) /\ SameClosed(conn, k)
        /\ SameObservation(conn, k)
        /\ k.pending = conn.pending /\ k.buffer = conn.buffer /\ k.writes = q
    BY <1>4, <1>5, <1>7
    DEF SameStreams, SameTails, SameClosed, SameObservation, Conn
  <1>9. ASSUME NEW s \in Stream
        PROVE  \E n \in Conn :
                 /\ [k EXCEPT !.stream[s].sending = FALSE] = n
                 /\ SameStreams(conn, n) /\ SameTails(conn, n) /\ SameClosed(conn, n)
                 /\ SameObservation(conn, n)
                 /\ n.pending = conn.pending /\ n.buffer = conn.buffer /\ n.writes = q
    <2>1. PICK su \in [Stream -> StreamRecord] : su = [st EXCEPT ![s].sending = FALSE]
      BY StreamFields
    <2>2. PICK n \in Conn : n = [k EXCEPT !.stream = su]
      BY ConnFields
    <2>3. [k EXCEPT !.stream[s].sending = FALSE] = n
      BY <1>5, <2>1, <2>2 DEF Conn
    <2>4. \A r \in Stream : /\ su[r].domain = conn.stream[r].domain
                            /\ su[r].tail = conn.stream[r].tail
                            /\ su[r].closed = conn.stream[r].closed
      BY <1>7, <2>1 DEF StreamRecord
    <2>5. /\ SameStreams(conn, n) /\ SameTails(conn, n) /\ SameClosed(conn, n)
          /\ SameObservation(conn, n)
          /\ n.pending = conn.pending /\ n.buffer = conn.buffer /\ n.writes = q
      BY <1>4, <1>5, <2>2, <2>4
      DEF SameStreams, SameTails, SameClosed, SameObservation, Conn
    <2>6. QED
      BY <2>3, <2>5
  <1>10. ASSUME NEW m \in {k} \cup {[k EXCEPT !.stream[s].sending = FALSE] : s \in Stream}
         PROVE  /\ m \in Conn
                /\ SameStreams(conn, m) /\ SameTails(conn, m) /\ SameClosed(conn, m)
                /\ SameObservation(conn, m)
                /\ m.pending = conn.pending /\ m.buffer = conn.buffer /\ m.writes = q
    <2>1. CASE m = k
      BY <1>8, <2>1
    <2>2. ASSUME NEW s \in Stream, m = [k EXCEPT !.stream[s].sending = FALSE]
          PROVE  \E n \in Conn :
                   /\ m = n
                   /\ SameStreams(conn, n) /\ SameTails(conn, n) /\ SameClosed(conn, n)
                   /\ SameObservation(conn, n)
                   /\ n.pending = conn.pending /\ n.buffer = conn.buffer /\ n.writes = q
      BY <1>9, <2>2
    <2>3. QED
      BY <2>1, <2>2
  <1>11. QED
    BY <1>2, <1>6, <1>10

(* The client takes a frame. *)
LEMMA ReadEffect ==
    ASSUME client \in Client, NEW f \in FrameType, Read(f),
           f.kind # "event" /\ f.cmd # None => f.kind \in {"accepted", "uncertain", "rejected"}
    PROVE  /\ client' \in Client
           /\ client'.connected => client.connected
           /\ client.answered \subseteq client'.answered
           /\ f.kind # "event" /\ f.cmd # None => f.cmd \in client'.answered
  <1>1. f.n \in Nat /\ f.seq \in Nat /\ f.cmd \in Command
        /\ f.kind \in AnswerKind \cup {"event", "closed"}
    BY DEF FrameType
  <1>2. CASE f.kind \in Observing
    <2>1. PICK x \in {"none", "known", "reloading"} :
             x = IF client.gap = "reloading" THEN "none" ELSE client.gap
      BY DEF Client
    <2>2. PICK a1 \in Client : a1 = [client EXCEPT !.open = TRUE]
      BY ClientFields
    <2>3. PICK a2 \in Client : a2 = [a1 EXCEPT !.last = f.n]
      BY <1>1, ClientFields
    <2>4. PICK a3 \in Client : a3 = [a2 EXCEPT !.view = f.n]
      BY <1>1, ClientFields
    <2>5. PICK a4 \in Client : a4 = [a3 EXCEPT !.gap = x]
      BY ClientFields
    <2>6. client' = [client EXCEPT !.open = TRUE, !.last = f.n, !.view = f.n, !.gap = x]
      BY <1>2, <2>1 DEF Read, Client
    <2>7. client' = a4
      BY <2>2, <2>3, <2>4, <2>5, <2>6 DEF Client
    <2>8. a4.connected = client.connected /\ a4.answered = client.answered
      BY <2>2, <2>3, <2>4, <2>5 DEF Client
    <2>9. QED
      BY <1>2, <2>7, <2>8
  <1>3. CASE f.kind = "event"
    <2>1. CASE Fresh(f) /\ f.seq = client.last + 1
      <3>1. PICK x \in SUBSET Command : x = client.completed \cup ({f.cmd} \ {None})
        BY <1>1 DEF Client
      <3>2. PICK a1 \in Client : a1 = [client EXCEPT !.last = f.seq]
        BY <1>1, ClientFields
      <3>3. PICK a2 \in Client : a2 = [a1 EXCEPT !.view = f.n]
        BY <1>1, ClientFields
      <3>4. PICK a3 \in Client : a3 = [a2 EXCEPT !.completed = x]
        BY ClientFields
      <3>5. client' = [client EXCEPT !.last = f.seq, !.view = f.n, !.completed = x]
        BY <1>3, <2>1, <3>1 DEF Read, Client
      <3>6. client' = a3
        BY <3>2, <3>3, <3>4, <3>5 DEF Client
      <3>7. a3.connected = client.connected /\ a3.answered = client.answered
        BY <3>2, <3>3, <3>4 DEF Client
      <3>8. QED
        BY <1>3, <3>6, <3>7
    <2>2. CASE Fresh(f) /\ f.seq # client.last + 1
      <3>1. PICK a1 \in Client : a1 = [client EXCEPT !.last = f.seq]
        BY <1>1, ClientFields
      <3>2. PICK a2 \in Client : a2 = [a1 EXCEPT !.gap = "known"]
        BY ClientFields
      <3>3. client' = [client EXCEPT !.last = f.seq, !.gap = "known"]
        BY <1>3, <2>2 DEF Read
      <3>4. client' = a2
        BY <3>1, <3>2, <3>3 DEF Client
      <3>5. a2.connected = client.connected /\ a2.answered = client.answered
        BY <3>1, <3>2 DEF Client
      <3>6. QED
        BY <1>3, <3>4, <3>5
    <2>3. CASE ~Fresh(f)
      <3>1. client' = client
        BY <1>3, <2>3 DEF Read
      <3>2. QED
        BY <1>3, <3>1
    <2>4. QED
      BY <2>1, <2>2, <2>3
  <1>4. CASE f.kind = "closed"
    <2>1. client' = [client EXCEPT !.connected = FALSE]
      BY <1>4 DEF Read
    <2>2. client' \in Client
      BY <2>1, ClientFields
    <2>3. ~client'.connected /\ client'.answered = client.answered
      BY <2>1 DEF Client
    <2>4. QED
      BY <1>4, <2>2, <2>3
  <1>5. CASE f.kind \in {"accepted", "uncertain", "rejected"}
    <2>1. PICK x \in {"none", "known", "reloading"} :
             x = IF Opens(f) /\ client.gap = "reloading" THEN "known" ELSE client.gap
      BY DEF Client
    <2>2. PICK y \in SUBSET Command : y = client.answered \cup ({f.cmd} \ {None})
      BY <1>1 DEF Client
    <2>3. PICK z \in SUBSET Command :
             z = IF f.kind = "accepted" THEN client.accepted \cup {f.cmd} ELSE client.accepted
      BY <1>1 DEF Client
    <2>4. PICK a1 \in Client : a1 = [client EXCEPT !.answered = y]
      BY ClientFields
    <2>5. PICK a2 \in Client : a2 = [a1 EXCEPT !.gap = x]
      BY ClientFields
    <2>6. PICK a3 \in Client : a3 = [a2 EXCEPT !.accepted = z]
      BY ClientFields
    <2>7. client' = [client EXCEPT !.answered = y, !.gap = x, !.accepted = z]
      BY <1>5, <2>1, <2>2, <2>3 DEF Read, Client
    <2>8. client' = a3
      BY <2>4, <2>5, <2>6, <2>7 DEF Client
    <2>9. a3.connected = client.connected /\ a3.answered = y
      BY <2>4, <2>5, <2>6 DEF Client
    <2>10. QED
      BY <2>2, <2>8, <2>9
  <1>6. CASE f.kind = "change"
    <2>1. PICK a1 \in Client : a1 = [client EXCEPT !.open = FALSE]
      BY ClientFields
    <2>2. PICK a2 \in Client : a2 = [a1 EXCEPT !.listening = FALSE]
      BY ClientFields
    <2>3. PICK a3 \in Client : a3 = [a2 EXCEPT !.last = 0]
      BY ClientFields
    <2>4. PICK a4 \in Client : a4 = [a3 EXCEPT !.accepted = {}]
      BY ClientFields
    <2>5. client' = [client EXCEPT !.open = FALSE, !.listening = FALSE, !.last = 0,
                                   !.accepted = {}]
      BY <1>6 DEF Read
    <2>6. client' = a4
      BY <2>1, <2>2, <2>3, <2>4, <2>5 DEF Client
    <2>7. a4.connected = client.connected /\ a4.answered = client.answered
      BY <2>1, <2>2, <2>3, <2>4 DEF Client
    <2>8. QED
      BY <1>6, <2>6, <2>7
  <1>7. CASE f.kind \in {"abort", "approve"}
    <2>1. client' = client
      BY <1>7 DEF Read
    <2>2. QED
      BY <1>7, <2>1
  <1>8. QED
    BY <1>1, <1>2, <1>3, <1>4, <1>5, <1>6, <1>7 DEF AnswerKind

(* What the wire remembers of a frame. *)
LEMMA WireEffect ==
    ASSUME wire \in Wire, NEW f \in FrameType,
           wire' = CASE f.kind = "event" ->
                          [wire EXCEPT !.stream = f.stream, !.seq = f.seq, !.n = f.n]
                    [] Opens(f) -> [wire EXCEPT !.opened = f.stream]
                    [] f.kind = "change" -> [wire EXCEPT !.shut = f.stream]
                    [] OTHER -> wire
    PROVE  /\ wire' \in Wire
           /\ IF f.kind = "event" THEN wire'.stream = f.stream /\ wire'.n = f.n
              ELSE wire'.stream = wire.stream /\ wire'.n = wire.n
           /\ wire'.opened = IF Opens(f) THEN f.stream ELSE wire.opened
           /\ wire'.shut = IF f.kind = "change" THEN f.stream ELSE wire.shut
  <1>1. f.n \in Nat /\ f.stream \in Nat /\ f.seq \in Nat
    BY FrameNumbers DEF FrameType
  <1>2. Opens(f) => f.kind # "event" /\ f.kind # "change"
    BY DEF Opens
  <1>3. CASE f.kind = "event"
    <2>1. wire' = [wire EXCEPT !.stream = f.stream, !.seq = f.seq, !.n = f.n]
      BY <1>2, <1>3
    <2>2. QED
      BY <1>1, <1>2, <1>3, <2>1 DEF Wire
  <1>4. CASE Opens(f)
    <2>1. wire' = [wire EXCEPT !.opened = f.stream]
      BY <1>2, <1>4
    <2>2. QED
      BY <1>1, <1>2, <1>4, <2>1 DEF Wire
  <1>5. CASE f.kind = "change"
    <2>1. wire' = [wire EXCEPT !.shut = f.stream]
      BY <1>2, <1>5
    <2>2. QED
      BY <1>1, <1>2, <1>5, <2>1 DEF Wire
  <1>6. CASE f.kind # "event" /\ ~Opens(f) /\ f.kind # "change"
    BY <1>6
  <1>7. QED
    BY <1>3, <1>4, <1>5, <1>6

LEMMA WriteKeeps ==
    ASSUME EventsInv, Write
    PROVE  EventsInv'
  <1>0. PICK k \in Conn : k = conn /\ Inv(k, handler, client, wire, session.active)
    BY InvNow
  <1>1. PICK f \in FrameType : f = Head(k.writes) /\ k.writes # <<>> /\ f = k.writes[1]
                               /\ 1 \in DOMAIN k.writes
    BY <1>0, QueueTaken DEF Write, Conn
  <1>2. /\ f.kind \in {"event", "closed"} <=> f.waiter # "handler"
        /\ f.waiter # "handler" => f.stream \in 1..k.streams
        /\ f.kind # "event" /\ f.cmd # None => f.kind \in {"accepted", "uncertain", "rejected"}
        /\ f.waiter # "tail" =>
              /\ handler.phase \in {"answering", "flushing"}
              /\ \A i \in DOMAIN k.writes : i # 1 => k.writes[i].waiter = "tail"
    BY <1>0, <1>1 DEF Inv, Awaited
  <1>3. f.waiter # "handler" => f.stream \in Stream /\ f.stream <= k.streams
    BY <1>0, <1>2, EventsAssumption DEF Inv, Observations, Stream, Conn
  <1>4. /\ client' \in Client
        /\ client'.connected => client.connected
        /\ client.answered \subseteq client'.answered
        /\ f.kind # "event" /\ f.cmd # None /\ client'.connected => f.cmd \in client'.answered
    <2>1. CASE client.connected
      <3>1. Read(f)
        BY <1>0, <1>1, <2>1 DEF Write
      <3>2. QED
        BY <1>2, <3>1, InvNow, ReadEffect
    <2>2. CASE ~client.connected
      <3>1. client' = client
        BY <2>2 DEF Write
      <3>2. QED
        BY <2>2, <3>1, InvNow
    <2>3. QED
      BY <2>1, <2>2
  <1>5. /\ wire' \in Wire
        /\ IF f.kind = "event" THEN wire'.stream = f.stream /\ wire'.n = f.n
           ELSE wire'.stream = wire.stream /\ wire'.n = wire.n
        /\ wire'.opened = IF Opens(f) THEN f.stream ELSE wire.opened
        /\ wire'.shut = IF f.kind = "change" THEN f.stream ELSE wire.shut
    <2>1. wire' = CASE f.kind = "event" ->
                        [wire EXCEPT !.stream = f.stream, !.seq = f.seq, !.n = f.n]
                  [] Opens(f) -> [wire EXCEPT !.opened = f.stream]
                  [] f.kind = "change" -> [wire EXCEPT !.shut = f.stream]
                  [] OTHER -> wire
      BY <1>0, <1>1 DEF Write
    <2>2. QED
      BY <2>1, InvNow, WireEffect
  <1>6. PICK v \in Wire : v = wire'
    BY <1>5
  <1>7. PICK cm \in Client : cm = client'
    BY <1>4
  <1>t. Taken(f, client, cm, wire, v)
    BY <1>4, <1>5, <1>6, <1>7 DEF Taken
  <1>8. f.kind = "event" => f.stream \in Stream
    BY <1>2, <1>3
  <1>9. ASSUME NEW m \in {Written(f)} \cup
                         {[Written(f) EXCEPT !.stream[s].sending = FALSE] : s \in Stream}
        PROVE  m \in Conn /\ Inv(m, handler, cm, v, session.active) /\ m.writes = Tail(k.writes)
               /\ m.streams = k.streams
    <2>1. /\ m \in Conn
          /\ SameStreams(k, m) /\ SameTails(k, m) /\ SameClosed(k, m)
          /\ SameObservation(k, m)
          /\ m.pending = k.pending /\ m.buffer = k.buffer
          /\ m.writes = Tail(k.writes)
      BY <1>0, <1>1, <1>8, WrittenEffect
    <2>2. Inv(m, handler, cm, v, session.active)
      BY <1>0, <1>1, <1>t, <2>1, InvNow, TakenKeeps
    <2>3. QED
      BY <2>1, <2>2 DEF SameStreams
  <1>10. UNCHANGED session
    BY DEF Write
  <1>11. CASE f.waiter = "tail"
    <2>1. PICK m \in Conn :
             /\ m = [Written(f) EXCEPT !.stream[f.stream].sending = FALSE]
             /\ Inv(m, handler, cm, v, session.active) /\ m.streams = k.streams
      BY <1>3, <1>9, <1>11
    <2>2. conn' = RunTail(m, f.stream) /\ UNCHANGED handler
      BY <1>0, <1>1, <1>11, <2>1 DEF Write
    <2>3. RunTail(m, f.stream) \in Conn /\ Inv(RunTail(m, f.stream), handler, cm, v, session.active)
      BY <1>3, <1>11, <2>1, InvNow, RunTailKeeps
    <2>4. QED
      BY <1>6, <1>7, <1>10, <2>2, <2>3, InvNow, InvNext
  <1>12. CASE f.waiter \in {"handler", "flush"}
    <2>1. PICK m \in Conn : /\ m = Written(f) /\ Inv(m, handler, cm, v, session.active)
                            /\ m.writes = Tail(k.writes)
      BY <1>9
    <2>2. Continue(m)
      BY <1>0, <1>1, <1>12, <2>1 DEF Write
    <2>3. handler.phase \in {"answering", "flushing"}
          /\ \A j \in DOMAIN m.writes : m.writes[j].waiter = "tail"
      <3>1. k.writes \in Seq(FrameType)
        BY DEF Conn
      <3>2. \A j \in DOMAIN m.writes : j + 1 \in DOMAIN k.writes /\ j + 1 # 1
                                       /\ m.writes[j] = k.writes[j + 1]
        BY <1>1, <2>1, <3>1, QueueTaken
      <3>3. QED
        BY <1>2, <1>12, <3>2
    <2>4. PICK n \in Conn :
             /\ n = IF handler.admission /\ m.pending THEN FlushRound(m) ELSE m
             /\ Inv(n, handler, cm, v, session.active)
             /\ n.writes = m.writes \/ Len(n.writes) > Len(m.writes)
      <3>1. CASE handler.admission /\ m.pending
        BY <2>1, <2>3, <3>1, InvNow, FlushRoundKeeps
      <3>2. CASE ~(handler.admission /\ m.pending)
        BY <2>1, <3>2
      <3>3. QED
        BY <3>1, <3>2
    <2>5. conn' = n
      BY <2>2, <2>4 DEF Continue
    <2>6. PICK g0 \in Handler : g0 = [handler EXCEPT !.phase = "flushing"] /\ g0.phase = "flushing"
                                /\ g0.kind = handler.kind
      <3>1. [handler EXCEPT !.phase = "flushing"] \in Handler
        BY InvNow, HandlerFields
      <3>2. QED
        BY <3>1, InvNow DEF Handler
    <2>7. PICK g \in Handler :
             /\ g = handler'
             /\ g = IF Len(n.writes) > Len(m.writes) THEN g0 ELSE NoHandler
      BY <2>2, <2>4, <2>6, NobodyHandles DEF Continue
    <2>8. g.phase \in {"flushing", "idle"} /\ Asks(g)
      <3>1. Asks(g0)
        BY <2>3, <2>6, InvNow DEF Asks
      <3>2. QED
        BY <2>6, <2>7, <3>1, NobodyHandles
    <2>9. Awaited(n, g)
      <3>1. CASE n.writes = m.writes /\ ~(Len(n.writes) > Len(m.writes))
        <4>1. \A j \in DOMAIN n.writes : n.writes[j].waiter = "tail"
          BY <2>3, <3>1
        <4>2. QED
          BY <2>4, <2>8, <4>1 DEF Inv, Awaited, Asking
      <3>2. CASE Len(n.writes) > Len(m.writes)
        <4>1. g.phase = "flushing"
          BY <2>6, <2>7, <3>2
        <4>2. QED
          BY <2>4, <4>1 DEF Inv, Awaited, Asking
      <3>3. QED
        BY <2>4, <3>1, <3>2
    <2>10. \A x \in Cmds : ~Pends(x, handler)
      BY <2>3 DEF Pends, Asking
    <2>11. session.active # None => Due(session.active, n, g, cm)
      BY <2>4, <2>10, InvNow DEF Inv, Answers, Due, Command
    <2>12. Inv(n, g, cm, v, session.active)
      BY <2>4, <2>9, <2>10, <2>11, InvNow, HandlerKeeps
    <2>13. QED
      BY <1>6, <1>7, <1>10, <2>5, <2>7, <2>8, <2>12, InvNow, InvNext
  <1>13. f.waiter \in {"tail", "handler", "flush"}
    BY DEF FrameType
  <1>14. QED
    BY <1>11, <1>12, <1>13

LEMMA StutterKeeps ==
    ASSUME EventsInv, UNCHANGED vars
    PROVE  EventsInv'
  BY InvNow, InvNext DEF vars

LEMMA InitKeeps ==
    ASSUME Init
    PROVE  EventsInv
  <1>1. /\ NoStream = 0 /\ None \in Command /\ <<>> \in Seq(EventType)
        /\ <<>> \in Seq(FrameType) /\ NewStream(0) \in StreamRecord
    BY DEF NoStream, Command, NewStream, StreamRecord
  <1>2. session \in Session /\ session.active = None
    BY <1>1 DEF Init, Session
  <1>3. PICK st \in [Stream -> StreamRecord] :
           /\ st = [s \in Stream |-> NewStream(0)]
           /\ \A s \in Stream : st[s].domain = 0 /\ st[s].tail = <<>>
    <2>1. NewStream(0).domain = 0 /\ NewStream(0).tail = <<>>
      BY DEF NewStream
    <2>2. [s \in Stream |-> NewStream(0)] \in [Stream -> StreamRecord]
      BY <1>1
    <2>3. \A s \in Stream : [x \in Stream |-> NewStream(0)][s] = NewStream(0)
      OBVIOUS
    <2>4. QED
      BY <2>1, <2>2, <2>3
  <1>4. conn = [stream |-> st, streams |-> 0, observed |-> NoStream, listener |-> NoStream,
                pending |-> FALSE, buffer |-> <<>>, writes |-> <<>>, terminal |-> FALSE]
    BY <1>3 DEF Init
  <1>5. conn \in Conn
    BY <1>1, <1>3, <1>4 DEF Conn
  <1>6. /\ conn.stream = st /\ conn.streams = 0 /\ conn.observed = NoStream
        /\ conn.listener = NoStream /\ ~conn.pending /\ conn.buffer = <<>>
        /\ conn.writes = <<>> /\ ~conn.terminal
    BY <1>4
  <1>7. client \in Client
    BY DEF Init, Client
  <1>8. wire \in Wire /\ wire.stream = 0 /\ wire.n = 0 /\ wire.opened = 0 /\ wire.shut = 0
    BY <1>1 DEF Init, Wire
  <1>9. handler \in Handler /\ Asks(handler) /\ handler.phase = "idle"
    BY NobodyHandles DEF Init
  <1>10. Observations(conn)
    BY <1>1, <1>6, EventsAssumption DEF Observations, Stream
  <1>11. Awaited(conn, handler)
    BY <1>6, <1>9 DEF Awaited, Asking
  <1>12. Answers(conn, handler, client, session.active)
    BY <1>2, <1>3, <1>6 DEF Answers
  <1>13. Order(conn, wire) /\ Opened(conn, wire) /\ Silent(conn, wire)
    BY <1>1, <1>6, <1>8 DEF Order, Opened, Silent
  <1>14. QED
    BY <1>2, <1>5, <1>7, <1>8, <1>9, <1>10, <1>11, <1>12, <1>13 DEF EventsInv, EventsTypeOK

LEMMA StepKeeps ==
    ASSUME EventsInv, Seen, [Next]_vars
    PROVE  EventsInv'
  <1>1. CASE \E kind \in Observing : GetSession(kind)
    BY <1>1, GetSessionKeeps
  <1>2. CASE \E c \in Cmds : Prompt(c)
    BY <1>2, PromptKeeps
  <1>3. CASE Abort
    BY <1>3, AbortKeeps
  <1>4. CASE ChangeSession
    BY <1>4, ChangeSessionKeeps
  <1>5. CASE ApproveTrust
    BY <1>5, ApproveTrustKeeps
  <1>6. CASE CancelStream
    BY <1>6, CancelStreamKeeps
  <1>7. CASE ConversationEvent
    BY <1>7, ConversationEventKeeps
  <1>8. CASE CommandCompletes
    BY <1>8, CommandCompletesKeeps
  <1>9. CASE Domain
    BY <1>9, SessionLoadedKeeps, LoadFailsKeeps, CommandStartsKeeps, CommandAdmittedKeeps,
       CommandRejectedKeeps, AbortReturnsKeeps, SessionChangesKeeps DEF Domain
  <1>10. CASE Answer
    BY <1>10, AnswerActionKeeps
  <1>11. CASE AnswerFails
    BY <1>11, AnswerFailsKeeps
  <1>12. CASE Write
    BY <1>12, WriteKeeps
  <1>13. CASE Listen
    BY <1>13, ListenKeeps
  <1>14. CASE InputEnds
    BY <1>14, InputEndsKeeps
  <1>15. CASE OutputFails
    BY <1>15, OutputFailsKeeps
  <1>16. CASE UNCHANGED vars
    BY <1>16, StutterKeeps
  <1>17. QED
    BY <1>1, <1>2, <1>3, <1>4, <1>5, <1>6, <1>7, <1>8, <1>9, <1>10, <1>11, <1>12, <1>13,
       <1>14, <1>15, <1>16 DEF Next

LEMMA SeenKeeps ==
    ASSUME EventsInv, Seen, [Next]_vars
    PROVE  Seen'
  <1>1. session.seq \in Nat /\ handler.snapshot \in Nat /\ NoHandler.snapshot = 0
    BY InvNow DEF Session, Handler, NoHandler
  <1>2. \A kind, c : Handle(kind, c).snapshot = 0
    BY DEF Handle, NoHandler
  <1>3. session' = session \/ session'.seq \in {session.seq, session.seq + 1}
    BY InvNow DEF Next, vars, Domain, Emit, Session, GetSession, Prompt, Abort, ChangeSession,
       ApproveTrust, CancelStream, ConversationEvent, CommandCompletes, SessionLoaded, LoadFails,
       CommandStarts, CommandAdmitted, CommandRejected, AbortReturns, SessionChanges, Answer,
       AnswerFails, Write, Listen, InputEnds, OutputFails
  <1>4. handler'.snapshot \in {0, handler.snapshot, session.seq}
    <2>1. CASE \/ \E kind \in Observing : GetSession(kind)
               \/ \E c \in Cmds : Prompt(c)
               \/ Abort \/ ChangeSession \/ ApproveTrust
      BY <1>2, <2>1 DEF GetSession, Prompt, Abort, ChangeSession, ApproveTrust, Handle, NoHandler
    <2>2. CASE \/ CancelStream \/ ConversationEvent \/ CommandCompletes \/ Listen \/ InputEnds
               \/ UNCHANGED vars
      BY <2>2 DEF CancelStream, ConversationEvent, CommandCompletes, Listen, InputEnds, vars
    <2>3. CASE Domain
      BY <2>3, InvNow DEF Domain, Handler, SessionLoaded, LoadFails, CommandStarts,
         CommandAdmitted, CommandRejected, AbortReturns, SessionChanges
    <2>4. CASE Answer
      BY <2>4, InvNow DEF Answer, Handler
    <2>5. CASE AnswerFails \/ OutputFails
      BY <1>1, <2>5 DEF AnswerFails, OutputFails
    <2>6. CASE Write
      <3>1. /\ conn.writes \in Seq(FrameType) /\ conn.writes # <<>>
            /\ Head(conn.writes) \in FrameType
        BY <2>6, InvNow DEF Write, Conn
      <3>2. Head(conn.writes).waiter \in {"handler", "tail", "flush"}
        BY <3>1 DEF FrameType
      <3>3. CASE Head(conn.writes).waiter = "tail"
        BY <2>6, <3>3 DEF Write
      <3>4. CASE Head(conn.writes).waiter \in {"handler", "flush"}
        <4>1. Continue(Written(Head(conn.writes)))
          BY <2>6, <3>4 DEF Write
        <4>2. QED
          BY <1>1, <4>1, InvNow DEF Continue, Handler
      <3>5. QED
        BY <3>2, <3>3, <3>4
    <2>7. QED
      BY <2>1, <2>2, <2>3, <2>4, <2>5, <2>6 DEF Next
  <1>5. QED
    BY <1>1, <1>3, <1>4 DEF Seen

(***************************************************************************)
(* The invariant holds in every state: acceptDomainEvent, handlePrompt,    *)
(* flushAdmission and closeObservation in any order, while the output      *)
(* drains frame by frame.                                                  *)
(***************************************************************************)
THEOREM EventsInvariant == Spec => []EventsInv
  <1>1. Init => EventsInv /\ Seen
    BY InitKeeps DEF Init, NoHandler, Seen
  <1>2. EventsInv /\ Seen /\ [Next]_vars => EventsInv' /\ Seen'
    BY StepKeeps, SeenKeeps
  <1>3. QED
    BY <1>1, <1>2, PTL DEF Spec

(***************************************************************************)
(* The completion of a command is written after the answer that admitted   *)
(* it, and events in the order of the domain, though a tail and a flush    *)
(* write concurrently: handlePrompt, forwardDomainEvent.                   *)
(***************************************************************************)
THEOREM EventFramesInOrder == Spec => []FramesInOrder
  <1>1. EventsInv => FramesInOrder
    <2>1. ASSUME EventsInv
          PROVE  AnswerBeforeCompletion
      BY <2>1, InvNow DEF Inv, Answers, AnswerBeforeCompletion, Queued
    <2>2. ASSUME EventsInv
          PROVE  WireInOrder
      BY <2>2, InvNow DEF Inv, Order, WireInOrder, Queued
    <2>3. QED
      BY <2>1, <2>2 DEF FramesInOrder
  <1>2. QED
    BY <1>1, EventsInvariant, PTL

(***************************************************************************)
(* A stream goes on where the snapshot in the answer that opened it ends,  *)
(* and is never behind a page of the history that opened it; none goes on  *)
(* after the outcome of a change: handleGetSession,                        *)
(* handleGetSessionHistory, the handlers of administration and tree        *)
(* mutations.                                                              *)
(***************************************************************************)
THEOREM EventStreamsExact == Spec => []StreamsExact
  <1>1. EventsInv => StreamsExact
    <2>1. ASSUME EventsInv
          PROVE  SnapshotMeetsStream
      <3>1. PICK q \in Seq(FrameType) : q = conn.writes
        BY <2>1, InvNow DEF Conn
      <3>2. ASSUME NEW j \in DOMAIN q
            PROVE  /\ q[j].kind = "event" =>
                        \/ q[j].stream <= wire.opened
                        \/ \E i \in 1..(j - 1) : Opens(q[i]) /\ q[i].stream >= q[j].stream
                   /\ q[j].kind \in Observing /\ q[j].stream > wire.opened
                      /\ ~(\E i \in 1..(j - 1) : Opens(q[i]) /\ q[i].stream >= q[j].stream)
                      => Meets(q[j], conn.stream[q[j].stream].domain)
        <4>1. CASE q[j].kind = "event"
          <5>1. q[j].stream \in 1..conn.streams
            BY <2>1, <3>1, <4>1, InvNow DEF Inv, Awaited
          <5>2. q[j].stream <= wire.opened \/ \E i \in 1..(j - 1) : Opens(q[i])
            BY <2>1, <3>1, <4>1, InvNow DEF Inv, Opened
          <5>3. \A i \in 1..(j - 1) : Opens(q[i]) => q[i].stream >= q[j].stream
            <6>1. ASSUME NEW i \in 1..(j - 1), Opens(q[i])
                  PROVE  q[i].stream = conn.streams
              BY <2>1, <3>1, <6>1, InvNow DEF Inv, Opened
            <6>2. conn.streams \in Nat
              BY <2>1, InvNow DEF Conn
            <6>3. QED
              BY <5>1, <6>1, <6>2
          <5>4. QED
            BY <4>1, <5>2, <5>3
        <4>2. CASE q[j].kind \in Observing /\ q[j].stream > wire.opened
          <5>1. q[j].waiter = "handler"
            BY <2>1, <3>1, <4>2, InvNow DEF Inv, Awaited
          <5>2. q[j].cmd = None
            BY <2>1, <3>1, <4>2, InvNow DEF Inv, Awaited
          <5>3. Opens(q[j])
            BY <4>2, <5>2 DEF Opens
          <5>4. q[j].stream = conn.streams /\ Meets(q[j], conn.stream[conn.streams].domain)
            BY <2>1, <3>1, <4>2, <5>3, InvNow DEF Inv, Opened
          <5>5. QED
            BY <4>2, <5>4
        <4>3. QED
          BY <4>1, <4>2
      <3>3. QED
        BY <3>1, <3>2 DEF SnapshotMeetsStream, Queued
    <2>2. ASSUME EventsInv
          PROVE  OldStreamSilent
      BY <2>2, InvNow DEF Inv, Silent, OldStreamSilent, Queued
    <2>3. QED
      BY <2>1, <2>2 DEF StreamsExact
  <1>2. QED
    BY <1>1, EventsInvariant, PTL

(***************************************************************************)
(* The domain never emits to a stream the connection has forgotten:        *)
(* dropObservation, closeObservation, dispose.                             *)
(***************************************************************************)
THEOREM TheListenerIsObserved == Spec => []ListenerIsObserved
  <1>1. EventsInv => ListenerIsObserved
    <2>1. SUFFICES ASSUME EventsInv, conn.listener # NoStream
                   PROVE  /\ conn.listener = conn.observed
                          /\ ~conn.stream[conn.listener].closed /\ ~conn.terminal
      BY DEF ListenerIsObserved
    <2>2. conn.listener = conn.observed /\ conn.observed = conn.streams /\ ~conn.terminal
      BY <2>1, InvNow DEF Inv, Observations
    <2>3. conn.observed \in Stream
      BY <2>1, <2>2, InvNow DEF Conn
    <2>4. conn.streams <= conn.streams
      BY InvNow, <2>1 DEF Conn
    <2>5. QED
      BY <2>1, <2>2, <2>3, <2>4, InvNow DEF Inv, Observations
  <1>2. QED
    BY <1>1, EventsInvariant, PTL

=============================================================================
