--------------------------- MODULE TransferProofs ---------------------------
(***************************************************************************)
(* Theorems about Transfer, for every size of content and chunk and every  *)
(* limit.  The chunks of a download are numbered.  What either end, and    *)
(* every frame on its way, knows of chunk n is where it ends, ends[n]: the *)
(* invariants say so of some function `ends`, which a step keeps, but for  *)
(* the one that sends the next chunk.  It is the same with the sums of the *)
(* credit on its way, `sums`.                                              *)
(***************************************************************************)
EXTENDS Transfer, SequenceTheorems, TLAPS

-----------------------------------------------------------------------------
(* Types.  The frames on their way are those the codec accepts.            *)

CreditFrame == [type : {"credit"}, bytes : 1..MaxCredit]
AckFrame == [type : {"ack"}, seq : Nat \ {0}, committed : Nat \ {0}]
DataFrame == [type : {"chunk"}, seq : Nat \ {0}, offset : Nat, bytes : 1..ChunkBytes]
ToServerFrame == {RequestFrame, Cancel} \cup CreditFrame \cup AckFrame
ToLoaderFrame == {Open, Rejected, Complete, Abort} \cup DataFrame
Signal == {Complete, Error} \cup DataFrame

Ended == {"no", "rejected", "violation", "exhausted", "complete", "cancelled", "failed",
          "released"}
Outcome == {"pending", "rejected", "completed", "cancelled", "aborted", "disconnected",
            "dataLoss"}

ServerPhase == {"none", "open", "pumping", "closed"}
LoaderPhase == {"requested", "opened", "granting", "waiting", "yielded", "acking", "ended"}

Server ==
    [phase : ServerPhase, offset : Nat, credit : Nat, acked : Nat,
     committed : Nat, outstanding : Seq(Nat), ended : Ended]
Loader ==
    [phase : LoaderPhase,
     next : Nat \ {0}, received : Nat, credit : Nat, signals : Seq(Signal),
     chunk : DataFrame \cup {Chunk(0, 0, 0)}, committed : Nat, consumed : Nat, delivered : Nat,
     terminal : BOOLEAN, cancelSent : BOOLEAN, cancelling : BOOLEAN, leaving : BOOLEAN,
     outcome : Outcome]

TransferTypeOK ==
    /\ server \in Server /\ loader \in Loader /\ connected \in BOOLEAN
    /\ toServer \in Seq(ToServerFrame) /\ toLoader \in Seq(ToLoaderFrame)
    /\ loader.phase = "yielded" => loader.chunk \in DataFrame

-----------------------------------------------------------------------------
(* The inductive invariant.                                                *)

Sent == server.acked + Len(server.outstanding)
Given == loader.received + loader.credit
Taken == IF loader.phase = "yielded" THEN loader.consumed + 1 ELSE loader.consumed
Agrees(ends, c) ==
    /\ c.seq \in 1 .. Sent
    /\ c.offset = ends[c.seq - 1] /\ c.offset + c.bytes = ends[c.seq]

(* What the Node sent, and remembers of it.                                *)
Sending(ends) ==
    /\ ends \in [Nat -> Nat] /\ ends[0] = 0 /\ ends[Sent] = server.offset
    /\ \A m, n \in 0 .. Sent :
          m < n => ends[m] < ends[n] /\ ends[n] - ends[m] <= ChunkBytes * (n - m)
    /\ ends[server.acked] = server.committed
    /\ \A k \in 1 .. Len(server.outstanding) : server.outstanding[k] = ends[server.acked + k]

(* What the reader has of it.                                              *)
Reading(ends) ==
    /\ server.acked <= loader.consumed /\ loader.consumed <= loader.next - 1
    /\ loader.next - 1 <= Sent
    /\ loader.committed = ends[loader.consumed] /\ loader.received = ends[loader.next - 1]
    /\ loader.phase = "yielded" =>
          /\ Agrees(ends, loader.chunk) /\ loader.chunk.seq = loader.consumed + 1
          /\ loader.consumed + 1 < loader.next
    /\ loader.phase # "ended" => loader.delivered = ends[Taken]

(* What waits for the reader.                                              *)
Told == server.ended = "complete" /\ toLoader = <<>>
Waiting(ends) ==
    /\ loader.phase # "ended" =>
          \A i \in DOMAIN loader.signals : loader.signals[i].type = "chunk" =>
              /\ Agrees(ends, loader.signals[i])
              /\ loader.signals[i].seq = Taken + i /\ Taken + i < loader.next
    /\ loader.phase # "ended" /\ ~loader.terminal /\ ~Told =>
          Taken + Len(loader.signals) = loader.next - 1
    /\ \A i \in DOMAIN loader.signals : loader.signals[i].type = "complete" => Told

(* The frames on their way to a reader that has not failed: chunks, and    *)
(* after the last of them the end.                                         *)
EndFrame(f) == f.type \in {"complete", "abort"}
Arriving(ends) ==
    ~loader.terminal /\ loader.phase # "requested" =>
        /\ \A i \in DOMAIN toLoader : toLoader[i].type = "chunk" =>
              Agrees(ends, toLoader[i]) /\ toLoader[i].seq = loader.next + i - 1
        /\ (\A i \in DOMAIN toLoader : ~EndFrame(toLoader[i])) =>
              Sent = loader.next - 1 + Len(toLoader)

(* The acknowledgements on their way name chunks that are not acknowledged *)
(* yet and were taken, the later the higher.                               *)
Acknowledging(ends) ==
    \A i \in DOMAIN toServer : toServer[i].type = "ack" =>
        /\ toServer[i].seq \in server.acked + 1 .. loader.consumed
        /\ toServer[i].committed = ends[toServer[i].seq]
        /\ \A j \in DOMAIN toServer :
              i < j /\ toServer[j].type = "ack" => toServer[i].seq < toServer[j].seq

Numbered(ends) ==
    Sending(ends) /\ Reading(ends) /\ Waiting(ends) /\ Arriving(ends) /\ Acknowledging(ends)

(* The credit the Node has had, and will have after each frame.            *)
CreditOf(f) == IF f.type = "credit" THEN f.bytes ELSE 0
Crediting(sums) ==
    /\ sums \in [Nat -> Nat]
    /\ sums[0] = server.credit + server.offset /\ sums[Len(toServer)] = Given
    /\ \A i \in 1 .. Len(toServer) : sums[i] = sums[i - 1] + CreditOf(toServer[i])
    /\ \A i, j \in 0 .. Len(toServer) : i <= j => sums[i] <= sums[j]

(* The request and its answer come first.                                  *)
Opening ==
    /\ server.phase = "none" =>
          /\ server.acked = 0 /\ server.outstanding = <<>> /\ server.credit = 0
          /\ toServer = <<RequestFrame>> /\ toLoader = <<>>
          /\ loader.phase # "requested" => loader.phase = "ended" /\ ~connected
    /\ server.phase # "none" => \A i \in DOMAIN toServer : toServer[i].type # "request"
    /\ loader.phase = "requested" =>
          /\ server.acked = 0 /\ server.outstanding = <<>> /\ Given = 0 /\ loader.next = 1
          /\ loader.signals = <<>> /\ ~loader.terminal /\ ~loader.cancelling /\ connected
          /\ \/ server.phase = "none"
             \/ server.phase = "open" /\ toServer = <<>> /\ toLoader = <<Open>>
             \/ server.phase = "closed" /\ toServer = <<>> /\ toLoader = <<Rejected>>
    /\ loader.phase # "requested" =>
          \A i \in DOMAIN toLoader : toLoader[i].type \notin {"open", "rejected"}

(* How the download ends, and that it does only once.                      *)
Ending ==
    /\ server.phase # "closed" => server.ended = "no"
    /\ server.ended = "complete" => server.committed = TotalBytes
    /\ server.ended # "violation"
    /\ \A i \in DOMAIN toLoader :
          /\ EndFrame(toLoader[i]) => i = Len(toLoader) /\ server.phase = "closed"
          /\ toLoader[i].type = "complete" => server.ended = "complete"
    /\ ~connected => loader.terminal /\ toLoader = <<>>
    /\ ~loader.terminal <=> loader.outcome = "pending"
    /\ loader.outcome = "completed" => loader.phase = "ended"
    /\ loader.outcome # "dataLoss"

(* The Node sends no more than it was given, and leaves few chunks         *)
(* unacknowledged; credit is granted for a chunk at a time.                *)
Bounding ==
    /\ server.offset <= TotalBytes /\ server.offset <= Given
    /\ Len(server.outstanding) <= MaxOutstanding
    /\ loader.delivered <= TotalBytes
    /\ loader.phase \in {"requested", "opened"} => Given = 0
    /\ loader.phase = "acking" => Given <= ChunkBytes * loader.consumed
    /\ Given <= ChunkBytes * (loader.consumed + 1)

TransferInv ==
    /\ TransferTypeOK /\ Opening /\ Ending /\ Bounding
    /\ \E ends : Numbered(ends)
    /\ server.phase # "closed" => \E sums : Crediting(sums)
-----------------------------------------------------------------------------
(* Types are kept.                                                         *)

LEMMA ServerFields ==
    ASSUME NEW s \in Server
    PROVE  /\ \A v \in ServerPhase : [s EXCEPT !.phase = v] \in Server
           /\ \A v \in Nat : /\ [s EXCEPT !.offset = v] \in Server
                             /\ [s EXCEPT !.credit = v] \in Server
                             /\ [s EXCEPT !.acked = v] \in Server
                             /\ [s EXCEPT !.committed = v] \in Server
           /\ \A v \in Seq(Nat) : [s EXCEPT !.outstanding = v] \in Server
           /\ \A v \in Ended : [s EXCEPT !.ended = v] \in Server
  BY DEF Server

LEMMA LoaderFields ==
    ASSUME NEW c \in Loader
    PROVE  /\ \A v \in LoaderPhase : [c EXCEPT !.phase = v] \in Loader
           /\ \A v \in Nat \ {0} : [c EXCEPT !.next = v] \in Loader
           /\ \A v \in Nat : /\ [c EXCEPT !.received = v] \in Loader
                             /\ [c EXCEPT !.credit = v] \in Loader
                             /\ [c EXCEPT !.committed = v] \in Loader
                             /\ [c EXCEPT !.consumed = v] \in Loader
                             /\ [c EXCEPT !.delivered = v] \in Loader
           /\ \A v \in Seq(Signal) : [c EXCEPT !.signals = v] \in Loader
           /\ \A v \in DataFrame : [c EXCEPT !.chunk = v] \in Loader
           /\ \A v \in BOOLEAN : /\ [c EXCEPT !.terminal = v] \in Loader
                                 /\ [c EXCEPT !.cancelSent = v] \in Loader
                                 /\ [c EXCEPT !.cancelling = v] \in Loader
                                 /\ [c EXCEPT !.leaving = v] \in Loader
           /\ \A v \in Outcome : [c EXCEPT !.outcome = v] \in Loader
  BY DEF Loader

LEMMA Fields ==
    ASSUME TransferTypeOK
    PROVE  /\ server.offset \in Nat /\ server.credit \in Nat /\ server.acked \in Nat
           /\ server.committed \in Nat /\ server.outstanding \in Seq(Nat)
           /\ server.phase \in ServerPhase /\ server.ended \in Ended
           /\ loader.next \in Nat \ {0} /\ loader.received \in Nat /\ loader.credit \in Nat
           /\ loader.committed \in Nat /\ loader.consumed \in Nat /\ loader.delivered \in Nat
           /\ loader.signals \in Seq(Signal) /\ loader.terminal \in BOOLEAN
           /\ loader.cancelSent \in BOOLEAN /\ loader.outcome \in Outcome
           /\ Sent \in Nat /\ Given \in Nat /\ Taken \in Nat
<1>1. server \in Server /\ loader \in Loader BY DEF TransferTypeOK
<1>2. /\ server.offset \in Nat /\ server.credit \in Nat /\ server.acked \in Nat
      /\ server.committed \in Nat /\ server.outstanding \in Seq(Nat)
      /\ server.phase \in ServerPhase /\ server.ended \in Ended
  BY <1>1 DEF Server
<1>3. /\ loader.next \in Nat \ {0} /\ loader.received \in Nat /\ loader.credit \in Nat
      /\ loader.committed \in Nat /\ loader.consumed \in Nat /\ loader.delivered \in Nat
      /\ loader.signals \in Seq(Signal) /\ loader.terminal \in BOOLEAN
      /\ loader.cancelSent \in BOOLEAN /\ loader.outcome \in Outcome
  BY <1>1 DEF Loader
<1>4. Sent \in Nat
  <2>1. Len(server.outstanding) \in Nat BY <1>2
  <2>. QED BY <1>2, <2>1 DEF Sent
<1>5. Given \in Nat /\ Taken \in Nat BY <1>3 DEF Given, Taken
<1>. QED BY <1>2, <1>3, <1>4, <1>5

LEMMA FrameTypes ==
    /\ RequestFrame \in ToServerFrame /\ Cancel \in ToServerFrame
    /\ \A n \in 1..MaxCredit : Credit(n) \in ToServerFrame
    /\ \A n, m \in Nat \ {0} : Ack(n, m) \in ToServerFrame
    /\ Open \in ToLoaderFrame /\ Rejected \in ToLoaderFrame /\ Complete \in ToLoaderFrame
    /\ Abort \in ToLoaderFrame
    /\ \A n \in Nat \ {0}, m \in Nat, k \in 1..ChunkBytes : Chunk(n, m, k) \in DataFrame
    /\ DataFrame \subseteq ToLoaderFrame /\ DataFrame \subseteq Signal
    /\ Complete \in Signal /\ Error \in Signal
  BY DEF RequestFrame, Cancel, Credit, Ack, Open, Rejected, Complete, Abort, Chunk, Error,
         ToServerFrame, ToLoaderFrame, CreditFrame, AckFrame, DataFrame, Signal

LEMMA ByType ==
    /\ \A f \in ToServerFrame :
          /\ f.type = "credit" => f.bytes \in 1..MaxCredit /\ f.bytes \in Nat \ {0}
          /\ f.type = "ack" => f.seq \in Nat \ {0} /\ f.committed \in Nat \ {0}
    /\ \A f \in ToLoaderFrame : f.type = "chunk" => f \in DataFrame
    /\ \A f \in Signal : f.type = "chunk" => f \in DataFrame
    /\ \A f \in DataFrame : /\ f.type = "chunk" /\ f.seq \in Nat \ {0} /\ f.offset \in Nat
                            /\ f.bytes \in 1..ChunkBytes /\ f.bytes \in Nat \ {0}
<1>1. \A f \in ToServerFrame :
          /\ f.type = "credit" => f.bytes \in 1..MaxCredit
          /\ f.type = "ack" => f.seq \in Nat \ {0} /\ f.committed \in Nat \ {0}
  BY DEF RequestFrame, Cancel, ToServerFrame, CreditFrame, AckFrame
<1>2. /\ \A f \in ToLoaderFrame : f.type = "chunk" => f \in DataFrame
      /\ \A f \in Signal : f.type = "chunk" => f \in DataFrame
  BY DEF Open, Rejected, Complete, Abort, Error, ToLoaderFrame, Signal
<1>3. \A f \in DataFrame : /\ f.type = "chunk" /\ f.seq \in Nat \ {0} /\ f.offset \in Nat
                          /\ f.bytes \in 1..ChunkBytes
  BY DEF DataFrame
<1>4. 1..MaxCredit \subseteq Nat \ {0} /\ 1..ChunkBytes \subseteq Nat \ {0} BY TransferAssumption
<1>. QED BY <1>1, <1>2, <1>3, <1>4

LEMMA SequenceFacts ==
    ASSUME NEW S, NEW s \in Seq(S)
    PROVE  /\ \A x \in S : Append(s, x) \in Seq(S) /\ SentOn(s, x) \in Seq(S)
           /\ s # <<>> => Tail(s) \in Seq(S) /\ Head(s) \in S
           /\ <<>> \in Seq(S)
  BY DEF SentOn

LEMMA Rest ==
    ASSUME NEW s \in Seq(Nat), NEW k \in Nat, k <= Len(s)
    PROVE  /\ SubSeq(s, k + 1, Len(s)) \in Seq(Nat)
           /\ Len(SubSeq(s, k + 1, Len(s))) = Len(s) - k
           /\ \A i \in 1 .. Len(s) - k : SubSeq(s, k + 1, Len(s))[i] = s[k + i]
<1>1. Len(s) \in Nat /\ \A i \in k + 1 .. Len(s) : s[i] \in Nat OBVIOUS
<1>. DEFINE m == k + 1
            n == Len(s)
<1>2. m \in Int /\ n \in Int /\ \A i \in m .. n : s[i] \in Nat BY <1>1
<1>3. /\ SubSeq(s, m, n) \in Seq(Nat)
      /\ Len(SubSeq(s, m, n)) = IF m <= n THEN n - m + 1 ELSE 0
      /\ \A i \in 1 .. n - m + 1 : SubSeq(s, m, n)[i] = s[m + i - 1]
  <2>. HIDE DEF m, n
  <2>. QED BY <1>2, SubSeqProperties
<1>. QED BY <1>1, <1>3

LEMMA Channels ==
    ASSUME TransferTypeOK
    PROVE  /\ toServer \in Seq(ToServerFrame) /\ toLoader \in Seq(ToLoaderFrame)
           /\ SentOn(toServer, Cancel) \in Seq(ToServerFrame)
           /\ \A n \in 1..MaxCredit : SentOn(toServer, Credit(n)) \in Seq(ToServerFrame)
           /\ \A n, m \in Nat \ {0} : SentOn(toServer, Ack(n, m)) \in Seq(ToServerFrame)
           /\ SentOn(toLoader, Open) \in Seq(ToLoaderFrame)
           /\ SentOn(toLoader, Rejected) \in Seq(ToLoaderFrame)
           /\ SentOn(toLoader, Complete) \in Seq(ToLoaderFrame)
           /\ SentOn(toLoader, Abort) \in Seq(ToLoaderFrame)
           /\ \A f \in DataFrame : SentOn(toLoader, f) \in Seq(ToLoaderFrame)
           /\ toServer # <<>> => Tail(toServer) \in Seq(ToServerFrame)
                                 /\ Head(toServer) \in ToServerFrame
           /\ toLoader # <<>> => Tail(toLoader) \in Seq(ToLoaderFrame)
                                 /\ Head(toLoader) \in ToLoaderFrame
           /\ <<>> \in Seq(ToServerFrame) /\ <<>> \in Seq(ToLoaderFrame)
           /\ \A f \in Signal : Append(loader.signals, f) \in Seq(Signal)
           /\ loader.signals # <<>> => Tail(loader.signals) \in Seq(Signal)
                                       /\ Head(loader.signals) \in Signal
<1>1. /\ toServer \in Seq(ToServerFrame) /\ toLoader \in Seq(ToLoaderFrame)
      /\ loader.signals \in Seq(Signal)
  BY Fields DEF TransferTypeOK
<1>. QED BY <1>1, FrameTypes, SequenceFacts

LEMMA Names ==
    /\ "open" \in ServerPhase /\ "pumping" \in ServerPhase /\ "closed" \in ServerPhase
    /\ {"opened", "granting", "waiting", "yielded", "acking", "ended"} \subseteq LoaderPhase
    /\ {"rejected", "violation", "exhausted", "complete", "cancelled", "failed", "released"}
          \subseteq Ended
    /\ {"rejected", "completed", "cancelled", "aborted", "disconnected", "dataLoss"}
          \subseteq Outcome
  BY DEF ServerPhase, LoaderPhase, Ended, Outcome

LEMMA Closing ==
    ASSUME NEW s \in Server, NEW reason \in Ended
    PROVE  [s EXCEPT !.phase = "closed", !.ended = reason] \in Server
<1>1. [s EXCEPT !.phase = "closed"] \in Server BY ServerFields, Names
<1>. QED BY <1>1, ServerFields, Zenon

LEMMA AbortTypes ==
    ASSUME TransferTypeOK, NEW reason \in Ended, AbortTransfer(reason)
    PROVE  server' \in Server /\ toLoader' \in Seq(ToLoaderFrame)
  BY Closing, Channels DEF AbortTransfer, TransferTypeOK

LEMMA Failing ==
    ASSUME NEW c \in Loader, NEW reason \in Outcome
    PROVE  /\ Failed(c, reason) \in Loader
           /\ Failed(c, reason).phase = c.phase /\ Failed(c, reason).chunk = c.chunk
<1>1. Append(c.signals, Error) \in Seq(Signal) BY FrameTypes DEF Loader
<1>2. [c EXCEPT !.terminal = TRUE] \in Loader BY LoaderFields
<1>3. [c EXCEPT !.terminal = TRUE, !.signals = Append(@, Error)] \in Loader
  BY <1>1, <1>2, LoaderFields, Zenon
<1>4. [c EXCEPT !.terminal = TRUE, !.signals = Append(@, Error), !.outcome = reason] \in Loader
  BY <1>3, LoaderFields, Zenon
<1>. QED BY <1>4 DEF Failed, Loader

LEMMA NotifyingTypes ==
    ASSUME TransferTypeOK, NEW c \in Loader, NEW reason \in Outcome, FailNotifying(c, reason)
    PROVE  /\ loader' \in Loader /\ toServer' \in Seq(ToServerFrame)
           /\ loader'.phase = c.phase /\ loader'.chunk = c.chunk
<1>1. Failed(c, reason) \in Loader BY Failing
<1>2. (Failed(c, reason).cancelSent \/ ~c.terminal) \in BOOLEAN BY <1>1 DEF Loader
<1>3. loader' \in Loader BY <1>1, <1>2, LoaderFields, Zenon DEF FailNotifying
<1>4. toServer' \in Seq(ToServerFrame) BY Channels DEF FailNotifying
<1>5. loader'.phase = c.phase /\ loader'.chunk = c.chunk
  BY <1>1, Failing DEF FailNotifying, Loader
<1>. QED BY <1>3, <1>4, <1>5

LEMMA CancelTypes ==
    ASSUME TransferTypeOK, NEW c \in Loader, BeginCancel(c)
    PROVE  /\ loader' \in Loader /\ toServer' \in Seq(ToServerFrame)
           /\ loader'.phase = c.phase /\ loader'.chunk = c.chunk
<1>1. Failed(c, "cancelled") \in Loader BY Failing, Names
<1>2. [c EXCEPT !.cancelSent = TRUE] \in Loader BY LoaderFields
<1>3. [c EXCEPT !.cancelSent = TRUE, !.cancelling = TRUE] \in Loader BY <1>2, LoaderFields, Zenon
<1>4. loader' \in Loader BY <1>1, <1>3 DEF BeginCancel
<1>5. toServer' \in Seq(ToServerFrame) BY Channels DEF BeginCancel
<1>6. /\ Failed(c, "cancelled").phase = c.phase
      /\ Failed(c, "cancelled").chunk = c.chunk
  BY Failing, Names
<1>7. /\ [c EXCEPT !.cancelSent = TRUE, !.cancelling = TRUE].phase = c.phase
      /\ [c EXCEPT !.cancelSent = TRUE, !.cancelling = TRUE].chunk = c.chunk
  BY DEF Loader
<1>8. loader'.phase = c.phase /\ loader'.chunk = c.chunk BY <1>6, <1>7, Zenon DEF BeginCancel
<1>. QED BY <1>4, <1>5, <1>8

LEMMA GrantTypes ==
    ASSUME TransferTypeOK, NEW n \in 1..ChunkBytes, Grant(loader, n)
    PROVE  /\ loader' \in Loader /\ toServer' \in Seq(ToServerFrame)
           /\ loader'.phase # "yielded"
<1>1. /\ [loader EXCEPT !.phase = "ended"] \in Loader
      /\ [loader EXCEPT !.phase = "granting"] \in Loader
  BY LoaderFields, Names DEF TransferTypeOK
<1>2. n \in Nat /\ n \in 1..MaxCredit BY TransferAssumption
<1>3. loader.credit + n \in Nat BY <1>2, Fields, SMTT(30)
<1>4. [loader EXCEPT !.phase = "granting", !.credit = @ + n] \in Loader
  BY <1>1, <1>3, LoaderFields, Zenon
<1>5. loader' \in Loader BY <1>1, <1>4 DEF Grant
<1>6. toServer' \in Seq(ToServerFrame) BY <1>2, Channels DEF Grant
<1>7. loader'.phase # "yielded" BY DEF Grant, TransferTypeOK, Loader
<1>. QED BY <1>5, <1>6, <1>7

LEMMA NodeTypes == ASSUME TransferTypeOK, Node \/ PumpFails PROVE TransferTypeOK'
<1>. USE DEF TransferTypeOK
<1>1. CASE HandleRequest
  <2>1. [server EXCEPT !.phase = "open"] \in Server BY ServerFields, Names
  <2>2. [server EXCEPT !.phase = "closed", !.ended = "rejected"] \in Server BY Closing, Names
  <2>. QED BY <1>1, <2>1, <2>2, Channels DEF HandleRequest, Receives
<1>2. CASE HandleCredit
  <2>. DEFINE credit == server.credit + Head(toServer).bytes
  <2>1. toServer' \in Seq(ToServerFrame) BY <1>2, Channels DEF HandleCredit, Receives
  <2>2. credit \in Nat
    <3>1. Head(toServer) \in ToServerFrame /\ Head(toServer).type = "credit"
      BY <1>2, Channels DEF HandleCredit, Receives
    <3>2. Head(toServer).bytes \in Nat /\ server.credit \in Nat BY <3>1, ByType, Fields
    <3>. QED BY <3>2
  <2>3. [server EXCEPT !.credit = credit] \in Server BY <2>2, ServerFields
  <2>4. [server EXCEPT !.credit = credit, !.phase = "pumping"] \in Server
    BY <2>3, ServerFields, Names, Zenon
  <2>5. server' \in Server /\ toLoader' \in Seq(ToLoaderFrame)
    BY <1>2, <2>4, AbortTypes, Names DEF HandleCredit
  <2>. QED BY <1>2, <2>1, <2>5 DEF HandleCredit
<1>3. CASE HandleAck
  <2>. DEFINE ack == Head(toServer)
              s == Acknowledged(ack)
  <2>1. toServer' \in Seq(ToServerFrame) BY <1>3, Channels DEF HandleAck, Receives
  <2>2. ack.seq \in Nat /\ ack.committed \in Nat
    BY <1>3, Channels, ByType DEF HandleAck, Receives
  <2>3. AckValid(ack) => s \in Server
    <3>1. AckValid(ack) =>
              SubSeq(server.outstanding, ack.seq - server.acked + 1, Len(server.outstanding))
                  \in Seq(Nat)
      <4>1. /\ server.outstanding \in Seq(Nat) /\ server.acked \in Nat /\ ack.seq \in Nat
        BY <2>2, Fields
      <4>2. AckValid(ack) => /\ ack.seq - server.acked \in Nat
                             /\ ack.seq - server.acked <= Len(server.outstanding)
        BY <4>1 DEF AckValid
      <4>. QED BY <4>1, <4>2, Rest
    <3>2. [server EXCEPT !.acked = ack.seq] \in Server BY <2>2, ServerFields
    <3>3. [server EXCEPT !.acked = ack.seq, !.committed = ack.committed] \in Server
      BY <2>2, <3>2, ServerFields, Zenon
    <3>. QED BY <3>1, <3>3, ServerFields, Zenon DEF Acknowledged
  <2>4. s \in Server => /\ [s EXCEPT !.phase = "closed", !.ended = "complete"] \in Server
                        /\ [s EXCEPT !.phase = "pumping"] \in Server
    BY Closing, ServerFields, Names, Zenon
  <2>5. server' \in Server /\ toLoader' \in Seq(ToLoaderFrame)
    BY <1>3, <2>3, <2>4, AbortTypes, Names, Channels DEF HandleAck
  <2>. QED BY <1>3, <2>1, <2>5 DEF HandleAck
<1>4. CASE HandleCancel
  BY <1>4, AbortTypes, Names, Channels DEF HandleCancel, Receives
<1>5. CASE PumpChunk
  <2>1. PICK n \in 1..Requested :
            /\ toLoader' = SentOn(toLoader, Chunk(NextSequence, server.offset, n))
            /\ server' = [server EXCEPT !.outstanding = Append(@, server.offset + n),
                                        !.offset = @ + n, !.credit = @ - n]
    BY <1>5 DEF PumpChunk
  <2>2. /\ server.offset \in Nat /\ server.credit \in Nat /\ Sent \in Nat
        /\ server.outstanding \in Seq(Nat) /\ server.offset < TotalBytes
        /\ TotalBytes \in Nat /\ ChunkBytes \in Nat
    BY <1>5, Fields, TransferAssumption DEF PumpChunk, MayPump
  <2>3. Requested \in Nat /\ Requested <= ChunkBytes /\ Requested <= server.credit
    BY <2>2 DEF Requested, Least
  <2>3a. NextSequence \in Nat \ {0} BY <2>2 DEF NextSequence, Sent
  <2>3b. /\ server.offset + n \in Nat /\ server.credit - n \in Nat /\ n \in 1..ChunkBytes
    BY <2>2, <2>3
  <2>3c. Append(server.outstanding, server.offset + n) \in Seq(Nat) BY <2>2, <2>3b
  <2>4. [server EXCEPT !.outstanding = Append(@, server.offset + n)] \in Server
    BY <2>3c, ServerFields
  <2>5. [server EXCEPT !.outstanding = Append(@, server.offset + n), !.offset = @ + n] \in Server
    BY <2>3b, <2>4, ServerFields, Zenon
  <2>6. server' \in Server BY <2>1, <2>3b, <2>5, ServerFields, Zenon
  <2>7. Chunk(NextSequence, server.offset, n) \in DataFrame BY <2>2, <2>3a, <2>3b, FrameTypes
  <2>8. toLoader' \in Seq(ToLoaderFrame) BY <2>1, <2>7, Channels
  <2>. QED BY <1>5, <2>6, <2>8 DEF PumpChunk
<1>6. CASE PumpEnds
  BY <1>6, ServerFields, Names DEF PumpEnds
<1>7. CASE PumpFails
  BY <1>7, AbortTypes, Names DEF PumpFails
<1>8. CASE ServerInputEnds
  <2>1. [server EXCEPT !.phase = "closed", !.ended = "released"] \in Server BY Closing, Names
  <2>. QED BY <1>8, <2>1, Channels DEF ServerInputEnds
<1>. QED BY <1>1, <1>2, <1>3, <1>4, <1>5, <1>6, <1>7, <1>8 DEF Node

LEMMA FrameAcceptTypes == ASSUME TransferTypeOK, Frames PROVE TransferTypeOK'
<1>. USE DEF TransferTypeOK
<1>1. CASE AcceptResponse
  <2>1. [loader EXCEPT !.phase = "opened"] \in Loader BY LoaderFields, Names
  <2>2. [loader EXCEPT !.phase = "ended", !.outcome = "rejected", !.terminal = TRUE] \in Loader
    <3>1. [loader EXCEPT !.phase = "ended"] \in Loader BY LoaderFields, Names
    <3>2. [loader EXCEPT !.phase = "ended", !.outcome = "rejected"] \in Loader
      BY <3>1, LoaderFields, Names, Zenon
    <3>. QED BY <3>2, LoaderFields, Zenon
  <2>3. loader' \in Loader BY <1>1, <2>1, <2>2 DEF AcceptResponse
  <2>4. loader'.phase # "yielded" BY <1>1 DEF AcceptResponse, Loader
  <2>5. toLoader' \in Seq(ToLoaderFrame) BY <1>1, Channels DEF AcceptResponse, Arrives
  <2>. QED BY <1>1, <2>3, <2>4, <2>5 DEF AcceptResponse
<1>2. CASE AcceptChunk
  <2>. DEFINE chunk == Head(toLoader)
  <2>1. toLoader # <<>> /\ chunk \in ToLoaderFrame /\ chunk.type = "chunk"
        /\ toLoader' \in Seq(ToLoaderFrame)
    BY <1>2, Channels DEF AcceptChunk, Arrives
  <2>2. chunk \in DataFrame BY <2>1, ByType
  <2>3. /\ loader' \in Loader /\ toServer' \in Seq(ToServerFrame)
        /\ loader'.phase = loader.phase /\ loader'.chunk = loader.chunk
    <3>1. CASE loader.terminal BY <1>2, <3>1 DEF AcceptChunk
    <3>2. CASE ~loader.terminal /\ ~ChunkExpected(chunk)
      BY <1>2, <3>2, NotifyingTypes, Names DEF AcceptChunk
    <3>3. CASE ~loader.terminal /\ ChunkExpected(chunk)
      <4>1. chunk.bytes \in Nat /\ loader.credit \in Nat /\ loader.received \in Nat
            /\ loader.next \in Nat \ {0}
        BY <2>2, ByType, Fields
      <4>2. loader.next + 1 \in Nat \ {0} /\ loader.received + chunk.bytes \in Nat
            /\ loader.credit - chunk.bytes \in Nat
        BY <3>3, <4>1, SMTT(30) DEF ChunkExpected
      <4>3. Append(loader.signals, chunk) \in Seq(Signal) BY <2>2, Channels, FrameTypes
      <4>4. [loader EXCEPT !.next = @ + 1] \in Loader BY <4>2, LoaderFields
      <4>5. [loader EXCEPT !.next = @ + 1, !.received = @ + chunk.bytes] \in Loader
        BY <4>2, <4>4, LoaderFields, Zenon
      <4>6. [loader EXCEPT !.next = @ + 1, !.received = @ + chunk.bytes,
                           !.credit = @ - chunk.bytes] \in Loader
        BY <4>2, <4>5, LoaderFields, Zenon
      <4>. DEFINE c == [loader EXCEPT !.next = @ + 1, !.received = @ + chunk.bytes,
                           !.credit = @ - chunk.bytes, !.signals = Append(@, chunk)]
      <4>7. c \in Loader BY <4>3, <4>6, LoaderFields, Zenon
      <4>8. c.phase = loader.phase /\ c.chunk = loader.chunk BY DEF Loader
      <4>9. loader' = c /\ UNCHANGED toServer BY <1>2, <3>3 DEF AcceptChunk
      <4>. QED BY <4>7, <4>8, <4>9
    <3>. QED BY <3>1, <3>2, <3>3
  <2>. QED BY <1>2, <2>1, <2>3 DEF AcceptChunk
<1>3. CASE AcceptEnd
  <2>1. [loader EXCEPT !.signals = Append(@, Complete)] \in Loader
    BY LoaderFields, Channels, FrameTypes
  <2>2. /\ [loader EXCEPT !.signals = Append(@, Complete)].phase = loader.phase
        /\ [loader EXCEPT !.signals = Append(@, Complete)].chunk = loader.chunk
    BY DEF Loader
  <2>3. loader' \in Loader /\ loader'.phase = loader.phase /\ loader'.chunk = loader.chunk
    <3>1. /\ Failed(loader, "aborted") \in Loader
          /\ Failed(loader, "aborted").phase = loader.phase
          /\ Failed(loader, "aborted").chunk = loader.chunk
      BY Failing, Names
    <3>2. loader' \in {loader, Failed(loader, "aborted"),
                       [loader EXCEPT !.signals = Append(@, Complete)]}
      BY <1>3 DEF AcceptEnd
    <3>. QED BY <2>1, <2>2, <3>1, <3>2
  <2>4. toLoader' \in Seq(ToLoaderFrame) BY <1>3, Channels DEF AcceptEnd, Arrives
  <2>. QED BY <1>3, <2>3, <2>4 DEF AcceptEnd
<1>. QED BY <1>1, <1>2, <1>3 DEF Frames

LEMMA ConsumeTypes == ASSUME TransferTypeOK, Consume PROVE TransferTypeOK'
<1>. USE DEF TransferTypeOK
<1>1. CASE Listen
  <2>1. Least(ChunkBytes, TotalBytes) \in 1..ChunkBytes BY TransferAssumption DEF Least
  <2>. QED BY <1>1, <2>1, GrantTypes DEF Listen
<1>2. CASE Granted
  <2>1. loader' \in Loader BY <1>2, LoaderFields, Names DEF Granted
  <2>2. loader'.phase # "yielded" BY <1>2 DEF Granted, Loader
  <2>. QED BY <1>2, <2>1, <2>2 DEF Granted
<1>3. CASE TakeSignal
  <2>. DEFINE signal == Head(loader.signals)
              rest == [loader EXCEPT !.signals = Tail(@)]
              ended == [rest EXCEPT !.phase = "ended"]
  <2>1. signal \in Signal /\ rest \in Loader
    BY <1>3, Channels, LoaderFields DEF TakeSignal
  <2>2. ended \in Loader /\ ended.phase # "yielded"
    <3>1. ended \in Loader BY <2>1, LoaderFields, Names, Zenon
    <3>2. rest \in Loader => ended.phase = "ended"
      <4>. HIDE DEF rest
      <4>. QED BY DEF Loader
    <3>. QED BY <2>1, <3>1, <3>2
  <2>3. loader' \in Loader /\ toServer' \in Seq(ToServerFrame)
        /\ (loader'.phase = "yielded" => loader'.chunk \in DataFrame)
    <3>1. CASE /\ signal.type = "chunk"
               /\ loader' = [rest EXCEPT !.phase = "yielded", !.chunk = signal,
                                         !.delivered = @ + signal.bytes]
               /\ UNCHANGED toServer
      <4>1. signal \in DataFrame BY <2>1, <3>1, ByType
      <4>2. signal.bytes \in Nat /\ rest.delivered \in Nat
        BY <2>1, <4>1, ByType DEF Loader
      <4>3. rest.delivered + signal.bytes \in Nat BY <4>2, SMTT(30)
      <4>4. [rest EXCEPT !.phase = "yielded"] \in Loader BY <2>1, LoaderFields, Names, Zenon
      <4>5. [rest EXCEPT !.phase = "yielded", !.chunk = signal] \in Loader
        BY <4>1, <4>4, LoaderFields, Zenon
      <4>6. loader' \in Loader BY <3>1, <4>3, <4>5, LoaderFields, Zenon
      <4>7. loader'.chunk = signal
        <5>. HIDE DEF rest, signal
        <5>. QED BY <2>1, <3>1 DEF Loader
      <4>. QED BY <3>1, <4>1, <4>6, <4>7
    <3>2. CASE BeginCancel(ended) BY <2>2, <3>2, CancelTypes
    <3>3. CASE /\ loader' = [rest EXCEPT !.phase = "ended", !.terminal = TRUE,
                                         !.outcome = IF @ = "pending" THEN "completed" ELSE @]
               /\ UNCHANGED toServer
      <4>1. [rest EXCEPT !.phase = "ended", !.terminal = TRUE] \in Loader
        BY <2>2, LoaderFields, Zenon
      <4>2. (IF rest.outcome = "pending" THEN "completed" ELSE rest.outcome) \in Outcome
        BY <2>1, Names DEF Loader
      <4>3. loader' \in Loader BY <3>3, <4>1, <4>2, LoaderFields, Zenon
      <4>4. loader'.phase = "ended"
        <5>. HIDE DEF rest
        <5>. QED BY <2>1, <3>3 DEF Loader
      <4>. QED BY <3>3, <4>3, <4>4
    <3>4. CASE FailNotifying(ended, "dataLoss") BY <2>2, <3>4, NotifyingTypes, Names
    <3>5. CASE loader' = ended /\ UNCHANGED toServer BY <2>2, <3>5
    <3>. QED BY <1>3, <3>1, <3>2, <3>3, <3>4, <3>5 DEF TakeSignal
  <2>. QED BY <1>3, <2>3 DEF TakeSignal
<1>4. CASE AckTaken
  <2>. DEFINE c == [loader EXCEPT !.committed = @ + loader.chunk.bytes,
                                  !.consumed = loader.chunk.seq]
  <2>1. loader.chunk \in DataFrame BY <1>4 DEF AckTaken
  <2>2. loader.committed \in Nat /\ loader.chunk.bytes \in Nat \ {0}
        /\ loader.chunk.seq \in Nat \ {0}
    BY <2>1, ByType, Fields
  <2>3. loader.committed + loader.chunk.bytes \in Nat \ {0} BY <2>2
  <2>4. c \in Loader
    <3>1. [loader EXCEPT !.committed = @ + loader.chunk.bytes] \in Loader
      BY <2>3, LoaderFields
    <3>. QED BY <2>2, <3>1, LoaderFields, Zenon
  <2>5. c.consumed = loader.chunk.seq /\ c.committed = loader.committed + loader.chunk.bytes
    BY DEF Loader
  <2>6. AckOf(c) = Ack(loader.chunk.seq, loader.committed + loader.chunk.bytes)
    BY <2>5 DEF AckOf
  <2>7. \A v \in {"acking", "ended"} :
           [c EXCEPT !.phase = v] \in Loader /\ [c EXCEPT !.phase = v].phase # "yielded"
    <3>. HIDE DEF c
    <3>1. \A v \in {"acking", "ended"} : [c EXCEPT !.phase = v] \in Loader
      BY <2>4, LoaderFields, Names
    <3>2. \A v \in {"acking", "ended"} : [c EXCEPT !.phase = v].phase # "yielded"
      BY <2>4 DEF Loader
    <3>. QED BY <3>1, <3>2
  <2>8. SentOn(toServer, AckOf(c)) \in Seq(ToServerFrame)
    BY <2>2, <2>3, <2>6, Channels, Zenon
  <2>9. loader' \in Loader /\ loader'.phase # "yielded" /\ toServer' \in Seq(ToServerFrame)
    <3>. HIDE DEF c
    <3>1. \/ loader' = [c EXCEPT !.phase = "acking"] /\ toServer' = SentOn(toServer, AckOf(c))
          \/ loader' = [c EXCEPT !.phase = "ended"] /\ UNCHANGED toServer
      BY <1>4 DEF AckTaken, c
    <3>. QED BY <2>7, <2>8, <3>1
  <2>. QED BY <1>4, <2>9 DEF AckTaken
<1>5. CASE Left
  <2>1. [loader EXCEPT !.phase = "ended"] \in Loader BY LoaderFields, Names
  <2>2. [loader EXCEPT !.phase = "ended"].phase # "yielded" BY DEF Loader
  <2>. QED BY <1>5, <2>1, <2>2, CancelTypes DEF Left
<1>6. CASE AckReturns
  <2>1. CASE loader.committed < TotalBytes
    <3>1. Least(ChunkBytes, TotalBytes - loader.committed) \in 1..ChunkBytes
      <4>1. loader.committed \in Nat BY Fields
      <4>. QED BY <2>1, <4>1, TransferAssumption DEF Least
    <3>. QED BY <1>6, <2>1, <3>1, GrantTypes DEF AckReturns
  <2>2. CASE ~(loader.committed < TotalBytes)
    <3>1. loader' \in Loader BY <1>6, <2>2, LoaderFields, Names DEF AckReturns
    <3>2. loader'.phase # "yielded" BY <1>6, <2>2 DEF AckReturns, Loader
    <3>. QED BY <1>6, <2>2, <3>1, <3>2 DEF AckReturns
  <2>. QED BY <2>1, <2>2
<1>. QED BY <1>1, <1>2, <1>3, <1>4, <1>5, <1>6 DEF Consume

LEMMA CallerTypes ==
    ASSUME TransferTypeOK, CancelReturns \/ Leave \/ CancelTransfer \/ Disconnect
    PROVE  TransferTypeOK'
<1>. USE DEF TransferTypeOK
<1>1. CASE CancelReturns
  <2>1. Failed(loader, "cancelled") \in Loader
        /\ Failed(loader, "cancelled").phase = loader.phase
        /\ Failed(loader, "cancelled").chunk = loader.chunk
    BY Failing, Names
  <2>2. loader' \in Loader /\ loader'.phase = loader.phase /\ loader'.chunk = loader.chunk
    <3>. DEFINE c == Failed(loader, "cancelled")
    <3>1. c \in Loader /\ c.phase = loader.phase /\ c.chunk = loader.chunk BY <2>1
    <3>2. loader' = [c EXCEPT !.cancelling = FALSE] BY <1>1 DEF CancelReturns
    <3>. HIDE DEF c
    <3>3. loader' \in Loader BY <3>1, <3>2, LoaderFields
    <3>. QED BY <3>1, <3>2, <3>3 DEF Loader
  <2>. QED BY <1>1, <2>2 DEF CancelReturns
<1>2. CASE Leave
  <2>1. loader' \in Loader BY <1>2, LoaderFields DEF Leave
  <2>2. loader'.phase = loader.phase /\ loader'.chunk = loader.chunk BY <1>2 DEF Leave, Loader
  <2>. QED BY <1>2, <2>1, <2>2 DEF Leave
<1>3. CASE CancelTransfer BY <1>3, CancelTypes DEF CancelTransfer
<1>4. CASE Disconnect
  <2>. DEFINE c == Failed(loader, "disconnected")
  <2>1. c \in Loader /\ c.phase = loader.phase /\ c.chunk = loader.chunk BY Failing, Names
  <2>2. loader' = [c EXCEPT !.phase = IF @ = "requested" THEN "ended" ELSE @]
    BY <1>4 DEF Disconnect
  <2>3. loader' \in Loader /\ (loader'.phase = "yielded" => loader.phase = "yielded")
        /\ loader'.chunk = loader.chunk
    <3>. HIDE DEF c
    <3>1. (IF c.phase = "requested" THEN "ended" ELSE c.phase) \in LoaderPhase
      BY <2>1, Names DEF Loader
    <3>2. loader' \in Loader BY <2>1, <2>2, <3>1, LoaderFields, Zenon
    <3>. QED BY <2>1, <2>2, <3>2 DEF Loader
  <2>. QED BY <1>4, <2>3, Channels DEF Disconnect
<1>. QED BY <1>1, <1>2, <1>3, <1>4

LEMMA TypesKept == ASSUME TransferTypeOK, TransferNext PROVE TransferTypeOK'
  BY NodeTypes, FrameAcceptTypes, ConsumeTypes, CallerTypes DEF TransferNext

-----------------------------------------------------------------------------
(* What the steps have in common.                                          *)

ServerMemory == <<server.offset, server.acked, server.committed, server.outstanding>>
ReaderMemory ==
    <<loader.next, loader.received, loader.committed, loader.consumed, loader.delivered,
      loader.chunk>>
SameReader(c) ==
    /\ loader'.next = c.next /\ loader'.received = c.received /\ loader'.credit = c.credit
    /\ loader'.committed = c.committed /\ loader'.consumed = c.consumed
    /\ loader'.delivered = c.delivered /\ loader'.chunk = c.chunk
    /\ loader'.phase = c.phase

(* The transfer goes on, or fails for one of these reasons. *)
Stops(c, reasons) ==
    /\ SameReader(c)
    /\ \/ /\ loader'.terminal = c.terminal /\ loader'.signals = c.signals
          /\ loader'.outcome = c.outcome
       \/ /\ ~c.terminal /\ loader'.terminal /\ loader'.signals = Append(c.signals, Error)
          /\ loader'.outcome \in reasons

Reasons == {"cancelled", "aborted", "disconnected", "rejected"}

LEMMA AbortEffect ==
    ASSUME TransferTypeOK, NEW reason, AbortTransfer(reason)
    PROVE  /\ UNCHANGED ServerMemory /\ server'.credit = server.credit
           /\ server'.phase = "closed" /\ server'.ended = reason
           /\ toLoader' = SentOn(toLoader, Abort)
<1>1. server \in Server BY DEF TransferTypeOK
<1>. QED BY <1>1 DEF AbortTransfer, ServerMemory, Server

LEMMA FailedEffect ==
    ASSUME NEW c \in Loader, NEW reason \in Reasons, NEW d, d = Failed(c, reason)
    PROVE  /\ d \in Loader
           /\ d.next = c.next /\ d.received = c.received /\ d.credit = c.credit
           /\ d.committed = c.committed /\ d.consumed = c.consumed
           /\ d.delivered = c.delivered /\ d.chunk = c.chunk /\ d.phase = c.phase
           /\ d.cancelling = c.cancelling
           /\ \/ c.terminal /\ d = c
              \/ /\ ~c.terminal /\ d.terminal /\ d.signals = Append(c.signals, Error)
                 /\ d.outcome = reason
<1>1. reason \in Outcome BY DEF Reasons, Outcome
<1>2. d \in Loader BY <1>1, Failing
<1>3. CASE c.terminal BY <1>2, <1>3 DEF Failed
<1>4. CASE ~c.terminal
  <2>1. d = [c EXCEPT !.terminal = TRUE, !.signals = Append(@, Error), !.outcome = reason]
    BY <1>4 DEF Failed
  <2>. QED BY <1>2, <1>4, <2>1 DEF Loader
<1>. QED BY <1>3, <1>4

LEMMA CancelEffect ==
    ASSUME NEW c \in Loader, BeginCancel(c)
    PROVE  /\ Stops(c, Reasons)
           /\ toServer' \in {toServer, SentOn(toServer, Cancel)}
           /\ c.terminal => loader' = c /\ UNCHANGED toServer
<1>1. CASE c.terminal BY <1>1 DEF BeginCancel, Stops, SameReader
<1>2. CASE ~c.terminal /\ c.cancelSent
  <2>1. "cancelled" \in Reasons /\ loader' = Failed(c, "cancelled") /\ UNCHANGED toServer
    BY <1>2 DEF BeginCancel, Reasons
  <2>. QED BY <1>2, <2>1, FailedEffect DEF Stops, SameReader
<1>3. CASE ~c.terminal /\ ~c.cancelSent
  <2>1. /\ loader' = [c EXCEPT !.cancelSent = TRUE, !.cancelling = TRUE]
        /\ toServer' = SentOn(toServer, Cancel)
    BY <1>3 DEF BeginCancel
  <2>2. Stops(c, Reasons) BY <2>1 DEF Stops, SameReader, Loader
  <2>. QED BY <1>3, <2>1, <2>2
<1>. QED BY <1>1, <1>2, <1>3

LEMMA SendingKept ==
    ASSUME NEW ends, Sending(ends), UNCHANGED ServerMemory
    PROVE  Sending(ends)' /\ Sent' = Sent
  BY DEF Sending, Sent, ServerMemory

LEMMA ReadingKept ==
    ASSUME NEW ends, Reading(ends), UNCHANGED ServerMemory, UNCHANGED ReaderMemory,
           loader'.phase # "ended" =>
               /\ loader.phase # "ended"
               /\ loader'.phase = "yielded" <=> loader.phase = "yielded"
    PROVE  Reading(ends)' /\ (loader'.phase # "ended" => Taken' = Taken)
<1>1. /\ server'.acked = server.acked /\ Sent' = Sent BY DEF ServerMemory, Sent
<1>2. /\ loader'.next = loader.next /\ loader'.received = loader.received
      /\ loader'.committed = loader.committed /\ loader'.consumed = loader.consumed
      /\ loader'.delivered = loader.delivered /\ loader'.chunk = loader.chunk
  BY DEF ReaderMemory
<1>3. loader'.phase # "ended" => Taken' = Taken BY <1>2 DEF Taken
<1>4. loader'.phase = "yielded" => loader.phase = "yielded" OBVIOUS
<1>. QED BY <1>1, <1>2, <1>3, <1>4 DEF Reading, Agrees

LEMMA WaitingKept ==
    ASSUME NEW ends, Waiting(ends), loader.signals \in Seq(Signal),
           Sent' = Sent, loader'.next = loader.next,
           loader'.phase # "ended" => loader.phase # "ended" /\ Taken' = Taken,
           \/ loader'.signals = loader.signals
              /\ (loader'.terminal \/ loader'.terminal = loader.terminal)
           \/ loader'.signals = Append(loader.signals, Error) /\ loader'.terminal,
           Told => Told'
    PROVE  Waiting(ends)'
<1>1. CASE loader'.signals = loader.signals
  BY <1>1 DEF Waiting, Agrees
<1>2. CASE loader'.signals = Append(loader.signals, Error) /\ loader'.terminal
  <2>1. Error \in Signal /\ Error.type = "error" BY DEF Error, Signal
  <2>2. /\ DOMAIN loader'.signals = 1 .. Len(loader.signals) + 1
        /\ \A i \in 1 .. Len(loader.signals) : loader'.signals[i] = loader.signals[i]
        /\ loader'.signals[Len(loader.signals) + 1] = Error
        /\ DOMAIN loader.signals = 1 .. Len(loader.signals) /\ Len(loader.signals) \in Nat
    BY <1>2, <2>1
  <2>3. \A i \in DOMAIN loader'.signals :
           loader'.signals[i].type # "error" =>
               i \in DOMAIN loader.signals /\ loader'.signals[i] = loader.signals[i]
    BY <2>1, <2>2
  <2>. QED BY <1>2, <2>3 DEF Waiting, Agrees
<1>. QED BY <1>1, <1>2

LEMMA ArrivingKept ==
    ASSUME NEW ends, Arriving(ends), Sent' = Sent, loader'.next = loader.next,
           toLoader' = toLoader, loader'.phase # "requested" => loader.phase # "requested",
           loader'.terminal \/ loader'.terminal = loader.terminal
    PROVE  Arriving(ends)'
  BY DEF Arriving, Agrees, EndFrame

LEMMA ArrivingEnds ==
    ASSUME NEW ends, Arriving(ends), Sent' = Sent, UNCHANGED loader,
           toLoader \in Seq(ToLoaderFrame), ~connected => loader.terminal,
           NEW f \in {Complete, Abort}, toLoader' = SentOn(toLoader, f)
    PROVE  Arriving(ends)'
<1>1. CASE ~connected BY <1>1 DEF Arriving
<1>2. CASE connected
  <2>1. f \in ToLoaderFrame /\ f.type \in {"complete", "abort"}
    BY DEF ToLoaderFrame, Complete, Abort
  <2>2. /\ DOMAIN toLoader' = 1 .. Len(toLoader) + 1 /\ Len(toLoader) \in Nat
        /\ \A i \in 1 .. Len(toLoader) : toLoader'[i] = toLoader[i]
        /\ toLoader'[Len(toLoader) + 1] = f
        /\ DOMAIN toLoader = 1 .. Len(toLoader)
    BY <1>2, <2>1 DEF SentOn
  <2>3. \A i \in DOMAIN toLoader' :
           toLoader'[i].type = "chunk" => i \in DOMAIN toLoader /\ toLoader'[i] = toLoader[i]
    BY <2>1, <2>2
  <2>4. EndFrame(toLoader'[Len(toLoader) + 1])
        /\ Len(toLoader) + 1 \in DOMAIN toLoader'
    BY <2>1, <2>2 DEF EndFrame
  <2>. QED BY <2>3, <2>4 DEF Arriving, Agrees
<1>. QED BY <1>1, <1>2

LEMMA AcknowledgingKept ==
    ASSUME NEW ends, Acknowledging(ends), UNCHANGED ServerMemory,
           loader'.consumed = loader.consumed, toServer \in Seq(ToServerFrame),
           \/ toServer' = toServer
           \/ toServer # <<>> /\ toServer' = Tail(toServer)
           \/ toServer' = <<>>
           \/ \E f \in ToServerFrame : f.type # "ack" /\ toServer' = SentOn(toServer, f)
    PROVE  Acknowledging(ends)'
<1>1. server'.acked = server.acked BY DEF ServerMemory
<1>2. CASE toServer' = toServer BY <1>1, <1>2 DEF Acknowledging
<1>3. CASE toServer # <<>> /\ toServer' = Tail(toServer)
  <2>1. /\ DOMAIN toServer' = 1 .. Len(toServer) - 1 /\ DOMAIN toServer = 1 .. Len(toServer)
        /\ Len(toServer) \in Nat
        /\ \A i \in 1 .. Len(toServer) - 1 : toServer'[i] = toServer[i + 1]
    BY <1>3
  <2>2. \A i \in DOMAIN toServer' : i + 1 \in DOMAIN toServer /\ toServer'[i] = toServer[i + 1]
    BY <2>1
  <2>3. \A i, j \in DOMAIN toServer' : i < j => i + 1 < j + 1 BY <2>1
  <2>. QED BY <1>1, <2>2, <2>3 DEF Acknowledging
<1>4. CASE toServer' = <<>> BY <1>4 DEF Acknowledging
<1>5. CASE \E f \in ToServerFrame : f.type # "ack" /\ toServer' = SentOn(toServer, f)
  <2>1. PICK f \in ToServerFrame : f.type # "ack" /\ toServer' = SentOn(toServer, f) BY <1>5
  <2>2. CASE connected
    <3>1. /\ DOMAIN toServer' = 1 .. Len(toServer) + 1 /\ Len(toServer) \in Nat
          /\ \A i \in 1 .. Len(toServer) : toServer'[i] = toServer[i]
          /\ toServer'[Len(toServer) + 1] = f
          /\ DOMAIN toServer = 1 .. Len(toServer)
      BY <2>1, <2>2 DEF SentOn
    <3>2. \A i \in DOMAIN toServer' :
             toServer'[i].type = "ack" => i \in DOMAIN toServer /\ toServer'[i] = toServer[i]
      <4>. SUFFICES ASSUME NEW i \in 1 .. Len(toServer) + 1, toServer'[i].type = "ack"
                    PROVE  i \in 1 .. Len(toServer)
        BY <3>1
      <4>1. i # Len(toServer) + 1 BY <2>1, <3>1
      <4>2. Len(toServer) \in Nat BY <3>1
      <4>. QED BY <4>1, <4>2
    <3>. QED BY <1>1, <3>2 DEF Acknowledging
  <2>3. CASE ~connected BY <1>1, <2>1, <2>3 DEF SentOn, Acknowledging
  <2>. QED BY <2>2, <2>3
<1>. QED BY <1>2, <1>3, <1>4, <1>5

LEMMA CreditTaken ==
    ASSUME TransferTypeOK, NEW sums, Crediting(sums), toServer # <<>>,
           toServer' = Tail(toServer), Given' = Given,
           server'.credit + server'.offset =
               server.credit + server.offset + CreditOf(Head(toServer))
    PROVE  \E s : Crediting(s)'
<1>. DEFINE s == [n \in Nat |-> sums[n + 1]]
            len == Len(toServer)
<1>1. /\ len \in Nat \ {0} /\ Len(toServer') = len - 1 /\ Head(toServer) = toServer[1]
      /\ \A i \in 1 .. len - 1 : toServer'[i] = toServer[i + 1]
  BY Channels
<1>2. /\ sums \in [Nat -> Nat] /\ sums[0] = server.credit + server.offset /\ sums[len] = Given
      /\ \A i \in 1 .. len : sums[i] = sums[i - 1] + CreditOf(toServer[i])
      /\ \A i, j \in 0 .. len : i <= j => sums[i] <= sums[j]
  BY DEF Crediting
<1>. HIDE DEF len
<1>3. s \in [Nat -> Nat] BY <1>2
<1>4. s[0] = server'.credit + server'.offset
  <2>1. s[0] = sums[1] /\ 1 \in 1 .. len BY <1>1
  <2>2. sums[1] = sums[0] + CreditOf(toServer[1]) BY <1>2, <2>1
  <2>. QED BY <1>1, <1>2, <2>1, <2>2
<1>5. s[len - 1] = Given' BY <1>1, <1>2
<1>6. \A i \in 1 .. len - 1 : s[i] = s[i - 1] + CreditOf(toServer'[i])
  <2>. TAKE i \in 1 .. len - 1
  <2>1. i + 1 \in 1 .. len /\ i - 1 \in Nat /\ i \in Nat BY <1>1
  <2>2. sums[i + 1] = sums[i] + CreditOf(toServer[i + 1]) BY <1>2, <2>1
  <2>3. s[i] = sums[i + 1] /\ s[i - 1] = sums[i] BY <2>1
  <2>. QED BY <1>1, <2>2, <2>3
<1>7. \A i, j \in 0 .. len - 1 : i <= j => s[i] <= s[j]
  <2>. TAKE i, j \in 0 .. len - 1
  <2>1. i + 1 \in 0 .. len /\ j + 1 \in 0 .. len /\ i \in Nat /\ j \in Nat BY <1>1
  <2>2. s[i] = sums[i + 1] /\ s[j] = sums[j + 1] BY <2>1
  <2>. QED BY <1>2, <2>1, <2>2
<1>. HIDE DEF s
<1>8. Crediting(s)' BY <1>1, <1>3, <1>4, <1>5, <1>6, <1>7 DEF Crediting
<1>. QED BY <1>8

LEMMA CreditSent ==
    ASSUME TransferTypeOK, NEW sums, Crediting(sums), NEW f \in ToServerFrame,
           CreditOf(f) \in Nat, toServer' = Append(toServer, f),
           Given' = Given + CreditOf(f),
           server'.credit + server'.offset = server.credit + server.offset
    PROVE  \E s : Crediting(s)'
<1>. DEFINE len == Len(toServer)
<1>0. PICK s : s = [sums EXCEPT ![len + 1] = Given'] OBVIOUS
<1>1. /\ len \in Nat /\ Len(toServer') = len + 1 /\ toServer'[len + 1] = f
      /\ \A i \in 1 .. len : toServer'[i] = toServer[i]
  <2>1. toServer \in Seq(ToServerFrame) BY Channels
  <2>. QED BY <2>1
<1>2. /\ sums \in [Nat -> Nat] /\ sums[0] = server.credit + server.offset /\ sums[len] = Given
      /\ \A i \in 1 .. len : sums[i] = sums[i - 1] + CreditOf(toServer[i])
      /\ \A i, j \in 0 .. len : i <= j => sums[i] <= sums[j]
  BY DEF Crediting
<1>. HIDE DEF len
<1>3. Given \in Nat /\ Given' \in Nat /\ Given' = Given + CreditOf(f)
      /\ Given <= Given'
  <2>1. Given \in Nat BY Fields
  <2>. QED BY <2>1
<1>4. s \in [Nat -> Nat] /\ s[len + 1] = Given' /\ \A i \in 0 .. len : s[i] = sums[i]
  <2>1. len + 1 \in Nat /\ \A i \in 0 .. len : i \in Nat /\ i # len + 1 BY <1>1
  <2>. QED BY <1>0, <1>2, <1>3, <2>1
<1>5. \A i \in 1 .. len + 1 : s[i] = s[i - 1] + CreditOf(toServer'[i])
  <2>. TAKE i \in 1 .. len + 1
  <2>1. CASE i \in 1 .. len
    <3>1. i - 1 \in 0 .. len /\ i \in 0 .. len BY <1>1, <2>1
    <3>. QED BY <1>1, <1>2, <1>4, <2>1, <3>1
  <2>2. CASE i = len + 1
    <3>1. i - 1 = len /\ len \in 0 .. len BY <1>1, <2>2
    <3>. QED BY <1>1, <1>2, <1>4, <2>2, <3>1
  <2>. QED BY <1>1, <2>1, <2>2
<1>6. \A i, j \in 0 .. len + 1 : i <= j => s[i] <= s[j]
  <2>. TAKE i, j \in 0 .. len + 1
  <2>. HAVE i <= j
  <2>1. CASE i \in 0 .. len /\ j \in 0 .. len BY <1>2, <1>4, <2>1
  <2>2. CASE j = len + 1 /\ i \in 0 .. len
    <3>1. i <= len /\ len \in 0 .. len /\ i \in Nat BY <1>1, <2>2
    <3>2. sums[i] <= sums[len] BY <1>2, <2>2, <3>1
    <3>3. sums[i] <= Given /\ sums[i] \in Nat BY <1>2, <3>1, <3>2
    <3>4. s[i] = sums[i] /\ s[j] = Given' BY <1>4, <2>2
    <3>5. sums[i] <= Given' BY <1>3, <3>3
    <3>. QED BY <3>4, <3>5
  <2>3. CASE j = len + 1 /\ i = len + 1 BY <1>3, <1>4, <2>3
  <2>4. i \in 0 .. len \/ i = len + 1 BY <1>1
  <2>5. j \in 0 .. len \/ j = len + 1 BY <1>1
  <2>6. i = len + 1 /\ j \in 0 .. len => FALSE BY <1>1
  <2>. QED BY <2>1, <2>2, <2>3, <2>4, <2>5, <2>6
<1>7. s[0] = server'.credit + server'.offset BY <1>1, <1>2, <1>4
<1>8. Crediting(s)'
  <2>1. s[Len(toServer')] = Given' BY <1>1, <1>4
  <2>2. /\ \A i \in 1 .. Len(toServer') : s[i] = s[i - 1] + CreditOf(toServer'[i])
        /\ \A i, j \in 0 .. Len(toServer') : i <= j => s[i] <= s[j]
    BY <1>1, <1>5, <1>6
  <2>. QED BY <1>4, <1>7, <2>1, <2>2 DEF Crediting
<1>. QED BY <1>8

LEMMA ToServerElements ==
    ASSUME TransferTypeOK
    PROVE  /\ DOMAIN toServer = 1 .. Len(toServer) /\ Len(toServer) \in Nat
           /\ toServer # <<>> =>
                 /\ Len(toServer) > 0 /\ 1 \in DOMAIN toServer /\ Head(toServer) = toServer[1]
                 /\ Len(Tail(toServer)) = Len(toServer) - 1
                 /\ DOMAIN Tail(toServer) = 1 .. Len(toServer) - 1
                 /\ \A i \in DOMAIN Tail(toServer) :
                       i + 1 \in DOMAIN toServer /\ Tail(toServer)[i] = toServer[i + 1]
           /\ \A f \in ToServerFrame : \A i \in DOMAIN SentOn(toServer, f) :
                 \/ i \in DOMAIN toServer /\ SentOn(toServer, f)[i] = toServer[i]
                 \/ i = Len(toServer) + 1 /\ SentOn(toServer, f)[i] = f
<1>1. toServer \in Seq(ToServerFrame) BY Channels
<1>. QED BY <1>1 DEF SentOn

LEMMA ToLoaderElements ==
    ASSUME TransferTypeOK
    PROVE  /\ DOMAIN toLoader = 1 .. Len(toLoader) /\ Len(toLoader) \in Nat
           /\ toLoader # <<>> =>
                 /\ Len(toLoader) > 0 /\ 1 \in DOMAIN toLoader /\ Head(toLoader) = toLoader[1]
                 /\ Len(Tail(toLoader)) = Len(toLoader) - 1
                 /\ DOMAIN Tail(toLoader) = 1 .. Len(toLoader) - 1
                 /\ \A i \in DOMAIN Tail(toLoader) :
                       i + 1 \in DOMAIN toLoader /\ Tail(toLoader)[i] = toLoader[i + 1]
           /\ \A f \in ToLoaderFrame :
                 /\ SentOn(toLoader, f) = <<>> => ~connected
                 /\ \A i \in DOMAIN SentOn(toLoader, f) :
                       \/ i \in DOMAIN toLoader /\ SentOn(toLoader, f)[i] = toLoader[i]
                          /\ (connected => i < Len(SentOn(toLoader, f)))
                       \/ connected /\ i = Len(toLoader) + 1 /\ SentOn(toLoader, f)[i] = f
                          /\ i = Len(SentOn(toLoader, f))
<1>1. toLoader \in Seq(ToLoaderFrame) BY Channels
<1>2. /\ DOMAIN toLoader = 1 .. Len(toLoader) /\ Len(toLoader) \in Nat
      /\ toLoader # <<>> =>
            /\ Len(toLoader) > 0 /\ 1 \in DOMAIN toLoader /\ Head(toLoader) = toLoader[1]
            /\ Len(Tail(toLoader)) = Len(toLoader) - 1
            /\ DOMAIN Tail(toLoader) = 1 .. Len(toLoader) - 1
            /\ \A i \in DOMAIN Tail(toLoader) :
                  i + 1 \in DOMAIN toLoader /\ Tail(toLoader)[i] = toLoader[i + 1]
  BY <1>1
<1>3. ASSUME NEW f \in ToLoaderFrame
      PROVE  /\ SentOn(toLoader, f) = <<>> => ~connected
             /\ \A i \in DOMAIN SentOn(toLoader, f) :
                   \/ i \in DOMAIN toLoader /\ SentOn(toLoader, f)[i] = toLoader[i]
                      /\ (connected => i < Len(SentOn(toLoader, f)))
                   \/ connected /\ i = Len(toLoader) + 1 /\ SentOn(toLoader, f)[i] = f
                      /\ i = Len(SentOn(toLoader, f))
  <2>1. CASE connected
    <3>1. SentOn(toLoader, f) = Append(toLoader, f) BY <2>1 DEF SentOn
    <3>2. /\ Len(Append(toLoader, f)) = Len(toLoader) + 1
          /\ DOMAIN Append(toLoader, f) = 1 .. Len(toLoader) + 1
          /\ \A i \in 1 .. Len(toLoader) : Append(toLoader, f)[i] = toLoader[i]
          /\ Append(toLoader, f)[Len(toLoader) + 1] = f
          /\ Append(toLoader, f) # <<>>
      BY <1>1
    <3>. QED BY <1>2, <2>1, <3>1, <3>2
  <2>2. CASE ~connected BY <1>2, <2>2 DEF SentOn
  <2>. QED BY <2>1, <2>2
<1>. QED BY <1>2, <1>3

LEMMA AbortKeeps ==
    ASSUME TransferInv, TransferTypeOK', NEW reason \in {"exhausted", "cancelled", "failed"},
           AbortTransfer(reason), server.phase \notin {"closed", "none"},
           loader.phase # "requested", UNCHANGED <<loader, connected>>,
           toServer' = toServer \/ (toServer # <<>> /\ toServer' = Tail(toServer))
    PROVE  TransferInv'
<1>1. TransferTypeOK /\ Opening /\ Ending /\ Bounding BY DEF TransferInv
<1>2. PICK ends : Numbered(ends) BY DEF TransferInv
<1>3. /\ UNCHANGED ServerMemory /\ server'.phase = "closed" /\ server'.ended = reason
      /\ toLoader' = SentOn(toLoader, Abort)
  BY <1>1, AbortEffect
<1>4. Abort \in ToLoaderFrame /\ Abort.type = "abort" BY FrameTypes DEF Abort
<1>5. ~Told /\ ~Told' BY <1>1, <1>3 DEF Told, Ending
<1>6. Opening'
  <2>1. \A i \in DOMAIN toServer' : toServer'[i].type # "request"
    <3>1. \A i \in DOMAIN toServer : toServer[i].type # "request" BY <1>1 DEF Opening
    <3>. QED BY <1>1, <3>1, ToServerElements
  <2>2. \A i \in DOMAIN toLoader' : toLoader'[i].type \notin {"open", "rejected"}
    <3>1. \A i \in DOMAIN toLoader : toLoader[i].type \notin {"open", "rejected"}
      BY <1>1 DEF Opening
    <3>. QED BY <1>1, <1>3, <1>4, <3>1, ToLoaderElements
  <2>. QED BY <1>3, <2>1, <2>2 DEF Opening
<1>7. Ending'
  <2>1. \A i \in DOMAIN toLoader : ~EndFrame(toLoader[i]) BY <1>1 DEF Ending
  <2>2. \A i \in DOMAIN toLoader' : EndFrame(toLoader'[i]) =>
           i = Len(toLoader') /\ toLoader'[i].type # "complete"
    BY <1>1, <1>3, <1>4, <2>1, ToLoaderElements DEF EndFrame
  <2>3. \A i \in DOMAIN toLoader' : toLoader'[i].type = "complete" => EndFrame(toLoader'[i])
    BY DEF EndFrame
  <2>4. ~connected => toLoader' = <<>> BY <1>1, <1>3 DEF Ending, SentOn
  <2>. QED BY <1>1, <1>3, <2>2, <2>3, <2>4 DEF Ending
<1>8. Bounding' BY <1>1, <1>3 DEF Bounding, ServerMemory, Given
<1>9. Numbered(ends)'
  <2>1. Sending(ends)' /\ Sent' = Sent BY <1>2, <1>3, SendingKept DEF Numbered
  <2>2. Reading(ends)' /\ (loader'.phase # "ended" => Taken' = Taken)
    BY <1>2, <1>3, ReadingKept DEF Numbered, ReaderMemory
  <2>3. Waiting(ends)' BY <1>1, <1>2, <1>5, <2>1, <2>2, Fields, WaitingKept DEF Numbered
  <2>4. Arriving(ends)'
    <3>1. ~connected => loader.terminal BY <1>1 DEF Ending
    <3>. QED BY <1>1, <1>2, <1>3, <2>1, <3>1, Channels, ArrivingEnds DEF Numbered
  <2>5. Acknowledging(ends)'
    BY <1>1, <1>2, <1>3, Channels, AcknowledgingKept DEF Numbered
  <2>. QED BY <2>1, <2>2, <2>3, <2>4, <2>5 DEF Numbered
<1>. QED BY <1>3, <1>6, <1>7, <1>8, <1>9 DEF TransferInv

LEMMA HandleRequestKeeps == ASSUME TransferInv, TransferTypeOK', HandleRequest PROVE TransferInv'
<1>1. TransferTypeOK /\ Opening /\ Ending /\ Bounding BY DEF TransferInv
<1>2. PICK ends : Numbered(ends) BY DEF TransferInv
<1>3. /\ server.phase = "none" /\ toServer = <<RequestFrame>> /\ toLoader = <<>>
      /\ server.acked = 0 /\ server.outstanding = <<>> /\ server.credit = 0
      /\ loader.phase # "requested" => loader.phase = "ended" /\ ~connected
  <2>1. toServer # <<>> /\ Head(toServer).type = "request"
    BY <1>1 DEF HandleRequest, Receives
  <2>2. server.phase = "none" BY <1>1, <2>1, ToServerElements DEF Opening
  <2>. QED BY <1>1, <2>2 DEF Opening
<1>4. UNCHANGED <<loader, connected>> /\ toServer' = <<>>
  BY <1>3 DEF HandleRequest
<1>5. /\ UNCHANGED ServerMemory /\ server'.credit = server.credit
      /\ \/ /\ server'.phase = "open" /\ server'.ended = server.ended
            /\ toLoader' = SentOn(toLoader, Open)
         \/ /\ server'.phase = "closed" /\ server'.ended = "rejected"
            /\ toLoader' = SentOn(toLoader, Rejected)
  <2>1. server \in Server BY <1>1 DEF TransferTypeOK
  <2>. QED BY <2>1 DEF HandleRequest, ServerMemory, Server
<1>6. \/ connected /\ toLoader' = <<Open>> /\ server'.phase = "open"
      \/ connected /\ toLoader' = <<Rejected>> /\ server'.phase = "closed"
      \/ ~connected /\ toLoader' = <<>>
  BY <1>3, <1>5 DEF SentOn
<1>7. Open.type = "open" /\ Rejected.type = "rejected" BY DEF Open, Rejected
<1>8. server.ended = "no" /\ (~connected => loader.terminal) BY <1>1, <1>3 DEF Ending
<1>9. Opening'
  <2>1. loader.phase = "requested" =>
          /\ server.acked = 0 /\ server.outstanding = <<>> /\ Given = 0 /\ loader.next = 1
          /\ loader.signals = <<>> /\ ~loader.terminal /\ ~loader.cancelling /\ connected
    BY <1>1 DEF Opening
  <2>2. loader.phase # "requested" => toLoader' = <<>> BY <1>3, <1>6
  <2>. QED BY <1>4, <1>5, <1>6, <2>1, <2>2 DEF Opening, ServerMemory, Given
<1>10. Ending'
  <2>1. \A i \in DOMAIN toLoader' : toLoader'[i].type \notin {"complete", "abort"}
    BY <1>6, <1>7
  <2>. QED BY <1>1, <1>4, <1>5, <1>6, <1>8, <2>1 DEF Ending, EndFrame
<1>11. Bounding' BY <1>1, <1>4, <1>5 DEF Bounding, ServerMemory, Given
<1>12. Numbered(ends)'
  <2>1. Sending(ends)' /\ Sent' = Sent BY <1>2, <1>5, SendingKept DEF Numbered
  <2>2. Reading(ends)' /\ (loader'.phase # "ended" => Taken' = Taken)
    BY <1>2, <1>4, <1>5, ReadingKept DEF Numbered, ReaderMemory
  <2>3. ~Told /\ ~Told' BY <1>5, <1>8 DEF Told
  <2>4. Waiting(ends)' BY <1>1, <1>2, <1>4, <2>1, <2>2, <2>3, Fields, WaitingKept DEF Numbered
  <2>5. Arriving(ends)'
    <3>1. loader'.terminal \/ loader'.phase = "requested" BY <1>3, <1>4, <1>8
    <3>. QED BY <3>1 DEF Arriving
  <2>6. Acknowledging(ends)' BY <1>4 DEF Acknowledging
  <2>. QED BY <2>1, <2>2, <2>4, <2>5, <2>6 DEF Numbered
<1>13. \E sums : Crediting(sums)'
  <2>1. PICK sums : Crediting(sums) BY <1>3 DEF TransferInv
  <2>2. CreditOf(Head(toServer)) = 0 BY <1>3 DEF CreditOf, RequestFrame
  <2>3. server.credit \in Nat /\ server.offset \in Nat BY <1>1, Fields
  <2>4. server'.credit + server'.offset = server.credit + server.offset + CreditOf(Head(toServer))
    BY <1>5, <2>2, <2>3 DEF ServerMemory
  <2>5. Given' = Given BY <1>4 DEF Given
  <2>6. toServer # <<>> /\ toServer' = Tail(toServer) BY <1>3 DEF HandleRequest
  <2>. QED BY <1>1, <2>1, <2>4, <2>5, <2>6, CreditTaken
<1>. QED BY <1>9, <1>10, <1>11, <1>12, <1>13 DEF TransferInv

(* The Node handles a frame that is not the first. *)
LEMMA Received ==
    ASSUME TransferInv, NEW type \in {"credit", "ack", "cancel"}, Receives(type)
    PROVE  /\ server.phase # "none" /\ loader.phase # "requested"
           /\ toServer # <<>> /\ Head(toServer).type = type /\ Head(toServer) \in ToServerFrame
           /\ Head(toServer) = toServer[1] /\ 1 \in DOMAIN toServer
<1>1. TransferTypeOK /\ Opening BY DEF TransferInv
<1>2. toServer # <<>> /\ Head(toServer).type = type BY DEF Receives
<1>3. server.phase # "none" BY <1>1, <1>2 DEF Opening, RequestFrame
<1>4. loader.phase # "requested" BY <1>1, <1>2, <1>3 DEF Opening
<1>. QED BY <1>1, <1>2, <1>3, <1>4, Channels, ToServerElements

(* The Node looks at a frame and does not answer. *)
LEMMA TurnKeeps ==
    ASSUME TransferInv, TransferTypeOK', UNCHANGED ServerMemory,
           UNCHANGED <<loader, toLoader, connected>>, server'.ended = server.ended,
           server.phase # "none", server'.phase # "none",
           server'.phase = "closed" <=> server.phase = "closed",
           loader.phase # "requested",
           server.phase # "closed" => \E sums : Crediting(sums)',
           toServer' = toServer \/ (toServer # <<>> /\ toServer' = Tail(toServer))
    PROVE  TransferInv'
<1>1. TransferTypeOK /\ Opening /\ Ending /\ Bounding BY DEF TransferInv
<1>2. PICK ends : Numbered(ends) BY DEF TransferInv
<1>3. Opening'
  <2>1. \A i \in DOMAIN toServer' : toServer'[i].type # "request"
    <3>1. \A i \in DOMAIN toServer : toServer[i].type # "request" BY <1>1 DEF Opening
    <3>. QED BY <1>1, <3>1, ToServerElements
  <2>. QED BY <1>1, <2>1 DEF Opening
<1>4. Ending' BY <1>1 DEF Ending, EndFrame, ServerMemory
<1>5. Bounding' BY <1>1 DEF Bounding, ServerMemory, Given
<1>6. Numbered(ends)'
  <2>1. Sending(ends)' /\ Sent' = Sent BY <1>2, SendingKept DEF Numbered
  <2>2. Reading(ends)' /\ (loader'.phase # "ended" => Taken' = Taken)
    BY <1>2, ReadingKept DEF Numbered, ReaderMemory
  <2>3. Told' = Told BY DEF Told
  <2>4. Waiting(ends)' BY <1>1, <1>2, <2>1, <2>2, <2>3, Fields, WaitingKept DEF Numbered
  <2>5. Arriving(ends)' BY <1>2, <2>1, ArrivingKept DEF Numbered
  <2>6. Acknowledging(ends)' BY <1>1, <1>2, Channels, AcknowledgingKept DEF Numbered
  <2>. QED BY <2>1, <2>2, <2>4, <2>5, <2>6 DEF Numbered
<1>. QED BY <1>3, <1>4, <1>5, <1>6 DEF TransferInv

LEMMA HandleCreditKeeps == ASSUME TransferInv, TransferTypeOK', HandleCredit PROVE TransferInv'
<1>1. TransferTypeOK BY DEF TransferInv
<1>2. /\ server.phase # "none" /\ loader.phase # "requested" /\ toServer # <<>>
      /\ Head(toServer).type = "credit" /\ Head(toServer) \in ToServerFrame
  BY Received DEF HandleCredit
<1>3. /\ Head(toServer).bytes \in Nat \ {0} /\ server.credit \in Nat /\ server.offset \in Nat
  BY <1>1, <1>2, ByType, Fields
<1>4. toServer' = Tail(toServer) /\ UNCHANGED <<loader, connected>> BY DEF HandleCredit
<1>5. CASE server.phase = "closed"
  <2>1. UNCHANGED <<server, toLoader>> BY <1>5 DEF HandleCredit
  <2>. QED BY <1>2, <1>4, <1>5, <2>1, TurnKeeps DEF ServerMemory
<1>6. CASE server.phase # "closed" /\ server.credit + Head(toServer).bytes > MaxCredit
  <2>1. AbortTransfer("exhausted") BY <1>3, <1>6 DEF HandleCredit
  <2>. QED BY <1>2, <1>4, <1>6, <2>1, AbortKeeps
<1>7. CASE server.phase # "closed" /\ ~(server.credit + Head(toServer).bytes > MaxCredit)
  <2>1. /\ server' = [server EXCEPT !.credit = server.credit + Head(toServer).bytes,
                                    !.phase = "pumping"]
        /\ UNCHANGED toLoader
    BY <1>3, <1>7 DEF HandleCredit
  <2>2. /\ UNCHANGED ServerMemory /\ server'.phase = "pumping" /\ server'.ended = server.ended
        /\ server'.credit = server.credit + Head(toServer).bytes
    <3>1. server \in Server BY <1>1 DEF TransferTypeOK
    <3>. QED BY <2>1, <3>1 DEF ServerMemory, Server
  <2>3. \E sums : Crediting(sums)'
    <3>1. PICK sums : Crediting(sums) BY <1>7 DEF TransferInv
    <3>2. CreditOf(Head(toServer)) = Head(toServer).bytes BY <1>2 DEF CreditOf
    <3>3. server'.credit + server'.offset
             = server.credit + server.offset + CreditOf(Head(toServer))
      BY <1>3, <2>2, <3>2 DEF ServerMemory
    <3>4. Given' = Given BY <1>4 DEF Given
    <3>. QED BY <1>1, <1>2, <1>4, <3>1, <3>3, <3>4, CreditTaken
  <2>. QED BY <1>2, <1>4, <1>7, <2>1, <2>2, <2>3, TurnKeeps
<1>. QED BY <1>5, <1>6, <1>7

LEMMA HandleCancelKeeps == ASSUME TransferInv, TransferTypeOK', HandleCancel PROVE TransferInv'
<1>1. TransferTypeOK BY DEF TransferInv
<1>2. server.phase # "none" /\ loader.phase # "requested" /\ toServer # <<>>
  BY Received DEF HandleCancel
<1>3. toServer' = Tail(toServer) /\ UNCHANGED <<loader, connected>> BY DEF HandleCancel
<1>4. CASE server.phase = "closed"
  <2>1. UNCHANGED <<server, toLoader>> BY <1>4 DEF HandleCancel
  <2>. QED BY <1>2, <1>3, <1>4, <2>1, TurnKeeps DEF ServerMemory
<1>5. CASE server.phase # "closed"
  <2>1. AbortTransfer("cancelled") BY <1>5 DEF HandleCancel
  <2>. QED BY <1>2, <1>3, <1>5, <2>1, AbortKeeps
<1>. QED BY <1>4, <1>5

LEMMA PumpEndsKeeps == ASSUME TransferInv, TransferTypeOK', PumpEnds PROVE TransferInv'
<1>1. TransferTypeOK /\ Opening BY DEF TransferInv
<1>2. server.phase = "pumping" /\ loader.phase # "requested"
  BY <1>1 DEF PumpEnds, Opening
<1>3. /\ UNCHANGED ServerMemory /\ server'.phase = "open" /\ server'.ended = server.ended
      /\ server'.credit = server.credit
  <2>1. server \in Server BY <1>1 DEF TransferTypeOK
  <2>. QED BY <2>1 DEF PumpEnds, ServerMemory, Server
<1>4. UNCHANGED <<loader, toServer, toLoader, connected>> BY DEF PumpEnds
<1>5. \E sums : Crediting(sums)'
  <2>1. PICK sums : Crediting(sums) BY <1>2 DEF TransferInv
  <2>. QED BY <1>3, <1>4, <2>1 DEF Crediting, Given, ServerMemory
<1>. QED BY <1>2, <1>3, <1>4, <1>5, TurnKeeps

LEMMA PumpFailsKeeps == ASSUME TransferInv, TransferTypeOK', PumpFails PROVE TransferInv'
<1>1. Opening BY DEF TransferInv
<1>2. server.phase = "pumping" /\ loader.phase # "requested"
  BY <1>1 DEF PumpFails, Opening
<1>. QED BY <1>2, AbortKeeps DEF PumpFails

LEMMA ServerInputEndsKeeps ==
    ASSUME TransferInv, TransferTypeOK', ServerInputEnds PROVE TransferInv'
<1>1. TransferTypeOK /\ Opening /\ Ending /\ Bounding BY DEF TransferInv
<1>2. PICK ends : Numbered(ends) BY DEF TransferInv
<1>3. /\ ~connected /\ toServer' = <<>> /\ UNCHANGED <<loader, toLoader, connected>>
  BY DEF ServerInputEnds
<1>4. /\ UNCHANGED ServerMemory /\ server'.phase = "closed"
      /\ server'.ended \in {server.ended, "released"}
      /\ server.ended = "complete" => server'.ended = "complete"
  <2>1. server \in Server BY <1>1 DEF TransferTypeOK
  <2>2. server.phase # "closed" => server.ended = "no" BY <1>1 DEF Ending
  <2>. QED BY <2>1, <2>2 DEF ServerInputEnds, ServerMemory, Server
<1>5. loader.phase # "requested" /\ loader.terminal /\ toLoader = <<>>
  BY <1>1, <1>3 DEF Opening, Ending
<1>6. Opening' BY <1>1, <1>3, <1>4, <1>5 DEF Opening
<1>7. Ending' BY <1>1, <1>3, <1>4, <1>5 DEF Ending, ServerMemory
<1>8. Bounding' BY <1>1, <1>3, <1>4 DEF Bounding, ServerMemory, Given
<1>9. Numbered(ends)'
  <2>1. Sending(ends)' /\ Sent' = Sent BY <1>2, <1>4, SendingKept DEF Numbered
  <2>2. Reading(ends)' /\ (loader'.phase # "ended" => Taken' = Taken)
    BY <1>2, <1>3, <1>4, ReadingKept DEF Numbered, ReaderMemory
  <2>3. Told => Told' BY <1>3, <1>4 DEF Told
  <2>4. Waiting(ends)'
    BY <1>1, <1>2, <1>3, <1>5, <2>1, <2>2, <2>3, Fields, WaitingKept DEF Numbered
  <2>5. Arriving(ends)' BY <1>3, <1>5 DEF Arriving
  <2>6. Acknowledging(ends)' BY <1>3 DEF Acknowledging
  <2>. QED BY <2>1, <2>2, <2>4, <2>5, <2>6 DEF Numbered
<1>. QED BY <1>4, <1>6, <1>7, <1>8, <1>9 DEF TransferInv

LEMMA AckIsValid ==
    ASSUME TransferInv, Receives("ack"), NEW ends, Numbered(ends)
    PROVE  /\ Head(toServer).seq \in server.acked + 1 .. loader.consumed
           /\ Head(toServer).seq \in server.acked + 1 .. Sent
           /\ Head(toServer).committed = ends[Head(toServer).seq]
           /\ AckValid(Head(toServer))
<1>. DEFINE ack == Head(toServer)
<1>1. TransferTypeOK BY DEF TransferInv
<1>2. ack = toServer[1] /\ 1 \in DOMAIN toServer /\ ack.type = "ack" BY Received
<1>3. ack.seq \in server.acked + 1 .. loader.consumed /\ ack.committed = ends[ack.seq]
  BY <1>2 DEF Numbered, Acknowledging
<1>4. /\ server.acked \in Nat /\ loader.consumed \in Nat /\ loader.next \in Nat /\ Sent \in Nat
      /\ server.outstanding \in Seq(Nat) /\ Len(server.outstanding) \in Nat
  BY <1>1, Fields
<1>. HIDE DEF ack
<1>5. ack.seq \in server.acked + 1 .. Sent
  <2>1. loader.consumed <= Sent BY <1>4 DEF Numbered, Reading
  <2>. QED BY <1>3, <1>4, <2>1
<1>6. /\ ack.seq - server.acked \in 1 .. Len(server.outstanding)
      /\ ack.seq = server.acked + (ack.seq - server.acked)
  BY <1>4, <1>5 DEF Sent
<1>7. ack.committed = server.outstanding[ack.seq - server.acked]
  <2>1. server.outstanding[ack.seq - server.acked]
           = ends[server.acked + (ack.seq - server.acked)]
    BY <1>6 DEF Numbered, Sending
  <2>. QED BY <1>3, <1>6, <2>1
<1>8. ack.committed > server.committed
  <2>1. server.acked \in 0 .. Sent /\ ack.seq \in 0 .. Sent /\ server.acked < ack.seq
    BY <1>4, <1>5
  <2>2. ends[server.acked] < ends[ack.seq] BY <2>1 DEF Numbered, Sending
  <2>3. ends[server.acked] = server.committed BY DEF Numbered, Sending
  <2>. QED BY <1>3, <2>2, <2>3
<1>9. AckValid(ack) BY <1>4, <1>5, <1>6, <1>7, <1>8 DEF AckValid
<1>. QED BY <1>3, <1>5, <1>9 DEF ack

LEMMA HandleAckKeeps == ASSUME TransferInv, TransferTypeOK', HandleAck PROVE TransferInv'
<1>. DEFINE ack == Head(toServer)
            len == Len(server.outstanding)
            gone == ack.seq - server.acked
<1>1. TransferTypeOK /\ Opening /\ Ending /\ Bounding BY DEF TransferInv
<1>2. PICK ends : Numbered(ends) BY DEF TransferInv
<1>3. /\ server.phase # "none" /\ loader.phase # "requested" /\ toServer # <<>>
      /\ ack.type = "ack" /\ ack = toServer[1] /\ 1 \in DOMAIN toServer
  BY Received DEF HandleAck
<1>4. toServer' = Tail(toServer) /\ UNCHANGED <<loader, connected>> BY DEF HandleAck
<1>5. CASE server.phase = "closed"
  <2>1. UNCHANGED <<server, toLoader>> BY <1>5 DEF HandleAck
  <2>. QED BY <1>3, <1>4, <1>5, <2>1, TurnKeeps DEF ServerMemory
<1>6. CASE server.phase # "closed"
  <2>1. /\ ack.seq \in server.acked + 1 .. loader.consumed /\ ack.seq \in server.acked + 1 .. Sent
        /\ ack.committed = ends[ack.seq] /\ AckValid(ack)
    BY <1>2, AckIsValid DEF HandleAck
  <2>2. /\ server.acked \in Nat /\ loader.consumed \in Nat /\ Sent \in Nat
        /\ server.outstanding \in Seq(Nat) /\ len \in Nat
        /\ server.offset \in Nat /\ server.credit \in Nat
    BY <1>1, Fields
  <2>3. /\ gone \in 1 .. len /\ ack.seq = server.acked + gone /\ ack.seq \in Nat
    BY <2>1, <2>2 DEF Sent
  <2>4. /\ server'.acked = ack.seq /\ server'.committed = ack.committed
        /\ server'.outstanding = SubSeq(server.outstanding, gone + 1, len)
        /\ server'.offset = server.offset /\ server'.credit = server.credit
        /\ \/ /\ AllCommitted(Acknowledged(ack))
              /\ server'.phase = "closed" /\ server'.ended = "complete"
              /\ toLoader' = SentOn(toLoader, Complete)
           \/ /\ server'.phase = "pumping" /\ server'.ended = server.ended
              /\ UNCHANGED toLoader
    <3>1. server \in Server BY <1>1 DEF TransferTypeOK
    <3>2. \/ /\ AllCommitted(Acknowledged(ack))
             /\ server' = [Acknowledged(ack) EXCEPT !.phase = "closed", !.ended = "complete"]
             /\ toLoader' = SentOn(toLoader, Complete)
          \/ /\ server' = [Acknowledged(ack) EXCEPT !.phase = "pumping"]
             /\ UNCHANGED toLoader
      BY <1>6, <2>1 DEF HandleAck
    <3>. HIDE DEF ack
    <3>. QED BY <3>1, <3>2 DEF Acknowledged, Server
  <2>. HIDE DEF ack, gone, len
  <2>5. /\ Len(server'.outstanding) = len - gone
        /\ \A k \in 1 .. len - gone : server'.outstanding[k] = server.outstanding[gone + k]
    <3>1. gone \in Nat /\ gone <= Len(server.outstanding) BY <2>2, <2>3 DEF len
    <3>. QED BY <2>2, <2>4, <3>1, Rest DEF len
  <2>6. Sent' = Sent BY <2>2, <2>3, <2>4, <2>5 DEF Sent, len
  <2>7. server.ended = "no" BY <1>1, <1>6 DEF Ending
  <2>8. Numbered(ends)'
    <3>1. Sending(ends)'
      <4>1. \A k \in 1 .. len - gone : server'.outstanding[k] = ends[server'.acked + k]
        <5>. TAKE k \in 1 .. len - gone
        <5>1. gone + k \in 1 .. len BY <2>2, <2>3
        <5>2. server.outstanding[gone + k] = ends[server.acked + (gone + k)]
          BY <1>2, <5>1 DEF Numbered, Sending, len
        <5>3. server.acked + (gone + k) = ack.seq + k BY <2>2, <2>3
        <5>. QED BY <2>4, <2>5, <5>2, <5>3
      <4>2. ends[server'.acked] = server'.committed BY <2>1, <2>4
      <4>. QED BY <1>2, <2>4, <2>5, <2>6, <4>1, <4>2 DEF Numbered, Sending
    <3>2. Reading(ends)' /\ Taken' = Taken
      <4>1. server'.acked <= loader'.consumed BY <1>4, <2>1, <2>2, <2>4
      <4>. QED BY <1>2, <1>4, <2>6, <4>1 DEF Numbered, Reading, Taken, Agrees
    <3>3. ~Told BY <2>7 DEF Told
    <3>4. Waiting(ends)' BY <1>1, <1>2, <1>4, <2>6, <3>2, <3>3, Fields, WaitingKept DEF Numbered
    <3>5. Arriving(ends)'
      <4>1. CASE UNCHANGED toLoader
        BY <1>2, <1>4, <2>6, <4>1, ArrivingKept DEF Numbered
      <4>2. CASE toLoader' = SentOn(toLoader, Complete)
        <5>1. ~connected => loader.terminal BY <1>1 DEF Ending
        <5>. QED BY <1>1, <1>2, <1>4, <2>6, <4>2, <5>1, Channels, ArrivingEnds DEF Numbered
      <4>. QED BY <2>4, <4>1, <4>2
    <3>6. Acknowledging(ends)'
      <4>. SUFFICES ASSUME NEW i \in DOMAIN toServer', toServer'[i].type = "ack"
                    PROVE  /\ toServer'[i].seq \in server'.acked + 1 .. loader'.consumed
                           /\ toServer'[i].committed = ends[toServer'[i].seq]
                           /\ \A j \in DOMAIN toServer' :
                                 i < j /\ toServer'[j].type = "ack" =>
                                     toServer'[i].seq < toServer'[j].seq
        BY DEF Acknowledging
      <4>1. \A j \in DOMAIN toServer' :
               j \in Nat \ {0} /\ j + 1 \in DOMAIN toServer /\ toServer'[j] = toServer[j + 1]
        BY <1>1, <1>3, <1>4, ToServerElements
      <4>2. /\ toServer[i + 1].seq \in server.acked + 1 .. loader.consumed
            /\ toServer[i + 1].committed = ends[toServer[i + 1].seq]
            /\ \A j \in DOMAIN toServer :
                  i + 1 < j /\ toServer[j].type = "ack" => toServer[i + 1].seq < toServer[j].seq
        BY <1>2, <4>1 DEF Numbered, Acknowledging
      <4>3. ack.seq < toServer[i + 1].seq
        <5>1. 1 < i + 1 /\ i + 1 \in DOMAIN toServer /\ toServer[i + 1].type = "ack" BY <4>1
        <5>2. toServer[1].type = "ack" BY <1>3
        <5>3. toServer[1].seq < toServer[i + 1].seq
          BY <1>2, <1>3, <5>1, <5>2 DEF Numbered, Acknowledging
        <5>. QED BY <1>3, <5>3
      <4>4. toServer'[i].seq \in server'.acked + 1 .. loader'.consumed
        BY <1>4, <2>2, <2>3, <2>4, <4>1, <4>2, <4>3
      <4>5. \A j \in DOMAIN toServer' :
               i < j /\ toServer'[j].type = "ack" => toServer'[i].seq < toServer'[j].seq
        <5>. TAKE j \in DOMAIN toServer'
        <5>. HAVE i < j /\ toServer'[j].type = "ack"
        <5>1. i + 1 < j + 1 /\ j + 1 \in DOMAIN toServer /\ toServer[j + 1].type = "ack"
          BY <4>1
        <5>. QED BY <4>1, <4>2, <5>1
      <4>. QED BY <4>1, <4>2, <4>4, <4>5
    <3>. QED BY <3>1, <3>2, <3>4, <3>5, <3>6 DEF Numbered
  <2>9. Opening'
    <3>1. \A i \in DOMAIN toServer' : toServer'[i].type # "request"
      <4>1. \A i \in DOMAIN toServer : toServer[i].type # "request" BY <1>1, <1>3 DEF Opening
      <4>. QED BY <1>1, <1>3, <1>4, <4>1, ToServerElements
    <3>2. \A i \in DOMAIN toLoader' : toLoader'[i].type \notin {"open", "rejected"}
      <4>1. \A i \in DOMAIN toLoader : toLoader[i].type \notin {"open", "rejected"}
        BY <1>1, <1>3 DEF Opening
      <4>2. Complete \in ToLoaderFrame /\ Complete.type = "complete" BY FrameTypes DEF Complete
      <4>. QED BY <1>1, <2>4, <4>1, <4>2, ToLoaderElements
    <3>3. server'.phase # "none" BY <2>4
    <3>. QED BY <1>3, <1>4, <3>1, <3>2, <3>3 DEF Opening
  <2>10. Ending'
    <3>1. \A i \in DOMAIN toLoader : ~EndFrame(toLoader[i]) BY <1>1, <1>6 DEF Ending
    <3>2. Complete \in ToLoaderFrame /\ Complete.type = "complete" BY FrameTypes DEF Complete
    <3>3. \A i \in DOMAIN toLoader' : EndFrame(toLoader'[i]) =>
             i = Len(toLoader') /\ server'.phase = "closed" /\ server'.ended = "complete"
      BY <1>1, <2>4, <3>1, <3>2, ToLoaderElements
    <3>4. \A i \in DOMAIN toLoader' : toLoader'[i].type = "complete" => EndFrame(toLoader'[i])
      BY DEF EndFrame
    <3>5. server'.ended = "complete" => server'.committed = TotalBytes
      <4>1. server \in Server BY <1>1 DEF TransferTypeOK
      <4>2. Acknowledged(ack).committed = ack.committed BY <4>1 DEF Acknowledged, Server
      <4>. QED BY <2>4, <2>7, <4>2 DEF AllCommitted
    <3>6. ~connected => toLoader' = <<>> BY <1>1, <2>4 DEF Ending, SentOn
    <3>7. /\ server'.phase # "closed" => server'.ended = "no"
          /\ server'.ended # "violation"
      BY <2>4, <2>7
    <3>. QED BY <1>1, <1>4, <3>3, <3>4, <3>5, <3>6, <3>7 DEF Ending
  <2>11. Bounding'
    <3>1. Len(server'.outstanding) <= MaxOutstanding
      <4>1. len <= MaxOutstanding BY <1>1 DEF Bounding, len
      <4>. QED BY <2>2, <2>3, <2>5, <4>1, TransferAssumption
    <3>. QED BY <1>1, <1>4, <2>4, <3>1 DEF Bounding, Given
  <2>12. \E sums : Crediting(sums)'
    <3>1. PICK sums : Crediting(sums) BY <1>6 DEF TransferInv
    <3>2. CreditOf(Head(toServer)) = 0 BY <1>3 DEF CreditOf, ack
    <3>3. server'.credit + server'.offset
             = server.credit + server.offset + CreditOf(Head(toServer))
      BY <2>2, <2>4, <3>2
    <3>4. Given' = Given BY <1>4 DEF Given
    <3>. QED BY <1>1, <1>3, <1>4, <3>1, <3>3, <3>4, CreditTaken
  <2>. QED BY <2>8, <2>9, <2>10, <2>11, <2>12 DEF TransferInv
<1>. QED BY <1>5, <1>6

(* A chunk more has an end: what was said of the chunks before stays true. *)
LEMMA OneMore ==
    ASSUME TransferTypeOK, NEW ends, Numbered(ends), NEW more, more \in [Nat -> Nat],
           \A i \in 0 .. Sent : more[i] = ends[i]
    PROVE  Reading(more) /\ Waiting(more) /\ Arriving(more) /\ Acknowledging(more)
<1>1. /\ Sent \in Nat /\ loader.consumed \in Nat /\ loader.next \in Nat \ {0}
      /\ server.acked \in Nat
  BY Fields
<1>2. loader.consumed <= loader.next - 1 /\ loader.next - 1 <= Sent
  BY DEF Numbered, Reading
<1>3. \A c : Agrees(ends, c) => Agrees(more, c)
  <2>. SUFFICES ASSUME NEW c, Agrees(ends, c) PROVE Agrees(more, c) OBVIOUS
  <2>1. c.seq \in 1 .. Sent /\ c.seq - 1 \in 0 .. Sent /\ c.seq \in 0 .. Sent
    BY <1>1 DEF Agrees
  <2>. QED BY <2>1 DEF Agrees
<1>4. Reading(more)
  <2>1. loader.consumed \in 0 .. Sent /\ loader.next - 1 \in 0 .. Sent BY <1>1, <1>2
  <2>2. loader.phase # "ended" => more[Taken] = ends[Taken]
    <3>1. CASE loader.phase = "yielded"
      <4>1. loader.consumed + 1 < loader.next BY <3>1 DEF Numbered, Reading
      <4>2. loader.consumed + 1 \in 0 .. Sent BY <1>1, <1>2, <4>1
      <4>. QED BY <3>1, <4>2 DEF Taken
    <3>2. CASE loader.phase # "yielded" BY <2>1, <3>2 DEF Taken
    <3>. QED BY <3>1, <3>2
  <2>. QED BY <1>3, <2>1, <2>2 DEF Numbered, Reading
<1>5. Waiting(more) BY <1>3 DEF Numbered, Waiting
<1>6. Arriving(more) BY <1>3 DEF Numbered, Arriving
<1>7. Acknowledging(more)
  <2>. SUFFICES ASSUME NEW i \in DOMAIN toServer, toServer[i].type = "ack"
                PROVE  toServer[i].committed = more[toServer[i].seq]
    BY DEF Numbered, Acknowledging
  <2>1. toServer[i].seq \in server.acked + 1 .. loader.consumed
        /\ toServer[i].committed = ends[toServer[i].seq]
    BY DEF Numbered, Acknowledging
  <2>2. toServer[i].seq \in 0 .. Sent BY <1>1, <1>2, <2>1
  <2>. QED BY <2>1, <2>2
<1>. QED BY <1>4, <1>5, <1>6, <1>7

LEMMA Steps ==
    ASSUME NEW b \in Nat
    PROVE  /\ \A n \in Nat : b * (n + 1) = b * n + b
           /\ \A m, n \in Nat : m <= n => b * m <= b * n
           /\ b * 0 = 0 /\ \A n \in Nat : b * n \in Nat
<1>1. \A n \in Nat : b * (n + 1) = b * n + b /\ b * n \in Nat BY Z3
<1>2. \A m, n \in Nat : m <= n => b * m <= b * n
  <2>. TAKE m, n \in Nat
  <2>. HAVE m <= n
  <2>1. PICK d \in Nat : n = m + d
    <3>. WITNESS n - m \in Nat
    <3>. QED OBVIOUS
  <2>2. b * n = b * m + b * d BY <2>1, Z3
  <2>3. b * d \in Nat /\ b * m \in Nat BY <1>1
  <2>. QED BY <2>2, <2>3
<1>. QED BY <1>1, <1>2, Z3

LEMMA PumpChunkEffect ==
    ASSUME TransferTypeOK, PumpChunk
    PROVE  \E n \in 1 .. ChunkBytes :
              /\ n <= server.credit /\ n <= Requested /\ server.offset + n <= TotalBytes
              /\ Len(server.outstanding) < MaxOutstanding
              /\ toLoader' = SentOn(toLoader, Chunk(Sent + 1, server.offset, n))
              /\ Chunk(Sent + 1, server.offset, n) \in DataFrame
              /\ server'.outstanding = Append(server.outstanding, server.offset + n)
              /\ server'.offset = server.offset + n /\ server'.credit = server.credit - n
              /\ server'.phase = "pumping" /\ server'.ended = server.ended
              /\ server'.acked = server.acked /\ server'.committed = server.committed
<1>1. server \in Server BY DEF TransferTypeOK
<1>2. /\ server.offset \in Nat /\ server.credit \in Nat /\ Sent \in Nat
      /\ TotalBytes \in Nat /\ ChunkBytes \in Nat
  BY Fields, TransferAssumption
<1>3. server.offset < TotalBytes /\ Len(server.outstanding) < MaxOutstanding
      /\ server.phase = "pumping"
  BY DEF PumpChunk, MayPump
<1>4. PICK n \in 1 .. Requested :
          /\ toLoader' = SentOn(toLoader, Chunk(NextSequence, server.offset, n))
          /\ server' = [server EXCEPT !.outstanding = Append(@, server.offset + n),
                                      !.offset = @ + n, !.credit = @ - n]
  BY DEF PumpChunk
<1>5. /\ Requested \in Nat /\ Requested <= ChunkBytes /\ Requested <= server.credit
      /\ Requested <= TotalBytes - server.offset
  BY <1>2, <1>3 DEF Requested, Least
<1>6. /\ n \in 1 .. ChunkBytes /\ n <= Requested /\ n <= server.credit
      /\ server.offset + n <= TotalBytes
  BY <1>2, <1>3, <1>5
<1>7. NextSequence = Sent + 1 BY DEF NextSequence, Sent
<1>8. Chunk(Sent + 1, server.offset, n) \in DataFrame BY <1>2, <1>6, FrameTypes
<1>9. /\ server'.outstanding = Append(server.outstanding, server.offset + n)
      /\ server'.offset = server.offset + n /\ server'.credit = server.credit - n
      /\ server'.phase = "pumping" /\ server'.ended = server.ended
      /\ server'.acked = server.acked /\ server'.committed = server.committed
  BY <1>1, <1>3, <1>4 DEF Server
<1>. QED BY <1>3, <1>4, <1>6, <1>7, <1>8, <1>9

LEMMA PumpChunkKeeps == ASSUME TransferInv, TransferTypeOK', PumpChunk PROVE TransferInv'
<1>1. TransferTypeOK /\ Opening /\ Ending /\ Bounding BY DEF TransferInv
<1>2. PICK ends : Numbered(ends) BY DEF TransferInv
<1>3. PICK n \in 1 .. ChunkBytes :
              /\ n <= server.credit /\ n <= Requested /\ server.offset + n <= TotalBytes
              /\ Len(server.outstanding) < MaxOutstanding
              /\ toLoader' = SentOn(toLoader, Chunk(Sent + 1, server.offset, n))
              /\ Chunk(Sent + 1, server.offset, n) \in DataFrame
              /\ server'.outstanding = Append(server.outstanding, server.offset + n)
              /\ server'.offset = server.offset + n /\ server'.credit = server.credit - n
              /\ server'.phase = "pumping" /\ server'.ended = server.ended
              /\ server'.acked = server.acked /\ server'.committed = server.committed
  BY <1>1, PumpChunkEffect
<1>4. UNCHANGED <<loader, toServer, connected>> BY DEF PumpChunk
<1>5. server.phase = "pumping" /\ server.ended = "no" /\ loader.phase # "requested"
  BY <1>1 DEF PumpChunk, Opening, Ending
<1>. DEFINE f == Chunk(Sent + 1, server.offset, n)
            len == Len(server.outstanding)
<1>0. PICK more : more = [ends EXCEPT ![Sent + 1] = server.offset + n] OBVIOUS
<1>. DEFINE Fits(c) == /\ c.seq \in 1 .. Sent + 1
                       /\ c.offset = more[c.seq - 1] /\ c.offset + c.bytes = more[c.seq]
<1>6. /\ f \in DataFrame /\ f \in ToLoaderFrame /\ f.type = "chunk" /\ f.seq = Sent + 1
      /\ f.offset = server.offset /\ f.bytes = n
  BY <1>3, FrameTypes DEF Chunk
<1>7. /\ Sent \in Nat /\ server.offset \in Nat /\ server.credit \in Nat /\ server.acked \in Nat
      /\ server.outstanding \in Seq(Nat) /\ len \in Nat /\ Sent = server.acked + len
      /\ n \in Nat \ {0} /\ ChunkBytes \in Nat
  BY <1>1, Fields, TransferAssumption, SMTT(30) DEF Sent
<1>8. /\ ends \in [Nat -> Nat] /\ ends[0] = 0 /\ ends[Sent] = server.offset
      /\ ends[server.acked] = server.committed
  BY <1>2 DEF Numbered, Sending
<1>9. /\ more \in [Nat -> Nat] /\ more[Sent + 1] = server.offset + n
      /\ \A i \in 0 .. Sent : more[i] = ends[i]
  <2>1. Sent + 1 \in Nat /\ server.offset + n \in Nat BY <1>7
  <2>2. \A i \in 0 .. Sent : i \in Nat /\ i # Sent + 1 BY <1>7
  <2>. QED BY <1>0, <1>8, <2>1, <2>2
<1>. HIDE DEF f, len
<1>10. /\ Len(server'.outstanding) = len + 1
       /\ server'.outstanding[len + 1] = server.offset + n
       /\ \A k \in 1 .. len : server'.outstanding[k] = server.outstanding[k]
  <2>1. server.offset + n \in Nat BY <1>7
  <2>. QED BY <1>3, <1>7, <2>1 DEF len
<1>11. Sent' = Sent + 1 BY <1>3, <1>7, <1>10 DEF Sent
<1>12. /\ Reading(more) /\ Waiting(more) /\ Arriving(more) /\ Acknowledging(more)
  BY <1>1, <1>2, <1>9, OneMore
<1>13. \A c : Agrees(more, c) => Fits(c)
  <2>. SUFFICES ASSUME NEW c, Agrees(more, c) PROVE c.seq \in 1 .. Sent + 1
    BY DEF Agrees
  <2>. QED BY <1>7 DEF Agrees
<1>14. Sending(more)'
  <2>1. \A i, j \in 0 .. Sent' :
           i < j => more[i] < more[j] /\ more[j] - more[i] <= ChunkBytes * (j - i)
    <3>. TAKE i, j \in 0 .. Sent'
    <3>. HAVE i < j
    <3>1. i \in 0 .. Sent /\ i \in Nat /\ j \in Nat BY <1>7, <1>11
    <3>2. CASE j \in 0 .. Sent
      <4>1. ends[i] < ends[j] /\ ends[j] - ends[i] <= ChunkBytes * (j - i)
        BY <1>2, <3>1, <3>2 DEF Numbered, Sending
      <4>. QED BY <1>9, <3>1, <3>2, <4>1
    <3>3. CASE j = Sent + 1
      <4>1. ends[i] <= ends[Sent] /\ ends[Sent] - ends[i] <= ChunkBytes * (Sent - i)
        <5>1. CASE i = Sent
          <6>1. Sent - i = 0 /\ ChunkBytes * 0 = 0 BY <1>7, <5>1, Steps
          <6>2. ends[i] = ends[Sent] /\ ends[Sent] \in Nat BY <1>7, <1>8, <5>1
          <6>. QED BY <6>1, <6>2
        <5>2. CASE i < Sent
          <6>1. Sent \in 0 .. Sent BY <1>7
          <6>2. ends[i] < ends[Sent] /\ ends[Sent] - ends[i] <= ChunkBytes * (Sent - i)
            BY <1>2, <3>1, <5>2, <6>1 DEF Numbered, Sending
          <6>3. ends[i] \in Nat /\ ends[Sent] \in Nat BY <1>7, <1>8, <3>1
          <6>. QED BY <6>2, <6>3
        <5>. QED BY <1>7, <3>1, <5>1, <5>2
      <4>2. more[i] = ends[i] /\ more[j] = ends[Sent] + n BY <1>8, <1>9, <3>1, <3>3
      <4>3. ChunkBytes * (j - i) = ChunkBytes * (Sent - i) + ChunkBytes
            /\ ChunkBytes * (Sent - i) \in Nat
        <5>1. Sent - i \in Nat /\ j - i = (Sent - i) + 1 BY <1>7, <3>1, <3>3
        <5>. QED BY <1>7, <5>1, Steps
      <4>4. ends[i] \in Nat /\ ends[Sent] \in Nat /\ n <= ChunkBytes BY <1>7, <1>8, <3>1
      <4>5. more[i] < more[j]
        <5>1. ends[i] <= ends[Sent] /\ n \in Nat \ {0} BY <1>7, <4>1
        <5>. QED BY <4>2, <4>4, <5>1
      <4>. DEFINE size == ChunkBytes * (Sent - i)
      <4>6. more[j] - more[i] <= size + ChunkBytes
        <5>1. size \in Nat /\ ends[Sent] - ends[i] <= size BY <4>1, <4>3
        <5>. HIDE DEF size
        <5>. QED BY <1>7, <4>2, <4>4, <5>1, SMTT(30)
      <4>. QED BY <4>3, <4>5, <4>6
    <3>. QED BY <1>7, <1>11, <3>2, <3>3
  <2>2. \A k \in 1 .. len + 1 : server'.outstanding[k] = more[server.acked + k]
    <3>. TAKE k \in 1 .. len + 1
    <3>1. CASE k \in 1 .. len
      <4>1. server.outstanding[k] = ends[server.acked + k]
        BY <1>2, <3>1 DEF Numbered, Sending, len
      <4>2. server.acked + k \in 0 .. Sent BY <1>7, <3>1
      <4>. QED BY <1>9, <1>10, <3>1, <4>1, <4>2
    <3>2. CASE k = len + 1
      <4>1. server.acked + k = Sent + 1 BY <1>7, <3>2
      <4>. QED BY <1>9, <1>10, <3>2, <4>1
    <3>. QED BY <1>7, <3>1, <3>2
  <2>3. more[0] = 0 /\ more[server.acked] = server.committed
    <3>1. 0 \in 0 .. Sent /\ server.acked \in 0 .. Sent BY <1>7
    <3>. QED BY <1>8, <1>9, <3>1
  <2>4. more[Sent'] = server'.offset BY <1>3, <1>9, <1>11
  <2>5. /\ more[server'.acked] = server'.committed
        /\ \A k \in 1 .. Len(server'.outstanding) :
              server'.outstanding[k] = more[server'.acked + k]
    BY <1>3, <1>10, <2>2, <2>3
  <2>. QED BY <1>9, <2>1, <2>3, <2>4, <2>5 DEF Sending
<1>15. Reading(more)'
  <2>1. loader.next - 1 <= Sent'
    <3>1. loader.next \in Nat /\ loader.next - 1 <= Sent BY <1>1, <1>12, Fields DEF Reading
    <3>. QED BY <1>7, <1>11, <3>1
  <2>2. loader.phase = "yielded" => Fits(loader.chunk) BY <1>12, <1>13 DEF Reading
  <2>3. Taken' = Taken BY <1>4 DEF Taken
  <2>. HIDE DEF Fits
  <2>4. loader'.phase = "yielded" => Agrees(more, loader.chunk)'
    BY <1>4, <1>11, <2>2 DEF Agrees, Fits
  <2>. QED BY <1>3, <1>4, <1>12, <2>1, <2>3, <2>4 DEF Reading
<1>16. Waiting(more)'
  <2>1. ~Told /\ ~Told' BY <1>3, <1>5 DEF Told
  <2>2. Taken' = Taken BY <1>4 DEF Taken
  <2>3. \A c : Agrees(more, c) => c.seq \in 1 .. Sent' BY <1>11, <1>13
  <2>. QED BY <1>4, <1>12, <2>1, <2>2, <2>3 DEF Waiting, Agrees
<1>17. Acknowledging(more)'
  <2>1. server'.acked = server.acked /\ UNCHANGED <<loader, toServer>> BY <1>3, <1>4
  <2>. QED BY <1>12, <2>1 DEF Acknowledging
<1>18. Arriving(more)'
  <2>1. CASE ~connected
    <3>1. loader'.terminal BY <1>1, <1>4, <2>1 DEF Ending
    <3>. QED BY <3>1 DEF Arriving
  <2>2. CASE connected /\ loader.terminal
    BY <1>4, <2>2 DEF Arriving
  <2>3. CASE connected /\ ~loader.terminal
    <3>1. /\ DOMAIN toLoader' = 1 .. Len(toLoader) + 1 /\ Len(toLoader) \in Nat
          /\ Len(toLoader') = Len(toLoader) + 1
          /\ \A i \in 1 .. Len(toLoader) : toLoader'[i] = toLoader[i]
          /\ toLoader'[Len(toLoader) + 1] = f
          /\ DOMAIN toLoader = 1 .. Len(toLoader)
      <4>1. toLoader \in Seq(ToLoaderFrame) BY <1>1, Channels
      <4>2. toLoader' = Append(toLoader, f) BY <1>3, <2>3 DEF SentOn, f
      <4>. QED BY <1>6, <4>1, <4>2
    <3>2. \A i \in DOMAIN toLoader : ~EndFrame(toLoader[i]) BY <1>1, <1>5 DEF Ending
    <3>3. Sent = loader.next - 1 + Len(toLoader) BY <1>5, <1>12, <2>3, <3>2 DEF Arriving
    <3>4. loader.next \in Nat BY <1>1, Fields
    <3>5. Fits(f) /\ f.seq = loader.next + (Len(toLoader) + 1) - 1
      <4>1. f.seq \in 1 .. Sent + 1 /\ f.seq - 1 = Sent /\ Sent \in 0 .. Sent
        BY <1>6, <1>7, <1>11
      <4>2. f.offset = more[f.seq - 1] BY <1>6, <1>8, <1>9, <4>1
      <4>3. f.offset + f.bytes = more[f.seq] BY <1>6, <1>9
      <4>4. f.seq = loader.next + (Len(toLoader) + 1) - 1 BY <1>6, <3>1, <3>3, <3>4
      <4>. QED BY <4>1, <4>2, <4>3, <4>4
    <3>6. \A i \in DOMAIN toLoader' : toLoader'[i].type = "chunk" =>
             Fits(toLoader'[i]) /\ toLoader'[i].seq = loader.next + i - 1
      <4>. HIDE DEF Fits
      <4>. TAKE i \in DOMAIN toLoader'
      <4>1. CASE i \in DOMAIN toLoader
        <5>1. toLoader'[i] = toLoader[i] BY <3>1, <4>1
        <5>2. toLoader[i].type = "chunk" =>
                 Agrees(more, toLoader[i]) /\ toLoader[i].seq = loader.next + i - 1
          BY <1>5, <1>12, <2>3, <4>1 DEF Arriving
        <5>. QED BY <1>13, <5>1, <5>2
      <4>2. CASE i = Len(toLoader) + 1
        <5>1. toLoader'[i] = f BY <3>1, <4>2
        <5>. QED BY <3>5, <4>2, <5>1
      <4>. QED BY <3>1, <4>1, <4>2
    <3>7. Sent' = loader.next - 1 + Len(toLoader') BY <1>7, <1>11, <3>1, <3>3, <3>4
    <3>8. \A i \in DOMAIN toLoader' : toLoader'[i].type = "chunk" =>
             /\ toLoader'[i].seq \in 1 .. Sent'
             /\ toLoader'[i].offset = more[toLoader'[i].seq - 1]
             /\ toLoader'[i].offset + toLoader'[i].bytes = more[toLoader'[i].seq]
             /\ toLoader'[i].seq = loader.next + i - 1
      BY <1>11, <3>6
    <3>. HIDE DEF Fits
    <3>. QED BY <1>4, <3>7, <3>8 DEF Arriving, Agrees
  <2>. QED BY <2>1, <2>2, <2>3
<1>19. PICK sums : Crediting(sums) BY <1>5 DEF TransferInv
<1>20. Crediting(sums)'
  <2>1. server'.credit + server'.offset = server.credit + server.offset BY <1>3, <1>7
  <2>. QED BY <1>4, <1>19, <2>1 DEF Crediting, Given
<1>21. server.offset + n <= Given
  <2>1. /\ Len(toServer) \in Nat /\ sums[0] = server.credit + server.offset
        /\ sums[Len(toServer)] = Given
        /\ \A i, j \in 0 .. Len(toServer) : i <= j => sums[i] <= sums[j]
    BY <1>1, <1>19, ToServerElements DEF Crediting
  <2>2. 0 \in 0 .. Len(toServer) /\ Len(toServer) \in 0 .. Len(toServer)
        /\ 0 <= Len(toServer)
    BY <2>1
  <2>3. sums[0] <= sums[Len(toServer)] BY <2>1, <2>2
  <2>4. Given \in Nat BY <1>1, Fields
  <2>. QED BY <1>3, <1>7, <2>1, <2>3, <2>4
<1>22. Opening'
  <2>1. \A i \in DOMAIN toLoader' : toLoader'[i].type \notin {"open", "rejected"}
    <3>1. \A i \in DOMAIN toLoader : toLoader[i].type \notin {"open", "rejected"}
      BY <1>1, <1>5 DEF Opening
    <3>. QED BY <1>1, <1>3, <1>6, <3>1, ToLoaderElements DEF f
  <2>. QED BY <1>1, <1>3, <1>4, <1>5, <2>1 DEF Opening
<1>23. Ending'
  <2>1. \A i \in DOMAIN toLoader : ~EndFrame(toLoader[i]) BY <1>1, <1>5 DEF Ending
  <2>2. \A i \in DOMAIN toLoader' : ~EndFrame(toLoader'[i])
    BY <1>1, <1>3, <1>6, <2>1, ToLoaderElements DEF EndFrame, f
  <2>3. \A i \in DOMAIN toLoader' : toLoader'[i].type # "complete" BY <2>2 DEF EndFrame
  <2>4. ~connected => toLoader' = <<>> BY <1>1, <1>3 DEF Ending, SentOn
  <2>. QED BY <1>1, <1>3, <1>4, <1>5, <2>2, <2>3, <2>4 DEF Ending
<1>24. Bounding'
  <2>1. Len(server'.outstanding) <= MaxOutstanding
    <3>1. len < MaxOutstanding BY <1>3 DEF len
    <3>. QED BY <1>7, <1>10, <3>1, TransferAssumption
  <2>2. server'.offset <= TotalBytes /\ server'.offset <= Given' BY <1>3, <1>4, <1>21 DEF Given
  <2>. QED BY <1>1, <1>4, <2>1, <2>2 DEF Bounding, Given
<1>25. Numbered(more)' BY <1>14, <1>15, <1>16, <1>17, <1>18 DEF Numbered
<1>. QED BY <1>20, <1>22, <1>23, <1>24, <1>25 DEF TransferInv

(* A step of the client by which the reader takes nothing. *)
Untaken ==
    /\ UNCHANGED server /\ UNCHANGED ReaderMemory /\ loader'.credit = loader.credit
    /\ loader'.phase # "requested"
    /\ loader.phase = "requested" =>
          /\ loader'.phase = "ended" /\ toLoader' = <<>> /\ toServer' = toServer
          /\ connected' => server.phase # "none"
    /\ loader'.phase # "ended" =>
          /\ loader.phase # "ended"
          /\ loader'.phase = "yielded" <=> loader.phase = "yielded"
    /\ loader'.phase \in {"opened", "acking"} => loader.phase = loader'.phase
    /\ \/ loader'.signals = loader.signals
       \/ loader'.signals = Append(loader.signals, Error) /\ loader'.terminal
       \/ /\ loader'.phase = "ended"
          /\ \A i \in DOMAIN loader'.signals : loader'.signals[i].type = "complete" =>
                \E j \in DOMAIN loader.signals : loader.signals[j].type = "complete"
    /\ \/ loader'.terminal = loader.terminal /\ loader'.outcome = loader.outcome
       \/ ~loader.terminal /\ loader'.terminal /\ loader'.outcome \in Reasons
       \/ /\ ~loader.terminal /\ loader'.terminal /\ loader'.outcome = "completed"
          /\ loader'.phase = "ended"
    /\ \/ UNCHANGED <<toLoader, connected>>
       \/ /\ loader'.terminal /\ toLoader # <<>> /\ toLoader' = Tail(toLoader)
          /\ UNCHANGED connected
       \/ loader'.terminal /\ toLoader' = <<>> /\ ~connected'
    /\ toServer' \in {toServer, SentOn(toServer, Cancel)}

LEMMA UntakenKeeps == ASSUME TransferInv, TransferTypeOK', Untaken PROVE TransferInv'
<1>1. TransferTypeOK /\ Opening /\ Ending /\ Bounding BY DEF TransferInv
<1>2. PICK ends : Numbered(ends) BY DEF TransferInv
<1>3. UNCHANGED server /\ UNCHANGED ReaderMemory /\ loader'.credit = loader.credit
      /\ UNCHANGED ServerMemory
  BY DEF Untaken, ServerMemory
<1>4. Given' = Given BY <1>3 DEF Given, ReaderMemory
<1>5. Cancel \in ToServerFrame /\ Cancel.type = "cancel" BY FrameTypes DEF Cancel
<1>6. toServer' = toServer \/ (connected /\ toServer' = Append(toServer, Cancel))
  BY DEF Untaken, SentOn
<1>7. loader'.terminal \/ loader'.terminal = loader.terminal BY DEF Untaken
<1>8. toLoader = <<>> => toLoader' = <<>> BY DEF Untaken
<1>9. \A i \in DOMAIN toLoader' :
         \/ i \in DOMAIN toLoader /\ toLoader'[i] = toLoader[i] /\ Len(toLoader') = Len(toLoader)
         \/ /\ i + 1 \in DOMAIN toLoader /\ toLoader'[i] = toLoader[i + 1] /\ i \in Nat
            /\ Len(toLoader') = Len(toLoader) - 1 /\ Len(toLoader) \in Nat
  <2>1. CASE toLoader' = toLoader BY <2>1
  <2>2. CASE toLoader # <<>> /\ toLoader' = Tail(toLoader)
    <3>1. /\ Len(toLoader') = Len(toLoader) - 1 /\ Len(toLoader) \in Nat
          /\ DOMAIN toLoader' = 1 .. Len(toLoader) - 1
          /\ \A i \in DOMAIN toLoader' : i + 1 \in DOMAIN toLoader /\ toLoader'[i] = toLoader[i + 1]
      BY <1>1, <2>2, ToLoaderElements
    <3>2. \A i \in DOMAIN toLoader' : i \in Nat BY <3>1
    <3>. QED BY <3>1, <3>2
  <2>3. CASE toLoader' = <<>> BY <2>3
  <2>. QED BY <2>1, <2>2, <2>3 DEF Untaken
<1>10. Numbered(ends)'
  <2>1. Sending(ends)' /\ Sent' = Sent BY <1>2, <1>3, SendingKept DEF Numbered
  <2>2. Reading(ends)' /\ (loader'.phase # "ended" => Taken' = Taken)
    BY <1>2, <1>3, ReadingKept DEF Numbered, Untaken
  <2>3. Told => Told' BY <1>3, <1>8 DEF Told
  <2>4. Waiting(ends)'
    <3>1. CASE /\ loader'.phase = "ended"
               /\ \A i \in DOMAIN loader'.signals : loader'.signals[i].type = "complete" =>
                     \E j \in DOMAIN loader.signals : loader.signals[j].type = "complete"
      BY <1>2, <2>3, <3>1 DEF Numbered, Waiting
    <3>2. CASE \/ loader'.signals = loader.signals
               \/ loader'.signals = Append(loader.signals, Error) /\ loader'.terminal
      <4>1. loader.signals \in Seq(Signal) /\ loader'.next = loader.next
        BY <1>1, <1>3, Fields DEF ReaderMemory
      <4>2. loader'.phase # "ended" => loader.phase # "ended" /\ Taken' = Taken
        BY <2>2 DEF Untaken
      <4>. QED BY <1>2, <1>7, <2>1, <2>3, <3>2, <4>1, <4>2, WaitingKept DEF Numbered
    <3>. QED BY <3>1, <3>2 DEF Untaken
  <2>5. Arriving(ends)'
    <3>1. CASE loader'.terminal BY <3>1 DEF Arriving
    <3>2. CASE ~loader'.terminal
      <4>1. loader'.next = loader.next /\ toLoader' = toLoader /\ connected' = connected
        BY <1>3, <3>2 DEF Untaken, ReaderMemory
      <4>2. loader.phase = "requested" => connected /\ ~loader.terminal
        BY <1>1 DEF Opening
      <4>3. loader.phase # "requested"
        <5>. SUFFICES ASSUME loader.phase = "requested" PROVE FALSE OBVIOUS
        <5>1. server.phase # "none" /\ toLoader = <<>> BY <4>1, <4>2 DEF Untaken
        <5>. QED BY <1>1, <5>1 DEF Opening
      <4>. QED BY <1>2, <1>7, <2>1, <4>1, <4>3, ArrivingKept DEF Numbered
    <3>. QED BY <3>1, <3>2
  <2>6. Acknowledging(ends)'
    <3>1. loader'.consumed = loader.consumed /\ toServer \in Seq(ToServerFrame)
      BY <1>1, <1>3, Channels DEF ReaderMemory
    <3>2. toServer' = toServer \/ toServer' = SentOn(toServer, Cancel) BY DEF Untaken
    <3>. QED BY <1>2, <1>3, <1>5, <3>1, <3>2, AcknowledgingKept DEF Numbered
  <2>. QED BY <2>1, <2>2, <2>4, <2>5, <2>6 DEF Numbered
<1>11. Opening'
  <2>1. ASSUME server.phase = "none"
        PROVE  /\ toServer' = <<RequestFrame>> /\ toLoader' = <<>>
               /\ loader'.phase = "ended" /\ ~connected'
    <3>1. toServer = <<RequestFrame>> /\ toLoader = <<>> BY <1>1, <2>1 DEF Opening
    <3>2. loader'.phase = "ended" BY <1>1, <2>1 DEF Opening, Untaken
    <3>3. ~connected' BY <1>1, <2>1 DEF Opening, Untaken
    <3>4. toServer' = toServer
      <4>1. CASE ~connected BY <1>6, <4>1
      <4>2. CASE loader.phase = "requested" BY <4>2 DEF Untaken
      <4>. QED BY <1>1, <2>1, <4>1, <4>2 DEF Opening
    <3>. QED BY <1>8, <3>1, <3>2, <3>3, <3>4
  <2>2. ASSUME server.phase # "none"
        PROVE  \A i \in DOMAIN toServer' : toServer'[i].type # "request"
    <3>1. \A i \in DOMAIN toServer : toServer[i].type # "request" BY <1>1, <2>2 DEF Opening
    <3>2. toServer' = toServer \/ toServer' = SentOn(toServer, Cancel) BY DEF Untaken
    <3>. QED BY <1>1, <1>5, <3>1, <3>2, ToServerElements
  <2>3. \A i \in DOMAIN toLoader' : toLoader'[i].type \notin {"open", "rejected"}
    <3>1. CASE loader.phase = "requested" BY <3>1 DEF Untaken
    <3>2. CASE loader.phase # "requested"
      <4>1. \A i \in DOMAIN toLoader : toLoader[i].type \notin {"open", "rejected"}
        BY <1>1, <3>2 DEF Opening
      <4>. QED BY <1>9, <4>1
    <3>. QED BY <3>1, <3>2
  <2>4. loader'.phase # "requested" BY DEF Untaken
  <2>5. server.phase = "none" =>
           server.acked = 0 /\ server.outstanding = <<>> /\ server.credit = 0
    BY <1>1 DEF Opening
  <2>. QED BY <1>3, <2>1, <2>2, <2>3, <2>4, <2>5 DEF Opening
<1>12. Ending'
  <2>1. \A i \in DOMAIN toLoader' :
           /\ EndFrame(toLoader'[i]) => i = Len(toLoader') /\ server.phase = "closed"
           /\ toLoader'[i].type = "complete" => server.ended = "complete"
    <3>. TAKE i \in DOMAIN toLoader'
    <3>1. CASE i \in DOMAIN toLoader /\ toLoader'[i] = toLoader[i]
               /\ Len(toLoader') = Len(toLoader)
      BY <1>1, <3>1 DEF Ending
    <3>2. CASE /\ i + 1 \in DOMAIN toLoader /\ toLoader'[i] = toLoader[i + 1] /\ i \in Nat
               /\ Len(toLoader') = Len(toLoader) - 1 /\ Len(toLoader) \in Nat
      <4>1. /\ EndFrame(toLoader[i + 1]) => i + 1 = Len(toLoader) /\ server.phase = "closed"
            /\ toLoader[i + 1].type = "complete" => server.ended = "complete"
        BY <1>1, <3>2 DEF Ending
      <4>2. i + 1 = Len(toLoader) => i = Len(toLoader) - 1 BY <3>2
      <4>. QED BY <3>2, <4>1, <4>2
    <3>. QED BY <1>9, <3>1, <3>2
  <2>2. ~connected' => loader'.terminal /\ toLoader' = <<>>
    BY <1>1, <1>7, <1>8 DEF Ending, Untaken
  <2>3. /\ ~loader'.terminal <=> loader'.outcome = "pending"
        /\ loader'.outcome = "completed" => loader'.phase = "ended"
        /\ loader'.outcome # "dataLoss"
    <3>1. CASE loader'.terminal = loader.terminal /\ loader'.outcome = loader.outcome
      BY <1>1, <3>1 DEF Ending, Untaken
    <3>2. CASE loader'.terminal /\ loader'.outcome \in Reasons BY <3>2 DEF Reasons
    <3>3. CASE loader'.terminal /\ loader'.outcome = "completed" /\ loader'.phase = "ended"
      BY <3>3
    <3>. QED BY <3>1, <3>2, <3>3 DEF Untaken
  <2>. QED BY <1>1, <1>3, <2>1, <2>2, <2>3 DEF Ending
<1>13. Bounding'
  <2>1. loader'.consumed = loader.consumed /\ loader'.delivered = loader.delivered
    BY <1>3 DEF ReaderMemory
  <2>2. loader'.phase \in {"requested", "opened"} => Given = 0 BY <1>1 DEF Bounding, Untaken
  <2>3. loader'.phase = "acking" => Given <= ChunkBytes * loader.consumed
    BY <1>1 DEF Bounding, Untaken
  <2>. QED BY <1>1, <1>3, <1>4, <2>1, <2>2, <2>3 DEF Bounding
<1>14. ASSUME server.phase # "closed" PROVE \E sums : Crediting(sums)'
  <2>1. PICK sums : Crediting(sums) BY <1>14 DEF TransferInv
  <2>2. CASE toServer' = toServer BY <1>3, <1>4, <2>1, <2>2 DEF Crediting
  <2>3. CASE connected /\ toServer' = Append(toServer, Cancel)
    <3>1. CreditOf(Cancel) = 0 BY <1>5 DEF CreditOf
    <3>2. Given \in Nat BY <1>1, Fields
    <3>3. Given' = Given + CreditOf(Cancel) BY <1>4, <3>1, <3>2
    <3>4. server'.credit + server'.offset = server.credit + server.offset BY <1>3
    <3>. QED BY <1>1, <1>5, <2>1, <2>3, <3>1, <3>3, <3>4, CreditSent
  <2>. QED BY <1>6, <2>2, <2>3
<1>. QED BY <1>3, <1>10, <1>11, <1>12, <1>13, <1>14 DEF TransferInv

LEMMA StopsUntaken ==
    ASSUME TransferTypeOK, TransferTypeOK', NEW c \in Loader, Stops(c, Reasons),
           c.next = loader.next, c.received = loader.received, c.credit = loader.credit,
           c.committed = loader.committed, c.consumed = loader.consumed,
           c.delivered = loader.delivered, c.chunk = loader.chunk,
           c.terminal = loader.terminal, c.outcome = loader.outcome,
           \/ c.signals = loader.signals /\ c.phase \in {loader.phase, "ended"}
           \/ /\ c.phase = "ended" /\ loader.signals # <<>>
              /\ c.signals = Tail(loader.signals),
           loader.phase # "requested", UNCHANGED <<server, toLoader, connected>>,
           toServer' \in {toServer, SentOn(toServer, Cancel)}
    PROVE  Untaken
<1>1. loader'.phase = c.phase /\ UNCHANGED ReaderMemory /\ loader'.credit = loader.credit
  BY DEF Stops, SameReader, ReaderMemory
<1>2. \/ loader'.terminal = loader.terminal /\ loader'.outcome = loader.outcome
         /\ loader'.signals = c.signals
      \/ ~loader.terminal /\ loader'.terminal /\ loader'.outcome \in Reasons
         /\ loader'.signals = Append(c.signals, Error)
  BY DEF Stops
<1>3. \/ loader'.signals = loader.signals
      \/ loader'.signals = Append(loader.signals, Error) /\ loader'.terminal
      \/ /\ loader'.phase = "ended"
         /\ \A i \in DOMAIN loader'.signals : loader'.signals[i].type = "complete" =>
               \E j \in DOMAIN loader.signals : loader.signals[j].type = "complete"
  <2>1. CASE c.signals = loader.signals BY <1>2, <2>1
  <2>2. CASE /\ c.phase = "ended" /\ loader.signals # <<>>
             /\ c.signals = Tail(loader.signals)
    <3>1. /\ loader.signals \in Seq(Signal) /\ c.signals \in Seq(Signal) BY Fields DEF Loader
    <3>2. \A i \in DOMAIN c.signals :
             i + 1 \in DOMAIN loader.signals /\ c.signals[i] = loader.signals[i + 1]
      BY <2>2, <3>1
    <3>3. Error.type = "error" /\ Error \in Signal BY FrameTypes DEF Error
    <3>4. \A i \in DOMAIN Append(c.signals, Error) :
             \/ i \in DOMAIN c.signals /\ Append(c.signals, Error)[i] = c.signals[i]
             \/ Append(c.signals, Error)[i] = Error
      BY <3>1, <3>3
    <3>5. \A i \in DOMAIN loader'.signals : loader'.signals[i].type = "complete" =>
             i \in DOMAIN c.signals /\ loader'.signals[i] = c.signals[i]
      BY <1>2, <3>3, <3>4
    <3>. QED BY <1>1, <2>2, <3>2, <3>5
  <2>. QED BY <2>1, <2>2
<1>4. loader'.phase \in {loader.phase, "ended"} BY <1>1
<1>. QED BY <1>1, <1>2, <1>3, <1>4 DEF Untaken

LEMMA CallerUntaken ==
    ASSUME TransferInv, TransferTypeOK',
           CancelTransfer \/ CancelReturns \/ Leave \/ Granted \/ Left
    PROVE  Untaken
<1>1. TransferTypeOK /\ Opening /\ loader \in Loader BY DEF TransferInv, TransferTypeOK
<1>2. CASE CancelTransfer
  <2>1. /\ loader.phase # "requested" /\ BeginCancel(loader)
        /\ UNCHANGED <<server, toLoader, connected>>
    BY <1>2 DEF CancelTransfer
  <2>2. Stops(loader, Reasons) /\ toServer' \in {toServer, SentOn(toServer, Cancel)}
    BY <1>1, <2>1, CancelEffect
  <2>. QED BY <1>1, <2>1, <2>2, StopsUntaken
<1>3. CASE CancelReturns
  <2>1. loader.phase # "requested" BY <1>1, <1>3 DEF CancelReturns, Opening
  <2>2. Stops(loader, Reasons)
    <3>1. PICK d : d = Failed(loader, "cancelled") OBVIOUS
    <3>2. "cancelled" \in Reasons BY DEF Reasons
    <3>3. loader' = [d EXCEPT !.cancelling = FALSE] BY <1>3, <3>1 DEF CancelReturns
    <3>4. /\ d \in Loader
          /\ d.next = loader.next /\ d.received = loader.received /\ d.credit = loader.credit
          /\ d.committed = loader.committed /\ d.consumed = loader.consumed
          /\ d.delivered = loader.delivered /\ d.chunk = loader.chunk /\ d.phase = loader.phase
          /\ \/ loader.terminal /\ d = loader
             \/ /\ ~loader.terminal /\ d.terminal /\ d.signals = Append(loader.signals, Error)
                /\ d.outcome = "cancelled"
      BY <1>1, <3>1, <3>2, FailedEffect
    <3>5. /\ loader'.next = d.next /\ loader'.received = d.received /\ loader'.credit = d.credit
          /\ loader'.committed = d.committed /\ loader'.consumed = d.consumed
          /\ loader'.delivered = d.delivered /\ loader'.chunk = d.chunk
          /\ loader'.phase = d.phase /\ loader'.terminal = d.terminal
          /\ loader'.signals = d.signals /\ loader'.outcome = d.outcome
      BY <3>3, <3>4 DEF Loader
    <3>. QED BY <3>2, <3>4, <3>5 DEF Stops, SameReader
  <2>3. UNCHANGED <<server, toServer, toLoader, connected>> BY <1>3 DEF CancelReturns
  <2>. QED BY <1>1, <2>1, <2>2, <2>3, StopsUntaken
<1>4. CASE Leave
  <2>1. loader.phase # "requested" /\ UNCHANGED <<server, toServer, toLoader, connected>>
    BY <1>4 DEF Leave
  <2>2. Stops(loader, Reasons) BY <1>1, <1>4 DEF Leave, Stops, SameReader, Loader
  <2>. QED BY <1>1, <2>1, <2>2, StopsUntaken
<1>5. CASE Granted
  <2>1. /\ loader.phase = "granting" /\ UNCHANGED <<server, toServer, toLoader, connected>>
        /\ loader' = [loader EXCEPT !.phase = "waiting"]
    BY <1>5 DEF Granted
  <2>2. /\ loader'.phase = "waiting" /\ UNCHANGED ReaderMemory /\ loader'.credit = loader.credit
        /\ loader'.signals = loader.signals /\ loader'.terminal = loader.terminal
        /\ loader'.outcome = loader.outcome
    BY <1>1, <2>1 DEF ReaderMemory, Loader
  <2>. QED BY <2>1, <2>2 DEF Untaken
<1>6. CASE Left
  <2>1. PICK c : c = [loader EXCEPT !.phase = "ended"] OBVIOUS
  <2>2. c \in Loader BY <1>1, <2>1, LoaderFields, Names
  <2>3. loader.phase = "yielded" /\ BeginCancel(c) /\ UNCHANGED <<server, toLoader, connected>>
    BY <1>6, <2>1 DEF Left
  <2>4. Stops(c, Reasons) /\ toServer' \in {toServer, SentOn(toServer, Cancel)}
    BY <2>2, <2>3, CancelEffect
  <2>5. /\ c.next = loader.next /\ c.received = loader.received /\ c.credit = loader.credit
        /\ c.committed = loader.committed /\ c.consumed = loader.consumed
        /\ c.delivered = loader.delivered /\ c.chunk = loader.chunk
        /\ c.terminal = loader.terminal /\ c.outcome = loader.outcome
        /\ c.signals = loader.signals /\ c.phase = "ended"
    BY <1>1, <2>1 DEF Loader
  <2>. QED BY <1>1, <2>2, <2>3, <2>4, <2>5, StopsUntaken
<1>. QED BY <1>2, <1>3, <1>4, <1>5, <1>6

LEMMA DisconnectUntaken == ASSUME TransferInv, TransferTypeOK', Disconnect PROVE Untaken
<1>1. TransferTypeOK /\ Opening /\ loader \in Loader BY DEF TransferInv, TransferTypeOK
<1>2. PICK d : d = Failed(loader, "disconnected") OBVIOUS
<1>3. "disconnected" \in Reasons BY DEF Reasons
<1>4. /\ d \in Loader
      /\ d.next = loader.next /\ d.received = loader.received /\ d.credit = loader.credit
      /\ d.committed = loader.committed /\ d.consumed = loader.consumed
      /\ d.delivered = loader.delivered /\ d.chunk = loader.chunk /\ d.phase = loader.phase
      /\ \/ loader.terminal /\ d = loader
         \/ /\ ~loader.terminal /\ d.terminal /\ d.signals = Append(loader.signals, Error)
            /\ d.outcome = "disconnected"
  BY <1>1, <1>2, <1>3, FailedEffect
<1>5. /\ loader' = [d EXCEPT !.phase = IF @ = "requested" THEN "ended" ELSE @]
      /\ ~connected' /\ toLoader' = <<>> /\ UNCHANGED <<server, toServer>>
  BY <1>2 DEF Disconnect
<1>6. /\ loader'.next = d.next /\ loader'.received = d.received /\ loader'.credit = d.credit
      /\ loader'.committed = d.committed /\ loader'.consumed = d.consumed
      /\ loader'.delivered = d.delivered /\ loader'.chunk = d.chunk
      /\ loader'.phase = IF d.phase = "requested" THEN "ended" ELSE d.phase
      /\ loader'.terminal = d.terminal
      /\ loader'.signals = d.signals /\ loader'.outcome = d.outcome
  BY <1>4, <1>5 DEF Loader
<1>7. UNCHANGED ReaderMemory /\ loader'.credit = loader.credit BY <1>4, <1>6 DEF ReaderMemory
<1>8. /\ loader'.terminal
      /\ \/ loader.terminal /\ loader'.signals = loader.signals
            /\ loader'.outcome = loader.outcome
         \/ ~loader.terminal /\ loader'.signals = Append(loader.signals, Error)
            /\ loader'.outcome \in Reasons
  BY <1>3, <1>4, <1>6
<1>9. loader'.phase = IF loader.phase = "requested" THEN "ended" ELSE loader.phase
  BY <1>4, <1>6
<1>10. loader.terminal \in BOOLEAN BY <1>1 DEF Loader
<1>11. loader'.terminal \in BOOLEAN BY DEF TransferTypeOK, Loader
<1>12. \/ loader'.terminal = loader.terminal /\ loader'.outcome = loader.outcome
       \/ ~loader.terminal /\ loader'.terminal /\ loader'.outcome \in Reasons
  <2>1. CASE loader.terminal
    <3>1. loader'.terminal = loader.terminal BY <1>8, <1>10, <1>11, <2>1
    <3>. QED BY <1>8, <2>1, <3>1
  <2>2. CASE ~loader.terminal BY <1>8, <2>2
  <2>. QED BY <2>1, <2>2
<1>13. /\ loader'.phase # "requested"
       /\ loader.phase = "requested" => loader'.phase = "ended"
       /\ loader'.phase # "ended" => loader.phase # "ended" /\ loader'.phase = loader.phase
       /\ loader'.phase \in {"opened", "acking"} => loader.phase = loader'.phase
  BY <1>9
<1>14. \/ loader'.signals = loader.signals
       \/ loader'.signals = Append(loader.signals, Error) /\ loader'.terminal
  BY <1>8
<1>. QED BY <1>5, <1>7, <1>8, <1>12, <1>13, <1>14 DEF Untaken

LEMMA GrantKeeps ==
    ASSUME TransferInv, TransferTypeOK', NEW n \in 1 .. ChunkBytes, Grant(loader, n),
           loader.phase \in {"opened", "acking"}, UNCHANGED <<server, toLoader, connected>>
    PROVE  TransferInv'
<1>1. TransferTypeOK /\ Opening /\ Ending /\ Bounding /\ loader \in Loader
  BY DEF TransferInv, TransferTypeOK
<1>2. CASE loader.terminal
  <2>1. loader' = [loader EXCEPT !.phase = "ended"] /\ UNCHANGED toServer BY <1>2 DEF Grant
  <2>2. /\ loader'.phase = "ended" /\ UNCHANGED ReaderMemory /\ loader'.credit = loader.credit
        /\ loader'.signals = loader.signals /\ loader'.terminal = loader.terminal
        /\ loader'.outcome = loader.outcome
    BY <1>1, <2>1 DEF ReaderMemory, Loader
  <2>3. Untaken BY <2>1, <2>2 DEF Untaken
  <2>. QED BY <2>3, UntakenKeeps
<1>3. CASE ~loader.terminal
  <2>1. /\ loader' = [loader EXCEPT !.phase = "granting", !.credit = @ + n]
        /\ toServer' = SentOn(toServer, Credit(n))
    BY <1>3 DEF Grant
  <2>2. /\ loader'.phase = "granting" /\ UNCHANGED ReaderMemory
        /\ loader'.credit = loader.credit + n
        /\ loader'.signals = loader.signals /\ loader'.terminal = loader.terminal
        /\ loader'.outcome = loader.outcome
    BY <1>1, <2>1 DEF ReaderMemory, Loader
  <2>3. connected /\ server.phase # "none" BY <1>1, <1>3 DEF Ending, Opening
  <2>4. /\ n \in Nat /\ n <= ChunkBytes /\ ChunkBytes \in Nat /\ n \in 1 .. MaxCredit
    BY TransferAssumption
  <2>5. /\ Credit(n) \in ToServerFrame /\ Credit(n).type = "credit" /\ CreditOf(Credit(n)) = n
    BY <2>4, FrameTypes DEF Credit, CreditOf
  <2>6. Given' = Given + n /\ Given \in Nat
    <3>1. loader.received \in Nat /\ loader.credit \in Nat /\ Given \in Nat BY <1>1, Fields
    <3>. QED BY <2>2, <2>4, <3>1 DEF Given, ReaderMemory
  <2>7. UNCHANGED ServerMemory BY DEF ServerMemory
  <2>8. PICK ends : Numbered(ends) BY DEF TransferInv
  <2>9. Numbered(ends)'
    <3>1. Sending(ends)' /\ Sent' = Sent BY <2>7, <2>8, SendingKept DEF Numbered
    <3>2. Reading(ends)' /\ (loader'.phase # "ended" => Taken' = Taken)
      BY <2>2, <2>7, <2>8, ReadingKept DEF Numbered
    <3>3. Told' = Told BY DEF Told
    <3>4. loader'.next = loader.next /\ loader'.consumed = loader.consumed
      BY <2>2 DEF ReaderMemory
    <3>5. Waiting(ends)'
      BY <1>1, <2>2, <2>8, <3>1, <3>2, <3>3, <3>4, Fields, WaitingKept DEF Numbered
    <3>6. Arriving(ends)' BY <2>2, <2>8, <3>1, <3>4, ArrivingKept DEF Numbered
    <3>7. Acknowledging(ends)'
      BY <1>1, <2>1, <2>5, <2>7, <2>8, <3>4, Channels, AcknowledgingKept DEF Numbered
    <3>. QED BY <3>1, <3>2, <3>5, <3>6, <3>7 DEF Numbered
  <2>10. Opening'
    <3>1. \A i \in DOMAIN toServer' : toServer'[i].type # "request"
      <4>1. \A i \in DOMAIN toServer : toServer[i].type # "request" BY <1>1, <2>3 DEF Opening
      <4>. QED BY <1>1, <2>1, <2>5, <4>1, ToServerElements
    <3>. QED BY <1>1, <2>2, <2>3, <3>1 DEF Opening
  <2>11. Ending' BY <1>1, <2>2, <2>3 DEF Ending, EndFrame
  <2>12. Bounding'
    <3>1. loader'.consumed = loader.consumed /\ loader'.delivered = loader.delivered
      BY <2>2 DEF ReaderMemory
    <3>2. /\ loader.consumed \in Nat /\ ChunkBytes * loader.consumed \in Nat
          /\ ChunkBytes * (loader.consumed + 1) = ChunkBytes * loader.consumed + ChunkBytes
      <4>1. loader.consumed \in Nat BY <1>1, Fields
      <4>. QED BY <2>4, <4>1, Steps
    <3>3. Given <= ChunkBytes * loader.consumed BY <1>1, <3>2 DEF Bounding
    <3>4. Given' <= ChunkBytes * (loader.consumed + 1)
      <4>. DEFINE size == ChunkBytes * loader.consumed
      <4>1. size \in Nat /\ Given <= size BY <3>2, <3>3
      <4>. HIDE DEF size
      <4>2. Given' <= size + ChunkBytes BY <2>4, <2>6, <4>1
      <4>. QED BY <3>2, <4>2 DEF size
    <3>5. server.offset <= Given'
      <4>1. server.offset \in Nat /\ server.offset <= Given BY <1>1, Fields DEF Bounding
      <4>. QED BY <2>4, <2>6, <4>1
    <3>. QED BY <1>1, <2>2, <3>1, <3>4, <3>5 DEF Bounding
  <2>13. ASSUME server.phase # "closed" PROVE \E sums : Crediting(sums)'
    <3>1. PICK sums : Crediting(sums) BY <2>13 DEF TransferInv
    <3>2. toServer' = Append(toServer, Credit(n)) BY <2>1, <2>3 DEF SentOn
    <3>. QED BY <1>1, <2>4, <2>5, <2>6, <3>1, <3>2, CreditSent
  <2>. QED BY <2>9, <2>10, <2>11, <2>12, <2>13 DEF TransferInv
<1>. QED BY <1>2, <1>3

LEMMA ListenKeeps == ASSUME TransferInv, TransferTypeOK', Listen PROVE TransferInv'
<1>1. Least(ChunkBytes, TotalBytes) \in 1 .. ChunkBytes BY TransferAssumption DEF Least
<1>. QED BY <1>1, GrantKeeps DEF Listen

LEMMA AckReturnsKeeps == ASSUME TransferInv, TransferTypeOK', AckReturns PROVE TransferInv'
<1>1. TransferTypeOK /\ loader \in Loader BY DEF TransferInv, TransferTypeOK
<1>2. loader.phase = "acking" /\ UNCHANGED <<server, toLoader, connected>> BY DEF AckReturns
<1>3. CASE loader.committed < TotalBytes
  <2>1. Least(ChunkBytes, TotalBytes - loader.committed) \in 1 .. ChunkBytes
    <3>1. loader.committed \in Nat BY <1>1, Fields
    <3>. QED BY <1>3, <3>1, TransferAssumption DEF Least
  <2>. QED BY <1>2, <1>3, <2>1, GrantKeeps DEF AckReturns
<1>4. CASE ~(loader.committed < TotalBytes)
  <2>1. loader' = [loader EXCEPT !.phase = "waiting"] /\ UNCHANGED toServer
    BY <1>4 DEF AckReturns
  <2>2. /\ loader'.phase = "waiting" /\ UNCHANGED ReaderMemory /\ loader'.credit = loader.credit
        /\ loader'.signals = loader.signals /\ loader'.terminal = loader.terminal
        /\ loader'.outcome = loader.outcome
    BY <1>1, <2>1 DEF ReaderMemory, Loader
  <2>3. Untaken BY <1>2, <2>1, <2>2 DEF Untaken
  <2>. QED BY <2>3, UntakenKeeps
<1>. QED BY <1>3, <1>4

LEMMA AckTakenKeeps == ASSUME TransferInv, TransferTypeOK', AckTaken PROVE TransferInv'
<1>1. TransferTypeOK /\ Opening /\ Ending /\ Bounding /\ loader \in Loader
  BY DEF TransferInv, TransferTypeOK
<1>2. PICK ends : Numbered(ends) BY DEF TransferInv
<1>3. loader.phase = "yielded" /\ UNCHANGED <<server, toLoader, connected>> BY DEF AckTaken
<1>4. PICK c : c = [loader EXCEPT !.committed = @ + loader.chunk.bytes,
                                  !.consumed = loader.chunk.seq]
  OBVIOUS
<1>5. /\ Agrees(ends, loader.chunk) /\ loader.chunk.seq = loader.consumed + 1
      /\ loader.consumed + 1 < loader.next /\ loader.delivered = ends[loader.consumed + 1]
      /\ loader.committed = ends[loader.consumed]
  BY <1>2, <1>3 DEF Numbered, Reading, Taken
<1>6. /\ loader.consumed \in Nat /\ loader.next \in Nat /\ loader.committed \in Nat
      /\ Sent \in Nat /\ server.acked \in Nat /\ Given \in Nat
  BY <1>1, Fields
<1>7. loader.chunk.offset = loader.committed
      /\ loader.committed + loader.chunk.bytes = ends[loader.consumed + 1]
  <2>1. (loader.consumed + 1) - 1 = loader.consumed BY <1>6
  <2>. QED BY <1>5, <2>1 DEF Agrees
<1>8. /\ c.next = loader.next /\ c.received = loader.received /\ c.credit = loader.credit
      /\ c.committed = loader.committed + loader.chunk.bytes /\ c.consumed = loader.consumed + 1
      /\ c.delivered = loader.delivered /\ c.chunk = loader.chunk
      /\ c.terminal = loader.terminal /\ c.outcome = loader.outcome
      /\ c.signals = loader.signals /\ c.phase = loader.phase /\ c.cancelling = loader.cancelling
  BY <1>1, <1>4, <1>5 DEF Loader
<1>9. PICK f : f = Ack(c.consumed, c.committed) OBVIOUS
<1>10. \/ /\ connected /\ loader' = [c EXCEPT !.phase = "acking"]
          /\ toServer' = Append(toServer, f)
       \/ /\ ~connected /\ loader' = [c EXCEPT !.phase = "ended"] /\ toServer' = toServer
  BY <1>4, <1>9 DEF AckTaken, AckOf, SentOn
<1>11. /\ loader'.next = loader.next /\ loader'.received = loader.received
       /\ loader'.credit = loader.credit /\ loader'.committed = ends[loader.consumed + 1]
       /\ loader'.consumed = loader.consumed + 1 /\ loader'.delivered = loader.delivered
       /\ loader'.terminal = loader.terminal /\ loader'.outcome = loader.outcome
       /\ loader'.signals = loader.signals
       /\ loader'.phase = IF connected THEN "acking" ELSE "ended"
  <2>1. DOMAIN c = DOMAIN loader /\ DOMAIN loader = {"phase", "next", "received", "credit",
           "signals", "chunk", "committed", "consumed", "delivered", "terminal", "cancelSent",
           "cancelling", "leaving", "outcome"}
    BY <1>1, <1>4 DEF Loader
  <2>. QED BY <1>7, <1>8, <1>10, <2>1
<1>12. Given' = Given /\ UNCHANGED ServerMemory /\ Sent' = Sent
  BY <1>3, <1>11 DEF Given, ServerMemory, Sent
<1>13. loader.consumed + 1 \in 1 .. Sent
  <2>1. loader.next - 1 <= Sent BY <1>2 DEF Numbered, Reading
  <2>. QED BY <1>5, <1>6, <2>1
<1>14. server.acked <= loader.consumed BY <1>2 DEF Numbered, Reading
<1>15. server.phase # "none" BY <1>1, <1>3 DEF Opening
<1>16. f.type = "ack" /\ f.seq = loader.consumed + 1 /\ f.committed = ends[loader.consumed + 1]
  BY <1>7, <1>8, <1>9 DEF Ack
<1>17. \A i \in DOMAIN toServer' :
          \/ i \in DOMAIN toServer /\ toServer'[i] = toServer[i]
          \/ i = Len(toServer) + 1 /\ toServer'[i] = f
  <2>1. toServer \in Seq(ToServerFrame) BY <1>1, Channels
  <2>2. CASE toServer' = Append(toServer, f) BY <2>1, <2>2
  <2>3. CASE toServer' = toServer BY <2>3
  <2>. QED BY <1>10, <2>2, <2>3
<1>18. Numbered(ends)'
  <2>1. Sending(ends)' BY <1>2, <1>12, SendingKept DEF Numbered
  <2>2. Reading(ends)'
    <3>1. Taken' = loader.consumed + 1 BY <1>11 DEF Taken
    <3>2. /\ server'.acked <= loader'.consumed /\ loader'.consumed <= loader'.next - 1
          /\ loader'.next - 1 <= Sent'
      <4>1. loader.next - 1 <= Sent BY <1>2 DEF Numbered, Reading
      <4>. QED BY <1>3, <1>5, <1>6, <1>11, <1>12, <1>14, <4>1
    <3>3. loader'.received = ends[loader'.next - 1] BY <1>2, <1>11 DEF Numbered, Reading
    <3>4. loader'.phase # "yielded" BY <1>11
    <3>. QED BY <1>5, <1>11, <3>1, <3>2, <3>3, <3>4 DEF Reading
  <2>3. Taken' = Taken BY <1>3, <1>11 DEF Taken
  <2>4. Told' = Told BY <1>3 DEF Told
  <2>5. Waiting(ends)'
    BY <1>1, <1>2, <1>3, <1>11, <1>12, <2>3, <2>4, Fields, WaitingKept DEF Numbered
  <2>6. Arriving(ends)' BY <1>2, <1>3, <1>11, <1>12, ArrivingKept DEF Numbered
  <2>7. Acknowledging(ends)'
    <3>1. \A i \in DOMAIN toServer : i \in 1 .. Len(toServer) /\ Len(toServer) \in Nat
      BY <1>1, ToServerElements
    <3>2. \A i \in DOMAIN toServer : toServer[i].type = "ack" =>
             /\ toServer[i].seq \in server.acked + 1 .. loader.consumed
             /\ toServer[i].committed = ends[toServer[i].seq]
             /\ \A j \in DOMAIN toServer :
                   i < j /\ toServer[j].type = "ack" => toServer[i].seq < toServer[j].seq
      BY <1>2 DEF Numbered, Acknowledging
    <3>3. \A i \in DOMAIN toServer' : toServer'[i].type = "ack" =>
             /\ toServer'[i].seq \in server.acked + 1 .. loader.consumed + 1
             /\ toServer'[i].committed = ends[toServer'[i].seq]
      <4>. SUFFICES ASSUME NEW i \in DOMAIN toServer', toServer'[i].type = "ack"
                    PROVE  /\ toServer'[i].seq \in server.acked + 1 .. loader.consumed + 1
                           /\ toServer'[i].committed = ends[toServer'[i].seq]
        OBVIOUS
      <4>1. CASE i \in DOMAIN toServer /\ toServer'[i] = toServer[i]
        <5>1. /\ toServer[i].seq \in server.acked + 1 .. loader.consumed
              /\ toServer[i].committed = ends[toServer[i].seq]
          BY <3>2, <4>1
        <5>. QED BY <1>6, <4>1, <5>1
      <4>2. CASE toServer'[i] = f
        <5>1. loader.consumed + 1 \in server.acked + 1 .. loader.consumed + 1 BY <1>6, <1>14
        <5>. QED BY <1>16, <4>2, <5>1
      <4>. QED BY <1>17, <4>1, <4>2
    <3>4. ASSUME NEW i \in DOMAIN toServer', toServer'[i].type = "ack",
                 NEW j \in DOMAIN toServer', i < j, toServer'[j].type = "ack"
          PROVE  toServer'[i].seq < toServer'[j].seq
      <4>1. CASE j \in DOMAIN toServer /\ toServer'[j] = toServer[j]
        <5>1. i \in DOMAIN toServer /\ toServer'[i] = toServer[i]
          <6>1. i # Len(toServer) + 1 BY <3>1, <3>4, <4>1
          <6>. QED BY <1>17, <6>1
        <5>. QED BY <3>2, <3>4, <4>1, <5>1
      <4>2. CASE j = Len(toServer) + 1 /\ toServer'[j] = f
        <5>1. i \in DOMAIN toServer /\ toServer'[i] = toServer[i]
          <6>1. Len(toServer) \in Nat BY <1>1, ToServerElements
          <6>2. i # Len(toServer) + 1 BY <3>4, <4>2, <6>1
          <6>. QED BY <1>17, <6>2
        <5>2. toServer[i].seq \in server.acked + 1 .. loader.consumed BY <3>2, <3>4, <5>1
        <5>. QED BY <1>6, <1>16, <4>2, <5>1, <5>2
      <4>. QED BY <1>17, <4>1, <4>2
    <3>. QED BY <1>3, <1>11, <3>3, <3>4 DEF Acknowledging
  <2>. QED BY <2>1, <2>2, <2>5, <2>6, <2>7 DEF Numbered
<1>19. Opening'
  <2>1. \A i \in DOMAIN toServer' : toServer'[i].type # "request"
    <3>1. \A i \in DOMAIN toServer : toServer[i].type # "request" BY <1>1, <1>15 DEF Opening
    <3>. QED BY <1>16, <1>17, <3>1
  <2>. QED BY <1>1, <1>3, <1>11, <1>15, <2>1 DEF Opening
<1>20. Ending' BY <1>1, <1>3, <1>11 DEF Ending, EndFrame
<1>21. Bounding'
  <2>1. Given <= ChunkBytes * (loader.consumed + 1) BY <1>1 DEF Bounding
  <2>2. /\ ChunkBytes * (loader.consumed + 1) <= ChunkBytes * (loader.consumed + 1 + 1)
        /\ ChunkBytes * (loader.consumed + 1) \in Nat
        /\ ChunkBytes * (loader.consumed + 1 + 1) \in Nat
    <3>1. ChunkBytes \in Nat /\ loader.consumed + 1 \in Nat /\ loader.consumed + 1 + 1 \in Nat
          /\ loader.consumed + 1 <= loader.consumed + 1 + 1
      BY <1>6, TransferAssumption
    <3>. QED BY <3>1, Steps
  <2>3. Given <= ChunkBytes * (loader.consumed + 1 + 1)
    <3>. DEFINE a == ChunkBytes * (loader.consumed + 1)
                b == ChunkBytes * (loader.consumed + 1 + 1)
    <3>1. a \in Nat /\ b \in Nat /\ a <= b /\ Given <= a BY <2>1, <2>2
    <3>. HIDE DEF a, b
    <3>2. Given <= b BY <1>6, <3>1
    <3>. QED BY <3>2 DEF b
  <2>4. loader'.phase \notin {"requested", "opened"} BY <1>11
  <2>. QED BY <1>1, <1>3, <1>11, <1>12, <2>1, <2>3, <2>4 DEF Bounding
<1>22. ASSUME server.phase # "closed" PROVE \E sums : Crediting(sums)'
  <2>1. PICK sums : Crediting(sums) BY <1>22 DEF TransferInv
  <2>2. CASE toServer' = toServer BY <1>3, <1>12, <2>1, <2>2 DEF Crediting
  <2>3. CASE toServer' = Append(toServer, f)
    <3>1. f \in ToServerFrame
      <4>1. toServer' \in Seq(ToServerFrame) BY DEF TransferTypeOK
      <4>2. toServer \in Seq(ToServerFrame) BY <1>1, Channels
      <4>3. toServer'[Len(toServer) + 1] = f /\ Len(toServer) + 1 \in DOMAIN toServer'
        BY <2>3, <4>2
      <4>. QED BY <4>1, <4>3
    <3>2. CreditOf(f) = 0 BY <1>16 DEF CreditOf
    <3>3. Given' = Given + CreditOf(f) BY <1>6, <1>12, <3>2
    <3>4. server'.credit + server'.offset = server.credit + server.offset BY <1>3
    <3>. QED BY <1>1, <2>1, <2>3, <3>1, <3>2, <3>3, <3>4, CreditSent
  <2>. QED BY <1>10, <2>2, <2>3
<1>. QED BY <1>3, <1>18, <1>19, <1>20, <1>21, <1>22 DEF TransferInv

LEMMA Arrived ==
    ASSUME TransferInv, NEW type \in {"chunk", "complete", "abort"}, Arrives(type)
    PROVE  /\ loader.phase # "requested" /\ ~Told
           /\ toLoader # <<>> /\ Head(toLoader) = toLoader[1] /\ 1 \in DOMAIN toLoader
           /\ Head(toLoader).type = type /\ Head(toLoader) \in ToLoaderFrame
<1>1. TransferTypeOK /\ Opening BY DEF TransferInv
<1>2. toLoader # <<>> /\ Head(toLoader).type = type BY DEF Arrives
<1>3. loader.phase # "requested"
  <2>. SUFFICES ASSUME loader.phase = "requested" PROVE FALSE OBVIOUS
  <2>1. toLoader \in {<<>>, <<Open>>, <<Rejected>>} BY <1>1 DEF Opening
  <2>2. Head(<<Open>>) = Open /\ Head(<<Rejected>>) = Rejected OBVIOUS
  <2>. QED BY <1>2, <2>1, <2>2 DEF Open, Rejected
<1>. QED BY <1>1, <1>2, <1>3, Channels, ToLoaderElements DEF Told

LEMMA AcceptResponseKeeps ==
    ASSUME TransferInv, TransferTypeOK', AcceptResponse PROVE TransferInv'
<1>1. TransferTypeOK /\ Opening /\ Ending /\ Bounding /\ loader \in Loader
  BY DEF TransferInv, TransferTypeOK
<1>2. PICK ends : Numbered(ends) BY DEF TransferInv
<1>3. UNCHANGED <<server, toServer, connected>> /\ toLoader # <<>> /\ toLoader' = Tail(toLoader)
      /\ Head(toLoader).type \in {"open", "rejected"}
  BY DEF AcceptResponse, Arrives
<1>4. loader.phase = "requested" BY <1>1, <1>3, ToLoaderElements DEF Opening
<1>5. /\ server.acked = 0 /\ server.outstanding = <<>> /\ Given = 0 /\ loader.next = 1
      /\ loader.signals = <<>> /\ ~loader.terminal /\ connected
      /\ \/ server.phase = "open" /\ toServer = <<>> /\ toLoader = <<Open>>
         \/ server.phase = "closed" /\ toServer = <<>> /\ toLoader = <<Rejected>>
  BY <1>1, <1>3, <1>4 DEF Opening
<1>6. toLoader' = <<>>
  <2>1. Tail(<<Open>>) = <<>> /\ Tail(<<Rejected>>) = <<>> OBVIOUS
  <2>. QED BY <1>3, <1>5, <2>1
<1>7. CASE Arrives("open")
  <2>1. loader' = [loader EXCEPT !.phase = "opened"]
    BY <1>7 DEF AcceptResponse, Arrives
  <2>2. /\ loader'.phase = "opened" /\ UNCHANGED ReaderMemory /\ loader'.credit = loader.credit
        /\ loader'.signals = loader.signals /\ loader'.terminal = loader.terminal
        /\ loader'.outcome = loader.outcome
    BY <1>1, <2>1 DEF ReaderMemory, Loader
  <2>3. server.phase = "open" /\ toServer = <<>>
    BY <1>5, <1>7 DEF Arrives, Open, Rejected
  <2>4. Given' = Given /\ loader'.next = loader.next /\ loader'.consumed = loader.consumed
        /\ loader'.delivered = loader.delivered
    BY <2>2 DEF Given, ReaderMemory
  <2>5. server.ended = "no" BY <1>1, <2>3 DEF Ending
  <2>6. Numbered(ends)'
    <3>1. Sending(ends)' /\ Sent' = Sent BY <1>2, <1>3, SendingKept DEF Numbered, ServerMemory
    <3>2. Reading(ends)' /\ (loader'.phase # "ended" => Taken' = Taken)
      BY <1>2, <1>3, <1>4, <2>2, ReadingKept DEF Numbered, ServerMemory
    <3>3. ~Told BY <2>5 DEF Told
    <3>4. Waiting(ends)'
      BY <1>1, <1>2, <1>4, <2>2, <2>4, <3>1, <3>2, <3>3, Fields, WaitingKept DEF Numbered
    <3>5. Sent' = 0 /\ Len(toLoader') = 0 /\ loader'.next = 1
      BY <1>5, <1>6, <2>4, <3>1 DEF Sent
    <3>6. Arriving(ends)' BY <1>6, <3>5 DEF Arriving
    <3>7. Acknowledging(ends)' BY <1>3, <2>3 DEF Acknowledging
    <3>. QED BY <3>1, <3>2, <3>4, <3>6, <3>7 DEF Numbered
  <2>7. Opening' BY <1>3, <1>6, <2>2, <2>3 DEF Opening
  <2>8. Ending'
    <3>1. DOMAIN toLoader' = {} BY <1>6
    <3>2. connected' /\ ~loader'.terminal /\ loader'.outcome = "pending"
      BY <1>1, <1>3, <1>5, <2>2 DEF Ending
    <3>. QED BY <1>3, <2>3, <2>5, <3>1, <3>2 DEF Ending
  <2>9. Bounding' BY <1>1, <1>3, <1>5, <2>2, <2>4 DEF Bounding
  <2>10. \E sums : Crediting(sums)'
    <3>1. PICK sums : Crediting(sums) BY <2>3 DEF TransferInv
    <3>. QED BY <1>3, <2>4, <3>1 DEF Crediting
  <2>. QED BY <2>6, <2>7, <2>8, <2>9, <2>10 DEF TransferInv
<1>8. CASE ~Arrives("open")
  <2>1. loader' = [loader EXCEPT !.phase = "ended", !.outcome = "rejected", !.terminal = TRUE]
    BY <1>8 DEF AcceptResponse
  <2>2. /\ loader'.phase = "ended" /\ UNCHANGED ReaderMemory /\ loader'.credit = loader.credit
        /\ loader'.signals = loader.signals /\ loader'.terminal
        /\ loader'.outcome = "rejected"
    BY <1>1, <2>1 DEF ReaderMemory, Loader
  <2>3. server.phase # "none" BY <1>5
  <2>4. Untaken BY <1>3, <1>4, <1>5, <1>6, <2>2, <2>3 DEF Untaken, Reasons
  <2>. QED BY <2>4, UntakenKeeps
<1>. QED BY <1>7, <1>8

LEMMA ChunkIsExpected ==
    ASSUME TransferInv, Arrives("chunk"), ~loader.terminal, NEW ends, Numbered(ends)
    PROVE  /\ Head(toLoader) \in DataFrame /\ Agrees(ends, Head(toLoader))
           /\ Head(toLoader).seq = loader.next
           /\ ChunkExpected(Head(toLoader))
<1>. DEFINE f == Head(toLoader)
<1>1. TransferTypeOK /\ Bounding BY DEF TransferInv
<1>2. loader.phase # "requested" /\ f = toLoader[1] /\ 1 \in DOMAIN toLoader /\ f.type = "chunk"
      /\ f \in ToLoaderFrame
  BY Arrived
<1>3. Agrees(ends, f) /\ f.seq = loader.next + 1 - 1 BY <1>2 DEF Numbered, Arriving
<1>4. f \in DataFrame BY <1>2, ByType
<1>5. f.bytes \in 1 .. ChunkBytes /\ f.bytes \in Nat /\ f.offset \in Nat BY <1>4, ByType
<1>6. /\ loader.next \in Nat \ {0} /\ loader.received \in Nat /\ loader.credit \in Nat
      /\ Sent \in Nat /\ server.offset \in Nat
  BY <1>1, Fields
<1>7. ChunkBytes \in Nat /\ TotalBytes \in Nat BY TransferAssumption
<1>. HIDE DEF f
<1>8. f.seq = loader.next BY <1>3, <1>6
<1>9. f.offset = loader.received
  BY <1>3, <1>8 DEF Agrees, Numbered, Reading
<1>10. f.offset + f.bytes <= server.offset
  <2>1. f.seq \in 1 .. Sent /\ f.offset + f.bytes = ends[f.seq] BY <1>3 DEF Agrees
  <2>2. ends \in [Nat -> Nat] /\ ends[Sent] = server.offset BY DEF Numbered, Sending
  <2>3. CASE f.seq = Sent BY <1>6, <2>1, <2>2, <2>3
  <2>4. CASE f.seq < Sent
    <3>1. f.seq \in 0 .. Sent /\ Sent \in 0 .. Sent BY <1>6, <2>1
    <3>2. ends[f.seq] < ends[Sent] BY <2>4, <3>1 DEF Numbered, Sending
    <3>. QED BY <1>5, <1>6, <2>1, <2>2, <3>2
  <2>. QED BY <1>6, <2>1, <2>3, <2>4
<1>11. server.offset <= TotalBytes /\ server.offset <= loader.received + loader.credit
  BY <1>1 DEF Bounding, Given
<1>12. f.bytes <= ChunkBytes /\ f.bytes <= loader.credit
       /\ loader.received + f.bytes <= TotalBytes
  BY <1>5, <1>6, <1>7, <1>9, <1>10, <1>11
<1>. QED BY <1>3, <1>4, <1>8, <1>9, <1>12 DEF ChunkExpected, f

LEMMA AcceptChunkKeeps == ASSUME TransferInv, TransferTypeOK', AcceptChunk PROVE TransferInv'
<1>. DEFINE f == Head(toLoader)
<1>1. TransferTypeOK /\ Opening /\ Ending /\ Bounding /\ loader \in Loader
  BY DEF TransferInv, TransferTypeOK
<1>2. PICK ends : Numbered(ends) BY DEF TransferInv
<1>3. /\ loader.phase # "requested" /\ ~Told /\ toLoader # <<>> /\ f = toLoader[1]
      /\ 1 \in DOMAIN toLoader /\ f.type = "chunk" /\ Arrives("chunk")
  BY Arrived DEF AcceptChunk
<1>4. UNCHANGED <<server, connected>> /\ toLoader' = Tail(toLoader) BY DEF AcceptChunk
<1>5. CASE loader.terminal
  <2>1. UNCHANGED <<loader, toServer>> BY <1>5 DEF AcceptChunk
  <2>2. Untaken BY <1>3, <1>4, <1>5, <2>1 DEF Untaken, ReaderMemory
  <2>. QED BY <2>2, UntakenKeeps
<1>6. CASE ~loader.terminal
  <2>1. f \in DataFrame /\ Agrees(ends, f) /\ f.seq = loader.next /\ ChunkExpected(f)
    BY <1>2, <1>3, <1>6, ChunkIsExpected
  <2>2. /\ loader' = [loader EXCEPT !.next = @ + 1, !.received = @ + f.bytes,
                                    !.credit = @ - f.bytes, !.signals = Append(@, f)]
        /\ UNCHANGED toServer
    BY <1>6, <2>1 DEF AcceptChunk
  <2>. HIDE DEF f
  <2>3. /\ loader'.next = loader.next + 1 /\ loader'.received = loader.received + f.bytes
        /\ loader'.credit = loader.credit - f.bytes
        /\ loader'.signals = Append(loader.signals, f)
        /\ loader'.committed = loader.committed /\ loader'.consumed = loader.consumed
        /\ loader'.delivered = loader.delivered /\ loader'.chunk = loader.chunk
        /\ loader'.phase = loader.phase /\ loader'.terminal = loader.terminal
        /\ loader'.outcome = loader.outcome
    BY <1>1, <2>2 DEF Loader
  <2>4. /\ f.bytes \in Nat /\ f \in Signal /\ loader.next \in Nat \ {0}
        /\ loader.received \in Nat /\ loader.credit \in Nat /\ loader.consumed \in Nat
        /\ loader.signals \in Seq(Signal) /\ Len(loader.signals) \in Nat /\ Sent \in Nat
        /\ Taken \in Nat
    BY <1>1, <2>1, ByType, FrameTypes, Fields, SMTT(30)
  <2>5. Given' = Given
    <3>1. f.bytes <= loader.credit BY <2>1 DEF ChunkExpected
    <3>. QED BY <2>3, <2>4, <3>1 DEF Given
  <2>6. UNCHANGED ServerMemory /\ Taken' = Taken /\ Sent' = Sent
    BY <1>4, <2>3 DEF ServerMemory, Taken, Sent
  <2>7. /\ \A i \in DOMAIN toLoader' :
              i + 1 \in DOMAIN toLoader /\ toLoader'[i] = toLoader[i + 1] /\ i \in Nat
        /\ Len(toLoader') = Len(toLoader) - 1 /\ Len(toLoader) \in Nat
        /\ DOMAIN toLoader = 1 .. Len(toLoader) /\ DOMAIN toLoader' = 1 .. Len(toLoader')
    <3>1. /\ \A i \in DOMAIN toLoader' :
                i + 1 \in DOMAIN toLoader /\ toLoader'[i] = toLoader[i + 1]
          /\ Len(toLoader') = Len(toLoader) - 1 /\ Len(toLoader) \in Nat
          /\ DOMAIN toLoader = 1 .. Len(toLoader) /\ DOMAIN toLoader' = 1 .. Len(toLoader) - 1
      BY <1>1, <1>3, <1>4, ToLoaderElements
    <3>2. \A i \in DOMAIN toLoader' : i \in Nat BY <3>1
    <3>. QED BY <3>1, <3>2
  <2>8. f.seq \in 1 .. Sent /\ loader.received + f.bytes = ends[loader.next]
        /\ loader.next \in 1 .. Sent
    <3>1. f.offset = loader.received BY <2>1 DEF ChunkExpected
    <3>. QED BY <2>1, <3>1 DEF Agrees
  <2>9. \A c : Agrees(ends, c) => Agrees(ends, c)' BY <2>6 DEF Agrees
  <2>10. Numbered(ends)'
    <3>1. Sending(ends)' BY <1>2, <2>6, SendingKept DEF Numbered
    <3>2. Reading(ends)'
      <4>1. /\ server.acked <= loader.consumed /\ loader.consumed <= loader.next - 1
            /\ loader.committed = ends[loader.consumed]
            /\ loader.phase = "yielded" =>
                  /\ Agrees(ends, loader.chunk) /\ loader.chunk.seq = loader.consumed + 1
                  /\ loader.consumed + 1 < loader.next
            /\ loader.phase # "ended" => loader.delivered = ends[Taken]
        BY <1>2 DEF Numbered, Reading
      <4>2. loader'.next - 1 = loader.next BY <2>3, <2>4
      <4>3. loader.consumed <= loader.next /\ loader.next <= Sent
            /\ (loader.consumed + 1 < loader.next => loader.consumed + 1 < loader.next + 1)
        BY <2>4, <2>8, <4>1
      <4>4. loader'.phase = "yielded" => Agrees(ends, loader.chunk)'
        BY <2>3, <2>6, <4>1 DEF Agrees
      <4>. QED BY <1>4, <2>3, <2>6, <2>8, <4>1, <4>2, <4>3, <4>4 DEF Reading
    <3>3. /\ DOMAIN loader'.signals = 1 .. Len(loader.signals) + 1
          /\ DOMAIN loader.signals = 1 .. Len(loader.signals)
          /\ \A i \in 1 .. Len(loader.signals) : loader'.signals[i] = loader.signals[i]
          /\ loader'.signals[Len(loader.signals) + 1] = f
          /\ Len(loader'.signals) = Len(loader.signals) + 1
      BY <2>3, <2>4
    <3>4. Waiting(ends)'
      <4>1. loader.phase # "ended" => Taken + Len(loader.signals) = loader.next - 1
        BY <1>2, <1>3, <1>6 DEF Numbered, Waiting
      <4>2. ASSUME loader.phase # "ended", NEW i \in DOMAIN loader'.signals,
                   loader'.signals[i].type = "chunk"
            PROVE  /\ Agrees(ends, loader'.signals[i])
                   /\ loader'.signals[i].seq = Taken + i /\ Taken + i < loader.next + 1
        <5>1. CASE i \in DOMAIN loader.signals
          <6>1. loader'.signals[i] = loader.signals[i] BY <3>3, <5>1
          <6>2. /\ Agrees(ends, loader.signals[i])
                /\ loader.signals[i].seq = Taken + i /\ Taken + i < loader.next
            BY <1>2, <4>2, <5>1, <6>1 DEF Numbered, Waiting
          <6>3. i \in Nat BY <2>4, <3>3, <5>1
          <6>. QED BY <2>4, <6>1, <6>2, <6>3
        <5>2. CASE i = Len(loader.signals) + 1
          <6>1. Taken + i = loader.next
            <7>1. PICK t, l, n : t = Taken /\ l = Len(loader.signals) /\ n = loader.next
              OBVIOUS
            <7>2. t \in Nat /\ l \in Nat /\ n \in Nat BY <2>4, <7>1
            <7>3. t + l = n - 1 /\ i = l + 1 BY <4>1, <4>2, <5>2, <7>1
            <7>4. t + i = n BY <7>2, <7>3
            <7>. QED BY <7>1, <7>4
          <6>. QED BY <2>1, <2>4, <3>3, <5>2, <6>1
        <5>. QED BY <3>3, <5>1, <5>2
      <4>3. loader.phase # "ended" => Taken + Len(loader'.signals) = loader'.next - 1
        <5>1. loader'.next = loader.next + 1 /\ Len(loader'.signals) = Len(loader.signals) + 1
          BY <2>3, <3>3
        <5>2. /\ Taken \in Nat /\ Len(loader.signals) \in Nat /\ loader.next \in Nat
          BY <2>4
        <5>. QED BY <4>1, <5>1, <5>2
      <4>4. \A i \in DOMAIN loader'.signals : loader'.signals[i].type # "complete"
        <5>1. \A i \in DOMAIN loader.signals : loader.signals[i].type # "complete"
          BY <1>2, <1>3 DEF Numbered, Waiting
        <5>2. f.type = "chunk" BY <2>1, ByType
        <5>3. \A i \in DOMAIN loader'.signals :
                 i \in DOMAIN loader.signals \/ i = Len(loader.signals) + 1
          BY <3>3
        <5>. QED BY <3>3, <5>1, <5>2, <5>3
      <4>5. \A i \in DOMAIN loader'.signals :
               loader.phase # "ended" /\ loader'.signals[i].type = "chunk" =>
                  /\ loader'.signals[i].seq \in 1 .. Sent
                  /\ loader'.signals[i].offset = ends[loader'.signals[i].seq - 1]
                  /\ loader'.signals[i].offset + loader'.signals[i].bytes
                        = ends[loader'.signals[i].seq]
        BY <4>2 DEF Agrees
      <4>. QED BY <2>3, <2>6, <4>2, <4>3, <4>4, <4>5 DEF Waiting, Agrees
    <3>5. Arriving(ends)'
      <4>1. \A i \in DOMAIN toLoader : toLoader[i].type = "chunk" =>
               Agrees(ends, toLoader[i]) /\ toLoader[i].seq = loader.next + i - 1
        BY <1>2, <1>3, <1>6 DEF Numbered, Arriving
      <4>2. \A i \in DOMAIN toLoader' : loader.next + (i + 1) - 1 = loader'.next + i - 1
        <5>. TAKE i \in DOMAIN toLoader'
        <5>1. i \in Nat /\ loader.next \in Nat /\ loader'.next = loader.next + 1
          BY <2>3, <2>4, <2>7
        <5>. QED BY <5>1
      <4>3. (\A i \in DOMAIN toLoader' : ~EndFrame(toLoader'[i])) =>
               Sent = loader'.next - 1 + Len(toLoader')
        <5>. HAVE \A i \in DOMAIN toLoader' : ~EndFrame(toLoader'[i])
        <5>1. \A i \in DOMAIN toLoader : ~EndFrame(toLoader[i])
          <6>. TAKE i \in DOMAIN toLoader
          <6>1. CASE i = 1 BY <1>3, <6>1 DEF EndFrame
          <6>2. CASE i # 1
            <7>1. i - 1 \in DOMAIN toLoader' BY <2>7, <6>2
            <7>2. toLoader'[i - 1] = toLoader[i] BY <2>7, <7>1
            <7>. QED BY <7>1, <7>2
          <6>. QED BY <6>1, <6>2
        <5>2. Sent = loader.next - 1 + Len(toLoader)
          BY <1>2, <1>3, <1>6, <5>1 DEF Numbered, Arriving
        <5>. QED BY <2>3, <2>4, <2>7, <5>2
      <4>4. \A i \in DOMAIN toLoader' : toLoader'[i].type = "chunk" =>
               /\ toLoader'[i].seq \in 1 .. Sent
               /\ toLoader'[i].offset = ends[toLoader'[i].seq - 1]
               /\ toLoader'[i].offset + toLoader'[i].bytes = ends[toLoader'[i].seq]
               /\ toLoader'[i].seq = loader'.next + i - 1
        BY <2>7, <4>1, <4>2 DEF Agrees
      <4>. QED BY <2>6, <4>3, <4>4 DEF Arriving, Agrees, EndFrame
    <3>6. Acknowledging(ends)'
      BY <1>1, <1>2, <2>2, <2>3, <2>6, Channels, AcknowledgingKept DEF Numbered
    <3>. QED BY <3>1, <3>2, <3>4, <3>5, <3>6 DEF Numbered
  <2>11. Opening'
    <3>1. \A i \in DOMAIN toLoader' : toLoader'[i].type \notin {"open", "rejected"}
      BY <1>1, <1>3, <2>7 DEF Opening
    <3>2. server.phase # "none" BY <1>1, <1>3 DEF Opening
    <3>. QED BY <1>1, <1>3, <1>4, <2>2, <2>3, <3>1, <3>2 DEF Opening
  <2>12. Ending'
    <3>1. \A i \in DOMAIN toLoader' :
             /\ EndFrame(toLoader'[i]) => i = Len(toLoader') /\ server.phase = "closed"
             /\ toLoader'[i].type = "complete" => server.ended = "complete"
      <4>. TAKE i \in DOMAIN toLoader'
      <4>1. /\ EndFrame(toLoader[i + 1]) => i + 1 = Len(toLoader) /\ server.phase = "closed"
            /\ toLoader[i + 1].type = "complete" => server.ended = "complete"
        BY <1>1, <2>7 DEF Ending
      <4>2. i + 1 = Len(toLoader) => i = Len(toLoader') BY <2>7
      <4>. QED BY <2>7, <4>1, <4>2
    <3>2. connected BY <1>1, <1>6 DEF Ending
    <3>. QED BY <1>1, <1>4, <2>3, <3>1, <3>2 DEF Ending
  <2>13. Bounding' BY <1>1, <1>4, <2>3, <2>5 DEF Bounding
  <2>14. ASSUME server.phase # "closed" PROVE \E sums : Crediting(sums)'
    <3>1. PICK sums : Crediting(sums) BY <2>14 DEF TransferInv
    <3>. QED BY <1>4, <2>2, <2>5, <3>1 DEF Crediting
  <2>. QED BY <1>4, <2>10, <2>11, <2>12, <2>13, <2>14 DEF TransferInv
<1>. QED BY <1>5, <1>6

LEMMA AllTaken ==
    ASSUME TransferInv, server.ended = "complete"
    PROVE  /\ loader.committed = TotalBytes /\ server.offset = TotalBytes
           /\ server.acked = Sent /\ loader.consumed = Sent /\ loader.next - 1 = Sent
<1>1. TransferTypeOK /\ Ending /\ Bounding BY DEF TransferInv
<1>2. PICK ends : Numbered(ends) BY DEF TransferInv
<1>3. /\ Sent \in Nat /\ server.acked \in Nat /\ loader.consumed \in Nat /\ loader.next \in Nat
      /\ server.offset \in Nat
  BY <1>1, Fields
<1>4. /\ server.acked <= loader.consumed /\ loader.consumed <= loader.next - 1
      /\ loader.next - 1 <= Sent /\ loader.committed = ends[loader.consumed]
  BY <1>2 DEF Numbered, Reading
<1>5. ends[server.acked] = TotalBytes BY <1>1, <1>2 DEF Ending, Numbered, Sending
<1>6. ends[Sent] = server.offset /\ server.offset <= TotalBytes /\ TotalBytes \in Nat
  BY <1>1, <1>2, TransferAssumption DEF Bounding, Numbered, Sending
<1>7. ~(server.acked < Sent)
  <2>. SUFFICES ASSUME server.acked < Sent PROVE FALSE OBVIOUS
  <2>1. server.acked \in 0 .. Sent /\ Sent \in 0 .. Sent BY <1>3
  <2>2. ends[server.acked] < ends[Sent] BY <1>2, <2>1 DEF Numbered, Sending
  <2>. QED BY <1>3, <1>5, <1>6, <2>2
<1>8. server.acked = Sent /\ loader.consumed = Sent /\ loader.next - 1 = Sent
  BY <1>3, <1>4, <1>7
<1>. QED BY <1>4, <1>5, <1>6, <1>8

LEMMA AcceptEndKeeps == ASSUME TransferInv, TransferTypeOK', AcceptEnd PROVE TransferInv'
<1>1. TransferTypeOK /\ Opening /\ Ending /\ Bounding /\ loader \in Loader
  BY DEF TransferInv, TransferTypeOK
<1>2. PICK ends : Numbered(ends) BY DEF TransferInv
<1>3. UNCHANGED <<server, toServer, connected>> /\ toLoader' = Tail(toLoader)
  BY DEF AcceptEnd
<1>4. /\ loader.phase # "requested" /\ toLoader # <<>> /\ ~Told
      /\ 1 \in DOMAIN toLoader /\ Head(toLoader) = toLoader[1]
  BY Arrived DEF AcceptEnd
<1>5. CASE Arrives("complete") /\ loader.terminal /\ loader' = loader
  <2>1. Untaken BY <1>3, <1>4, <1>5 DEF Untaken, ReaderMemory
  <2>. QED BY <2>1, UntakenKeeps
<1>6. CASE Arrives("abort") /\ loader' = Failed(loader, "aborted")
  <2>1. "aborted" \in Reasons BY DEF Reasons
  <2>2. /\ loader'.next = loader.next /\ loader'.received = loader.received
        /\ loader'.credit = loader.credit
        /\ loader'.committed = loader.committed /\ loader'.consumed = loader.consumed
        /\ loader'.delivered = loader.delivered /\ loader'.chunk = loader.chunk
        /\ loader'.phase = loader.phase
        /\ \/ loader.terminal /\ loader' = loader
           \/ /\ ~loader.terminal /\ loader'.terminal
              /\ loader'.signals = Append(loader.signals, Error)
              /\ loader'.outcome = "aborted"
    BY <1>1, <1>6, <2>1, FailedEffect
  <2>3. UNCHANGED ReaderMemory BY <2>2 DEF ReaderMemory
  <2>4. CASE loader.terminal /\ loader' = loader
    <3>1. Untaken BY <1>3, <1>4, <2>3, <2>4 DEF Untaken
    <3>. QED BY <3>1, UntakenKeeps
  <2>5. CASE /\ ~loader.terminal /\ loader'.terminal
             /\ loader'.signals = Append(loader.signals, Error) /\ loader'.outcome = "aborted"
    <3>1. Untaken BY <1>3, <1>4, <2>1, <2>2, <2>3, <2>5 DEF Untaken
    <3>. QED BY <3>1, UntakenKeeps
  <2>. QED BY <2>2, <2>4, <2>5
<1>7. CASE /\ Arrives("complete") /\ ~loader.terminal
           /\ loader' = [loader EXCEPT !.signals = Append(@, Complete)]
  <2>1. /\ loader'.signals = Append(loader.signals, Complete) /\ UNCHANGED ReaderMemory
        /\ loader'.credit = loader.credit /\ loader'.phase = loader.phase
        /\ loader'.terminal = loader.terminal /\ loader'.outcome = loader.outcome
    BY <1>1, <1>7 DEF ReaderMemory, Loader
  <2>2. /\ loader'.next = loader.next /\ loader'.consumed = loader.consumed
        /\ loader'.delivered = loader.delivered /\ Given' = Given
    BY <2>1 DEF ReaderMemory, Given
  <2>3. toLoader[1].type = "complete" BY <1>4, <1>7 DEF Arrives
  <2>4. server.ended = "complete" /\ Len(toLoader) = 1 /\ server.phase = "closed"
    BY <1>1, <1>4, <2>3 DEF Ending, EndFrame
  <2>5. toLoader' = <<>>
    <3>1. toLoader' \in Seq(ToLoaderFrame) /\ Len(toLoader') = 0
      BY <1>1, <1>3, <1>4, <2>4, ToLoaderElements DEF TransferTypeOK
    <3>. QED BY <3>1
  <2>6. Told' BY <1>3, <2>4, <2>5 DEF Told
  <2>7. Numbered(ends)'
    <3>1. Sending(ends)' /\ Sent' = Sent BY <1>2, <1>3, SendingKept DEF Numbered, ServerMemory
    <3>2. Reading(ends)' /\ (loader'.phase # "ended" => Taken' = Taken)
      BY <1>2, <1>3, <2>1, ReadingKept DEF Numbered, ServerMemory
    <3>3. Waiting(ends)'
      <4>1. loader.signals \in Seq(Signal) /\ Complete \in Signal
            /\ Complete.type = "complete"
        BY <1>1, FrameTypes, Fields DEF Complete
      <4>2. \A i \in DOMAIN loader'.signals :
               \/ i \in DOMAIN loader.signals /\ loader'.signals[i] = loader.signals[i]
               \/ loader'.signals[i] = Complete
        BY <2>1, <4>1
      <4>3. \A i \in DOMAIN loader'.signals : loader'.signals[i].type = "chunk" =>
               i \in DOMAIN loader.signals /\ loader'.signals[i] = loader.signals[i]
        BY <4>1, <4>2
      <4>. QED BY <1>2, <2>1, <2>2, <2>6, <3>1, <3>2, <4>3 DEF Numbered, Waiting, Agrees
    <3>4. Sent = loader.next - 1 BY <2>4, AllTaken
    <3>5. Sent' = loader'.next - 1 + Len(toLoader')
      <4>1. loader.next \in Nat BY <1>1, Fields
      <4>2. Len(toLoader') = 0 BY <2>5
      <4>. QED BY <2>2, <3>1, <3>4, <4>1, <4>2
    <3>6. Arriving(ends)' BY <2>5, <3>5 DEF Arriving
    <3>7. Acknowledging(ends)' BY <1>2, <1>3, <2>2 DEF Numbered, Acknowledging
    <3>. QED BY <3>1, <3>2, <3>3, <3>6, <3>7 DEF Numbered
  <2>8. Opening' BY <1>1, <1>3, <1>4, <2>1, <2>4, <2>5 DEF Opening
  <2>9. Ending'
    <3>1. DOMAIN toLoader' = {} BY <2>5
    <3>. QED BY <1>1, <1>3, <2>1, <2>5, <3>1 DEF Ending
  <2>10. Bounding' BY <1>1, <1>3, <2>1, <2>2 DEF Bounding
  <2>. QED BY <1>3, <2>4, <2>7, <2>8, <2>9, <2>10 DEF TransferInv
<1>8. \/ Arrives("complete") /\ loader.terminal /\ loader' = loader
      \/ /\ Arrives("complete") /\ ~loader.terminal
         /\ loader' = [loader EXCEPT !.signals = Append(@, Complete)]
      \/ Arrives("abort") /\ loader' = Failed(loader, "aborted")
  BY DEF AcceptEnd
<1>. QED BY <1>5, <1>6, <1>7, <1>8

LEMMA TakeChunkKeeps ==
    ASSUME TransferInv, TransferTypeOK', loader.phase = "waiting", loader.signals # <<>>,
           NEW f, f = Head(loader.signals), f.type = "chunk",
           loader' = [[loader EXCEPT !.signals = Tail(@)] EXCEPT
                         !.phase = "yielded", !.chunk = f, !.delivered = @ + f.bytes],
           UNCHANGED <<server, toServer, toLoader, connected>>
    PROVE  TransferInv'
<1>1. TransferTypeOK /\ Opening /\ Ending /\ Bounding /\ loader \in Loader
  BY DEF TransferInv, TransferTypeOK
<1>2. PICK ends : Numbered(ends) BY DEF TransferInv
<1>3. /\ loader'.next = loader.next /\ loader'.received = loader.received
      /\ loader'.credit = loader.credit /\ loader'.committed = loader.committed
      /\ loader'.consumed = loader.consumed /\ loader'.delivered = loader.delivered + f.bytes
      /\ loader'.chunk = f /\ loader'.phase = "yielded" /\ loader'.terminal = loader.terminal
      /\ loader'.outcome = loader.outcome /\ loader'.signals = Tail(loader.signals)
  BY <1>1 DEF Loader
<1>4. /\ loader.signals \in Seq(Signal) /\ loader.consumed \in Nat /\ loader.next \in Nat
      /\ loader.delivered \in Nat /\ Sent \in Nat /\ Len(loader.signals) \in Nat
  BY <1>1, Fields, SMTT(30)
<1>5. /\ 1 \in DOMAIN loader.signals /\ f = loader.signals[1]
      /\ Len(loader'.signals) = Len(loader.signals) - 1
      /\ DOMAIN loader.signals = 1 .. Len(loader.signals)
      /\ DOMAIN loader'.signals = 1 .. Len(loader.signals) - 1
      /\ \A i \in DOMAIN loader'.signals : loader'.signals[i] = loader.signals[i + 1]
  BY <1>3, <1>4
<1>6. \A i \in DOMAIN loader'.signals : i + 1 \in DOMAIN loader.signals /\ i \in Nat
  BY <1>4, <1>5
<1>7. Taken = loader.consumed /\ Taken' = loader.consumed + 1 BY <1>3 DEF Taken
<1>8. Agrees(ends, f) /\ f.seq = loader.consumed + 1 /\ loader.consumed + 1 < loader.next
  BY <1>2, <1>5, <1>7 DEF Numbered, Waiting
<1>9. loader'.delivered = ends[loader.consumed + 1]
  <2>1. loader.delivered = ends[loader.consumed] BY <1>2, <1>7 DEF Numbered, Reading
  <2>2. f.seq - 1 = loader.consumed BY <1>4, <1>8
  <2>3. f.offset = ends[loader.consumed] /\ f.offset + f.bytes = ends[loader.consumed + 1]
    BY <1>8, <2>2 DEF Agrees
  <2>. QED BY <1>3, <2>1, <2>3
<1>10. UNCHANGED ServerMemory /\ Sent' = Sent /\ Given' = Given /\ Told' = Told
  BY <1>3 DEF ServerMemory, Sent, Given, Told
<1>11. Numbered(ends)'
  <2>1. Sending(ends)' BY <1>2, <1>10, SendingKept DEF Numbered
  <2>2. Reading(ends)'
    <3>1. Agrees(ends, f)' BY <1>8, <1>10 DEF Agrees
    <3>2. Agrees(ends, loader.chunk)' BY <1>3, <1>8, <1>10 DEF Agrees
    <3>. QED BY <1>2, <1>3, <1>7, <1>8, <1>9, <1>10, <3>2 DEF Numbered, Reading
  <2>3. Waiting(ends)'
    <3>1. \A i \in DOMAIN loader.signals : loader.signals[i].type = "chunk" =>
             /\ Agrees(ends, loader.signals[i])
             /\ loader.signals[i].seq = loader.consumed + i /\ loader.consumed + i < loader.next
      BY <1>2, <1>7 DEF Numbered, Waiting
    <3>2. \A i \in DOMAIN loader'.signals : loader'.signals[i].type = "chunk" =>
             /\ loader'.signals[i].seq \in 1 .. Sent'
             /\ loader'.signals[i].offset = ends[loader'.signals[i].seq - 1]
             /\ loader'.signals[i].offset + loader'.signals[i].bytes
                   = ends[loader'.signals[i].seq]
             /\ loader'.signals[i].seq = Taken' + i /\ Taken' + i < loader'.next
      <4>. TAKE i \in DOMAIN loader'.signals
      <4>1. i + 1 \in DOMAIN loader.signals /\ i \in Nat
            /\ loader'.signals[i] = loader.signals[i + 1]
        BY <1>5, <1>6
      <4>2. loader.consumed + (i + 1) = Taken' + i BY <1>4, <1>7, <4>1
      <4>. QED BY <1>3, <1>10, <3>1, <4>1, <4>2 DEF Agrees
    <3>3. ~loader.terminal /\ ~Told => Taken' + Len(loader'.signals) = loader.next - 1
      <4>. HAVE ~loader.terminal /\ ~Told
      <4>1. loader.consumed + Len(loader.signals) = loader.next - 1
        BY <1>2, <1>7 DEF Numbered, Waiting
      <4>2. PICK l, m, c, n : l = Len(loader.signals) /\ m = Len(loader'.signals)
                              /\ c = loader.consumed /\ n = loader.next
        OBVIOUS
      <4>3. l \in Nat /\ c \in Nat /\ n \in Nat /\ m = l - 1 BY <1>4, <1>5, <4>2
      <4>4. c + l = n - 1 /\ Taken' = c + 1 BY <1>7, <4>1, <4>2
      <4>5. (c + 1) + m = n - 1 BY <4>3, <4>4
      <4>. QED BY <4>2, <4>4, <4>5
    <3>4. \A i \in DOMAIN loader'.signals : loader'.signals[i].type = "complete" => Told
      BY <1>2, <1>5, <1>6 DEF Numbered, Waiting
    <3>. QED BY <1>3, <1>10, <3>2, <3>3, <3>4 DEF Waiting, Agrees
  <2>4. Arriving(ends)' BY <1>2, <1>3, <1>10, ArrivingKept DEF Numbered
  <2>5. Acknowledging(ends)' BY <1>2, <1>3, <1>10 DEF Numbered, Acknowledging
  <2>. QED BY <2>1, <2>2, <2>3, <2>4, <2>5 DEF Numbered
<1>12. Opening' BY <1>1, <1>3 DEF Opening
<1>13. Ending' BY <1>1, <1>3 DEF Ending, EndFrame
<1>14. Bounding'
  <2>1. loader'.delivered <= TotalBytes
    <3>1. loader.consumed + 1 \in 0 .. Sent /\ Sent \in 0 .. Sent
      BY <1>4, <1>8 DEF Agrees
    <3>2. ends \in [Nat -> Nat] /\ ends[Sent] = server.offset /\ server.offset <= TotalBytes
      BY <1>1, <1>2 DEF Numbered, Sending, Bounding
    <3>3. loader.consumed + 1 < Sent => ends[loader.consumed + 1] < ends[Sent]
      BY <1>2, <3>1 DEF Numbered, Sending
    <3>4. loader.consumed + 1 \in Nat BY <1>4
    <3>5. ends[loader.consumed + 1] \in Nat /\ ends[Sent] \in Nat BY <1>4, <3>2, <3>4
    <3>6. PICK a, b : a = ends[loader.consumed + 1] /\ b = ends[Sent] OBVIOUS
    <3>7. a \in Nat /\ b \in Nat /\ TotalBytes \in Nat /\ b <= TotalBytes
      BY <3>2, <3>5, <3>6, TransferAssumption
    <3>8. loader.consumed + 1 < Sent \/ loader.consumed + 1 = Sent BY <1>4, <3>1
    <3>9. a < b \/ a = b BY <3>3, <3>6, <3>8
    <3>10. a <= TotalBytes BY <3>7, <3>9
    <3>. QED BY <1>9, <3>6, <3>10
  <2>. QED BY <1>1, <1>3, <1>10, <2>1 DEF Bounding
<1>15. ASSUME server.phase # "closed" PROVE \E sums : Crediting(sums)'
  <2>1. PICK sums : Crediting(sums) BY <1>15 DEF TransferInv
  <2>. QED BY <1>10, <2>1 DEF Crediting
<1>. QED BY <1>11, <1>12, <1>13, <1>14, <1>15 DEF TransferInv

LEMMA TakeSignalCases ==
    ASSUME TransferInv, TransferTypeOK', TakeSignal
    PROVE  \/ Untaken
           \/ /\ Head(loader.signals).type = "chunk"
              /\ loader' = [[loader EXCEPT !.signals = Tail(@)] EXCEPT
                               !.phase = "yielded", !.chunk = Head(loader.signals),
                               !.delivered = @ + Head(loader.signals).bytes]
              /\ UNCHANGED toServer
<1>1. TransferTypeOK /\ loader \in Loader BY DEF TransferInv, TransferTypeOK
<1>2. PICK f : f = Head(loader.signals) OBVIOUS
<1>3. PICK rest : rest = [loader EXCEPT !.signals = Tail(@)] OBVIOUS
<1>4. PICK c : c = [rest EXCEPT !.phase = "ended"] OBVIOUS
<1>5. loader.phase = "waiting" /\ loader.signals # <<>>
      /\ UNCHANGED <<server, toLoader, connected>>
  BY DEF TakeSignal
<1>6. rest \in Loader BY <1>1, <1>3, <1>5, Channels, LoaderFields
<1>7. c \in Loader BY <1>4, <1>6, LoaderFields, Names
<1>8. /\ rest.next = loader.next /\ rest.received = loader.received
      /\ rest.credit = loader.credit /\ rest.committed = loader.committed
      /\ rest.consumed = loader.consumed /\ rest.delivered = loader.delivered
      /\ rest.chunk = loader.chunk /\ rest.terminal = loader.terminal
      /\ rest.outcome = loader.outcome /\ rest.signals = Tail(loader.signals)
  BY <1>1, <1>3 DEF Loader
<1>9. /\ c.next = rest.next /\ c.received = rest.received
      /\ c.credit = rest.credit /\ c.committed = rest.committed
      /\ c.consumed = rest.consumed /\ c.delivered = rest.delivered
      /\ c.chunk = rest.chunk /\ c.terminal = rest.terminal
      /\ c.outcome = rest.outcome /\ c.signals = rest.signals /\ c.phase = "ended"
  BY <1>4, <1>6 DEF Loader
<1>10. CASE /\ f.type = "chunk"
            /\ loader' = [rest EXCEPT !.phase = "yielded", !.chunk = f, !.delivered = @ + f.bytes]
            /\ UNCHANGED toServer
  BY <1>2, <1>3, <1>10
<1>11. CASE BeginCancel(c)
  <2>1. Stops(c, Reasons) /\ toServer' \in {toServer, SentOn(toServer, Cancel)}
    BY <1>7, <1>11, CancelEffect
  <2>. QED BY <1>1, <1>5, <1>7, <1>8, <1>9, <2>1, StopsUntaken
<1>12. CASE loader' = c /\ UNCHANGED toServer
  <2>1. Stops(c, Reasons) BY <1>12 DEF Stops, SameReader
  <2>. QED BY <1>1, <1>5, <1>7, <1>8, <1>9, <1>12, <2>1, StopsUntaken
<1>13. ASSUME f.type = "complete" PROVE loader.committed = TotalBytes
  <2>1. PICK ends : Numbered(ends) BY DEF TransferInv
  <2>2. 1 \in DOMAIN loader.signals /\ f = loader.signals[1]
    <3>1. loader.signals \in Seq(Signal) BY <1>1, Fields
    <3>. QED BY <1>2, <1>5, <3>1
  <2>3. server.ended = "complete" BY <1>13, <2>1, <2>2 DEF Numbered, Waiting, Told
  <2>. QED BY <2>3, AllTaken
<1>14. CASE /\ loader' = [rest EXCEPT !.phase = "ended", !.terminal = TRUE,
                                      !.outcome = IF @ = "pending" THEN "completed" ELSE @]
            /\ UNCHANGED toServer
  <2>1. /\ loader'.next = rest.next /\ loader'.received = rest.received
        /\ loader'.credit = rest.credit /\ loader'.committed = rest.committed
        /\ loader'.consumed = rest.consumed /\ loader'.delivered = rest.delivered
        /\ loader'.chunk = rest.chunk /\ loader'.terminal = TRUE
        /\ loader'.outcome = IF rest.outcome = "pending" THEN "completed" ELSE rest.outcome
        /\ loader'.signals = rest.signals /\ loader'.phase = "ended"
    BY <1>6, <1>14 DEF Loader
  <2>2. \A i \in DOMAIN loader'.signals : loader'.signals[i].type = "complete" =>
           \E j \in DOMAIN loader.signals : loader.signals[j].type = "complete"
    <3>1. loader.signals \in Seq(Signal) BY <1>1, Fields
    <3>2. \A i \in DOMAIN loader'.signals :
             i + 1 \in DOMAIN loader.signals /\ loader'.signals[i] = loader.signals[i + 1]
      BY <1>5, <1>8, <2>1, <3>1
    <3>. QED BY <3>2
  <2>3. ~loader.terminal <=> loader.outcome = "pending" BY DEF TransferInv, Ending
  <2>4. \/ loader'.terminal = loader.terminal /\ loader'.outcome = loader.outcome
        \/ ~loader.terminal /\ loader'.terminal /\ loader'.outcome = "completed"
    <3>1. CASE loader.terminal
      <4>1. loader.terminal = TRUE BY <1>1, <3>1 DEF Loader
      <4>. QED BY <1>8, <2>1, <2>3, <3>1, <4>1
    <3>2. CASE ~loader.terminal BY <1>8, <2>1, <2>3, <3>2
    <3>. QED BY <3>1, <3>2
  <2>5. UNCHANGED ReaderMemory /\ loader'.credit = loader.credit
    BY <1>8, <2>1 DEF ReaderMemory
  <2>. QED BY <1>5, <1>14, <2>1, <2>2, <2>4, <2>5 DEF Untaken
<1>15. \/ /\ f.type = "chunk"
          /\ loader' = [rest EXCEPT !.phase = "yielded", !.chunk = f, !.delivered = @ + f.bytes]
          /\ UNCHANGED toServer
       \/ BeginCancel(c)
       \/ /\ loader' = [rest EXCEPT !.phase = "ended", !.terminal = TRUE,
                                    !.outcome = IF @ = "pending" THEN "completed" ELSE @]
          /\ UNCHANGED toServer
       \/ f.type = "complete" /\ loader.committed # TotalBytes
       \/ loader' = c /\ UNCHANGED toServer
  BY <1>2, <1>3, <1>4 DEF TakeSignal
<1>. QED BY <1>10, <1>11, <1>12, <1>13, <1>14, <1>15

LEMMA TakeSignalKeeps == ASSUME TransferInv, TransferTypeOK', TakeSignal PROVE TransferInv'
<1>1. /\ loader.phase = "waiting" /\ loader.signals # <<>>
      /\ UNCHANGED <<server, toLoader, connected>>
  BY DEF TakeSignal
<1>. QED BY <1>1, TakeSignalCases, TakeChunkKeeps, UntakenKeeps

-----------------------------------------------------------------------------
LEMMA TransferInvInit == ASSUME TransferInit PROVE TransferInv
<1>. USE DEF TransferInit
<1>1. TransferTypeOK
  <2>1. server \in Server BY DEF Server, ServerPhase, Ended
  <2>2. loader \in Loader BY DEF Loader, LoaderPhase, Outcome
  <2>3. toServer \in Seq(ToServerFrame) /\ toLoader \in Seq(ToLoaderFrame)
    BY FrameTypes
  <2>4. connected \in BOOLEAN /\ loader.phase # "yielded" OBVIOUS
  <2>. QED BY <2>1, <2>2, <2>3, <2>4 DEF TransferTypeOK
<1>2. Sent = 0 /\ Given = 0 /\ Taken = 0 BY DEF Sent, Given, Taken
<1>3. Opening BY <1>2 DEF Opening
<1>4. Ending BY DEF Ending
<1>5. Bounding
  <2>1. ChunkBytes \in Nat /\ TotalBytes \in Nat /\ MaxOutstanding \in Nat
    BY TransferAssumption
  <2>2. 0 <= ChunkBytes * (0 + 1)
    <3>1. ChunkBytes * (0 + 1) \in Nat BY <2>1, Steps
    <3>. QED BY <3>1
  <2>. QED BY <1>2, <2>1, <2>2 DEF Bounding
<1>6. Numbered([n \in Nat |-> 0])
  <2>. DEFINE ends == [n \in Nat |-> 0]
  <2>1. Sending(ends) BY <1>2 DEF Sending
  <2>2. Reading(ends) BY <1>2 DEF Reading
  <2>3. Waiting(ends) BY <1>2 DEF Waiting
  <2>4. Arriving(ends) BY <1>2 DEF Arriving
  <2>5. Acknowledging(ends) BY DEF Acknowledging, RequestFrame
  <2>. QED BY <2>1, <2>2, <2>3, <2>4, <2>5 DEF Numbered
<1>7. Crediting([n \in Nat |-> 0])
  <2>1. Len(toServer) = 1 /\ toServer[1] = RequestFrame OBVIOUS
  <2>2. CreditOf(toServer[1]) = 0 BY <2>1 DEF CreditOf, RequestFrame
  <2>. QED BY <1>2, <2>1, <2>2 DEF Crediting
<1>. QED BY <1>1, <1>3, <1>4, <1>5, <1>6, <1>7 DEF TransferInv

LEMMA TransferInvStep == ASSUME TransferInv, [TransferNext]_transferVars PROVE TransferInv'
<1>1. CASE UNCHANGED transferVars
  <2>1. UNCHANGED <<server, loader, toServer, toLoader, connected>> BY <1>1 DEF transferVars
  <2>2. TransferTypeOK' /\ Opening' /\ Ending' /\ Bounding'
    BY <2>1 DEF TransferInv, TransferTypeOK, Opening, Ending, Bounding, Given, EndFrame
  <2>3. PICK ends : Numbered(ends) BY DEF TransferInv
  <2>4. Numbered(ends)'
    BY <2>1, <2>3 DEF Numbered, Sending, Reading, Waiting, Arriving, Acknowledging, Agrees,
                      Sent, Taken, Told, EndFrame
  <2>5. ASSUME server.phase # "closed" PROVE \E sums : Crediting(sums)'
    <3>1. PICK sums : Crediting(sums) BY <2>5 DEF TransferInv
    <3>. QED BY <2>1, <3>1 DEF Crediting, Given
  <2>. QED BY <2>1, <2>2, <2>4, <2>5 DEF TransferInv
<1>2. CASE TransferNext
  <2>1. TransferTypeOK' BY <1>2, TypesKept DEF TransferInv
  <2>2. CASE CancelTransfer \/ CancelReturns \/ Leave \/ Granted \/ Left \/ Disconnect
    <3>1. Untaken BY <2>1, <2>2, CallerUntaken, DisconnectUntaken
    <3>. QED BY <2>1, <3>1, UntakenKeeps
  <2>. QED
    BY <1>2, <2>1, <2>2, HandleRequestKeeps, HandleCreditKeeps, HandleAckKeeps, HandleCancelKeeps,
       PumpChunkKeeps, PumpEndsKeeps, PumpFailsKeeps, ServerInputEndsKeeps,
       AcceptResponseKeeps, AcceptChunkKeeps, AcceptEndKeeps, ListenKeeps, TakeSignalKeeps,
       AckTakenKeeps, AckReturnsKeeps
    DEF TransferNext, Node, Frames, Consume
<1>. QED BY <1>1, <1>2

-----------------------------------------------------------------------------
(* The inductive invariant of a download: whatever is on its way, both     *)
(* ends and every frame agree on where each chunk ends                     *)
(* (OutboundTransfer.sentEndOffsets, _ClientTransfer's next sequence and   *)
(* offsets), and the credit the Node has is what the client granted.       *)
THEOREM TransferInvariant == TransferSpec => []TransferInv
<1>1. TransferInit => TransferInv BY TransferInvInit
<1>2. TransferInv /\ [TransferNext]_transferVars => TransferInv' BY TransferInvStep
<1>. QED BY <1>1, <1>2, PTL DEF TransferSpec

LEMMA Agreed == ASSUME TransferInv PROVE PeersInStep
<1>1. TransferTypeOK /\ Ending BY DEF TransferInv
<1>2. /\ \A i \in DOMAIN toServer : toServer[i] \in ToServerFrame
      /\ \A i \in DOMAIN toLoader : toLoader[i] \in ToLoaderFrame
  BY <1>1 DEF TransferTypeOK
<1>3. \A f \in ToServerFrame : AcceptsTransferFrame(f)
  <2>1. ASSUME NEW f \in ToServerFrame
        PROVE  f.type \in {"request", "cancel", "credit", "ack"}
    BY DEF ToServerFrame, RequestFrame, Cancel, CreditFrame, AckFrame
  <2>2. ASSUME NEW f \in ToServerFrame, f.type = "ack" PROVE f.seq > 0 /\ f.committed > 0
    <3>1. f.seq \in Nat \ {0} /\ f.committed \in Nat \ {0} BY <2>2, ByType
    <3>. QED BY <3>1
  <2>. QED BY <2>1, <2>2, ByType DEF AcceptsTransferFrame
<1>4. \A f \in ToLoaderFrame : AcceptsTransferFrame(f)
  <2>1. ASSUME NEW f \in ToLoaderFrame
        PROVE  f.type \in {"open", "rejected", "complete", "abort", "chunk"}
    BY DEF ToLoaderFrame, Open, Rejected, Complete, Abort, DataFrame
  <2>2. ASSUME NEW f \in ToLoaderFrame, f.type = "chunk"
        PROVE  f.seq > 0 /\ f.bytes \in 1..ChunkBytes
    <3>1. f.seq \in Nat \ {0} /\ f.bytes \in 1..ChunkBytes BY <2>2, ByType
    <3>. QED BY <3>1
  <2>. QED BY <2>1, <2>2 DEF AcceptsTransferFrame
<1>. QED BY <1>1, <1>2, <1>3, <1>4 DEF PeersInStep, Ending

LEMMA Bounded == ASSUME TransferInv PROVE WindowBounded
<1>1. TransferTypeOK /\ Bounding BY DEF TransferInv
<1>2. PICK ends : Numbered(ends) BY DEF TransferInv
<1>3. PICK c, n, s, a, w : /\ c = loader.consumed /\ n = loader.next - 1 /\ s = Sent
                           /\ a = server.acked /\ w = Len(server.outstanding)
  OBVIOUS
<1>4. c \in Nat /\ n \in Nat /\ s \in Nat /\ a \in Nat /\ w \in Nat /\ s = a + w
  <2>1. /\ loader.consumed \in Nat /\ loader.next \in Nat \ {0} /\ Sent \in Nat
        /\ server.acked \in Nat /\ server.outstanding \in Seq(Nat)
    BY <1>1, Fields
  <2>2. Len(server.outstanding) \in Nat BY <2>1
  <2>3. n \in Nat BY <1>3, <2>1
  <2>. QED BY <1>3, <2>1, <2>2, <2>3 DEF Sent
<1>5. /\ a <= c /\ c <= n /\ n <= s
      /\ loader.committed = ends[c] /\ loader.received = ends[n]
      /\ \A i, j \in 0 .. s : i < j => ends[j] - ends[i] <= ChunkBytes * (j - i)
      /\ ends \in [Nat -> Nat]
  BY <1>2, <1>3 DEF Numbered, Reading, Sending
<1>6. ChunkBytes \in Nat /\ MaxOutstanding \in Nat BY TransferAssumption
<1>7. n - c \in Nat /\ n - c <= MaxOutstanding
  <2>1. w <= MaxOutstanding BY <1>1, <1>3 DEF Bounding
  <2>. QED BY <1>4, <1>5, <1>6, <2>1
<1>8. ChunkBytes * (n - c) <= ChunkBytes * MaxOutstanding /\ 0 <= ChunkBytes * MaxOutstanding
      /\ ChunkBytes * MaxOutstanding \in Nat /\ ChunkBytes * (n - c) \in Nat
  BY <1>6, <1>7, Steps
<1>9. loader.received - loader.committed <= ChunkBytes * MaxOutstanding
  <2>1. CASE c = n BY <1>4, <1>5, <1>8, <2>1
  <2>2. CASE c < n
    <3>1. c \in 0 .. s /\ n \in 0 .. s BY <1>4, <1>5
    <3>2. ends[n] - ends[c] <= ChunkBytes * (n - c) BY <1>5, <2>2, <3>1
    <3>3. PICK x, y, p, q : /\ x = ends[n] /\ y = ends[c] /\ p = ChunkBytes * (n - c)
                            /\ q = ChunkBytes * MaxOutstanding
      OBVIOUS
    <3>4. x \in Nat /\ y \in Nat /\ p \in Nat /\ q \in Nat BY <1>4, <1>5, <1>8, <3>3
    <3>5. x - y <= p /\ p <= q BY <1>8, <3>2, <3>3
    <3>6. x - y <= q BY <3>4, <3>5
    <3>. QED BY <1>5, <3>3, <3>6
  <2>. QED BY <1>4, <1>5, <2>1, <2>2
<1>. QED BY <1>1, <1>9 DEF WindowBounded, Bounding, Given

(* Whatever the reads return and whoever leaves, cancels or disconnects,   *)
(* and whenever: neither end of a download accuses the other of a          *)
(* violation or sends a frame that the codec refuses, the client never has *)
(* more than a window to hold, and the Node calls complete only what the   *)
(* reader has taken to the last byte (handleTransferAck, _acceptChunk,     *)
(* _consume, pumpTransfer).                                                *)
THEOREM TransferKeepsStep ==
    TransferSpec => [](PeersInStep /\ WindowBounded /\ CompleteWhenTaken)
<1>1. TransferInv => PeersInStep /\ WindowBounded /\ CompleteWhenTaken
  BY Agreed, Bounded, AllTaken DEF CompleteWhenTaken
<1>. QED BY <1>1, TransferInvariant, PTL

-----------------------------------------------------------------------------
(* The download implements ContentCopy.                                    *)

LEMMA CopyStops ==
    ASSUME TransferInv, loader'.delivered = loader.delivered,
           \/ loader'.outcome = loader.outcome
           \/ loader.outcome = "pending" /\ loader'.outcome \in Outcome \ {"pending", "completed"}
    PROVE  [Copy!Next]_<<loader.delivered, CopyOutcome>>
<1>1. CASE loader'.outcome = loader.outcome BY <1>1 DEF CopyOutcome
<1>2. CASE /\ loader.outcome = "pending"
           /\ loader'.outcome \in Outcome \ {"pending", "completed"}
  <2>1. CopyOutcome = "copying" /\ CopyOutcome' = "failed" BY <1>2 DEF CopyOutcome
  <2>. QED BY <2>1 DEF Copy!Next, Copy!Fail
<1>. QED BY <1>1, <1>2

LEMMA CopyCancels ==
    ASSUME TransferInv, NEW c \in Loader, BeginCancel(c),
           c.delivered = loader.delivered, c.outcome = loader.outcome,
           c.terminal = loader.terminal
    PROVE  [Copy!Next]_<<loader.delivered, CopyOutcome>>
<1>1. Stops(c, Reasons) BY CancelEffect
<1>2. ~loader.terminal <=> loader.outcome = "pending" BY DEF TransferInv, Ending
<1>3. \/ loader'.outcome = loader.outcome
      \/ loader.outcome = "pending" /\ loader'.outcome \in Reasons
  BY <1>1, <1>2 DEF Stops
<1>4. Reasons \subseteq Outcome \ {"pending", "completed"} BY DEF Reasons, Outcome
<1>. QED BY <1>1, <1>3, <1>4, CopyStops DEF Stops, SameReader

LEMMA CopyFails ==
    ASSUME TransferInv, NEW reason \in Reasons, NEW d, d = Failed(loader, reason),
           loader'.delivered = d.delivered, loader'.outcome = d.outcome
    PROVE  [Copy!Next]_<<loader.delivered, CopyOutcome>>
<1>1. loader \in Loader /\ (~loader.terminal <=> loader.outcome = "pending")
  BY DEF TransferInv, TransferTypeOK, Ending
<1>2. /\ d.delivered = loader.delivered
      /\ \/ loader.terminal /\ d = loader
         \/ /\ ~loader.terminal /\ d.terminal /\ d.signals = Append(loader.signals, Error)
            /\ d.outcome = reason
  BY <1>1, FailedEffect
<1>3. Reasons \subseteq Outcome \ {"pending", "completed"} BY DEF Reasons, Outcome
<1>. QED BY <1>1, <1>2, <1>3, CopyStops

LEMMA CopyFrames == ASSUME TransferInv, Frames PROVE [Copy!Next]_<<loader.delivered, CopyOutcome>>
<1>1. loader \in Loader /\ Opening /\ Ending /\ TransferTypeOK
  BY DEF TransferInv, TransferTypeOK
<1>2. CASE AcceptResponse
  <2>1. CASE loader' = [loader EXCEPT !.phase = "opened"]
    BY <1>1, <2>1, CopyStops DEF Loader
  <2>2. CASE /\ Arrives("rejected")
             /\ loader' = [loader EXCEPT !.phase = "ended", !.outcome = "rejected",
                                         !.terminal = TRUE]
    <3>1. 1 \in DOMAIN toLoader /\ toLoader[1].type = "rejected"
      <4>1. toLoader \in Seq(ToLoaderFrame) BY <1>1 DEF TransferTypeOK
      <4>. QED BY <2>2, <4>1 DEF Arrives
    <3>2. loader.phase = "requested" BY <1>1, <3>1 DEF Opening
    <3>3. loader.outcome = "pending" BY <1>1, <3>2 DEF Opening, Ending
    <3>4. loader'.delivered = loader.delivered /\ loader'.outcome = "rejected"
      BY <1>1, <2>2 DEF Loader
    <3>. QED BY <3>3, <3>4, CopyStops DEF Outcome
  <2>. QED BY <1>2, <2>1, <2>2 DEF AcceptResponse
<1>3. CASE AcceptChunk
  <2>1. CASE loader' = loader BY <2>1, CopyStops
  <2>2. CASE loader' = [loader EXCEPT !.next = @ + 1, !.received = @ + Head(toLoader).bytes,
                                      !.credit = @ - Head(toLoader).bytes,
                                      !.signals = Append(@, Head(toLoader))]
    BY <1>1, <2>2, CopyStops DEF Loader
  <2>3. PICK ends : Numbered(ends) BY DEF TransferInv
  <2>4. ~loader.terminal => ChunkExpected(Head(toLoader))
    BY <1>3, <2>3, ChunkIsExpected DEF AcceptChunk
  <2>. QED BY <1>3, <2>1, <2>2, <2>4 DEF AcceptChunk
<1>4. CASE AcceptEnd
  <2>1. CASE loader' = loader BY <2>1, CopyStops
  <2>2. CASE loader' = [loader EXCEPT !.signals = Append(@, Complete)]
    BY <1>1, <2>2, CopyStops DEF Loader
  <2>3. CASE loader' = Failed(loader, "aborted") BY <2>3, CopyFails DEF Reasons
  <2>. QED BY <1>4, <2>1, <2>2, <2>3 DEF AcceptEnd
<1>. QED BY <1>2, <1>3, <1>4 DEF Frames

LEMMA CopyTakes ==
    ASSUME TransferInv, TransferInv', TakeSignal
    PROVE  [Copy!Next]_<<loader.delivered, CopyOutcome>>
<1>1. loader \in Loader /\ Ending /\ Bounding /\ TransferTypeOK
  BY DEF TransferInv, TransferTypeOK
<1>2. PICK f : f = Head(loader.signals) OBVIOUS
<1>3. PICK rest : rest = [loader EXCEPT !.signals = Tail(@)] OBVIOUS
<1>4. PICK c : c = [rest EXCEPT !.phase = "ended"] OBVIOUS
<1>5. loader.phase = "waiting" /\ loader.signals # <<>> BY DEF TakeSignal
<1>6. rest \in Loader BY <1>1, <1>3, <1>5, Channels, LoaderFields
<1>7. c \in Loader BY <1>4, <1>6, LoaderFields, Names
<1>8. /\ rest.delivered = loader.delivered /\ rest.terminal = loader.terminal
      /\ rest.outcome = loader.outcome
  BY <1>1, <1>3 DEF Loader
<1>9. c.delivered = rest.delivered /\ c.terminal = rest.terminal /\ c.outcome = rest.outcome
  BY <1>4, <1>6 DEF Loader
<1>10. CASE /\ f.type = "chunk"
            /\ loader' = [rest EXCEPT !.phase = "yielded", !.chunk = f, !.delivered = @ + f.bytes]
  <2>1. loader'.delivered = loader.delivered + f.bytes /\ loader'.outcome = loader.outcome
    BY <1>6, <1>8, <1>10 DEF Loader
  <2>2. f \in Signal BY <1>1, <1>2, <1>5, Channels
  <2>3. f.bytes \in Nat \ {0} BY <1>10, <2>2, ByType
  <2>4. loader'.delivered <= TotalBytes BY DEF TransferInv, Bounding
  <2>5. loader.delivered \in Nat /\ TotalBytes \in Nat BY <1>1, Fields, TransferAssumption
  <2>6. f.bytes \in 1 .. (TotalBytes - loader.delivered) BY <2>1, <2>3, <2>4, <2>5
  <2>7. loader.outcome # "completed" BY <1>1, <1>5 DEF Ending
  <2>8. CopyOutcome # "complete" /\ CopyOutcome' = CopyOutcome BY <2>1, <2>7 DEF CopyOutcome
  <2>. QED BY <2>1, <2>6, <2>8 DEF Copy!Next, Copy!Deliver
<1>11. CASE BeginCancel(c) BY <1>7, <1>8, <1>9, <1>11, CopyCancels
<1>12. CASE loader' = c BY <1>8, <1>9, <1>12, CopyStops
<1>13. ASSUME f.type = "complete"
       PROVE  loader.committed = TotalBytes /\ loader.delivered = TotalBytes
  <2>1. PICK ends : Numbered(ends) BY DEF TransferInv
  <2>2. 1 \in DOMAIN loader.signals /\ f = loader.signals[1]
    <3>1. loader.signals \in Seq(Signal) BY <1>1, Fields
    <3>. QED BY <1>2, <1>5, <3>1
  <2>3. server.ended = "complete" BY <1>13, <2>1, <2>2 DEF Numbered, Waiting, Told
  <2>4. Taken = loader.consumed BY <1>5 DEF Taken
  <2>5. loader.delivered = loader.committed BY <1>5, <2>1, <2>4 DEF Numbered, Reading
  <2>. QED BY <2>3, <2>5, AllTaken
<1>14. CASE /\ f.type = "complete"
            /\ loader' = [rest EXCEPT !.phase = "ended", !.terminal = TRUE,
                                      !.outcome = IF @ = "pending" THEN "completed" ELSE @]
  <2>1. /\ loader'.delivered = loader.delivered
        /\ loader'.outcome = IF loader.outcome = "pending" THEN "completed" ELSE loader.outcome
    BY <1>6, <1>8, <1>14 DEF Loader
  <2>2. CASE loader.outcome = "pending"
    <3>1. CopyOutcome = "copying" /\ CopyOutcome' = "complete" BY <2>1, <2>2 DEF CopyOutcome
    <3>. QED BY <1>13, <1>14, <2>1, <3>1 DEF Copy!Next, Copy!Complete
  <2>3. CASE loader.outcome # "pending" BY <2>1, <2>3, CopyStops
  <2>. QED BY <2>2, <2>3
<1>15. \/ /\ f.type = "chunk"
          /\ loader' = [rest EXCEPT !.phase = "yielded", !.chunk = f, !.delivered = @ + f.bytes]
       \/ BeginCancel(c)
       \/ /\ f.type = "complete"
          /\ loader' = [rest EXCEPT !.phase = "ended", !.terminal = TRUE,
                                    !.outcome = IF @ = "pending" THEN "completed" ELSE @]
       \/ f.type = "complete" /\ loader.committed # TotalBytes
       \/ loader' = c
  BY <1>2, <1>3, <1>4 DEF TakeSignal
<1>. QED BY <1>10, <1>11, <1>12, <1>13, <1>14, <1>15

LEMMA CopyGrants ==
    ASSUME TransferInv, NEW n, Grant(loader, n)
    PROVE  [Copy!Next]_<<loader.delivered, CopyOutcome>>
<1>1. loader \in Loader BY DEF TransferInv, TransferTypeOK
<1>2. loader'.delivered = loader.delivered /\ loader'.outcome = loader.outcome
  BY <1>1 DEF Grant, Loader
<1>. QED BY <1>2, CopyStops

LEMMA CopyConsume ==
    ASSUME TransferInv, TransferInv', Consume
    PROVE  [Copy!Next]_<<loader.delivered, CopyOutcome>>
<1>1. loader \in Loader BY DEF TransferInv, TransferTypeOK
<1>2. CASE Listen BY <1>2, CopyGrants DEF Listen
<1>3. CASE Granted
  <2>1. loader' = [loader EXCEPT !.phase = "waiting"] BY <1>3 DEF Granted
  <2>2. loader'.delivered = loader.delivered /\ loader'.outcome = loader.outcome
    BY <1>1, <2>1 DEF Loader
  <2>. QED BY <2>2, CopyStops
<1>4. CASE AckTaken
  <2>1. PICK c : c = [loader EXCEPT !.committed = @ + loader.chunk.bytes,
                                    !.consumed = loader.chunk.seq]
    OBVIOUS
  <2>2. loader' = [c EXCEPT !.phase = "acking"] \/ loader' = [c EXCEPT !.phase = "ended"]
    BY <1>4, <2>1 DEF AckTaken
  <2>3. DOMAIN c = DOMAIN loader /\ DOMAIN loader = {"phase", "next", "received", "credit",
           "signals", "chunk", "committed", "consumed", "delivered", "terminal", "cancelSent",
           "cancelling", "leaving", "outcome"}
    BY <1>1, <2>1 DEF Loader
  <2>4. c.delivered = loader.delivered /\ c.outcome = loader.outcome BY <2>1, <2>3
  <2>5. loader'.delivered = c.delivered /\ loader'.outcome = c.outcome BY <2>2, <2>3
  <2>. QED BY <2>4, <2>5, CopyStops
<1>5. CASE Left
  <2>1. PICK c : c = [loader EXCEPT !.phase = "ended"] OBVIOUS
  <2>2. c \in Loader BY <1>1, <2>1, LoaderFields, Names
  <2>3. c.delivered = loader.delivered /\ c.outcome = loader.outcome
        /\ c.terminal = loader.terminal
    BY <1>1, <2>1 DEF Loader
  <2>4. BeginCancel(c) BY <1>5, <2>1 DEF Left
  <2>. QED BY <2>2, <2>3, <2>4, CopyCancels
<1>6. CASE AckReturns
  <2>1. CASE loader' = [loader EXCEPT !.phase = "waiting"]
    <3>1. loader'.delivered = loader.delivered /\ loader'.outcome = loader.outcome
      BY <1>1, <2>1 DEF Loader
    <3>. QED BY <3>1, CopyStops
  <2>. QED BY <1>6, <2>1, CopyGrants DEF AckReturns
<1>. QED BY <1>2, <1>3, <1>4, <1>5, <1>6, CopyTakes DEF Consume

LEMMA CopyCaller ==
    ASSUME TransferInv, CancelReturns \/ Leave \/ CancelTransfer \/ Disconnect
    PROVE  [Copy!Next]_<<loader.delivered, CopyOutcome>>
<1>1. loader \in Loader BY DEF TransferInv, TransferTypeOK
<1>2. CASE CancelReturns
  <2>1. PICK d : d = Failed(loader, "cancelled") OBVIOUS
  <2>2. "cancelled" \in Reasons BY DEF Reasons
  <2>3. d \in Loader BY <1>1, <2>1, <2>2, FailedEffect
  <2>4. loader' = [d EXCEPT !.cancelling = FALSE] BY <1>2, <2>1 DEF CancelReturns
  <2>5. loader'.delivered = d.delivered /\ loader'.outcome = d.outcome BY <2>3, <2>4 DEF Loader
  <2>. QED BY <2>1, <2>2, <2>5, CopyFails
<1>3. CASE Leave
  <2>1. loader'.delivered = loader.delivered /\ loader'.outcome = loader.outcome
    BY <1>1, <1>3 DEF Leave, Loader
  <2>. QED BY <2>1, CopyStops
<1>4. CASE CancelTransfer BY <1>1, <1>4, CopyCancels DEF CancelTransfer
<1>5. CASE Disconnect
  <2>1. PICK d : d = Failed(loader, "disconnected") OBVIOUS
  <2>2. "disconnected" \in Reasons BY DEF Reasons
  <2>3. d \in Loader BY <1>1, <2>1, <2>2, FailedEffect
  <2>4. loader' = [d EXCEPT !.phase = IF @ = "requested" THEN "ended" ELSE @]
    BY <1>5, <2>1 DEF Disconnect
  <2>5. loader'.delivered = d.delivered /\ loader'.outcome = d.outcome BY <2>3, <2>4 DEF Loader
  <2>. QED BY <2>1, <2>2, <2>5, CopyFails
<1>. QED BY <1>2, <1>3, <1>4, <1>5

(* A download implements what ContentCopy promises its reader: the bytes   *)
(* it is handed are the content's, in order and none twice, the end is     *)
(* told once, and it is told "complete" only after the last byte; whoever  *)
(* cancels, fails or disconnects meanwhile (_ClientTransfer.fail, cancel,  *)
(* _consume).                                                              *)
THEOREM TransferImplementsCopy == TransferSpec => Copied
<1>1. TransferInit => Copy!Init BY DEF TransferInit, Copy!Init, CopyOutcome
<1>2. TransferInv /\ TransferInv' /\ [TransferNext]_transferVars
         => [Copy!Next]_<<loader.delivered, CopyOutcome>>
  <2>. SUFFICES ASSUME TransferInv, TransferInv', [TransferNext]_transferVars
                PROVE  [Copy!Next]_<<loader.delivered, CopyOutcome>>
    OBVIOUS
  <2>1. CASE UNCHANGED loader BY <2>1, CopyStops
  <2>2. CASE Frames BY <2>2, CopyFrames
  <2>3. CASE Consume BY <2>3, CopyConsume
  <2>4. CASE CancelReturns \/ Leave \/ CancelTransfer \/ Disconnect BY <2>4, CopyCaller
  <2>5. Node \/ PumpFails => UNCHANGED loader
    BY DEF Node, HandleRequest, HandleCredit, HandleAck, HandleCancel, PumpChunk, PumpEnds,
           PumpFails, ServerInputEnds
  <2>. QED BY <2>1, <2>2, <2>3, <2>4, <2>5 DEF TransferNext, transferVars
<1>. QED BY <1>1, <1>2, TransferInvariant, PTL DEF TransferSpec, Copied, Copy!Spec

-----------------------------------------------------------------------------
(* Credit suffices when every read returns what was asked for.  Then every *)
(* grant is used up by one chunk: the chunks end, and the grants add up    *)
(* to, multiples of the chunk size, cut at the end of the content; and no  *)
(* two grants are on their way at once.                                    *)

Mark(n) == Least(ChunkBytes * n, TotalBytes)
Marked(c) == c.type = "chunk" => c.offset + c.bytes = Mark(c.seq)
NoCredit(frames) == \A i \in DOMAIN frames : frames[i].type # "credit"
OnlyCredit(frames, i) ==
    /\ i \in DOMAIN frames /\ frames[i].type = "credit"
    /\ \A j \in DOMAIN frames : j # i => frames[j].type # "credit"

WholeEnds ==
    /\ server.offset = Mark(Sent) /\ loader.committed = Mark(loader.consumed)
    /\ \A i \in DOMAIN toLoader : Marked(toLoader[i])
    /\ loader.phase # "ended" => \A i \in DOMAIN loader.signals : Marked(loader.signals[i])
    /\ loader.phase = "yielded" => Marked(loader.chunk)

WholeGrants ==
    /\ Given \in {Mark(loader.consumed), Mark(loader.consumed + 1)}
    /\ loader.phase \in {"requested", "opened", "acking"} => Given = Mark(loader.consumed)

WholeCredit ==
    server.phase # "closed" =>
        \/ NoCredit(toServer) /\ server.credit + server.offset = Given
        \/ /\ server.credit = 0
           /\ \E i \in DOMAIN toServer :
                 OnlyCredit(toServer, i) /\ server.offset + toServer[i].bytes = Given

Whole == WholeEnds /\ WholeGrants /\ WholeCredit /\ CreditSuffices

LEMMA Marks ==
    /\ Mark(0) = 0
    /\ \A n \in Nat : /\ Mark(n) \in Nat /\ Mark(n) <= TotalBytes /\ Mark(n) <= Mark(n + 1)
                      /\ Mark(n + 1) = Mark(n) + Least(ChunkBytes, TotalBytes - Mark(n))
    /\ \A m, n \in Nat : m <= n => Mark(m) <= Mark(n)
<1>1. ChunkBytes \in Nat \ {0} /\ TotalBytes \in Nat \ {0} BY TransferAssumption
<1>2. /\ \A n \in Nat : ChunkBytes * (n + 1) = ChunkBytes * n + ChunkBytes
      /\ \A m, n \in Nat : m <= n => ChunkBytes * m <= ChunkBytes * n
      /\ ChunkBytes * 0 = 0 /\ \A n \in Nat : ChunkBytes * n \in Nat
  BY <1>1, Steps
<1>3. Mark(0) = 0 BY <1>1, <1>2 DEF Mark, Least
<1>4. ASSUME NEW n \in Nat
      PROVE  /\ Mark(n) \in Nat /\ Mark(n) <= TotalBytes /\ Mark(n) <= Mark(n + 1)
             /\ Mark(n + 1) = Mark(n) + Least(ChunkBytes, TotalBytes - Mark(n))
  <2>. DEFINE a == ChunkBytes * n
              b == ChunkBytes * (n + 1)
  <2>1. a \in Nat /\ b = a + ChunkBytes BY <1>2
  <2>2. Mark(n) = Least(a, TotalBytes) /\ Mark(n + 1) = Least(b, TotalBytes) BY DEF Mark
  <2>. HIDE DEF a, b
  <2>. QED BY <1>1, <2>1, <2>2 DEF Least
<1>5. ASSUME NEW m \in Nat, NEW n \in Nat, m <= n PROVE Mark(m) <= Mark(n)
  <2>. DEFINE a == ChunkBytes * m
              b == ChunkBytes * n
  <2>1. a \in Nat /\ b \in Nat /\ a <= b BY <1>2, <1>5
  <2>2. Mark(m) = Least(a, TotalBytes) /\ Mark(n) = Least(b, TotalBytes) BY DEF Mark
  <2>. HIDE DEF a, b
  <2>. QED BY <1>1, <2>1, <2>2 DEF Least
<1>. QED BY <1>3, <1>4, <1>5

LEMMA MarkStep ==
    ASSUME NEW n \in Nat
    PROVE  Mark(n + 1) <= Mark(n) + ChunkBytes
<1>1. Mark(n) \in Nat /\ Mark(n) <= TotalBytes
      /\ Mark(n + 1) = Mark(n) + Least(ChunkBytes, TotalBytes - Mark(n))
  BY Marks
<1>. QED BY <1>1, TransferAssumption DEF Least

(* What follows of the numbering.                                          *)
LEMMA Order ==
    ASSUME TransferInv
    PROVE  /\ TransferTypeOK
           /\ loader.consumed \in Nat /\ Sent \in Nat /\ Given \in Nat /\ server.offset \in Nat
           /\ server.credit \in Nat /\ loader.consumed <= Sent
           /\ server.offset <= Given /\ server.offset <= TotalBytes
           /\ loader.phase \in {"requested", "opened"} => loader.consumed = 0 /\ Given = 0
<1>1. TransferTypeOK /\ Bounding BY DEF TransferInv
<1>2. PICK ends : Numbered(ends) BY DEF TransferInv
<1>3. /\ loader.consumed \in Nat /\ loader.next \in Nat /\ Sent \in Nat /\ Given \in Nat
      /\ loader.received \in Nat /\ loader.credit \in Nat
      /\ server.offset \in Nat /\ server.credit \in Nat
  BY <1>1, Fields
<1>4. loader.consumed <= loader.next - 1 /\ loader.next - 1 <= Sent
      /\ loader.received = ends[loader.next - 1]
  BY <1>2 DEF Numbered, Reading
<1>5. ASSUME loader.phase \in {"requested", "opened"} PROVE loader.consumed = 0 /\ Given = 0
  <2>1. Given = 0 BY <1>1, <1>5 DEF Bounding
  <2>2. loader.received = 0 BY <1>3, <2>1 DEF Given
  <2>3. ends[0] = 0 /\ \A m, n \in 0 .. Sent : m < n => ends[m] < ends[n]
    BY <1>2 DEF Numbered, Sending
  <2>4. PICK n : n = loader.next - 1 OBVIOUS
  <2>5. n \in Nat /\ n <= Sent /\ ends[n] = 0 /\ loader.consumed <= n
    <3>1. loader.consumed <= n /\ n <= Sent /\ n = loader.next - 1 BY <1>4, <2>4
    <3>2. n \in Nat BY <1>3, <3>1
    <3>3. ends[n] = 0 BY <1>4, <2>2, <2>4
    <3>. QED BY <3>1, <3>2, <3>3
  <2>6. 0 \in 0 .. Sent /\ n \in 0 .. Sent BY <1>3, <2>5
  <2>7. ~(0 < n)
    <3>. SUFFICES ASSUME 0 < n PROVE FALSE OBVIOUS
    <3>1. ends[0] < ends[n] BY <2>3, <2>6
    <3>2. 0 < 0 BY <2>3, <2>5, <3>1
    <3>. QED BY <3>2
  <2>. QED BY <1>3, <2>1, <2>5, <2>7
<1>. QED BY <1>1, <1>3, <1>4, <1>5 DEF Bounding

-----------------------------------------------------------------------------
(* The client's steps.                                                     *)

LEMMA CreditKept ==
    ASSUME TransferInv, WholeCredit, Given' = Given, UNCHANGED server,
           toServer' = toServer \/ \E f \in ToServerFrame :
                                      f.type # "credit" /\ toServer' = SentOn(toServer, f)
    PROVE  WholeCredit'
<1>1. CASE toServer' = toServer BY <1>1 DEF WholeCredit, NoCredit, OnlyCredit
<1>2. ASSUME NEW f \in ToServerFrame, f.type # "credit", toServer' = SentOn(toServer, f)
      PROVE  WholeCredit'
  <2>1. TransferTypeOK BY DEF TransferInv
  <2>2. /\ DOMAIN toServer = 1 .. Len(toServer)
        /\ \A i \in DOMAIN toServer' :
              \/ i \in DOMAIN toServer /\ toServer'[i] = toServer[i]
              \/ toServer'[i] = f /\ i = Len(toServer) + 1
    BY <1>2, <2>1, ToServerElements
  <2>3. \A i \in DOMAIN toServer : i \in DOMAIN toServer' /\ toServer'[i] = toServer[i]
    <3>1. toServer \in Seq(ToServerFrame) BY <2>1, Channels
    <3>. QED BY <1>2, <3>1 DEF SentOn
  <2>4. NoCredit(toServer) => NoCredit(toServer') BY <1>2, <2>2 DEF NoCredit
  <2>5. \A i \in DOMAIN toServer : OnlyCredit(toServer, i) => OnlyCredit(toServer', i)
    BY <1>2, <2>2, <2>3 DEF OnlyCredit
  <2>. QED BY <2>3, <2>4, <2>5 DEF WholeCredit
<1>. QED BY <1>1, <1>2

LEMMA UntakenWhole == ASSUME TransferInv, Whole, Untaken PROVE Whole'
<1>1. TransferTypeOK BY DEF TransferInv
<1>2. /\ UNCHANGED server /\ UNCHANGED ReaderMemory /\ loader'.credit = loader.credit
      /\ loader'.phase \in {"requested", "opened", "acking"} => loader.phase = loader'.phase
      /\ toServer' \in {toServer, SentOn(toServer, Cancel)}
  BY DEF Untaken
<1>3. /\ Given' = Given /\ loader'.consumed = loader.consumed
      /\ loader'.committed = loader.committed /\ loader'.chunk = loader.chunk
      /\ Sent' = Sent
  BY <1>2 DEF ReaderMemory, Given, Sent
<1>4. \A i \in DOMAIN toLoader' : Marked(toLoader'[i])
  <2>1. toLoader' = toLoader \/ (toLoader # <<>> /\ toLoader' = Tail(toLoader)) \/ toLoader' = <<>>
    BY DEF Untaken
  <2>. QED BY <1>1, <2>1, ToLoaderElements DEF Whole, WholeEnds
<1>5. ASSUME loader'.phase # "ended"
      PROVE  \A i \in DOMAIN loader'.signals : Marked(loader'.signals[i])
  <2>1. loader.phase # "ended"
        /\ loader'.signals \in {loader.signals, Append(loader.signals, Error)}
    BY <1>5 DEF Untaken
  <2>2. loader.signals \in Seq(Signal) BY <1>1, Fields
  <2>3. Error.type # "chunk" /\ Error \in Signal BY FrameTypes DEF Error
  <2>4. \A i \in DOMAIN loader'.signals :
           \/ i \in DOMAIN loader.signals /\ loader'.signals[i] = loader.signals[i]
           \/ loader'.signals[i] = Error
    BY <2>1, <2>2, <2>3
  <2>. QED BY <2>1, <2>3, <2>4 DEF Whole, WholeEnds, Marked
<1>6. loader'.phase = "yielded" => loader.phase = "yielded" BY DEF Untaken
<1>7. WholeEnds' BY <1>2, <1>3, <1>4, <1>5, <1>6 DEF Whole, WholeEnds, Marked, Mark
<1>8. WholeGrants' BY <1>2, <1>3 DEF Whole, WholeGrants, Mark
<1>9. WholeCredit' 
  <2>1. Cancel.type # "credit" /\ Cancel \in ToServerFrame BY FrameTypes DEF Cancel
  <2>. QED BY <1>2, <1>3, <2>1, CreditKept DEF Whole
<1>. QED BY <1>2, <1>7, <1>8, <1>9 DEF Whole, CreditSuffices

LEMMA AcceptResponseWhole ==
    ASSUME TransferInv, Whole, AcceptResponse PROVE Whole'
<1>1. TransferTypeOK /\ loader \in Loader /\ Opening BY DEF TransferInv, TransferTypeOK
<1>2. UNCHANGED <<server, toServer>> /\ toLoader # <<>> /\ toLoader' = Tail(toLoader)
      /\ Head(toLoader).type \in {"open", "rejected"}
  BY DEF AcceptResponse, Arrives
<1>3. /\ loader'.received = loader.received /\ loader'.credit = loader.credit
      /\ loader'.consumed = loader.consumed /\ loader'.committed = loader.committed
      /\ loader'.signals = loader.signals
      /\ loader'.phase \in {"opened", "ended"}
  BY <1>1 DEF AcceptResponse, Loader
<1>4. loader.phase = "requested" BY <1>1, <1>2, ToLoaderElements DEF Opening
<1>5. Given' = Given /\ Sent' = Sent BY <1>2, <1>3 DEF Given, Sent
<1>6. \A i \in DOMAIN toLoader' : Marked(toLoader'[i])
  BY <1>1, <1>2, ToLoaderElements DEF Whole, WholeEnds
<1>7. WholeEnds' BY <1>2, <1>3, <1>4, <1>5, <1>6 DEF Whole, WholeEnds, Mark, Marked
<1>8. WholeGrants' BY <1>3, <1>4, <1>5 DEF Whole, WholeGrants, Mark
<1>9. WholeCredit' BY <1>2, <1>5, CreditKept DEF Whole
<1>. QED BY <1>2, <1>7, <1>8, <1>9 DEF Whole, CreditSuffices

(* A frame is taken from the channel, and perhaps put into _signals.       *)
LEMMA FrameWhole ==
    ASSUME TransferInv, Whole, UNCHANGED <<server, toServer>>, toLoader # <<>>,
           toLoader' = Tail(toLoader), Given' = Given,
           loader'.consumed = loader.consumed, loader'.committed = loader.committed,
           loader'.chunk = loader.chunk, loader'.phase = loader.phase,
           \/ loader'.signals = loader.signals
           \/ \E f \in Signal : Marked(f) /\ loader'.signals = Append(loader.signals, f)
    PROVE  Whole'
<1>1. TransferTypeOK BY DEF TransferInv
<1>2. \A i \in DOMAIN toLoader' : Marked(toLoader'[i])
  BY <1>1, ToLoaderElements DEF Whole, WholeEnds
<1>3. loader.phase # "ended" => \A i \in DOMAIN loader'.signals : Marked(loader'.signals[i])
  <2>1. loader.phase # "ended" => \A i \in DOMAIN loader.signals : Marked(loader.signals[i])
    BY DEF Whole, WholeEnds
  <2>2. ASSUME NEW f \in Signal, Marked(f), loader'.signals = Append(loader.signals, f)
        PROVE  \A i \in DOMAIN loader'.signals :
                  \/ i \in DOMAIN loader.signals /\ loader'.signals[i] = loader.signals[i]
                  \/ loader'.signals[i] = f
    <3>1. loader.signals \in Seq(Signal) BY <1>1, Fields
    <3>. QED BY <2>2, <3>1
  <2>. QED BY <2>1, <2>2
<1>4. Sent' = Sent BY DEF Sent
<1>5. WholeEnds' BY <1>2, <1>3, <1>4 DEF Whole, WholeEnds, Mark, Marked
<1>6. WholeGrants' BY DEF Whole, WholeGrants, Mark
<1>7. WholeCredit' BY CreditKept DEF Whole
<1>. QED BY <1>5, <1>6, <1>7 DEF Whole, CreditSuffices

LEMMA AcceptChunkWhole == ASSUME TransferInv, Whole, AcceptChunk PROVE Whole'
<1>. DEFINE f == Head(toLoader)
<1>1. TransferTypeOK /\ loader \in Loader BY DEF TransferInv, TransferTypeOK
<1>2. PICK ends : Numbered(ends) BY DEF TransferInv
<1>3. /\ toLoader # <<>> /\ toLoader' = Tail(toLoader) /\ UNCHANGED server /\ Arrives("chunk")
      /\ f = toLoader[1] /\ 1 \in DOMAIN toLoader
  BY Arrived DEF AcceptChunk
<1>4. Marked(f) BY <1>3 DEF Whole, WholeEnds
<1>5. CASE loader.terminal
  <2>1. UNCHANGED <<loader, toServer>> BY <1>5 DEF AcceptChunk
  <2>2. Given' = Given BY <2>1 DEF Given
  <2>. QED BY <1>3, <2>1, <2>2, FrameWhole
<1>6. CASE ~loader.terminal
  <2>1. f \in DataFrame /\ ChunkExpected(f) BY <1>2, <1>3, <1>6, ChunkIsExpected
  <2>2. /\ loader' = [loader EXCEPT !.next = @ + 1, !.received = @ + f.bytes,
                                    !.credit = @ - f.bytes, !.signals = Append(@, f)]
        /\ UNCHANGED toServer
    BY <1>6, <2>1 DEF AcceptChunk
  <2>. HIDE DEF f
  <2>3. /\ loader'.received = loader.received + f.bytes
        /\ loader'.credit = loader.credit - f.bytes
        /\ loader'.signals = Append(loader.signals, f)
        /\ loader'.committed = loader.committed /\ loader'.consumed = loader.consumed
        /\ loader'.chunk = loader.chunk /\ loader'.phase = loader.phase
    BY <1>1, <2>2 DEF Loader
  <2>4. /\ f.bytes \in Nat /\ f \in Signal /\ loader.received \in Nat /\ loader.credit \in Nat
    BY <1>1, <2>1, ByType, FrameTypes, Fields
  <2>5. Given' = Given BY <2>3, <2>4 DEF Given
  <2>. QED BY <1>3, <1>4, <2>2, <2>3, <2>4, <2>5, FrameWhole
<1>. QED BY <1>5, <1>6

LEMMA AcceptEndWhole == ASSUME TransferInv, Whole, AcceptEnd PROVE Whole'
<1>1. loader \in Loader BY DEF TransferInv, TransferTypeOK
<1>2. /\ toLoader # <<>> /\ toLoader' = Tail(toLoader) /\ UNCHANGED <<server, toServer>>
  BY DEF AcceptEnd, Arrives
<1>3. Marked(Complete) /\ Marked(Error) /\ Complete \in Signal /\ Error \in Signal
  BY FrameTypes DEF Marked, Complete, Error
<1>4. CASE loader' = loader
  <2>1. Given' = Given BY <1>4 DEF Given
  <2>. QED BY <1>2, <1>4, <2>1, FrameWhole
<1>5. CASE loader' = [loader EXCEPT !.signals = Append(@, Complete)]
  <2>1. /\ loader'.received = loader.received /\ loader'.credit = loader.credit
        /\ loader'.signals = Append(loader.signals, Complete)
        /\ loader'.committed = loader.committed /\ loader'.consumed = loader.consumed
        /\ loader'.chunk = loader.chunk /\ loader'.phase = loader.phase
    BY <1>1, <1>5 DEF Loader
  <2>2. Given' = Given BY <2>1 DEF Given
  <2>. QED BY <1>2, <1>3, <2>1, <2>2, FrameWhole
<1>6. CASE loader' = Failed(loader, "aborted")
  <2>1. "aborted" \in Reasons BY DEF Reasons
  <2>2. /\ loader'.received = loader.received /\ loader'.credit = loader.credit
        /\ loader'.committed = loader.committed /\ loader'.consumed = loader.consumed
        /\ loader'.chunk = loader.chunk /\ loader'.phase = loader.phase
        /\ \/ loader'.signals = loader.signals
           \/ loader'.signals = Append(loader.signals, Error)
    BY <1>1, <1>6, <2>1, FailedEffect
  <2>3. Given' = Given BY <2>2 DEF Given
  <2>. QED BY <1>2, <1>3, <2>2, <2>3, FrameWhole
<1>. QED BY <1>4, <1>5, <1>6 DEF AcceptEnd

LEMMA TakeChunkWhole ==
    ASSUME TransferInv, Whole, loader.phase = "waiting", loader.signals # <<>>,
           loader' = [[loader EXCEPT !.signals = Tail(@)] EXCEPT
                         !.phase = "yielded", !.chunk = Head(loader.signals),
                         !.delivered = @ + Head(loader.signals).bytes],
           UNCHANGED <<server, toServer, toLoader>>
    PROVE  Whole'
<1>1. TransferTypeOK /\ loader \in Loader BY DEF TransferInv, TransferTypeOK
<1>2. /\ loader'.received = loader.received /\ loader'.credit = loader.credit
      /\ loader'.committed = loader.committed /\ loader'.consumed = loader.consumed
      /\ loader'.chunk = Head(loader.signals) /\ loader'.phase = "yielded"
      /\ loader'.signals = Tail(loader.signals)
  BY <1>1 DEF Loader
<1>3. \A i \in DOMAIN loader.signals : Marked(loader.signals[i]) BY DEF Whole, WholeEnds
<1>4. /\ Marked(Head(loader.signals))
      /\ \A i \in DOMAIN Tail(loader.signals) : Marked(Tail(loader.signals)[i])
  <2>1. loader.signals \in Seq(Signal) BY <1>1, Fields
  <2>2. 1 \in DOMAIN loader.signals /\ Head(loader.signals) = loader.signals[1] BY <2>1
  <2>3. \A i \in DOMAIN Tail(loader.signals) :
           i + 1 \in DOMAIN loader.signals /\ Tail(loader.signals)[i] = loader.signals[i + 1]
    BY <2>1
  <2>. QED BY <1>3, <2>2, <2>3
<1>5. Given' = Given /\ Sent' = Sent BY <1>2 DEF Given, Sent
<1>6. WholeEnds' BY <1>2, <1>4, <1>5 DEF Whole, WholeEnds, Mark, Marked
<1>7. WholeGrants' BY <1>2, <1>5 DEF Whole, WholeGrants, Mark
<1>8. WholeCredit' BY <1>5, CreditKept DEF Whole
<1>. QED BY <1>6, <1>7, <1>8 DEF Whole, CreditSuffices

LEMMA TakeSignalWhole == ASSUME TransferInv, TransferTypeOK', Whole, TakeSignal PROVE Whole'
<1>1. TransferTypeOK /\ loader \in Loader BY DEF TransferInv, TransferTypeOK
<1>2. /\ loader.phase = "waiting" /\ loader.signals # <<>>
      /\ UNCHANGED <<server, toLoader, connected>>
  BY DEF TakeSignal
<1>3. CASE Untaken BY <1>3, UntakenWhole
<1>4. CASE /\ loader' = [[loader EXCEPT !.signals = Tail(@)] EXCEPT
                         !.phase = "yielded", !.chunk = Head(loader.signals),
                         !.delivered = @ + Head(loader.signals).bytes]
           /\ UNCHANGED toServer
  BY <1>2, <1>4, TakeChunkWhole
<1>. QED BY <1>3, <1>4, TakeSignalCases

LEMMA GrantWhole ==
    ASSUME TransferInv, Whole, NEW n, n = Least(ChunkBytes, TotalBytes - loader.committed),
           loader.committed < TotalBytes, Grant(loader, n),
           loader.phase \in {"opened", "acking"}, UNCHANGED <<server, toLoader, connected>>
    PROVE  Whole'
<1>1. TransferTypeOK /\ Ending /\ loader \in Loader BY DEF TransferInv, TransferTypeOK
<1>2. CASE loader.terminal
  <2>1. loader' = [loader EXCEPT !.phase = "ended"] /\ UNCHANGED toServer BY <1>2 DEF Grant
  <2>2. /\ loader'.phase = "ended" /\ UNCHANGED ReaderMemory /\ loader'.credit = loader.credit
        /\ loader'.signals = loader.signals /\ loader'.terminal = loader.terminal
        /\ loader'.outcome = loader.outcome
    BY <1>1, <2>1 DEF ReaderMemory, Loader
  <2>3. Untaken BY <2>1, <2>2 DEF Untaken
  <2>. QED BY <2>3, UntakenWhole
<1>3. CASE ~loader.terminal
  <2>1. /\ loader' = [loader EXCEPT !.phase = "granting", !.credit = @ + n]
        /\ toServer' = Append(toServer, Credit(n))
    BY <1>1, <1>3 DEF Grant, SentOn, Ending
  <2>2. /\ loader'.phase = "granting" /\ loader'.credit = loader.credit + n
        /\ loader'.received = loader.received /\ loader'.consumed = loader.consumed
        /\ loader'.committed = loader.committed /\ loader'.signals = loader.signals
    BY <1>1, <2>1 DEF Loader
  <2>3. PICK c : c = loader.consumed OBVIOUS
  <2>4. /\ c \in Nat /\ Sent \in Nat /\ Given \in Nat /\ server.offset \in Nat
        /\ server.credit \in Nat /\ c <= Sent /\ server.offset <= Given
    BY <2>3, Order
  <2>5. Given = Mark(c) /\ loader.committed = Mark(c) /\ server.offset = Mark(Sent)
    BY <2>3 DEF Whole, WholeGrants, WholeEnds
  <2>6. n \in Nat \ {0} /\ Mark(c + 1) = Mark(c) + n
    <3>1. Mark(c) \in Nat /\ Mark(c + 1) = Mark(c) + Least(ChunkBytes, TotalBytes - Mark(c))
      BY <2>4, Marks
    <3>2. n = Least(ChunkBytes, TotalBytes - Mark(c)) BY <2>5
    <3>3. n \in Nat \ {0} BY <2>5, <3>1, <3>2, TransferAssumption DEF Least
    <3>. QED BY <3>1, <3>2, <3>3
  <2>7. Given' = Mark(c + 1)
    <3>1. loader.received \in Nat /\ loader.credit \in Nat BY <1>1, Fields
    <3>2. Given' = Given + n BY <2>2, <2>6, <3>1 DEF Given
    <3>. QED BY <2>5, <2>6, <3>2
  <2>8. server.offset = Given
    <3>1. Mark(c) <= Mark(Sent) BY <2>4, Marks
    <3>. QED BY <2>4, <2>5, <3>1
  <2>9. WholeGrants' BY <2>2, <2>3, <2>7 DEF WholeGrants, Mark
  <2>10. WholeEnds'
    BY <2>2 DEF Whole, WholeEnds, Sent, Mark, Marked
  <2>11. WholeCredit'
    <3>. SUFFICES ASSUME server.phase # "closed"
                  PROVE  /\ server.credit = 0
                         /\ \E i \in DOMAIN toServer' :
                               /\ OnlyCredit(toServer', i)
                               /\ server.offset + toServer'[i].bytes = Given'
      BY DEF WholeCredit
    <3>1. \A i \in DOMAIN toServer :
             /\ toServer[i] \in ToServerFrame
             /\ toServer[i].type = "credit" => toServer[i].bytes \in Nat \ {0}
      BY <1>1, ByType DEF TransferTypeOK
    <3>2. NoCredit(toServer) /\ server.credit + server.offset = Given
      <4>. SUFFICES ASSUME NEW i \in DOMAIN toServer, OnlyCredit(toServer, i),
                           server.offset + toServer[i].bytes = Given
                    PROVE  FALSE
        BY DEF Whole, WholeCredit
      <4>1. toServer[i].bytes \in Nat \ {0} BY <3>1 DEF OnlyCredit
      <4>. QED BY <2>4, <2>8, <4>1
    <3>3. server.credit = 0 BY <2>4, <2>8, <3>2
    <3>4. PICK k : k = Len(toServer) + 1 OBVIOUS
    <3>5. /\ k \in DOMAIN toServer' /\ toServer'[k] = Credit(n)
          /\ \A j \in DOMAIN toServer' :
                j # k => j \in DOMAIN toServer /\ toServer'[j] = toServer[j]
      <4>1. toServer \in Seq(ToServerFrame) BY <1>1, Channels
      <4>. QED BY <2>1, <3>4, <4>1
    <3>6. Credit(n).type = "credit" /\ Credit(n).bytes = n BY DEF Credit
    <3>7. OnlyCredit(toServer', k) BY <3>2, <3>5, <3>6 DEF OnlyCredit, NoCredit
    <3>8. server.offset + toServer'[k].bytes = Given'
      BY <2>4, <2>5, <2>6, <2>7, <2>8, <3>5, <3>6
    <3>. QED BY <3>3, <3>5, <3>7, <3>8
  <2>. QED BY <2>9, <2>10, <2>11 DEF Whole, CreditSuffices
<1>. QED BY <1>2, <1>3

LEMMA ListenWhole == ASSUME TransferInv, Whole, Listen PROVE Whole'
<1>1. loader.phase = "opened" /\ UNCHANGED <<server, toLoader, connected>> BY DEF Listen
<1>2. loader.consumed = 0 BY <1>1, Order
<1>3. loader.committed = 0 BY <1>2, Marks DEF Whole, WholeEnds
<1>4. TotalBytes - loader.committed = TotalBytes /\ loader.committed < TotalBytes
  BY <1>3, TransferAssumption
<1>5. Grant(loader, Least(ChunkBytes, TotalBytes - loader.committed)) BY <1>4 DEF Listen
<1>. QED BY <1>1, <1>4, <1>5, GrantWhole

LEMMA AckReturnsWhole == ASSUME TransferInv, Whole, AckReturns PROVE Whole'
<1>1. loader \in Loader BY DEF TransferInv, TransferTypeOK
<1>2. loader.phase = "acking" /\ UNCHANGED <<server, toLoader, connected>> BY DEF AckReturns
<1>3. CASE loader.committed < TotalBytes BY <1>2, <1>3, GrantWhole DEF AckReturns
<1>4. CASE ~(loader.committed < TotalBytes)
  <2>1. loader' = [loader EXCEPT !.phase = "waiting"] /\ UNCHANGED toServer
    BY <1>4 DEF AckReturns
  <2>2. /\ loader'.phase = "waiting" /\ UNCHANGED ReaderMemory /\ loader'.credit = loader.credit
        /\ loader'.signals = loader.signals /\ loader'.terminal = loader.terminal
        /\ loader'.outcome = loader.outcome
    BY <1>1, <2>1 DEF ReaderMemory, Loader
  <2>3. Untaken BY <1>2, <2>1, <2>2 DEF Untaken
  <2>. QED BY <2>3, UntakenWhole
<1>. QED BY <1>3, <1>4

LEMMA AckTakenWhole == ASSUME TransferInv, TransferTypeOK', Whole, AckTaken PROVE Whole'
<1>1. TransferTypeOK /\ loader \in Loader BY DEF TransferInv, TransferTypeOK
<1>2. PICK ends : Numbered(ends) BY DEF TransferInv
<1>3. loader.phase = "yielded" /\ UNCHANGED <<server, toLoader, connected>> BY DEF AckTaken
<1>4. PICK c : c = [loader EXCEPT !.committed = @ + loader.chunk.bytes,
                                  !.consumed = loader.chunk.seq]
  OBVIOUS
<1>5. PICK f : f = Ack(c.consumed, c.committed) OBVIOUS
<1>6. \/ loader' = [c EXCEPT !.phase = "acking"] /\ toServer' = SentOn(toServer, f)
      \/ loader' = [c EXCEPT !.phase = "ended"] /\ toServer' = toServer
  BY <1>4, <1>5 DEF AckTaken, AckOf
<1>7. DOMAIN c = DOMAIN loader /\ DOMAIN loader = {"phase", "next", "received", "credit",
           "signals", "chunk", "committed", "consumed", "delivered", "terminal", "cancelSent",
           "cancelling", "leaving", "outcome"}
  BY <1>1, <1>4 DEF Loader
<1>8. /\ c.received = loader.received /\ c.credit = loader.credit
      /\ c.signals = loader.signals
      /\ c.committed = loader.committed + loader.chunk.bytes /\ c.consumed = loader.chunk.seq
  BY <1>4, <1>7
<1>9. /\ loader'.received = c.received /\ loader'.credit = c.credit
      /\ loader'.signals = c.signals /\ loader'.committed = c.committed
      /\ loader'.consumed = c.consumed /\ loader'.phase \in {"acking", "ended"}
  BY <1>6, <1>7
<1>10. /\ Agrees(ends, loader.chunk) /\ loader.chunk.seq = loader.consumed + 1
       /\ loader.committed = ends[loader.consumed]
  BY <1>2, <1>3 DEF Numbered, Reading
<1>11. loader.consumed \in Nat BY <1>1, Fields
<1>12. loader.chunk.offset = loader.committed
  <2>1. (loader.consumed + 1) - 1 = loader.consumed BY <1>11
  <2>. QED BY <1>10, <2>1 DEF Agrees
<1>13. loader.chunk \in DataFrame /\ Marked(loader.chunk)
  BY <1>1, <1>3 DEF TransferTypeOK, Whole, WholeEnds
<1>14. loader'.committed = Mark(loader.consumed + 1) /\ loader'.consumed = loader.consumed + 1
  <2>1. loader.chunk.offset + loader.chunk.bytes = Mark(loader.chunk.seq)
    BY <1>13, ByType DEF Marked
  <2>. QED BY <1>8, <1>9, <1>10, <1>12, <2>1
<1>15. Given' = Given /\ Sent' = Sent BY <1>3, <1>8, <1>9 DEF Given, Sent
<1>16. WholeEnds' BY <1>3, <1>8, <1>9, <1>14, <1>15 DEF Whole, WholeEnds, Mark, Marked
<1>17. WholeGrants'
  <2>1. Given = Mark(loader.consumed + 1)
    <3>1. /\ Sent \in Nat /\ Given \in Nat /\ server.offset \in Nat /\ server.offset <= Given
          /\ Given \in {Mark(loader.consumed), Mark(loader.consumed + 1)}
          /\ server.offset = Mark(Sent)
      BY Order DEF Whole, WholeEnds, WholeGrants
    <3>2. loader.consumed + 1 <= Sent /\ loader.consumed + 1 \in Nat
      BY <1>10, <1>11, <3>1 DEF Agrees
    <3>3. /\ Mark(loader.consumed + 1) <= Mark(Sent) /\ Mark(loader.consumed + 1) \in Nat
          /\ Mark(loader.consumed) <= Mark(loader.consumed + 1) /\ Mark(loader.consumed) \in Nat
      BY <1>11, <3>1, <3>2, Marks
    <3>. QED BY <3>1, <3>3
  <2>. QED BY <1>9, <1>14, <1>15, <2>1 DEF WholeGrants, Mark
<1>18. WholeCredit'
  <2>1. ASSUME toServer' = SentOn(toServer, f) PROVE f \in ToServerFrame /\ f.type # "credit"
    <3>1. c.consumed \in Nat \ {0} /\ c.committed \in Nat \ {0}
      <4>1. loader.chunk.seq \in Nat \ {0} /\ loader.chunk.bytes \in Nat \ {0} BY <1>13, ByType
      <4>2. loader.committed \in Nat BY <1>1, Fields
      <4>. QED BY <1>8, <4>1, <4>2
    <3>. QED BY <1>5, <3>1, FrameTypes DEF Ack
  <2>. QED BY <1>3, <1>6, <1>15, <2>1, CreditKept DEF Whole
<1>. QED BY <1>3, <1>16, <1>17, <1>18 DEF Whole, CreditSuffices

-----------------------------------------------------------------------------
(* The Node's steps.                                                       *)

LEMMA NodeWhole ==
    ASSUME Whole, UNCHANGED loader, server'.offset = Mark(Sent'),
           \A i \in DOMAIN toLoader' : Marked(toLoader'[i]),
           WholeCredit', server'.ended # "exhausted"
    PROVE  Whole'
<1>1. WholeEnds' BY DEF Whole, WholeEnds, Mark, Marked
<1>2. WholeGrants' BY DEF Whole, WholeGrants, Given, Mark
<1>. QED BY <1>1, <1>2 DEF Whole, CreditSuffices

LEMMA MarkedSent ==
    ASSUME TransferTypeOK, WholeEnds, NEW f \in ToLoaderFrame, Marked(f)
    PROVE  /\ \A i \in DOMAIN toLoader : Marked(toLoader[i])
           /\ \A i \in DOMAIN SentOn(toLoader, f) : Marked(SentOn(toLoader, f)[i])
  BY ToLoaderElements DEF WholeEnds

LEMMA EndsMarked ==
    /\ Marked(Open) /\ Marked(Rejected) /\ Marked(Complete) /\ Marked(Abort)
    /\ Open \in ToLoaderFrame /\ Rejected \in ToLoaderFrame /\ Complete \in ToLoaderFrame
    /\ Abort \in ToLoaderFrame
  BY FrameTypes DEF Marked, Open, Rejected, Complete, Abort

LEMMA TurnWhole ==
    ASSUME TransferInv, WholeCredit, UNCHANGED loader, toServer # <<>>,
           toServer' = Tail(toServer), Head(toServer).type # "credit",
           server'.credit = server.credit, server'.offset = server.offset,
           server'.phase # "closed" => server.phase # "closed"
    PROVE  WholeCredit'
<1>1. TransferTypeOK /\ Given' = Given BY DEF TransferInv, Given
<1>2. /\ \A i \in DOMAIN toServer' : i + 1 \in DOMAIN toServer /\ toServer'[i] = toServer[i + 1]
      /\ DOMAIN toServer' = 1 .. Len(toServer) - 1 /\ DOMAIN toServer = 1 .. Len(toServer)
      /\ toServer[1].type # "credit" /\ Len(toServer) \in Nat
  BY <1>1, ToServerElements
<1>3. NoCredit(toServer) => NoCredit(toServer') BY <1>2 DEF NoCredit
<1>4. ASSUME NEW i \in DOMAIN toServer, OnlyCredit(toServer, i)
      PROVE  i - 1 \in DOMAIN toServer' /\ OnlyCredit(toServer', i - 1)
             /\ toServer'[i - 1] = toServer[i]
  <2>1. i # 1 BY <1>2, <1>4 DEF OnlyCredit
  <2>2. i - 1 \in DOMAIN toServer' /\ (i - 1) + 1 = i BY <1>2, <2>1
  <2>3. toServer'[i - 1] = toServer[i] BY <1>2, <2>2
  <2>4. ASSUME NEW j \in DOMAIN toServer', j # i - 1 PROVE toServer'[j].type # "credit"
    <3>1. j + 1 \in DOMAIN toServer /\ toServer'[j] = toServer[j + 1] BY <1>2
    <3>2. j + 1 # i BY <1>2, <2>4
    <3>. QED BY <1>4, <3>1, <3>2 DEF OnlyCredit
  <2>. QED BY <1>4, <2>2, <2>3, <2>4 DEF OnlyCredit
<1>. QED BY <1>1, <1>3, <1>4 DEF WholeCredit

LEMMA HandleRequestWhole == ASSUME TransferInv, Whole, HandleRequest PROVE Whole'
<1>1. TransferTypeOK /\ server \in Server /\ Opening /\ Ending
  BY DEF TransferInv, TransferTypeOK
<1>2. /\ toServer # <<>> /\ toServer' = Tail(toServer) /\ UNCHANGED loader
      /\ Head(toServer).type = "request"
  BY DEF HandleRequest, Receives
<1>3. /\ server'.credit = server.credit /\ server'.offset = server.offset
      /\ server'.acked = server.acked /\ server'.outstanding = server.outstanding
      /\ \/ server'.ended = server.ended /\ toLoader' = SentOn(toLoader, Open)
         \/ server'.ended = "rejected" /\ toLoader' = SentOn(toLoader, Rejected)
  BY <1>1 DEF HandleRequest, Server
<1>4. server.phase = "none" BY <1>1, <1>2, ToServerElements DEF Opening
<1>5. WholeCredit' BY <1>2, <1>3, <1>4, TurnWhole DEF Whole
<1>6. \A i \in DOMAIN toLoader' : Marked(toLoader'[i])
  BY <1>1, <1>3, MarkedSent, EndsMarked DEF Whole
<1>7. server'.offset = Mark(Sent') BY <1>3 DEF Whole, WholeEnds, Sent
<1>8. server'.ended # "exhausted" BY <1>3 DEF Whole, CreditSuffices
<1>. QED BY <1>2, <1>5, <1>6, <1>7, <1>8, NodeWhole

(* A step that ends the transfer. *)
LEMMA AbortWhole ==
    ASSUME TransferInv, Whole, UNCHANGED loader, NEW reason, reason # "exhausted",
           AbortTransfer(reason)
    PROVE  Whole'
<1>1. TransferTypeOK BY DEF TransferInv
<1>2. /\ UNCHANGED ServerMemory /\ server'.phase = "closed" /\ server'.ended = reason
      /\ toLoader' = SentOn(toLoader, Abort)
  BY <1>1, AbortEffect
<1>3. WholeCredit' BY <1>2 DEF WholeCredit
<1>4. \A i \in DOMAIN toLoader' : Marked(toLoader'[i])
  BY <1>1, <1>2, MarkedSent, EndsMarked DEF Whole
<1>5. server'.offset = Mark(Sent') BY <1>2 DEF Whole, WholeEnds, Sent, ServerMemory
<1>. QED BY <1>2, <1>3, <1>4, <1>5, NodeWhole

(* A frame that a closed transfer ignores. *)
LEMMA IgnoredWhole ==
    ASSUME TransferInv, Whole, UNCHANGED <<loader, server, toLoader>>, server.phase = "closed"
    PROVE  Whole'
<1>1. WholeCredit' BY DEF WholeCredit
<1>2. server'.offset = Mark(Sent') BY DEF Whole, WholeEnds, Sent
<1>. QED BY <1>1, <1>2, NodeWhole DEF Whole, WholeEnds, CreditSuffices

LEMMA HandleCreditWhole == ASSUME TransferInv, Whole, HandleCredit PROVE Whole'
<1>. DEFINE f == Head(toServer)
<1>1. TransferTypeOK /\ server \in Server BY DEF TransferInv, TransferTypeOK
<1>2. /\ toServer # <<>> /\ toServer' = Tail(toServer) /\ UNCHANGED loader
      /\ f.type = "credit" /\ f \in ToServerFrame /\ f = toServer[1] /\ 1 \in DOMAIN toServer
  BY Received DEF HandleCredit
<1>3. CASE server.phase = "closed"
  <2>1. UNCHANGED <<server, toLoader>> BY <1>3 DEF HandleCredit
  <2>. QED BY <1>2, <1>3, <2>1, IgnoredWhole
<1>4. CASE server.phase # "closed"
  <2>1. f.bytes \in Nat \ {0} BY <1>2, ByType
  <2>2. PICK c : c = loader.consumed OBVIOUS
  <2>3. /\ c \in Nat /\ Sent \in Nat /\ Given \in Nat /\ server.offset \in Nat
        /\ server.credit \in Nat /\ c <= Sent
    BY <2>2, Order
  <2>4. /\ server.credit = 0 /\ server.offset + f.bytes = Given
        /\ \A j \in DOMAIN toServer : j # 1 => toServer[j].type # "credit"
    <3>1. PICK i \in DOMAIN toServer :
             OnlyCredit(toServer, i) /\ server.offset + toServer[i].bytes = Given
             /\ server.credit = 0
      BY <1>2, <1>4 DEF Whole, WholeCredit, NoCredit
    <3>2. i = 1 BY <1>2, <3>1 DEF OnlyCredit
    <3>. QED BY <1>2, <3>1, <3>2 DEF OnlyCredit
  <2>. HIDE DEF f
  <2>5. f.bytes <= ChunkBytes
    <3>1. server.offset = Mark(Sent) /\ Given \in {Mark(c), Mark(c + 1)}
      BY <2>2 DEF Whole, WholeEnds, WholeGrants
    <3>2. c + 1 \in Nat /\ Sent + 1 \in Nat /\ c + 1 <= Sent + 1 /\ c <= Sent + 1 BY <2>3
    <3>3. Mark(c) <= Mark(Sent + 1) /\ Mark(c + 1) <= Mark(Sent + 1)
          /\ Mark(Sent + 1) <= Mark(Sent) + ChunkBytes
          /\ Mark(c) \in Nat /\ Mark(c + 1) \in Nat /\ Mark(Sent) \in Nat /\ Mark(Sent + 1) \in Nat
      BY <2>3, <3>2, Marks, MarkStep
    <3>. QED BY <2>1, <2>3, <2>4, <3>1, <3>3, TransferAssumption
  <2>6. server.credit + f.bytes = f.bytes /\ ~(f.bytes > MaxCredit) /\ f.bytes # 0
    BY <2>1, <2>4, <2>5, TransferAssumption
  <2>7. /\ server' = [server EXCEPT !.credit = f.bytes, !.phase = "pumping"]
        /\ UNCHANGED toLoader
    BY <1>4, <2>6 DEF HandleCredit, f
  <2>8. /\ server'.credit = f.bytes /\ server'.offset = server.offset
        /\ server'.acked = server.acked /\ server'.outstanding = server.outstanding
        /\ server'.ended = server.ended
    BY <1>1, <2>7 DEF Server
  <2>9. NoCredit(toServer')
    <3>1. \A i \in DOMAIN toServer' :
             i + 1 \in DOMAIN toServer /\ toServer'[i] = toServer[i + 1] /\ i + 1 # 1
      BY <1>1, <1>2, ToServerElements
    <3>. QED BY <2>4, <3>1 DEF NoCredit
  <2>10. WholeCredit'
    <3>1. server'.credit + server'.offset = Given' /\ Given' = Given
      BY <1>2, <2>1, <2>3, <2>4, <2>8 DEF Given
    <3>. QED BY <2>9, <3>1 DEF WholeCredit
  <2>11. server'.offset = Mark(Sent') BY <2>8 DEF Whole, WholeEnds, Sent
  <2>. QED BY <1>2, <2>7, <2>8, <2>10, <2>11, NodeWhole DEF Whole, WholeEnds, CreditSuffices
<1>. QED BY <1>3, <1>4

LEMMA HandleAckWhole == ASSUME TransferInv, Whole, HandleAck PROVE Whole'
<1>. DEFINE ack == Head(toServer)
            gone == ack.seq - server.acked
            len == Len(server.outstanding)
<1>1. TransferTypeOK /\ server \in Server BY DEF TransferInv, TransferTypeOK
<1>2. PICK ends : Numbered(ends) BY DEF TransferInv
<1>3. /\ toServer # <<>> /\ toServer' = Tail(toServer) /\ UNCHANGED loader /\ ack.type = "ack"
      /\ Receives("ack")
  BY Received DEF HandleAck
<1>4. CASE server.phase = "closed"
  <2>1. UNCHANGED <<server, toLoader>> BY <1>4 DEF HandleAck
  <2>. QED BY <1>3, <1>4, <2>1, IgnoredWhole
<1>5. CASE server.phase # "closed"
  <2>1. ack.seq \in server.acked + 1 .. Sent /\ AckValid(ack) BY <1>2, <1>3, AckIsValid
  <2>2. /\ server.acked \in Nat /\ Sent \in Nat /\ server.outstanding \in Seq(Nat)
        /\ len \in Nat
    BY <1>1, Fields
  <2>3. gone \in 1 .. len /\ ack.seq = server.acked + gone BY <2>1, <2>2 DEF Sent
  <2>4. /\ server'.acked = ack.seq /\ server'.offset = server.offset
        /\ server'.outstanding = SubSeq(server.outstanding, gone + 1, len)
        /\ server'.credit = server.credit
        /\ \/ server'.ended = "complete" /\ toLoader' = SentOn(toLoader, Complete)
           \/ server'.ended = server.ended /\ UNCHANGED toLoader
    BY <1>1, <1>5, <2>1 DEF HandleAck, Acknowledged, Server
  <2>5. Sent' = Sent
    <3>1. Len(SubSeq(server.outstanding, gone + 1, len)) = len - gone BY <2>2, <2>3, Rest
    <3>. QED BY <2>2, <2>3, <2>4, <3>1 DEF Sent
  <2>6. WholeCredit' BY <1>3, <1>5, <2>4, TurnWhole DEF Whole
  <2>7. \A i \in DOMAIN toLoader' : Marked(toLoader'[i])
    BY <1>1, <2>4, MarkedSent, EndsMarked DEF Whole
  <2>8. server'.offset = Mark(Sent') BY <2>4, <2>5 DEF Whole, WholeEnds
  <2>9. server'.ended # "exhausted" BY <2>4 DEF Whole, CreditSuffices
  <2>. QED BY <1>3, <2>6, <2>7, <2>8, <2>9, NodeWhole
<1>. QED BY <1>4, <1>5

LEMMA PumpChunkWhole ==
    ASSUME TransferInv, Whole, PumpChunk, server'.offset = server.offset + Requested
    PROVE  Whole'
<1>1. TransferTypeOK BY DEF TransferInv
<1>2. PICK n \in 1 .. ChunkBytes :
              /\ n <= server.credit /\ n <= Requested /\ server.offset + n <= TotalBytes
              /\ Len(server.outstanding) < MaxOutstanding
              /\ toLoader' = SentOn(toLoader, Chunk(Sent + 1, server.offset, n))
              /\ Chunk(Sent + 1, server.offset, n) \in DataFrame
              /\ server'.outstanding = Append(server.outstanding, server.offset + n)
              /\ server'.offset = server.offset + n /\ server'.credit = server.credit - n
              /\ server'.phase = "pumping" /\ server'.ended = server.ended
              /\ server'.acked = server.acked /\ server'.committed = server.committed
  BY <1>1, PumpChunkEffect
<1>3. /\ UNCHANGED <<loader, toServer>> /\ server.phase = "pumping"
      /\ server.credit > 0 /\ server.offset < TotalBytes
  BY DEF PumpChunk, MayPump
<1>4. PICK c : c = loader.consumed OBVIOUS
<1>5. /\ c \in Nat /\ Sent \in Nat /\ Given \in Nat /\ server.offset \in Nat
      /\ server.credit \in Nat /\ c <= Sent /\ n \in Nat
  BY <1>4, Order, TransferAssumption
<1>6. NoCredit(toServer) /\ server.credit + server.offset = Given
  BY <1>3, <1>5 DEF Whole, WholeCredit
<1>7. server.offset = Mark(Sent) /\ Given \in {Mark(c), Mark(c + 1)}
  BY <1>4 DEF Whole, WholeEnds, WholeGrants
<1>8. c = Sent /\ Given = Mark(Sent + 1)
  <2>1. Mark(Sent) < Given BY <1>3, <1>5, <1>6, <1>7
  <2>2. c + 1 \in Nat /\ Mark(c) \in Nat /\ Mark(Sent) \in Nat /\ Mark(c + 1) \in Nat
        /\ Mark(c) <= Mark(Sent) /\ (c + 1 <= Sent => Mark(c + 1) <= Mark(Sent))
    <3>1. c + 1 \in Nat BY <1>5
    <3>. QED BY <1>5, <3>1, Marks
  <2>3. Given = Mark(c + 1) /\ ~(c + 1 <= Sent) BY <1>5, <1>7, <2>1, <2>2
  <2>4. c = Sent BY <1>5, <2>3
  <2>. QED BY <2>3, <2>4
<1>9. server.offset + n = Mark(Sent + 1) /\ server.credit = n
  <2>1. Mark(Sent + 1) = Mark(Sent) + Least(ChunkBytes, TotalBytes - Mark(Sent))
        /\ Mark(Sent) \in Nat
    BY <1>5, Marks
  <2>2. server.offset + n = server.offset + Requested BY <1>2
  <2>3. server.credit = Least(ChunkBytes, TotalBytes - server.offset)
    <3>1. PICK d : d = Least(ChunkBytes, TotalBytes - server.offset) OBVIOUS
    <3>2. d \in Nat BY <1>3, <1>5, <3>1, TransferAssumption DEF Least
    <3>3. server.credit + server.offset = server.offset + d BY <1>6, <1>7, <1>8, <2>1, <3>1
    <3>. QED BY <1>5, <3>1, <3>2, <3>3
  <2>4. Requested = server.credit BY <1>3, <1>5, <2>3, TransferAssumption DEF Requested, Least
  <2>5. n = server.credit BY <1>5, <2>2, <2>4
  <2>. QED BY <1>5, <1>6, <1>8, <2>5
<1>10. Sent' = Sent + 1
  <2>1. server.outstanding \in Seq(Nat) /\ server.acked \in Nat BY <1>1, Fields
  <2>2. Len(server'.outstanding) = Len(server.outstanding) + 1 /\ Len(server.outstanding) \in Nat
    BY <1>2, <1>5, <2>1
  <2>. QED BY <1>2, <2>1, <2>2, SMTT(30) DEF Sent
<1>11. server'.offset = Mark(Sent') BY <1>2, <1>9, <1>10
<1>12. \A i \in DOMAIN toLoader' : Marked(toLoader'[i])
  <2>1. PICK f : f = Chunk(Sent + 1, server.offset, n) OBVIOUS
  <2>2. Marked(f) BY <1>9, <2>1 DEF Marked, Chunk
  <2>3. f \in ToLoaderFrame /\ toLoader' = SentOn(toLoader, f) BY <1>2, <2>1, FrameTypes
  <2>. QED BY <1>1, <2>2, <2>3, MarkedSent DEF Whole
<1>13. WholeCredit'
  <2>1. server'.credit = 0 BY <1>2, <1>5, <1>9
  <2>2. server'.credit + server'.offset = Given'
    <3>1. Given' = Given BY <1>3 DEF Given
    <3>. QED BY <1>2, <1>5, <1>8, <1>9, <2>1, <3>1
  <2>. QED BY <1>3, <1>6, <2>2 DEF WholeCredit, NoCredit
<1>. QED BY <1>2, <1>3, <1>11, <1>12, <1>13, NodeWhole DEF Whole, CreditSuffices

LEMMA PumpEndsWhole == ASSUME TransferInv, Whole, PumpEnds PROVE Whole'
<1>1. server \in Server BY DEF TransferInv, TransferTypeOK
<1>2. /\ server.phase = "pumping" /\ server' = [server EXCEPT !.phase = "open"]
      /\ UNCHANGED <<loader, toServer, toLoader, connected>>
  BY DEF PumpEnds
<1>3. /\ server'.credit = server.credit /\ server'.offset = server.offset
      /\ server'.acked = server.acked /\ server'.outstanding = server.outstanding
      /\ server'.ended = server.ended
  BY <1>1, <1>2 DEF Server
<1>4. WholeCredit' BY <1>2, <1>3 DEF Whole, WholeCredit, NoCredit, OnlyCredit, Given
<1>5. server'.offset = Mark(Sent') BY <1>3 DEF Whole, WholeEnds, Sent
<1>. QED BY <1>2, <1>3, <1>4, <1>5, NodeWhole DEF Whole, WholeEnds, CreditSuffices

LEMMA ServerInputEndsWhole == ASSUME TransferInv, Whole, ServerInputEnds PROVE Whole'
<1>1. server \in Server BY DEF TransferInv, TransferTypeOK
<1>2. /\ UNCHANGED <<loader, toLoader, connected>>
      /\ server' = IF server.phase = "closed" THEN server
                   ELSE [server EXCEPT !.phase = "closed", !.ended = "released"]
  BY DEF ServerInputEnds
<1>3. /\ server'.offset = server.offset /\ server'.phase = "closed"
      /\ server'.acked = server.acked /\ server'.outstanding = server.outstanding
      /\ server'.ended \in {server.ended, "released"}
  BY <1>1, <1>2 DEF Server
<1>4. WholeCredit' BY <1>3 DEF WholeCredit
<1>5. server'.offset = Mark(Sent') BY <1>3 DEF Whole, WholeEnds, Sent
<1>. QED BY <1>2, <1>3, <1>4, <1>5, NodeWhole DEF Whole, WholeEnds, CreditSuffices

LEMMA WholeInit == ASSUME TransferInit PROVE Whole
<1>. USE DEF TransferInit
<1>1. Sent = 0 /\ Given = 0 BY DEF Sent, Given
<1>2. WholeEnds BY <1>1, Marks DEF WholeEnds
<1>3. WholeGrants BY <1>1, Marks DEF WholeGrants
<1>4. NoCredit(toServer)
  <2>1. \A i \in DOMAIN toServer : toServer[i] = RequestFrame OBVIOUS
  <2>. QED BY <2>1 DEF NoCredit, RequestFrame
<1>5. WholeCredit BY <1>1, <1>4 DEF WholeCredit
<1>. QED BY <1>2, <1>3, <1>5 DEF Whole, CreditSuffices

LEMMA WholeStep ==
    ASSUME TransferInv, TransferInv', Whole, [TransferNext]_transferVars,
           server'.offset # server.offset => server'.offset = server.offset + Requested
    PROVE  Whole'
<1>1. CASE UNCHANGED transferVars
  BY <1>1 DEF transferVars, Whole, WholeEnds, WholeGrants, WholeCredit, NoCredit, OnlyCredit,
              CreditSuffices, Sent, Given, Mark, Marked
<1>2. CASE TransferNext
  <2>1. TransferTypeOK' /\ TransferTypeOK BY DEF TransferInv
  <2>2. CASE CancelTransfer \/ CancelReturns \/ Leave \/ Granted \/ Left \/ Disconnect
    <3>1. Untaken BY <2>1, <2>2, CallerUntaken, DisconnectUntaken
    <3>. QED BY <3>1, UntakenWhole
  <2>3. CASE HandleCancel
    <3>1. CASE server.phase = "closed"
      BY <2>3, <3>1, IgnoredWhole DEF HandleCancel
    <3>2. CASE server.phase # "closed"
      BY <2>3, <3>2, AbortWhole DEF HandleCancel
    <3>. QED BY <3>1, <3>2
  <2>4. CASE PumpFails BY <2>4, AbortWhole DEF PumpFails
  <2>5. CASE PumpChunk
    <3>1. server'.offset # server.offset
      <4>1. \E n \in 1 .. ChunkBytes : server'.offset = server.offset + n
        BY <2>1, <2>5, PumpChunkEffect
      <4>2. server.offset \in Nat BY <2>1, Fields
      <4>. QED BY <4>1, <4>2, TransferAssumption
    <3>. QED BY <2>5, <3>1, PumpChunkWhole
  <2>. QED
    BY <1>2, <2>1, <2>2, <2>3, <2>4, <2>5, HandleRequestWhole, HandleCreditWhole,
       HandleAckWhole, PumpEndsWhole, ServerInputEndsWhole, AcceptResponseWhole,
       AcceptChunkWhole, AcceptEndWhole, ListenWhole, TakeSignalWhole, AckTakenWhole,
       AckReturnsWhole
    DEF TransferNext, Node, Frames, Consume
<1>. QED BY <1>1, <1>2

(* When every read of the content returns what was asked for, no grant of  *)
(* the client takes the Node's credit over MAX_TRANSFER_CREDIT_BYTES       *)
(* (handleTransferCredit, grantCredit), and with the rest: the two ends of *)
(* a download keep step.                                                   *)
THEOREM WholeReadsSuffice == TransferSpec /\ WholeReads => []TransferExact
<1>1. TransferInit => Whole BY WholeInit
<1>2. TransferInv /\ TransferInv' /\ Whole /\ [TransferNext]_transferVars
      /\ [server'.offset # server.offset
             => server'.offset = server.offset + Requested]_transferVars
         => Whole'
  <2>. SUFFICES ASSUME TransferInv, TransferInv', Whole, [TransferNext]_transferVars,
                       [server'.offset # server.offset
                           => server'.offset = server.offset + Requested]_transferVars
                PROVE  Whole'
    OBVIOUS
  <2>1. server'.offset # server.offset => server'.offset = server.offset + Requested
    BY DEF transferVars
  <2>. QED BY <2>1, WholeStep
<1>3. Whole => CreditSuffices BY DEF Whole
<1>4. PeersInStep /\ WindowBounded /\ CompleteWhenTaken /\ CreditSuffices <=> TransferExact
  BY DEF TransferExact
<1>. QED
  BY <1>1, <1>2, <1>3, <1>4, TransferInvariant, TransferKeepsStep, PTL
  DEF TransferSpec, WholeReads
=============================================================================
