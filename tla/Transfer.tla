------------------------------ MODULE Transfer ------------------------------
(***************************************************************************)
(* One download (a message's content or a session export) from the Node to *)
(* the client, with byte credit and acknowledgements.                      *)
(*   node/src/protocol/pi-node-protobuf-connection.ts (OutboundTransfer)   *)
(*   lib/api/pi_node/pi_node_client.dart              (_ClientTransfer)    *)
(*                                                                         *)
(* The connection handles one client frame after the other, the pump that  *)
(* a frame starts included.  At the client three things go on at once: the *)
(* frame handler, the generator behind `bytes` (_consume), and the caller, *)
(* who takes chunks at its own pace, leaves the stream or cancels.         *)
(*                                                                         *)
(* An operator Faulty* is no part of the specification: it is the operator *)
(* below it with a plausible mistake, which a property must refute.        *)
(***************************************************************************)
EXTENDS Naturals, Sequences

CONSTANTS
    TotalBytes,      \* size of the content
    ChunkBytes,      \* negotiated chunk size
    MaxCredit,       \* MAX_TRANSFER_CREDIT_BYTES
    MaxOutstanding   \* MAX_OUTSTANDING_TRANSFER_CHUNKS

ASSUME TransferAssumption ==
    /\ TotalBytes \in Nat \ {0} /\ ChunkBytes \in Nat \ {0}
    /\ MaxCredit \in Nat /\ ChunkBytes <= MaxCredit
    /\ MaxOutstanding \in Nat \ {0}

VARIABLES
    server,     \* OutboundTransfer
    loader,     \* _ClientTransfer
    toServer,   \* frames on their way, both directions in order
    toLoader,
    connected   \* as the client sees it

transferVars == <<server, loader, toServer, toLoader, connected>>

-----------------------------------------------------------------------------
(* Frames *)

RequestFrame == [type |-> "request"]
Open == [type |-> "open"]
Rejected == [type |-> "rejected"]
Credit(n) == [type |-> "credit", bytes |-> n]
Ack(seq, committed) == [type |-> "ack", seq |-> seq, committed |-> committed]
Cancel == [type |-> "cancel"]
Chunk(seq, offset, n) == [type |-> "chunk", seq |-> seq, offset |-> offset, bytes |-> n]
Complete == [type |-> "complete"]
Abort == [type |-> "abort"]
Error == [type |-> "error"]     \* not a frame: what fail() puts into _signals

SentOn(channel, frame) == IF connected THEN Append(channel, frame) ELSE channel
Least(m, n) == IF m < n THEN m ELSE n

-----------------------------------------------------------------------------
(* `outstanding` is sentEndOffsets: the end offsets of the chunks after    *)
(* number `acked`.  nextSequence follows from the two.                     *)
TransferInit ==
    /\ server = [phase |-> "none", offset |-> 0, credit |-> 0, acked |-> 0, committed |-> 0,
                 outstanding |-> <<>>, ended |-> "no"]
    /\ loader = [phase |-> "requested", next |-> 1, received |-> 0, credit |-> 0,
                 signals |-> <<>>, chunk |-> Chunk(0, 0, 0), committed |-> 0, consumed |-> 0,
                 delivered |-> 0, terminal |-> FALSE, cancelSent |-> FALSE,
                 cancelling |-> FALSE, leaving |-> FALSE, outcome |-> "pending"]
    /\ toServer = <<RequestFrame>> /\ toLoader = <<>>
    /\ connected = TRUE

-----------------------------------------------------------------------------
(* The Node.                                                               *)

Receives(type) ==
    server.phase # "pumping" /\ toServer # <<>> /\ Head(toServer).type = type

NextSequence == server.acked + Len(server.outstanding) + 1

(* handleGetMessageContent, handleExportSession: eight transfers are open  *)
(* already, or preparing the file fails, or the transfer is open.          *)
HandleRequest ==
    /\ Receives("request")
    /\ toServer' = Tail(toServer)
    /\ \/ /\ server' = [server EXCEPT !.phase = "open"]
          /\ toLoader' = SentOn(toLoader, Open)
       \/ /\ server' = [server EXCEPT !.phase = "closed", !.ended = "rejected"]
          /\ toLoader' = SentOn(toLoader, Rejected)
    /\ UNCHANGED <<loader, connected>>

(* abortTransfer, with notifyPeer; nothing if the transfer is closed. *)
AbortTransfer(reason) ==
    /\ server' = [server EXCEPT !.phase = "closed", !.ended = reason]
    /\ toLoader' = SentOn(toLoader, Abort)

HandleCredit ==
    /\ Receives("credit")
    /\ toServer' = Tail(toServer)
    /\ LET credit == server.credit + Head(toServer).bytes IN
       IF server.phase = "closed" THEN UNCHANGED <<server, toLoader>>
       ELSE IF Head(toServer).bytes = 0 THEN AbortTransfer("violation")
       ELSE IF credit > MaxCredit THEN AbortTransfer("exhausted")
       ELSE /\ server' = [server EXCEPT !.credit = credit, !.phase = "pumping"]
            /\ UNCHANGED toLoader
    /\ UNCHANGED <<loader, connected>>

(* The acknowledged chunk, among the outstanding ones. *)
AckValid(ack) ==
    LET k == ack.seq - server.acked IN
    /\ ack.seq > server.acked /\ k <= Len(server.outstanding)
    /\ ack.committed = server.outstanding[k]
    /\ ack.committed > server.committed

Acknowledged(ack) ==
    [server EXCEPT !.acked = ack.seq, !.committed = ack.committed,
        !.outstanding = SubSeq(@, ack.seq - server.acked + 1, Len(@))]

FaultyAllCommitted(s) == s.offset = TotalBytes
AllCommitted(s) ==
    s.committed = TotalBytes /\ s.offset = TotalBytes /\ s.outstanding = <<>>

HandleAck ==
    /\ Receives("ack")
    /\ toServer' = Tail(toServer)
    /\ LET ack == Head(toServer) IN
       IF server.phase = "closed" THEN UNCHANGED <<server, toLoader>>
       ELSE IF ~AckValid(ack) THEN AbortTransfer("violation")
       ELSE IF AllCommitted(Acknowledged(ack))               \* completeTransfer
            THEN /\ server' = [Acknowledged(ack) EXCEPT !.phase = "closed", !.ended = "complete"]
                 /\ toLoader' = SentOn(toLoader, Complete)
            ELSE /\ server' = [Acknowledged(ack) EXCEPT !.phase = "pumping"]
                 /\ UNCHANGED toLoader
    /\ UNCHANGED <<loader, connected>>

FaultyHandleCancel ==
    /\ Receives("cancel")
    /\ toServer' = Tail(toServer)
    /\ UNCHANGED <<server, loader, toLoader, connected>>
HandleCancel ==
    /\ Receives("cancel")
    /\ toServer' = Tail(toServer)
    /\ IF server.phase = "closed" THEN UNCHANGED <<server, toLoader>>
                                  ELSE AbortTransfer("cancelled")
    /\ UNCHANGED <<loader, connected>>

(* pumpTransfer: the loop condition, and how much it asks the file for. *)
MayPump ==
    /\ server.credit > 0 /\ server.offset < TotalBytes
    /\ Len(server.outstanding) < MaxOutstanding

Requested == Least(ChunkBytes, Least(server.credit, TotalBytes - server.offset))

(* One round: read (possibly less than was asked), write, and record the   *)
(* chunk when it is written.                                               *)
PumpChunk ==
    /\ server.phase = "pumping" /\ MayPump
    /\ \E n \in 1..Requested :
          /\ toLoader' = SentOn(toLoader, Chunk(NextSequence, server.offset, n))
          /\ server' = [server EXCEPT !.outstanding = Append(@, server.offset + n),
                                      !.offset = @ + n, !.credit = @ - n]
    /\ UNCHANGED <<loader, toServer, connected>>

PumpEnds ==
    /\ server.phase = "pumping" /\ ~MayPump
    /\ server' = [server EXCEPT !.phase = "open"]
    /\ UNCHANGED <<loader, toServer, toLoader, connected>>

(* Opening, reading or writing fails. *)
PumpFails ==
    /\ server.phase = "pumping"
    /\ AbortTransfer("failed")
    /\ UNCHANGED <<loader, toServer, connected>>

(* The connection is over for the Node: dispose, releaseTransfers. *)
ServerInputEnds ==
    /\ ~connected /\ server.phase # "pumping"
    /\ server.phase # "closed" \/ toServer # <<>>
    /\ server' = IF server.phase = "closed" THEN server
                 ELSE [server EXCEPT !.phase = "closed", !.ended = "released"]
    /\ toServer' = <<>>
    /\ UNCHANGED <<loader, toLoader, connected>>

-----------------------------------------------------------------------------
(* The client.  These operators are functions of its state c.              *)

(* fail(): the first reason counts. *)
FaultyFailed(c, reason) ==
    [c EXCEPT !.terminal = TRUE, !.signals = Append(@, Error), !.outcome = reason]
Failed(c, reason) ==
    IF c.terminal THEN c
    ELSE [c EXCEPT !.terminal = TRUE, !.signals = Append(@, Error), !.outcome = reason]

(* fail(), telling the Node. *)
FailNotifying(c, reason) ==
    /\ loader' = [Failed(c, reason) EXCEPT !.cancelSent = @ \/ ~c.terminal]
    /\ toServer' = IF c.terminal \/ c.cancelSent THEN toServer ELSE SentOn(toServer, Cancel)

(* cancel(): fails when the cancel frame has been sent. *)
BeginCancel(c) ==
    IF c.terminal THEN loader' = c /\ UNCHANGED toServer
    ELSE IF c.cancelSent THEN loader' = Failed(c, "cancelled") /\ UNCHANGED toServer
    ELSE /\ loader' = [c EXCEPT !.cancelSent = TRUE, !.cancelling = TRUE]
         /\ toServer' = SentOn(toServer, Cancel)

CancelReturns ==
    /\ loader.cancelling
    /\ loader' = [Failed(loader, "cancelled") EXCEPT !.cancelling = FALSE]
    /\ UNCHANGED <<server, toServer, toLoader, connected>>

Arrives(type) == toLoader # <<>> /\ Head(toLoader).type = type

AcceptResponse ==
    /\ \/ /\ Arrives("open")
          /\ loader' = [loader EXCEPT !.phase = "opened"]
       \/ /\ Arrives("rejected")
          /\ loader' = [loader EXCEPT !.phase = "ended", !.outcome = "rejected", !.terminal = TRUE]
    /\ toLoader' = Tail(toLoader)
    /\ UNCHANGED <<server, toServer, connected>>

ChunkExpected(chunk) ==
    /\ chunk.seq = loader.next /\ chunk.offset = loader.received
    /\ chunk.bytes <= ChunkBytes /\ chunk.bytes <= loader.credit
    /\ loader.received + chunk.bytes <= TotalBytes

AcceptChunk ==
    /\ Arrives("chunk")
    /\ LET chunk == Head(toLoader) IN
       IF loader.terminal THEN UNCHANGED <<loader, toServer>>
       ELSE IF ~ChunkExpected(chunk) THEN FailNotifying(loader, "dataLoss")
       ELSE /\ loader' = [loader EXCEPT !.next = @ + 1, !.received = @ + chunk.bytes,
                                        !.credit = @ - chunk.bytes,
                                        !.signals = Append(@, chunk)]
            /\ UNCHANGED toServer
    /\ toLoader' = Tail(toLoader)
    /\ UNCHANGED <<server, connected>>

AcceptEnd ==
    /\ \/ /\ Arrives("complete")
          /\ loader' = IF loader.terminal THEN loader
                       ELSE [loader EXCEPT !.signals = Append(@, Complete)]
       \/ /\ Arrives("abort")
          /\ loader' = Failed(loader, "aborted")
    /\ toLoader' = Tail(toLoader)
    /\ UNCHANGED <<server, toServer, connected>>

(* grantCredit, at an await of the generator; it throws in a transfer that *)
(* has failed. *)
FaultyGrant(c, n) ==
    IF c.terminal THEN loader' = [c EXCEPT !.phase = "ended"] /\ UNCHANGED toServer
    ELSE /\ loader' = [c EXCEPT !.phase = "granting", !.credit = @ + TotalBytes]
         /\ toServer' = SentOn(toServer, Credit(TotalBytes))
Grant(c, n) ==
    IF c.terminal THEN loader' = [c EXCEPT !.phase = "ended"] /\ UNCHANGED toServer
    ELSE /\ loader' = [c EXCEPT !.phase = "granting", !.credit = @ + n]
         /\ toServer' = SentOn(toServer, Credit(n))

(* The caller listens to `bytes`: _consume starts. *)
Listen ==
    /\ loader.phase = "opened"
    /\ Grant(loader, Least(ChunkBytes, TotalBytes))
    /\ UNCHANGED <<server, toLoader, connected>>

Granted ==
    /\ loader.phase = "granting"
    /\ loader' = [loader EXCEPT !.phase = "waiting"]
    /\ UNCHANGED <<server, toServer, toLoader, connected>>

TakeSignal ==
    /\ loader.phase = "waiting" /\ loader.signals # <<>>
    /\ LET signal == Head(loader.signals)
           rest   == [loader EXCEPT !.signals = Tail(@)] IN
       \/ /\ signal.type = "chunk" /\ ~loader.leaving
          /\ loader' = [rest EXCEPT !.phase = "yielded", !.chunk = signal,
                                    !.delivered = @ + signal.bytes]
          /\ UNCHANGED toServer
       \/ /\ signal.type = "chunk" /\ loader.leaving
          /\ BeginCancel([rest EXCEPT !.phase = "ended"])
       \/ /\ signal.type = "complete" /\ loader.committed = TotalBytes
          /\ loader' = [rest EXCEPT !.phase = "ended", !.terminal = TRUE,
                            !.outcome = IF @ = "pending" THEN "completed" ELSE @]
          /\ UNCHANGED toServer
       \/ /\ signal.type = "complete" /\ loader.committed # TotalBytes
          /\ FailNotifying([rest EXCEPT !.phase = "ended"], "dataLoss")
       \/ /\ signal.type = "error"
          /\ loader' = [rest EXCEPT !.phase = "ended"]
          /\ UNCHANGED toServer
    /\ UNCHANGED <<server, toLoader, connected>>

FaultyAckOf(c) == Ack(c.next - 1, c.received)
AckOf(c) == Ack(c.consumed, c.committed)

(* The caller has taken the chunk, or has left the stream. *)
AckTaken ==
    /\ loader.phase = "yielded" /\ ~loader.leaving
    /\ LET c == [loader EXCEPT !.committed = @ + loader.chunk.bytes,
                               !.consumed = loader.chunk.seq] IN
       IF connected
       THEN /\ loader' = [c EXCEPT !.phase = "acking"]
            /\ toServer' = SentOn(toServer, AckOf(c))
       ELSE /\ loader' = [c EXCEPT !.phase = "ended"]
            /\ UNCHANGED toServer
    /\ UNCHANGED <<server, toLoader, connected>>

Left ==
    /\ loader.phase = "yielded" /\ loader.leaving
    /\ BeginCancel([loader EXCEPT !.phase = "ended"])
    /\ UNCHANGED <<server, toLoader, connected>>

FaultyAckReturns ==
    /\ loader.phase = "acking"
    /\ loader' = [loader EXCEPT !.phase = "waiting"]
    /\ UNCHANGED <<server, toServer, toLoader, connected>>
AckReturns ==
    /\ loader.phase = "acking"
    /\ IF loader.committed < TotalBytes
       THEN Grant(loader, Least(ChunkBytes, TotalBytes - loader.committed))
       ELSE loader' = [loader EXCEPT !.phase = "waiting"] /\ UNCHANGED toServer
    /\ UNCHANGED <<server, toLoader, connected>>

(* The caller cancels its subscription; the generator sees it at a yield. *)
Leave ==
    /\ loader.phase \in {"granting", "waiting", "yielded", "acking"} /\ ~loader.leaving
    /\ loader' = [loader EXCEPT !.leaving = TRUE]
    /\ UNCHANGED <<server, toServer, toLoader, connected>>

(* The caller cancels the transfer. *)
CancelTransfer ==
    /\ loader.phase # "requested" /\ ~loader.terminal
    /\ BeginCancel(loader)
    /\ UNCHANGED <<server, toLoader, connected>>

(* failConnection, close: the requests and the transfers fail. *)
Disconnect ==
    /\ connected
    /\ connected' = FALSE
    /\ loader' = [Failed(loader, "disconnected") EXCEPT
                     !.phase = IF @ = "requested" THEN "ended" ELSE @]
    /\ toLoader' = <<>>
    /\ UNCHANGED <<server, toServer>>

-----------------------------------------------------------------------------
Node ==
    \/ HandleRequest \/ HandleCredit \/ HandleAck \/ HandleCancel
    \/ PumpChunk \/ PumpEnds \/ ServerInputEnds

Frames == AcceptResponse \/ AcceptChunk \/ AcceptEnd

Consume == Listen \/ Granted \/ TakeSignal \/ AckTaken \/ Left \/ AckReturns

TransferNext ==
    \/ Node \/ PumpFails
    \/ Frames \/ Consume \/ CancelReturns
    \/ Leave \/ CancelTransfer \/ Disconnect

TransferSpec == TransferInit /\ [][TransferNext]_transferVars

-----------------------------------------------------------------------------
(* Properties *)

(* What validateTransportFrame asks of a frame of a transfer, else it ends *)
(* the connection.  TotalBytes, which the frames repeat, is positive.      *)
AcceptsTransferFrame(f) ==
    CASE f.type = "credit" -> f.bytes \in 1..MaxCredit
      [] f.type = "ack" -> f.seq > 0 /\ f.committed > 0
      [] f.type = "chunk" -> f.seq > 0 /\ f.bytes \in 1..ChunkBytes
      [] OTHER -> f.type \in {"request", "open", "rejected", "cancel", "complete", "abort"}

(* The two ends agree on sequence and offset whatever is on its way:       *)
(* neither ever accuses the other of a violation, and neither sends what   *)
(* the codec refuses.                                                      *)
PeersInStep ==
    /\ \A i \in DOMAIN toServer : AcceptsTransferFrame(toServer[i])
    /\ \A i \in DOMAIN toLoader : AcceptsTransferFrame(toLoader[i])
    /\ server.ended # "violation"
    /\ loader.outcome # "dataLoss"

(* The client never grants more credit than the Node accepts: a chunk's    *)
(* worth for every chunk, however short a read made it (WholeReads).       *)
CreditSuffices == server.ended # "exhausted"

WholeReads ==
    [][server'.offset # server.offset => server'.offset = server.offset + Requested]_transferVars

(* The Node sends at the pace of the reader: beyond what the chunks the    *)
(* reader has taken gave room for, one chunk is on its way or waiting; and *)
(* what waits is bounded by the chunks the Node leaves unacknowledged.     *)
WindowBounded ==
    /\ loader.received + loader.credit <= ChunkBytes * (loader.consumed + 1)
    /\ loader.received - loader.committed <= ChunkBytes * MaxOutstanding

(* The Node ends a transfer as complete only when the reader has taken     *)
(* every byte.                                                             *)
CompleteWhenTaken ==
    server.ended = "complete" => loader.committed = TotalBytes

(***************************************************************************)
(* The two ends of a transfer keep step: legal frames, a bounded window,   *)
(* and an end that both have reached.                                      *)
(***************************************************************************)
TransferExact == PeersInStep /\ CreditSuffices /\ WindowBounded /\ CompleteWhenTaken

(* The download implements ContentCopy: its end is told once, "complete"   *)
(* only after the last byte was handed over, and nothing after it.         *)
CopyOutcome == CASE loader.outcome = "pending" -> "copying"
                 [] loader.outcome = "completed" -> "complete"
                 [] OTHER -> "failed"
Copy == INSTANCE ContentCopy WITH delivered <- loader.delivered, outcome <- CopyOutcome
Copied == Copy!Spec

(* A transfer does not keep its slot among the Node's eight, and its file: *)
(* it is closed, whether it is read, left, cancelled or disconnected.      *)
SlotFreed == server.phase \in {"open", "pumping"} ~> server.phase = "closed"
=============================================================================
