------------------------ MODULE MCProtocolConnection ------------------------
(***************************************************************************)
(* A connection of three operations, and identifiers for two: a project is *)
(* learned, its sessions listed, one prompted or forked, the one command   *)
(* identifier used again.  A behaviour exercises this, or the framing      *)
(* below it, or a transfer on it, or the values its answers carry: they    *)
(* share no state (a frame of the one is a payload of the other).          *)
(***************************************************************************)
EXTENDS ProtocolConnection, IpcFraming, Transfer, SafeValues, SessionTree, SessionSummary,
        SessionStats, SessionNaming, MessageParts, Failures

VARIABLES
    stored,     \* what is answered, as the SDK has it: entries, a message, what failed ...
    exercised

answerVars == <<valueVars, stored>>
connectionVars == <<vars, framingVars, transferVars, answerVars, exercised>>

MCKinds == {"known", "list", "prompt", "fork"}
MCVersions == {2}
MCCapabilities == {"discovery", "read", "prompt", "tree"}
MCOffers ==
    {[versions |-> <<1, 2>>, capabilities |-> {"discovery", "read", "prompt", "tree", "export"}],
     [versions |-> <<2>>, capabilities |-> {"discovery", "tree"}],
     [versions |-> <<1>>, capabilities |-> {"discovery"}]}

(* Lengths 1 to 5 with digits of 0 to 2; 6 is too long, and one is empty.  *)
MCPayloads == {<<>>, <<0>>, <<1, 0>>, <<0, 0, 2, 1>>, <<1, 1, 1, 1, 1, 1>>}

(* A plain key, one with blanks, a secret and one that is too long; a      *)
(* number, a text that is too long, and an object within itself.           *)
MCKeys ==
    {[size |-> 1, secret |-> FALSE, fitted |-> [name |-> "a", size |-> 1]],
     [size |-> 2, secret |-> FALSE, fitted |-> [name |-> "a", size |-> 1]],
     [size |-> 2, secret |-> TRUE, fitted |-> [name |-> "token", size |-> 2]],
     [size |-> 3, secret |-> FALSE, fitted |-> [name |-> "long", size |-> 2]]}
MCLeaves == {[kind |-> "number"], [kind |-> "string", size |-> 13], [kind |-> "cycle"]}

MCForests == [1..3 -> [parent : 0..4, user : BOOLEAN]]
MCTexts == UNION {[1..n -> {"letter", "wide", "blank", "nul"}] : n \in 0..3}
MCTimes == {NotTime, 0, 2, 3}
MCContents ==
    UNION {[1..n -> StoredParts] : n \in 0..2}
    \cup [1..3 -> {part \in StoredParts : part.size = 1 /\ part.type = "thinking"}]
MCNames == UNION {[1..n -> {"letter", "blank", "control", "mark", "title:"}] : n \in 0..5}

StoredInit ==
    CASE exercised = "tree" ->
            stored \in [entries : MCForests, leaf : 0..3, filed : BOOLEAN]
      [] exercised = "summary" ->
            \/ stored \in [name : {<<>>}, first : MCTexts, created : MCTimes, modified : MCTimes]
            \/ stored \in [name : MCTexts, first : {<<"letter">>}, created : {2}, modified : {3}]
      [] exercised = "turns" ->
            stored \in UNION {[1..n -> [user : BOOLEAN, time : MCTimes]] : n \in 0..4}
      [] exercised = "stats" ->
            stored \in [context : Contexts({1, 2}, {0, 1}), head : Heads]
      [] exercised = "parts" -> stored \in [content : MCContents, deferred : BOOLEAN]
      [] exercised = "name" -> stored \in MCNames
      [] exercised = "transcript" -> stored \in UNION {[1..n -> 0..3] : n \in 0..5}
      [] exercised = "failure" -> stored \in Failures
      [] exercised = "completion" -> stored \in [end : Ends, aborted : BOOLEAN]
      [] OTHER -> stored = <<>>

Answered == {"tree", "summary", "turns", "stats", "parts", "name", "transcript", "failure",
             "completion"}

ConnectionInit ==
    /\ exercised \in {"operations", "framing", "transfer", "values"} \cup Answered
    /\ Init /\ FramingInit /\ TransferInit /\ ValuesInit /\ StoredInit
    /\ exercised # "operations" => client.offer = CHOOSE o \in Offers : TRUE
    /\ exercised # "values" => value = CHOOSE leaf \in Leaves : TRUE

ConnectionNext ==
    /\ \/ exercised = "operations" /\ Next /\ UNCHANGED <<framingVars, transferVars, answerVars>>
       \/ exercised = "framing" /\ FramingNext /\ UNCHANGED <<vars, transferVars, answerVars>>
       \/ exercised = "transfer" /\ TransferNext /\ UNCHANGED <<vars, framingVars, answerVars>>
       \/ exercised = "values" /\ ValuesNext /\ UNCHANGED <<vars, framingVars, transferVars, stored>>
    /\ UNCHANGED exercised

(* The fairness of the two, each while it is exercised.  For a transfer:   *)
(* frames are delivered and handled, awaited sends return, and a caller    *)
(* that was given a transfer reads it, or cancels it.                      *)
Operates(A) == exercised = "operations" /\ A
Downloads(A) == exercised = "transfer" /\ A

ConnectionSpec ==
    /\ ConnectionInit /\ [][ConnectionNext]_connectionVars
    /\ WF_vars(Operates(SendOffer)) /\ WF_vars(Operates(CloseReturns))
    /\ WF_vars(Operates(ClientReads)) /\ WF_vars(Operates(TransportRuns))
    /\ WF_vars(Operates(Kill)) /\ WF_vars(Operates(NodeReads)) /\ WF_vars(Operates(Disposed))
    /\ WF_transferVars(Downloads(Node)) /\ WF_transferVars(Downloads(Frames))
    /\ WF_transferVars(Downloads(Consume)) /\ WF_transferVars(Downloads(CancelReturns))

(* A download that was asked for ends, whatever its reader does: it is     *)
(* rejected, completed, cancelled or aborted.  OutboundTransfer, _consume  *)
DownloadEnds == exercised = "transfer" ~> loader.outcome # "pending"

(* What is stored can be answered, and what failed is told: each in the    *)
(* words of the property of its module that it instantiates.  For          *)
(* sessionManagerToTreeSnapshot, toProtocolSessionSummary,                 *)
(* calculateSessionActiveTimeMillis, toProtocolSessionStats, #part,        *)
(* sanitizeGeneratedSessionName, boundedTranscript, mapDomainError and     *)
(* #settleCommand.                                                         *)
TreesServed == exercised = "tree" => TreeServed(stored.entries, stored.leaf, stored.filed)
SummariesServed == exercised = "summary" => SummaryServed(stored)
TurnsCounted == exercised = "turns" => ActiveTimeRight(stored)
StatisticsServed == exercised = "stats" => StatsServed(stored.context, stored.head)
MessagesServed == exercised = "parts" => PartsServed(stored.content, stored.deferred)
NamesUsable == exercised = "name" => NameUsable(stored)
TranscriptsRight == exercised = "transcript" => TranscriptRight(stored)
FailuresTold == exercised = "failure" => FailureTold(stored)
CompletionsTold == exercised = "completion" => CompletionTold(stored.end, stored.aborted)

(* Whatever is stored, or fails, is answered in full: no secret, size,     *)
(* shape or order of it makes the answer wrong or one the codec refuses.   *)
AnswersServed ==
    /\ SafeValuesBounded /\ TreesServed /\ SummariesServed /\ TurnsCounted
    /\ StatisticsServed /\ MessagesServed /\ NamesUsable /\ TranscriptsRight
    /\ FailuresTold /\ CompletionsTold

(* Nobody waits for ever, and nothing is held for ever: operations, the    *)
(* close of a connection, downloads, and the slots of transfers.           *)
EveryWaitEnds == OperationEnds /\ CloseEnds /\ DownloadEnds /\ SlotFreed
=============================================================================
