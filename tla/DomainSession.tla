--------------------------- MODULE DomainSession ---------------------------
(***************************************************************************)
(* One persistent session of a Pi Node, served to one client.              *)
(*   node/src/pi-sdk-domain-session.ts    (PublicPiSdkDomainSession)       *)
(*   node/src/pi-node-domain-service.ts   (submitPrompt, #runSessionMutation,*)
(*                                         #settleCommand, #emit)          *)
(*                                                                         *)
(* The service runs one operation after the other, and the connection      *)
(* handles one request after the other; events are written in between.  A  *)
(* history page is read in one step and written in a later one.            *)
(*                                                                         *)
(* The SDK (external) keeps the tree of entries, of which the active branch*)
(* ends at the leaf, and runs the agent: user message, then turns of an    *)
(* assistant message and, if it calls a tool, the tool and its result.  It *)
(* appends a message to the tree when the message has ended.               *)
(*                                                                         *)
(* An operator Faulty* is no part of the specification: it is the operator *)
(* below it with a plausible mistake, which a property must refute.        *)
(***************************************************************************)
EXTENDS ConversationNormalizer

CONSTANTS
    Prompts,     \* prompt commands, each sent once
    InitialLog,  \* the entries there are at first: [message, parent]
    Limit,       \* messages in a history page (50 for the Workspace)
    MaxTurns,    \* bound: turns of a run
    MaxUpdates,  \* bound: updates of a message, fewer in a later turn
    MaxForks,    \* bound: forks and clones
    MaxWire      \* bound: messages on their way while the agent runs on

ASSUME SessionAssumption ==
    /\ Limit \in Nat \ {0} /\ MaxTurns \in Nat \ {0} /\ MaxUpdates \in Nat /\ MaxForks \in Nat
    /\ MaxWire \in Nat \ {0}
    /\ \A i \in DOMAIN InitialLog : InitialLog[i].parent \in 0..(i - 1)
    /\ None \notin Prompts

VARIABLES
    node,       \* the session: the SDK's tree, the flags of the adapter and of
                \* the service, the event sequence
    conv,       \* its normalizer
    sdk,        \* the run of the agent (external)
    toNode,     \* requests on their way
    answering,  \* the history page that has been read and is to be written
    toClient    \* answers and events on their way

nodeVars == <<node, conv, sdk, toNode, answering, toClient>>

(* Another session of the project, which is idle and empty. *)
Away == 0

-----------------------------------------------------------------------------
(* The tree *)

(* The positions of a kind in the log from the root to entry i *)
PathTo(i, kind) ==
    LET path[j \in 0..Len(node.log)] ==
            IF j = 0 THEN <<>>
            ELSE IF j \in kind THEN Append(path[node.log[j].parent], j)
            ELSE path[node.log[j].parent]
    IN  path[i]

(* getBranch *)
Branch == PathTo(node.leaf, DOMAIN node.log)

(* The entries of the branch a page may show. *)
Messages == PathTo(node.leaf, {i \in DOMAIN node.log : node.log[i].message.role # "marker"})

(* createSessionTreeRevision.  The branch and its messages follow from it. *)
Revision == [session |-> node.session, leaf |-> node.leaf, count |-> Len(node.log)]

Persist(n, message) ==
    [n EXCEPT !.log = Append(@, [message |-> message, parent |-> n.leaf]),
              !.leaf = Len(n.log) + 1]

(* isRunning, and the state a mutation requires *)
IsRunning == node.running \/ node.inFlight \/ sdk.phase # "idle"
Idle == node.active = None /\ ~node.shown /\ ~IsRunning

-----------------------------------------------------------------------------
(* Messages to the client *)

Event(i, event) == [kind |-> "event", session |-> node.session, n |-> node.seq + i, event |-> event]

NoAnswer == [kind |-> "none"]

Running(running) == [type |-> "running", running |-> running]
Completed(c) == [type |-> "completed", cmd |-> c]

(* #emit *)
Emit(n, events) ==
    /\ node' = [n EXCEPT !.seq = @ + Len(events)]
    /\ toClient' = toClient \o [i \in DOMAIN events |-> Event(i, events[i])]

Reply(answer) == toClient' = Append(toClient, answer)

-----------------------------------------------------------------------------
NodeInit ==
    /\ node = [session |-> 1, log |-> InitialLog, leaf |-> Len(InitialLog), seq |-> 0,
               running |-> FALSE, shown |-> FALSE, inFlight |-> FALSE, origin |-> None,
               active |-> None, settled |-> FALSE]
    /\ conv = NewConversation(1)
    /\ sdk = [phase |-> "idle", message |-> None, turns |-> 0, updates |-> 0]
    /\ toNode = <<>> /\ answering = NoAnswer /\ toClient = <<>>

Request(kind) == answering = NoAnswer /\ toNode # <<>> /\ Head(toNode).kind = kind
Taken == toNode' = Tail(toNode)

-----------------------------------------------------------------------------
(* getSessionHistory *)

Cursor(end) == [end |-> end, rev |-> Revision]

(* #decodeHistoryCursor, #assertExpectedRevisions *)
Valid(r) ==
    /\ r.cursor # None => r.cursor.rev = Revision /\ r.cursor.end \in 1..Len(Messages)
    /\ r.rev \in {None, Revision}

(* getHistoryPage: the last Limit messages before the cursor *)
FaultyPageOf(r) ==
    LET end == IF r.cursor = None THEN Len(Messages) ELSE r.cursor.end
        start == IF end > Limit THEN end - Limit ELSE 0
    IN  [kind |-> r.kind, for |-> r.for, session |-> node.session, ok |-> TRUE, n |-> node.seq,
         entries |-> [i \in 1..(end - start) |->
                         PersistentEntry(Messages[start + i], node.log[Messages[start + i]].message)],
         cursor |-> IF start > 1 THEN Cursor(start - 1) ELSE None,
         rev |-> Revision, running |-> IsRunning]
PageOf(r) ==
    LET end == IF r.cursor = None THEN Len(Messages) ELSE r.cursor.end
        start == IF end > Limit THEN end - Limit ELSE 0
    IN  [kind |-> r.kind, for |-> r.for, session |-> node.session, ok |-> TRUE, n |-> node.seq,
         entries |-> [i \in 1..(end - start) |->
                         PersistentEntry(Messages[start + i], node.log[Messages[start + i]].message)],
         cursor |-> IF start > 0 THEN Cursor(start) ELSE None,
         rev |-> Revision, running |-> IsRunning]

Empty(r, ok) ==
    [kind |-> r.kind, for |-> r.for, session |-> r.session, ok |-> ok, n |-> 0,
     entries |-> <<>>, cursor |-> None, rev |-> None, running |-> FALSE]

(* The page shows its entries' content from now on. *)
FaultyReadHistory ==
    /\ Request("page") \/ Request("older")
    /\ LET r == Head(toNode) IN
       IF r.session = Away \/ ~Valid(r)
       THEN answering' = (IF r.session = Away THEN Empty(r, TRUE) ELSE NoAnswer) /\ UNCHANGED conv
       ELSE answering' = PageOf(r) /\ conv' = Show(conv, PageOf(r).entries)
    /\ Taken
    /\ UNCHANGED <<node, sdk, toClient>>
ReadHistory ==
    /\ Request("page") \/ Request("older")
    /\ LET r == Head(toNode) IN
       IF r.session = Away \/ ~Valid(r)
       THEN answering' = Empty(r, r.session = Away) /\ UNCHANGED conv
       ELSE answering' = PageOf(r) /\ conv' = Show(conv, PageOf(r).entries)
    /\ Taken
    /\ UNCHANGED <<node, sdk, toClient>>

AnswerHistory ==
    /\ answering # NoAnswer
    /\ Reply(answering) /\ answering' = NoAnswer
    /\ UNCHANGED <<node, conv, sdk, toNode>>

(* getSessionTree; the entries a client may navigate to are those it knows.*)
ReadTree ==
    /\ Request("tree")
    /\ LET r == Head(toNode) IN
       Reply([kind |-> "tree", for |-> r.for, session |-> r.session,
              rev |-> IF r.session = Away THEN None ELSE Revision])
    /\ Taken
    /\ UNCHANGED <<node, conv, sdk, answering>>

-----------------------------------------------------------------------------
(* submitPrompt and startPrompt.  Events of the command are written after  *)
(* its answer.                                                             *)

Admission(c, status) == [kind |-> "prompt", cmd |-> c, status |-> status]

Accept(c) ==
    /\ sdk' = [sdk EXCEPT !.phase = "started", !.turns = 0]
    /\ node' = [node EXCEPT !.active = c, !.inFlight = TRUE, !.origin = c]
    /\ Reply(Admission(c, "accepted"))

(* Busy, or the SDK refuses it. #rejectCommand *)
Reject(c) ==
    /\ node' = [node EXCEPT !.seq = @ + 1]
    /\ toClient' = toClient \o <<Admission(c, "rejected"), Event(1, Completed(c))>>
    /\ UNCHANGED sdk

(* prompt() settled without a word about admission. *)
Uncertain(c) ==
    /\ node' = [node EXCEPT !.active = c, !.settled = TRUE]
    /\ Reply(Admission(c, "uncertain"))
    /\ UNCHANGED sdk

SubmitPrompt ==
    /\ Request("prompt")
    /\ LET c == Head(toNode).cmd IN
       \/ Idle /\ Accept(c)
       \/ Idle /\ Uncertain(c)
       \/ Reject(c)
    /\ Taken
    /\ UNCHANGED <<conv, answering>>

(* #settleCommand *)
FaultySettleCommand ==
    /\ node.settled
    /\ Emit([node EXCEPT !.active = None, !.settled = FALSE, !.shown = FALSE],
            IF node.shown THEN <<Running(FALSE)>> ELSE <<>>)
    /\ UNCHANGED <<conv, sdk, toNode, answering>>
SettleCommand ==
    /\ node.settled
    /\ Emit([node EXCEPT !.active = None, !.settled = FALSE, !.shown = FALSE],
            (IF node.shown THEN <<Running(FALSE)>> ELSE <<>>) \o <<Completed(node.active)>>)
    /\ UNCHANGED <<conv, sdk, toNode, answering>>

-----------------------------------------------------------------------------
(* navigateSessionTree, forkFromUserEntry, cloneActiveBranch.  The SDK     *)
(* moves the leaf, before the entry if that is the user's, or replaces the *)
(* session by one with a copy of a branch; an extension may cancel it.     *)

MutationAnswer(ok, s) == [kind |-> "mutated", ok |-> ok, session |-> s, same |-> s = node.session]

Before(i) == IF node.log[i].message.role = "user" THEN node.log[i].parent ELSE i

Navigate(r) ==
    /\ r.kind = "navigate" /\ r.entry \in DOMAIN node.log
    /\ node' = [node EXCEPT !.leaf = Before(r.entry)]
    /\ Reply(MutationAnswer(TRUE, node.session))
    /\ UNCHANGED conv

(* The path to entry i, as the log of a new session *)
CopyOf(i) ==
    LET path == PathTo(i, DOMAIN node.log)
    IN  [j \in DOMAIN path |-> [message |-> [node.log[path[j]].message EXCEPT !.n = 0],
                                parent |-> j - 1]]

(* #bindSdkSession: the new session has a new normalizer. *)
ForkAt(i) ==
    /\ node.session <= MaxForks
    /\ LET s == node.session + 1 IN
       /\ node' = [node EXCEPT !.session = s, !.log = CopyOf(i), !.leaf = Len(CopyOf(i)),
                               !.seq = 0, !.running = FALSE, !.inFlight = FALSE, !.origin = None]
       /\ conv' = NewConversation(s)
       /\ Reply(MutationAnswer(TRUE, s))

Fork(r) ==
    /\ r.kind = "fork" /\ r.entry \in DOMAIN node.log /\ node.log[r.entry].message.role = "user"
    /\ ForkAt(node.log[r.entry].parent)

Clone(r) ==
    /\ r.kind = "clone"
    /\ \E i \in ToSet(Branch) : node.log[i].message.role = "user"
    /\ ForkAt(node.leaf)

RefuseMutation == Reply(MutationAnswer(FALSE, node.session)) /\ UNCHANGED <<node, conv>>

(* #runSessionMutation *)
Mutate ==
    /\ \E kind \in {"navigate", "fork", "clone"} : Request(kind)
    /\ LET r == Head(toNode) IN
       \/ Idle /\ r.rev = Revision /\ (Navigate(r) \/ Fork(r) \/ Clone(r))
       \/ RefuseMutation
    /\ Taken
    /\ UNCHANGED <<sdk, answering>>

-----------------------------------------------------------------------------
(* The run of the agent, and #handleSdkEvent                               *)

FirstParts(role) ==
    CASE role = "user" -> <<[type |-> "text", call |-> None, size |-> Inline]>>
      [] role = "toolResult" -> <<[type |-> "image", call |-> None, size |-> 1]>>
      [] role = "assistant" -> <<>>

Message(role) ==
    [n |-> Len(conv.objects) + 1, role |-> role, parts |-> FirstParts(role),
     usage |-> IF role = "assistant" THEN 0 ELSE None]

(* acceptEvent, whose events are emitted to the service at once *)
Handle(n, result) == Emit(n, result.events) /\ conv' = result.conv

(* agent_start *)
AgentStart ==
    /\ sdk.phase = "started"
    /\ sdk' = [sdk EXCEPT !.phase = "user"]
    /\ Emit([node EXCEPT !.running = TRUE, !.shown = TRUE],
            IF node.running THEN <<>> ELSE <<Running(TRUE)>>)
    /\ UNCHANGED <<conv, toNode, answering>>

StartMessage ==
    /\ sdk.phase \in {"user", "assistant", "toolResult"} /\ sdk.message = None
    /\ sdk' = [sdk EXCEPT !.message = Message(sdk.phase), !.updates = 0]
    /\ Handle(node, MessageStart(conv, Message(sdk.phase), node.origin))
    /\ UNCHANGED <<toNode, answering>>

UpdateMessage(message, delta) ==
    /\ sdk.phase = "assistant" /\ sdk.message # None /\ sdk.updates + sdk.turns < MaxUpdates
    /\ sdk' = [sdk EXCEPT !.message = message, !.updates = @ + 1]
    /\ Handle(node, MessageUpdate(conv, message, delta, node.origin))
    /\ UNCHANGED <<toNode, answering>>

(* The assistant begins another part: text, or the call of a tool. *)
AddPart ==
    /\ sdk.message # None
    /\ \E type \in {"text", "toolCall"} :
          /\ type = "toolCall" => sdk.turns + 1 < MaxTurns
          /\ \A p \in ToSet(sdk.message.parts) : p.type # type
          /\ UpdateMessage([sdk.message EXCEPT !.parts = Append(@,
                               [type |-> type, call |-> IF type = "text" THEN None ELSE sdk.turns,
                                size |-> IF type = "text" THEN Inline ELSE 0])], None)

(* Some text; the provider may count what was used so far. *)
Stream ==
    /\ sdk.message # None
    /\ \E i \in DOMAIN sdk.message.parts, used \in {0, 1} :
          /\ sdk.message.parts[i].type = "text"
          /\ UpdateMessage([sdk.message EXCEPT !.parts[i].size = @ + 1, !.usage = used],
                           [part |-> i, size |-> 1])

AfterMessage ==
    CASE sdk.phase = "assistant" /\ \A p \in ToSet(sdk.message.parts) : p.type # "toolCall"
            -> "settling"
      [] sdk.phase = "assistant" /\ \E p \in ToSet(sdk.message.parts) : p.type = "toolCall"
            -> "tool"
      [] OTHER -> "assistant"

EndMessage ==
    /\ sdk.phase \in {"user", "assistant", "toolResult"} /\ sdk.message # None
    /\ sdk' = [sdk EXCEPT !.phase = AfterMessage, !.message = None]
    /\ Handle(Persist(node, sdk.message), MessageEnd(conv, sdk.message, node.origin))
    /\ UNCHANGED <<toNode, answering>>

(* tool_execution_start and tool_execution_end *)
RunTool ==
    /\ sdk.phase \in {"tool", "toolRunning"}
    /\ sdk' = IF sdk.phase = "tool" THEN [sdk EXCEPT !.phase = "toolRunning"]
              ELSE [sdk EXCEPT !.phase = "toolResult", !.turns = @ + 1]
    /\ Handle(node, ToolActivity(conv, sdk.turns, IF sdk.phase = "tool" THEN "running" ELSE "done"))
    /\ UNCHANGED <<toNode, answering>>

(* agent_settled, which the SDK emits before its prompt() resolves *)
AgentSettled ==
    /\ sdk.phase = "settling"
    /\ sdk' = [sdk EXCEPT !.phase = "settled"]
    /\ Emit([node EXCEPT !.running = FALSE, !.shown = FALSE],
            IF node.shown THEN <<Running(FALSE)>> ELSE <<>>)
    /\ UNCHANGED <<conv, toNode, answering>>

(* completion.finally; #settleCommand is queued *)
PromptResolves ==
    /\ sdk.phase = "settled"
    /\ sdk' = [sdk EXCEPT !.phase = "idle"]
    /\ node' = [node EXCEPT !.inFlight = FALSE, !.origin = None, !.settled = TRUE]
    /\ UNCHANGED <<conv, toNode, answering, toClient>>

Agent ==
    /\ Len(toNode) + Len(toClient) < MaxWire
    /\ \/ AgentStart \/ StartMessage \/ AddPart \/ Stream \/ EndMessage \/ RunTool
       \/ AgentSettled \/ PromptResolves

Serve == ReadHistory \/ AnswerHistory \/ ReadTree \/ SubmitPrompt \/ Mutate \/ SettleCommand

NodeNext == Agent \/ Serve

(* getMessageContent of part i of an entry the client shows *)
ContentServed(e, i) == Fetchable(conv, Binding(node.session, e, i))

=============================================================================
