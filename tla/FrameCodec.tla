----------------------------- MODULE FrameCodec -----------------------------
(***************************************************************************)
(* What the Node says to its client about a session, as frames: every frame*)
(* is validated before it is encoded, and one that is refused is not sent. *)
(* A refused answer fails the request; a refused event closes the stream.  *)
(*   protocol/src/frame_codec.ts                 (validateTransportFrame)  *)
(*   node/src/protocol/protobuf-domain-adapter.ts     (toProtocolEntry ...)*)
(*                                                                         *)
(* Identifiers, names and times are taken to be acceptable.                *)
(***************************************************************************)
EXTENDS DomainSession, SessionTree

-----------------------------------------------------------------------------
(* Entries *)

(* toProtocolConversationPart, toProtocolContentReference *)
FramedContent(part) ==
    IF part.ref = None THEN [case |-> "inlineText", size |-> part.size]
    ELSE [case |-> "contentReference", size |-> part.ref.size]

FramedPart(part) ==
    [type |-> part.type, revision |-> part.rev,
     content |-> IF part.type \in {"text", "thinking", "image"} THEN FramedContent(part) ELSE None]

(* toProtocolToolActivity *)
FramedActivity(activity) ==
    [toolCallId |-> activity.call, revision |-> activity.rev, status |-> activity.status]

(* toProtocolConversationEntry *)
FramedEntry(e) ==
    [entryId |-> e.id, revision |-> e.rev, finalized |-> e.final, kind |-> e.role,
     parts |-> [i \in DOMAIN e.parts |-> FramedPart(e.parts[i])],
     toolActivities |-> {FramedActivity(a) : a \in e.activities}]

(* toProtocolConversationPage *)
FramedPage(page) ==
    [entries |-> [i \in DOMAIN page.entries |-> FramedEntry(page.entries[i])]]

(* validateMessageContentReference, validateInlineConversationText *)
AcceptsContent(content) ==
    IF content.case = "inlineText" THEN content.size \in 1..Inline ELSE content.size > 0

(* validateConversationPart *)
AcceptsPart(part) ==
    /\ part.revision > 0
    /\ part.type \in {"text", "thinking"} => AcceptsContent(part.content)
    /\ part.type = "image" =>
           part.content.case = "contentReference" /\ AcceptsContent(part.content)

(* validateToolActivity *)
AcceptsActivity(activity) == activity.revision > 0

(* validateConversationEntry *)
AcceptsEntry(e) ==
    /\ e.revision > 0
    /\ \A part \in ToSet(e.parts) : AcceptsPart(part)
    /\ \A a \in e.toolActivities : AcceptsActivity(a)
    /\ \A a, b \in e.toolActivities : a.toolCallId = b.toolCallId => a = b

(* validateConversationPage *)
AcceptsPage(page) ==
    /\ \A e \in ToSet(page.entries) : AcceptsEntry(e)
    /\ IsInjective([i \in DOMAIN page.entries |-> page.entries[i].entryId])
    /\ Len(page.entries) <= Limit

-----------------------------------------------------------------------------
(* Events *)

(* validateRevisionTransition *)
Advances(expected, resulting) == expected > 0 /\ resulting = expected + 1

AcceptsEvent(event) ==
    CASE event.type = "upsert" ->
            AcceptsEntry(FramedEntry(event.entry)) /\ (event.expected = None \/ event.expected > 0)
      [] event.type = "finalized" ->
            AcceptsEntry(FramedEntry(event.entry)) /\ event.entry.final /\ event.expected > 0
      [] event.type = "delta" ->
            /\ Advances(event.expected, event.rev) /\ Advances(event.partExpected, event.partRev)
            /\ event.size <= Inline
      [] event.type = "activity" ->
            Advances(event.expected, event.rev) /\ AcceptsActivity(FramedActivity(event.activity))
      [] event.type = "metrics" -> Advances(event.expected, event.rev)
      [] event.type \in {"running", "completed"} -> TRUE

-----------------------------------------------------------------------------
(* The tree *)

StoredEntries ==
    [i \in DOMAIN node.log |-> [parent |-> node.log[i].parent,
                                user |-> node.log[i].message.role = "user"]]
TreeSnapshot == Tree(StoredEntries, Branch, node.leaf, TRUE)

-----------------------------------------------------------------------------
(* validateTransportFrame, for what a session is served with *)
AcceptsFrame(m) ==
    CASE m.kind \in {"page", "older"} -> m.ok => AcceptsPage(FramedPage(m))
      [] m.kind = "event" -> AcceptsEvent(m.event)
      [] OTHER -> TRUE

(***************************************************************************)
(* The Node's codec accepts what its session says: revisions that advance  *)
(* one at a time however deltas, metrics, activities and replacements of an*)
(* entry follow each other, pages without an entry twice, and a tree whose *)
(* flags and active path agree after any change of branch.  Otherwise an   *)
(* event closes the stream and a page cannot be read.                      *)
(* #sendSessionEvent, sendOperation, validateTransportFrame                *)
(***************************************************************************)
FramesAccepted ==
    /\ toClient # <<>> => AcceptsFrame(Head(toClient))
    /\ Request("tree") => AcceptsTree(TreeSnapshot)

(***************************************************************************)
(* A page of history can always be read: old entries, those of the shell   *)
(* too, remain renderable.  A shell command that printed nothing is stored *)
(* as a text of length 0, which the codec refuses.                         *)
(* docs/baseline.md, #messageEntry, validateBoundedPartContent             *)
(***************************************************************************)
HistoryRenderable == answering # NoAnswer => AcceptsFrame(answering)
=============================================================================
