---------------------------- MODULE MessageParts ----------------------------
(***************************************************************************)
(* What is shown of a message of the SDK: its content, an array of parts   *)
(* that providers and extensions fill as they like, becomes sources, the   *)
(* parts of an entry, and parts of a frame, which the codec accepts.       *)
(*   node/src/pi-sdk-conversation-normalizer.ts   (contentSources, #part)  *)
(*   node/src/protocol/protobuf-domain-adapter.ts (toProtocol..Part)       *)
(*   protocol/src/frame_codec.ts               (validateConversationPart)  *)
(*                                                                         *)
(* A part of the SDK is [type, size, flag]: flag is "redacted", "deferred",*)
(* or "odd" for an image of another type than the supported ones; the size *)
(* of a tool call is that of its identifier.  A part of an unknown type,   *)
(* and an image without a byte, are shown as such.                         *)
(*                                                                         *)
(* An operator Faulty* is no part of the specification: it is the operator *)
(* below it with a plausible mistake, which a property must refute.        *)
(***************************************************************************)
EXTENDS Integers, SequencesExt

CONSTANTS
    MaxInline,   \* MAX_INLINE_TEXT_BYTES
    MaxContent,  \* MAX_CONTENT_BYTES
    MaxParts,    \* MAX_PARTS
    MaxIdentifier   \* MAX_IDENTIFIER_BYTES

ASSUME PartsAssumption ==
    /\ MaxInline \in Nat /\ MaxContent \in Nat /\ MaxInline <= MaxContent
    /\ MaxParts \in Nat \ {0} /\ MaxIdentifier \in Nat \ {0}

StoredParts ==
    [type : {"text"}, size : 1 .. MaxContent + 1, flag : {"none"}]
    \cup [type : {"thinking"}, size : 1 .. MaxContent + 1, flag : {"none", "redacted", "deferred"}]
    \cup [type : {"image"}, size : 0 .. MaxContent + 1, flag : {"none", "odd"}]
    \cup [type : {"toolCall"}, size : 0 .. MaxIdentifier + 1, flag : {"none"}]
    \cup [type : {"other"}, size : {1}, flag : {"none"}]

-----------------------------------------------------------------------------
Bounded(parts) == SubSeq(parts, 1, Min({MaxParts, Len(parts)}))

(* contentSources *)
Source(part) ==
    IF part.type = "thinking" /\ part.flag # "none" THEN [part EXCEPT !.size = 0] ELSE part

ContentSources(content) ==
    [i \in DOMAIN Bounded(content) |-> Source(content[i])]

Deferred == [type |-> "thinking", size |-> 0, flag |-> "deferred"]

(* assistantContentSources *)
AssistantSources(content, deferred) ==
    LET sources == ContentSources(content) IN
    IF deferred /\ ~Contains(sources, Deferred) THEN Append(sources, Deferred) ELSE sources

-----------------------------------------------------------------------------
(* #part, #storeContent, requireIdentifier.  Content larger than MaxContent*)
(* throws, and later an identifier of more than MaxIdentifier bytes: the   *)
(* page or event they belong to is not made.                               *)

Inlined(source) == [type |-> source.type, visibility |-> "visible", inline |-> source.size, ref |-> 0]
Referenced(source) == [type |-> source.type, visibility |-> "visible", inline |-> 0, ref |-> source.size]
Withheld(source) == [type |-> source.type, visibility |-> source.flag, inline |-> 0, ref |-> 0]
Bare(type) == [type |-> type, visibility |-> "visible", inline |-> 0, ref |-> 0]

Stored(source) == IF source.size <= MaxInline THEN Inlined(source) ELSE Referenced(source)

ShownPart(source) ==
    CASE source.type = "text" -> Stored(source)
      [] source.type = "thinking" -> IF source.flag = "none" THEN Stored(source) ELSE Withheld(source)
      [] source.type = "image" ->
            IF source.flag = "none" /\ source.size \in 1..MaxContent THEN Referenced(source)
            ELSE Bare("unsupported")
      [] source.type = "toolCall" -> [Bare("toolCall") EXCEPT !.inline = Max({1, source.size})]
      [] source.type = "other" -> Bare("unsupported")

(* #entryWithParts *)
FaultyShown(sources) == [i \in DOMAIN sources |-> ShownPart(sources[i])]
Shown(sources) == [i \in DOMAIN Bounded(sources) |-> ShownPart(sources[i])]

Throws(sources) ==
    \E i \in DOMAIN Bounded(sources) :
        \/ sources[i].type \in {"text", "thinking"} /\ sources[i].size > MaxContent
        \/ sources[i].type = "toolCall" /\ sources[i].size > MaxIdentifier

-----------------------------------------------------------------------------
(* toProtocolConversationPart: content is the case of the field, if it is  *)
(* set, and its length.                                                    *)
NoContent == [case |-> "undefined", size |-> 0]
Content(part) ==
    IF part.ref = 0 THEN [case |-> "inlineText", size |-> part.inline]
    ELSE [case |-> "contentReference", size |-> part.ref]

FramedPart(part) ==
    [type |-> part.type, visibility |-> part.visibility,
     content |-> IF part.type \in {"text", "thinking", "image"} /\ part.visibility = "visible"
                 THEN Content(part) ELSE NoContent]

(* validateBoundedPartContent, validateMessageContentReference *)
AcceptsContent(content) ==
    CASE content.case = "inlineText" -> content.size \in 1..MaxInline
      [] content.case = "contentReference" -> content.size \in 1..MaxContent
      [] OTHER -> FALSE

(* validateConversationPart; a tool call was checked before it came here.  *)
AcceptsPart(part) ==
    CASE part.type \in {"text", "thinking"} /\ part.visibility = "visible" ->
            AcceptsContent(part.content)
      [] part.type = "thinking" /\ part.visibility # "visible" -> part.content = NoContent
      [] part.type = "image" ->
            part.content.case = "contentReference" /\ AcceptsContent(part.content)
      [] OTHER -> TRUE

(* validateConversationEntry *)
AcceptsParts(parts) == Len(parts) <= MaxParts /\ \A i \in DOMAIN parts : AcceptsPart(parts[i])

-----------------------------------------------------------------------------
(***************************************************************************)
(* Whatever parts a message of an assistant has, unless a text of it or an *)
(* identifier is too large, the codec accepts what is shown of it; every   *)
(* byte of its texts is in its entry, or can be fetched if it does not fit *)
(* there; and nothing of a thought that was redacted or deferred is shown  *)
(* or can be fetched.  A message that was deferred says so, unless full.   *)
(***************************************************************************)
PartsServed(content, deferred) ==
    LET sources == AssistantSources(content, deferred)
        framed == [i \in DOMAIN Shown(sources) |-> FramedPart(Shown(sources)[i])]
    IN  ~Throws(sources) =>
            /\ AcceptsParts(framed)
            /\ \A i \in DOMAIN framed \cap DOMAIN content :
                  content[i].type \in {"text", "thinking"} =>
                      IF content[i].flag = "none"
                      THEN /\ framed[i].content.size = content[i].size
                           /\ framed[i].content.case =
                                 IF content[i].size <= MaxInline THEN "inlineText"
                                 ELSE "contentReference"
                      ELSE framed[i].content = NoContent
            /\ deferred /\ Len(content) < MaxParts =>
                  \E i \in DOMAIN framed :
                      framed[i].type = "thinking" /\ framed[i].visibility = "deferred"
=============================================================================
