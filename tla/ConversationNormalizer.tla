----------------------- MODULE ConversationNormalizer -----------------------
(***************************************************************************)
(* The conversation of one SDK session, as the Node shows it: messages of  *)
(* the SDK become entries with revisions, and large parts become content   *)
(* that is fetched under a binding.                                        *)
(*   node/src/pi-sdk-conversation-normalizer.ts                            *)
(*                                                                         *)
(* A message is [n, role, parts, usage]: n is the identity of the SDK's    *)
(* object, a part [type, call, size].  Texts are the lengths they have.    *)
(* The operators take and return the state conv of a normalizer:           *)
(*     session    the SDK session it belongs to                            *)
(*     objects    the message objects that have a runtime identifier       *)
(*     entries    #runtimeEntries, in the order they were first set        *)
(*     active     #activeContentBindings                                   *)
(*     calls      #toolActivityByCallId                                    *)
(*                                                                         *)
(* An operator Faulty* is no part of the specification: it is the operator *)
(* below it with a plausible mistake, which a property must refute.        *)
(***************************************************************************)
EXTENDS Naturals, SequencesExt

CONSTANTS
    Inline,   \* the largest text sent within its entry (64 KiB in the code)
    None

References ==
    [entry : [scope : {"persistent", "runtime"}, n : Nat], entryRev : Nat, part : Nat,
     partRev : Nat, type : {"text", "thinking", "image"}, size : Nat]

ASSUME NormalizerAssumption == Inline \in Nat \ {0} /\ None \notin References

NewConversation(s) ==
    [session |-> s, objects |-> <<>>, entries |-> <<>>, active |-> {}, calls |-> {}]

-----------------------------------------------------------------------------
(* Entries *)

Large(source) ==
    \/ source.type = "image"
    \/ source.type \in {"text", "thinking"} /\ source.size > Inline

(* #part and #storeContent: a content identifier hashes all that it names. *)
Part(id, rev, i, source) ==
    [type |-> source.type, call |-> source.call, size |-> source.size, rev |-> rev,
     ref |-> IF Large(source)
             THEN [entry |-> id, entryRev |-> rev, part |-> i, partRev |-> rev,
                   type |-> source.type, size |-> source.size]
             ELSE None]

(* #messageEntry, #entryWithParts *)
Entry(id, message, origin, rev, final) ==
    [id |-> id, role |-> message.role, origin |-> origin, rev |-> rev, final |-> final,
     parts |-> [i \in DOMAIN message.parts |-> Part(id, rev, i, message.parts[i])],
     usage |-> message.usage, activities |-> {}]

PersistentId(i) == [scope |-> "persistent", n |-> i]
RuntimeId(i) == [scope |-> "runtime", n |-> i]

(* #persistentEntry, for the message at position i of the log *)
PersistentEntry(i, message) == Entry(PersistentId(i), message, None, 1, TRUE)

-----------------------------------------------------------------------------
(* Content *)

(* What a reader of entry e of session s asks for to get its i-th part. *)
Binding(s, e, i) ==
    [session |-> s, entry |-> e.id, part |-> i, entryRev |-> e.rev,
     partRev |-> e.parts[i].rev, content |-> e.parts[i].ref]

Bindings(s, e) == {Binding(s, e, i) : i \in {j \in DOMAIN e.parts : e.parts[j].ref # None}}

(* #activateEntryContent *)
FaultyActivate(conv, e) ==
    LET kept == {b \in conv.active : \E new \in Bindings(conv.session, e) : new.content = b.content}
    IN  [conv EXCEPT !.active = {b \in @ : b.entry # e.id} \cup kept
                                \cup {new \in Bindings(conv.session, e) :
                                          \A b \in kept : b.content # new.content}]
Activate(conv, e) ==
    [conv EXCEPT !.active = {b \in @ : b.entry # e.id} \cup Bindings(conv.session, e)]

(* persistentEntries: each of those given, which differ, is shown from now on *)
Show(conv, shown) ==
    [conv EXCEPT !.active = {b \in @ : \A e \in ToSet(shown) : b.entry # e.id}
                            \cup UNION {Bindings(conv.session, e) : e \in ToSet(shown)}]

(* getContent *)
Fetchable(conv, binding) == binding \in conv.active

-----------------------------------------------------------------------------
(* Events.  Each operator returns the normalizer's next state and the      *)
(* events it emits.                                                        *)

Upsert(e, previous) == [type |-> "upsert", entry |-> e, expected |-> previous]
Finalized(e, previous) == [type |-> "finalized", entry |-> e, expected |-> previous]
(* These name the revision of the entry they expect and the one they make. *)
Delta(previous, next, i, size) ==
    [type |-> "delta", id |-> previous.id, expected |-> previous.rev, rev |-> next.rev, part |-> i,
     partExpected |-> previous.parts[i].rev, partRev |-> next.parts[i].rev, size |-> size]
Metrics(previous, next) ==
    [type |-> "metrics", id |-> previous.id, expected |-> previous.rev, rev |-> next.rev,
     usage |-> next.usage]
Activity(previous, next, activity) ==
    [type |-> "activity", id |-> previous.id, expected |-> previous.rev, rev |-> next.rev,
     activity |-> activity]

Has(conv, id) == \E i \in DOMAIN conv.entries : conv.entries[i].id = id
Get(conv, id) == CHOOSE e \in ToSet(conv.entries) : e.id = id

Put(conv, e) ==
    [Activate(conv, e) EXCEPT !.entries =
        IF Has(conv, e.id)
        THEN [i \in DOMAIN @ |-> IF @[i].id = e.id THEN e ELSE @[i]]
        ELSE Append(@, e)]

Emits(conv, events) == [conv |-> conv, events |-> events]

(* runtimeMessageId: an object keeps the identifier it was given first. *)
Identify(conv, message) ==
    IF message.n \in ToSet(conv.objects) THEN conv
    ELSE [conv EXCEPT !.objects = Append(@, message.n)]
IdOf(conv, message) ==
    RuntimeId(CHOOSE i \in DOMAIN conv.objects : conv.objects[i] = message.n)

(* message_start *)
MessageStart(old, message, origin) ==
    LET conv == Identify(old, message)
        e == Entry(IdOf(conv, message), message, origin, 1, FALSE)
    IN  Emits(Put(conv, e), <<Upsert(e, None)>>)

(* assistantTextDelta: delta is [part, size], or None *)
IsDelta(previous, candidate, delta) ==
    /\ delta # None
    /\ delta.part \in DOMAIN previous.parts \cap DOMAIN candidate.parts
    /\ previous.parts[delta.part].type \in {"text", "thinking"}
    /\ candidate.parts[delta.part].type = previous.parts[delta.part].type
    /\ delta.size > 0

(* The entry after a delta: the other parts take the candidate's revision. *)
FaultyDeltaEntry(previous, candidate, delta) ==
    [candidate EXCEPT !.usage = IF previous.usage = None THEN @ ELSE previous.usage]
DeltaEntry(previous, candidate, delta) ==
    [candidate EXCEPT !.parts[delta.part].rev = previous.parts[delta.part].rev + 1,
                      !.usage = IF previous.usage = None THEN @ ELSE previous.usage]

(* message_update *)
MessageUpdate(conv, message, delta, origin) ==
    IF message.n \notin ToSet(conv.objects) \/ ~Has(conv, IdOf(conv, message))
    THEN MessageStart(conv, message, origin)
    ELSE LET id == IdOf(conv, message)
             previous == Get(conv, id)
             from == IF previous.origin = None THEN origin ELSE previous.origin
             candidate == Entry(id, message, from, previous.rev + 1, FALSE)
             isDelta == IsDelta(previous, candidate, delta)
             next == IF isDelta THEN DeltaEntry(previous, candidate, delta) ELSE candidate
             counted == [next EXCEPT !.rev = @ + 1, !.usage = candidate.usage]
             event == IF isDelta THEN Delta(previous, next, delta.part, delta.size)
                      ELSE Upsert(candidate, previous.rev)
         IN  IF candidate.usage \in {previous.usage, None}
             THEN Emits(Put(conv, next), <<event>>)
             ELSE Emits(Put(conv, counted), <<event, Metrics(next, counted)>>)

(* message_end *)
MessageEnd(old, message, origin) ==
    LET conv == Identify(old, message)
        id == IdOf(conv, message)
        known == Has(conv, id)
        rev == IF known THEN Get(conv, id).rev ELSE 0
        from == IF known /\ Get(conv, id).origin # None THEN Get(conv, id).origin ELSE origin
        e == Entry(id, message, from, rev + 1, TRUE)
    IN  Emits(Put(conv, e), <<Finalized(e, rev)>>)

(* #toolActivityEvent: it belongs to the latest assistant entry that has   *)
(* the call, and is dropped if none has.                                   *)
ToolActivity(conv, call, status) ==
    LET owners == {i \in DOMAIN conv.entries :
                      /\ conv.entries[i].role = "assistant"
                      /\ \E p \in ToSet(conv.entries[i].parts) : p.type = "toolCall" /\ p.call = call}
        owner == conv.entries[CHOOSE i \in owners : \A j \in owners : j <= i]
        before == {a \in conv.calls : a.call = call}
        activity == [call |-> call, status |-> status,
                     rev |-> IF before = {} THEN 1 ELSE (CHOOSE a \in before : TRUE).rev + 1]
        updated == [owner EXCEPT !.rev = @ + 1,
                                 !.activities = {a \in @ : a.call # call} \cup {activity}]
    IN  IF owners = {} THEN Emits(conv, <<>>)
        ELSE Emits([Put(conv, updated) EXCEPT !.calls = (@ \ before) \cup {activity}],
                   <<Activity(owner, updated, activity)>>)
=============================================================================
