----------------------------- MODULE SafeValues -----------------------------
(***************************************************************************)
(* Arguments and results of tools, of any shape, as they are shown: cut to *)
(* a bounded depth and size, without secrets, and as the codec accepts them*)
(*   node/src/pi-sdk-conversation-normalizer.ts       (normalizeSafeValue) *)
(*   node/src/protocol/protobuf-domain-adapter.ts    (toProtocolSafeValue) *)
(*   protocol/src/frame_codec.ts                       (validateSafeValue) *)
(*                                                                         *)
(* A value is a leaf [kind] ("cycle" is an object it lies within), a       *)
(* "string" with a size, a "list" of items, or an "object" with fields in  *)
(* the order of their keys.  A key is [size, secret, fitted]: whether what *)
(* is kept of it names a secret, and its [name, size] without the blanks   *)
(* around it ("Unnamed", of size 7, if nothing is left).                   *)
(*                                                                         *)
(* An operator Faulty* is no part of the specification: it is the operator *)
(* below it with a plausible mistake, which a property must refute.        *)
(***************************************************************************)
EXTENDS Naturals, SequencesExt

CONSTANTS
    MaxDepth,   \* MAX_SAFE_DEPTH, MAX_SAFE_VALUE_DEPTH
    MaxItems,   \* MAX_SAFE_ITEMS, MAX_SAFE_VALUE_ITEMS
    MaxString,  \* MAX_SAFE_STRING_BYTES
    MaxKey,     \* MAX_SAFE_KEY_BYTES
    MaxTotal,   \* MAX_SAFE_TOTAL_BYTES, MAX_SAFE_VALUE_BYTES
    Keys,       \* keys of objects
    Leaves,     \* values that contain no others
    MaxWraps    \* bound: how often a value is put into another

ASSUME SafeValuesAssumption ==
    /\ {MaxDepth, MaxItems, MaxString, MaxKey, MaxTotal, MaxWraps} \subseteq Nat
    /\ \A key \in Keys : key.size \in Nat /\ key.secret \in BOOLEAN

VARIABLES
    value,  \* what a tool was given or has returned
    wraps

valueVars == <<value, wraps>>

-----------------------------------------------------------------------------
(* normalizeSafeValueInner.  It returns the value, and the bytes of text   *)
(* there have been so far.                                                 *)

Redacted == [kind |-> "redacted"]
Shorter(m, n) == IF m < n THEN m ELSE n
FirstItems(s) == SubSeq(s, 1, Shorter(Len(s), MaxItems))

FaultyExhausted(depth, bytes) == bytes >= MaxTotal \/ depth > MaxDepth
Exhausted(depth, bytes) == bytes >= MaxTotal \/ depth >= MaxDepth

RECURSIVE Normalized(_, _, _)

NormalizedItem(done, item, depth) ==
    LET next == Normalized(item, depth + 1, done.bytes)
    IN  [values |-> Append(done.values, next.value), bytes |-> next.bytes]

CutKey(key) == [key EXCEPT !.size = Shorter(@, MaxKey)]

NormalizedField(done, field, depth) ==
    LET key == CutKey(field.key)
        bytes == done.bytes + key.size
        next == IF key.secret THEN [value |-> Redacted, bytes |-> bytes]
                ELSE Normalized(field.value, depth + 1, bytes)
    IN  [fields |-> Append(done.fields, [key |-> key, value |-> next.value]), bytes |-> next.bytes]

Normalized(v, depth, bytes) ==
    CASE Exhausted(depth, bytes) \/ v.kind = "cycle" -> [value |-> Redacted, bytes |-> bytes]
      [] ~Exhausted(depth, bytes) /\ v.kind = "string" ->
            LET size == Shorter(v.size, MaxString)
            IN  [value |-> [v EXCEPT !.size = size], bytes |-> bytes + size]
      [] ~Exhausted(depth, bytes) /\ v.kind = "list" ->
            LET done == FoldLeft(LAMBDA d, item : NormalizedItem(d, item, depth),
                                 [values |-> <<>>, bytes |-> bytes], FirstItems(v.values))
            IN  [value |-> [v EXCEPT !.values = done.values], bytes |-> done.bytes]
      [] ~Exhausted(depth, bytes) /\ v.kind = "object" ->
            LET done == FoldLeft(LAMBDA d, field : NormalizedField(d, field, depth),
                                 [fields |-> <<>>, bytes |-> bytes], FirstItems(v.fields))
            IN  [value |-> [v EXCEPT !.fields = done.fields], bytes |-> done.bytes]
      [] OTHER -> [value |-> v, bytes |-> bytes]

Safe(v) == Normalized(v, 0, 0).value

-----------------------------------------------------------------------------
(* validateSafeValue, on keys that toProtocolSafeValue has fitted          *)

Inside(v) ==
    CASE v.kind = "list" -> v.values
      [] v.kind = "object" -> [i \in DOMAIN v.fields |-> v.fields[i].value]
      [] OTHER -> <<>>

RECURSIVE BytesOf(_)
BytesOf(v) ==
    LET keys == IF v.kind = "object" THEN v.fields ELSE <<>>
    IN  CASE v.kind \in {"null", "redacted"} -> 1
          [] v.kind \in {"bool", "number"} -> 8
          [] v.kind = "string" -> v.size
          [] OTHER -> FoldLeft(LAMBDA n, x : n + BytesOf(x),
                               FoldLeft(LAMBDA n, f : n + f.key.fitted.size, 0, keys), Inside(v))

RECURSIVE Fits(_, _)
Fits(v, depth) ==
    /\ depth <= MaxDepth /\ Len(Inside(v)) <= MaxItems
    /\ \A x \in ToSet(Inside(v)) : Fits(x, depth + 1)

KeysDistinct(v) ==
    v.kind = "object" => \A i, j \in DOMAIN v.fields :
                            i # j => v.fields[i].key.fitted.name # v.fields[j].key.fitted.name
RECURSIVE AllDistinct(_)
AllDistinct(v) == KeysDistinct(v) /\ \A x \in ToSet(Inside(v)) : AllDistinct(x)

AcceptsSafeValue(v) == Fits(v, 0) /\ AllDistinct(v) /\ BytesOf(v) <= MaxTotal

-----------------------------------------------------------------------------
(* Values grow from the inside.  The keys of an object are not equal. *)

List(values) == [kind |-> "list", values |-> values]
Field(key, v) == [key |-> key, value |-> v]
Object(fields) == [kind |-> "object", fields |-> fields]

Wrapped(v) ==
    {List(<<x, v>>) : x \in Leaves} \cup {List(<<v, x, x>>) : x \in Leaves}
    \cup {Object(<<Field(k[1], v), Field(k[2], v)>>) : k \in {k \in Keys \X Keys : k[1] # k[2]}}

ValuesInit == value \in Leaves /\ wraps = 0
ValuesNext ==
    /\ wraps < MaxWraps /\ wraps' = wraps + 1
    /\ value' \in Wrapped(value)

-----------------------------------------------------------------------------
RECURSIVE NoSecrets(_)
NoSecrets(v) ==
    /\ v.kind = "object" => \A f \in ToSet(v.fields) : f.key.secret => f.value = Redacted
    /\ \A x \in ToSet(Inside(v)) : NoSecrets(x)

(***************************************************************************)
(* A value of any shape is shown without its secrets, and with less text   *)
(* than the limit, one string and the keys of the objects around it.  The  *)
(* codec accepts it, unless its numbers and last text take it over the     *)
(* limit or two keys differ in what is cut off them only: cycles, depth and*)
(* items never make it refuse an event.                                    *)
(* normalizeSafeValue, validateSafeValue                                   *)
(***************************************************************************)
SafeValuesBounded ==
    LET done == Normalized(value, 0, 0)
    IN  /\ NoSecrets(done.value)
        /\ done.bytes < MaxTotal + MaxString + MaxDepth * MaxItems * MaxKey
        /\ AcceptsSafeValue(done.value)
           \/ BytesOf(done.value) > MaxTotal \/ ~AllDistinct(done.value)
=============================================================================
