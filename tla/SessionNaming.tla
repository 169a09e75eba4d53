---------------------------- MODULE SessionNaming ----------------------------
(***************************************************************************)
(* Names of sessions: what a user may call one, what is made of a model's  *)
(* suggestion, and the transcript the model is given for it.               *)
(*   node/src/pi-sdk-session-administration.ts                             *)
(*     (normalizeRequestedSessionName, sanitizeGeneratedSessionName,       *)
(*      boundedTranscript)                                                 *)
(*                                                                         *)
(* A text is a sequence of "letter", "blank", "control" (a control         *)
(* character that is no blank), "mark" (of markdown or quotation) and      *)
(* "title:", which stands for that word and its colon.                     *)
(*                                                                         *)
(* An operator Faulty* is no part of the specification: it is the operator *)
(* below it with a plausible mistake, which a property must refute.        *)
(***************************************************************************)
EXTENDS Integers, SequencesExt, FiniteSetsExt

CONSTANTS
    MaxName,        \* MAX_SESSION_NAME_CHARACTERS
    MaxAutoName,    \* MAX_AUTO_NAME_CHARACTERS
    MaxMessage,     \* MAX_AUTO_NAME_MESSAGE_CHARACTERS
    MaxTranscript   \* MAX_AUTO_NAME_CONTEXT_CHARACTERS

ASSUME NamingAssumption ==
    /\ MaxAutoName \in Nat \ {0} /\ MaxName \in Nat /\ MaxAutoName <= MaxName
    /\ MaxMessage \in Nat \ {0} /\ MaxTranscript \in Nat \ {0}

-----------------------------------------------------------------------------
(* Names *)

(* The text between its first and last character outside of Chars. *)
Strip(text, Chars) ==
    LET kept == {i \in DOMAIN text : text[i] \notin Chars}
    IN  IF kept = {} THEN <<>> ELSE SubSeq(text, Min(kept), Max(kept))

TrimName(text) == Strip(text, {"blank"})

(* A run of blanks becomes one. *)
Collapsed(text) ==
    FoldLeft(LAMBDA s, c : IF c = "blank" /\ s # <<>> /\ Last(s) = "blank" THEN s ELSE Append(s, c),
             <<>>, text)

ControlsBlank(text) == [i \in DOMAIN text |-> IF text[i] = "control" THEN "blank" ELSE text[i]]

WithoutTitle(text) ==
    IF text # <<>> /\ Head(text) = "title:"
    THEN SubSeq(text, 1 + Max({n \in 1..Len(text) : \A i \in 2..n : text[i] = "blank"}), Len(text))
    ELSE text

FirstOf(text, n) == SubSeq(text, 1, Min({n, Len(text)}))

(* The name a model suggests, <<>> if it is of no use: that is an error.   *)
FaultySanitized(text) ==
    LET line == WithoutTitle(Strip(TrimName(Collapsed(ControlsBlank(text))), {"blank", "mark"}))
    IN  TrimName(FirstOf(line, MaxAutoName))
Sanitized(text) ==
    LET line == WithoutTitle(Strip(TrimName(Collapsed(ControlsBlank(text))), {"blank", "mark"}))
    IN  TrimName(FirstOf(Strip(line, {"blank", "mark"}), MaxAutoName))

(* The name a user asks for, and whether it is one. *)
NormalizedName(text) == TrimName(Collapsed(text))
AcceptsName(text) ==
    /\ NormalizedName(text) # <<>> /\ Len(NormalizedName(text)) <= MaxName
    /\ "control" \notin ToSet(NormalizedName(text))

(***************************************************************************)
(* Whatever a model answers, the name it is made to is one that a user may *)
(* ask for, and then gets as it is; it begins with neither blanks nor      *)
(* markup; and an answer with any word in it is of use.                    *)
(***************************************************************************)
NameUsable(text) ==
    LET name == Sanitized(text) IN
    /\ name # <<>> =>
           AcceptsName(name) /\ NormalizedName(name) = name /\ Head(name) \notin {"blank", "mark"}
    /\ "letter" \in ToSet(text) => name # <<>>
    /\ AcceptsName(text) => NormalizedName(NormalizedName(text)) = NormalizedName(text)

-----------------------------------------------------------------------------
(* The transcript.  A message is the length of its text once trimmed, and  *)
(* its line one longer, for the role.                                      *)

LineOf(message) == 1 + (IF message > MaxMessage THEN MaxMessage ELSE message)

(* From the last message backwards; `over` once the loop is left. *)
FaultyTake(message, taken) ==
    IF taken.over \/ message = 0 THEN taken
    ELSE IF LineOf(message) > taken.remaining /\ taken.lines # <<>> THEN taken
    ELSE [lines |-> <<Min({LineOf(message), taken.remaining})>> \o taken.lines,
          remaining |-> taken.remaining - LineOf(message),
          over |-> LineOf(message) >= taken.remaining]
Take(message, taken) ==
    IF taken.over \/ message = 0 THEN taken
    ELSE IF LineOf(message) > taken.remaining /\ taken.lines # <<>> THEN [taken EXCEPT !.over = TRUE]
    ELSE [lines |-> <<Min({LineOf(message), taken.remaining})>> \o taken.lines,
          remaining |-> taken.remaining - LineOf(message),
          over |-> LineOf(message) >= taken.remaining]

BoundedTranscript(messages) ==
    FoldRight(Take, messages, [lines |-> <<>>, remaining |-> MaxTranscript, over |-> FALSE]).lines

Total(lines) == FoldLeft(+, 0, lines)

(***************************************************************************)
(* The model is given the end of the conversation: the longest that fits,  *)
(* whole messages without a gap among those with a text, or the beginning  *)
(* of the last one if that alone does not fit.                             *)
(***************************************************************************)
TranscriptRight(messages) ==
    LET spoken == SelectSeq(messages, LAMBDA m : m > 0)
        lines == [i \in DOMAIN spoken |-> LineOf(spoken[i])]
        fitting == {n \in 0..Len(lines) :
                       Total(SubSeq(lines, Len(lines) - n + 1, Len(lines))) <= MaxTranscript}
    IN  BoundedTranscript(messages) =
            IF lines # <<>> /\ Max(fitting) = 0 THEN <<MaxTranscript>>
            ELSE SubSeq(lines, Len(lines) - Max(fitting) + 1, Len(lines))
=============================================================================
