---------------------------- MODULE SessionSummary ---------------------------
(***************************************************************************)
(* What a list of sessions says of one: its title and times, fitted to the *)
(* protocol, and the time it was active.  The title comes back as evidence *)
(* when the session is deleted.                                            *)
(*   node/src/protocol/protobuf-domain-adapter.ts (toProtocolSessionSummary)*)
(*   protocol/src/frame_codec.ts                  (validateSessionSummary) *)
(*   node/src/pi-sdk-session-administration.ts  (assertConfirmationTitle)  *)
(*   node/src/pi-sdk-domain-session.ts (calculateSessionActiveTimeMillis)  *)
(*                                                                         *)
(* A text is a sequence of characters, of which there are letters, "wide"  *)
(* ones of three bytes, "blank" and "nul"; a time is a number, or NotTime. *)
(*                                                                         *)
(* An operator Faulty* is no part of the specification: it is the operator *)
(* below it with a plausible mistake, which a property must refute.        *)
(***************************************************************************)
EXTENDS Integers, SequencesExt, FiniteSetsExt

CONSTANTS
    MaxText,  \* MAX_SHORT_TEXT_BYTES
    NotTime   \* what is no time: NaN

ASSUME SummaryAssumption == MaxText \in Nat /\ MaxText >= 3 /\ NotTime \notin Int

-----------------------------------------------------------------------------
(* Texts *)

Bytes(text) == FoldLeft(LAMBDA n, c : n + (IF c = "wide" THEN 3 ELSE 1), 0, text)
WithoutNul(text) == SelectSeq(text, LAMBDA c : c # "nul")

Solid(text) == {i \in DOMAIN text : text[i] # "blank"}
Trim(text) == IF Solid(text) = {} THEN <<>> ELSE SubSeq(text, Min(Solid(text)), Max(Solid(text)))

Or(text, fallback) == IF text = <<>> THEN fallback ELSE text

(* The characters that fit, up to the first that does not. *)
Cut(text, max) ==
    SubSeq(text, 1, Max({n \in 0..Len(text) : Bytes(SubSeq(text, 1, n)) <= max}))

Unnamed == <<"unnamed">>
Untitled == <<"untitled">>

(* fitText, fitShortText *)
FitShortText(text) == Or(Cut(Or(Trim(WithoutNul(text)), Unnamed), MaxText), Unnamed)

(* validateRequiredShortText *)
AcceptsShortText(text) == Trim(text) # <<>> /\ Bytes(text) <= MaxText /\ text = WithoutNul(text)

-----------------------------------------------------------------------------
(* Times *)

PositiveMillis(time) == IF time = NotTime THEN 1 ELSE Max({1, time})

LaterMillis(time, minimum) == Max({PositiveMillis(time), minimum})

-----------------------------------------------------------------------------
(* toProtocolSessionSummary, of a name (<<>> if there is none) and the     *)
(* first message.                                                          *)
Title(session) == Or(Trim(session.name), Or(Trim(session.first), Untitled))

Summary(session) ==
    LET created == PositiveMillis(session.created)
    IN  [title |-> FitShortText(Title(session)), created |-> created,
         updated |-> LaterMillis(session.modified, created),
         hasName |-> Trim(session.name) # <<>>]

(* validateSessionSummary *)
AcceptsSummary(summary) ==
    /\ AcceptsShortText(summary.title)
    /\ summary.created > 0 /\ summary.updated >= summary.created

(* assertConfirmationTitle *)
FaultyConfirms(session, displayed) == Trim(displayed) # <<>> /\ Title(session) = Trim(displayed)
Confirms(session, displayed) == Trim(displayed) # <<>> /\ IsPrefix(Trim(displayed), Title(session))

(***************************************************************************)
(* Whatever is stored as its name, first message and times, a session can  *)
(* be listed, and the title that was listed confirms its deletion however  *)
(* it was fitted, unless it has a character that is left out.              *)
(***************************************************************************)
SummaryServed(session) ==
    /\ AcceptsSummary(Summary(session))
    /\ Title(session) = WithoutNul(Title(session)) =>
           Confirms(session, Summary(session).title)

-----------------------------------------------------------------------------
(* calculateSessionActiveTimeMillis, of messages [user, time] in the order *)
(* they were stored.  `start` is NotTime before the first user message.    *)

Stopped(turn) == turn.total + (IF turn.start = NotTime THEN 0 ELSE Max({0, turn.last - turn.start}))

FaultyActive(turn, message) == [turn EXCEPT !.last = message.time]
Active(turn, message) == [turn EXCEPT !.last = Max({@, message.time})]

Step(turn, message) ==
    IF message.time = NotTime THEN turn
    ELSE IF message.user THEN [total |-> Stopped(turn), start |-> message.time, last |-> message.time]
    ELSE IF turn.start # NotTime THEN Active(turn, message)
    ELSE turn

ActiveTime(messages) ==
    Stopped(FoldLeft(Step, [total |-> 0, start |-> NotTime, last |-> 0], messages))

(* The turn that message i of the user begins: up to the next of the user. *)
Starts(messages) == {i \in DOMAIN messages : messages[i].user /\ messages[i].time # NotTime}
TurnOf(messages, i) ==
    {j \in DOMAIN messages : j >= i /\ messages[j].time # NotTime
                                    /\ \A k \in Starts(messages) : ~(i < k /\ k <= j)}

(***************************************************************************)
(* A session was active from each message of the user to the last answer   *)
(* before the next one, by the clock: however their times are ordered, and *)
(* whatever has no time.                                                   *)
(***************************************************************************)
ActiveTimeRight(messages) ==
    ActiveTime(messages) =
        FoldSet(LAMBDA i, n : n + Max({messages[j].time : j \in TurnOf(messages, i)}) - messages[i].time,
                0, Starts(messages))
=============================================================================
