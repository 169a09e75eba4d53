----------------------------- MODULE IpcFraming -----------------------------
(***************************************************************************)
(* Frames on a byte stream: a length prefix, then the payload, cut into    *)
(* chunks anywhere by the pipe.                                            *)
(*   protocol/src/ipc_length_prefix.ts                                     *)
(*   node/src/stdio/pi-node-stdio-server.ts                                *)
(***************************************************************************)
EXTENDS Naturals, Sequences, SequencesExt

CONSTANTS
    Base,           \* values of a byte, 256
    PrefixBytes,    \* PREFIX_BYTES
    MaxFrameBytes,  \* MAX_FRAME_BYTES
    Payloads,       \* payloads a writer may be given
    MaxFrames       \* bound: frames of the writer

(* A length without the last k of its bytes: `length >>> 8 * k`. *)
Shifted(length) ==
    LET shifted[k \in 0 .. PrefixBytes] == IF k = 0 THEN length ELSE shifted[k - 1] \div Base
    IN  shifted

(* The longest frame's length fits in a prefix. *)
ASSUME FramingAssumption ==
    /\ Base \in Nat \ {0, 1} /\ PrefixBytes \in Nat \ {0} /\ MaxFrames \in Nat
    /\ MaxFrameBytes \in Nat \ {0}
    /\ \A length \in 1 .. MaxFrameBytes : Shifted(length)[PrefixBytes] = 0
    /\ Payloads \subseteq Seq(0 .. Base - 1)

VARIABLES
    written,  \* the payloads written, the last of them not quite if `writer` is "torn"
    stream,   \* bytes in the pipe
    writer,   \* "open", "ended" or "torn"
    pending,  \* #pending
    frames,   \* what the decoder returned
    reader    \* "reading", "finished" or "failed"

framingVars == <<written, stream, writer, pending, frames, reader>>

FramingInit ==
    /\ written = <<>> /\ stream = <<>> /\ writer = "open"
    /\ pending = <<>> /\ frames = <<>> /\ reader = "reading"

-----------------------------------------------------------------------------
Allowed(length) == 0 < length /\ length <= MaxFrameBytes

(* setUint32 and getUint32, the most significant byte first. *)
Prefix(length) == [i \in 1 .. PrefixBytes |-> Shifted(length)[PrefixBytes - i] % Base]
Length(bytes) ==
    LET value[k \in 0 .. PrefixBytes] == IF k = 0 THEN 0 ELSE value[k - 1] * Base + bytes[k]
    IN  value[PrefixBytes]

Encoded(payload) == Prefix(Len(payload)) \o payload

(* A payload that is empty or too long is not written. *)
Write(payload) ==
    /\ writer = "open" /\ Len(written) < MaxFrames /\ Allowed(Len(payload))
    /\ stream' = stream \o Encoded(payload)
    /\ written' = Append(written, payload)
    /\ UNCHANGED <<writer, pending, frames, reader>>

(* The writer ends, or dies having written a part of a frame. *)
End ==
    /\ writer = "open" /\ writer' = "ended"
    /\ UNCHANGED <<written, stream, pending, frames, reader>>

Tear(payload, part) ==
    /\ writer = "open" /\ Len(written) < MaxFrames /\ Allowed(Len(payload))
    /\ part \in 1 .. Len(Encoded(payload)) - 1
    /\ stream' = stream \o SubSeq(Encoded(payload), 1, part)
    /\ written' = Append(written, payload)
    /\ writer' = "torn"
    /\ UNCHANGED <<pending, frames, reader>>

-----------------------------------------------------------------------------
(* The loop of push: a whole frame is taken off the bytes at a time.       *)

From(bytes, n) == SubSeq(bytes, n + 1, Len(bytes))

FaultyTakeFrameOff(d) ==
    IF Len(d.rest) <= PrefixBytes \/ Len(d.rest) < PrefixBytes + Length(d.rest) THEN d
    ELSE [d EXCEPT !.found = Append(@, SubSeq(d.rest, PrefixBytes, PrefixBytes + Length(d.rest) - 1)),
                   !.rest = From(@, PrefixBytes + Length(d.rest))]
TakeFrameOff(d) ==
    IF ~d.valid \/ Len(d.rest) < PrefixBytes THEN d
    ELSE IF ~Allowed(Length(d.rest)) THEN [d EXCEPT !.valid = FALSE]
    ELSE IF Len(d.rest) < PrefixBytes + Length(d.rest) THEN d
    ELSE [d EXCEPT !.found = Append(@, SubSeq(d.rest, PrefixBytes + 1, PrefixBytes + Length(d.rest))),
                   !.rest = From(@, PrefixBytes + Length(d.rest))]

FaultyDecoded(bytes) == TakeFrameOff([valid |-> TRUE, found |-> <<>>, rest |-> bytes])
Decoded(bytes) ==
    LET after[n \in 0 .. Len(bytes)] ==
            IF n = 0 THEN [valid |-> TRUE, found |-> <<>>, rest |-> bytes]
            ELSE TakeFrameOff(after[n - 1])
    IN  after[Len(bytes)]

Combined(chunk) == pending \o chunk

(* push: a bad prefix loses the frames before it that came in one chunk. *)
Push(n) ==
    /\ reader = "reading" /\ n \in 1 .. Len(stream)
    /\ LET d == Decoded(Combined(SubSeq(stream, 1, n)))
       IN  \/ /\ d.valid
              /\ frames' = frames \o d.found /\ pending' = d.rest /\ UNCHANGED reader
           \/ /\ ~d.valid
              /\ reader' = "failed" /\ UNCHANGED <<pending, frames>>
    /\ stream' = From(stream, n)
    /\ UNCHANGED <<written, writer>>

(* finish: bytes that are left are an error. *)
FaultyWhole == TRUE
Whole == pending = <<>>

Finish ==
    /\ reader = "reading" /\ writer # "open" /\ stream = <<>>
    /\ reader' = IF Whole THEN "finished" ELSE "failed"
    /\ UNCHANGED <<written, stream, writer, pending, frames>>

FramingNext ==
    \/ \E payload \in Payloads :
          Write(payload) \/ \E part \in 1 .. PrefixBytes + MaxFrameBytes : Tear(payload, part)
    \/ \E n \in 1 .. Len(stream) : Push(n)
    \/ End \/ Finish

FramingSpec == FramingInit /\ [][FramingNext]_framingVars

-----------------------------------------------------------------------------
(* Properties.                                                             *)

(***************************************************************************)
(* However the pipe cuts the bytes, the decoder returns the payloads that  *)
(* were written, whole and in their order, and no others, and keeps less   *)
(* than one frame of the largest size.  The end of the stream is taken for *)
(* a good one exactly if every payload was written whole and returned: a   *)
(* cut frame is noticed, a whole one never left behind, and the prefixes   *)
(* of honest writers are never bad.                                        *)
(***************************************************************************)
FramesExact ==
    /\ IsPrefix(frames, written)
    /\ Len(pending) < PrefixBytes + MaxFrameBytes
    /\ reader = "finished" => writer = "ended" /\ frames = written
    /\ reader = "failed" => writer = "torn" /\ frames = Front(written)
=============================================================================
