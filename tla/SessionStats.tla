---------------------------- MODULE SessionStats -----------------------------
(***************************************************************************)
(* The statistics of a session: the SDK knows how full the context is, or  *)
(* the window only (after a compaction, until the next answer), or nothing *)
(* (no model).  The protocol has no null: each of the three has a form.    *)
(*   node/src/pi-sdk-domain-session.ts            (getStats)               *)
(*   node/src/protocol/protobuf-domain-adapter.ts (toProtocolSessionStats) *)
(*   protocol/src/frame_codec.ts                  (getSessionStatsResponse)*)
(*   lib/protocol/protobuf_pi_protocol_codec.dart (the client)             *)
(*                                                                         *)
(* A context is [known, window, tokens, percent]; tokens and percent are   *)
(* Unset if the SDK has null.  A head is [branch, detached].               *)
(*                                                                         *)
(* An operator Faulty* is no part of the specification: it is the operator *)
(* below it with a plausible mistake, which a property must refute.        *)
(***************************************************************************)
EXTENDS Integers

CONSTANT Unset   \* undefined, null

ASSUME StatsAssumption == Unset \notin Int

NoContext == [known |-> FALSE, window |-> Unset, tokens |-> Unset, percent |-> Unset]

(* A count is a fraction of the window: one is null if the other is. *)
Contexts(Windows, Counts) ==
    {NoContext}
    \cup [known : {TRUE}, window : Windows, tokens : {Unset}, percent : {Unset}]
    \cup [known : {TRUE}, window : Windows, tokens : Counts, percent : Counts]

(* On a branch, detached, and a directory outside of any repository. *)
Heads == {[branch |-> "main", detached |-> FALSE], [branch |-> Unset, detached |-> TRUE],
          [branch |-> Unset, detached |-> FALSE]}

-----------------------------------------------------------------------------
(* getStats *)
FaultyStats(context, head) ==
    [window |-> context.window, tokens |-> IF context.tokens = 0 THEN Unset ELSE context.tokens,
     percent |-> context.percent, head |-> head]
Stats(context, head) ==
    [window |-> context.window, tokens |-> context.tokens, percent |-> context.percent,
     head |-> head]

Or0(value) == IF value = Unset THEN 0 ELSE value

(* toProtocolSessionStats *)
StatsSnapshot(stats) ==
    [hasContextUsage |-> stats.window # Unset, contextTokensKnown |-> stats.tokens # Unset,
     contextTokens |-> Or0(stats.tokens), contextWindow |-> Or0(stats.window),
     contextPercent |-> Or0(stats.percent),
     branch |-> IF stats.head.branch = Unset THEN "" ELSE stats.head.branch,
     isDetachedHead |-> stats.head.detached]

(* getSessionStatsResponse in validateTransportFrame *)
AcceptsStats(s) ==
    /\ s.isDetachedHead => s.branch = ""
    /\ IF s.hasContextUsage
       THEN /\ s.contextWindow > 0
            /\ IF s.contextTokensKnown THEN s.contextTokens >= 0 /\ s.contextPercent >= 0
               ELSE s.contextTokens = 0 /\ s.contextPercent = 0
       ELSE ~s.contextTokensKnown /\ s.contextTokens = 0 /\ s.contextWindow = 0 /\ s.contextPercent = 0

(* _decodeSessionStats of the client *)
DecodedStats(s) ==
    LET known == s.hasContextUsage /\ s.contextTokensKnown
    IN  [window |-> IF s.hasContextUsage THEN s.contextWindow ELSE Unset,
         tokens |-> IF known THEN s.contextTokens ELSE Unset,
         percent |-> IF known THEN s.contextPercent ELSE Unset,
         head |-> [branch |-> IF s.branch = "" THEN Unset ELSE s.branch,
                   detached |-> s.isDetachedHead]]

(***************************************************************************)
(* What the SDK and git know reaches the user through a protocol without a *)
(* null, which the codec checks: an empty context is not an unknown one,   *)
(* nor is a known window a known use of it.                                *)
(***************************************************************************)
StatsServed(context, head) ==
    LET snapshot == StatsSnapshot(Stats(context, head)) IN
    /\ AcceptsStats(snapshot)
    /\ DecodedStats(snapshot) = [window |-> context.window, tokens |-> context.tokens,
                            percent |-> context.percent, head |-> head]
=============================================================================
