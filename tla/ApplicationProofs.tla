------------------------- MODULE ApplicationProofs -------------------------
(***************************************************************************)
(* Proofs about what an application owns, each component by its own        *)
(* specification and invariant.                                            *)
(*                                                                         *)
(* Nothing of a Node outlives it.  An embedded runtime which was stopped   *)
(* holds nothing, at whatever point of its start or stop it was, and       *)
(* whichever step failed.  An application never hosts two Nodes, hosts     *)
(* none when it has closed, and shows a connection only if there is one:   *)
(* for any number of connections.                                          *)
(*                                                                         *)
(* An export saves what was on view, for any finite or infinite set of     *)
(* sessions, any number of exports, revisions, selections and transfers.   *)
(* Its inductive invariant has three parts beside the types, each          *)
(* inductive given the ones before it:                                     *)
(*   Copies    where an export is while the Node holds a transfer of it;   *)
(*   Contents  which revision its file has, from the look at the revision  *)
(*             before the SDK writes it to the user's file;                *)
(*   Turns     which export the workspace is busy with, by generations.    *)
(* TLC finds no state of the run `view_and_export` that violates it.       *)
(***************************************************************************)
EXTENDS PiNodeRuntime, HostedNode, SessionExport, TLAPS

-----------------------------------------------------------------------------
(* An embedded runtime.                                                    *)

StartUnderWay == starting \in {"authorizing", "services", "creating", "flushing"}
StopPastStart == stopping \in {"aborting", "disposing", "flushing", "stopped", "failed"}

(* There is a session only of a start that succeeded. *)
SessionOfStart == sdk # "none" => starting = "ready"

(* A stop waits until the start is over, and without a start there is      *)
(* nothing to wait for; a start is not begun after a stop.                 *)
StopFollowsStart ==
    /\ StopPastStart => ~StartUnderWay
    /\ stopping \in {"aborting", "disposing", "flushing"} => starting = "ready"
    /\ starting = "no" => stopping \in {"no", "stopped"}
    /\ lifecycle = "created" <=> stopping = "no" /\ starting = "no"

(* What could not be disposed is known to the stop. *)
DisposalKnown ==
    /\ stopping \in {"flushing", "failed"} /\ sdk = "live" => "dispose" \in errors
    /\ stopping = "stopped" => sdk # "live"

RuntimeInv == RuntimeTypeOK /\ SessionOfStart /\ StopFollowsStart /\ DisposalKnown

LEMMA RuntimeInvInitially == RuntimeInit => RuntimeInv
  BY DEF RuntimeInit, RuntimeInv, RuntimeTypeOK, SessionOfStart, StopFollowsStart, DisposalKnown,
         Lifecycle, Starting, Stopping, StartUnderWay, StopPastStart

LEMMA StartKeepsRuntimeInv ==
  ASSUME RuntimeInv,
         Start \/ Authorizes \/ ServicesCreated \/ SessionCreated \/ FactoryFlushed
  PROVE  RuntimeInv'
<1> USE DEF RuntimeInv, RuntimeTypeOK, SessionOfStart, StopFollowsStart, DisposalKnown,
            Lifecycle, Starting, Stopping, StartUnderWay, StopPastStart
<1>1. CASE Start           BY <1>1 DEF Start
<1>2. CASE Authorizes      BY <1>2 DEF Authorizes, StartFailed
<1>3. CASE ServicesCreated BY <1>3 DEF ServicesCreated
<1>4. CASE SessionCreated  BY <1>4 DEF SessionCreated
<1>5. CASE FactoryFlushed  BY <1>5 DEF FactoryFlushed, StartFailed
<1> QED BY <1>1, <1>2, <1>3, <1>4, <1>5

LEMMA StopKeepsRuntimeInv ==
  ASSUME RuntimeInv,
         Stop \/ StartAwaited \/ Aborted \/ SessionDisposed \/ SettingsFlushed
  PROVE  RuntimeInv'
<1> USE DEF RuntimeInv, RuntimeTypeOK, SessionOfStart, StopFollowsStart, DisposalKnown,
            Lifecycle, Starting, Stopping, StartUnderWay, StopPastStart
<1>1. CASE Stop            BY <1>1 DEF Stop
<1>2. CASE StartAwaited    BY <1>2 DEF StartAwaited
<1>3. CASE Aborted         BY <1>3 DEF Aborted
<1>4. CASE SessionDisposed BY <1>4 DEF SessionDisposed
<1>5. CASE SettingsFlushed BY <1>5 DEF SettingsFlushed
<1> QED BY <1>1, <1>2, <1>3, <1>4, <1>5

LEMMA RuntimeInvKept == RuntimeInv /\ [RuntimeNext]_runtimeVars => RuntimeInv'
<1> SUFFICES ASSUME RuntimeInv, [RuntimeNext]_runtimeVars PROVE RuntimeInv'
  OBVIOUS
<1>1. CASE RuntimeNext
  BY <1>1, StartKeepsRuntimeInv, StopKeepsRuntimeInv DEF RuntimeNext, RuntimeContinues
<1>2. CASE UNCHANGED runtimeVars
  BY <1>2 DEF runtimeVars, RuntimeInv, RuntimeTypeOK, SessionOfStart, StopFollowsStart,
              DisposalKnown, StartUnderWay, StopPastStart
<1> QED BY <1>1, <1>2

(* Of the runtime's own specification.  A stop that is over leaves no      *)
(* session of the SDK alive, and none comes to life later, unless the SDK  *)
(* could not dispose it and the stop has failed.  PiNodeRuntime.stop       *)
THEOREM StopReleases == RuntimeSpec => []StoppedIsReleased
<1>1. RuntimeInv => StoppedIsReleased
  BY DEF RuntimeInv, RuntimeTypeOK, SessionOfStart, StopFollowsStart, DisposalKnown,
         StoppedIsReleased, Starting, StartUnderWay, StopPastStart
<1> QED BY <1>1, RuntimeInvInitially, RuntimeInvKept, PTL DEF RuntimeSpec

-----------------------------------------------------------------------------
(* The Nodes an application hosts.                                         *)

(* Three steps of _connectFresh and one of _close own a session, or the    *)
(* process of one; no two of them at a time.                               *)
OneOwner ==
    /\ hosted # 0 => disposed = 0 /\ connecting \in {"idle", "handshaking"}
    /\ connecting = "handshaking" => hosted # 0
    /\ disposed # 0 => connecting \in {"disposing", "undoing"} \/ apiClosing = "disposing"
    /\ apiClosing \in {"disposing", "closed"} => connecting = "idle" /\ hosted = 0

(* Every process that lives is the one of that owner. *)
Accounted ==
    \A g \in Hosts : process[g] = "alive" =>
        \/ g = hosted
        \/ g = disposed
        \/ connecting = "started" /\ g = Mine

(* The generation of what connects; close() takes the one after it.        *)
GenerationCounts ==
    /\ connecting # "idle" => Mine \in Hosts
    /\ ~ApiClosed => generation <= MaxConnects

ShownWhileIdle == shownLink = "connected" => connecting = "idle" /\ ~ApiClosed

HostedInv ==
    HostedTypeOK /\ OneOwner /\ Accounted /\ GenerationCounts /\ ShownIsHosted /\ ShownWhileIdle

LEMMA HostedInvInitially == HostedInit => HostedInv
  BY HostedAssumption
     DEF HostedInit, HostedInv, HostedTypeOK, OneOwner, Accounted, GenerationCounts, ShownIsHosted,
         ShownWhileIdle, Hosts, Steps, Links, ApiClosed

-----------------------------------------------------------------------------
(* What a disposal leaves: no process of the session it was given.         *)
LEMMA EndedLives ==
  ASSUME HostedTypeOK
  PROVE  /\ EndedDisposed \in [Hosts -> {"none", "alive", "dead"}]
         /\ \A g \in Hosts : EndedDisposed[g] = "alive" => process[g] = "alive" /\ g # disposed
<1>1. CASE disposed = 0
  BY <1>1 DEF HostedTypeOK, EndedDisposed, Hosts
<1>2. CASE disposed # 0
  <2>1. EndedDisposed = [g \in Hosts |-> IF g = disposed /\ process[g] = "alive" THEN "dead"
                                          ELSE process[g]]
    BY <1>2 DEF HostedTypeOK, EndedDisposed, Ended, Hosts
  <2> QED BY <2>1 DEF HostedTypeOK
<1> QED BY <1>1, <1>2

LEMMA ConnectKeepsHostedInv == HostedInv /\ Connect => HostedInv'
  BY HostedAssumption
     DEF Connect, Disposes, HostedInv, HostedTypeOK, OneOwner, Accounted, GenerationCounts,
         ShownIsHosted, ShownWhileIdle, Hosts, Steps, Links, ApiClosed, Mine

LEMMA OldDisposedKeepsHostedInv == HostedInv /\ OldDisposed => HostedInv'
  BY HostedAssumption, EndedLives
     DEF OldDisposed, Shown, HostedInv, HostedTypeOK, OneOwner, Accounted, GenerationCounts,
         ShownIsHosted, ShownWhileIdle, Hosts, Steps, Links, ApiClosed, Mine

LEMMA LaunchKeepsHostedInv == HostedInv /\ (Launched \/ LaunchFails) => HostedInv'
  BY HostedAssumption
     DEF Launched, LaunchFails, Shown, HostedInv, HostedTypeOK, OneOwner, Accounted,
         GenerationCounts, ShownIsHosted, ShownWhileIdle, Hosts, Steps, Links, ApiClosed, Mine

LEMMA StartedKeepsHostedInv == HostedInv /\ Started => HostedInv'
  BY HostedAssumption
     DEF Started, HostedInv, HostedTypeOK, OneOwner, Accounted, GenerationCounts,
         ShownIsHosted, ShownWhileIdle, Hosts, Steps, Links, ApiClosed, Mine

LEMMA HandshakeKeepsHostedInv == HostedInv /\ (Accepted \/ HandshakeFails) => HostedInv'
  BY HostedAssumption
     DEF Accepted, HandshakeFails, Shown, Disposes, HostedInv, HostedTypeOK, OneOwner, Accounted,
         GenerationCounts, ShownIsHosted, ShownWhileIdle, Hosts, Steps, Links, ApiClosed, Mine

LEMMA UndoneKeepsHostedInv == HostedInv /\ Undone => HostedInv'
  BY HostedAssumption, EndedLives
     DEF Undone, Shown, HostedInv, HostedTypeOK, OneOwner, Accounted, GenerationCounts,
         ShownIsHosted, ShownWhileIdle, Hosts, Steps, Links, ApiClosed, Mine

LEMMA CloseKeepsHostedInv == HostedInv /\ (Close \/ ConnectingAwaited) => HostedInv'
  BY HostedAssumption
     DEF Close, ConnectingAwaited, Disposes, HostedInv, HostedTypeOK, OneOwner, Accounted,
         GenerationCounts, ShownIsHosted, ShownWhileIdle, Hosts, Steps, Links, ApiClosed, Mine

LEMMA AllDisposedKeepsHostedInv == HostedInv /\ AllDisposed => HostedInv'
  BY HostedAssumption, EndedLives
     DEF AllDisposed, HostedInv, HostedTypeOK, OneOwner, Accounted, GenerationCounts,
         ShownIsHosted, ShownWhileIdle, Hosts, Steps, Links, ApiClosed, Mine

LEMMA FailureKeepsHostedInv == HostedInv /\ (LinkFails \/ \E g \in Hosts : Dies(g)) => HostedInv'
  BY HostedAssumption
     DEF LinkFails, Dies, Ended, Shown, HostedInv, HostedTypeOK, OneOwner, Accounted,
         GenerationCounts, ShownIsHosted, ShownWhileIdle, Hosts, Steps, Links, ApiClosed, Mine

LEMMA HostedInvKept == HostedInv /\ [HostedNext]_hostedVars => HostedInv'
<1> SUFFICES ASSUME HostedInv, [HostedNext]_hostedVars PROVE HostedInv'
  OBVIOUS
<1>1. CASE HostedNext
  BY <1>1, ConnectKeepsHostedInv, OldDisposedKeepsHostedInv, LaunchKeepsHostedInv,
     StartedKeepsHostedInv, HandshakeKeepsHostedInv, UndoneKeepsHostedInv, CloseKeepsHostedInv,
     AllDisposedKeepsHostedInv, FailureKeepsHostedInv
     DEF HostedNext, HostedContinues
<1>2. CASE UNCHANGED hostedVars
  BY <1>2 DEF hostedVars, HostedInv, HostedTypeOK, OneOwner, Accounted, GenerationCounts,
              ShownIsHosted, ShownWhileIdle, ApiClosed, Mine
<1> QED BY <1>1, <1>2

LEMMA HostedInvAlways == HostedSpec => []HostedInv
  BY HostedInvInitially, HostedInvKept, PTL DEF HostedSpec

-----------------------------------------------------------------------------
(* There are never two Node processes and none after close(), for any      *)
(* number of connections made, failed, and closed meanwhile; and what is   *)
(* shown as connected is.  _connectFresh, _close, _emitConnection          *)
THEOREM HostingCorrect == HostedSpec => []HostingRight
<1>1. HostedInv => OneNode
  BY DEF HostedInv, HostedTypeOK, OneOwner, Accounted, OneNode, Hosts
<1>2. HostedInv => NothingHosted
  BY DEF HostedInv, HostedTypeOK, OneOwner, Accounted, NothingHosted, Hosts
<1>3. HostedInv => HostingRight
  BY <1>1, <1>2 DEF HostedInv, HostingRight
<1> QED BY <1>3, HostedInvAlways, PTL

-----------------------------------------------------------------------------
(* An export of a session.                                                 *)

(* Types *)

Outcomes == {"none", "cancelled", "failed", "saved"}

ExportRecord ==
    [phase : ExportPhases, generation : Nat, session : Exported, expected : Nat, before : Nat,
     content : Nat, outcome : Outcomes, revoked : BOOLEAN, late : BOOLEAN]

ViewRecord ==
    [selected : Exported, next : Exported, revision : Nat, generation : Nat,
     inFlight : BOOLEAN, revoked : BOOLEAN, handle : Exports \cup {0},
     leaving : {"no", "cancelling", "stopping"}, left : Exports \cup {0}]

ExportTypeOK ==
    /\ export \in [Exports -> ExportRecord]
    /\ view \in ViewRecord
    /\ revision \in [Exported -> Nat]
    /\ directory \subseteq Exports /\ outbound \subseteq Exports
    /\ cancelling \subseteq Exports /\ cancelled \subseteq Exports
    /\ linked \in BOOLEAN /\ destination \in Exports \cup {NoFile} /\ moves \in Nat

-----------------------------------------------------------------------------
(* The invariant *)

(* An export whose transfer the Node holds has left its handler and has    *)
(* not been streamed to its end: what then aborts or releases the transfer *)
(* removes the only copy there is.                                         *)
OnOffer ==
    \A e \in outbound :
        export[e].phase \in {"ready", "choosing", "streaming", "ending", "over"}

Copies == CopiesRemoved /\ OnOffer

(* Past the look at the revision after the SDK has written the file. *)
Checked == {"ready", "choosing", "streaming", "replacing", "saved"}

InFile(e) == destination = e /\ destination # NoFile

(* The revision before the SDK writes is the one the workspace expects. *)
BegunAsShown ==
    \A e \in Exports :
        export[e].phase \in Checked \cup {"writing", "written"} \/ InFile(e) =>
            export[e].expected \in {Unknown, export[e].before}

(* Revisions only grow, so one that is as before was so in between. *)
NotYetChanged ==
    \A e \in Exports :
        /\ export[e].phase \in {"writing", "written"} =>
               export[e].before <= revision[export[e].session]
        /\ export[e].phase = "written" =>
               /\ export[e].before <= export[e].content
               /\ export[e].content <= revision[export[e].session]

OneRevision ==
    \A e \in Exports :
        export[e].phase \in Checked \/ InFile(e) => export[e].content = export[e].before

(* Nothing is prepared or written again for an export in the user's file. *)
InPlace ==
    \A e \in Exports : InFile(e) => export[e].phase \in {"saved", "over"}

Contents == BegunAsShown /\ NotYetChanged /\ OneRevision /\ InPlace

(* A generation is the turn of one export. *)
Generations ==
    /\ \A e \in Exports :
          export[e].phase # "none" => export[e].generation <= view.generation
    /\ \A d, e \in Exports :
          d # e /\ export[d].phase # "none" /\ export[e].phase # "none" =>
              export[d].generation # export[e].generation

(* The next turn begins when the export whose turn it is has ended. *)
Busy ==
    \A e \in Exports :
        export[e].phase \notin {"none", "over"} /\ export[e].generation = view.generation =>
            view.inFlight

(* An export whose turn it is while a selection waits was asked for since. *)
LateOnes ==
    view.leaving # "no" =>
        \A e \in Exports :
            export[e].phase # "none" /\ export[e].generation = view.generation =>
                export[e].late /\ export[e].session = view.selected

(* A handle that was cancelled before it arrived is not wanted when it     *)
(* does: its turn is over, or the view still remembers.                    *)
Revoked ==
    \A e \in Exports :
        /\ export[e].outcome = "saved" => export[e].phase \in {"saved", "over"}
        /\ export[e].revoked =>
              /\ export[e].outcome # "saved"
              /\ export[e].phase \in Unanswered \cup {"ending", "over"}
              /\ export[e].phase \in Unanswered =>
                    \/ export[e].generation < view.generation
                    \/ view.revoked /\ view.leaving = "no"

Turns == Generations /\ Busy /\ LateOnes /\ Revoked /\ ExportStoppable

ExportInv == ExportTypeOK /\ Copies /\ Contents /\ Turns

-----------------------------------------------------------------------------
(* An action leaves records of their types. *)

LEMMA ExportFields ==
    ASSUME NEW f \in [Exports -> ExportRecord], NEW e \in Exports
    PROVE  /\ \A p \in ExportPhases : [f EXCEPT ![e].phase = p] \in [Exports -> ExportRecord]
           /\ \A n \in Nat : [f EXCEPT ![e].generation = n] \in [Exports -> ExportRecord]
           /\ \A s \in Exported : [f EXCEPT ![e].session = s] \in [Exports -> ExportRecord]
           /\ \A n \in Nat : [f EXCEPT ![e].expected = n] \in [Exports -> ExportRecord]
           /\ \A n \in Nat : [f EXCEPT ![e].before = n] \in [Exports -> ExportRecord]
           /\ \A n \in Nat : [f EXCEPT ![e].content = n] \in [Exports -> ExportRecord]
           /\ \A o \in Outcomes : [f EXCEPT ![e].outcome = o] \in [Exports -> ExportRecord]
           /\ \A b \in BOOLEAN : [f EXCEPT ![e].late = b] \in [Exports -> ExportRecord]
  <1>1. f[e] \in ExportRecord
    OBVIOUS
  <1>2. \A r \in ExportRecord : [f EXCEPT ![e] = r] \in [Exports -> ExportRecord]
    OBVIOUS
  <1>3. /\ \A p \in ExportPhases : [f[e] EXCEPT !.phase = p] \in ExportRecord
        /\ \A n \in Nat : [f[e] EXCEPT !.generation = n] \in ExportRecord
        /\ \A s \in Exported : [f[e] EXCEPT !.session = s] \in ExportRecord
        /\ \A n \in Nat : [f[e] EXCEPT !.expected = n] \in ExportRecord
        /\ \A n \in Nat : [f[e] EXCEPT !.before = n] \in ExportRecord
        /\ \A n \in Nat : [f[e] EXCEPT !.content = n] \in ExportRecord
        /\ \A o \in Outcomes : [f[e] EXCEPT !.outcome = o] \in ExportRecord
        /\ \A b \in BOOLEAN : [f[e] EXCEPT !.late = b] \in ExportRecord
    BY <1>1 DEF ExportRecord, Outcomes
  <1>4. QED
    BY <1>2, <1>3

LEMMA AskedType ==
    ASSUME NEW f \in [Exports -> ExportRecord], NEW e \in Exports, NEW n \in Nat,
           NEW s \in Exported, NEW x \in Nat, NEW b \in BOOLEAN
    PROVE  [f EXCEPT ![e].phase = "asked", ![e].generation = n, ![e].session = s,
                     ![e].expected = x, ![e].late = b] \in [Exports -> ExportRecord]
  <1>1. PICK f1 \in [Exports -> ExportRecord] : f1 = [f EXCEPT ![e].phase = "asked"]
    BY ExportFields DEF ExportPhases
  <1>2. PICK f2 \in [Exports -> ExportRecord] : f2 = [f1 EXCEPT ![e].generation = n]
    BY ExportFields
  <1>3. PICK f3 \in [Exports -> ExportRecord] : f3 = [f2 EXCEPT ![e].session = s]
    BY ExportFields
  <1>4. PICK f4 \in [Exports -> ExportRecord] : f4 = [f3 EXCEPT ![e].expected = x]
    BY ExportFields
  <1>5. [f4 EXCEPT ![e].late = b] \in [Exports -> ExportRecord]
    BY ExportFields
  <1>6. QED
    BY <1>1, <1>2, <1>3, <1>4, <1>5

LEMMA StepTypes ==
    ASSUME NEW f \in [Exports -> ExportRecord], NEW e \in Exports
    PROVE  /\ \A p \in ExportPhases, o \in Outcomes :
                 [f EXCEPT ![e].phase = p, ![e].outcome = o] \in [Exports -> ExportRecord]
           /\ \A p \in ExportPhases, n \in Nat :
                 /\ [f EXCEPT ![e].phase = p, ![e].before = n] \in [Exports -> ExportRecord]
                 /\ [f EXCEPT ![e].phase = p, ![e].content = n] \in [Exports -> ExportRecord]
  <1>1. ASSUME NEW p \in ExportPhases, NEW o \in Outcomes
        PROVE  [f EXCEPT ![e].phase = p, ![e].outcome = o] \in [Exports -> ExportRecord]
    <2>1. PICK g \in [Exports -> ExportRecord] : g = [f EXCEPT ![e].phase = p]
      BY ExportFields
    <2>2. QED
      BY <2>1, ExportFields
  <1>2. ASSUME NEW p \in ExportPhases, NEW n \in Nat
        PROVE  /\ [f EXCEPT ![e].phase = p, ![e].before = n] \in [Exports -> ExportRecord]
               /\ [f EXCEPT ![e].phase = p, ![e].content = n] \in [Exports -> ExportRecord]
    <2>1. PICK g \in [Exports -> ExportRecord] : g = [f EXCEPT ![e].phase = p]
      BY ExportFields
    <2>2. QED
      BY <2>1, ExportFields
  <1>3. QED
    BY <1>1, <1>2

LEMMA ViewFields ==
    ASSUME NEW v \in ViewRecord
    PROVE  /\ \A b \in BOOLEAN : [v EXCEPT !.inFlight = b] \in ViewRecord
           /\ \A b \in BOOLEAN : [v EXCEPT !.revoked = b] \in ViewRecord
           /\ \A n \in Nat : [v EXCEPT !.generation = n] \in ViewRecord
           /\ \A n \in Nat : [v EXCEPT !.revision = n] \in ViewRecord
           /\ \A h \in Exports \cup {0} : [v EXCEPT !.handle = h] \in ViewRecord
           /\ \A h \in Exports \cup {0} : [v EXCEPT !.left = h] \in ViewRecord
           /\ \A s \in Exported : [v EXCEPT !.next = s] \in ViewRecord
           /\ \A s \in Exported : [v EXCEPT !.selected = s] \in ViewRecord
           /\ \A l \in {"no", "cancelling", "stopping"} : [v EXCEPT !.leaving = l] \in ViewRecord
  BY DEF ViewRecord

LEMMA ViewTypes ==
    ASSUME NEW v \in ViewRecord
    PROVE  /\ [v EXCEPT !.inFlight = TRUE, !.revoked = FALSE, !.generation = v.generation + 1]
                  \in ViewRecord
           /\ [v EXCEPT !.handle = 0, !.inFlight = FALSE, !.revoked = FALSE] \in ViewRecord
           /\ \A s \in Exported :
                 [v EXCEPT !.leaving = "cancelling", !.next = s, !.left = v.handle,
                           !.generation = v.generation + 1, !.inFlight = FALSE, !.revoked = TRUE,
                           !.handle = 0] \in ViewRecord
           /\ [v EXCEPT !.leaving = "stopping", !.revoked = FALSE] \in ViewRecord
           /\ [v EXCEPT !.leaving = "no", !.selected = v.next, !.revision = Unknown]
                  \in ViewRecord
  <1>1. v.generation + 1 \in Nat /\ v.handle \in Exports \cup {0} /\ v.next \in Exported
    BY DEF ViewRecord
  <1>2. PICK n \in Nat : n = v.generation + 1
    BY <1>1
  <1>3. [v EXCEPT !.inFlight = TRUE, !.revoked = FALSE, !.generation = n] \in ViewRecord
    <2>1. PICK v1 \in ViewRecord : v1 = [v EXCEPT !.inFlight = TRUE]
      BY ViewFields
    <2>2. PICK v2 \in ViewRecord : v2 = [v1 EXCEPT !.revoked = FALSE]
      BY ViewFields
    <2>3. [v2 EXCEPT !.generation = n] \in ViewRecord
      BY ViewFields
    <2>4. QED
      BY <2>1, <2>2, <2>3
  <1>4. [v EXCEPT !.handle = 0, !.inFlight = FALSE, !.revoked = FALSE] \in ViewRecord
    <2>1. PICK v1 \in ViewRecord : v1 = [v EXCEPT !.handle = 0]
      BY ViewFields
    <2>2. PICK v2 \in ViewRecord : v2 = [v1 EXCEPT !.inFlight = FALSE]
      BY ViewFields
    <2>3. [v2 EXCEPT !.revoked = FALSE] \in ViewRecord
      BY ViewFields
    <2>4. QED
      BY <2>1, <2>2, <2>3
  <1>5. ASSUME NEW s \in Exported
        PROVE  [v EXCEPT !.leaving = "cancelling", !.next = s, !.left = v.handle,
                         !.generation = n, !.inFlight = FALSE, !.revoked = TRUE,
                         !.handle = 0] \in ViewRecord
    <2>1. PICK v1 \in ViewRecord : v1 = [v EXCEPT !.leaving = "cancelling"]
      BY ViewFields
    <2>2. PICK v2 \in ViewRecord : v2 = [v1 EXCEPT !.next = s]
      BY ViewFields
    <2>3. PICK v3 \in ViewRecord : v3 = [v2 EXCEPT !.left = v.handle]
      BY <1>1, ViewFields
    <2>4. PICK v4 \in ViewRecord : v4 = [v3 EXCEPT !.generation = n]
      BY ViewFields
    <2>5. PICK v5 \in ViewRecord : v5 = [v4 EXCEPT !.inFlight = FALSE]
      BY ViewFields
    <2>6. PICK v6 \in ViewRecord : v6 = [v5 EXCEPT !.revoked = TRUE]
      BY ViewFields
    <2>7. [v6 EXCEPT !.handle = 0] \in ViewRecord
      BY ViewFields
    <2>8. QED
      BY <2>1, <2>2, <2>3, <2>4, <2>5, <2>6, <2>7
  <1>6. [v EXCEPT !.leaving = "stopping", !.revoked = FALSE] \in ViewRecord
    <2>1. PICK v1 \in ViewRecord : v1 = [v EXCEPT !.leaving = "stopping"]
      BY ViewFields
    <2>2. [v1 EXCEPT !.revoked = FALSE] \in ViewRecord
      BY ViewFields
    <2>3. QED
      BY <2>1, <2>2
  <1>7. [v EXCEPT !.leaving = "no", !.selected = v.next, !.revision = Unknown] \in ViewRecord
    <2>1. PICK v1 \in ViewRecord : v1 = [v EXCEPT !.leaving = "no"]
      BY ViewFields
    <2>2. PICK v2 \in ViewRecord : v2 = [v1 EXCEPT !.selected = v.next]
      BY <1>1, ViewFields
    <2>3. [v2 EXCEPT !.revision = Unknown] \in ViewRecord
      BY ViewFields DEF Unknown
    <2>4. QED
      BY <2>1, <2>2, <2>3
  <1>8. QED
    BY <1>2, <1>3, <1>4, <1>5, <1>6, <1>7

LEMMA AskExportType ==
    ASSUME export \in [Exports -> ExportRecord], view \in ViewRecord, NEW e \in Exports,
           AskExport(e)
    PROVE  export' \in [Exports -> ExportRecord]
  <1>1. PICK n \in Nat : n = view.generation + 1
    BY DEF ViewRecord
  <1>2. PICK s \in Exported : s = view.selected
    BY DEF ViewRecord
  <1>3. PICK x \in Nat : x = view.revision
    BY DEF ViewRecord
  <1>4. PICK b \in BOOLEAN : b = (view.leaving # "no")
    BY Zenon
  <1>5. export' = [export EXCEPT ![e].phase = "asked", ![e].generation = view.generation + 1,
                                 ![e].session = view.selected, ![e].expected = view.revision,
                                 ![e].late = view.leaving # "no"]
    BY Zenon DEF AskExport
  <1>6. export' = [export EXCEPT ![e].phase = "asked", ![e].generation = n, ![e].session = s,
                                 ![e].expected = x, ![e].late = b]
    BY <1>1, <1>2, <1>3, <1>4, <1>5, Zenon
  <1>7. [export EXCEPT ![e].phase = "asked", ![e].generation = n, ![e].session = s,
                       ![e].expected = x, ![e].late = b] \in [Exports -> ExportRecord]
    BY AskedType, ZenonT(60)
  <1>8. QED
    BY <1>6, <1>7, Zenon

-----------------------------------------------------------------------------
(* The initial states *)

LEMMA ExportInvInit == ExportInit => ExportInv
  <1>1. ExportInit => ExportTypeOK
    BY ExportAssumption
    DEF ExportInit, ExportTypeOK, NoExport, ExportRecord, ViewRecord, ExportPhases, Outcomes,
        Unknown, Exports
  <1>2. ExportInit => Copies
    BY DEF ExportInit, NoExport, Copies, CopiesRemoved, OnOffer, Handled
  <1>3. ExportInit => Contents
    BY DEF ExportInit, NoExport, Contents, BegunAsShown, NotYetChanged, OneRevision, InPlace,
           InFile, Checked
  <1>4. ExportInit => Turns
    BY DEF ExportInit, NoExport, Turns, Generations, Busy, LateOnes, Revoked, ExportStoppable,
           GoesOn
  <1>5. QED
    BY <1>1, <1>2, <1>3, <1>4 DEF ExportInv

-----------------------------------------------------------------------------
(* A step keeps the types. *)

LEMMA ExportTypeStep ==
    ASSUME ExportTypeOK, [ExportNext]_exportVars
    PROVE  ExportTypeOK'
  <1>p. /\ export \in [Exports -> ExportRecord]
        /\ "streaming" \in ExportPhases /\ "ending" \in ExportPhases /\ "saved" \in ExportPhases
        /\ "writing" \in ExportPhases /\ "written" \in ExportPhases
        /\ "cancelled" \in Outcomes /\ "failed" \in Outcomes /\ "saved" \in Outcomes
    BY DEF ExportTypeOK, ExportPhases, Outcomes
  <1> USE DEF ExportTypeOK, nodeExportVars, appExportVars, To, Ends
  <1>1. ASSUME NEW e \in Exports, AskExport(e)
        PROVE  ExportTypeOK'
    <2>1. view' \in ViewRecord
      BY <1>1, ViewTypes DEF AskExport
    <2>2. export' \in [Exports -> ExportRecord]
      BY <1>1, AskExportType
    <2>3. QED
      BY <1>1, <2>1, <2>2 DEF AskExport
  <1>2. ASSUME NEW e \in Exports, CancelWritten(e)
        PROVE  ExportTypeOK'
    BY <1>2 DEF CancelWritten
  <1>3. ASSUME NEW e \in Exports, Offered(e)
        PROVE  ExportTypeOK'
    BY <1>3 DEF Offered, CancelHandle, ViewRecord, ExportRecord, ExportPhases
  <1>4. ASSUME NEW e \in Exports, Refused(e)
        PROVE  ExportTypeOK'
    BY <1>4, StepTypes DEF Refused, ExportPhases, Outcomes
  <1>5. ASSUME NEW e \in Exports, Choose(e)
        PROVE  ExportTypeOK'
    <2>1. \/ export' = [export EXCEPT ![e].phase = "streaming"]
          \/ export' = [export EXCEPT ![e].phase = "ending", ![e].outcome = "cancelled"]
      BY <1>5 DEF Choose
    <2>2. export' \in [Exports -> ExportRecord]
      <3>1. CASE export' = [export EXCEPT ![e].phase = "streaming"]
        BY <1>p, <3>1, ExportFields, Zenon
      <3>2. CASE export' = [export EXCEPT ![e].phase = "ending", ![e].outcome = "cancelled"]
        BY <1>p, <3>2, StepTypes, Zenon
      <3>3. QED
        BY <2>1, <3>1, <3>2
    <2>3. QED
      BY <1>5, <2>2 DEF Choose, CancelHandle
  <1>6. ASSUME NEW e \in Exports, Streamed(e)
        PROVE  ExportTypeOK'
    BY <1>6 DEF Streamed, ExportRecord, ExportPhases
  <1>7. ASSUME NEW e \in Exports, Replaced(e)
        PROVE  ExportTypeOK'
    <2>1. \/ export' = [export EXCEPT ![e].phase = "saved", ![e].outcome = "saved"]
          \/ export' = [export EXCEPT ![e].phase = "ending", ![e].outcome = "failed"]
      BY <1>7 DEF Replaced
    <2>2. export' \in [Exports -> ExportRecord]
      <3>1. CASE export' = [export EXCEPT ![e].phase = "saved", ![e].outcome = "saved"]
        BY <1>p, <3>1, StepTypes, Zenon
      <3>2. CASE export' = [export EXCEPT ![e].phase = "ending", ![e].outcome = "failed"]
        BY <1>p, <3>2, StepTypes, Zenon
      <3>3. QED
        BY <2>1, <3>1, <3>2
    <2>3. QED
      BY <1>7, <2>2 DEF Replaced
  <1>8. ASSUME NEW e \in Exports, StreamFails(e)
        PROVE  ExportTypeOK'
    BY <1>8, StepTypes DEF StreamFails, ExportPhases, Outcomes
  <1>9. ASSUME NEW e \in Exports, WriteFails(e)
        PROVE  ExportTypeOK'
    BY <1>9, StepTypes, ZenonT(60) DEF WriteFails, CancelHandle, ExportPhases, Outcomes
  <1>10. ASSUME NEW e \in Exports, Conclude(e)
         PROVE  ExportTypeOK'
    BY <1>10, ExportFields, ViewTypes DEF Conclude, Concluded, ExportPhases
  <1>11. ASSUME NEW e \in Exports, PrepareExport(e)
         PROVE  ExportTypeOK'
    BY <1>11 DEF PrepareExport, ExportRecord, ExportPhases
  <1>12. ASSUME NEW e \in Exports, ExportFails(e)
         PROVE  ExportTypeOK'
    BY <1>12 DEF ExportFails, ExportRecord, ExportPhases
  <1>13. ASSUME NEW e \in Exports, BeginExport(e)
         PROVE  ExportTypeOK'
    <2>1. revision[export[e].session] \in Nat
      BY DEF ExportRecord
    <2>2. export' = [export EXCEPT ![e].phase = "writing",
                                   ![e].before = revision[export[e].session]]
      BY <1>13 DEF BeginExport
    <2>3. export' \in [Exports -> ExportRecord]
      BY <1>p, <2>1, <2>2, StepTypes, Zenon
    <2>4. QED
      BY <1>13, <2>3 DEF BeginExport
  <1>14. ASSUME NEW e \in Exports, WriteExport(e)
         PROVE  ExportTypeOK'
    <2>1. revision[export[e].session] \in Nat
      BY DEF ExportRecord
    <2>2. export' = [export EXCEPT ![e].phase = "written",
                                   ![e].content = revision[export[e].session]]
      BY <1>14 DEF WriteExport
    <2>3. export' \in [Exports -> ExportRecord]
      BY <1>p, <2>1, <2>2, StepTypes, Zenon
    <2>4. QED
      BY <1>14, <2>3 DEF WriteExport
  <1>15. ASSUME NEW e \in Exports, ExportReady(e)
         PROVE  ExportTypeOK'
    BY <1>15, SMTT(30) DEF ExportReady, ExportRecord, ExportPhases
  <1>16. ASSUME NEW e \in Exports, AbortExport(e)
         PROVE  ExportTypeOK'
    BY <1>16 DEF AbortExport, Released
  <1>17. ASSUME NEW s \in Exported, Leave(s)
         PROVE  ExportTypeOK'
    <2>1. view' \in ViewRecord
      BY <1>17, ViewTypes DEF Leave
    <2>2. cancelling' \subseteq Exports
      BY <1>17 DEF Leave, CancelHandle, ViewRecord
    <2>3. QED
      BY <1>17, <2>1, <2>2 DEF Leave
  <1>18. ASSUME NEW s \in Exported, ExtensionWrites(s)
         PROVE  ExportTypeOK'
    BY <1>18 DEF ExtensionWrites
  <1>19. CASE ShowRevision
    BY <1>19 DEF ShowRevision, ViewRecord
  <1>20. CASE RevokeExport
    BY <1>20, ZenonT(60) DEF RevokeExport, CancelHandle, ViewRecord, ExportRecord
  <1>21. CASE LeaveReturns \/ SelectNext
    BY <1>21, ViewTypes DEF LeaveReturns, SelectNext
  <1>22. CASE ReleaseExports \/ LinkLost
    BY <1>22 DEF ReleaseExports, Released, LinkLost
  <1>23. CASE UNCHANGED exportVars
    BY <1>23 DEF exportVars
  <1> QED
    BY <1>1, <1>2, <1>3, <1>4, <1>5, <1>6, <1>7, <1>8, <1>9, <1>10, <1>11, <1>12, <1>13, <1>14,
       <1>15, <1>16, <1>17, <1>18, <1>19, <1>20, <1>21, <1>22, <1>23 DEF ExportNext

-----------------------------------------------------------------------------
(* A step keeps the copies. *)

LEMMA CopiesStep ==
    ASSUME ExportTypeOK, Copies,
           [ExportNext]_exportVars
    PROVE  Copies'
  <1> USE DEF Copies, CopiesRemoved, OnOffer, ExportTypeOK, ExportRecord, Handled,
              nodeExportVars, appExportVars, To, Ends
  <1>1. ASSUME NEW e \in Exports, AskExport(e)
        PROVE  Copies'
    BY <1>1 DEF AskExport
  <1>2. ASSUME NEW e \in Exports, CancelWritten(e)
        PROVE  Copies'
    BY <1>2 DEF CancelWritten
  <1>3. ASSUME NEW e \in Exports, Offered(e)
        PROVE  Copies'
    <2>1. CASE Unwanted(e) /\ Ends(e, "cancelled") /\ UNCHANGED view
      BY <1>3, <2>1 DEF Offered
    <2>2. CASE ~Unwanted(e) /\ To(e, "choosing")
      BY <1>3, <2>2 DEF Offered
    <2>3. QED
      BY <1>3, <2>1, <2>2 DEF Offered
  <1>4. ASSUME NEW e \in Exports, Refused(e)
        PROVE  Copies'
    BY <1>4 DEF Refused
  <1>5. ASSUME NEW e \in Exports, Choose(e)
        PROVE  Copies'
    <2>1. CASE To(e, "streaming")
      BY <1>5, <2>1 DEF Choose
    <2>2. CASE Ends(e, "cancelled")
      BY <1>5, <2>2 DEF Choose
    <2>3. QED
      BY <1>5, <2>1, <2>2 DEF Choose
  <1>6. ASSUME NEW e \in Exports, Streamed(e)
        PROVE  Copies'
    BY <1>6 DEF Streamed
  <1>7. ASSUME NEW e \in Exports, Replaced(e)
        PROVE  Copies'
    <2>1. CASE Ends(e, "failed") /\ UNCHANGED destination
      BY <1>7, <2>1 DEF Replaced
    <2>2. CASE export' = [export EXCEPT ![e].phase = "saved", ![e].outcome = "saved"]
      BY <1>7, <2>2 DEF Replaced
    <2>3. QED
      BY <1>7, <2>1, <2>2 DEF Replaced
  <1>8. ASSUME NEW e \in Exports, StreamFails(e)
        PROVE  Copies'
    BY <1>8 DEF StreamFails
  <1>9. ASSUME NEW e \in Exports, WriteFails(e)
        PROVE  Copies'
    BY <1>9 DEF WriteFails
  <1>10. ASSUME NEW e \in Exports, Conclude(e)
        PROVE  Copies'
    BY <1>10 DEF Conclude
  <1>11. ASSUME NEW e \in Exports, PrepareExport(e)
        PROVE  Copies'
    <2>1. CASE To(e, "refused") /\ UNCHANGED directory
      BY <1>11, <2>1 DEF PrepareExport
    <2>2. CASE To(e, "prepared") /\ directory' = directory \cup {e}
      BY <1>11, <2>2 DEF PrepareExport
    <2>3. QED
      BY <1>11, <2>1, <2>2 DEF PrepareExport
  <1>12. ASSUME NEW e \in Exports, ExportFails(e)
        PROVE  Copies'
    BY <1>12 DEF ExportFails
  <1>13. ASSUME NEW e \in Exports, BeginExport(e)
        PROVE  Copies'
    BY <1>13 DEF BeginExport
  <1>14. ASSUME NEW e \in Exports, WriteExport(e)
        PROVE  Copies'
    BY <1>14 DEF WriteExport
  <1>15. ASSUME NEW e \in Exports, ExportReady(e)
        PROVE  Copies'
    BY <1>15 DEF ExportReady
  <1>16. ASSUME NEW e \in Exports, AbortExport(e)
        PROVE  Copies'
    BY <1>16 DEF AbortExport, Released, Free
  <1>17. ASSUME NEW s \in Exported, Leave(s)
        PROVE  Copies'
    BY <1>17 DEF Leave
  <1>18. ASSUME NEW s \in Exported, ExtensionWrites(s)
        PROVE  Copies'
    BY <1>18 DEF ExtensionWrites
  <1>19. CASE ShowRevision
    BY <1>19 DEF ShowRevision
  <1>20. CASE RevokeExport
    BY <1>20 DEF RevokeExport
  <1>21. CASE LeaveReturns
    BY <1>21 DEF LeaveReturns
  <1>22. CASE SelectNext
    BY <1>22 DEF SelectNext
  <1>23. CASE ReleaseExports
    BY <1>23 DEF ReleaseExports, Released, Free
  <1>24. CASE LinkLost
    BY <1>24 DEF LinkLost
  <1>25. CASE UNCHANGED exportVars
    BY <1>25 DEF exportVars
  <1> QED
    BY <1>1, <1>2, <1>3, <1>4, <1>5, <1>6, <1>7, <1>8, <1>9, <1>10, <1>11, <1>12, <1>13,
       <1>14, <1>15, <1>16, <1>17, <1>18, <1>19, <1>20, <1>21, <1>22, <1>23, <1>24, <1>25
       DEF ExportNext

-----------------------------------------------------------------------------
(* A step keeps the contents. *)

(* Only an extension changes a revision, and it only makes it larger. *)
LEMMA ContentsStep ==
    ASSUME ExportTypeOK, Contents,
           [ExportNext]_exportVars
    PROVE  Contents'
  <1> USE DEF Contents, BegunAsShown, NotYetChanged, OneRevision, InPlace, InFile,
              Checked, Unknown, ExportTypeOK, ExportRecord, Handled, nodeExportVars,
              appExportVars, To, Ends
  <1>1. ASSUME NEW e \in Exports, AskExport(e)
        PROVE  Contents'
    <2>1. /\ export[e].phase = "none" /\ export'[e].phase = "asked"
          /\ \A d \in Exports \ {e} : export'[d] = export[d]
          /\ revision' = revision /\ destination' = destination
      BY <1>1 DEF AskExport
    <2>2. BegunAsShown' /\ OneRevision'
      BY <2>1 DEF InFile
    <2>3. NotYetChanged' /\ InPlace'
      BY <2>1 DEF InFile
    <2>4. QED
      BY <2>2, <2>3
  <1>2. ASSUME NEW e \in Exports, CancelWritten(e)
        PROVE  Contents'
    BY <1>2 DEF CancelWritten
  <1>3. ASSUME NEW e \in Exports, Offered(e)
        PROVE  Contents'
    <2>1. CASE Unwanted(e) /\ Ends(e, "cancelled") /\ UNCHANGED view
      BY <1>3, <2>1 DEF Offered
    <2>2. CASE ~Unwanted(e) /\ To(e, "choosing")
      BY <1>3, <2>2 DEF Offered
    <2>3. QED
      BY <1>3, <2>1, <2>2 DEF Offered
  <1>4. ASSUME NEW e \in Exports, Refused(e)
        PROVE  Contents'
    BY <1>4 DEF Refused
  <1>5. ASSUME NEW e \in Exports, Choose(e)
        PROVE  Contents'
    <2>1. CASE To(e, "streaming")
      BY <1>5, <2>1 DEF Choose
    <2>2. CASE Ends(e, "cancelled")
      BY <1>5, <2>2 DEF Choose
    <2>3. QED
      BY <1>5, <2>1, <2>2 DEF Choose
  <1>6. ASSUME NEW e \in Exports, Streamed(e)
        PROVE  Contents'
    BY <1>6 DEF Streamed
  <1>7. ASSUME NEW e \in Exports, Replaced(e)
        PROVE  Contents'
    <2>1. CASE Ends(e, "failed") /\ UNCHANGED destination
      BY <1>7, <2>1 DEF Replaced
    <2>2. CASE export' = [export EXCEPT ![e].phase = "saved", ![e].outcome = "saved"]
      BY <1>7, <2>2 DEF Replaced
    <2>3. QED
      BY <1>7, <2>1, <2>2 DEF Replaced
  <1>8. ASSUME NEW e \in Exports, StreamFails(e)
        PROVE  Contents'
    BY <1>8 DEF StreamFails
  <1>9. ASSUME NEW e \in Exports, WriteFails(e)
        PROVE  Contents'
    BY <1>9 DEF WriteFails
  <1>10. ASSUME NEW e \in Exports, Conclude(e)
        PROVE  Contents'
    BY <1>10 DEF Conclude
  <1>11. ASSUME NEW e \in Exports, PrepareExport(e)
        PROVE  Contents'
    <2>1. CASE To(e, "refused") /\ UNCHANGED directory
      BY <1>11, <2>1 DEF PrepareExport
    <2>2. CASE To(e, "prepared") /\ directory' = directory \cup {e}
      BY <1>11, <2>2 DEF PrepareExport
    <2>3. QED
      BY <1>11, <2>1, <2>2 DEF PrepareExport
  <1>12. ASSUME NEW e \in Exports, ExportFails(e)
        PROVE  Contents'
    BY <1>12 DEF ExportFails
  <1>13. ASSUME NEW e \in Exports, BeginExport(e)
        PROVE  Contents'
    BY <1>13 DEF BeginExport
  <1>14. ASSUME NEW e \in Exports, WriteExport(e)
        PROVE  Contents'
    BY <1>14 DEF WriteExport
  <1>15. ASSUME NEW e \in Exports, ExportReady(e)
        PROVE  Contents'
    BY <1>15 DEF ExportReady, Unchanged
  <1>16. ASSUME NEW e \in Exports, AbortExport(e)
        PROVE  Contents'
    BY <1>16 DEF AbortExport, Released
  <1>17. ASSUME NEW s \in Exported, Leave(s)
        PROVE  Contents'
    BY <1>17 DEF Leave
  <1>18. ASSUME NEW s \in Exported, ExtensionWrites(s)
        PROVE  Contents'
    BY <1>18 DEF ExtensionWrites
  <1>19. CASE ShowRevision
    BY <1>19 DEF ShowRevision
  <1>20. CASE RevokeExport
    BY <1>20 DEF RevokeExport
  <1>21. CASE LeaveReturns
    BY <1>21 DEF LeaveReturns
  <1>22. CASE SelectNext
    BY <1>22 DEF SelectNext
  <1>23. CASE ReleaseExports
    BY <1>23 DEF ReleaseExports, Released
  <1>24. CASE LinkLost
    BY <1>24 DEF LinkLost
  <1>25. CASE UNCHANGED exportVars
    BY <1>25 DEF exportVars
  <1> QED
    BY <1>1, <1>2, <1>3, <1>4, <1>5, <1>6, <1>7, <1>8, <1>9, <1>10, <1>11, <1>12, <1>13,
       <1>14, <1>15, <1>16, <1>17, <1>18, <1>19, <1>20, <1>21, <1>22, <1>23, <1>24, <1>25
       DEF ExportNext

(* AskExport and Leave are the only steps that begin a turn. *)
LEMMA GenerationsStep ==
    ASSUME ExportTypeOK, Generations,
           [ExportNext]_exportVars
    PROVE  Generations'
  <1> USE DEF Generations, ExportTypeOK, ExportRecord, Handled, nodeExportVars,
              appExportVars, To, Ends, ViewRecord, Unanswered
  <1>1. ASSUME NEW e \in Exports, AskExport(e)
        PROVE  Generations'
    BY <1>1 DEF AskExport
  <1>2. ASSUME NEW e \in Exports, CancelWritten(e)
        PROVE  Generations'
    BY <1>2 DEF CancelWritten
  <1>3. ASSUME NEW e \in Exports, Offered(e)
        PROVE  Generations'
    <2>1. CASE Unwanted(e) /\ Ends(e, "cancelled") /\ UNCHANGED view
      BY <1>3, <2>1 DEF Offered
    <2>2. CASE ~Unwanted(e) /\ To(e, "choosing")
      BY <1>3, <2>2 DEF Offered
    <2>3. QED
      BY <1>3, <2>1, <2>2 DEF Offered
  <1>4. ASSUME NEW e \in Exports, Refused(e)
        PROVE  Generations'
    BY <1>4 DEF Refused
  <1>5. ASSUME NEW e \in Exports, Choose(e)
        PROVE  Generations'
    <2>1. CASE To(e, "streaming")
      BY <1>5, <2>1 DEF Choose
    <2>2. CASE Ends(e, "cancelled")
      BY <1>5, <2>2 DEF Choose
    <2>3. QED
      BY <1>5, <2>1, <2>2 DEF Choose
  <1>6. ASSUME NEW e \in Exports, Streamed(e)
        PROVE  Generations'
    BY <1>6 DEF Streamed
  <1>7. ASSUME NEW e \in Exports, Replaced(e)
        PROVE  Generations'
    <2>1. CASE Ends(e, "failed") /\ UNCHANGED destination
      BY <1>7, <2>1 DEF Replaced
    <2>2. CASE export' = [export EXCEPT ![e].phase = "saved", ![e].outcome = "saved"]
      BY <1>7, <2>2 DEF Replaced
    <2>3. QED
      BY <1>7, <2>1, <2>2 DEF Replaced
  <1>8. ASSUME NEW e \in Exports, StreamFails(e)
        PROVE  Generations'
    BY <1>8 DEF StreamFails
  <1>9. ASSUME NEW e \in Exports, WriteFails(e)
        PROVE  Generations'
    BY <1>9 DEF WriteFails
  <1>10. ASSUME NEW e \in Exports, Conclude(e)
        PROVE  Generations'
    BY <1>10 DEF Conclude, Concluded
  <1>11. ASSUME NEW e \in Exports, PrepareExport(e)
        PROVE  Generations'
    <2>1. CASE To(e, "refused") /\ UNCHANGED directory
      BY <1>11, <2>1 DEF PrepareExport
    <2>2. CASE To(e, "prepared") /\ directory' = directory \cup {e}
      BY <1>11, <2>2 DEF PrepareExport
    <2>3. QED
      BY <1>11, <2>1, <2>2 DEF PrepareExport
  <1>12. ASSUME NEW e \in Exports, ExportFails(e)
        PROVE  Generations'
    BY <1>12 DEF ExportFails
  <1>13. ASSUME NEW e \in Exports, BeginExport(e)
        PROVE  Generations'
    BY <1>13 DEF BeginExport
  <1>14. ASSUME NEW e \in Exports, WriteExport(e)
        PROVE  Generations'
    BY <1>14 DEF WriteExport
  <1>15. ASSUME NEW e \in Exports, ExportReady(e)
        PROVE  Generations'
    BY <1>15 DEF ExportReady
  <1>16. ASSUME NEW e \in Exports, AbortExport(e)
        PROVE  Generations'
    BY <1>16 DEF AbortExport
  <1>17. ASSUME NEW s \in Exported, Leave(s)
        PROVE  Generations'
    BY <1>17 DEF Leave, CancelHandle
  <1>18. ASSUME NEW s \in Exported, ExtensionWrites(s)
        PROVE  Generations'
    BY <1>18 DEF ExtensionWrites
  <1>19. CASE ShowRevision
    BY <1>19 DEF ShowRevision
  <1>20. CASE RevokeExport
    BY <1>20 DEF RevokeExport
  <1>21. CASE LeaveReturns
    BY <1>21 DEF LeaveReturns
  <1>22. CASE SelectNext
    BY <1>22 DEF SelectNext
  <1>23. CASE ReleaseExports
    BY <1>23 DEF ReleaseExports
  <1>24. CASE LinkLost
    BY <1>24 DEF LinkLost
  <1>25. CASE UNCHANGED exportVars
    BY <1>25 DEF exportVars
  <1> QED
    BY <1>1, <1>2, <1>3, <1>4, <1>5, <1>6, <1>7, <1>8, <1>9, <1>10, <1>11, <1>12, <1>13,
       <1>14, <1>15, <1>16, <1>17, <1>18, <1>19, <1>20, <1>21, <1>22, <1>23, <1>24, <1>25
       DEF ExportNext

LEMMA BusyStep ==
    ASSUME ExportTypeOK, Generations, Busy,
           [ExportNext]_exportVars
    PROVE  Busy'
  <1> USE DEF Generations, Busy, ExportTypeOK, ExportRecord, Handled, nodeExportVars,
              appExportVars, To, Ends, ViewRecord, Unanswered
  <1>1. ASSUME NEW e \in Exports, AskExport(e)
        PROVE  Busy'
    BY <1>1 DEF AskExport
  <1>2. ASSUME NEW e \in Exports, CancelWritten(e)
        PROVE  Busy'
    BY <1>2 DEF CancelWritten
  <1>3. ASSUME NEW e \in Exports, Offered(e)
        PROVE  Busy'
    <2>1. CASE Unwanted(e) /\ Ends(e, "cancelled") /\ UNCHANGED view
      BY <1>3, <2>1 DEF Offered
    <2>2. CASE ~Unwanted(e) /\ To(e, "choosing")
      BY <1>3, <2>2 DEF Offered
    <2>3. QED
      BY <1>3, <2>1, <2>2 DEF Offered
  <1>4. ASSUME NEW e \in Exports, Refused(e)
        PROVE  Busy'
    BY <1>4 DEF Refused
  <1>5. ASSUME NEW e \in Exports, Choose(e)
        PROVE  Busy'
    <2>1. CASE To(e, "streaming")
      BY <1>5, <2>1 DEF Choose
    <2>2. CASE Ends(e, "cancelled")
      BY <1>5, <2>2 DEF Choose
    <2>3. QED
      BY <1>5, <2>1, <2>2 DEF Choose
  <1>6. ASSUME NEW e \in Exports, Streamed(e)
        PROVE  Busy'
    BY <1>6 DEF Streamed
  <1>7. ASSUME NEW e \in Exports, Replaced(e)
        PROVE  Busy'
    <2>1. CASE Ends(e, "failed") /\ UNCHANGED destination
      BY <1>7, <2>1 DEF Replaced
    <2>2. CASE export' = [export EXCEPT ![e].phase = "saved", ![e].outcome = "saved"]
      BY <1>7, <2>2 DEF Replaced
    <2>3. QED
      BY <1>7, <2>1, <2>2 DEF Replaced
  <1>8. ASSUME NEW e \in Exports, StreamFails(e)
        PROVE  Busy'
    BY <1>8 DEF StreamFails
  <1>9. ASSUME NEW e \in Exports, WriteFails(e)
        PROVE  Busy'
    BY <1>9 DEF WriteFails
  <1>10. ASSUME NEW e \in Exports, Conclude(e)
        PROVE  Busy'
    BY <1>10 DEF Conclude, Concluded
  <1>11. ASSUME NEW e \in Exports, PrepareExport(e)
        PROVE  Busy'
    <2>1. CASE To(e, "refused") /\ UNCHANGED directory
      BY <1>11, <2>1 DEF PrepareExport
    <2>2. CASE To(e, "prepared") /\ directory' = directory \cup {e}
      BY <1>11, <2>2 DEF PrepareExport
    <2>3. QED
      BY <1>11, <2>1, <2>2 DEF PrepareExport
  <1>12. ASSUME NEW e \in Exports, ExportFails(e)
        PROVE  Busy'
    BY <1>12 DEF ExportFails
  <1>13. ASSUME NEW e \in Exports, BeginExport(e)
        PROVE  Busy'
    BY <1>13 DEF BeginExport
  <1>14. ASSUME NEW e \in Exports, WriteExport(e)
        PROVE  Busy'
    BY <1>14 DEF WriteExport
  <1>15. ASSUME NEW e \in Exports, ExportReady(e)
        PROVE  Busy'
    BY <1>15 DEF ExportReady
  <1>16. ASSUME NEW e \in Exports, AbortExport(e)
        PROVE  Busy'
    BY <1>16 DEF AbortExport
  <1>17. ASSUME NEW s \in Exported, Leave(s)
        PROVE  Busy'
    BY <1>17 DEF Leave, CancelHandle
  <1>18. ASSUME NEW s \in Exported, ExtensionWrites(s)
        PROVE  Busy'
    BY <1>18 DEF ExtensionWrites
  <1>19. CASE ShowRevision
    BY <1>19 DEF ShowRevision
  <1>20. CASE RevokeExport
    BY <1>20 DEF RevokeExport
  <1>21. CASE LeaveReturns
    BY <1>21 DEF LeaveReturns
  <1>22. CASE SelectNext
    BY <1>22 DEF SelectNext
  <1>23. CASE ReleaseExports
    BY <1>23 DEF ReleaseExports
  <1>24. CASE LinkLost
    BY <1>24 DEF LinkLost
  <1>25. CASE UNCHANGED exportVars
    BY <1>25 DEF exportVars
  <1> QED
    BY <1>1, <1>2, <1>3, <1>4, <1>5, <1>6, <1>7, <1>8, <1>9, <1>10, <1>11, <1>12, <1>13,
       <1>14, <1>15, <1>16, <1>17, <1>18, <1>19, <1>20, <1>21, <1>22, <1>23, <1>24, <1>25
       DEF ExportNext

LEMMA LateOnesStep ==
    ASSUME ExportTypeOK, Generations, LateOnes,
           [ExportNext]_exportVars
    PROVE  LateOnes'
  <1> USE DEF Generations, LateOnes, ExportTypeOK, ExportRecord, Handled, nodeExportVars,
              appExportVars, To, Ends, ViewRecord, Unanswered
  <1>1. ASSUME NEW e \in Exports, AskExport(e)
        PROVE  LateOnes'
    BY <1>1 DEF AskExport
  <1>2. ASSUME NEW e \in Exports, CancelWritten(e)
        PROVE  LateOnes'
    BY <1>2 DEF CancelWritten
  <1>3. ASSUME NEW e \in Exports, Offered(e)
        PROVE  LateOnes'
    <2>1. CASE Unwanted(e) /\ Ends(e, "cancelled") /\ UNCHANGED view
      BY <1>3, <2>1 DEF Offered
    <2>2. CASE ~Unwanted(e) /\ To(e, "choosing")
      BY <1>3, <2>2 DEF Offered
    <2>3. QED
      BY <1>3, <2>1, <2>2 DEF Offered
  <1>4. ASSUME NEW e \in Exports, Refused(e)
        PROVE  LateOnes'
    BY <1>4 DEF Refused
  <1>5. ASSUME NEW e \in Exports, Choose(e)
        PROVE  LateOnes'
    <2>1. CASE To(e, "streaming")
      BY <1>5, <2>1 DEF Choose
    <2>2. CASE Ends(e, "cancelled")
      BY <1>5, <2>2 DEF Choose
    <2>3. QED
      BY <1>5, <2>1, <2>2 DEF Choose
  <1>6. ASSUME NEW e \in Exports, Streamed(e)
        PROVE  LateOnes'
    BY <1>6 DEF Streamed
  <1>7. ASSUME NEW e \in Exports, Replaced(e)
        PROVE  LateOnes'
    <2>1. CASE Ends(e, "failed") /\ UNCHANGED destination
      BY <1>7, <2>1 DEF Replaced
    <2>2. CASE export' = [export EXCEPT ![e].phase = "saved", ![e].outcome = "saved"]
      BY <1>7, <2>2 DEF Replaced
    <2>3. QED
      BY <1>7, <2>1, <2>2 DEF Replaced
  <1>8. ASSUME NEW e \in Exports, StreamFails(e)
        PROVE  LateOnes'
    BY <1>8 DEF StreamFails
  <1>9. ASSUME NEW e \in Exports, WriteFails(e)
        PROVE  LateOnes'
    BY <1>9 DEF WriteFails
  <1>10. ASSUME NEW e \in Exports, Conclude(e)
        PROVE  LateOnes'
    BY <1>10 DEF Conclude, Concluded
  <1>11. ASSUME NEW e \in Exports, PrepareExport(e)
        PROVE  LateOnes'
    <2>1. CASE To(e, "refused") /\ UNCHANGED directory
      BY <1>11, <2>1 DEF PrepareExport
    <2>2. CASE To(e, "prepared") /\ directory' = directory \cup {e}
      BY <1>11, <2>2 DEF PrepareExport
    <2>3. QED
      BY <1>11, <2>1, <2>2 DEF PrepareExport
  <1>12. ASSUME NEW e \in Exports, ExportFails(e)
        PROVE  LateOnes'
    BY <1>12 DEF ExportFails
  <1>13. ASSUME NEW e \in Exports, BeginExport(e)
        PROVE  LateOnes'
    BY <1>13 DEF BeginExport
  <1>14. ASSUME NEW e \in Exports, WriteExport(e)
        PROVE  LateOnes'
    BY <1>14 DEF WriteExport
  <1>15. ASSUME NEW e \in Exports, ExportReady(e)
        PROVE  LateOnes'
    BY <1>15 DEF ExportReady
  <1>16. ASSUME NEW e \in Exports, AbortExport(e)
        PROVE  LateOnes'
    BY <1>16 DEF AbortExport
  <1>17. ASSUME NEW s \in Exported, Leave(s)
        PROVE  LateOnes'
    BY <1>17 DEF Leave, CancelHandle
  <1>18. ASSUME NEW s \in Exported, ExtensionWrites(s)
        PROVE  LateOnes'
    BY <1>18 DEF ExtensionWrites
  <1>19. CASE ShowRevision
    BY <1>19 DEF ShowRevision
  <1>20. CASE RevokeExport
    BY <1>20 DEF RevokeExport
  <1>21. CASE LeaveReturns
    BY <1>21 DEF LeaveReturns
  <1>22. CASE SelectNext
    BY <1>22 DEF SelectNext
  <1>23. CASE ReleaseExports
    BY <1>23 DEF ReleaseExports
  <1>24. CASE LinkLost
    BY <1>24 DEF LinkLost
  <1>25. CASE UNCHANGED exportVars
    BY <1>25 DEF exportVars
  <1> QED
    BY <1>1, <1>2, <1>3, <1>4, <1>5, <1>6, <1>7, <1>8, <1>9, <1>10, <1>11, <1>12, <1>13,
       <1>14, <1>15, <1>16, <1>17, <1>18, <1>19, <1>20, <1>21, <1>22, <1>23, <1>24, <1>25
       DEF ExportNext

(* Offered reads what the user did meanwhile, and Conclude forgets it only  *)
(* for the export whose turn it is.                                        *)
LEMMA RevokedStep ==
    ASSUME ExportTypeOK, Generations, LateOnes, Revoked,
           [ExportNext]_exportVars
    PROVE  Revoked'
  <1> USE DEF Generations, LateOnes, Revoked, ExportTypeOK, ExportRecord, Handled,
              nodeExportVars, appExportVars, To, Ends, ViewRecord, Unanswered
  <1>1. ASSUME NEW e \in Exports, AskExport(e)
        PROVE  Revoked'
    BY <1>1 DEF AskExport
  <1>2. ASSUME NEW e \in Exports, CancelWritten(e)
        PROVE  Revoked'
    BY <1>2 DEF CancelWritten
  <1>3. ASSUME NEW e \in Exports, Offered(e)
        PROVE  Revoked'
    <2>1. CASE Unwanted(e) /\ Ends(e, "cancelled") /\ UNCHANGED view
      BY <1>3, <2>1 DEF Offered, Unwanted, IsCurrent
    <2>2. CASE ~Unwanted(e) /\ To(e, "choosing")
      BY <1>3, <2>2 DEF Offered, Unwanted, IsCurrent
    <2>3. QED
      BY <1>3, <2>1, <2>2 DEF Offered, Unwanted, IsCurrent
  <1>4. ASSUME NEW e \in Exports, Refused(e)
        PROVE  Revoked'
    BY <1>4 DEF Refused
  <1>5. ASSUME NEW e \in Exports, Choose(e)
        PROVE  Revoked'
    <2>1. CASE To(e, "streaming")
      BY <1>5, <2>1 DEF Choose
    <2>2. CASE Ends(e, "cancelled")
      BY <1>5, <2>2 DEF Choose
    <2>3. QED
      BY <1>5, <2>1, <2>2 DEF Choose
  <1>6. ASSUME NEW e \in Exports, Streamed(e)
        PROVE  Revoked'
    BY <1>6 DEF Streamed
  <1>7. ASSUME NEW e \in Exports, Replaced(e)
        PROVE  Revoked'
    <2>1. CASE Ends(e, "failed") /\ UNCHANGED destination
      BY <1>7, <2>1 DEF Replaced
    <2>2. CASE export' = [export EXCEPT ![e].phase = "saved", ![e].outcome = "saved"]
      BY <1>7, <2>2 DEF Replaced
    <2>3. QED
      BY <1>7, <2>1, <2>2 DEF Replaced
  <1>8. ASSUME NEW e \in Exports, StreamFails(e)
        PROVE  Revoked'
    BY <1>8 DEF StreamFails
  <1>9. ASSUME NEW e \in Exports, WriteFails(e)
        PROVE  Revoked'
    BY <1>9 DEF WriteFails
  <1>10. ASSUME NEW e \in Exports, Conclude(e)
        PROVE  Revoked'
    BY <1>10 DEF Conclude, Concluded
  <1>11. ASSUME NEW e \in Exports, PrepareExport(e)
        PROVE  Revoked'
    <2>1. CASE To(e, "refused") /\ UNCHANGED directory
      BY <1>11, <2>1 DEF PrepareExport
    <2>2. CASE To(e, "prepared") /\ directory' = directory \cup {e}
      BY <1>11, <2>2 DEF PrepareExport
    <2>3. QED
      BY <1>11, <2>1, <2>2 DEF PrepareExport
  <1>12. ASSUME NEW e \in Exports, ExportFails(e)
        PROVE  Revoked'
    BY <1>12 DEF ExportFails
  <1>13. ASSUME NEW e \in Exports, BeginExport(e)
        PROVE  Revoked'
    BY <1>13 DEF BeginExport
  <1>14. ASSUME NEW e \in Exports, WriteExport(e)
        PROVE  Revoked'
    BY <1>14 DEF WriteExport
  <1>15. ASSUME NEW e \in Exports, ExportReady(e)
        PROVE  Revoked'
    BY <1>15 DEF ExportReady
  <1>16. ASSUME NEW e \in Exports, AbortExport(e)
        PROVE  Revoked'
    BY <1>16 DEF AbortExport
  <1>17. ASSUME NEW s \in Exported, Leave(s)
        PROVE  Revoked'
    BY <1>17 DEF Leave, CancelHandle
  <1>18. ASSUME NEW s \in Exported, ExtensionWrites(s)
        PROVE  Revoked'
    BY <1>18 DEF ExtensionWrites
  <1>19. CASE ShowRevision
    BY <1>19 DEF ShowRevision
  <1>20. CASE RevokeExport
    BY <1>20 DEF RevokeExport, IsCurrent
  <1>21. CASE LeaveReturns
    BY <1>21 DEF LeaveReturns
  <1>22. CASE SelectNext
    BY <1>22 DEF SelectNext
  <1>23. CASE ReleaseExports
    BY <1>23 DEF ReleaseExports
  <1>24. CASE LinkLost
    BY <1>24 DEF LinkLost
  <1>25. CASE UNCHANGED exportVars
    BY <1>25 DEF exportVars
  <1> QED
    BY <1>1, <1>2, <1>3, <1>4, <1>5, <1>6, <1>7, <1>8, <1>9, <1>10, <1>11, <1>12, <1>13,
       <1>14, <1>15, <1>16, <1>17, <1>18, <1>19, <1>20, <1>21, <1>22, <1>23, <1>24, <1>25
       DEF ExportNext

LEMMA StoppableStep ==
    ASSUME ExportTypeOK, Generations, Busy, LateOnes, Revoked, ExportStoppable,
           [ExportNext]_exportVars
    PROVE  ExportStoppable'
  <1> USE DEF Generations, Busy, LateOnes, ExportStoppable, GoesOn, IsCurrent,
              ExportTypeOK, ExportRecord, Handled, nodeExportVars, appExportVars, To,
              Ends, ViewRecord, Unanswered
  <1>1. ASSUME NEW e \in Exports, AskExport(e)
        PROVE  ExportStoppable'
    BY <1>1 DEF AskExport
  <1>2. ASSUME NEW e \in Exports, CancelWritten(e)
        PROVE  ExportStoppable'
    BY <1>2 DEF CancelWritten
  <1>3. ASSUME NEW e \in Exports, Offered(e)
        PROVE  ExportStoppable'
    <2>1. CASE Unwanted(e) /\ Ends(e, "cancelled") /\ UNCHANGED view
      BY <1>3, <2>1 DEF Offered, CancelHandle, Unwanted
    <2>2. CASE ~Unwanted(e) /\ To(e, "choosing")
      BY <1>3, <2>2 DEF Offered, CancelHandle, Unwanted
    <2>3. QED
      BY <1>3, <2>1, <2>2 DEF Offered, CancelHandle, Unwanted
  <1>4. ASSUME NEW e \in Exports, Refused(e)
        PROVE  ExportStoppable'
    BY <1>4 DEF Refused
  <1>5. ASSUME NEW e \in Exports, Choose(e)
        PROVE  ExportStoppable'
    <2>1. CASE To(e, "streaming")
      BY <1>5, <2>1 DEF Choose, CancelHandle
    <2>2. CASE Ends(e, "cancelled")
      BY <1>5, <2>2 DEF Choose, CancelHandle
    <2>3. QED
      BY <1>5, <2>1, <2>2 DEF Choose, CancelHandle
  <1>6. ASSUME NEW e \in Exports, Streamed(e)
        PROVE  ExportStoppable'
    BY <1>6 DEF Streamed
  <1>7. ASSUME NEW e \in Exports, Replaced(e)
        PROVE  ExportStoppable'
    <2>1. CASE Ends(e, "failed") /\ UNCHANGED destination
      BY <1>7, <2>1 DEF Replaced
    <2>2. CASE export' = [export EXCEPT ![e].phase = "saved", ![e].outcome = "saved"]
      BY <1>7, <2>2 DEF Replaced
    <2>3. QED
      BY <1>7, <2>1, <2>2 DEF Replaced
  <1>8. ASSUME NEW e \in Exports, StreamFails(e)
        PROVE  ExportStoppable'
    BY <1>8 DEF StreamFails
  <1>9. ASSUME NEW e \in Exports, WriteFails(e)
        PROVE  ExportStoppable'
    BY <1>9 DEF WriteFails, CancelHandle
  <1>10. ASSUME NEW e \in Exports, Conclude(e)
        PROVE  ExportStoppable'
    BY <1>10 DEF Conclude, Concluded
  <1>11. ASSUME NEW e \in Exports, PrepareExport(e)
        PROVE  ExportStoppable'
    <2>1. CASE To(e, "refused") /\ UNCHANGED directory
      BY <1>11, <2>1 DEF PrepareExport
    <2>2. CASE To(e, "prepared") /\ directory' = directory \cup {e}
      BY <1>11, <2>2 DEF PrepareExport
    <2>3. QED
      BY <1>11, <2>1, <2>2 DEF PrepareExport
  <1>12. ASSUME NEW e \in Exports, ExportFails(e)
        PROVE  ExportStoppable'
    BY <1>12 DEF ExportFails
  <1>13. ASSUME NEW e \in Exports, BeginExport(e)
        PROVE  ExportStoppable'
    BY <1>13 DEF BeginExport
  <1>14. ASSUME NEW e \in Exports, WriteExport(e)
        PROVE  ExportStoppable'
    BY <1>14 DEF WriteExport
  <1>15. ASSUME NEW e \in Exports, ExportReady(e)
        PROVE  ExportStoppable'
    BY <1>15 DEF ExportReady
  <1>16. ASSUME NEW e \in Exports, AbortExport(e)
        PROVE  ExportStoppable'
    BY <1>16 DEF AbortExport
  <1>17. ASSUME NEW s \in Exported, Leave(s)
        PROVE  ExportStoppable'
    <2>1. ASSUME NEW e \in Exports, export[e].phase \in GoesOn
          PROVE  ~IsCurrent(e)' /\ (e \in cancelling' \cup cancelled' \/ export[e].late)
      <3>1. ~IsCurrent(e)'
        BY <1>17, <2>1 DEF Leave
      <3>2. /\ cancelling \subseteq cancelling' /\ UNCHANGED cancelled
            /\ view.handle # 0 /\ view.handle \notin cancelled
                  /\ export[view.handle].phase \in GoesOn => view.handle \in cancelling'
        BY <1>17 DEF Leave, CancelHandle
      <3>3. e # 0 /\ (IsCurrent(e) => view.handle = e)
        BY <2>1 DEF Exports
      <3>4. ~IsCurrent(e) => e \in cancelling \cup cancelled \/ export[e].late
        BY <2>1
      <3>5. QED
        BY <2>1, <3>1, <3>2, <3>3, <3>4
    <2>2. UNCHANGED export
      BY <1>17 DEF Leave
    <2>3. QED
      BY <2>1, <2>2
  <1>18. ASSUME NEW s \in Exported, ExtensionWrites(s)
        PROVE  ExportStoppable'
    BY <1>18 DEF ExtensionWrites
  <1>19. CASE ShowRevision
    BY <1>19 DEF ShowRevision
  <1>20. CASE RevokeExport
    BY <1>20 DEF RevokeExport, CancelHandle
  <1>21. CASE LeaveReturns
    BY <1>21 DEF LeaveReturns
  <1>22. CASE SelectNext
    BY <1>22 DEF SelectNext
  <1>23. CASE ReleaseExports
    BY <1>23 DEF ReleaseExports
  <1>24. CASE LinkLost
    BY <1>24 DEF LinkLost
  <1>25. CASE UNCHANGED exportVars
    BY <1>25 DEF exportVars
  <1> QED
    BY <1>1, <1>2, <1>3, <1>4, <1>5, <1>6, <1>7, <1>8, <1>9, <1>10, <1>11, <1>12, <1>13,
       <1>14, <1>15, <1>16, <1>17, <1>18, <1>19, <1>20, <1>21, <1>22, <1>23, <1>24, <1>25
       DEF ExportNext

-----------------------------------------------------------------------------
(* Theorems *)

LEMMA ExportInvStep ==
    ASSUME ExportInv, [ExportNext]_exportVars
    PROVE  ExportInv'
  <1>1. ExportTypeOK'
    BY ExportTypeStep DEF ExportInv
  <1>2. Copies'
    BY CopiesStep DEF ExportInv
  <1>3. Contents'
    BY ContentsStep DEF ExportInv
  <1>4. Turns'
    BY GenerationsStep, BusyStep, LateOnesStep, RevokedStep, StoppableStep DEF ExportInv, Turns
  <1>5. QED
    BY <1>1, <1>2, <1>3, <1>4 DEF ExportInv

(***************************************************************************)
(* The invariant holds in every state: handleExportSession, the workspace's*)
(* _onSessionExportRequested and what cancels an export, in any order.     *)
(***************************************************************************)
THEOREM ExportInvariant == ExportSpec => []ExportInv
  <1>1. ExportInv /\ [ExportNext]_exportVars => ExportInv'
    BY ExportInvStep
  <1>2. QED
    BY ExportInvInit, <1>1, PTL DEF ExportSpec

(***************************************************************************)
(* The Node's private directory holds a copy of a session exactly as long  *)
(* as it prepares or transfers it: handleExportSession, abortTransfer,     *)
(* releaseTransfers.                                                       *)
(***************************************************************************)
THEOREM CopiesAreRemoved == ExportSpec => []CopiesRemoved
  <1>1. ExportInv => CopiesRemoved
    BY DEF ExportInv, Copies
  <1>2. QED
    BY ExportInvariant, <1>1, PTL

(***************************************************************************)
(* The user's file has the revision that was shown when the export was     *)
(* asked for, and an export that was cancelled while it was prepared is    *)
(* not saved: exportToPath, _onSessionExportRequested.                     *)
(***************************************************************************)
THEOREM ExportIsAsShown == ExportSpec => []ExportAsShown
  <1>1. ExportInv => ExportAsShown
    <2>1. SUFFICES ASSUME ExportInv
                   PROVE  ExportAsShown
      OBVIOUS
    <2>2. ASSUME destination # NoFile, export[destination].expected # Unknown
          PROVE  export[destination].content = export[destination].expected
      <3>1. destination \in Exports /\ InFile(destination)
        BY <2>1, <2>2 DEF ExportInv, ExportTypeOK, InFile
      <3>2. QED
        BY <2>1, <2>2, <3>1 DEF ExportInv, Contents, BegunAsShown, OneRevision
    <2>3. \A e \in Exports : export[e].revoked => export[e].outcome # "saved"
      BY <2>1 DEF ExportInv, Turns, Revoked
    <2>4. QED
      BY <2>2, <2>3 DEF ExportAsShown
  <1>2. QED
    BY ExportInvariant, <1>1, PTL

(***************************************************************************)
(* The export that goes on can be stopped: the view has its handle, or has *)
(* cancelled it: _onSessionExportRequested,                                *)
(* _cancelActiveExportForContextChange.                                    *)
(***************************************************************************)
THEOREM ExportIsStoppable == ExportSpec => []ExportStoppable
  <1>1. ExportInv => ExportStoppable
    BY DEF ExportInv, Turns
  <1>2. QED
    BY ExportInvariant, <1>1, PTL
=============================================================================
