---------------------------- MODULE ProjectTrust ----------------------------
(***************************************************************************)
(* Trust in one project directory: what a user is shown, what is approved, *)
(* what a session is authorized for.                                       *)
(*   node/src/project-service.ts  (validateProject, approveTrust)          *)
(*   node/src/project-trust.ts    (ProjectTrustCoordinator)                *)
(*                                                                         *)
(* The evidence lies on disk: which kinds of protected resources the       *)
(* directory has, and the decision saved for it.  It is read piece by      *)
(* piece and may change at any time, by the hand of the user, of another   *)
(* Pi Node or of a pi command line.  One Node handles one call at a time   *)
(* (its executor); several Nodes share the disk.                           *)
(*                                                                         *)
(* An operator Faulty* is no part of the specification: it is the operator *)
(* below it with a plausible mistake, which a property must refute.        *)
(***************************************************************************)
EXTENDS Naturals, FiniteSets

CONSTANTS
    Nodes,       \* Pi Node processes
    Disk,        \* whoever else writes to the disk
    Categories,  \* kinds of protected resources, numbered as they are probed
    MaxChanges   \* bound: how often something outside changes the disk

ASSUME TrustAssumption ==
    /\ Categories \subseteq Nat \ {0} /\ IsFiniteSet(Categories)
    /\ Disk \notin Nodes
    /\ MaxChanges \in Nat

VARIABLES
    resources,  \* the kinds of protected resources the directory has
    saved,      \* the decision in the ProjectTrustStore
    call,       \* the call each Node handles
    shown,      \* the evidence the user of each Node was shown last
    late,       \* history: what changed after an approval had read it again
    changed,    \* history: for each Node, whether the disk changed since it began to
                \* read the evidence it showed, or the one it reads now
    changes

trustVars == <<resources, saved, call, shown, late, changed, changes>>

-----------------------------------------------------------------------------
(* Data *)

TheDecision == 0   \* the piece of evidence that is no category
Decisions == {"unset", "yes", "no"}

(* PiNodeProjectTrustSnapshot.  Its revision is a hash of it. *)
Evidence == [reasons : SUBSET Categories, decision : Decisions]

Status(e) ==
    CASE e.reasons = {} -> "notRequired"
      [] e.reasons # {} /\ e.decision = "yes" -> "trusted"
      [] e.reasons # {} /\ e.decision = "no" -> "denied"
      [] OTHER -> "approvalRequired"

(* What a call has read so far: inspect() reads `has`, then the decision;  *)
(* detectTrustReasons probes the categories, at the same time.             *)
NotRead == [has |-> "unread", decision |-> "unread", probed |-> {}, reasons |-> {}]
Reading == [has : {"unread", "yes", "no"}, decision : Decisions \cup {"unread"},
            probed : SUBSET Categories, reasons : SUBSET Categories]

TrustPhases == {"idle", "validating", "initial", "closing", "revalidating", "approving",
           "writing", "checking", "confirming", "authorizing", "describing"}
TrustResults == {"none", "ok", "stale", "inconsistent", "failed", "persistFailed",
            "allowed", "restricted", "denied", "unresolved"}

Call == [phase : TrustPhases, read : Reading, result : TrustResults]
In(phase) == [phase |-> phase, read |-> NotRead, result |-> "none"]

Lowest(S) == CHOOSE c \in S : \A d \in S : c <= d

-----------------------------------------------------------------------------
TrustInit ==
    /\ resources \in SUBSET Categories /\ saved \in Decisions
    /\ call = [n \in Nodes |-> In("idle")]
    /\ shown = [n \in Nodes |-> [reasons |-> resources,
                                 decision |-> IF resources = {} THEN "unset" ELSE saved]]
    /\ late = [n \in Nodes |-> {}]
    /\ changed = [n \in Nodes |-> {}] /\ changes = 0

projectDiskVars == <<resources, saved, changes>>
historyVars == <<late, changed>>

EnterPhase(n, phase) == call' = [call EXCEPT ![n] = In(phase)]
EndCall(n, result) == call' = [call EXCEPT ![n] = [In("idle") EXCEPT !.result = result]]

(* Calls: getProject and listKnownProjects show the evidence, an approval  *)
(* names the revision that was shown, a session is opened or administered. *)
BeginCall(n) ==
    /\ call[n].phase = "idle"
    /\ \E phase \in {"validating", "initial", "authorizing", "describing"} : EnterPhase(n, phase)
    /\ changed' = IF call'[n].phase = "validating"
                  THEN [changed EXCEPT ![n] = @ \ {"reading"}] ELSE changed
    /\ UNCHANGED <<projectDiskVars, shown, late>>

-----------------------------------------------------------------------------
(* Reading the evidence.                                                   *)

Validates(n) == call[n].phase \in {"validating", "initial", "revalidating", "confirming"}
Inspects(n) == Validates(n) \/ call[n].phase \in {"approving", "authorizing", "describing"}

FaultyHasProtectedResources == resources # {} /\ saved # "yes"
HasProtectedResources == resources # {}

ReadResources(n) ==
    /\ Inspects(n) /\ call[n].read.has = "unread"
    /\ call' = [call EXCEPT ![n].read.has = IF HasProtectedResources THEN "yes" ELSE "no"]
    /\ UNCHANGED <<projectDiskVars, shown, historyVars>>

ReadDecision(n) ==
    /\ Inspects(n) /\ call[n].read.has = "yes" /\ call[n].read.decision = "unread"
    /\ call' = [call EXCEPT ![n].read.decision = saved]
    /\ UNCHANGED <<projectDiskVars, shown, historyVars>>

ProbeReason(n) ==
    /\ Validates(n) /\ call[n].read.probed # Categories
    /\ LET c == Lowest(Categories \ call[n].read.probed) IN
       call' = [call EXCEPT ![n].read.probed = @ \cup {c},
                            ![n].read.reasons = IF c \in resources THEN @ \cup {c} ELSE @]
    /\ UNCHANGED <<projectDiskVars, shown, historyVars>>

(* A path does not resolve to itself any more, git fails, a read fails. *)
ReadFails(n) ==
    /\ Inspects(n)
    /\ EndCall(n, "failed")
    /\ UNCHANGED <<projectDiskVars, shown, historyVars>>

Inspected(n) ==
    call[n].read.has = "no" \/ (call[n].read.has = "yes" /\ call[n].read.decision # "unread")
Validated(n) == Validates(n) /\ Inspected(n) /\ call[n].read.probed = Categories

FaultyConsistent(n) == call[n].read.has = "no" \/ call[n].read.reasons # {}
Consistent(n) == (call[n].read.has = "yes") = (call[n].read.reasons # {})

EvidenceOf(n) ==
    [reasons |-> call[n].read.reasons,
     decision |-> IF call[n].read.has = "yes" THEN call[n].read.decision ELSE "unset"]

Inconsistent(n) ==
    /\ Validated(n) /\ ~Consistent(n)
    /\ EndCall(n, "inconsistent")
    /\ UNCHANGED <<projectDiskVars, shown, historyVars>>

(* validateProject answers the client. *)
ShowProject(n) ==
    /\ call[n].phase = "validating" /\ Validated(n) /\ Consistent(n)
    /\ shown' = [shown EXCEPT ![n] = EvidenceOf(n)]
    /\ changed' = [changed EXCEPT ![n] = IF "reading" \in @ THEN @ ELSE {}]
    /\ EndCall(n, "ok")
    /\ UNCHANGED <<projectDiskVars, late>>

-----------------------------------------------------------------------------
(* approveTrust                                                            *)

FaultyAsShown(n) == Status(EvidenceOf(n)) = Status(shown[n])
AsShown(n) == EvidenceOf(n) = shown[n]

CheckInitial(n) ==
    /\ call[n].phase = "initial" /\ Validated(n) /\ Consistent(n)
    /\ \/ ~AsShown(n) /\ EndCall(n, "stale")
       \/ /\ AsShown(n) /\ Status(shown[n]) \in {"notRequired", "trusted"}
          /\ EndCall(n, "ok")
       \/ /\ AsShown(n) /\ Status(shown[n]) \in {"denied", "approvalRequired"}
          /\ EnterPhase(n, "closing")
    /\ UNCHANGED <<projectDiskVars, shown, historyVars>>

(* closeProjectSessions (SessionRegistry: the draining of the executor).   *)
SessionsClosed(n) ==
    /\ call[n].phase = "closing"
    /\ \/ EnterPhase(n, "revalidating") \/ EndCall(n, "persistFailed")
    /\ late' = [late EXCEPT ![n] = {}]
    /\ UNCHANGED <<projectDiskVars, shown, changed>>

CheckAgain(n) ==
    /\ call[n].phase = "revalidating" /\ Validated(n) /\ Consistent(n)
    /\ \/ ~AsShown(n) /\ EndCall(n, "stale")
       \/ AsShown(n) /\ EnterPhase(n, "approving")
    /\ UNCHANGED <<projectDiskVars, shown, historyVars>>

(* ProjectTrustCoordinator.approve inspects once more, for the answer. *)
InspectedForApproval(n) ==
    /\ call[n].phase = "approving" /\ Inspected(n)
    /\ EnterPhase(n, IF call[n].read.has = "no" THEN "confirming" ELSE "writing")
    /\ UNCHANGED <<projectDiskVars, shown, historyVars>>

(* Nodes whose approval had read the decision again before it changed. *)
HadRead(n, part) ==
    \/ call[n].phase \in {"approving", "writing"}
    \/ /\ call[n].phase = "revalidating"
       /\ IF part = TheDecision THEN call[n].read.decision # "unread"
                               ELSE part \in call[n].read.probed

Changed(part, by) ==
    /\ late' = [n \in Nodes |-> IF HadRead(n, part) /\ n # by THEN late[n] \cup {part}
                                                            ELSE late[n]]
    /\ changed' = [n \in Nodes |-> {"shown", "reading"}]

WriteDecision(n) ==
    /\ call[n].phase = "writing"
    /\ \/ /\ saved' = "yes" /\ EnterPhase(n, "checking")
          /\ IF saved = "yes" THEN UNCHANGED historyVars ELSE Changed(TheDecision, n)
       \/ EndCall(n, "persistFailed") /\ UNCHANGED <<saved, historyVars>>
    /\ UNCHANGED <<resources, changes, shown>>

CheckDecision(n) ==
    /\ call[n].phase = "checking"
    /\ IF saved = "yes" THEN EnterPhase(n, "confirming") ELSE EndCall(n, "persistFailed")
    /\ UNCHANGED <<projectDiskVars, shown, historyVars>>

Confirm(n) ==
    /\ call[n].phase = "confirming" /\ Validated(n) /\ Consistent(n)
    /\ \/ /\ Status(EvidenceOf(n)) \in {"trusted", "notRequired"}
          /\ EndCall(n, "ok")
          /\ shown' = [shown EXCEPT ![n] = EvidenceOf(n)]
       \/ /\ Status(EvidenceOf(n)) \notin {"trusted", "notRequired"}
          /\ EndCall(n, "persistFailed")
          /\ UNCHANGED shown
    /\ UNCHANGED <<projectDiskVars, historyVars>>

-----------------------------------------------------------------------------
(* authorize, for opening and changing a session, and authorizeMetadata,   *)
(* for listing and administering: project resources are allowed only with  *)
(* a saved approval.  stdio-main passes no decision provider.              *)

MayUseResources(n) == call[n].read.decision = "yes"

Authorize(n) ==
    /\ call[n].phase = "authorizing" /\ Inspected(n)
    /\ \/ call[n].read.has = "no" /\ EndCall(n, "restricted")
       \/ call[n].read.has = "yes" /\ MayUseResources(n) /\ EndCall(n, "allowed")
       \/ /\ call[n].read.has = "yes" /\ ~MayUseResources(n)
          /\ EndCall(n, IF call[n].read.decision = "no" THEN "denied" ELSE "unresolved")
    /\ UNCHANGED <<projectDiskVars, shown, historyVars>>

AuthorizeMetadata(n) ==
    /\ call[n].phase = "describing" /\ Inspected(n)
    /\ EndCall(n, IF call[n].read.has = "yes" /\ MayUseResources(n) THEN "allowed" ELSE "restricted")
    /\ UNCHANGED <<projectDiskVars, shown, historyVars>>

-----------------------------------------------------------------------------
(* The disk changes by itself. *)
ResourceChanges(c) ==
    /\ changes < MaxChanges /\ changes' = changes + 1
    /\ resources' = IF c \in resources THEN resources \ {c} ELSE resources \cup {c}
    /\ Changed(c, Disk)
    /\ UNCHANGED <<saved, call, shown>>

DecisionChanges(d) ==
    /\ changes < MaxChanges /\ changes' = changes + 1
    /\ saved # d /\ saved' = d
    /\ Changed(TheDecision, Disk)
    /\ UNCHANGED <<resources, call, shown>>

-----------------------------------------------------------------------------
Read(n) == ReadResources(n) \/ ReadDecision(n) \/ ProbeReason(n)

Continue(n) ==
    \/ Inconsistent(n) \/ ShowProject(n)
    \/ CheckInitial(n) \/ SessionsClosed(n) \/ CheckAgain(n) \/ InspectedForApproval(n)
    \/ WriteDecision(n) \/ CheckDecision(n) \/ Confirm(n)
    \/ Authorize(n) \/ AuthorizeMetadata(n)

TrustNext ==
    \/ \E n \in Nodes : BeginCall(n) \/ Read(n) \/ ReadFails(n) \/ Continue(n)
    \/ \E c \in Categories : ResourceChanges(c)
    \/ \E d \in Decisions : DecisionChanges(d)

TrustSpec == TrustInit /\ [][TrustNext]_trustVars

-----------------------------------------------------------------------------
(* Properties.                                                             *)

(***************************************************************************)
(* An approval is saved only for the evidence the user was shown: where    *)
(* the disk differs from it, it changed after the approval had read that   *)
(* piece again, once the sessions were closed.  Nothing that appeared, and *)
(* no denial that was saved, before that is approved unseen.               *)
(***************************************************************************)
ApprovalInformed ==
    [][\A n \in Nodes : call[n].phase = "writing" /\ call'[n].phase = "checking" =>
          /\ \A c \in Categories : (c \in resources) # (c \in shown[n].reasons) => c \in late[n]
          /\ saved # shown[n].decision => TheDecision \in late[n]]_trustVars

(***************************************************************************)
(* A project is refused as stale or inconsistent only if its evidence did  *)
(* change since this Node began to read what it showed: the many pieces    *)
(* the evidence is read in do not disagree by themselves.                  *)
(***************************************************************************)
RefusalHasCause ==
    \A n \in Nodes :
        /\ call[n].result = "stale" => "shown" \in changed[n]
        /\ call[n].result = "inconsistent" => changed[n] # {}

(***************************************************************************)
(* A decision about a project is of what the user saw: an approval is      *)
(* saved only for that, and refused only if it changed.  approveProject,   *)
(* #evidence                                                               *)
(***************************************************************************)
ApprovalRight == ApprovalInformed /\ []RefusalHasCause
=============================================================================
