----------------------------- MODULE OnDiskProofs -----------------------------
(***************************************************************************)
(* Theorems about what a Node does with a disk that others change too, for *)
(* every value of the constants: trust in a project (ProjectTrust), the    *)
(* administration of session files (SessionAdministration), and what it    *)
(* answers of projects and sessions (DiskAnswers).                         *)
(***************************************************************************)
EXTENDS DiskAnswers, SessionAdministration, FiniteSetTheorems, WellFoundedInduction, TLAPS

-----------------------------------------------------------------------------
(* The least and the greatest of a finite set of numbers.                  *)

LEMMA LeastNumber ==
    ASSUME NEW S, S \subseteq Nat, S # {}
    PROVE  \E m \in S : \A k \in S : m <= k
  <1>1. IsWellFoundedOn(OpToRel(<, Nat), Nat)
    BY NatLessThanWellFounded
  <1>2. PICK m \in S : \A k \in S : ~ (<<k, m>> \in OpToRel(<, Nat))
    BY <1>1, WFMin
  <1>3. \A k \in S : ~ (k < m)
    BY <1>2 DEF OpToRel
  <1>4. QED
    BY <1>3

LEMMA LowestOf ==
    ASSUME NEW S, S \subseteq Nat, S # {}
    PROVE  Lowest(S) \in S /\ \A k \in S : Lowest(S) <= k
  BY LeastNumber DEF Lowest

LEMMA LeastOf ==
    ASSUME NEW S, S \subseteq Nat, S # {}
    PROVE  Least(S) \in S /\ \A k \in S : Least(S) <= k
  BY LeastNumber DEF Least

LEMMA GreatestNumber ==
    ASSUME NEW S, S \subseteq Nat, S # {}, IsFiniteSet(S)
    PROVE  \E x \in S : \A y \in S : y <= x
  <1> DEFINE above(x) == {y \in S : x < y}
  <1> DEFINE sizes == {Cardinality(above(x)) : x \in S}
  <1>1. \A x \in S : IsFiniteSet(above(x)) /\ Cardinality(above(x)) \in Nat
    BY FS_Subset, FS_CardinalityType
  <1>2. PICK x \in S : \A z \in S : Cardinality(above(x)) <= Cardinality(above(z))
    <2>1. sizes \subseteq Nat /\ sizes # {}
      BY <1>1
    <2>2. ASSUME NEW T, T \subseteq Nat, T # {}
          PROVE  \E m \in T : \A k \in T : m <= k
      BY <2>2, LeastNumber
    <2> HIDE DEF above, sizes
    <2>3. PICK m \in sizes : \A k \in sizes : m <= k
      BY <2>1, <2>2
    <2>4. PICK x \in S : m = Cardinality(above(x))
      BY <2>3 DEF sizes
    <2>5. QED
      BY <2>3, <2>4 DEF sizes
  <1>3. ASSUME NEW y \in S, x < y  PROVE FALSE
    <2>1. above(y) \subseteq above(x) /\ y \in above(x) /\ y \notin above(y)
      <3>1. x \in S /\ x \in Nat /\ y \in Nat /\ ~ (y < y)
        BY <1>2, <1>3
      <3>2. y \in above(x) /\ y \notin above(y)
        BY <1>3, <3>1
      <3>3. ASSUME NEW z \in S, y < z  PROVE x < z
        <4>1. z \in Nat
          OBVIOUS
        <4>2. QED
          BY <1>3, <3>1, <3>3, <4>1
      <3>4. QED
        BY <3>2, <3>3
    <2>2. above(y) # above(x)
      BY <2>1
    <2>3. Cardinality(above(y)) < Cardinality(above(x))
      BY <1>1, <1>2, <2>1, <2>2, FS_Subset
    <2>4. Cardinality(above(x)) <= Cardinality(above(y))
      BY <1>2
    <2>5. Cardinality(above(x)) \in Nat /\ Cardinality(above(y)) \in Nat
      BY <1>1, <1>2
    <2>6. QED
      BY <2>3, <2>4, <2>5
  <1>4. QED
    BY <1>2, <1>3

LEMMA GreatestOf ==
    ASSUME NEW S, S \subseteq Nat, S # {}, IsFiniteSet(S)
    PROVE  Greatest(S) \in S /\ \A k \in S : k <= Greatest(S)
  BY GreatestNumber DEF Greatest

-----------------------------------------------------------------------------
(* Project trust.                                                          *)

TrustTypeOK ==
    /\ resources \subseteq Categories /\ saved \in Decisions
    /\ call \in [Nodes -> Call]
    /\ shown \in [Nodes -> Evidence]
    /\ late \in [Nodes -> SUBSET (Categories \cup {TheDecision})]
    /\ changed \in [Nodes -> SUBSET {"shown", "reading"}]
    /\ changes \in Nat

(* A decision is read only of a directory with protected resources, and a  *)
(* category counts as a reason only when it was probed.                    *)
ReadInOrder ==
    \A n \in Nodes :
        /\ call[n].read.decision # "unread" => call[n].read.has = "yes"
        /\ call[n].read.reasons \subseteq call[n].read.probed

(* What a call has read is what is on the disk, where nothing changed.     *)
ReadAsOnDisk(n) ==
    /\ call[n].read.has \in {"unread", IF resources = {} THEN "no" ELSE "yes"}
    /\ call[n].read.decision \in {"unread", saved}
    /\ call[n].read.reasons = call[n].read.probed \cap resources

EvidenceOnDisk ==
    [reasons |-> resources, decision |-> IF resources = {} THEN "unset" ELSE saved]

NothingChanged ==
    \A n \in Nodes :
        /\ "reading" \in changed[n] => "shown" \in changed[n]
        /\ "shown" \notin changed[n] => ReadAsOnDisk(n) /\ shown[n] = EvidenceOnDisk
        /\ call[n].phase = "validating" /\ "reading" \notin changed[n] => ReadAsOnDisk(n)

(* An approval is of a project with protected resources; what it has read  *)
(* again, once the sessions were closed, is on the disk or changed since.  *)
Approving == {"closing", "revalidating", "approving", "writing"}

ApprovesAsShown ==
    \A n \in Nodes :
        /\ call[n].phase \in Approving => shown[n].reasons # {}
        /\ call[n].phase = "revalidating" =>
              /\ call[n].read.decision \in {"unread", saved} \/ TheDecision \in late[n]
              /\ \A c \in call[n].read.probed :
                    (c \in resources) # (c \in call[n].read.reasons) => c \in late[n]
        /\ call[n].phase \in {"approving", "writing"} =>
              /\ saved # shown[n].decision => TheDecision \in late[n]
              /\ \A c \in Categories :
                    (c \in resources) # (c \in shown[n].reasons) => c \in late[n]

TrustInv == TrustTypeOK /\ ReadInOrder /\ NothingChanged /\ ApprovesAsShown /\ RefusalHasCause

Asked(p, r) == [phase |-> p, read |-> NotRead, result |-> r]

LEMMA AskedCall == \A p \in TrustPhases, r \in TrustResults : Asked(p, r) \in Call
  BY DEF Asked, Call, NotRead, Reading, Decisions

LEMMA CallMoves ==
    ASSUME TrustTypeOK, NEW n \in Nodes, NEW p \in TrustPhases, NEW r \in TrustResults
    PROVE  /\ EnterPhase(n, p) => call' = [call EXCEPT ![n] = Asked(p, "none")]
           /\ EndCall(n, r) => call' = [call EXCEPT ![n] = Asked("idle", r)]
           /\ Asked(p, r) \in Call
           /\ [call EXCEPT ![n] = Asked(p, r)] \in [Nodes -> Call]
           /\ [call EXCEPT ![n] = Asked(p, r)][n].phase = p
           /\ [call EXCEPT ![n] = Asked(p, r)][n].read = NotRead
           /\ [call EXCEPT ![n] = Asked(p, r)][n].result = r
  <1>1. Asked(p, r) \in Call
    BY AskedCall
  <1>2. call \in [Nodes -> Call]
    BY DEF TrustTypeOK
  <1>3. [call EXCEPT ![n] = Asked(p, r)] \in [Nodes -> Call]
    BY <1>1, <1>2
  <1>4. [call EXCEPT ![n] = Asked(p, r)][n] = Asked(p, r)
    BY <1>2
  <1>5. In(p) = Asked(p, "none") /\ [In("idle") EXCEPT !.result = r] = Asked("idle", r)
    BY DEF In, Asked
  <1>6. QED
    BY <1>1, <1>3, <1>4, <1>5 DEF EnterPhase, EndCall, Asked

LEMMA NothingRead ==
    ASSUME NEW n \in Nodes, call[n].read = NotRead
    PROVE  /\ call[n].read.has = "unread" /\ call[n].read.decision = "unread"
           /\ call[n].read.probed = {} /\ call[n].read.reasons = {}
           /\ ReadAsOnDisk(n)
  BY DEF NotRead, ReadAsOnDisk

(* A call that goes on to another phase, or ends, has nothing read.        *)
LEMMA CallGoesOn ==
    ASSUME TrustInv, NEW n \in Nodes, NEW p \in TrustPhases, NEW r \in TrustResults,
           call' = [call EXCEPT ![n] = Asked(p, r)],
           UNCHANGED <<projectDiskVars, shown, changed>>,
           \/ late' = late
           \/ late' = [late EXCEPT ![n] = {}] /\ p \notin {"approving", "writing"},
           r = "stale" => "shown" \in changed[n],
           r = "inconsistent" => changed[n] # {},
           p \in Approving => shown[n].reasons # {},
           p \in {"approving", "writing"} =>
              /\ saved # shown[n].decision => TheDecision \in late[n]
              /\ \A c \in Categories :
                    (c \in resources) # (c \in shown[n].reasons) => c \in late[n]
    PROVE  TrustInv'
  <1>1. /\ call' \in [Nodes -> Call] /\ call'[n].phase = p /\ call'[n].read = NotRead
        /\ call'[n].result = r /\ \A m \in Nodes \ {n} : call'[m] = call[m]
    <2>1. TrustTypeOK /\ call \in [Nodes -> Call]
      BY DEF TrustInv, TrustTypeOK
    <2>2. \A m \in Nodes \ {n} : call'[m] = call[m]
      BY <2>1
    <2>3. Asked(p, r) \in Call
      BY AskedCall
    <2>4. call' \in [Nodes -> Call] /\ call'[n] = Asked(p, r)
      BY <2>1, <2>3
    <2>5. QED
      BY <2>2, <2>4 DEF Asked
  <1>2. /\ resources' = resources /\ saved' = saved /\ changes' = changes
        /\ shown' = shown /\ changed' = changed
    BY DEF projectDiskVars
  <1>3. /\ call'[n].read.has = "unread" /\ call'[n].read.decision = "unread"
        /\ call'[n].read.probed = {} /\ call'[n].read.reasons = {}
    BY <1>1 DEF NotRead
  <1>4. /\ late' \in [Nodes -> SUBSET (Categories \cup {TheDecision})]
        /\ \A m \in Nodes \ {n} : late'[m] = late[m]
        /\ p \in {"approving", "writing"} => late'[n] = late[n]
    BY DEF TrustInv, TrustTypeOK
  <1>5. TrustTypeOK'
    BY <1>1, <1>2, <1>4 DEF TrustInv, TrustTypeOK
  <1>6. ReadInOrder'
    BY <1>1, <1>3 DEF TrustInv, ReadInOrder
  <1>7. NothingChanged'
    <2>1. ReadAsOnDisk(n)'
      BY <1>3 DEF ReadAsOnDisk
    <2>2. \A m \in Nodes \ {n} : ReadAsOnDisk(m)' = ReadAsOnDisk(m)
      BY <1>1, <1>2 DEF ReadAsOnDisk
    <2>3. EvidenceOnDisk' = EvidenceOnDisk
      BY <1>2 DEF EvidenceOnDisk
    <2>4. QED
      BY <1>1, <1>2, <2>1, <2>2, <2>3 DEF TrustInv, NothingChanged
  <1>8. ApprovesAsShown'
    <2>1. ASSUME NEW m \in Nodes \ {n}
          PROVE  /\ call'[m] = call[m] /\ late'[m] = late[m]
      BY <1>1, <1>4
    <2>2. QED
      BY <1>1, <1>2, <1>3, <1>4, <2>1 DEF TrustInv, ApprovesAsShown
  <1>9. RefusalHasCause'
    BY <1>1, <1>2 DEF TrustInv, RefusalHasCause
  <1>10. QED
    BY <1>5, <1>6, <1>7, <1>8, <1>9 DEF TrustInv

LEMMA TrustInvInit == TrustInit => TrustInv
  <1>1. ASSUME TrustInit
        PROVE  TrustInv
    <2>1. /\ call \in [Nodes -> Call]
          /\ \A n \in Nodes : call[n].phase = "idle" /\ call[n].read = NotRead
                              /\ call[n].result = "none"
      BY <1>1 DEF TrustInit, In, Call, NotRead, Reading, TrustPhases, TrustResults
    <2>2. shown = [n \in Nodes |-> EvidenceOnDisk] /\ EvidenceOnDisk \in Evidence
      BY <1>1 DEF TrustInit, EvidenceOnDisk, Evidence, Decisions
    <2>3. TrustTypeOK
      BY <1>1, <2>1, <2>2 DEF TrustInit, TrustTypeOK
    <2>4. ReadInOrder /\ NothingChanged
      BY <1>1, <2>1, <2>2, NothingRead DEF TrustInit, ReadInOrder, NothingChanged
    <2>5. ApprovesAsShown /\ RefusalHasCause
      BY <1>1, <2>1 DEF TrustInit, ApprovesAsShown, RefusalHasCause, Approving
    <2>6. QED
      BY <2>3, <2>4, <2>5 DEF TrustInv
  <1>2. QED
    BY <1>1

(* Actions that end a call or go on with it, and change nothing else.      *)
LEMMA CallSteps ==
    ASSUME TrustInv, NEW n \in Nodes,
           \/ ReadFails(n) \/ Inconsistent(n) \/ CheckInitial(n) \/ SessionsClosed(n)
           \/ CheckAgain(n) \/ InspectedForApproval(n) \/ CheckDecision(n)
           \/ Authorize(n) \/ AuthorizeMetadata(n)
    PROVE  TrustInv'
  <1> USE DEF historyVars
  <1>0. TrustTypeOK /\ resources \subseteq Categories
    BY DEF TrustInv, TrustTypeOK
  <1>1. CASE ReadFails(n)
    <2>1. call' = [call EXCEPT ![n] = Asked("idle", "failed")]
      BY <1>0, <1>1, CallMoves DEF ReadFails, TrustPhases, TrustResults
    <2>2. QED
      BY <1>1, <2>1, CallGoesOn DEF ReadFails, TrustPhases, TrustResults, Approving
  <1>2. CASE Inconsistent(n)
    <2>1. call' = [call EXCEPT ![n] = Asked("idle", "inconsistent")]
      BY <1>0, <1>2, CallMoves DEF Inconsistent, TrustPhases, TrustResults
    <2>2. changed[n] # {}
      <3>1. ~ReadAsOnDisk(n)
        BY <1>0, <1>2
        DEF Inconsistent, Validated, Inspected, Consistent, ReadAsOnDisk
      <3>2. QED
        BY <3>1 DEF TrustInv, NothingChanged
    <2>3. QED
      BY <1>2, <2>1, <2>2, CallGoesOn DEF Inconsistent, TrustPhases, TrustResults, Approving
  <1>3. ASSUME Validated(n), Consistent(n), ~AsShown(n), call[n].phase \in {"initial", "revalidating"}
        PROVE  "shown" \in changed[n]
    <2>1. ReadAsOnDisk(n) => EvidenceOf(n) = EvidenceOnDisk
      BY <1>0, <1>3
      DEF Validated, Inspected, Consistent, ReadAsOnDisk, EvidenceOf, EvidenceOnDisk
    <2>2. QED
      BY <1>3, <2>1 DEF AsShown, TrustInv, NothingChanged
  <1>4. CASE CheckInitial(n)
    <2>1. CASE ~AsShown(n) /\ EndCall(n, "stale")
      <3>1. call' = [call EXCEPT ![n] = Asked("idle", "stale")]
        BY <1>0, <2>1, CallMoves DEF TrustPhases, TrustResults
      <3>2. QED
        BY <1>3, <1>4, <2>1, <3>1, CallGoesOn
        DEF CheckInitial, TrustPhases, TrustResults, Approving
    <2>2. CASE EndCall(n, "ok")
      <3>1. call' = [call EXCEPT ![n] = Asked("idle", "ok")]
        BY <1>0, <2>2, CallMoves DEF TrustPhases, TrustResults
      <3>2. QED
        BY <1>4, <3>1, CallGoesOn DEF CheckInitial, TrustPhases, TrustResults, Approving
    <2>3. CASE Status(shown[n]) \in {"denied", "approvalRequired"} /\ EnterPhase(n, "closing")
      <3>1. call' = [call EXCEPT ![n] = Asked("closing", "none")]
        BY <1>0, <2>3, CallMoves DEF TrustPhases, TrustResults
      <3>2. shown[n].reasons # {}
        BY <2>3 DEF Status
      <3>3. QED
        BY <1>4, <3>1, <3>2, CallGoesOn DEF CheckInitial, TrustPhases, TrustResults
    <2>4. QED
      BY <1>4, <2>1, <2>2, <2>3 DEF CheckInitial
  <1>5. CASE SessionsClosed(n)
    <2>1. shown[n].reasons # {}
      BY <1>5 DEF SessionsClosed, TrustInv, ApprovesAsShown, Approving
    <2>2. PICK p \in {"revalidating", "idle"}, r \in {"none", "persistFailed"} :
             call' = [call EXCEPT ![n] = Asked(p, r)]
      BY <1>0, <1>5, CallMoves DEF SessionsClosed, TrustPhases, TrustResults
    <2>3. QED
      BY <1>5, <2>1, <2>2, CallGoesOn DEF SessionsClosed, TrustPhases, TrustResults
  <1>6. CASE CheckAgain(n)
    <2>1. CASE ~AsShown(n) /\ EndCall(n, "stale")
      <3>1. call' = [call EXCEPT ![n] = Asked("idle", "stale")]
        BY <1>0, <2>1, CallMoves DEF TrustPhases, TrustResults
      <3>2. QED
        BY <1>3, <1>6, <2>1, <3>1, CallGoesOn
        DEF CheckAgain, TrustPhases, TrustResults, Approving
    <2>2. CASE AsShown(n) /\ EnterPhase(n, "approving")
      <3>1. call' = [call EXCEPT ![n] = Asked("approving", "none")]
        BY <1>0, <2>2, CallMoves DEF TrustPhases, TrustResults
      <3>2. /\ shown[n].reasons # {} /\ call[n].read.probed = Categories
            /\ shown[n].reasons = call[n].read.reasons
            /\ call[n].read.has = "yes" /\ shown[n].decision = call[n].read.decision
            /\ call[n].read.decision # "unread"
        BY <1>6, <2>2
        DEF CheckAgain, Validated, Inspected, Consistent, AsShown, EvidenceOf, TrustInv,
            ApprovesAsShown, Approving
      <3>3. /\ saved # shown[n].decision => TheDecision \in late[n]
            /\ \A c \in Categories :
                  (c \in resources) # (c \in shown[n].reasons) => c \in late[n]
        BY <1>6, <3>2 DEF CheckAgain, TrustInv, ApprovesAsShown
      <3>4. QED
        BY <1>6, <3>1, <3>2, <3>3, CallGoesOn DEF CheckAgain, TrustPhases, TrustResults
    <2>3. QED
      BY <1>6, <2>1, <2>2 DEF CheckAgain
  <1>7. CASE InspectedForApproval(n)
    <2>1. PICK p \in {"confirming", "writing"} : call' = [call EXCEPT ![n] = Asked(p, "none")]
      <3>1. EnterPhase(n, "confirming") \/ EnterPhase(n, "writing")
        BY <1>7 DEF InspectedForApproval
      <3>2. /\ "confirming" \in TrustPhases /\ "writing" \in TrustPhases
            /\ "none" \in TrustResults
        BY DEF TrustPhases, TrustResults
      <3>3. \E p \in {"confirming", "writing"} : EnterPhase(n, p) /\ p \in TrustPhases
        BY <3>1, <3>2
      <3>4. QED
        BY <1>0, <3>2, <3>3, CallMoves
    <2>2. /\ shown[n].reasons # {}
          /\ saved # shown[n].decision => TheDecision \in late[n]
          /\ \A c \in Categories :
                (c \in resources) # (c \in shown[n].reasons) => c \in late[n]
      BY <1>7 DEF InspectedForApproval, TrustInv, ApprovesAsShown, Approving
    <2>3. QED
      BY <1>7, <2>1, <2>2, CallGoesOn DEF InspectedForApproval, TrustPhases, TrustResults
  <1>8. CASE CheckDecision(n)
    <2>1. PICK p \in {"confirming", "idle"}, r \in {"none", "persistFailed"} :
             call' = [call EXCEPT ![n] = Asked(p, r)]
      BY <1>0, <1>8, CallMoves DEF CheckDecision, TrustPhases, TrustResults
    <2>2. QED
      BY <1>8, <2>1, CallGoesOn DEF CheckDecision, TrustPhases, TrustResults, Approving
  <1>9. CASE Authorize(n) \/ AuthorizeMetadata(n)
    <2>1. PICK r \in {"restricted", "allowed", "denied", "unresolved"} :
             call' = [call EXCEPT ![n] = Asked("idle", r)]
      <3>1. \/ EndCall(n, "restricted") \/ EndCall(n, "allowed")
            \/ EndCall(n, "denied") \/ EndCall(n, "unresolved")
        BY <1>9 DEF Authorize, AuthorizeMetadata
      <3>2. \A r \in {"restricted", "allowed", "denied", "unresolved"} : r \in TrustResults
        BY DEF TrustResults
      <3>3. "idle" \in TrustPhases
        BY DEF TrustPhases
      <3>4. \E r \in {"restricted", "allowed", "denied", "unresolved"} :
               EndCall(n, r) /\ r \in TrustResults
        BY <3>1, <3>2
      <3>5. QED
        BY <1>0, <3>3, <3>4, CallMoves
    <2>2. QED
      BY <1>9, <2>1, CallGoesOn
      DEF Authorize, AuthorizeMetadata, TrustPhases, TrustResults, Approving
  <1>10. QED
    BY <1>1, <1>2, <1>4, <1>5, <1>6, <1>7, <1>8, <1>9

(* A call reads one more piece of the evidence.                            *)
LEMMA CallReads ==
    ASSUME TrustInv, NEW n \in Nodes,
           call' \in [Nodes -> Call],
           call'[n].phase = call[n].phase, call'[n].result = call[n].result,
           \A m \in Nodes \ {n} : call'[m] = call[m],
           UNCHANGED <<projectDiskVars, shown, historyVars>>,
           call'[n].read.has \in {call[n].read.has, IF resources = {} THEN "no" ELSE "yes"},
           call'[n].read.decision \in {call[n].read.decision, saved},
           call'[n].read.decision # "unread" => call'[n].read.has = "yes",
           call'[n].read.reasons \subseteq call'[n].read.probed,
           call[n].read.probed \subseteq call'[n].read.probed,
           \A c \in call'[n].read.probed :
               c \in call'[n].read.reasons <=>
                   IF c \in call[n].read.probed THEN c \in call[n].read.reasons
                                                ELSE c \in resources
    PROVE  TrustInv'
  <1>1. /\ resources' = resources /\ saved' = saved /\ changes' = changes
        /\ shown' = shown /\ changed' = changed /\ late' = late
    BY DEF projectDiskVars, historyVars
  <1>2. TrustTypeOK'
    BY <1>1 DEF TrustInv, TrustTypeOK
  <1>3. ReadInOrder'
    <2>1. \A m \in Nodes : m = n \/ call'[m] = call[m]
      OBVIOUS
    <2>2. QED
      BY <2>1 DEF TrustInv, ReadInOrder
  <1>4. NothingChanged'
    <2>1. ReadAsOnDisk(n) => ReadAsOnDisk(n)'
      BY <1>1 DEF ReadAsOnDisk
    <2>2. \A m \in Nodes \ {n} : ReadAsOnDisk(m)' = ReadAsOnDisk(m)
      BY <1>1 DEF ReadAsOnDisk
    <2>3. EvidenceOnDisk' = EvidenceOnDisk
      BY <1>1 DEF EvidenceOnDisk
    <2>4. \A m \in Nodes : call'[m].phase = call[m].phase
      OBVIOUS
    <2>5. QED
      BY <1>1, <2>1, <2>2, <2>3, <2>4 DEF TrustInv, NothingChanged
  <1>5. ApprovesAsShown'
    <2>1. \A m \in Nodes : call'[m].phase = call[m].phase
      OBVIOUS
    <2>2. call[n].phase = "revalidating" =>
             /\ call'[n].read.decision \in {"unread", saved} \/ TheDecision \in late[n]
             /\ \A c \in call'[n].read.probed :
                   (c \in resources) # (c \in call'[n].read.reasons) => c \in late[n]
      BY DEF TrustInv, ApprovesAsShown
    <2>3. \A m \in Nodes : m = n \/ call'[m] = call[m]
      OBVIOUS
    <2>4. QED
      BY <1>1, <2>1, <2>2, <2>3 DEF TrustInv, ApprovesAsShown
  <1>6. RefusalHasCause'
    <2>1. \A m \in Nodes : call'[m].result = call[m].result
      OBVIOUS
    <2>2. QED
      BY <1>1, <2>1 DEF TrustInv, RefusalHasCause
  <1>7. QED
    BY <1>2, <1>3, <1>4, <1>5, <1>6 DEF TrustInv

(* An EXCEPT on what a call has read.                                      *)
LEMMA ReadFields ==
    ASSUME TrustTypeOK, NEW n \in Nodes
    PROVE  /\ \A h \in {"yes", "no"} : [call EXCEPT ![n].read.has = h] \in [Nodes -> Call]
           /\ \A d \in Decisions : [call EXCEPT ![n].read.decision = d] \in [Nodes -> Call]
           /\ \A P \in SUBSET Categories, R \in SUBSET Categories :
                 [call EXCEPT ![n].read.probed = P, ![n].read.reasons = R] \in [Nodes -> Call]
  <1>1. call \in [Nodes -> Call] /\ call[n] \in Call /\ call[n].read \in Reading
    BY DEF TrustTypeOK, Call
  <1>2. \A r \in Reading : [call[n] EXCEPT !.read = r] \in Call
    BY <1>1 DEF Call
  <1>3. \A r \in Reading : [call EXCEPT ![n].read = r] \in [Nodes -> Call]
    <2>1. ASSUME NEW r \in Reading
          PROVE  [call EXCEPT ![n].read = r] \in [Nodes -> Call]
      <3>1. PICK k \in Call : k = [call[n] EXCEPT !.read = r]
        BY <1>2
      <3>2. [call EXCEPT ![n].read = r] = [call EXCEPT ![n] = k]
        BY <1>1, <3>1
      <3>3. QED
        BY <1>1, <3>2
    <2>2. QED
      BY <2>1
  <1>4. ASSUME NEW h \in {"yes", "no"}
        PROVE  [call EXCEPT ![n].read.has = h] \in [Nodes -> Call]
    <2>1. PICK r \in Reading : r = [call[n].read EXCEPT !.has = h]
      BY <1>1 DEF Reading
    <2>2. [call EXCEPT ![n].read.has = h] = [call EXCEPT ![n].read = r]
      BY <1>1, <2>1
    <2>3. QED
      BY <1>3, <2>2
  <1>5. ASSUME NEW d \in Decisions
        PROVE  [call EXCEPT ![n].read.decision = d] \in [Nodes -> Call]
    <2>1. PICK r \in Reading : r = [call[n].read EXCEPT !.decision = d]
      BY <1>1 DEF Reading
    <2>2. [call EXCEPT ![n].read.decision = d] = [call EXCEPT ![n].read = r]
      BY <1>1, <2>1
    <2>3. QED
      BY <1>3, <2>2
  <1>6. ASSUME NEW P \in SUBSET Categories, NEW R \in SUBSET Categories
        PROVE  [call EXCEPT ![n].read.probed = P, ![n].read.reasons = R] \in [Nodes -> Call]
    <2>1. PICK r \in Reading : r = [call[n].read EXCEPT !.probed = P, !.reasons = R]
      BY <1>1 DEF Reading
    <2>2. [call EXCEPT ![n].read.probed = P, ![n].read.reasons = R] = [call EXCEPT ![n].read = r]
      BY <1>1, <2>1
    <2>3. QED
      BY <1>3, <2>2
  <1>7. QED
    BY <1>4, <1>5, <1>6

LEMMA ReadSteps ==
    ASSUME TrustInv, NEW n \in Nodes, Read(n)
    PROVE  TrustInv'
  <1>1. /\ TrustTypeOK /\ call \in [Nodes -> Call] /\ call[n] \in Call
        /\ call[n].read \in Reading /\ saved \in Decisions
    BY DEF TrustInv, TrustTypeOK, Call
  <1>2. /\ call[n].read.decision # "unread" => call[n].read.has = "yes"
        /\ call[n].read.reasons \subseteq call[n].read.probed
    BY DEF TrustInv, ReadInOrder
  <1>3. CASE ReadResources(n)
    <2>1. PICK h \in {"yes", "no"} : /\ h = IF resources = {} THEN "no" ELSE "yes"
                                     /\ call' = [call EXCEPT ![n].read.has = h]
      BY <1>3 DEF ReadResources, HasProtectedResources
    <2>2. call' \in [Nodes -> Call]
      BY <1>1, <2>1, ReadFields
    <2>3. /\ call'[n].phase = call[n].phase /\ call'[n].result = call[n].result
          /\ call'[n].read.has = h /\ call'[n].read.decision = call[n].read.decision
          /\ call'[n].read.probed = call[n].read.probed
          /\ call'[n].read.reasons = call[n].read.reasons
          /\ \A m \in Nodes \ {n} : call'[m] = call[m]
      BY <1>1, <2>1 DEF Call, Reading
    <2>4. call[n].read.has = "unread"
      BY <1>3 DEF ReadResources
    <2>5. QED
      BY <1>2, <1>3, <2>1, <2>2, <2>3, <2>4, CallReads DEF ReadResources
  <1>4. CASE ReadDecision(n)
    <2>1. call' = [call EXCEPT ![n].read.decision = saved] /\ call[n].read.has = "yes"
      BY <1>4 DEF ReadDecision
    <2>2. call' \in [Nodes -> Call]
      BY <1>1, <2>1, ReadFields
    <2>3. /\ call'[n].phase = call[n].phase /\ call'[n].result = call[n].result
          /\ call'[n].read.has = call[n].read.has /\ call'[n].read.decision = saved
          /\ call'[n].read.probed = call[n].read.probed
          /\ call'[n].read.reasons = call[n].read.reasons
          /\ \A m \in Nodes \ {n} : call'[m] = call[m]
      BY <1>1, <2>1 DEF Call, Reading
    <2>4. QED
      BY <1>2, <1>4, <2>1, <2>2, <2>3, CallReads DEF ReadDecision
  <1>5. CASE ProbeReason(n)
    <2>1. PICK c \in Categories :
             /\ c \notin call[n].read.probed
             /\ call' = [call EXCEPT ![n].read.probed = @ \cup {c},
                                     ![n].read.reasons = IF c \in resources THEN @ \cup {c} ELSE @]
      <3>1. Categories \ call[n].read.probed # {} /\ Categories \ call[n].read.probed \subseteq Nat
        BY <1>1, <1>5, TrustAssumption DEF ProbeReason, Reading
      <3>2. Lowest(Categories \ call[n].read.probed) \in Categories \ call[n].read.probed
        BY <3>1, LowestOf
      <3>3. QED
        BY <1>5, <3>2 DEF ProbeReason
    <2>2. PICK P \in SUBSET Categories : P = call[n].read.probed \cup {c}
      BY <1>1 DEF Reading
    <2>3. PICK R \in SUBSET Categories :
             R = IF c \in resources THEN call[n].read.reasons \cup {c} ELSE call[n].read.reasons
      BY <1>1 DEF Reading
    <2>4. call' = [call EXCEPT ![n].read.probed = P, ![n].read.reasons = R]
      BY <1>1, <2>1, <2>2, <2>3 DEF Call, Reading
    <2>5. call' \in [Nodes -> Call]
      BY <1>1, <2>4, ReadFields
    <2>6. /\ call'[n].phase = call[n].phase /\ call'[n].result = call[n].result
          /\ call'[n].read.has = call[n].read.has
          /\ call'[n].read.decision = call[n].read.decision
          /\ call'[n].read.probed = P /\ call'[n].read.reasons = R
          /\ \A m \in Nodes \ {n} : call'[m] = call[m]
      BY <1>1, <2>4 DEF Call, Reading
    <2>7. /\ R \subseteq P /\ call[n].read.probed \subseteq P
          /\ \A d \in P : d \in R <=> IF d \in call[n].read.probed
                                      THEN d \in call[n].read.reasons ELSE d \in resources
      BY <1>2, <2>1, <2>2, <2>3
    <2>8. QED
      BY <1>2, <1>5, <2>5, <2>6, <2>7, CallReads, ZenonT(60) DEF ProbeReason
  <1>6. QED
    BY <1>3, <1>4, <1>5 DEF Read

LEMMA CallBegins ==
    ASSUME TrustInv, NEW n \in Nodes, BeginCall(n)
    PROVE  TrustInv'
  <1>1. TrustTypeOK /\ call \in [Nodes -> Call] /\ changed \in [Nodes -> SUBSET {"shown", "reading"}]
    BY DEF TrustInv, TrustTypeOK
  <1>2. PICK p \in {"validating", "initial", "authorizing", "describing"} : EnterPhase(n, p)
    BY DEF BeginCall
  <1>3. call' = [call EXCEPT ![n] = Asked(p, "none")]
    BY <1>1, <1>2, CallMoves DEF TrustPhases, TrustResults
  <1>4. /\ call' \in [Nodes -> Call] /\ call'[n].phase = p /\ call'[n].read = NotRead
        /\ call'[n].result = "none" /\ \A m \in Nodes \ {n} : call'[m] = call[m]
    <2>1. Asked(p, "none") \in Call
      <3>1. p \in TrustPhases /\ "none" \in TrustResults
        BY DEF TrustPhases, TrustResults
      <3>2. QED
        BY <3>1, AskedCall
    <2>2. call' \in [Nodes -> Call] /\ call'[n] = Asked(p, "none")
      BY <1>1, <1>3, <2>1
    <2>3. QED
      BY <1>1, <1>3, <2>2 DEF Asked
  <1>5. /\ resources' = resources /\ saved' = saved /\ changes' = changes
        /\ shown' = shown /\ late' = late
    BY DEF BeginCall, projectDiskVars
  <1>6. /\ changed' \in [Nodes -> SUBSET {"shown", "reading"}]
        /\ \A m \in Nodes \ {n} : changed'[m] = changed[m]
        /\ changed'[n] \in {changed[n], changed[n] \ {"reading"}}
    BY <1>1 DEF BeginCall
  <1>7. /\ call'[n].read.has = "unread" /\ call'[n].read.decision = "unread"
        /\ call'[n].read.probed = {} /\ call'[n].read.reasons = {}
    BY <1>4 DEF NotRead
  <1>8. TrustTypeOK'
    BY <1>4, <1>5, <1>6 DEF TrustInv, TrustTypeOK
  <1>9. ReadInOrder'
    BY <1>4, <1>7 DEF TrustInv, ReadInOrder
  <1>10. NothingChanged'
    <2>1. ReadAsOnDisk(n)'
      BY <1>7 DEF ReadAsOnDisk
    <2>2. \A m \in Nodes \ {n} : ReadAsOnDisk(m)' = ReadAsOnDisk(m)
      BY <1>4, <1>5 DEF ReadAsOnDisk
    <2>3. EvidenceOnDisk' = EvidenceOnDisk
      BY <1>5 DEF EvidenceOnDisk
    <2>4. \A m \in Nodes : /\ "shown" \in changed'[m] <=> "shown" \in changed[m]
                           /\ "reading" \in changed'[m] => "reading" \in changed[m]
      BY <1>6
    <2>5. ASSUME NEW m \in Nodes
          PROVE  /\ "reading" \in changed'[m] => "shown" \in changed'[m]
                 /\ "shown" \notin changed'[m] => ReadAsOnDisk(m)' /\ shown'[m] = EvidenceOnDisk'
                 /\ call'[m].phase = "validating" /\ "reading" \notin changed'[m] =>
                       ReadAsOnDisk(m)'
      <3>1. CASE m = n
        BY <1>5, <2>1, <2>3, <2>4, <3>1 DEF TrustInv, NothingChanged
      <3>2. CASE m # n
        BY <1>4, <1>5, <1>6, <2>2, <2>3, <3>2 DEF TrustInv, NothingChanged
      <3>3. QED
        BY <3>1, <3>2
    <2>6. QED
      BY <2>5 DEF NothingChanged
  <1>11. ApprovesAsShown'
    <2>1. ASSUME NEW m \in Nodes
          PROVE  call'[m].phase \in Approving => call'[m] = call[m]
      BY <1>4 DEF Approving
    <2>2. QED
      BY <1>5, <2>1 DEF TrustInv, ApprovesAsShown, Approving
  <1>12. RefusalHasCause'
    BY <1>4, <1>6 DEF TrustInv, RefusalHasCause
  <1>13. QED
    BY <1>8, <1>9, <1>10, <1>11, <1>12 DEF TrustInv

(* The client is shown the evidence that was read.                         *)
LEMMA EvidenceRead ==
    ASSUME TrustInv, NEW n \in Nodes, Validated(n), Consistent(n)
    PROVE  /\ EvidenceOf(n) \in Evidence
           /\ ReadAsOnDisk(n) => EvidenceOf(n) = EvidenceOnDisk
  <1>1. call[n] \in Call /\ call[n].read \in Reading /\ resources \subseteq Categories
    BY DEF TrustInv, TrustTypeOK, Call
  <1>2. EvidenceOf(n) \in Evidence
    BY <1>1 DEF Validated, Inspected, EvidenceOf, Evidence, Reading, Decisions
  <1>3. ReadAsOnDisk(n) => EvidenceOf(n) = EvidenceOnDisk
    BY <1>1 DEF Validated, Inspected, Consistent, ReadAsOnDisk, EvidenceOf, EvidenceOnDisk
  <1>4. QED
    BY <1>2, <1>3

LEMMA EvidenceShown ==
    ASSUME TrustInv, NEW n \in Nodes,
           Validated(n), Consistent(n),
           call' = [call EXCEPT ![n] = Asked("idle", "ok")],
           UNCHANGED <<projectDiskVars, late>>,
           shown' = [shown EXCEPT ![n] = EvidenceOf(n)],
           \/ changed' = changed
           \/ /\ call[n].phase = "validating"
              /\ changed' = [changed EXCEPT ![n] = IF "reading" \in @ THEN @ ELSE {}]
    PROVE  TrustInv'
  <1>1. /\ TrustTypeOK /\ call \in [Nodes -> Call] /\ shown \in [Nodes -> Evidence]
        /\ changed \in [Nodes -> SUBSET {"shown", "reading"}]
    BY DEF TrustInv, TrustTypeOK
  <1>2. /\ call' \in [Nodes -> Call] /\ call'[n].phase = "idle" /\ call'[n].read = NotRead
        /\ call'[n].result = "ok" /\ \A m \in Nodes \ {n} : call'[m] = call[m]
    <2>1. Asked("idle", "ok") \in Call
      <3>1. "idle" \in TrustPhases /\ "ok" \in TrustResults
        BY DEF TrustPhases, TrustResults
      <3>2. QED
        BY <3>1, AskedCall
    <2>2. call' \in [Nodes -> Call] /\ call'[n] = Asked("idle", "ok")
      BY <1>1, <2>1
    <2>3. QED
      BY <1>1, <2>2 DEF Asked
  <1>3. resources' = resources /\ saved' = saved /\ changes' = changes /\ late' = late
    BY DEF projectDiskVars
  <1>4. /\ call'[n].read.has = "unread" /\ call'[n].read.decision = "unread"
        /\ call'[n].read.probed = {} /\ call'[n].read.reasons = {}
    BY <1>2 DEF NotRead
  <1>5. /\ shown' \in [Nodes -> Evidence] /\ shown'[n] = EvidenceOf(n)
        /\ \A m \in Nodes \ {n} : shown'[m] = shown[m]
    BY <1>1, EvidenceRead
  <1>6. /\ changed' \in [Nodes -> SUBSET {"shown", "reading"}]
        /\ \A m \in Nodes \ {n} : changed'[m] = changed[m]
        /\ \/ changed'[n] = changed[n]
           \/ call[n].phase = "validating" /\ "reading" \notin changed[n] /\ changed'[n] = {}
    BY <1>1
  <1>7. TrustTypeOK' /\ ReadInOrder'
    BY <1>2, <1>3, <1>4, <1>5, <1>6 DEF TrustInv, TrustTypeOK, ReadInOrder
  <1>8. NothingChanged'
    <2>1. ReadAsOnDisk(n)'
      BY <1>4 DEF ReadAsOnDisk
    <2>2. \A m \in Nodes \ {n} : ReadAsOnDisk(m)' = ReadAsOnDisk(m)
      BY <1>2, <1>3 DEF ReadAsOnDisk
    <2>3. EvidenceOnDisk' = EvidenceOnDisk
      BY <1>3 DEF EvidenceOnDisk
    <2>4. "shown" \notin changed'[n] => ReadAsOnDisk(n)
      BY <1>6 DEF TrustInv, NothingChanged
    <2>5. /\ "shown" \notin changed'[n] => shown'[n] = EvidenceOnDisk'
          /\ "reading" \in changed'[n] => "shown" \in changed'[n]
      BY <1>5, <1>6, <2>3, <2>4, EvidenceRead DEF TrustInv, NothingChanged
    <2>6. QED
      BY <1>2, <1>5, <1>6, <2>1, <2>2, <2>3, <2>5 DEF TrustInv, NothingChanged
  <1>9. ApprovesAsShown'
    <2>1. ASSUME NEW m \in Nodes
          PROVE  call'[m].phase \in Approving => call'[m] = call[m] /\ shown'[m] = shown[m]
      BY <1>2, <1>5 DEF Approving
    <2>2. QED
      BY <1>3, <2>1 DEF TrustInv, ApprovesAsShown, Approving
  <1>10. RefusalHasCause'
    BY <1>2, <1>6 DEF TrustInv, RefusalHasCause
  <1>11. QED
    BY <1>7, <1>8, <1>9, <1>10 DEF TrustInv

LEMMA ShowSteps ==
    ASSUME TrustInv, NEW n \in Nodes, ShowProject(n) \/ Confirm(n)
    PROVE  TrustInv'
  <1>1. TrustTypeOK
    BY DEF TrustInv
  <1>2. CASE ShowProject(n)
    <2>1. call' = [call EXCEPT ![n] = Asked("idle", "ok")]
      BY <1>1, <1>2, CallMoves DEF ShowProject, TrustPhases, TrustResults
    <2>2. QED
      BY <1>2, <2>1, EvidenceShown DEF ShowProject
  <1>3. CASE Confirm(n)
    <2>1. CASE EndCall(n, "ok") /\ shown' = [shown EXCEPT ![n] = EvidenceOf(n)]
      <3>1. call' = [call EXCEPT ![n] = Asked("idle", "ok")]
        BY <1>1, <2>1, CallMoves DEF TrustPhases, TrustResults
      <3>2. QED
        BY <1>3, <2>1, <3>1, EvidenceShown DEF Confirm, historyVars
    <2>2. CASE EndCall(n, "persistFailed") /\ UNCHANGED shown
      <3>1. call' = [call EXCEPT ![n] = Asked("idle", "persistFailed")]
        BY <1>1, <2>2, CallMoves DEF TrustPhases, TrustResults
      <3>2. QED
        BY <1>3, <2>2, <3>1, CallGoesOn
        DEF Confirm, historyVars, TrustPhases, TrustResults, Approving
    <2>3. QED
      BY <1>3, <2>1, <2>2 DEF Confirm
  <1>4. QED
    BY <1>2, <1>3

(* A piece of the evidence changes on the disk: every Node's evidence may  *)
(* be stale, and an approval that had read the piece again knows it late.  *)
LEMMA PieceChanges ==
    ASSUME TrustInv, NEW part \in Categories \cup {TheDecision}, NEW by,
           resources' \subseteq Categories, saved' \in Decisions, changes' \in Nat,
           \A c \in Categories : c # part => (c \in resources' <=> c \in resources),
           part # TheDecision => saved' = saved,
           Changed(part, by), UNCHANGED shown,
           call' \in [Nodes -> Call],
           \A m \in Nodes : m # by => call'[m] = call[m],
           by \in Nodes => /\ call'[by].phase = "checking" /\ call'[by].read = NotRead
                           /\ call'[by].result = "none"
    PROVE  TrustInv'
  <1>1. /\ changed' = [m \in Nodes |-> {"shown", "reading"}]
        /\ late \in [Nodes -> SUBSET (Categories \cup {TheDecision})]
        /\ \A m \in Nodes : /\ late[m] \subseteq late'[m]
                            /\ HadRead(m, part) /\ m # by => part \in late'[m]
        /\ late' \in [Nodes -> SUBSET (Categories \cup {TheDecision})]
    BY DEF Changed, TrustInv, TrustTypeOK
  <1>2. TheDecision \notin Categories
    BY TrustAssumption DEF TheDecision
  <1>3. TrustTypeOK'
    BY <1>1 DEF TrustInv, TrustTypeOK
  <1>4. ReadInOrder'
    <2>1. \A m \in Nodes : call'[m] = call[m] \/ call'[m].read = NotRead
      OBVIOUS
    <2>2. QED
      BY <2>1 DEF TrustInv, ReadInOrder, NotRead
  <1>5. NothingChanged' /\ RefusalHasCause'
    BY <1>1 DEF NothingChanged, RefusalHasCause
  <1>6. ApprovesAsShown'
    <2>1. ASSUME NEW m \in Nodes, call'[m].phase \in Approving
          PROVE  m # by /\ call'[m] = call[m] /\ shown'[m] = shown[m]
      BY <2>1 DEF Approving
    <2>2. ASSUME NEW m \in Nodes, call'[m].phase = "revalidating"
          PROVE  /\ call'[m].read.decision \in {"unread", saved'} \/ TheDecision \in late'[m]
                 /\ \A c \in call'[m].read.probed :
                       (c \in resources') # (c \in call'[m].read.reasons) => c \in late'[m]
      <3>1. m # by /\ call'[m] = call[m] /\ call[m].phase = "revalidating"
        BY <2>1, <2>2 DEF Approving
      <3>2. /\ call[m].read.decision \in {"unread", saved} \/ TheDecision \in late[m]
            /\ \A c \in call[m].read.probed :
                  (c \in resources) # (c \in call[m].read.reasons) => c \in late[m]
        BY <3>1 DEF TrustInv, ApprovesAsShown
      <3>3. call[m].read.probed \subseteq Categories
        BY DEF TrustInv, TrustTypeOK, Call, Reading
      <3>4. part = TheDecision /\ call[m].read.decision # "unread" => TheDecision \in late'[m]
        BY <1>1, <3>1 DEF HadRead
      <3>5. part # TheDecision /\ part \in call[m].read.probed => part \in late'[m]
        BY <1>1, <3>1 DEF HadRead
      <3>6. \A c \in call[m].read.probed :
               (c \in resources') # (c \in call[m].read.reasons) => c \in late'[m]
        BY <1>1, <1>2, <3>2, <3>3, <3>5
      <3>7. QED
        BY <1>1, <3>1, <3>2, <3>4, <3>6
    <2>3. ASSUME NEW m \in Nodes, call'[m].phase \in {"approving", "writing"}
          PROVE  /\ saved' # shown'[m].decision => TheDecision \in late'[m]
                 /\ \A c \in Categories :
                       (c \in resources') # (c \in shown'[m].reasons) => c \in late'[m]
      <3>1. m # by /\ call'[m] = call[m] /\ shown'[m] = shown[m]
        BY <2>1, <2>3 DEF Approving
      <3>2. /\ saved # shown[m].decision => TheDecision \in late[m]
            /\ \A c \in Categories :
                  (c \in resources) # (c \in shown[m].reasons) => c \in late[m]
        BY <2>3, <3>1 DEF TrustInv, ApprovesAsShown
      <3>3. part \in late'[m]
        BY <1>1, <2>3, <3>1 DEF HadRead
      <3>4. QED
        BY <1>1, <3>1, <3>2, <3>3
    <2>4. QED
      BY <2>1, <2>2, <2>3 DEF TrustInv, ApprovesAsShown
  <1>7. QED
    BY <1>3, <1>4, <1>5, <1>6 DEF TrustInv

LEMMA DiskSteps ==
    ASSUME TrustInv,
           \/ \E n \in Nodes : WriteDecision(n)
           \/ \E c \in Categories : ResourceChanges(c)
           \/ \E d \in Decisions : DecisionChanges(d)
    PROVE  TrustInv'
  <1>1. /\ TrustTypeOK /\ call \in [Nodes -> Call] /\ changes \in Nat
        /\ resources \subseteq Categories /\ saved \in Decisions
    BY DEF TrustInv, TrustTypeOK
  <1>2. ASSUME NEW n \in Nodes, WriteDecision(n)
        PROVE  TrustInv'
    <2>1. CASE saved' = "yes" /\ EnterPhase(n, "checking")
      <3>1. call' = [call EXCEPT ![n] = Asked("checking", "none")]
        BY <1>1, <2>1, CallMoves DEF TrustPhases, TrustResults
      <3>2. CASE saved = "yes"
        <4>1. late' = late /\ changed' = changed
          BY <1>2, <2>1, <3>2, <3>1 DEF WriteDecision, historyVars, EndCall, EnterPhase, In
        <4>2. QED
          BY <1>2, <2>1, <3>1, <3>2, <4>1, CallGoesOn
          DEF WriteDecision, projectDiskVars, TrustPhases, TrustResults, Approving
      <3>3. CASE saved # "yes"
        <4>1. /\ Changed(TheDecision, n) /\ resources' = resources /\ changes' = changes
              /\ shown' = shown
          BY <1>2, <2>1, <3>3 DEF WriteDecision
        <4>2. Asked("checking", "none") \in Call
          <5>1. "checking" \in TrustPhases /\ "none" \in TrustResults
            BY DEF TrustPhases, TrustResults
          <5>2. QED
            BY <5>1, AskedCall
        <4>3. /\ call' \in [Nodes -> Call] /\ call'[n] = Asked("checking", "none")
              /\ \A m \in Nodes : m # n => call'[m] = call[m]
          BY <1>1, <3>1, <4>2
        <4>4. /\ call'[n].phase = "checking" /\ call'[n].read = NotRead
              /\ call'[n].result = "none"
          BY <4>3 DEF Asked
        <4>5. saved' \in Decisions
          BY <2>1 DEF Decisions
        <4>6. QED
          BY <1>1, <4>1, <4>3, <4>4, <4>5, PieceChanges
      <3>4. QED
        BY <3>2, <3>3
    <2>2. CASE EndCall(n, "persistFailed") /\ UNCHANGED <<saved, historyVars>>
      <3>1. call' = [call EXCEPT ![n] = Asked("idle", "persistFailed")]
        BY <1>1, <2>2, CallMoves DEF TrustPhases, TrustResults
      <3>2. QED
        BY <1>2, <2>2, <3>1, CallGoesOn
        DEF WriteDecision, projectDiskVars, historyVars, TrustPhases, TrustResults, Approving
    <2>3. QED
      BY <1>2, <2>1, <2>2 DEF WriteDecision
  <1>3. ASSUME NEW c \in Categories, ResourceChanges(c)
        PROVE  TrustInv'
    <2>1. /\ resources' \subseteq Categories /\ changes' \in Nat
          /\ \A d \in Categories : d # c => (d \in resources' <=> d \in resources)
          /\ saved' = saved /\ call' = call /\ shown' = shown /\ Changed(c, Disk)
      BY <1>1, <1>3 DEF ResourceChanges
    <2>2. QED
      BY <1>1, <2>1, PieceChanges, TrustAssumption
  <1>4. ASSUME NEW d \in Decisions, DecisionChanges(d)
        PROVE  TrustInv'
    <2>1. /\ resources' = resources /\ changes' \in Nat /\ saved' \in Decisions
          /\ call' = call /\ shown' = shown /\ Changed(TheDecision, Disk)
      BY <1>1, <1>4 DEF DecisionChanges
    <2>2. QED
      BY <1>1, <2>1, PieceChanges, TrustAssumption
  <1>5. QED
    BY <1>2, <1>3, <1>4

(***************************************************************************)
(* At every step, what a call has read is on the disk or known to have     *)
(* changed, for any number of Nodes and of kinds of resources:             *)
(* validateProject, approveTrust, ProjectTrustCoordinator.                 *)
(***************************************************************************)
THEOREM TrustInvariant == TrustSpec => []TrustInv
  <1>1. TrustInv /\ [TrustNext]_trustVars => TrustInv'
    <2> SUFFICES ASSUME TrustInv, [TrustNext]_trustVars
                 PROVE  TrustInv'
      OBVIOUS
    <2>1. CASE UNCHANGED trustVars
      <3>1. /\ resources' = resources /\ saved' = saved /\ call' = call /\ shown' = shown
            /\ late' = late /\ changed' = changed /\ changes' = changes
        BY <2>1 DEF trustVars
      <3>2. TrustTypeOK' /\ ReadInOrder'
        BY <3>1 DEF TrustInv, TrustTypeOK, ReadInOrder
      <3>3. NothingChanged'
        BY <3>1 DEF TrustInv, NothingChanged, ReadAsOnDisk, EvidenceOnDisk
      <3>4. ApprovesAsShown' /\ RefusalHasCause'
        BY <3>1 DEF TrustInv, ApprovesAsShown, RefusalHasCause
      <3>5. QED
        BY <3>2, <3>3, <3>4 DEF TrustInv
    <2>2. ASSUME NEW n \in Nodes, BeginCall(n) \/ Read(n) \/ ReadFails(n) \/ Continue(n)
          PROVE  TrustInv'
      BY <2>2, CallBegins, ReadSteps, CallSteps, ShowSteps, DiskSteps DEF Continue
    <2>3. QED
      BY <2>1, <2>2, DiskSteps DEF TrustNext
  <1>2. QED
    BY <1>1, TrustInvInit, PTL DEF TrustSpec

(***************************************************************************)
(* ApprovalRight for every number of Nodes, categories and changes of the  *)
(* disk: an approval is saved only for evidence that the user was shown or *)
(* that changed after it was read again, and refused only for a change.    *)
(* approveTrust                                                            *)
(***************************************************************************)
THEOREM ApprovalsAreRight == TrustSpec => ApprovalRight
  <1>1. TrustInv /\ [TrustNext]_trustVars =>
           [\A n \in Nodes : call[n].phase = "writing" /\ call'[n].phase = "checking" =>
               /\ \A c \in Categories :
                     (c \in resources) # (c \in shown[n].reasons) => c \in late[n]
               /\ saved # shown[n].decision => TheDecision \in late[n]]_trustVars
    BY DEF TrustInv, ApprovesAsShown
  <1>2. TrustInv => RefusalHasCause
    BY DEF TrustInv
  <1>3. QED
    BY <1>1, <1>2, TrustInvariant, PTL DEF TrustSpec, ApprovalRight, ApprovalInformed

-----------------------------------------------------------------------------
(* Administration of session files.                                        *)

AdminTypeOK ==
    /\ onDisk \subseteq Files /\ gone \subseteq Files
    /\ session \in [Files -> Session]
    /\ lock \in [Files -> Ops \cup {None}]
    /\ op \in [Ops -> Operation]
    /\ faults \in Nat

Unlocked == {"idle", "generating", "locating", "reporting", "ended"}
Naming == {"copying", "committing"}
Preparing == {"reading", "reparenting"}
Deleting == Preparing \cup {"unlinking", "restoring", "rollingBack"}

(* An operation works only on files it has locked, and it locks them in    *)
(* the order their paths sort in.                                          *)
LocksFirst(p) ==
    /\ op[p].phase \in Unlocked => Held(p) = {}
    /\ op[p].phase \in {"locking"} \cup Naming \cup Deleting => op[p].target \in op[p].family
    /\ op[p].phase \in {"locking", "releasing"} => Held(p) \subseteq op[p].family
    /\ op[p].phase = "locking" =>
          \A f \in Held(p), g \in op[p].family \ Held(p) : f < g
    /\ op[p].phase \in Naming \cup Deleting => Held(p) = op[p].family
    /\ op[p].phase \in Naming => op[p].kind # "delete"
    /\ op[p].phase \in Deleting => op[p].kind = "delete"

(* The files it works on stay on the disk, unless it removes them, and it  *)
(* takes back what it did only because a file operation failed.            *)
FilesThere(p) ==
    /\ op[p].phase \in Naming \cup Preparing => op[p].target \in onDisk
    /\ op[p].phase \in Deleting => ToDelete(p) \subseteq onDisk
    /\ op[p].phase \in {"unlinking", "restoring"} => op[p].target \in gone
    /\ op[p].phase = "rollingBack" =>
          op[p].target \in onDisk \/ (faults > 1 /\ op[p].target \in gone)
    /\ op[p].phase \in {"restoring", "rollingBack"} => faults > 0

(* A copy is no older than the locks: what it lacks was appended after.    *)
UpToDate(p, f) ==
    session[f].log \ exposed \subseteq op[p].copy[f].log

(* How far a deletion got with the children.                               *)
Progress(p) ==
    /\ op[p].phase \in {"idle", "generating", "locating", "locking"} =>
          op[p].read = {} /\ op[p].done = {}
    /\ op[p].phase = "releasing" /\ op[p].result = "retry" =>
          op[p].read = {} /\ op[p].done = {}
    /\ op[p].phase = "committing" =>
          /\ UpToDate(p, op[p].target)
          /\ op[p].copy[op[p].target].parent = session[op[p].target].parent
    /\ op[p].phase \in Deleting =>
          /\ op[p].done \subseteq op[p].read /\ op[p].read \subseteq ToDelete(p)
          /\ op[p].phase = "reading" => op[p].done = {}
          /\ op[p].phase # "reading" => op[p].read = ToDelete(p)
          /\ op[p].newParent = session[op[p].target].parent
          /\ \A c \in op[p].read : UpToDate(p, c) /\ op[p].copy[c].parent = op[p].target
          /\ \A c \in op[p].done : session[c].parent = op[p].newParent
          /\ faults <= 1 \/ op[p].phase # "rollingBack" =>
                \A c \in ToDelete(p) \ op[p].done : session[c].parent = op[p].target

Undone(p) ==
    /\ op[p].phase = "releasing" /\ op[p].kind = "delete" /\ op[p].result = "writeFailed"
    /\ Held(p) = op[p].family /\ faults <= 1
    => /\ op[p].target \in op[p].family /\ op[p].target \in onDisk
       /\ \A c \in ToDelete(p) : c \in onDisk /\ session[c].parent = op[p].target

OperationInv(p) == LocksFirst(p) /\ FilesThere(p) /\ Progress(p) /\ Undone(p)

(* A session descends from sessions that are or were on the disk, and not  *)
(* from itself.                                                            *)
Descent ==
    /\ onDisk \cap gone = {}
    /\ \A f \in Files : session[f].parent \in onDisk \cup gone \cup {None}
    /\ \A S \in (SUBSET Files) \ {{}} : \E f \in S : session[f].parent \notin S

(* A deletion knows the children of the session before it removes it.      *)
ChildrenKnown ==
    \A p \in Ops : op[p].phase \in Preparing =>
        \A f \in onDisk \ exposed : session[f].parent = op[p].target => f \in op[p].family

AdminInv ==
    /\ AdminTypeOK /\ Descent /\ ChildrenKnown /\ NoOrphans
    /\ \A p \in Ops : OperationInv(p)

-----------------------------------------------------------------------------
(* What the steps make of an operation.                                    *)

SameFiles(o, r) == r.kind = o.kind /\ r.target = o.target /\ r.family = o.family
SameWork(o, r) ==
    r.newParent = o.newParent /\ r.copy = o.copy /\ r.read = o.read /\ r.done = o.done

LEMMA OthersKept ==
    ASSUME op \in [Ops -> Operation], NEW p \in Ops, NEW r \in Operation,
           op' = [op EXCEPT ![p] = r]
    PROVE  /\ op' \in [Ops -> Operation] /\ op'[p] = r
           /\ \A q \in Ops \ {p} : op'[q] = op[q]
  OBVIOUS

WithPhase(o, x) == [o EXCEPT !.phase = x]
WithResult(o, x, y) == [o EXCEPT !.phase = x, !.result = y]
WithCancelled(o) == [o EXCEPT !.cancelled = TRUE]
WithTimedOut(o) == [o EXCEPT !.timedOut = TRUE]
WithName(o, x) == [o EXCEPT !.phase = x, !.cancelled = FALSE, !.timedOut = FALSE]
WithFamily(o, x, S) == [o EXCEPT !.phase = x, !.family = S]
WithNewParent(o, x, f) == [o EXCEPT !.phase = x, !.newParent = f]
WithAttempt(o, x, y, n) == [o EXCEPT !.phase = x, !.result = y, !.attempt = n]
WithRequest(o, x, k, f, v) ==
    [o EXCEPT !.kind = k, !.target = f, !.phase = x, !.evidence = v]
WithCopy(o, x, c) == [o EXCEPT !.phase = x, !.copy = c]
WithRead(o, c, S) == [o EXCEPT !.copy = c, !.read = S]
WithDone(o, S) == [o EXCEPT !.done = S]

LEMMA PhaseSet ==
    ASSUME NEW o \in Operation, NEW x \in Phases
    PROVE  /\ WithPhase(o, x) \in Operation
           /\ WithPhase(o, x).phase = x
           /\ WithPhase(o, x).result = o.result
           /\ SameFiles(o, WithPhase(o, x))
           /\ SameWork(o, WithPhase(o, x))
  BY DEF Operation, WithPhase, SameFiles, SameWork

LEMMA ResultSet ==
    ASSUME NEW o \in Operation, NEW x \in Phases, NEW y \in Results
    PROVE  /\ WithResult(o, x, y) \in Operation
           /\ WithResult(o, x, y).phase = x
           /\ WithResult(o, x, y).result = y
           /\ SameFiles(o, WithResult(o, x, y))
           /\ SameWork(o, WithResult(o, x, y))
  BY DEF Operation, WithResult, SameFiles, SameWork

LEMMA CancelledSet ==
    ASSUME NEW o \in Operation
    PROVE  /\ WithCancelled(o) \in Operation
           /\ WithCancelled(o).phase = o.phase
           /\ WithCancelled(o).result = o.result
           /\ SameFiles(o, WithCancelled(o))
           /\ SameWork(o, WithCancelled(o))
  BY DEF Operation, WithCancelled, SameFiles, SameWork

LEMMA TimedOutSet ==
    ASSUME NEW o \in Operation
    PROVE  /\ WithTimedOut(o) \in Operation
           /\ WithTimedOut(o).phase = o.phase
           /\ WithTimedOut(o).result = o.result
           /\ SameFiles(o, WithTimedOut(o))
           /\ SameWork(o, WithTimedOut(o))
  BY DEF Operation, WithTimedOut, SameFiles, SameWork

LEMMA NameSet ==
    ASSUME NEW o \in Operation, NEW x \in Phases
    PROVE  /\ WithName(o, x) \in Operation
           /\ WithName(o, x).phase = x
           /\ WithName(o, x).result = o.result
           /\ SameFiles(o, WithName(o, x))
           /\ SameWork(o, WithName(o, x))
  BY DEF Operation, WithName, SameFiles, SameWork

LEMMA FamilySet ==
    ASSUME NEW o \in Operation, NEW x \in Phases, NEW S \in SUBSET Files
    PROVE  /\ WithFamily(o, x, S) \in Operation
           /\ WithFamily(o, x, S).phase = x
           /\ WithFamily(o, x, S).result = o.result
           /\ WithFamily(o, x, S).kind = o.kind
           /\ WithFamily(o, x, S).target = o.target
           /\ WithFamily(o, x, S).family = S
           /\ SameWork(o, WithFamily(o, x, S))
  BY DEF Operation, WithFamily, SameWork

LEMMA NewParentSet ==
    ASSUME NEW o \in Operation, NEW x \in Phases, NEW f \in Files \cup {None}
    PROVE  /\ WithNewParent(o, x, f) \in Operation
           /\ WithNewParent(o, x, f).phase = x
           /\ WithNewParent(o, x, f).result = o.result
           /\ SameFiles(o, WithNewParent(o, x, f))
           /\ WithNewParent(o, x, f).newParent = f
           /\ WithNewParent(o, x, f).copy = o.copy
           /\ WithNewParent(o, x, f).read = o.read
           /\ WithNewParent(o, x, f).done = o.done
  BY DEF Operation, WithNewParent, SameFiles

LEMMA AttemptSet ==
    ASSUME NEW o \in Operation, NEW x \in Phases, NEW y \in Results, NEW n \in 0 .. MaxAttempts - 1
    PROVE  /\ WithAttempt(o, x, y, n) \in Operation
           /\ WithAttempt(o, x, y, n).phase = x
           /\ WithAttempt(o, x, y, n).result = y
           /\ SameFiles(o, WithAttempt(o, x, y, n))
           /\ SameWork(o, WithAttempt(o, x, y, n))
  BY DEF Operation, WithAttempt, SameFiles, SameWork

LEMMA BeginSet ==
    ASSUME NEW o \in Operation, NEW x \in Phases, NEW k \in Kinds \cup {"none"}, NEW f \in Files \cup {None}, NEW v \in Revisions
    PROVE  /\ WithRequest(o, x, k, f, v) \in Operation
           /\ WithRequest(o, x, k, f, v).phase = x
           /\ WithRequest(o, x, k, f, v).result = o.result
           /\ WithRequest(o, x, k, f, v).kind = k
           /\ WithRequest(o, x, k, f, v).target = f
           /\ WithRequest(o, x, k, f, v).family = o.family
           /\ SameWork(o, WithRequest(o, x, k, f, v))
  BY DEF Operation, WithRequest, SameWork

LEMMA CopySet ==
    ASSUME NEW o \in Operation, NEW x \in Phases, NEW c \in [Files -> Session]
    PROVE  /\ WithCopy(o, x, c) \in Operation
           /\ WithCopy(o, x, c).phase = x
           /\ WithCopy(o, x, c).result = o.result
           /\ SameFiles(o, WithCopy(o, x, c))
           /\ WithCopy(o, x, c).newParent = o.newParent
           /\ WithCopy(o, x, c).copy = c
           /\ WithCopy(o, x, c).read = o.read
           /\ WithCopy(o, x, c).done = o.done
  BY DEF Operation, WithCopy, SameFiles

LEMMA ReadSet ==
    ASSUME NEW o \in Operation, NEW c \in [Files -> Session], NEW S \in SUBSET Files
    PROVE  /\ WithRead(o, c, S) \in Operation
           /\ WithRead(o, c, S).phase = o.phase
           /\ WithRead(o, c, S).result = o.result
           /\ SameFiles(o, WithRead(o, c, S))
           /\ WithRead(o, c, S).newParent = o.newParent
           /\ WithRead(o, c, S).copy = c
           /\ WithRead(o, c, S).read = S
           /\ WithRead(o, c, S).done = o.done
  BY DEF Operation, WithRead, SameFiles

LEMMA DoneSet ==
    ASSUME NEW o \in Operation, NEW S \in SUBSET Files
    PROVE  /\ WithDone(o, S) \in Operation
           /\ WithDone(o, S).phase = o.phase
           /\ WithDone(o, S).result = o.result
           /\ SameFiles(o, WithDone(o, S))
           /\ WithDone(o, S).newParent = o.newParent
           /\ WithDone(o, S).copy = o.copy
           /\ WithDone(o, S).read = o.read
           /\ WithDone(o, S).done = S
  BY DEF Operation, WithDone, SameFiles

Others(p) == \A q \in Ops \ {p} : op'[q] = op[q]

LEMMA EnterEffect ==
    ASSUME AdminTypeOK, NEW p \in Ops, NEW x \in Phases, Enter(p, x)
    PROVE  /\ op' \in [Ops -> Operation] /\ Others(p)
           /\ op'[p].phase = x /\ op'[p].result = op[p].result
           /\ SameFiles(op[p], op'[p]) /\ SameWork(op[p], op'[p])
  <1> DEFINE r == WithPhase(op[p], x)
  <1>1. op \in [Ops -> Operation] /\ op[p] \in Operation
    BY DEF AdminTypeOK
  <1>2. op' = [op EXCEPT ![p] = r]
    BY DEF Enter, WithPhase
  <1> HIDE DEF r
  <1>3. r \in Operation /\ r.phase = x /\ r.result = op[p].result
        /\ SameFiles(op[p], r) /\ SameWork(op[p], r)
    BY <1>1, PhaseSet DEF r
  <1>4. QED
    BY <1>1, <1>2, <1>3, OthersKept DEF Others

LEMMA FinishEffect ==
    ASSUME AdminTypeOK, NEW p \in Ops, NEW y \in Results, Finish(p, y)
    PROVE  /\ op' \in [Ops -> Operation] /\ Others(p)
           /\ op'[p].phase = "releasing" /\ op'[p].result = y
           /\ SameFiles(op[p], op'[p]) /\ SameWork(op[p], op'[p])
  <1> DEFINE r == WithResult(op[p], "releasing", y)
  <1>1. op \in [Ops -> Operation] /\ op[p] \in Operation /\ "releasing" \in Phases
    BY DEF AdminTypeOK, Phases
  <1>2. op' = [op EXCEPT ![p] = r]
    BY DEF Finish, WithResult
  <1> HIDE DEF r
  <1>3. r \in Operation /\ r.phase = "releasing" /\ r.result = y
        /\ SameFiles(op[p], r) /\ SameWork(op[p], r)
    BY <1>1, ResultSet DEF r
  <1>4. QED
    BY <1>1, <1>2, <1>3, OthersKept DEF Others

LEMMA NoOperationIsOne ==
    /\ NoOperation \in Operation
    /\ NoOperation.phase = "idle" /\ NoOperation.result = "none" /\ NoOperation.kind = "none"
    /\ NoOperation.family = {} /\ NoOperation.read = {} /\ NoOperation.done = {}
  <1>1. 0 \in 0 .. MaxAttempts - 1
    BY AdministrationAssumption
  <1>2. NoSession \in Session
    BY DEF NoSession, Session
  <1>3. [f \in Files |-> NoSession] \in [Files -> Session]
    BY <1>2
  <1>4. [log |-> {}, parentId |-> None] \in Revisions
    BY DEF Revisions
  <1>5. "idle" \in Phases /\ "none" \in Results
    BY DEF Phases, Results
  <1> DEFINE copies == [f \in Files |-> NoSession]
  <1> DEFINE revision == [log |-> {}, parentId |-> None]
  <1> HIDE DEF copies, revision
  <1>6. NoOperation =
           [phase |-> "idle", kind |-> "none", target |-> None, evidence |-> revision,
            attempt |-> 0, family |-> {}, newParent |-> None, copy |-> copies,
            read |-> {}, done |-> {}, cancelled |-> FALSE, timedOut |-> FALSE,
            result |-> "none"]
    BY DEF NoOperation, copies, revision
  <1>7. copies \in [Files -> Session] /\ revision \in Revisions
    BY <1>3, <1>4 DEF copies, revision
  <1>8. QED
    BY <1>1, <1>5, <1>6, <1>7 DEF Operation

LEMMA OverEffect ==
    ASSUME AdminTypeOK, NEW p \in Ops, NEW x \in Phases, NEW y \in Results, Over(p, x, y)
    PROVE  /\ op' \in [Ops -> Operation] /\ Others(p)
           /\ op'[p].phase = x /\ op'[p].result = y
           /\ op'[p].kind = "none" /\ op'[p].read = {} /\ op'[p].done = {}
  <1> DEFINE r == WithResult(NoOperation, x, y)
  <1>1. op \in [Ops -> Operation] /\ op[p] \in Operation
    BY DEF AdminTypeOK
  <1>2. op' = [op EXCEPT ![p] = r]
    BY DEF Over, WithResult
  <1> HIDE DEF r
  <1>3. r \in Operation /\ r.phase = x /\ r.result = y
        /\ SameFiles(NoOperation, r) /\ SameWork(NoOperation, r)
    BY NoOperationIsOne, ResultSet DEF r
  <1>4. QED
    BY <1>1, <1>2, <1>3, OthersKept, NoOperationIsOne DEF Others, SameFiles, SameWork

-----------------------------------------------------------------------------
(* When an operation has its invariant.                                    *)

(* An operation that is not working.                                       *)
LEMMA AtRest ==
    ASSUME NEW p \in Ops,
           op'[p].phase \in Unlocked \cup {"crashed"},
           op'[p].phase # "crashed" => Held(p)' = {},
           op'[p].phase \in {"idle", "generating", "locating"} =>
              op'[p].read = {} /\ op'[p].done = {}
    PROVE  OperationInv(p)'
  <1>1. LocksFirst(p)'
    BY DEF LocksFirst, Unlocked, Naming, Deleting, Preparing
  <1>2. FilesThere(p)'
    BY DEF FilesThere, Unlocked, Naming, Deleting, Preparing
  <1>3. Progress(p)'
    BY DEF Progress, Unlocked, Deleting, Preparing
  <1>4. Undone(p)'
    BY DEF Undone, Unlocked
  <1>5. QED
    BY <1>1, <1>2, <1>3, <1>4 DEF OperationInv

(* An operation that is through, and lets the locks go.                    *)
LEMMA AtRelease ==
    ASSUME NEW p \in Ops,
           op'[p].phase = "releasing",
           Held(p)' \subseteq op'[p].family,
           op'[p].result = "retry" => op'[p].read = {} /\ op'[p].done = {},
           Undone(p)'
    PROVE  OperationInv(p)'
  <1>1. LocksFirst(p)'
    BY DEF LocksFirst, Unlocked, Naming, Deleting, Preparing
  <1>2. FilesThere(p)'
    BY DEF FilesThere, Naming, Deleting, Preparing
  <1>3. Progress(p)'
    BY DEF Progress, Deleting, Preparing
  <1>5. QED
    BY <1>1, <1>2, <1>3 DEF OperationInv

(* An operation keeps its invariant while others change only what it has   *)
(* not locked, and runtimes append.                                        *)
LEMMA Undisturbed ==
    ASSUME AdminTypeOK, NEW p \in Ops, OperationInv(p),
           op'[p] = op[p], faults' \in Nat, faults <= faults', exposed \subseteq exposed',
           Held(p)' = Held(p),
           \A f \in Held(p) \cap (onDisk \cup gone) :
              /\ f \in onDisk' <=> f \in onDisk
              /\ f \in gone' <=> f \in gone
              /\ session'[f].parent = session[f].parent
              /\ session'[f].log \ exposed' \subseteq session[f].log
    PROVE  OperationInv(p)'
  <1>1. LocksFirst(p)'
    BY DEF OperationInv, LocksFirst
  <1>2. ToDelete(p)' = ToDelete(p) /\ faults \in Nat
    BY DEF ToDelete, AdminTypeOK
  <1>3. op[p].phase \in Naming \cup Deleting =>
           /\ op[p].target \in Held(p) /\ ToDelete(p) \subseteq Held(p)
           /\ op[p].target \in onDisk \cup gone
    BY DEF OperationInv, LocksFirst, FilesThere, ToDelete, Deleting
  <1>4. op[p].phase \in Deleting => ToDelete(p) \subseteq onDisk
    BY DEF OperationInv, FilesThere
  <1>5. FilesThere(p)'
    <2>1. op[p].phase \in Naming \cup Preparing => op[p].target \in onDisk'
      BY <1>3 DEF OperationInv, FilesThere, Deleting
    <2>2. op[p].phase \in Deleting => ToDelete(p) \subseteq onDisk'
      BY <1>3, <1>4
    <2>3. op[p].phase \in {"unlinking", "restoring"} => op[p].target \in gone'
      BY <1>3 DEF OperationInv, FilesThere, Deleting
    <2>4. op[p].phase = "rollingBack" =>
             op[p].target \in onDisk' \/ (faults' > 1 /\ op[p].target \in gone')
      BY <1>2, <1>3 DEF OperationInv, FilesThere, Deleting
    <2>5. op[p].phase \in {"restoring", "rollingBack"} => faults' > 0
      BY <1>2 DEF OperationInv, FilesThere
    <2>6. QED
      BY <1>2, <2>1, <2>2, <2>3, <2>4, <2>5 DEF FilesThere
  <1>6. ASSUME NEW f \in Held(p) \cap (onDisk \cup gone), UpToDate(p, f)
        PROVE  UpToDate(p, f)'
    BY <1>6 DEF UpToDate
  <1>7. Progress(p)'
    <2>1. op[p].phase \in {"idle", "generating", "locating", "locking"} =>
             op[p].read = {} /\ op[p].done = {}
      BY DEF OperationInv, Progress
    <2>2. op[p].phase = "releasing" /\ op[p].result = "retry" =>
             op[p].read = {} /\ op[p].done = {}
      BY DEF OperationInv, Progress
    <2>3. op[p].phase = "committing" =>
             /\ UpToDate(p, op[p].target)'
             /\ op[p].copy[op[p].target].parent = session'[op[p].target].parent
      BY <1>3, <1>6 DEF OperationInv, Progress, Naming
    <2>4. ASSUME op[p].phase \in Deleting
          PROVE  /\ op[p].done \subseteq op[p].read /\ op[p].read \subseteq ToDelete(p)
                 /\ op[p].phase = "reading" => op[p].done = {}
                 /\ op[p].phase # "reading" => op[p].read = ToDelete(p)
                 /\ op[p].newParent = session'[op[p].target].parent
                 /\ \A c \in op[p].read :
                       UpToDate(p, c)' /\ op[p].copy[c].parent = op[p].target
                 /\ \A c \in op[p].done : session'[c].parent = op[p].newParent
                 /\ faults' <= 1 \/ op[p].phase # "rollingBack" =>
                       \A c \in ToDelete(p) \ op[p].done : session'[c].parent = op[p].target
      <3>1. /\ op[p].done \subseteq op[p].read /\ op[p].read \subseteq ToDelete(p)
            /\ op[p].phase = "reading" => op[p].done = {}
            /\ op[p].phase # "reading" => op[p].read = ToDelete(p)
            /\ op[p].newParent = session[op[p].target].parent
            /\ \A c \in op[p].read : UpToDate(p, c) /\ op[p].copy[c].parent = op[p].target
            /\ \A c \in op[p].done : session[c].parent = op[p].newParent
            /\ faults <= 1 \/ op[p].phase # "rollingBack" =>
                  \A c \in ToDelete(p) \ op[p].done : session[c].parent = op[p].target
        BY <2>4 DEF OperationInv, Progress
      <3>2. session'[op[p].target].parent = session[op[p].target].parent
        BY <1>3, <2>4
      <3>3. \A c \in ToDelete(p) : session'[c].parent = session[c].parent
        BY <1>3, <1>4, <2>4
      <3>4. \A c \in op[p].read : UpToDate(p, c)'
        BY <1>3, <1>4, <1>6, <2>4, <3>1
      <3>5. faults' <= 1 => faults <= 1
        BY <1>2
      <3>6. QED
        BY <3>1, <3>2, <3>3, <3>4, <3>5
    <2>5. QED
      BY <1>2, <2>1, <2>2, <2>3, <2>4 DEF Progress
  <1>8. Undone(p)'
    <2>1. faults' <= 1 => faults <= 1
      BY <1>2
    <2>2. SUFFICES ASSUME op[p].phase = "releasing", op[p].kind = "delete",
                          op[p].result = "writeFailed", Held(p) = op[p].family, faults' <= 1
                   PROVE  /\ op[p].target \in op[p].family /\ op[p].target \in onDisk'
                          /\ \A c \in ToDelete(p) :
                                c \in onDisk' /\ session'[c].parent = op[p].target
      BY <1>2 DEF Undone
    <2>3. /\ op[p].target \in op[p].family /\ op[p].target \in onDisk
          /\ \A c \in ToDelete(p) : c \in onDisk /\ session[c].parent = op[p].target
      BY <2>1, <2>2 DEF OperationInv, Undone
    <2>4. ToDelete(p) \subseteq Held(p) /\ op[p].target \in Held(p)
      BY <2>2, <2>3 DEF ToDelete
    <2>5. QED
      BY <2>3, <2>4
  <1>9. QED
    BY <1>1, <1>5, <1>7, <1>8 DEF OperationInv

-----------------------------------------------------------------------------
(* Steps that change no session file.                                      *)

EntriesKept ==
    \A f \in onDisk \cap onDisk' : session[f].log \ session'[f].log \subseteq exposed

LEMMA QuietStep ==
    ASSUME AdminInv, NEW p \in Ops, UNCHANGED <<diskVars, exposed>>,
           faults' \in Nat, faults <= faults',
           op' \in [Ops -> Operation], Others(p),
           lock' \in [Files -> Ops \cup {None}],
           \A q \in Ops \ {p} : Held(q)' = Held(q),
           op'[p].phase \in Preparing =>
              \A f \in onDisk \ exposed :
                 session[f].parent = op'[p].target => f \in op'[p].family,
           OperationInv(p)'
    PROVE  AdminInv' /\ EntriesKept
  <1>1. onDisk' = onDisk /\ session' = session /\ gone' = gone /\ exposed' = exposed
    BY DEF diskVars
  <1>2. AdminTypeOK' /\ AdminTypeOK /\ faults \in Nat
    BY <1>1 DEF AdminInv, AdminTypeOK
  <1>3. Descent'
    BY <1>1 DEF AdminInv, Descent
  <1>4. NoOrphans'
    <2>1. faults' <= 1 => faults <= 1
      BY <1>2
    <2>2. QED
      BY <1>1, <2>1 DEF AdminInv, NoOrphans
  <1>5. ChildrenKnown'
    <2>1. ASSUME NEW q \in Ops \ {p}, op'[q].phase \in Preparing
          PROVE  \A f \in onDisk \ exposed :
                    session[f].parent = op'[q].target => f \in op'[q].family
      <3>1. op'[q] = op[q]
        BY DEF Others
      <3>2. QED
        BY <2>1, <3>1 DEF AdminInv, ChildrenKnown
    <2>2. QED
      BY <1>1, <2>1 DEF ChildrenKnown
  <1>6. ASSUME NEW q \in Ops \ {p}  PROVE OperationInv(q)'
    <2>1. op'[q] = op[q] /\ OperationInv(q) /\ Held(q)' = Held(q)
      BY DEF Others, AdminInv
    <2>2. \A f \in Held(q) \cap (onDisk \cup gone) :
              /\ f \in onDisk' <=> f \in onDisk
              /\ f \in gone' <=> f \in gone
              /\ session'[f].parent = session[f].parent
              /\ session'[f].log \ exposed' \subseteq session[f].log
      BY <1>1
    <2>3. exposed \subseteq exposed'
      BY <1>1
    <2>4. QED
      BY <1>2, <2>1, <2>2, <2>3, Undisturbed
  <1>7. EntriesKept
    BY <1>1 DEF EntriesKept
  <1>8. QED
    BY <1>2, <1>3, <1>4, <1>5, <1>6, <1>7 DEF AdminInv

(* The usual ones: no lock changes either, and it is not a deletion that   *)
(* looks at the children.                                                  *)
LEMMA PlainStep ==
    ASSUME AdminInv, NEW p \in Ops, UNCHANGED <<diskVars, exposed, lock>>,
           faults' = faults \/ faults' = faults + 1,
           op' \in [Ops -> Operation], Others(p),
           op'[p].phase \in Preparing =>
              /\ op[p].phase \in Preparing
              /\ op'[p].target = op[p].target /\ op'[p].family = op[p].family,
           OperationInv(p)'
    PROVE  AdminInv' /\ EntriesKept
  <1>1. faults' \in Nat /\ faults <= faults'
    BY DEF AdminInv, AdminTypeOK
  <1>2. lock' \in [Files -> Ops \cup {None}] /\ \A q \in Ops \ {p} : Held(q)' = Held(q)
    BY DEF AdminInv, AdminTypeOK, Held
  <1>3. op'[p].phase \in Preparing =>
           \A f \in onDisk \ exposed :
              session[f].parent = op'[p].target => f \in op'[p].family
    BY DEF AdminInv, ChildrenKnown
  <1>4. QED
    BY <1>1, <1>2, <1>3, QuietStep

LEMMA BeginStep ==
    ASSUME AdminInv, NEW p \in Ops, NEW k \in Kinds, NEW f \in Files, Begin(p, k, f)
    PROVE  AdminInv' /\ EntriesKept
  <1> DEFINE x == IF k = "autoName" THEN "generating" ELSE "locating"
  <1> DEFINE v == IF k # "delete" THEN op[p].evidence
                  ELSE [log |-> session[f].log, parentId |-> ListedParent(f)]
  <1> DEFINE r == WithRequest(op[p], x, k, f, v)
  <1>1. AdminTypeOK /\ OperationInv(p) /\ op[p].phase = "idle" /\ f \in onDisk
    BY DEF AdminInv, Begin
  <1>2. op \in [Ops -> Operation] /\ op[p] \in Operation /\ f \in Files \cup {None}
    BY <1>1 DEF AdminTypeOK
  <1>3. v \in Revisions
    <2>1. op[p].evidence \in Revisions
      BY <1>2 DEF Operation
    <2>2. session[f] \in Session
      BY <1>1 DEF AdminTypeOK
    <2>3. session[f].log \in SUBSET (Entries \cup Ops)
          /\ session[f].parent \in Files \cup {None}
      BY <2>2 DEF Session
    <2>4. ListedParent(f) \in Files \cup {None}
      BY <2>3 DEF ListedParent
    <2>5. [log |-> session[f].log, parentId |-> ListedParent(f)] \in Revisions
      BY <2>3, <2>4 DEF Revisions
    <2>6. QED
      BY <2>1, <2>5
  <1>4. op' = [op EXCEPT ![p] = r]
    BY DEF Begin, WithRequest
  <1> HIDE DEF v, r
  <1>5. x \in Phases /\ x \in {"generating", "locating"} /\ k \in Kinds \cup {"none"}
    BY DEF Phases
  <1> HIDE DEF x
  <1>6. r \in Operation /\ r.phase = x /\ SameWork(op[p], r)
    BY <1>2, <1>3, <1>5, BeginSet DEF r
  <1>7. op' \in [Ops -> Operation] /\ Others(p) /\ op'[p].phase = x /\ SameWork(op[p], op'[p])
    BY <1>2, <1>4, <1>6, OthersKept DEF Others
  <1>8. Held(p)' = {}
    BY <1>1 DEF OperationInv, LocksFirst, Unlocked, Held, Begin
  <1>9. op'[p].read = {} /\ op'[p].done = {}
    BY <1>1, <1>7 DEF OperationInv, Progress, SameWork
  <1>10. OperationInv(p)'
    BY <1>5, <1>7, <1>8, <1>9, AtRest DEF Unlocked
  <1>11. op'[p].phase \notin Preparing
    BY <1>5, <1>7 DEF Preparing
  <1>12. UNCHANGED <<diskVars, exposed, lock, faults>>
    BY DEF Begin
  <1>13. QED
    BY <1>7, <1>10, <1>11, <1>12, PlainStep

LEMMA AbortStep ==
    ASSUME AdminInv, NEW p \in Ops, Abort(p)
    PROVE  AdminInv' /\ EntriesKept
  <1>1. AdminTypeOK /\ OperationInv(p) /\ op[p].phase = "generating"
    BY DEF AdminInv, Abort
  <1>2. op \in [Ops -> Operation] /\ op[p] \in Operation
    BY <1>1 DEF AdminTypeOK
  <1>3. op' \in [Ops -> Operation] /\ Others(p) /\ op'[p].phase = "generating"
        /\ SameWork(op[p], op'[p])
    <2>1. CASE op' = [op EXCEPT ![p].cancelled = TRUE]
      <3>1. op' = [op EXCEPT ![p] = WithCancelled(op[p])]
        BY <2>1 DEF WithCancelled
      <3>2. QED
        BY <1>1, <1>2, <3>1, CancelledSet, OthersKept DEF Others
    <2>2. CASE op' = [op EXCEPT ![p].timedOut = TRUE]
      <3>1. op' = [op EXCEPT ![p] = WithTimedOut(op[p])]
        BY <2>2 DEF WithTimedOut
      <3>2. QED
        BY <1>1, <1>2, <3>1, TimedOutSet, OthersKept DEF Others
    <2>3. QED
      BY <2>1, <2>2 DEF Abort
  <1>4. Held(p)' = {}
    BY <1>1 DEF OperationInv, LocksFirst, Unlocked, Held, Abort
  <1>5. op'[p].read = {} /\ op'[p].done = {}
    BY <1>1, <1>3 DEF OperationInv, Progress, SameWork
  <1>6. OperationInv(p)'
    BY <1>3, <1>4, <1>5, AtRest DEF Unlocked
  <1>7. op'[p].phase \notin Preparing
    BY <1>3 DEF Preparing
  <1>8. UNCHANGED <<diskVars, exposed, lock, faults>>
    BY DEF Abort
  <1>9. QED
    BY <1>3, <1>6, <1>7, <1>8, PlainStep

(* An operation ends, or its process dies, with nothing left of it.        *)
LEMMA OverStep ==
    ASSUME AdminInv, NEW p \in Ops, NEW x \in {"ended", "crashed"}, NEW y \in Results,
           Over(p, x, y), UNCHANGED <<diskVars, exposed, lock, faults>>,
           x = "ended" => op[p].phase \in Unlocked \/ Held(p) = {}
    PROVE  AdminInv' /\ EntriesKept
  <1>1. AdminTypeOK /\ OperationInv(p) /\ x \in Phases
    BY DEF AdminInv, Phases
  <1>2. op' \in [Ops -> Operation] /\ Others(p) /\ op'[p].phase = x
        /\ op'[p].read = {} /\ op'[p].done = {}
    BY <1>1, OverEffect
  <1>3. x = "ended" => Held(p)' = {}
    BY <1>1 DEF OperationInv, LocksFirst, Held
  <1>4. OperationInv(p)'
    BY <1>2, <1>3, AtRest DEF Unlocked
  <1>5. op'[p].phase \notin Preparing
    BY <1>2 DEF Preparing
  <1>6. QED
    BY <1>2, <1>4, <1>5, PlainStep

(* The result of an operation is there, before or while it has the locks.  *)
LEMMA FinishStep ==
    ASSUME AdminInv, NEW p \in Ops, NEW y \in Results, Finish(p, y),
           UNCHANGED <<diskVars, exposed, lock>>,
           faults' = faults \/ faults' = faults + 1,
           Held(p) \subseteq op[p].family,
           y = "retry" => op[p].read = {} /\ op[p].done = {},
           y = "writeFailed" /\ op[p].kind = "delete" /\ faults' <= 1 =>
              /\ op[p].target \in op[p].family /\ op[p].target \in onDisk
              /\ \A c \in ToDelete(p) : c \in onDisk /\ session[c].parent = op[p].target
    PROVE  AdminInv' /\ EntriesKept
  <1>1. AdminTypeOK
    BY DEF AdminInv
  <1>2. /\ op' \in [Ops -> Operation] /\ Others(p)
        /\ op'[p].phase = "releasing" /\ op'[p].result = y
        /\ SameFiles(op[p], op'[p]) /\ SameWork(op[p], op'[p])
    BY <1>1, FinishEffect
  <1>3. Held(p)' \subseteq op'[p].family /\ ToDelete(p)' = ToDelete(p)
    BY <1>2 DEF Held, ToDelete, SameFiles
  <1>4. y = "retry" => op'[p].read = {} /\ op'[p].done = {}
    BY <1>2 DEF SameWork
  <1>5. Undone(p)'
    BY <1>2, <1>3 DEF Undone, SameFiles, diskVars
  <1>6. OperationInv(p)'
    BY <1>2, <1>3, <1>4, <1>5, AtRelease
  <1>7. op'[p].phase \notin Preparing
    BY <1>2 DEF Preparing
  <1>8. QED
    BY <1>2, <1>6, <1>7, PlainStep

LEMMA NameGeneratedStep ==
    ASSUME AdminInv, NEW p \in Ops, NameGenerated(p)
    PROVE  AdminInv' /\ EntriesKept
  <1>1. AdminTypeOK /\ OperationInv(p) /\ op[p].phase = "generating"
    BY DEF AdminInv, NameGenerated
  <1>2. op \in [Ops -> Operation] /\ op[p] \in Operation
    BY <1>1 DEF AdminTypeOK
  <1>3. UNCHANGED <<diskVars, exposed, lock, faults>>
    BY DEF NameGenerated
  <1>4. ASSUME op' = [op EXCEPT ![p].phase = "locating",
                                ![p].cancelled = FALSE, ![p].timedOut = FALSE]
        PROVE  AdminInv' /\ EntriesKept
    <2>1. op' = [op EXCEPT ![p] = WithName(op[p], "locating")]
      BY <1>4 DEF WithName
    <2>2. "locating" \in Phases
      BY DEF Phases
    <2>3. op' \in [Ops -> Operation] /\ Others(p) /\ op'[p].phase = "locating"
          /\ SameWork(op[p], op'[p])
      BY <1>2, <2>1, <2>2, NameSet, OthersKept DEF Others
    <2>4. Held(p)' = {}
      BY <1>1, <1>3 DEF OperationInv, LocksFirst, Unlocked, Held
    <2>5. op'[p].read = {} /\ op'[p].done = {}
      BY <1>1, <2>3 DEF OperationInv, Progress, SameWork
    <2>6. OperationInv(p)'
      BY <2>3, <2>4, <2>5, AtRest DEF Unlocked
    <2>7. op'[p].phase \notin Preparing
      BY <2>3 DEF Preparing
    <2>8. QED
      BY <1>3, <2>3, <2>6, <2>7, PlainStep
  <1>5. ASSUME NEW y \in Results, End(p, y)
        PROVE  AdminInv' /\ EntriesKept
    BY <1>1, <1>3, <1>5, OverStep DEF End, Unlocked
  <1>6. "failed" \in Results /\ Failure(p) \in Results
    BY DEF Failure, Results
  <1>7. QED
    BY <1>4, <1>5, <1>6 DEF NameGenerated

LEMMA LocateStep ==
    ASSUME AdminInv, NEW p \in Ops, Locate(p)
    PROVE  AdminInv' /\ EntriesKept
  <1>1. AdminTypeOK /\ OperationInv(p) /\ op[p].phase = "locating"
    BY DEF AdminInv, Locate
  <1>2. op \in [Ops -> Operation] /\ op[p] \in Operation
    BY <1>1 DEF AdminTypeOK
  <1>3. UNCHANGED <<diskVars, exposed, lock, faults>>
    BY DEF Locate
  <1>4. Held(p) = {} /\ Held(p)' = {}
    BY <1>1, <1>3 DEF OperationInv, LocksFirst, Unlocked, Held
  <1>5. "notFound" \in Results /\ "conflict" \in Results
    BY DEF Results
  <1>6. CASE End(p, "notFound")
    BY <1>1, <1>3, <1>5, <1>6, OverStep DEF End, Unlocked
  <1>7. CASE Finish(p, "conflict")
    BY <1>3, <1>4, <1>5, <1>7, FinishStep
  <1>8. CASE /\ op[p].target \in onDisk
             /\ op' = [op EXCEPT ![p].phase = "locking", ![p].family = Family(p)]
    <2>1. op' = [op EXCEPT ![p] = WithFamily(op[p], "locking", Family(p))]
      BY <1>8 DEF WithFamily
    <2>2. Family(p) \in SUBSET Files /\ op[p].target \in Family(p) /\ "locking" \in Phases
      BY <1>1, <1>8 DEF Family, Children, AdminTypeOK, Phases
    <2>3. op' \in [Ops -> Operation] /\ Others(p) /\ op'[p].phase = "locking"
          /\ op'[p].target = op[p].target /\ op'[p].family = Family(p)
          /\ SameWork(op[p], op'[p])
      BY <1>2, <2>1, <2>2, FamilySet, OthersKept DEF Others
    <2>4. op'[p].read = {} /\ op'[p].done = {}
      BY <1>1, <2>3 DEF OperationInv, Progress, SameWork
    <2>5. OperationInv(p)'
      <3>1. LocksFirst(p)'
        BY <1>4, <2>2, <2>3 DEF LocksFirst, Unlocked, Naming, Deleting, Preparing
      <3>2. FilesThere(p)'
        BY <2>3 DEF FilesThere, Naming, Deleting, Preparing
      <3>3. Progress(p)'
        BY <2>3, <2>4 DEF Progress, Deleting, Preparing
      <3>4. Undone(p)'
        BY <2>3 DEF Undone
      <3>5. QED
        BY <3>1, <3>2, <3>3, <3>4 DEF OperationInv
    <2>6. op'[p].phase \notin Preparing
      BY <2>3 DEF Preparing
    <2>7. QED
      BY <1>3, <2>3, <2>5, <2>6, PlainStep
  <1>9. QED
    BY <1>6, <1>7, <1>8 DEF Locate

LEMMA NextLockOf ==
    ASSUME AdminTypeOK, NEW p \in Ops, Held(p) \subseteq op[p].family, op[p].family # Held(p)
    PROVE  /\ NextLock(p) \in op[p].family \ Held(p)
           /\ \A f \in op[p].family \ Held(p) : NextLock(p) <= f
           /\ op[p].family \subseteq Nat /\ op[p].family \subseteq Files
  <1>1. op[p] \in Operation
    BY DEF AdminTypeOK
  <1>2. op[p].family \subseteq Files
    BY <1>1 DEF Operation
  <1>3. op[p].family \subseteq Nat
    BY <1>2, AdministrationAssumption
  <1>4. op[p].family \ Held(p) # {} /\ op[p].family \ Held(p) \subseteq Nat
    BY <1>3
  <1>5. QED
    BY <1>2, <1>3, <1>4, LeastOf DEF NextLock

LEMMA AcquireLockStep ==
    ASSUME AdminInv, NEW p \in Ops, AcquireLock(p)
    PROVE  AdminInv' /\ EntriesKept
  <1> DEFINE n == NextLock(p)
  <1>1. AdminTypeOK /\ OperationInv(p) /\ op[p].phase = "locking"
    BY DEF AdminInv, AcquireLock
  <1>2. /\ Held(p) \subseteq op[p].family
        /\ \A f \in Held(p), g \in op[p].family \ Held(p) : f < g
        /\ op[p].target \in op[p].family
        /\ op[p].read = {} /\ op[p].done = {}
    BY <1>1 DEF OperationInv, LocksFirst, Progress
  <1>3. /\ n \in op[p].family \ Held(p) /\ op[p].family \subseteq Nat /\ n \in Files
        /\ \A f \in op[p].family \ Held(p) : n <= f
    BY <1>1, <1>2, NextLockOf DEF AcquireLock
  <1>4. lock \in [Files -> Ops \cup {None}] /\ lock[n] = None
        /\ lock' = [lock EXCEPT ![n] = p] /\ None \notin Ops
    BY <1>1, AdministrationAssumption DEF AdminTypeOK, AcquireLock
  <1>5. UNCHANGED <<diskVars, exposed, op, faults>>
    BY DEF AcquireLock
  <1> HIDE DEF n
  <1>6. lock' \in [Files -> Ops \cup {None}] /\ Held(p)' = Held(p) \cup {n}
    BY <1>3, <1>4 DEF Held
  <1>7. \A q \in Ops \ {p} : Held(q)' = Held(q)
    BY <1>3, <1>4 DEF Held
  <1>8. op' \in [Ops -> Operation] /\ Others(p) /\ op'[p] = op[p] /\ faults' \in Nat
        /\ faults <= faults'
    BY <1>1, <1>5 DEF AdminTypeOK, Others
  <1>9. OperationInv(p)'
    <2>1. \A f \in Held(p) \cup {n}, g \in op[p].family \ (Held(p) \cup {n}) : f < g
      <3>1. ASSUME NEW g \in op[p].family \ (Held(p) \cup {n})  PROVE n < g
        <4>1. n <= g /\ n # g /\ n \in Nat /\ g \in Nat
          BY <1>3
        <4>2. QED
          BY <4>1
      <3>2. QED
        BY <1>2, <3>1
    <2>2. LocksFirst(p)'
      BY <1>1, <1>2, <1>3, <1>6, <1>8, <2>1 DEF LocksFirst, Unlocked, Naming, Deleting, Preparing
    <2>3. FilesThere(p)'
      BY <1>1, <1>8 DEF FilesThere, Naming, Deleting, Preparing
    <2>4. Progress(p)'
      BY <1>1, <1>2, <1>8 DEF Progress, Deleting, Preparing
    <2>5. Undone(p)'
      BY <1>1, <1>8 DEF Undone
    <2>6. QED
      BY <2>2, <2>3, <2>4, <2>5 DEF OperationInv
  <1>10. op'[p].phase \notin Preparing
    BY <1>1, <1>8 DEF Preparing
  <1>11. QED
    BY <1>5, <1>6, <1>7, <1>8, <1>9, <1>10, QuietStep

LEMMA LockTimeoutStep ==
    ASSUME AdminInv, NEW p \in Ops, LockTimeout(p)
    PROVE  AdminInv' /\ EntriesKept
  <1>1. AdminTypeOK /\ OperationInv(p) /\ op[p].phase = "locking"
    BY DEF AdminInv, LockTimeout
  <1>2. Held(p) \subseteq op[p].family /\ "locked" \in Results
    BY <1>1 DEF OperationInv, LocksFirst, Results
  <1>3. UNCHANGED <<diskVars, exposed, lock, faults>> /\ Finish(p, "locked")
    BY DEF LockTimeout
  <1>4. QED
    BY <1>2, <1>3, FinishStep

LEMMA LocateLockedStep ==
    ASSUME AdminInv, NEW p \in Ops, LocateLocked(p)
    PROVE  AdminInv' /\ EntriesKept
  <1>1. AdminTypeOK /\ OperationInv(p) /\ op[p].phase = "locking" /\ op[p].family = Held(p)
    BY DEF AdminInv, LocateLocked
  <1>2. op \in [Ops -> Operation] /\ op[p] \in Operation
    BY <1>1 DEF AdminTypeOK
  <1>3. UNCHANGED <<diskVars, exposed, lock, faults>>
    BY DEF LocateLocked
  <1>4. op[p].target \in op[p].family /\ op[p].read = {} /\ op[p].done = {}
    BY <1>1 DEF OperationInv, LocksFirst, Progress
  <1>5. "notFound" \in Results /\ "conflict" \in Results /\ "retry" \in Results
    BY DEF Results
  <1>6. CASE Finish(p, "notFound") \/ Finish(p, "retry") \/ Finish(p, "conflict")
    BY <1>1, <1>3, <1>4, <1>5, <1>6, FinishStep
  <1>7. CASE op[p].target \in onDisk /\ op[p].kind # "delete" /\ Enter(p, "copying")
    <2>1. "copying" \in Phases
      BY DEF Phases
    <2>2. op' \in [Ops -> Operation] /\ Others(p) /\ op'[p].phase = "copying"
          /\ SameFiles(op[p], op'[p])
      BY <1>1, <1>7, <2>1, EnterEffect
    <2>3. Held(p)' = Held(p) /\ onDisk' = onDisk
      BY <1>3 DEF Held, diskVars
    <2>4. OperationInv(p)'
      <3>1. LocksFirst(p)'
        BY <1>1, <1>4, <1>7, <2>2, <2>3
           DEF LocksFirst, Unlocked, Naming, Deleting, Preparing, SameFiles
      <3>2. FilesThere(p)'
        BY <1>7, <2>2, <2>3 DEF FilesThere, Naming, Deleting, Preparing, SameFiles
      <3>3. Progress(p)'
        BY <2>2 DEF Progress, Deleting, Preparing
      <3>4. Undone(p)'
        BY <2>2 DEF Undone
      <3>5. QED
        BY <3>1, <3>2, <3>3, <3>4 DEF OperationInv
    <2>5. op'[p].phase \notin Preparing
      BY <2>2 DEF Preparing
    <2>6. QED
      BY <1>3, <2>2, <2>4, <2>5, PlainStep
  <1>8. CASE /\ op[p].target \in onDisk /\ op[p].kind = "delete" /\ SamePaths(p)
             /\ op' = [op EXCEPT ![p].phase = "reading",
                                 ![p].newParent = session[op[p].target].parent]
    <2> DEFINE f == session[op[p].target].parent
    <2>1. f \in Files \cup {None} /\ "reading" \in Phases
      <3>1. session[op[p].target] \in Session
        BY <1>1, <1>8 DEF AdminTypeOK
      <3>2. QED
        BY <3>1 DEF Session, Phases
    <2>2. op' = [op EXCEPT ![p] = WithNewParent(op[p], "reading", f)]
      BY <1>8 DEF WithNewParent
    <2> HIDE DEF f
    <2>3. op' \in [Ops -> Operation] /\ Others(p) /\ op'[p].phase = "reading"
          /\ SameFiles(op[p], op'[p]) /\ op'[p].newParent = f
          /\ op'[p].read = {} /\ op'[p].done = {}
      BY <1>2, <1>4, <2>1, <2>2, NewParentSet, OthersKept DEF Others
    <2>4. Held(p)' = Held(p) /\ onDisk' = onDisk /\ session' = session
          /\ ToDelete(p)' = ToDelete(p) /\ exposed' = exposed
      BY <1>3, <2>3 DEF Held, diskVars, ToDelete, SameFiles
    <2>5. op[p].family = {op[p].target} \cup Children(op[p].target)
      BY <1>8 DEF SamePaths, Family
    <2>6. \A c \in ToDelete(p) : c \in onDisk /\ session[c].parent = op[p].target
      BY <2>5 DEF ToDelete, Children
    <2>7. \A c \in onDisk : session[c].parent = op[p].target => c \in op[p].family
      BY <2>5 DEF Children
    <2>8. OperationInv(p)'
      <3>1. LocksFirst(p)'
        BY <1>1, <1>4, <1>8, <2>3, <2>4
           DEF LocksFirst, Unlocked, Naming, Deleting, Preparing, SameFiles
      <3>2. FilesThere(p)'
        BY <1>8, <2>3, <2>4, <2>6 DEF FilesThere, Naming, Deleting, Preparing, SameFiles
      <3>3. Progress(p)'
        BY <2>3, <2>4, <2>6 DEF Progress, Deleting, Preparing, SameFiles, f
      <3>4. Undone(p)'
        BY <2>3 DEF Undone
      <3>5. QED
        BY <3>1, <3>2, <3>3, <3>4 DEF OperationInv
    <2>9. \A c \in onDisk \ exposed :
             session[c].parent = op'[p].target => c \in op'[p].family
      BY <2>3, <2>7 DEF SameFiles
    <2>10. lock' \in [Files -> Ops \cup {None}] /\ \A q \in Ops \ {p} : Held(q)' = Held(q)
      BY <1>1, <1>3 DEF AdminTypeOK, Held
    <2>11. faults' \in Nat /\ faults <= faults'
      BY <1>1, <1>3 DEF AdminTypeOK
    <2>12. QED
      BY <1>3, <2>3, <2>8, <2>9, <2>10, <2>11, QuietStep
  <1>9. QED
    BY <1>6, <1>7, <1>8 DEF LocateLocked

LEMMA ReleaseStep ==
    ASSUME AdminInv, NEW p \in Ops, Release(p)
    PROVE  AdminInv' /\ EntriesKept
  <1>1. AdminTypeOK /\ OperationInv(p) /\ op[p].phase = "releasing"
    BY DEF AdminInv, Release
  <1>2. op \in [Ops -> Operation] /\ op[p] \in Operation
    BY <1>1 DEF AdminTypeOK
  <1>3. UNCHANGED <<diskVars, exposed, faults>>
    BY DEF Release
  <1>4. Held(p) \subseteq op[p].family
    BY <1>1 DEF OperationInv, LocksFirst
  <1>5. ASSUME Held(p) # {}, lock' = [lock EXCEPT ![Greatest(Held(p))] = None], op' = op
        PROVE  AdminInv' /\ EntriesKept
    <2> DEFINE g == Greatest(Held(p))
    <2>1. IsFiniteSet(Held(p)) /\ Held(p) \subseteq Nat
      <3>1. Held(p) \in SUBSET Files
        BY DEF Held
      <3>2. QED
        BY <3>1, AdministrationAssumption, FS_Subset
    <2>2. g \in Held(p)
      BY <1>5, <2>1, GreatestOf
    <2>3. lock \in [Files -> Ops \cup {None}] /\ None \notin Ops /\ g \in Files /\ lock[g] = p
      BY <1>1, <2>2, AdministrationAssumption DEF AdminTypeOK, Held
    <2>4. lock' = [lock EXCEPT ![g] = None]
      BY <1>5
    <2> HIDE DEF g
    <2>5. lock' \in [Files -> Ops \cup {None}] /\ Held(p)' = Held(p) \ {g}
      BY <2>3, <2>4 DEF Held
    <2>6. \A q \in Ops \ {p} : Held(q)' = Held(q)
      BY <2>3, <2>4 DEF Held
    <2>7. op' \in [Ops -> Operation] /\ Others(p) /\ op'[p] = op[p]
          /\ faults' \in Nat /\ faults <= faults'
      BY <1>1, <1>3, <1>5 DEF AdminTypeOK, Others
    <2>8. Held(p)' # op'[p].family /\ Held(p)' \subseteq op'[p].family
      BY <1>4, <2>2, <2>5, <2>7
    <2>9. Undone(p)'
      BY <2>8 DEF Undone
    <2>10. op'[p].result = "retry" => op'[p].read = {} /\ op'[p].done = {}
      BY <1>1, <2>7 DEF OperationInv, Progress
    <2>11. OperationInv(p)'
      BY <1>1, <2>7, <2>8, <2>9, <2>10, AtRelease
    <2>12. op'[p].phase \notin Preparing
      BY <1>1, <2>7 DEF Preparing
    <2>13. QED
      BY <1>3, <2>5, <2>6, <2>7, <2>11, <2>12, QuietStep
  <1>6. ASSUME Held(p) = {}, UNCHANGED lock, NEW y \in Results, End(p, y)
        PROVE  AdminInv' /\ EntriesKept
    BY <1>3, <1>6, OverStep DEF End
  <1>7. ASSUME Held(p) = {}, UNCHANGED lock, Enter(p, "reporting")
        PROVE  AdminInv' /\ EntriesKept
    <2>1. "reporting" \in Phases
      BY DEF Phases
    <2>2. op' \in [Ops -> Operation] /\ Others(p) /\ op'[p].phase = "reporting"
      BY <1>1, <1>7, <2>1, EnterEffect
    <2>3. Held(p)' = {}
      BY <1>7 DEF Held
    <2>4. OperationInv(p)'
      BY <2>2, <2>3, AtRest DEF Unlocked
    <2>5. op'[p].phase \notin Preparing
      BY <2>2 DEF Preparing
    <2>6. QED
      BY <1>3, <1>7, <2>2, <2>4, <2>5, PlainStep
  <1>8. ASSUME Held(p) = {}, UNCHANGED lock, op[p].result = "retry", MayRetry(p),
               op' = [op EXCEPT ![p].phase = "locating", ![p].result = "none",
                                ![p].attempt = @ + 1]
        PROVE  AdminInv' /\ EntriesKept
    <2> DEFINE n == op[p].attempt + 1
    <2>1. n \in 0 .. MaxAttempts - 1
      <3>1. op[p].attempt \in 0 .. MaxAttempts - 1
        BY <1>2 DEF Operation
      <3>2. op[p].attempt \in Nat /\ MaxAttempts \in Nat /\ n < MaxAttempts
        BY <1>8, <3>1, AdministrationAssumption DEF MayRetry
      <3>3. QED
        BY <3>2
    <2>2. op' = [op EXCEPT ![p] = WithAttempt(op[p], "locating", "none", n)]
      BY <1>8 DEF WithAttempt
    <2>3. "locating" \in Phases /\ "none" \in Results
      BY DEF Phases, Results
    <2> HIDE DEF n
    <2>4. op' \in [Ops -> Operation] /\ Others(p) /\ op'[p].phase = "locating"
          /\ SameWork(op[p], op'[p])
      BY <1>2, <2>1, <2>2, <2>3, AttemptSet, OthersKept DEF Others
    <2>5. op'[p].read = {} /\ op'[p].done = {} /\ Held(p)' = {}
      BY <1>1, <1>8, <2>4 DEF OperationInv, Progress, SameWork, Held
    <2>6. OperationInv(p)'
      BY <2>4, <2>5, AtRest DEF Unlocked
    <2>7. op'[p].phase \notin Preparing
      BY <2>4 DEF Preparing
    <2>8. QED
      BY <1>3, <1>8, <2>4, <2>6, <2>7, PlainStep
  <1>9. "ok" \in Results /\ "conflict" \in Results /\ op[p].result \in Results
    BY <1>2 DEF Results, Operation
  <1>10. QED
    BY <1>5, <1>6, <1>7, <1>8, <1>9 DEF Release

LEMMA ReportStep ==
    ASSUME AdminInv, NEW p \in Ops, Report(p)
    PROVE  AdminInv' /\ EntriesKept
  <1> DEFINE y == IF op[p].target \in onDisk THEN "ok" ELSE "notFound"
  <1>1. y \in Results /\ op[p].phase \in Unlocked
    BY DEF Results, Report, Unlocked
  <1>2. UNCHANGED <<diskVars, exposed, lock, faults>> /\ Over(p, "ended", y)
    BY DEF Report, End
  <1>3. QED
    BY <1>1, <1>2, OverStep

LEMMA CrashStep ==
    ASSUME AdminInv, NEW p \in Ops, Crash(p)
    PROVE  AdminInv' /\ EntriesKept
  <1>1. UNCHANGED <<diskVars, exposed, lock, faults>> /\ Over(p, "crashed", "none")
        /\ "none" \in Results
    BY DEF Crash, Results
  <1>2. QED
    BY <1>1, OverStep

(* What a naming or deleting operation knows.                              *)
LEMMA AtWork ==
    ASSUME AdminTypeOK, NEW p \in Ops, OperationInv(p), op[p].phase \in Naming \cup Deleting
    PROVE  /\ Held(p) = op[p].family /\ op[p].target \in op[p].family
           /\ op[p].family \subseteq Files /\ op[p].target \in Files
           /\ op[p].target \in onDisk \cup gone
           /\ op[p].target \notin ToDelete(p) /\ ToDelete(p) \subseteq op[p].family
           /\ op[p].phase \in Deleting => ToDelete(p) \subseteq onDisk
           /\ op[p].phase \in Naming => op[p].kind # "delete"
           /\ op[p].phase \in Deleting => op[p].kind = "delete"
           /\ faults \in Nat
  <1>1. op[p] \in Operation /\ faults \in Nat
    BY DEF AdminTypeOK
  <1>2. op[p].family \subseteq Files
    BY <1>1 DEF Operation
  <1>3. Held(p) = op[p].family /\ op[p].target \in op[p].family
    BY DEF OperationInv, LocksFirst
  <1>4. op[p].phase \in Naming => op[p].kind # "delete"
    BY DEF OperationInv, LocksFirst
  <1>5. op[p].phase \in Deleting => op[p].kind = "delete"
    BY DEF OperationInv, LocksFirst
  <1>6. op[p].target \in onDisk \cup gone
    BY DEF OperationInv, FilesThere, Deleting
  <1>7. op[p].phase \in Deleting => ToDelete(p) \subseteq onDisk
    BY DEF OperationInv, FilesThere
  <1>8. op[p].target \notin ToDelete(p) /\ ToDelete(p) \subseteq op[p].family
    BY DEF ToDelete
  <1>9. QED
    BY <1>1, <1>2, <1>3, <1>4, <1>5, <1>6, <1>7, <1>8

(* A write that fails while a session is named; nothing was written.       *)
LEMMA NamingFails ==
    ASSUME AdminInv, NEW p \in Ops, op[p].phase \in Naming, Finish(p, "writeFailed"),
           UNCHANGED <<diskVars, exposed, lock>>, faults' = faults \/ faults' = faults + 1
    PROVE  AdminInv' /\ EntriesKept
  <1>1. Held(p) = op[p].family /\ op[p].kind # "delete" /\ "writeFailed" \in Results
    BY AtWork DEF AdminInv, Results
  <1>2. QED
    BY <1>1, FinishStep

LEMMA CopyFileStep ==
    ASSUME AdminInv, NEW p \in Ops, CopyFile(p)
    PROVE  AdminInv' /\ EntriesKept
  <1>1. AdminTypeOK /\ OperationInv(p) /\ op[p].phase = "copying"
    BY DEF AdminInv, CopyFile
  <1>2. op \in [Ops -> Operation] /\ op[p] \in Operation
    BY <1>1 DEF AdminTypeOK
  <1>3. UNCHANGED <<diskVars, exposed, lock>>
    BY DEF CopyFile
  <1>4. CASE Finish(p, "writeFailed")
    BY <1>1, <1>3, <1>4, NamingFails DEF CopyFile, NoFault, Fault, Naming
  <1>5. CASE op' = [op EXCEPT ![p].phase = "committing", ![p].copy[op[p].target] = Shadow(p)]
             /\ op[p].target \in onDisk /\ NoFault
    <2> DEFINE f == op[p].target
    <2> DEFINE c == [op[p].copy EXCEPT ![f] = Shadow(p)]
    <2>1. Held(p) = op[p].family /\ f \in op[p].family /\ f \in Files /\ op[p].kind # "delete"
      BY <1>1, AtWork DEF Naming
    <2>2. Shadow(p) \in Session /\ Shadow(p).parent = session[f].parent
          /\ session[f].log \subseteq Shadow(p).log
      <3>1. session[f] \in Session
        BY <1>1, <2>1 DEF AdminTypeOK
      <3>2. session[f] = [parent |-> session[f].parent, log |-> session[f].log]
            /\ session[f].parent \in Files \cup {None}
            /\ session[f].log \in SUBSET (Entries \cup Ops)
        BY <3>1 DEF Session
      <3>3. Shadow(p) = [parent |-> session[f].parent, log |-> session[f].log \cup {p}]
        BY <3>2 DEF Shadow
      <3>4. session[f].log \cup {p} \in SUBSET (Entries \cup Ops)
        BY <3>2
      <3>5. QED
        BY <3>2, <3>3, <3>4 DEF Session
    <2>3. op[p].copy \in [Files -> Session]
      BY <1>2 DEF Operation
    <2>4. c \in [Files -> Session] /\ c[f] = Shadow(p)
      BY <2>1, <2>2, <2>3
    <2>5. op' = [op EXCEPT ![p] = WithCopy(op[p], "committing", c)]
      BY <1>5 DEF WithCopy
    <2>6. "committing" \in Phases
      BY DEF Phases
    <2> HIDE DEF f, c
    <2>7. op' \in [Ops -> Operation] /\ Others(p) /\ op'[p].phase = "committing"
          /\ SameFiles(op[p], op'[p]) /\ op'[p].copy = c
      BY <1>2, <2>4, <2>5, <2>6, CopySet, OthersKept DEF Others
    <2>8. Held(p)' = Held(p) /\ onDisk' = onDisk /\ session' = session /\ exposed' = exposed
      BY <1>3 DEF Held, diskVars
    <2>9. op'[p].target = f
      BY <2>7 DEF SameFiles, f
    <2>10. OperationInv(p)'
      <3>1. LocksFirst(p)'
        BY <2>1, <2>7, <2>8, <2>9
           DEF LocksFirst, Unlocked, Naming, Deleting, Preparing, SameFiles
      <3>2. FilesThere(p)'
        BY <1>5, <2>7, <2>8, <2>9 DEF FilesThere, Naming, Deleting, Preparing, f
      <3>3. session'[f].log \ exposed' \subseteq op'[p].copy[f].log
            /\ op'[p].copy[f].parent = session'[f].parent
        BY <2>2, <2>4, <2>7, <2>8
      <3>4. Progress(p)'
        BY <2>7, <2>9, <3>3 DEF Progress, Deleting, Preparing, UpToDate
      <3>5. Undone(p)'
        BY <2>7 DEF Undone
      <3>6. QED
        BY <3>1, <3>2, <3>4, <3>5 DEF OperationInv
    <2>11. op'[p].phase \notin Preparing
      BY <2>7 DEF Preparing
    <2>12. QED
      BY <1>3, <1>5, <2>7, <2>10, <2>11, PlainStep DEF NoFault
  <1>6. QED
    BY <1>4, <1>5 DEF CopyFile

LEMMA AtDeletion ==
    ASSUME AdminTypeOK, NEW p \in Ops, OperationInv(p), op[p].phase \in Deleting
    PROVE  /\ op[p].done \subseteq op[p].read /\ op[p].read \subseteq ToDelete(p)
           /\ op[p].phase = "reading" => op[p].done = {}
           /\ op[p].phase # "reading" => op[p].read = ToDelete(p)
           /\ op[p].newParent = session[op[p].target].parent
           /\ \A c \in op[p].read : UpToDate(p, c) /\ op[p].copy[c].parent = op[p].target
           /\ \A c \in op[p].done : session[c].parent = op[p].newParent
           /\ faults <= 1 \/ op[p].phase # "rollingBack" =>
                 \A c \in ToDelete(p) \ op[p].done : session[c].parent = op[p].target
  BY DEF OperationInv, Progress

(* Least(ToDelete(p) \ S), the child that is next.                         *)
LEMMA NextChild ==
    ASSUME AdminTypeOK, NEW p \in Ops, NEW S, S \subseteq ToDelete(p), S # ToDelete(p)
    PROVE  Least(ToDelete(p) \ S) \in ToDelete(p) \ S /\ Least(ToDelete(p) \ S) \in Files
  <1>1. op[p] \in Operation
    BY DEF AdminTypeOK
  <1>2. ToDelete(p) \subseteq Files
    BY <1>1 DEF Operation, ToDelete
  <1>3. ToDelete(p) \ S # {} /\ ToDelete(p) \ S \subseteq Nat
    BY <1>2, AdministrationAssumption
  <1>4. Least(ToDelete(p) \ S) \in ToDelete(p) \ S
    BY <1>3, LeastOf
  <1>5. QED
    BY <1>2, <1>4

(* A deletion that goes on, with nothing changed that it relies on.        *)
LEMMA DeletionGoesOn ==
    ASSUME AdminInv, NEW p \in Ops, op[p].phase \in Deleting, NEW x \in Deleting, Enter(p, x),
           UNCHANGED <<diskVars, exposed, lock>>, faults' = faults \/ faults' = faults + 1,
           x \in Preparing => op[p].phase \in Preparing /\ op[p].target \in onDisk,
           x \in {"unlinking", "restoring"} => op[p].target \in gone,
           x = "restoring" => faults' > 0,
           x = "rollingBack" =>
              /\ faults' > 0 /\ op[p].phase # "rollingBack"
              /\ op[p].target \in onDisk \/ (faults' > 1 /\ op[p].target \in gone),
           x # "rollingBack" => op[p].phase # "rollingBack",
           x = "reading" <=> op[p].phase = "reading" /\ op[p].read # ToDelete(p)
    PROVE  AdminInv' /\ EntriesKept
  <1>1. AdminTypeOK /\ OperationInv(p) /\ x \in Phases
    BY DEF AdminInv, Deleting, Preparing, Phases
  <1>2. op' \in [Ops -> Operation] /\ Others(p) /\ op'[p].phase = x
        /\ SameFiles(op[p], op'[p]) /\ SameWork(op[p], op'[p])
    BY <1>1, EnterEffect
  <1>3. Held(p)' = Held(p) /\ onDisk' = onDisk /\ session' = session /\ gone' = gone
        /\ exposed' = exposed /\ ToDelete(p)' = ToDelete(p)
    BY <1>2 DEF Held, diskVars, ToDelete, SameFiles
  <1>4. Held(p) = op[p].family /\ op[p].target \in op[p].family /\ op[p].kind = "delete"
        /\ ToDelete(p) \subseteq onDisk /\ faults \in Nat
    BY <1>1, AtWork
  <1>5. OperationInv(p)'
    <2>1. LocksFirst(p)'
      <3>1. x \notin Unlocked /\ x # "locking" /\ x # "releasing" /\ x \notin Naming
        BY DEF Unlocked, Naming, Deleting, Preparing
      <3>2. QED
        BY <1>2, <1>3, <1>4, <3>1 DEF LocksFirst, SameFiles
    <2>2. FilesThere(p)'
      <3>1. x \notin Naming
        BY DEF Naming, Deleting, Preparing
      <3>2. QED
        BY <1>2, <1>3, <1>4, <3>1 DEF FilesThere, SameFiles
    <2>3. Progress(p)'
      <3>1. x \notin {"idle", "generating", "locating", "locking", "releasing", "committing"}
        BY DEF Deleting, Preparing
      <3>2. /\ op[p].done \subseteq op[p].read /\ op[p].read \subseteq ToDelete(p)
            /\ op[p].phase = "reading" => op[p].done = {}
            /\ op[p].phase # "reading" => op[p].read = ToDelete(p)
            /\ op[p].newParent = session[op[p].target].parent
            /\ \A c \in op[p].read : UpToDate(p, c) /\ op[p].copy[c].parent = op[p].target
            /\ \A c \in op[p].done : session[c].parent = op[p].newParent
            /\ op[p].phase # "rollingBack" =>
                  \A c \in ToDelete(p) \ op[p].done : session[c].parent = op[p].target
        BY <1>1, AtDeletion
      <3>3. \A c \in op[p].read : UpToDate(p, c)'
        BY <1>2, <1>3, <3>2 DEF UpToDate, SameWork
      <3>4. op[p].phase # "rollingBack"
        OBVIOUS
      <3>5. QED
        BY <1>2, <1>3, <3>1, <3>2, <3>3, <3>4 DEF Progress, SameFiles, SameWork
    <2>4. Undone(p)'
      BY <1>2 DEF Undone, Deleting, Preparing
    <2>5. QED
      BY <2>1, <2>2, <2>3, <2>4 DEF OperationInv
  <1>6. op'[p].phase \in Preparing =>
           /\ op[p].phase \in Preparing
           /\ op'[p].target = op[p].target /\ op'[p].family = op[p].family
    BY <1>2 DEF SameFiles
  <1>7. QED
    BY <1>2, <1>5, <1>6, PlainStep

LEMMA ReadDoneStep ==
    ASSUME AdminInv, NEW p \in Ops, ReadDone(p)
    PROVE  AdminInv' /\ EntriesKept
  <1>1. op[p].phase = "reading" /\ op[p].phase \in Deleting /\ op[p].phase \in Preparing
        /\ "reparenting" \in Deleting
    BY DEF ReadDone, Deleting, Preparing
  <1>2. op[p].target \in onDisk
    BY <1>1 DEF AdminInv, OperationInv, FilesThere
  <1>3. Enter(p, "reparenting") /\ op[p].read = ToDelete(p)
        /\ UNCHANGED <<diskVars, exposed, lock>> /\ faults' = faults
    BY DEF ReadDone
  <1>4. QED
    BY <1>1, <1>2, <1>3, DeletionGoesOn

(* A deletion that was not able to read a child has changed nothing.       *)
LEMMA ReadingFails ==
    ASSUME AdminInv, NEW p \in Ops, op[p].phase = "reading", Finish(p, "failed"),
           UNCHANGED <<diskVars, exposed, lock>>, faults' = faults \/ faults' = faults + 1
    PROVE  AdminInv' /\ EntriesKept
  <1>1. Held(p) = op[p].family /\ "failed" \in Results
    BY AtWork DEF AdminInv, Results, Deleting, Preparing
  <1>2. QED
    BY <1>1, FinishStep

LEMMA ReadChildStep ==
    ASSUME AdminInv, NEW p \in Ops, ReadChild(p)
    PROVE  AdminInv' /\ EntriesKept
  <1> DEFINE c == Least(ToDelete(p) \ op[p].read)
  <1>1. AdminTypeOK /\ OperationInv(p) /\ op[p].phase = "reading"
        /\ op[p].phase \in Deleting /\ op[p].phase \in Preparing
    BY DEF AdminInv, ReadChild, Deleting, Preparing
  <1>2. op \in [Ops -> Operation] /\ op[p] \in Operation
    BY <1>1 DEF AdminTypeOK
  <1>3. /\ op[p].read \subseteq ToDelete(p) /\ op[p].done = {}
        /\ op[p].newParent = session[op[p].target].parent
        /\ \A d \in op[p].read : UpToDate(p, d) /\ op[p].copy[d].parent = op[p].target
        /\ \A d \in ToDelete(p) : session[d].parent = op[p].target
    BY <1>1, AtDeletion
  <1>4. c \in ToDelete(p) \ op[p].read /\ c \in Files
    BY <1>1, <1>3, NextChild DEF ReadChild
  <1>5. CASE Finish(p, "failed")
    BY <1>1, <1>5, ReadingFails DEF ReadChild, NoFault, Fault
  <1>6. CASE c \in onDisk /\ NoFault
             /\ op' = [op EXCEPT ![p].copy[c] = session[c], ![p].read = @ \cup {c}]
    <2> DEFINE copies == [op[p].copy EXCEPT ![c] = session[c]]
    <2> DEFINE S == op[p].read \cup {c}
    <2>1. op' = [op EXCEPT ![p] = WithRead(op[p], copies, S)]
      BY <1>6 DEF WithRead
    <2>2. op[p].copy \in [Files -> Session] /\ op[p].read \in SUBSET Files
      BY <1>2 DEF Operation
    <2>3. session[c] \in Session
      BY <1>1, <1>4 DEF AdminTypeOK
    <2>4. copies \in [Files -> Session] /\ copies[c] = session[c]
          /\ \A d \in Files \ {c} : copies[d] = op[p].copy[d]
      BY <1>4, <2>2, <2>3
    <2>5. S \in SUBSET Files
      BY <1>4, <2>2
    <2> HIDE DEF copies, S
    <2>6. /\ op' \in [Ops -> Operation] /\ Others(p) /\ op'[p].phase = "reading"
          /\ SameFiles(op[p], op'[p]) /\ op'[p].newParent = op[p].newParent
          /\ op'[p].copy = copies /\ op'[p].read = S /\ op'[p].done = {}
      <3> DEFINE r == WithRead(op[p], copies, S)
      <3>1. /\ r \in Operation /\ r.phase = op[p].phase /\ SameFiles(op[p], r)
            /\ r.newParent = op[p].newParent /\ r.copy = copies /\ r.read = S
            /\ r.done = op[p].done
        BY <1>2, <2>4, <2>5, ReadSet
      <3> HIDE DEF r
      <3>2. op' = [op EXCEPT ![p] = r]
        BY <2>1 DEF r
      <3>3. op' \in [Ops -> Operation] /\ op'[p] = r /\ Others(p)
        BY <1>2, <3>1, <3>2, OthersKept DEF Others
      <3>4. QED
        BY <1>1, <1>3, <3>1, <3>3
    <2>7. /\ Held(p)' = Held(p) /\ onDisk' = onDisk /\ session' = session
          /\ exposed' = exposed /\ ToDelete(p)' = ToDelete(p)
      BY <2>6 DEF ReadChild, Held, diskVars, ToDelete, SameFiles
    <2>8. /\ Held(p) = op[p].family /\ op[p].target \in op[p].family /\ op[p].kind = "delete"
          /\ ToDelete(p) \subseteq onDisk
      BY <1>1, AtWork
    <2>9. op[p].target \in onDisk
      BY <1>1 DEF OperationInv, FilesThere
    <2> HIDE DEF c
    <2>10. S \subseteq ToDelete(p) /\ S = op[p].read \cup {c}
      BY <1>3, <1>4 DEF S
    <2>11. \A d \in S :
              /\ session'[d].log \ exposed' \subseteq op'[p].copy[d].log
              /\ op'[p].copy[d].parent = op'[p].target
      <3>1. op'[p].target = op[p].target
        BY <2>6 DEF SameFiles
      <3>2. copies[c].parent = op[p].target /\ session[c].log \ exposed \subseteq copies[c].log
        BY <1>3, <1>4, <2>4
      <3>3. ASSUME NEW d \in op[p].read
            PROVE  copies[d].parent = op[p].target
                   /\ session[d].log \ exposed \subseteq copies[d].log
        <4>1. d # c /\ d \in Files /\ UpToDate(p, d) /\ op[p].copy[d].parent = op[p].target
          BY <1>3, <1>4, <2>2
        <4>2. copies[d] = op[p].copy[d]
          BY <2>4, <4>1
        <4>3. QED
          BY <4>1, <4>2 DEF UpToDate
      <3>4. QED
        BY <2>6, <2>7, <2>10, <3>1, <3>2, <3>3
    <2>12. OperationInv(p)'
      <3>1. LocksFirst(p)'
        BY <2>6, <2>7, <2>8 DEF LocksFirst, Unlocked, Naming, Deleting, Preparing, SameFiles
      <3>2. FilesThere(p)'
        BY <2>6, <2>7, <2>8, <2>9 DEF FilesThere, Naming, Deleting, Preparing, SameFiles
      <3>3. Progress(p)'
        <4>1. op'[p].target = op[p].target
          BY <2>6 DEF SameFiles
        <4>2. QED
          BY <1>3, <2>6, <2>7, <2>10, <2>11, <4>1 DEF Progress, Deleting, Preparing, UpToDate
      <3>4. Undone(p)'
        BY <2>6 DEF Undone
      <3>5. QED
        BY <3>1, <3>2, <3>3, <3>4 DEF OperationInv
    <2>13. op'[p].phase \in Preparing =>
              /\ op[p].phase \in Preparing
              /\ op'[p].target = op[p].target /\ op'[p].family = op[p].family
      BY <1>1, <2>6 DEF SameFiles
    <2>14. UNCHANGED <<diskVars, exposed, lock>> /\ faults' = faults
      BY <1>6 DEF ReadChild, NoFault
    <2>15. QED
      BY <2>6, <2>12, <2>13, <2>14, PlainStep
  <1>7. QED
    BY <1>5, <1>6 DEF ReadChild

LEMMA RollingBackBegins ==
    ASSUME AdminInv, NEW p \in Ops, op[p].phase \in {"reparenting", "restoring"},
           Enter(p, "rollingBack"), UNCHANGED <<diskVars, exposed, lock>>, faults' = faults + 1
    PROVE  AdminInv' /\ EntriesKept
  <1>1. AdminTypeOK /\ OperationInv(p) /\ op[p].phase \in Deleting /\ "rollingBack" \in Deleting
    BY DEF AdminInv, Deleting, Preparing
  <1>2. faults \in Nat /\ faults' > 0
    BY <1>1 DEF AdminTypeOK
  <1>3. op[p].phase = "reparenting" => op[p].target \in onDisk
    BY <1>1 DEF OperationInv, FilesThere, Preparing
  <1>4. op[p].phase = "restoring" => op[p].target \in gone /\ faults' > 1
    BY <1>1, <1>2 DEF OperationInv, FilesThere
  <1>5. QED
    BY <1>1, <1>2, <1>3, <1>4, DeletionGoesOn DEF Preparing

LEMMA UnlinkStep ==
    ASSUME AdminInv, NEW p \in Ops, Unlink(p)
    PROVE  AdminInv' /\ EntriesKept
  <1>1. AdminTypeOK /\ OperationInv(p) /\ op[p].phase = "unlinking"
        /\ op[p].phase \in Deleting /\ "restoring" \in Deleting
    BY DEF AdminInv, Unlink, Deleting, Preparing
  <1>2. op[p].target \in gone /\ faults \in Nat /\ Held(p) = op[p].family
    BY <1>1, AtWork DEF OperationInv, FilesThere
  <1>3. UNCHANGED <<diskVars, exposed, lock>>
    BY DEF Unlink
  <1>4. CASE NoFault /\ Finish(p, "ok")
    BY <1>2, <1>3, <1>4, FinishStep DEF NoFault, Results
  <1>5. CASE Fault /\ Enter(p, "restoring")
    <2>1. faults' = faults + 1 /\ faults' > 0
      BY <1>2, <1>5 DEF Fault
    <2>2. QED
      BY <1>1, <1>2, <1>3, <1>5, <2>1, DeletionGoesOn DEF Preparing
  <1>6. QED
    BY <1>4, <1>5 DEF Unlink

-----------------------------------------------------------------------------
(* Steps that change session files.                                        *)

(* No file is locked by two operations.                                    *)
LEMMA LockedByOne ==
    ASSUME NEW p \in Ops, NEW q \in Ops \ {p}
    PROVE  Held(p) \cap Held(q) = {}
  BY DEF Held

(* An operation that changes only files it has locked disturbs no other.   *)
LEMMA OthersUndisturbed ==
    ASSUME AdminInv, NEW p \in Ops, Others(p), lock' = lock,
           faults' = faults \/ faults' = faults + 1, exposed \subseteq exposed',
           \A f \in Files \ Held(p) :
              /\ f \in onDisk' <=> f \in onDisk
              /\ f \in gone' <=> f \in gone
              /\ session'[f] = session[f]
    PROVE  \A q \in Ops \ {p} : OperationInv(q)'
  <1>1. faults' \in Nat /\ faults <= faults' /\ AdminTypeOK
    BY DEF AdminInv, AdminTypeOK
  <1>2. SUFFICES ASSUME NEW q \in Ops \ {p}  PROVE OperationInv(q)'
    OBVIOUS
  <1>3. OperationInv(q) /\ op'[q] = op[q] /\ Held(q)' = Held(q)
    BY DEF AdminInv, Others, Held
  <1>4. Held(q) \subseteq Files \ Held(p)
    BY DEF Held
  <1>5. QED
    BY <1>1, <1>3, <1>4, Undisturbed

(* A file that an operation has locked gets another content.               *)
LEMMA ReplaceStep ==
    ASSUME AdminInv, NEW p \in Ops, NEW f \in Held(p) \cap onDisk, NEW s \in Session,
           Replace(f, s), lock' = lock, op' \in [Ops -> Operation], Others(p),
           faults' = faults \/ faults' = faults + 1, exposed \subseteq exposed',
           session[f].log \ exposed \subseteq s.log,
           s.parent \in onDisk \cup gone \cup {None},
           \A S \in (SUBSET Files) \ {{}} :
              f \in S => \/ s.parent \notin S
                         \/ \E g \in S \ {f} : session[g].parent \notin S,
           faults' <= 1 => f \in exposed' \/ s.parent \notin gone,
           \A q \in Ops :
              op'[q].phase \in Preparing /\ s.parent = op'[q].target =>
                 f \in op'[q].family \/ f \in exposed',
           op'[p].phase \in Preparing =>
              /\ op[p].phase \in Preparing
              /\ op'[p].target = op[p].target /\ op'[p].family = op[p].family,
           OperationInv(p)'
    PROVE  AdminInv' /\ EntriesKept
  <1>1. AdminTypeOK /\ Descent /\ NoOrphans /\ ChildrenKnown /\ f \in Files /\ f \in onDisk
    BY DEF AdminInv, Held
  <1>2. onDisk' = onDisk /\ gone' = gone /\ session' = [session EXCEPT ![f] = s]
    BY <1>1 DEF Replace
  <1>3. session \in [Files -> Session] /\ session'[f] = s
        /\ \A g \in Files \ {f} : session'[g] = session[g]
    BY <1>1, <1>2 DEF AdminTypeOK
  <1>4. faults \in Nat /\ faults' \in Nat /\ (faults' <= 1 => faults <= 1)
    BY <1>1 DEF AdminTypeOK
  <1>5. AdminTypeOK'
    BY <1>1, <1>2, <1>3, <1>4 DEF AdminTypeOK
  <1>6. Descent'
    <2>1. \A g \in Files : session'[g].parent \in onDisk \cup gone \cup {None}
      BY <1>1, <1>3 DEF Descent
    <2>2. ASSUME NEW S \in (SUBSET Files) \ {{}}
          PROVE  \E g \in S : session'[g].parent \notin S
      <3>1. CASE f \in S
        <4>1. CASE s.parent \notin S
          BY <1>3, <3>1, <4>1
        <4>2. CASE s.parent \in S
          <5>1. PICK g \in S \ {f} : session[g].parent \notin S
            BY <3>1, <4>2
          <5>2. session'[g] = session[g]
            BY <1>3
          <5>3. QED
            BY <5>1, <5>2
        <4>3. QED
          BY <4>1, <4>2
      <3>2. CASE f \notin S
        <4>1. PICK g \in S : session[g].parent \notin S
          BY <1>1 DEF Descent
        <4>2. session'[g] = session[g]
          BY <1>3, <3>2, <4>1
        <4>3. QED
          BY <4>1, <4>2
      <3>3. QED
        BY <3>1, <3>2
    <2>3. QED
      BY <1>1, <1>2, <2>1, <2>2 DEF Descent
  <1>7. ChildrenKnown'
    <2>1. SUFFICES ASSUME NEW q \in Ops, op'[q].phase \in Preparing,
                          NEW g \in onDisk \ exposed', session'[g].parent = op'[q].target
                   PROVE  g \in op'[q].family
      BY <1>2 DEF ChildrenKnown
    <2>2. op[q].phase \in Preparing /\ op'[q].target = op[q].target
          /\ op'[q].family = op[q].family
      BY <2>1 DEF Others
    <2>3. CASE g = f
      BY <1>3, <2>1, <2>3
    <2>4. CASE g # f
      <3>1. g \in Files
        BY <1>1 DEF AdminTypeOK
      <3>2. session[g].parent = op[q].target /\ g \in onDisk \ exposed
        BY <1>3, <2>1, <2>2, <2>4, <3>1
      <3>3. QED
        BY <1>1, <2>2, <3>2 DEF ChildrenKnown
    <2>5. QED
      BY <2>3, <2>4
  <1>8. NoOrphans'
    <2>1. SUFFICES ASSUME faults' <= 1, NEW g \in onDisk \ exposed'
                   PROVE  session'[g].parent \notin gone
      BY <1>2 DEF NoOrphans
    <2>2. g \in Files
      BY <1>1 DEF AdminTypeOK
    <2>3. QED
      BY <1>1, <1>3, <1>4, <2>1, <2>2 DEF NoOrphans
  <1>9. \A q \in Ops \ {p} : OperationInv(q)'
    <2>1. \A g \in Files \ Held(p) :
              /\ g \in onDisk' <=> g \in onDisk
              /\ g \in gone' <=> g \in gone
              /\ session'[g] = session[g]
      BY <1>2, <1>3
    <2>2. QED
      BY <2>1, OthersUndisturbed
  <1>10. EntriesKept
    <2>1. SUFFICES ASSUME NEW g \in onDisk
                   PROVE  session[g].log \ session'[g].log \subseteq exposed
      BY DEF EntriesKept
    <2>2. g \in Files
      BY <1>1 DEF AdminTypeOK
    <2>3. CASE g = f
      BY <1>3, <2>3
    <2>4. CASE g # f
      BY <1>3, <2>2, <2>4
    <2>5. QED
      BY <2>3, <2>4
  <1>11. QED
    BY <1>5, <1>6, <1>7, <1>8, <1>9, <1>10 DEF AdminInv

LEMMA CopiesAreSessions ==
    ASSUME AdminTypeOK, NEW p \in Ops, NEW f \in Files
    PROVE  op[p].copy[f] \in Session /\ session[f] \in Session
  <1>1. op[p] \in Operation /\ session \in [Files -> Session]
    BY DEF AdminTypeOK
  <1>2. op[p].copy \in [Files -> Session]
    BY <1>1 DEF Operation
  <1>3. QED
    BY <1>1, <1>2

LEMMA CommitNameStep ==
    ASSUME AdminInv, NEW p \in Ops, CommitName(p)
    PROVE  AdminInv' /\ EntriesKept
  <1> DEFINE f == op[p].target
  <1> DEFINE s == op[p].copy[f]
  <1>1. AdminTypeOK /\ Descent /\ NoOrphans /\ ChildrenKnown /\ OperationInv(p)
        /\ op[p].phase = "committing" /\ op[p].phase \in Naming
    BY DEF AdminInv, CommitName, Naming
  <1>2. exposed' = exposed /\ lock' = lock
    BY DEF CommitName
  <1>3. CASE Fault /\ Finish(p, "writeFailed") /\ UNCHANGED diskVars
    BY <1>1, <1>2, <1>3, NamingFails DEF Fault
  <1>4. CASE NoFault /\ Replace(f, s) /\ Finish(p, "ok")
    <2>1. /\ Held(p) = op[p].family /\ f \in op[p].family /\ f \in Files
          /\ op[p].kind # "delete" /\ faults' = faults /\ faults \in Nat
      BY <1>1, <1>4, AtWork DEF NoFault
    <2>2. f \in onDisk
      BY <1>1 DEF OperationInv, FilesThere
    <2>3. UpToDate(p, f) /\ s.parent = session[f].parent
      BY <1>1 DEF OperationInv, Progress
    <2>4. s \in Session
      BY <1>1, <2>1, CopiesAreSessions
    <2> HIDE DEF f
    <2>5. session[f].log \ exposed \subseteq s.log
      BY <2>3 DEF UpToDate
    <2> HIDE DEF s
    <2>6. s.parent \in onDisk \cup gone \cup {None}
      BY <1>1, <2>1, <2>3 DEF Descent
    <2>7. ASSUME NEW S \in (SUBSET Files) \ {{}}
          PROVE  s.parent \notin S \/ \E g \in S \ {f} : session[g].parent \notin S
      <3>1. PICK g \in S : session[g].parent \notin S
        BY <1>1 DEF Descent
      <3>2. QED
        BY <2>3, <3>1
    <2>8. faults' <= 1 => f \in exposed' \/ s.parent \notin gone
      BY <1>1, <1>2, <2>1, <2>2, <2>3 DEF NoOrphans
    <2>9. /\ op' \in [Ops -> Operation] /\ Others(p) /\ op'[p].phase = "releasing"
          /\ op'[p].result = "ok" /\ SameFiles(op[p], op'[p])
      BY <1>1, <1>4, FinishEffect DEF Results
    <2>10. ASSUME NEW q \in Ops, op'[q].phase \in Preparing, s.parent = op'[q].target
           PROVE  f \in op'[q].family \/ f \in exposed'
      <3>1. op'[q] = op[q]
        BY <2>9, <2>10 DEF Others, Preparing
      <3>2. QED
        BY <1>1, <1>2, <2>2, <2>3, <2>10, <3>1 DEF ChildrenKnown
    <2>11. OperationInv(p)'
      <3>1. Held(p)' \subseteq op'[p].family
        BY <1>2, <2>1, <2>9 DEF Held, SameFiles
      <3>2. Undone(p)'
        BY <2>9 DEF Undone
      <3>3. QED
        BY <2>9, <3>1, <3>2, AtRelease
    <2>12. op'[p].phase \notin Preparing
      BY <2>9 DEF Preparing
    <2>13. f \in Held(p) \cap onDisk /\ exposed \subseteq exposed'
      BY <1>2, <2>1, <2>2
    <2>14. QED
      BY <1>2, <1>4, <2>1, <2>4, <2>5, <2>6, <2>7, <2>8, <2>9, <2>10, <2>11, <2>12, <2>13,
         ReplaceStep
  <1>5. QED
    BY <1>3, <1>4 DEF CommitName

(* A deletion gives a child another parent.                                *)
LEMMA ReparentStep ==
    ASSUME AdminInv, NEW p \in Ops, Reparent(p)
    PROVE  AdminInv' /\ EntriesKept
  <1> DEFINE t == op[p].target
  <1> DEFINE c == Least(ToDelete(p) \ op[p].done)
  <1> DEFINE s == Reparented(p, op[p].copy[c])
  <1>1. AdminTypeOK /\ Descent /\ NoOrphans /\ ChildrenKnown /\ OperationInv(p)
        /\ op[p].phase = "reparenting" /\ op[p].phase \in Deleting /\ op[p].phase \in Preparing
    BY DEF AdminInv, Reparent, Deleting, Preparing
  <1>2. op \in [Ops -> Operation] /\ op[p] \in Operation
    BY <1>1 DEF AdminTypeOK
  <1>3. /\ op[p].done \subseteq op[p].read /\ op[p].read = ToDelete(p)
        /\ op[p].newParent = session[t].parent
        /\ \A d \in op[p].read : UpToDate(p, d) /\ op[p].copy[d].parent = t
        /\ \A d \in op[p].done : session[d].parent = op[p].newParent
        /\ \A d \in ToDelete(p) \ op[p].done : session[d].parent = t
    BY <1>1, AtDeletion
  <1>4. c \in ToDelete(p) \ op[p].done /\ c \in Files
    BY <1>1, <1>3, NextChild DEF Reparent
  <1>5. /\ Held(p) = op[p].family /\ t \in op[p].family /\ t \in Files
        /\ t \notin ToDelete(p) /\ ToDelete(p) \subseteq op[p].family
        /\ ToDelete(p) \subseteq onDisk /\ op[p].kind = "delete" /\ faults \in Nat
    BY <1>1, AtWork
  <1>6. t \in onDisk
    BY <1>1 DEF OperationInv, FilesThere
  <1>7. op[p].copy[c].parent = t /\ c \in onDisk /\ UpToDate(p, c) /\ session[c].parent = t
    BY <1>3, <1>4, <1>5
  <1>8. lock' = lock
    BY DEF Reparent
  <1>9. CASE Fault /\ Enter(p, "rollingBack") /\ UNCHANGED <<diskVars, exposed>>
    BY <1>1, <1>8, <1>9, RollingBackBegins DEF Fault
  <1>10. CASE /\ NoFault /\ Replace(c, s)
              /\ exposed' = IF t \in exposed THEN exposed \cup {c} ELSE exposed
              /\ op' = [op EXCEPT ![p].done = @ \cup {c}]
    <2>1. op[p].copy[c] \in Session /\ op[p].newParent \in Files \cup {None}
      BY <1>1, <1>2, <1>4, CopiesAreSessions DEF Operation
    <2>2. s \in Session /\ s.parent = op[p].newParent /\ s.log = op[p].copy[c].log
      BY <2>1 DEF Reparented, Session
    <2>3. session[c].log \ exposed \subseteq s.log
      BY <1>7, <2>2 DEF UpToDate
    <2> DEFINE S0 == op[p].done \cup {c}
    <2> DEFINE r == WithDone(op[p], S0)
    <2>4. op' = [op EXCEPT ![p] = r]
      BY <1>10 DEF WithDone
    <2>5. S0 \in SUBSET Files
      BY <1>2, <1>4 DEF Operation
    <2> HIDE DEF S0, r
    <2>6. /\ r \in Operation /\ r.phase = op[p].phase /\ SameFiles(op[p], r)
          /\ r.newParent = op[p].newParent /\ r.copy = op[p].copy /\ r.read = op[p].read
          /\ r.done = S0
      BY <1>2, <2>5, DoneSet DEF r
    <2>7. op' \in [Ops -> Operation] /\ Others(p) /\ op'[p] = r
      BY <1>2, <2>4, <2>6, OthersKept DEF Others
    <2>8. /\ op'[p].phase = "reparenting" /\ op'[p].target = t
          /\ op'[p].family = op[p].family /\ op'[p].kind = "delete"
          /\ op'[p].newParent = op[p].newParent /\ op'[p].copy = op[p].copy
          /\ op'[p].read = op[p].read /\ op'[p].done = op[p].done \cup {c}
      BY <1>1, <1>5, <2>6, <2>7 DEF SameFiles, S0
    <2> HIDE DEF s
    <2>9. /\ onDisk' = onDisk /\ gone' = gone
          /\ session' = [session EXCEPT ![c] = s] /\ faults' = faults
          /\ exposed \subseteq exposed' /\ (t \in exposed => c \in exposed')
      BY <1>7, <1>10 DEF Replace, NoFault
    <2>10. session'[c] = s /\ \A g \in Files \ {c} : session'[g] = session[g]
      BY <1>1, <1>4, <2>9 DEF AdminTypeOK
    <2> HIDE DEF c
    <2>11. s.parent = session[t].parent /\ s.parent \in onDisk \cup gone \cup {None}
      BY <1>1, <1>3, <1>5, <2>2 DEF Descent
    <2>12. ASSUME NEW S \in (SUBSET Files) \ {{}}, c \in S
           PROVE  s.parent \notin S \/ \E g \in S \ {c} : session[g].parent \notin S
      <3>1. S \cup {t} \in (SUBSET Files) \ {{}}
        BY <1>5
      <3>2. PICK g \in S \cup {t} : session[g].parent \notin S \cup {t}
        BY <1>1, <3>1 DEF Descent
      <3>3. g # c
        BY <1>7, <3>2
      <3>4. CASE g = t
        BY <2>11, <3>2, <3>4
      <3>5. CASE g # t
        BY <3>2, <3>3, <3>5
      <3>6. QED
        BY <3>4, <3>5
    <2>13. faults' <= 1 => c \in exposed' \/ s.parent \notin gone
      BY <1>1, <1>6, <2>9, <2>11 DEF NoOrphans
    <2>14. ASSUME NEW q \in Ops, op'[q].phase \in Preparing, s.parent = op'[q].target
           PROVE  c \in op'[q].family \/ c \in exposed'
      <3>1. CASE q = p
        BY <1>4, <1>5, <2>8, <3>1
      <3>2. CASE q # p
        <4>1. op'[q] = op[q]
          BY <2>7, <3>2 DEF Others
        <4>2. CASE t \in exposed
          BY <2>9, <4>2
        <4>3. CASE t \notin exposed
          <5>1. t \in op[q].family
            BY <1>1, <1>6, <2>11, <2>14, <4>1, <4>3 DEF ChildrenKnown
          <5>2. OperationInv(q) /\ op[q].phase \in Naming \cup Deleting
            BY <2>14, <4>1 DEF AdminInv, Deleting
          <5>3. Held(q) = op[q].family
            BY <1>1, <5>2, AtWork
          <5>4. QED
            BY <1>5, <3>2, <5>1, <5>3, LockedByOne
        <4>4. QED
          BY <4>2, <4>3
      <3>3. QED
        BY <3>1, <3>2
    <2>15. OperationInv(p)'
      <3>1. Held(p)' = Held(p) /\ ToDelete(p)' = ToDelete(p)
        BY <1>8, <2>8 DEF Held, ToDelete
      <3>2. LocksFirst(p)'
        BY <1>5, <2>8, <3>1 DEF LocksFirst, Unlocked, Naming, Deleting, Preparing
      <3>3. FilesThere(p)'
        BY <1>5, <1>6, <2>8, <2>9, <3>1 DEF FilesThere, Naming, Deleting, Preparing
      <3>4. session'[t] = session[t]
        BY <1>4, <1>5, <2>10
      <3>5. ASSUME NEW d \in op[p].read
            PROVE  session'[d].log \ exposed' \subseteq op[p].copy[d].log
        <4>1. d \in Files
          BY <1>2 DEF Operation
        <4>2. session[d].log \ exposed \subseteq op[p].copy[d].log
          BY <1>3 DEF UpToDate
        <4>3. CASE d = c
          BY <2>2, <2>10, <4>3
        <4>4. CASE d # c
          BY <2>9, <2>10, <4>1, <4>2, <4>4
        <4>5. QED
          BY <4>3, <4>4
      <3>6. \A d \in op[p].done \cup {c} : session'[d].parent = op[p].newParent
        <4>1. op[p].done \subseteq Files
          BY <1>2 DEF Operation
        <4>2. QED
          BY <1>3, <1>4, <2>2, <2>10, <4>1
      <3>7. \A d \in ToDelete(p) \ (op[p].done \cup {c}) : session'[d].parent = t
        <4>1. op[p].read \subseteq Files
          BY <1>2 DEF Operation
        <4>2. QED
          BY <1>3, <2>10, <4>1
      <3>8. Progress(p)'
        <4>1. op[p].done \cup {c} \subseteq op[p].read
          BY <1>3, <1>4
        <4>2. QED
          BY <1>3, <2>8, <3>1, <3>4, <3>5, <3>6, <3>7, <4>1
             DEF Progress, Deleting, Preparing, UpToDate
      <3>9. Undone(p)'
        BY <2>8 DEF Undone
      <3>10. QED
        BY <3>2, <3>3, <3>8, <3>9 DEF OperationInv
    <2>16. op'[p].phase \in Preparing =>
              /\ op[p].phase \in Preparing
              /\ op'[p].target = op[p].target /\ op'[p].family = op[p].family
      BY <1>1, <2>8
    <2>17. c \in Held(p) \cap onDisk
      BY <1>4, <1>5
    <2>18. Replace(c, s)
      BY <1>10
    <2>19. QED
      BY <1>8, <2>2, <2>3, <2>7, <2>9, <2>11, <2>12, <2>13, <2>14, <2>15, <2>16, <2>17, <2>18,
         ReplaceStep
  <1>11. QED
    BY <1>7, <1>9, <1>10 DEF Reparent

(* The session that is deleted goes.                                       *)
LEMMA TombstoneStep ==
    ASSUME AdminInv, NEW p \in Ops, Tombstone(p)
    PROVE  AdminInv' /\ EntriesKept
  <1> DEFINE t == op[p].target
  <1>1. AdminTypeOK /\ Descent /\ NoOrphans /\ ChildrenKnown /\ OperationInv(p)
        /\ op[p].phase = "reparenting" /\ op[p].phase \in Deleting /\ op[p].phase \in Preparing
        /\ op[p].done = ToDelete(p)
    BY DEF AdminInv, Tombstone, Deleting, Preparing
  <1>2. /\ op[p].read = ToDelete(p) /\ op[p].newParent = session[t].parent
        /\ \A d \in op[p].read : UpToDate(p, d) /\ op[p].copy[d].parent = t
        /\ \A d \in op[p].done : session[d].parent = op[p].newParent
    BY <1>1, AtDeletion
  <1>3. /\ Held(p) = op[p].family /\ t \in op[p].family /\ t \in Files
        /\ t \notin ToDelete(p) /\ ToDelete(p) \subseteq onDisk /\ op[p].kind = "delete"
    BY <1>1, AtWork
  <1>4. t \in onDisk
    BY <1>1 DEF OperationInv, FilesThere
  <1>5. exposed' = exposed /\ lock' = lock
    BY DEF Tombstone
  <1>6. CASE Fault /\ Enter(p, "rollingBack") /\ UNCHANGED diskVars
    BY <1>1, <1>5, <1>6, RollingBackBegins DEF Fault
  <1>7. CASE /\ NoFault /\ onDisk' = onDisk \ {t} /\ gone' = gone \cup {t}
             /\ Enter(p, "unlinking") /\ session' = session
    <2>1. /\ op' \in [Ops -> Operation] /\ Others(p) /\ op'[p].phase = "unlinking"
          /\ SameFiles(op[p], op'[p]) /\ SameWork(op[p], op'[p])
      BY <1>1, <1>7, EnterEffect DEF Phases
    <2>2. faults' = faults
      BY <1>7 DEF NoFault
    <2>3. AdminTypeOK'
      BY <1>1, <1>3, <1>5, <1>7, <2>1, <2>2 DEF AdminTypeOK
    <2>4. Descent'
      BY <1>1, <1>4, <1>7 DEF Descent
    <2>5. ChildrenKnown'
      <3>1. SUFFICES ASSUME NEW q \in Ops, op'[q].phase \in Preparing,
                            NEW g \in onDisk' \ exposed, session[g].parent = op'[q].target
                     PROVE  g \in op'[q].family
        BY <1>5, <1>7 DEF ChildrenKnown
      <3>2. op'[q] = op[q]
        BY <2>1, <3>1 DEF Others, Preparing
      <3>3. g \in onDisk \ exposed
        BY <1>7
      <3>4. QED
        BY <1>1, <3>1, <3>2, <3>3 DEF ChildrenKnown
    <2>6. ASSUME NEW g \in onDisk' \ exposed, session[g].parent = t  PROVE FALSE
      <3>1. g \in onDisk \ exposed /\ g # t
        BY <1>7
      <3>2. g \in op[p].family
        BY <1>1, <2>6, <3>1 DEF ChildrenKnown
      <3>3. session[g].parent = session[t].parent
        BY <1>1, <1>2, <3>1, <3>2 DEF ToDelete
      <3>4. {t} \in (SUBSET Files) \ {{}}
        BY <1>3
      <3>5. session[t].parent # t
        BY <1>1, <3>4 DEF Descent
      <3>6. QED
        BY <2>6, <3>3, <3>5
    <2>7. NoOrphans'
      <3>1. SUFFICES ASSUME faults <= 1, NEW g \in onDisk' \ exposed
                     PROVE  session[g].parent \notin gone \cup {t}
        BY <1>5, <1>7, <2>2 DEF NoOrphans
      <3>2. session[g].parent \notin gone
        BY <1>1, <1>7, <3>1 DEF NoOrphans
      <3>3. QED
        BY <2>6, <3>2
    <2>8. \A q \in Ops \ {p} : OperationInv(q)'
      <3>1. \A g \in Files \ Held(p) :
                /\ g \in onDisk' <=> g \in onDisk
                /\ g \in gone' <=> g \in gone
                /\ session'[g] = session[g]
        BY <1>3, <1>7
      <3>2. exposed \subseteq exposed'
        BY <1>5
      <3>3. QED
        BY <1>5, <2>1, <2>2, <3>1, <3>2, OthersUndisturbed
    <2>9. OperationInv(p)'
      <3>1. Held(p)' = Held(p) /\ ToDelete(p)' = ToDelete(p)
        BY <1>5, <2>1 DEF Held, ToDelete, SameFiles
      <3>2. LocksFirst(p)'
        BY <1>3, <2>1, <3>1 DEF LocksFirst, Unlocked, Naming, Deleting, Preparing, SameFiles
      <3>3. FilesThere(p)'
        BY <1>3, <1>7, <2>1, <3>1 DEF FilesThere, Naming, Deleting, Preparing, SameFiles
      <3>4. Progress(p)'
        BY <1>1, <1>2, <1>5, <1>7, <2>1, <3>1
           DEF Progress, Deleting, Preparing, UpToDate, SameFiles, SameWork
      <3>5. Undone(p)'
        BY <2>1 DEF Undone
      <3>6. QED
        BY <3>2, <3>3, <3>4, <3>5 DEF OperationInv
    <2>10. EntriesKept
      BY <1>7 DEF EntriesKept
    <2>11. QED
      BY <2>3, <2>4, <2>5, <2>7, <2>8, <2>9, <2>10 DEF AdminInv
  <1>8. QED
    BY <1>4, <1>6, <1>7 DEF Tombstone

(* The session that was to be deleted is put back.                         *)
LEMMA RestoreStep ==
    ASSUME AdminInv, NEW p \in Ops, Restore(p)
    PROVE  AdminInv' /\ EntriesKept
  <1> DEFINE t == op[p].target
  <1>1. AdminTypeOK /\ Descent /\ NoOrphans /\ ChildrenKnown /\ OperationInv(p)
        /\ op[p].phase = "restoring" /\ op[p].phase \in Deleting
    BY DEF AdminInv, Restore, Deleting, Preparing
  <1>2. /\ op[p].done \subseteq op[p].read /\ op[p].read = ToDelete(p)
        /\ op[p].newParent = session[t].parent
        /\ \A d \in op[p].read : UpToDate(p, d) /\ op[p].copy[d].parent = t
        /\ \A d \in op[p].done : session[d].parent = op[p].newParent
        /\ \A d \in ToDelete(p) \ op[p].done : session[d].parent = t
    BY <1>1, AtDeletion
  <1>3. /\ Held(p) = op[p].family /\ t \in op[p].family /\ t \in Files
        /\ t \notin ToDelete(p) /\ ToDelete(p) \subseteq onDisk /\ op[p].kind = "delete"
        /\ faults \in Nat
    BY <1>1, AtWork
  <1>4. t \in gone /\ faults > 0
    BY <1>1 DEF OperationInv, FilesThere
  <1>5. lock' = lock /\ Enter(p, "rollingBack")
    BY DEF Restore
  <1>6. CASE Fault /\ UNCHANGED <<diskVars, exposed>>
    BY <1>1, <1>5, <1>6, RollingBackBegins DEF Fault
  <1>7. CASE /\ NoFault /\ onDisk' = onDisk \cup {t} /\ gone' = gone \ {t}
             /\ exposed' = IF ParentLocked(t) THEN exposed \cup {t} ELSE exposed
             /\ session' = session
    <2>1. /\ op' \in [Ops -> Operation] /\ Others(p) /\ op'[p].phase = "rollingBack"
          /\ SameFiles(op[p], op'[p]) /\ SameWork(op[p], op'[p])
      BY <1>1, <1>5, EnterEffect DEF Phases
    <2>2. faults' = faults /\ exposed \subseteq exposed'
      BY <1>7 DEF NoFault
    <2>3. AdminTypeOK'
      BY <1>1, <1>3, <1>5, <1>7, <2>1, <2>2 DEF AdminTypeOK
    <2>4. Descent'
      BY <1>1, <1>4, <1>7 DEF Descent
    <2>5. ChildrenKnown'
      <3>1. SUFFICES ASSUME NEW q \in Ops, op'[q].phase \in Preparing,
                            NEW g \in onDisk' \ exposed', session[g].parent = op'[q].target
                     PROVE  g \in op'[q].family
        BY <1>7 DEF ChildrenKnown
      <3>2. q # p /\ op'[q] = op[q]
        BY <2>1, <3>1 DEF Others, Preparing
      <3>3. CASE g = t
        <4>1. OperationInv(q) /\ op[q].phase \in Deleting
          BY <3>1, <3>2 DEF AdminInv, Deleting
        <4>2. op[q].target \in Held(q)
          BY <1>1, <4>1, AtWork
        <4>3. lock[op[q].target] # None /\ op[q].target \in Files
          BY <4>2, AdministrationAssumption DEF Held
        <4>4. ParentLocked(t)
          BY <3>1, <3>2, <3>3, <4>3 DEF ParentLocked
        <4>5. QED
          BY <1>7, <3>1, <3>3, <4>4
      <3>4. CASE g # t
        <4>1. g \in onDisk \ exposed
          BY <1>7, <2>2, <3>4
        <4>2. QED
          BY <1>1, <3>1, <3>2, <4>1 DEF ChildrenKnown
      <3>5. QED
        BY <3>3, <3>4
    <2>6. NoOrphans'
      <3>1. SUFFICES ASSUME faults <= 1, NEW g \in onDisk' \ exposed', session[g].parent \in gone
                     PROVE  FALSE
        BY <1>7, <2>2 DEF NoOrphans
      <3>2. CASE g = t
        <4>1. ParentLocked(t)
          BY <3>1, <3>2 DEF ParentLocked
        <4>2. QED
          BY <1>7, <3>2, <4>1
      <3>3. CASE g # t
        <4>1. g \in onDisk \ exposed
          BY <1>7, <2>2, <3>3
        <4>2. QED
          BY <1>1, <3>1, <4>1 DEF NoOrphans
      <3>4. QED
        BY <3>2, <3>3
    <2>7. \A q \in Ops \ {p} : OperationInv(q)'
      <3>1. \A g \in Files \ Held(p) :
                /\ g \in onDisk' <=> g \in onDisk
                /\ g \in gone' <=> g \in gone
                /\ session'[g] = session[g]
        BY <1>3, <1>7
      <3>2. QED
        BY <1>5, <2>1, <2>2, <3>1, OthersUndisturbed
    <2>8. OperationInv(p)'
      <3>1. Held(p)' = Held(p) /\ ToDelete(p)' = ToDelete(p)
        BY <1>5, <2>1 DEF Held, ToDelete, SameFiles
      <3>2. LocksFirst(p)'
        BY <1>3, <2>1, <3>1 DEF LocksFirst, Unlocked, Naming, Deleting, Preparing, SameFiles
      <3>3. FilesThere(p)'
        BY <1>3, <1>4, <1>7, <2>1, <2>2, <3>1
           DEF FilesThere, Naming, Deleting, Preparing, SameFiles
      <3>4. \A d \in op[p].read : session[d].log \ exposed' \subseteq op[p].copy[d].log
        BY <1>2, <2>2 DEF UpToDate
      <3>5. Progress(p)'
        BY <1>2, <1>7, <2>1, <3>1, <3>4
           DEF Progress, Deleting, Preparing, UpToDate, SameFiles, SameWork
      <3>6. Undone(p)'
        BY <2>1 DEF Undone
      <3>7. QED
        BY <3>2, <3>3, <3>5, <3>6 DEF OperationInv
    <2>9. EntriesKept
      BY <1>7 DEF EntriesKept
    <2>10. QED
      BY <2>3, <2>4, <2>5, <2>6, <2>7, <2>8, <2>9 DEF AdminInv
  <1>8. QED
    BY <1>6, <1>7 DEF Restore

(* A child that got another parent gets its own back.                      *)
LEMMA RollBackStep ==
    ASSUME AdminInv, NEW p \in Ops, RollBack(p)
    PROVE  AdminInv' /\ EntriesKept
  <1> DEFINE t == op[p].target
  <1> DEFINE c == Greatest(op[p].done)
  <1> DEFINE s == op[p].copy[c]
  <1>1. AdminTypeOK /\ Descent /\ NoOrphans /\ ChildrenKnown /\ OperationInv(p)
        /\ op[p].phase = "rollingBack" /\ op[p].phase \in Deleting
    BY DEF AdminInv, RollBack, Deleting, Preparing
  <1>2. op \in [Ops -> Operation] /\ op[p] \in Operation
    BY <1>1 DEF AdminTypeOK
  <1>3. /\ op[p].done \subseteq op[p].read /\ op[p].read = ToDelete(p)
        /\ op[p].newParent = session[t].parent
        /\ \A d \in op[p].read : UpToDate(p, d) /\ op[p].copy[d].parent = t
        /\ \A d \in op[p].done : session[d].parent = op[p].newParent
        /\ faults <= 1 => \A d \in ToDelete(p) \ op[p].done : session[d].parent = t
    BY <1>1, AtDeletion
  <1>4. /\ Held(p) = op[p].family /\ t \in op[p].family /\ t \in Files
        /\ t \notin ToDelete(p) /\ ToDelete(p) \subseteq op[p].family
        /\ ToDelete(p) \subseteq onDisk /\ op[p].kind = "delete" /\ faults \in Nat
        /\ t \in onDisk \cup gone
    BY <1>1, AtWork
  <1>5. faults > 0 /\ (t \in onDisk \/ (faults > 1 /\ t \in gone))
    BY <1>1 DEF OperationInv, FilesThere
  <1>6. exposed' = exposed /\ lock' = lock
    BY DEF RollBack
  <1>7. CASE op[p].done = {}
    <2>1. Finish(p, "writeFailed") /\ UNCHANGED diskVars /\ faults' = faults
          /\ "writeFailed" \in Results
      BY <1>7 DEF RollBack, ToRestore, NoFault, Results
    <2>2. faults' <= 1 =>
             /\ op[p].target \in op[p].family /\ op[p].target \in onDisk
             /\ \A d \in ToDelete(p) : d \in onDisk /\ session[d].parent = op[p].target
      BY <1>3, <1>4, <1>5, <1>7, <2>1
    <2>3. QED
      BY <1>4, <1>6, <2>1, <2>2, FinishStep
  <1>8. CASE op[p].done # {}
    <2>1. op[p].done \subseteq Files /\ op[p].done \subseteq Nat /\ IsFiniteSet(op[p].done)
      <3>1. op[p].done \in SUBSET Files
        BY <1>2 DEF Operation
      <3>2. QED
        BY <3>1, AdministrationAssumption, FS_Subset
    <2>2. c \in op[p].done /\ c \in Files
      BY <1>8, <2>1, GreatestOf
    <2>3. c \in ToDelete(p) /\ c \in onDisk /\ c \in Held(p)
      BY <1>3, <1>4, <2>2
    <2> DEFINE S0 == op[p].done \ {c}
    <2> DEFINE r == WithDone(op[p], S0)
    <2>4. op' = [op EXCEPT ![p] = r]
      BY <1>8 DEF RollBack, ToRestore, WithDone
    <2>5. S0 \in SUBSET Files
      BY <2>1
    <2>6. \/ NoFault /\ Replace(c, s)
          \/ Fault /\ UNCHANGED diskVars
      BY <1>8, <2>3 DEF RollBack, ToRestore
    <2> HIDE DEF c, S0, r
    <2>7. /\ r \in Operation /\ r.phase = op[p].phase /\ SameFiles(op[p], r)
          /\ r.newParent = op[p].newParent /\ r.copy = op[p].copy /\ r.read = op[p].read
          /\ r.done = S0
      BY <1>2, <2>5, DoneSet DEF r
    <2>8. op' \in [Ops -> Operation] /\ Others(p) /\ op'[p] = r
      BY <1>2, <2>4, <2>7, OthersKept DEF Others
    <2>9. /\ op'[p].phase = "rollingBack" /\ op'[p].target = t
          /\ op'[p].family = op[p].family /\ op'[p].kind = "delete"
          /\ op'[p].newParent = op[p].newParent /\ op'[p].copy = op[p].copy
          /\ op'[p].read = op[p].read /\ op'[p].done = op[p].done \ {c}
      BY <1>1, <1>4, <2>7, <2>8 DEF SameFiles, S0
    <2>10. op'[p].phase \notin Preparing
      BY <2>9 DEF Preparing
    <2>11. Held(p)' = Held(p) /\ ToDelete(p)' = ToDelete(p)
      BY <1>6, <2>9 DEF Held, ToDelete
    <2>12. LocksFirst(p)' /\ Undone(p)'
      BY <1>4, <2>9, <2>11 DEF LocksFirst, Undone, Unlocked, Naming, Deleting, Preparing
    <2>13. CASE Fault /\ UNCHANGED diskVars
      <3>1. faults' = faults + 1 /\ onDisk' = onDisk /\ gone' = gone /\ session' = session
        BY <2>13 DEF Fault, diskVars
      <3>2. faults' > 1 /\ faults' > 0 /\ ~ (faults' <= 1)
        BY <1>4, <1>5, <3>1
      <3>3. FilesThere(p)'
        BY <1>4, <2>9, <2>11, <3>1, <3>2 DEF FilesThere, Naming, Deleting, Preparing
      <3>4. Progress(p)'
        BY <1>3, <1>6, <2>9, <2>11, <3>1, <3>2 DEF Progress, Deleting, Preparing, UpToDate
      <3>5. OperationInv(p)'
        BY <2>12, <3>3, <3>4 DEF OperationInv
      <3>6. QED
        BY <1>6, <2>8, <2>10, <2>13, <3>1, <3>5, PlainStep
    <2>14. CASE NoFault /\ Replace(c, s)
      <3>1. s \in Session /\ s.parent = t /\ session[c].log \ exposed \subseteq s.log
        BY <1>1, <1>3, <2>2, CopiesAreSessions DEF UpToDate
      <3> HIDE DEF s
      <3>2. /\ onDisk' = onDisk /\ gone' = gone /\ faults' = faults
            /\ session' = [session EXCEPT ![c] = s]
        BY <2>3, <2>14 DEF Replace, NoFault
      <3>3. session'[c] = s /\ \A g \in Files \ {c} : session'[g] = session[g]
        BY <1>1, <2>2, <3>2 DEF AdminTypeOK
      <3>4. t # c /\ session'[t] = session[t]
        BY <1>4, <2>3, <3>3
      <3>5. ASSUME NEW S \in (SUBSET Files) \ {{}}, c \in S
            PROVE  s.parent \notin S \/ \E g \in S \ {c} : session[g].parent \notin S
        <4>1. PICK g \in S : session[g].parent \notin S
          BY <1>1 DEF Descent
        <4>2. CASE g # c
          BY <4>1, <4>2
        <4>3. CASE g = c
          <5>1. session[t].parent \notin S
            BY <1>3, <2>2, <4>1, <4>3
          <5>2. QED
            BY <3>1, <3>4, <5>1
        <4>4. QED
          BY <4>2, <4>3
      <3>6. faults' <= 1 => c \in exposed' \/ s.parent \notin gone
        <4>1. onDisk \cap gone = {}
          BY <1>1 DEF Descent
        <4>2. QED
          BY <1>4, <1>5, <3>1, <3>2, <4>1
      <3>7. ASSUME NEW q \in Ops, op'[q].phase \in Preparing, s.parent = op'[q].target
            PROVE  FALSE
        <4>1. q # p /\ op'[q] = op[q]
          BY <2>8, <2>10, <3>7 DEF Others
        <4>2. OperationInv(q) /\ op[q].phase \in Deleting
          BY <3>7, <4>1 DEF AdminInv, Deleting
        <4>3. t \in Held(q) /\ t \in Held(p)
          BY <1>1, <1>4, <3>1, <3>7, <4>1, <4>2, AtWork
        <4>4. QED
          BY <4>1, <4>3, LockedByOne
      <3>8. FilesThere(p)'
        BY <1>4, <1>5, <2>9, <2>11, <3>2 DEF FilesThere, Naming, Deleting, Preparing
      <3>9. ASSUME NEW d \in op[p].read
            PROVE  session'[d].log \ exposed' \subseteq op[p].copy[d].log
        <4>1. d \in Files
          BY <1>2 DEF Operation
        <4>2. session[d].log \ exposed \subseteq op[p].copy[d].log
          BY <1>3 DEF UpToDate
        <4>3. CASE d = c
          BY <3>3, <4>3 DEF s
        <4>4. CASE d # c
          BY <1>6, <3>3, <4>1, <4>2, <4>4
        <4>5. QED
          BY <4>3, <4>4
      <3>10. \A d \in op[p].done \ {c} : session'[d].parent = op[p].newParent
        BY <1>3, <2>1, <3>3
      <3>11. faults' <= 1 =>
                \A d \in ToDelete(p) \ (op[p].done \ {c}) : session'[d].parent = t
        <4>1. ToDelete(p) \subseteq Files
          BY <1>2, <1>3 DEF Operation
        <4>2. QED
          BY <1>3, <3>1, <3>2, <3>3, <4>1
      <3>12. Progress(p)'
        BY <1>3, <2>9, <2>11, <3>4, <3>9, <3>10, <3>11
           DEF Progress, Deleting, Preparing, UpToDate
      <3>13. OperationInv(p)'
        BY <2>12, <3>8, <3>12 DEF OperationInv
      <3>14. s.parent \in onDisk \cup gone \cup {None} /\ c \in Held(p) \cap onDisk
             /\ exposed \subseteq exposed'
        BY <1>4, <1>6, <2>3, <3>1
      <3>15. QED
        BY <1>6, <2>8, <2>10, <2>14, <3>1, <3>2, <3>5, <3>6, <3>7, <3>13, <3>14, ReplaceStep
    <2>15. QED
      BY <2>6, <2>13, <2>14
  <1>9. QED
    BY <1>7, <1>8

-----------------------------------------------------------------------------
(* Runtimes.                                                               *)

LEMMA AppendEntryStep ==
    ASSUME AdminInv, NEW f \in Files, NEW e \in Entries, AppendEntry(f, e)
    PROVE  AdminInv' /\ EntriesKept
  <1>1. AdminTypeOK /\ Descent /\ NoOrphans /\ ChildrenKnown /\ f \in onDisk
    BY DEF AdminInv, AppendEntry
  <1>2. /\ UNCHANGED <<onDisk, lock, op, gone, faults>>
        /\ exposed' = IF lock[f] = None THEN exposed ELSE exposed \cup {e}
        /\ session' = [session EXCEPT ![f].log = @ \cup {e}]
    BY DEF AppendEntry
  <1>3. exposed \subseteq exposed' /\ faults \in Nat
    BY <1>1, <1>2 DEF AdminTypeOK
  <1> DEFINE s == [session[f] EXCEPT !.log = @ \cup {e}]
  <1>4. s \in Session /\ s.parent = session[f].parent /\ s.log = session[f].log \cup {e}
    <2>1. session[f] \in Session
      BY <1>1 DEF AdminTypeOK
    <2>2. session[f] = [parent |-> session[f].parent, log |-> session[f].log]
          /\ session[f].parent \in Files \cup {None}
          /\ session[f].log \in SUBSET (Entries \cup Ops)
      BY <2>1 DEF Session
    <2>3. s = [parent |-> session[f].parent, log |-> session[f].log \cup {e}]
      BY <2>2
    <2>4. session[f].log \cup {e} \in SUBSET (Entries \cup Ops)
      BY <2>2
    <2>5. QED
      BY <2>2, <2>3, <2>4 DEF Session
  <1>5. session' = [session EXCEPT ![f] = s]
    BY <1>2
  <1> HIDE DEF s
  <1>6. session'[f] = s /\ \A g \in Files \ {f} : session'[g] = session[g]
    BY <1>1, <1>5 DEF AdminTypeOK
  <1>7. \A g \in Files : session'[g].parent = session[g].parent
    BY <1>4, <1>6
  <1>8. AdminTypeOK'
    BY <1>1, <1>2, <1>4, <1>5 DEF AdminTypeOK
  <1>9. Descent'
    <2>1. \A g \in Files : session'[g].parent \in onDisk \cup gone \cup {None}
      BY <1>1, <1>7 DEF Descent
    <2>2. ASSUME NEW S \in (SUBSET Files) \ {{}}  PROVE \E g \in S : session'[g].parent \notin S
      <3>1. PICK g \in S : session[g].parent \notin S
        BY <1>1 DEF Descent
      <3>2. QED
        BY <1>7, <3>1
    <2>3. QED
      BY <1>1, <1>2, <2>1, <2>2 DEF Descent
  <1>10. onDisk \subseteq Files
    BY <1>1 DEF AdminTypeOK
  <1>11. ChildrenKnown'
    BY <1>1, <1>2, <1>3, <1>7, <1>10 DEF ChildrenKnown
  <1>12. NoOrphans'
    BY <1>1, <1>2, <1>3, <1>7, <1>10 DEF NoOrphans
  <1>13. ASSUME NEW q \in Ops  PROVE OperationInv(q)'
    <2>1. OperationInv(q) /\ op'[q] = op[q] /\ Held(q)' = Held(q)
      BY <1>2 DEF AdminInv, Held
    <2>2. ASSUME NEW g \in Held(q)  PROVE session'[g].log \ exposed' \subseteq session[g].log
      <3>1. g \in Files /\ lock[g] # None
        BY AdministrationAssumption DEF Held
      <3>2. CASE g = f
        BY <1>2, <1>4, <1>6, <3>1, <3>2
      <3>3. CASE g # f
        BY <1>6, <3>1, <3>3
      <3>4. QED
        BY <3>2, <3>3
    <2>3. \A g \in Held(q) \cap (onDisk \cup gone) :
              /\ g \in onDisk' <=> g \in onDisk
              /\ g \in gone' <=> g \in gone
              /\ session'[g].parent = session[g].parent
              /\ session'[g].log \ exposed' \subseteq session[g].log
      BY <1>2, <1>7, <2>2 DEF Held
    <2>4. faults' \in Nat /\ faults <= faults'
      BY <1>2, <1>3
    <2>5. QED
      BY <1>1, <1>3, <2>1, <2>3, <2>4, Undisturbed
  <1>14. EntriesKept
    BY <1>4, <1>6, <1>10 DEF EntriesKept
  <1>15. QED
    BY <1>8, <1>9, <1>11, <1>12, <1>13, <1>14 DEF AdminInv

LEMMA ForkStep ==
    ASSUME AdminInv, NEW f \in Files, NEW c \in Files, Fork(f, c)
    PROVE  AdminInv' /\ EntriesKept
  <1>1. AdminTypeOK /\ Descent /\ NoOrphans /\ ChildrenKnown
        /\ f \in onDisk /\ c \notin onDisk \cup gone
    BY DEF AdminInv, Fork
  <1> DEFINE s == [parent |-> f, log |-> {}]
  <1>2. /\ UNCHANGED <<lock, op, gone, faults>>
        /\ exposed' = IF lock[f] = None THEN exposed ELSE exposed \cup {c}
        /\ session' = [session EXCEPT ![c] = s] /\ onDisk' = onDisk \cup {c}
    BY DEF Fork
  <1>3. s \in Session /\ s.parent = f
    BY DEF Session
  <1> HIDE DEF s
  <1>4. exposed \subseteq exposed' /\ faults \in Nat
    BY <1>1, <1>2 DEF AdminTypeOK
  <1>5. session'[c] = s /\ \A g \in Files \ {c} : session'[g] = session[g]
    BY <1>1, <1>2 DEF AdminTypeOK
  <1>6. onDisk \subseteq Files /\ f # c
    BY <1>1 DEF AdminTypeOK
  <1>7. AdminTypeOK'
    BY <1>1, <1>2, <1>3, <1>6 DEF AdminTypeOK
  <1>8. Descent'
    <2>1. onDisk' \cap gone = {}
      BY <1>1, <1>2 DEF Descent
    <2>2. \A g \in Files : session'[g].parent \in onDisk' \cup gone \cup {None}
      BY <1>1, <1>2, <1>3, <1>5 DEF Descent
    <2>3. ASSUME NEW S \in (SUBSET Files) \ {{}}  PROVE \E g \in S : session'[g].parent \notin S
      <3>1. CASE S = {c}
        BY <1>3, <1>5, <1>6, <3>1
      <3>2. CASE S # {c}
        <4>1. S \ {c} \in (SUBSET Files) \ {{}}
          BY <3>2
        <4>2. PICK g \in S \ {c} : session[g].parent \notin S \ {c}
          BY <1>1, <4>1 DEF Descent
        <4>3. session[g].parent # c
          BY <1>1, <4>2, AdministrationAssumption DEF Descent
        <4>4. session'[g] = session[g]
          BY <1>5, <4>2
        <4>5. QED
          BY <4>2, <4>3, <4>4
      <3>3. QED
        BY <3>1, <3>2
    <2>4. QED
      BY <1>2, <2>1, <2>2, <2>3 DEF Descent
  <1>9. ChildrenKnown'
    <2>1. SUFFICES ASSUME NEW q \in Ops, op[q].phase \in Preparing,
                          NEW g \in onDisk' \ exposed', session'[g].parent = op[q].target
                   PROVE  g \in op[q].family
      BY <1>2 DEF ChildrenKnown
    <2>2. CASE g = c
      <3>1. OperationInv(q) /\ op[q].phase \in Deleting
        BY <2>1 DEF AdminInv, Deleting
      <3>2. op[q].target \in Held(q)
        BY <1>1, <3>1, AtWork
      <3>3. lock[f] # None
        BY <1>3, <1>5, <2>1, <2>2, <3>2, AdministrationAssumption DEF Held
      <3>4. QED
        BY <1>2, <2>1, <2>2, <3>3
    <2>3. CASE g # c
      <3>1. g \in onDisk \ exposed /\ session'[g] = session[g]
        BY <1>2, <1>4, <1>5, <1>6, <2>1, <2>3
      <3>2. QED
        BY <1>1, <2>1, <3>1 DEF ChildrenKnown
    <2>4. QED
      BY <2>2, <2>3
  <1>10. NoOrphans'
    <2>1. SUFFICES ASSUME faults <= 1, NEW g \in onDisk' \ exposed'
                   PROVE  session'[g].parent \notin gone
      BY <1>2 DEF NoOrphans
    <2>2. CASE g = c
      BY <1>1, <1>3, <1>5, <2>2 DEF Descent
    <2>3. CASE g # c
      <3>1. g \in onDisk \ exposed /\ session'[g] = session[g]
        BY <1>2, <1>4, <1>5, <1>6, <2>1, <2>3
      <3>2. QED
        BY <1>1, <2>1, <3>1 DEF NoOrphans
    <2>4. QED
      BY <2>2, <2>3
  <1>11. ASSUME NEW q \in Ops  PROVE OperationInv(q)'
    <2>1. OperationInv(q) /\ op'[q] = op[q] /\ Held(q)' = Held(q)
      BY <1>2 DEF AdminInv, Held
    <2>2. \A g \in Held(q) \cap (onDisk \cup gone) :
              /\ g \in onDisk' <=> g \in onDisk
              /\ g \in gone' <=> g \in gone
              /\ session'[g].parent = session[g].parent
              /\ session'[g].log \ exposed' \subseteq session[g].log
      BY <1>1, <1>2, <1>5 DEF Held
    <2>3. faults' \in Nat /\ faults <= faults'
      BY <1>2, <1>4
    <2>4. QED
      BY <1>1, <1>4, <2>1, <2>2, <2>3, Undisturbed
  <1>12. EntriesKept
    BY <1>1, <1>5, <1>6 DEF EntriesKept
  <1>13. QED
    BY <1>7, <1>8, <1>9, <1>10, <1>11, <1>12 DEF AdminInv

-----------------------------------------------------------------------------
(* Every step.                                                             *)

LEMMA AdminInvInit == Init => AdminInv
  <1> SUFFICES ASSUME Init  PROVE AdminInv
    OBVIOUS
  <1>1. ASSUME NEW f \in Files
        PROVE  /\ session[f].parent = IF f \in OnDisk THEN ParentOf[f] ELSE None
               /\ session[f] \in Session
    <2>1. CASE f \in OnDisk
      <3>1. session[f] = [parent |-> ParentOf[f], log |-> {}]
        BY <2>1 DEF Init
      <3>2. ParentOf[f] \in Files \cup {None}
        BY <2>1, AdministrationAssumption
      <3>3. QED
        BY <2>1, <3>1, <3>2 DEF Session
    <2>2. CASE f \notin OnDisk
      <3>1. session[f] = [parent |-> None, log |-> {}]
        BY <2>2 DEF Init, NoSession
      <3>2. QED
        BY <2>2, <3>1 DEF Session
    <2>3. QED
      BY <2>1, <2>2
  <1>2. \A f \in Files : session[f].parent = IF f \in OnDisk THEN ParentOf[f] ELSE None
    BY <1>1
  <1>3. \A f \in Files : session[f] \in Session
    BY <1>1
  <1>4. \A p \in Ops : op[p] = NoOperation
    BY DEF Init
  <1>5. AdminTypeOK
    <2>1. session \in [Files -> Session]
      BY <1>3 DEF Init
    <2>2. op \in [Ops -> Operation]
      BY NoOperationIsOne DEF Init
    <2>3. lock \in [Files -> Ops \cup {None}]
      BY DEF Init
    <2>4. QED
      BY <2>1, <2>2, <2>3, AdministrationAssumption DEF Init, AdminTypeOK
  <1>6. Descent
    <2>1. \A f \in Files : session[f].parent \in onDisk \cup gone \cup {None}
      BY <1>2, AdministrationAssumption DEF Init
    <2>2. ASSUME NEW S \in (SUBSET Files) \ {{}}  PROVE \E f \in S : session[f].parent \notin S
      <3>1. CASE S \subseteq OnDisk
        <4>1. PICK f \in S : ParentOf[f] \notin S
          BY <3>1, AdministrationAssumption
        <4>2. QED
          BY <1>2, <3>1, <4>1
      <3>2. CASE ~ (S \subseteq OnDisk)
        <4>1. PICK f \in S : f \notin OnDisk
          BY <3>2
        <4>2. session[f].parent = None /\ None \notin S
          BY <1>2, <4>1, AdministrationAssumption
        <4>3. QED
          BY <4>1, <4>2
      <3>3. QED
        BY <3>1, <3>2
    <2>3. QED
      BY <2>1, <2>2 DEF Init, Descent
  <1>7. ChildrenKnown
    BY <1>4, NoOperationIsOne DEF ChildrenKnown, Preparing
  <1>8. NoOrphans
    BY DEF Init, NoOrphans
  <1>9. ASSUME NEW p \in Ops  PROVE OperationInv(p)
    <2>1. op[p].phase = "idle" /\ op[p].read = {} /\ op[p].done = {}
      BY <1>4, NoOperationIsOne
    <2>2. Held(p) = {}
      BY AdministrationAssumption DEF Init, Held
    <2>3. LocksFirst(p)
      BY <2>1, <2>2 DEF LocksFirst, Naming, Deleting, Preparing
    <2>4. FilesThere(p)
      BY <2>1 DEF FilesThere, Naming, Deleting, Preparing
    <2>5. Progress(p)
      BY <2>1 DEF Progress, Deleting, Preparing
    <2>6. Undone(p)
      BY <2>1 DEF Undone
    <2>7. QED
      BY <2>3, <2>4, <2>5, <2>6 DEF OperationInv
  <1>10. QED
    BY <1>5, <1>6, <1>7, <1>8, <1>9 DEF AdminInv

LEMMA AdminInvNext ==
    ASSUME AdminInv, [Next]_vars
    PROVE  AdminInv' /\ (EntriesKept \/ UNCHANGED vars)
  <1>1. CASE UNCHANGED vars
    <2>1. /\ onDisk' = onDisk /\ session' = session /\ gone' = gone /\ exposed' = exposed
          /\ op' = op /\ lock' = lock /\ faults' = faults
      BY <1>1 DEF vars
    <2>2. ASSUME NEW p \in Ops  PROVE OperationInv(p)'
      <3>1. OperationInv(p) /\ op'[p] = op[p] /\ Held(p)' = Held(p) /\ AdminTypeOK
        BY <2>1 DEF AdminInv, Held
      <3>2. faults' \in Nat /\ faults <= faults' /\ exposed \subseteq exposed'
        BY <2>1, <3>1 DEF AdminTypeOK
      <3>3. QED
        BY <2>1, <3>1, <3>2, Undisturbed
    <2>3. AdminTypeOK' /\ Descent' /\ ChildrenKnown' /\ NoOrphans'
      BY <2>1 DEF AdminInv, AdminTypeOK, Descent, ChildrenKnown, NoOrphans
    <2>4. QED
      BY <1>1, <2>2, <2>3 DEF AdminInv
  <1>2. ASSUME NEW p \in Ops, NEW k \in Kinds, NEW f \in Files, Begin(p, k, f)
        PROVE  AdminInv' /\ EntriesKept
    BY <1>2, BeginStep
  <1>3. ASSUME NEW p \in Ops, Step(p)
        PROVE  AdminInv' /\ EntriesKept
    BY <1>3, NameGeneratedStep, LocateStep, AcquireLockStep, LockTimeoutStep,
       LocateLockedStep, CopyFileStep, CommitNameStep, ReadChildStep, ReadDoneStep,
       ReparentStep, TombstoneStep, UnlinkStep, RestoreStep, RollBackStep, ReleaseStep,
       ReportStep DEF Step
  <1>4. ASSUME NEW p \in Ops, Abort(p) \/ Crash(p)
        PROVE  AdminInv' /\ EntriesKept
    BY <1>4, AbortStep, CrashStep
  <1>5. ASSUME NEW f \in Files, NEW e \in Entries, AppendEntry(f, e)
        PROVE  AdminInv' /\ EntriesKept
    BY <1>5, AppendEntryStep
  <1>6. ASSUME NEW f \in Files, NEW c \in Files, Fork(f, c)
        PROVE  AdminInv' /\ EntriesKept
    BY <1>6, ForkStep
  <1>7. QED
    BY <1>1, <1>2, <1>3, <1>4, <1>5, <1>6 DEF Next

(***************************************************************************)
(* The inductive invariant of the administration of session files, with    *)
(* the types: for every number of files, operations, runtimes and faults,  *)
(* and whatever the order of the steps.  pi-sdk-session-administration.ts  *)
(***************************************************************************)
THEOREM AdminInvariant == Spec => []AdminInv
  <1>1. AdminInv /\ [Next]_vars => AdminInv'
    BY AdminInvNext
  <1>2. QED
    BY <1>1, AdminInvInit, PTL DEF Spec

(***************************************************************************)
(* DeletionsClean: no session is left with a parent that was deleted, and  *)
(* a deletion that reports a failed write has left the family as it was,   *)
(* whatever other operations and runtimes do meanwhile.  #commitDelete     *)
(***************************************************************************)
THEOREM DeletionsAreClean == Spec => []DeletionsClean
  <1>1. AdminInv => DeletionsClean
    BY DEF AdminInv, OperationInv, Undone, DeletionsClean, FailedDeletionUndone
  <1>2. QED
    BY <1>1, AdminInvariant, PTL

(***************************************************************************)
(* KeepsEntries: no step writes back a copy of a session file that lacks   *)
(* an entry, unless it was appended while the file was locked.             *)
(* atomicSessionManagerMutation, atomicReplaceBytes                        *)
(***************************************************************************)
THEOREM EntriesAreKept == Spec => KeepsEntries
  <1>1. AdminInv /\ [Next]_vars =>
           [\A f \in onDisk \cap onDisk' : session[f].log \ session'[f].log \subseteq exposed]_vars
    BY AdminInvNext DEF EntriesKept
  <1>2. QED
    BY <1>1, AdminInvariant, PTL DEF Spec, KeepsEntries

(***************************************************************************)
(* NoCircularWait: however many operations lock however large families of  *)
(* files, in any number of processes, some one that waits for a lock waits *)
(* for one that does not wait.  acquireFileLock, in sorted order           *)
(***************************************************************************)
THEOREM NoWaitIsCircular == Spec => []NoCircularWait
  <1>1. ASSUME AdminInv, NEW S \in (SUBSET Ops) \ {{}},
               \A p \in S : Waits(p) /\ lock[NextLock(p)] \in S
        PROVE  FALSE
    <2>1. ASSUME NEW p \in S
          PROVE  /\ NextLock(p) \in op[p].family \ Held(p) /\ NextLock(p) \in Files
                 /\ \A f \in Held(p) : f < NextLock(p)
      <3>1. AdminTypeOK /\ OperationInv(p) /\ p \in Ops
            /\ op[p].phase = "locking" /\ op[p].family # Held(p)
        BY <1>1 DEF AdminInv, Waits
      <3>2. Held(p) \subseteq op[p].family
            /\ \A f \in Held(p), g \in op[p].family \ Held(p) : f < g
        BY <3>1 DEF OperationInv, LocksFirst
      <3>3. QED
        BY <3>1, <3>2, NextLockOf
    <2> DEFINE awaited == {NextLock(p) : p \in S}
    <2>2. awaited \in SUBSET Files /\ awaited # {}
      BY <2>1
    <2>3. awaited \subseteq Nat /\ IsFiniteSet(awaited)
      BY <2>2, AdministrationAssumption, FS_Subset
    <2> DEFINE m == Greatest(awaited)
    <2>4. m \in awaited /\ \A k \in awaited : k <= m
      <3> HIDE DEF awaited
      <3>1. QED
        BY <2>2, <2>3, GreatestOf
    <2>5. PICK p \in S : m = NextLock(p)
      BY <2>4
    <2> HIDE DEF m
    <2>6. lock[m] \in S /\ m \in Files /\ m \in Nat
      BY <1>1, <2>1, <2>5, AdministrationAssumption
    <2>7. PICK q \in S : lock[m] = q
      BY <2>6
    <2>8. m \in Held(q)
      BY <2>6, <2>7 DEF Held
    <2>9. m < NextLock(q) /\ NextLock(q) \in awaited /\ NextLock(q) \in Nat
      BY <2>1, <2>7, <2>8, AdministrationAssumption
    <2>10. NextLock(q) <= m
      BY <2>4, <2>9
    <2>11. QED
      BY <2>6, <2>9, <2>10
  <1>2. AdminInv => NoCircularWait
    BY <1>1 DEF NoCircularWait
  <1>3. QED
    BY <1>2, AdminInvariant, PTL

-----------------------------------------------------------------------------
(* What the Node answers of projects, directories and sessions on a disk.  *)

(* In an order without ties, at most n have fewer than n before them.      *)
Preceding(S, R, x) == {y \in S : <<y, x>> \in R}

LEMMA FirstFew ==
    ASSUME NEW S, IsFiniteSet(S), NEW R, NEW n \in Nat,
           \A x \in S : <<x, x>> \notin R,
           \A x, y \in S : x # y => <<x, y>> \in R \/ <<y, x>> \in R,
           \A x, y, z \in S : <<x, y>> \in R /\ <<y, z>> \in R => <<x, z>> \in R
    PROVE  LET T == {x \in S : Cardinality(Preceding(S, R, x)) < n}
           IN  IsFiniteSet(T) /\ Cardinality(T) <= n
  <1> DEFINE T == {x \in S : Cardinality(Preceding(S, R, x)) < n}
             rank == [x \in T |-> Cardinality(Preceding(S, R, x)) + 1]
  <1>1. \A x \in S : /\ IsFiniteSet(Preceding(S, R, x))
                     /\ Cardinality(Preceding(S, R, x)) \in Nat
    BY FS_Subset, FS_CardinalityType DEF Preceding
  <1>2. ASSUME NEW x \in S, NEW y \in S, <<x, y>> \in R
        PROVE  Cardinality(Preceding(S, R, x)) # Cardinality(Preceding(S, R, y))
    <2>1. Preceding(S, R, x) \subseteq Preceding(S, R, y)
      BY <1>2 DEF Preceding
    <2>2. x \in Preceding(S, R, y) /\ x \notin Preceding(S, R, x)
      BY <1>2 DEF Preceding
    <2>3. QED
      BY <1>1, <2>1, <2>2, FS_Subset
  <1>3. rank \in [T -> 1 .. n]
    BY <1>1
  <1>4. rank \in Injection(T, 1 .. n)
    <2>1. ASSUME NEW x \in T, NEW y \in T, x # y  PROVE rank[x] # rank[y]
      <3>1. Cardinality(Preceding(S, R, x)) # Cardinality(Preceding(S, R, y))
        BY <1>2, <2>1
      <3>2. QED
        BY <1>1, <3>1
    <2>2. QED
      BY <1>3, <2>1 DEF Injection, IsInjective
  <1>5. IsFiniteSet(1 .. n) /\ Cardinality(1 .. n) <= n
    BY FS_Interval
  <1> HIDE DEF T, rank
  <1>6. IsFiniteSet(T) /\ Cardinality(T) <= Cardinality(1 .. n)
    BY <1>4, <1>5, FS_Injection
  <1>7. Cardinality(T) \in Nat /\ Cardinality(1 .. n) \in Nat
    BY <1>5, <1>6, FS_CardinalityType
  <1>8. QED
    BY <1>5, <1>6, <1>7 DEF T

LEMMA MaximumIs ==
    ASSUME NEW S, S \subseteq Nat, NEW t \in S, \A u \in S : u <= t
    PROVE  Maximum(S) = t
  <1>1. Maximum(S) \in S /\ \A u \in S : u <= Maximum(S)
    BY DEF Maximum
  <1>2. Maximum(S) \in Nat /\ t \in Nat /\ Maximum(S) <= t /\ t <= Maximum(S)
    BY <1>1
  <1>3. QED
    BY <1>2

LEMMA LaterOfTwo ==
    ASSUME NEW m \in Nat, NEW n \in Nat
    PROVE  Maximum({m, n}) \in {m, n}
  <1>1. CASE m <= n
    BY <1>1, MaximumIs
  <1>2. CASE n <= m
    BY <1>2, MaximumIs
  <1>. QED BY <1>1, <1>2

-----------------------------------------------------------------------------
(* The known projects.                                                     *)

ListingPhases == {"scanning", "validating", "answered", "failed"}

ListingTypeOK ==
    /\ records \in [Sessions -> Record] /\ there \subseteq Directories
    /\ listing \in [phase : ListingPhases, scanned : SUBSET Sessions,
                    grouped : UNION {[D -> Group] : D \in SUBSET Directories},
                    candidates : SUBSET Directories, validated : SUBSET Directories]

(* The sessions are taken up from the newest; a project's time is therefore*)
(* that of its first, and a project whose directory is still there has all *)
(* that were taken up; one whose directory came meanwhile may have missed  *)
(* some.                                                                   *)
ScannedIn(d) == SessionsIn(d) \cap listing.scanned

NewestFirst ==
    \A i \in listing.scanned, j \in Sessions \ listing.scanned :
        records[j].time <= records[i].time

GroupsRight ==
    /\ \A d \in DOMAIN listing.grouped :
          /\ ScannedIn(d) # {} /\ listing.grouped[d].last \in Times
          /\ listing.grouped[d].count > 0
          /\ d \notin came => listing.grouped[d].last = LastIn(d)
    /\ listing.phase = "scanning" =>
          \A d \in there \ came : ScannedIn(d) # {} =>
              /\ d \in DOMAIN listing.grouped
              /\ listing.grouped[d].count = Cardinality(ScannedIn(d))

ChosenRight ==
    /\ listing.phase = "scanning" => listing.validated = {}
    /\ listing.phase # "scanning" =>
        /\ listing.candidates \subseteq DOMAIN listing.grouped
        /\ Cardinality(listing.candidates) <= MaxProjects
        /\ \A d \in listing.candidates \ came, e \in (there \ came) \ listing.candidates :
              SessionsIn(e) # {} => LastIn(e) <= LastIn(d)
        /\ Cardinality(Sessions) <= ScanLimit =>
              \A d \in (listing.candidates \cap (there \cup listing.validated)) \ came :
                  listing.grouped[d].count = Cardinality(SessionsIn(d))
        /\ listing.phase = "answered" => listing.validated = listing.candidates

ListingInv == ListingTypeOK /\ NewestFirst /\ GroupsRight /\ ChosenRight

LEMMA RecordsAreOf ==
    ASSUME ListingTypeOK, NEW i \in Sessions
    PROVE  /\ records[i].time \in Times /\ records[i].time \in Nat
           /\ Canonical[records[i].cwd] \in Directories
           /\ i \in SessionsIn(Canonical[records[i].cwd])
  BY QueriesAssumption DEF ListingTypeOK, Record, Directories, SessionsIn

(* The time of a project is that of one of its sessions, and of the latest.*)
LEMMA LastInIs ==
    ASSUME ListingTypeOK, NEW d, SessionsIn(d) # {}
    PROVE  /\ \E i \in SessionsIn(d) : records[i].time = LastIn(d)
           /\ \A i \in SessionsIn(d) : records[i].time <= LastIn(d)
           /\ LastIn(d) \in Nat
  <1> DEFINE T == {records[i].time : i \in SessionsIn(d)}
             time == [i \in SessionsIn(d) |-> records[i].time]
  <1>1. SessionsIn(d) \subseteq Sessions /\ IsFiniteSet(SessionsIn(d))
    BY QueriesAssumption, FS_Subset DEF SessionsIn
  <1>2. T \subseteq Nat /\ T # {}
    BY <1>1, RecordsAreOf
  <1>3. time \in Surjection(SessionsIn(d), T)
    BY DEF Surjection
  <1>4. IsFiniteSet(T)
    <2> HIDE DEF T, time
    <2>1. QED
      BY <1>1, <1>3, FS_Surjection
  <1>5. PICK t \in T : \A u \in T : u <= t
    <2> HIDE DEF T
    <2>1. QED
      BY <1>2, <1>4, GreatestNumber
  <1>6. Maximum(T) = t
    <2> HIDE DEF T
    <2>1. QED
      BY <1>2, <1>5, MaximumIs
  <1>7. LastIn(d) = t
    BY <1>6 DEF LastIn
  <1>8. QED
    BY <1>2, <1>5, <1>7

LEMMA LastInOf ==
    ASSUME ListingTypeOK, NEW d, NEW j \in SessionsIn(d),
           \A i \in SessionsIn(d) : records[i].time <= records[j].time
    PROVE  LastIn(d) = records[j].time
  <1>1. j \in Sessions /\ records[j].time \in Nat
    BY RecordsAreOf DEF SessionsIn
  <1>2. PICK i \in SessionsIn(d) : records[i].time = LastIn(d)
    BY LastInIs
  <1>3. records[j].time <= LastIn(d) /\ LastIn(d) \in Nat
    BY LastInIs
  <1>4. QED
    BY <1>1, <1>2, <1>3

LEMMA ListingInitially == QueriesInit => ListingInv
  <1> SUFFICES ASSUME QueriesInit PROVE ListingInv
    OBVIOUS
  <1>1. listing.grouped \in [{} -> Group]
    BY DEF QueriesInit
  <1>2. ListingTypeOK
    BY <1>1 DEF QueriesInit, ListingTypeOK, ListingPhases
  <1>3. NewestFirst /\ GroupsRight /\ ChosenRight
    BY DEF QueriesInit, NewestFirst, GroupsRight, ChosenRight, ScannedIn
  <1>4. QED
    BY <1>2, <1>3 DEF ListingInv

LEMMA SessionsStay ==
    ASSUME UNCHANGED records
    PROVE  \A d : SessionsIn(d)' = SessionsIn(d) /\ LastIn(d)' = LastIn(d)
  <1>1. \A d : SessionsIn(d)' = SessionsIn(d)
    BY DEF SessionsIn
  <1>2. QED
    BY <1>1 DEF LastIn

LEMMA GroupedIs ==
    ASSUME ListingTypeOK
    PROVE  /\ listing.grouped \in [DOMAIN listing.grouped -> Group]
           /\ DOMAIN listing.grouped \subseteq Directories
           /\ \A d \in DOMAIN listing.grouped :
                 listing.grouped[d].last \in Nat /\ listing.grouped[d].count \in Nat
  BY DEF ListingTypeOK, Group

(* Of the sessions of a directory that is there, one more is taken up.     *)
LEMMA ScanKeeps ==
    ASSUME ListingInv, NEW i \in Sessions, Scan(i)
    PROVE  ListingInv'
  <1> DEFINE c == Canonical[records[i].cwd]
             t == records[i].time
             g == listing.grouped
             h == listing'.grouped
             last == IF c \in DOMAIN g THEN Maximum({g[c].last, t}) ELSE t
  <1> USE DEF ListingInv
  <1>1. /\ listing.phase = "scanning" /\ i \in Sessions \ listing.scanned
        /\ \A j \in Sessions \ listing.scanned : records[j].time <= t
    BY DEF Scan, Scanning, Newest
  <1>2. /\ UNCHANGED <<records, there, came>>
        /\ listing' = [listing EXCEPT !.scanned = @ \cup {i},
              !.grouped = IF c \notin there THEN g
                          ELSE IF c \in DOMAIN g THEN [g EXCEPT ![c] = Joined(@, t)]
                          ELSE [x \in DOMAIN g \cup {c} |->
                                   IF x = c THEN [last |-> t, count |-> 1] ELSE g[x]]]
    BY DEF Scan, placeVars
  <1>3. /\ listing'.phase = "scanning" /\ listing'.scanned = listing.scanned \cup {i}
        /\ listing'.candidates = listing.candidates /\ listing'.validated = listing.validated
        /\ h = IF c \notin there THEN g
               ELSE IF c \in DOMAIN g THEN [g EXCEPT ![c] = Joined(@, t)]
               ELSE [x \in DOMAIN g \cup {c} |->
                        IF x = c THEN [last |-> t, count |-> 1] ELSE g[x]]
    BY <1>1, <1>2 DEF ListingTypeOK
  <1>4. /\ t \in Nat /\ c \in Directories /\ i \in SessionsIn(c)
        /\ \A d : i \in SessionsIn(d) => d = c
    BY RecordsAreOf DEF SessionsIn
  <1>5. \A d : /\ SessionsIn(d)' = SessionsIn(d) /\ LastIn(d)' = LastIn(d)
               /\ ScannedIn(d)' = IF d = c THEN ScannedIn(d) \cup {i} ELSE ScannedIn(d)
    <2>1. \A d : SessionsIn(d)' = SessionsIn(d) /\ LastIn(d)' = LastIn(d)
      BY <1>2, SessionsStay
    <2>2. QED
      BY <1>3, <1>4, <2>1 DEF ScannedIn
  <1>6. NewestFirst'
    <2> SUFFICES ASSUME NEW k \in listing'.scanned, NEW j \in Sessions \ listing'.scanned
                 PROVE  records[j].time <= records[k].time
      BY <1>2 DEF NewestFirst
    <2>1. CASE k = i
      BY <1>1, <1>3, <2>1
    <2>2. CASE k \in listing.scanned
      BY <1>3, <2>2 DEF NewestFirst
    <2>3. QED
      BY <1>3, <2>1, <2>2
  (* What the group of its directory is, if that is there. *)
  <1>7. ASSUME c \in there, c \in DOMAIN g
        PROVE  /\ h = [g EXCEPT ![c] = [last |-> last, count |-> g[c].count + 1]]
               /\ last \in Times /\ (c \notin came => last = LastIn(c))
    <2>1. Joined(g[c], t) = [last |-> last, count |-> g[c].count + 1]
      BY <1>7 DEF Joined
    <2>2. g[c].last \in Times /\ t \in Times /\ Times \subseteq Nat
      BY <1>7, RecordsAreOf, QueriesAssumption DEF GroupsRight
    <2>3. last \in Times
      <3>1. last = Maximum({g[c].last, t}) /\ g[c].last \in Nat /\ t \in Nat
        BY <1>7, <2>2
      <3>2. last \in {g[c].last, t}
        BY <3>1, LaterOfTwo
      <3>3. QED
        BY <2>2, <3>2
    <2>4. ASSUME c \notin came  PROVE last = LastIn(c)
      <3>1. g[c].last = LastIn(c)
        BY <1>7, <2>4 DEF GroupsRight
      <3>2. t <= LastIn(c) /\ LastIn(c) \in Nat
        BY <1>4, LastInIs
      <3>3. QED
        BY <1>4, <1>7, <3>1, <3>2, MaximumIs
    <2>5. QED
      BY <1>3, <1>7, <2>1, <2>3, <2>4
  <1>8. ASSUME c \in there, c \notin DOMAIN g, c \notin came
        PROVE  ScannedIn(c) = {} /\ LastIn(c) = t
    <2>1. ScannedIn(c) = {}
      BY <1>1, <1>8 DEF GroupsRight
    <2>2. \A j \in SessionsIn(c) : records[j].time <= t
      BY <1>1, <2>1 DEF ScannedIn, SessionsIn
    <2>3. QED
      BY <1>4, <2>1, <2>2, LastInOf
  <1>9. g \in [DOMAIN g -> Group] /\ DOMAIN g \subseteq Directories
    BY GroupedIs
  <1>10. \A d \in DOMAIN g : SessionsIn(d) # {} /\ LastIn(d) \in Nat
    BY LastInIs DEF GroupsRight, ScannedIn
  <1>11. /\ DOMAIN h = DOMAIN g \cup (IF c \in there THEN {c} ELSE {})
         /\ \A d \in DOMAIN h : d # c \/ c \notin there => d \in DOMAIN g /\ h[d] = g[d]
         /\ c \in there =>
               /\ h[c] = [last |-> last, count |-> IF c \in DOMAIN g THEN g[c].count + 1 ELSE 1]
               /\ last \in Times /\ (c \notin came => last = LastIn(c))
    <2>1. CASE c \notin there
      BY <1>3, <2>1
    <2>2. CASE c \in there /\ c \in DOMAIN g
      BY <1>7, <1>9, <2>2
    <2>3. CASE c \in there /\ c \notin DOMAIN g
      BY <1>3, <1>8, <1>9, <2>3, RecordsAreOf
    <2>4. QED
      BY <2>1, <2>2, <2>3
  <1>12. Times \subseteq Nat
    BY QueriesAssumption
  <1>13. IsFiniteSet(ScannedIn(c)) /\ i \notin ScannedIn(c)
    BY <1>1, QueriesAssumption, FS_Subset DEF ScannedIn, SessionsIn
  <1> HIDE DEF c, t, g, h, last
  <1>14. h \in [DOMAIN h -> Group] /\ DOMAIN h \subseteq Directories
    <2>1. DOMAIN h \subseteq Directories
      BY <1>4, <1>9, <1>11
    <2>2. ASSUME NEW d \in DOMAIN h  PROVE h[d] \in Group
      <3>1. CASE d = c /\ c \in there
        BY <1>9, <1>11, <1>12, <3>1 DEF Group
      <3>2. CASE d # c \/ c \notin there
        BY <1>9, <1>11, <3>2
      <3>3. QED
        BY <3>1, <3>2
    <2>3. h = [d \in DOMAIN h |-> h[d]]
      <3>1. CASE c \notin there
        BY <1>3, <1>9, <3>1
      <3>2. CASE c \in there /\ c \in DOMAIN g
        BY <1>7, <1>9, <3>2
      <3>3. CASE c \in there /\ c \notin DOMAIN g
        BY <1>3, <3>3
      <3>4. QED
        BY <3>1, <3>2, <3>3
    <2>4. QED
      BY <2>1, <2>2, <2>3
  <1>15. ListingTypeOK'
    <2>1. listing' = [listing EXCEPT !.scanned = listing.scanned \cup {i}, !.grouped = h]
      BY <1>2, <1>3
    <2>2. h \in UNION {[D -> Group] : D \in SUBSET Directories}
      BY <1>14
    <2>3. /\ records' \in [Sessions -> Record] /\ there' \subseteq Directories
          /\ listing' \in [phase : ListingPhases, scanned : SUBSET Sessions,
                           grouped : UNION {[D -> Group] : D \in SUBSET Directories},
                           candidates : SUBSET Directories, validated : SUBSET Directories]
      <3> DEFINE groups == UNION {[D -> Group] : D \in SUBSET Directories}
      <3>1. h \in groups
        BY <2>2
      <3>2. /\ records \in [Sessions -> Record] /\ there \subseteq Directories
            /\ listing \in [phase : ListingPhases, scanned : SUBSET Sessions, grouped : groups,
                            candidates : SUBSET Directories, validated : SUBSET Directories]
        BY DEF ListingTypeOK
      <3> HIDE DEF groups
      <3>3. listing' \in [phase : ListingPhases, scanned : SUBSET Sessions, grouped : groups,
                          candidates : SUBSET Directories, validated : SUBSET Directories]
        BY <1>1, <2>1, <3>1, <3>2
      <3>4. QED
        BY <1>2, <3>2, <3>3 DEF groups
    <2>4. QED
      BY <2>3 DEF ListingTypeOK
  <1>16. GroupsRight'
    <2>1. ASSUME NEW d \in DOMAIN h
          PROVE  /\ ScannedIn(d)' # {} /\ h[d].last \in Times /\ h[d].count > 0
                 /\ d \notin came => h[d].last = LastIn(d)'
      <3>1. CASE d = c /\ c \in there
        <4>1. h[d].count > 0
          BY <1>9, <1>11, <3>1 DEF Group
        <4>2. QED
          BY <1>5, <1>11, <3>1, <4>1
      <3>2. CASE d # c \/ c \notin there
        <4>1. d \in DOMAIN g /\ h[d] = g[d]
          BY <1>11, <3>2
        <4>2. /\ ScannedIn(d) # {} /\ g[d].last \in Times /\ g[d].count > 0
              /\ d \notin came => g[d].last = LastIn(d)
          BY <4>1 DEF GroupsRight, g
        <4>3. QED
          BY <1>5, <4>1, <4>2
      <3>3. QED
        BY <3>1, <3>2
    <2>2. ASSUME NEW d \in there \ came, ScannedIn(d)' # {}
          PROVE  d \in DOMAIN h /\ h[d].count = Cardinality(ScannedIn(d)')
      <3>1. CASE d = c
        <4>1. Cardinality(ScannedIn(c) \cup {i}) = Cardinality(ScannedIn(c)) + 1
          BY <1>13, FS_AddElement
        <4>2. CASE c \in DOMAIN g
          <5>1. ScannedIn(c) # {}
            BY <4>2 DEF GroupsRight, g
          <5>2. g[c].count = Cardinality(ScannedIn(c))
            BY <1>1, <3>1, <5>1 DEF GroupsRight, g
          <5>3. h[c].count = g[c].count + 1
            BY <1>11, <3>1, <4>2
          <5>4. QED
            BY <1>5, <1>11, <3>1, <4>1, <5>2, <5>3
        <4>3. CASE c \notin DOMAIN g
          <5>1. ScannedIn(c) = {}
            BY <1>8, <3>1, <4>3
          <5>2. Cardinality(ScannedIn(c)) = 0
            BY <5>1, FS_EmptySet
          <5>3. QED
            BY <1>5, <1>11, <3>1, <4>1, <4>3, <5>2
        <4>4. QED
          BY <4>2, <4>3
      <3>2. CASE d # c
        <4>1. d \in DOMAIN g /\ g[d].count = Cardinality(ScannedIn(d))
          BY <1>1, <1>5, <2>2, <3>2 DEF GroupsRight, g
        <4>2. QED
          BY <1>5, <1>11, <3>2, <4>1
      <3>3. QED
        BY <3>1, <3>2
    <2>3. QED
      BY <1>2, <2>1, <2>2 DEF GroupsRight, h
  <1>17. ChosenRight'
    BY <1>1, <1>3 DEF ChosenRight
  <1>18. QED
    BY <1>6, <1>15, <1>16, <1>17

(* Where the scan ends, the projects are chosen that come first.           *)
LEMMA Cut ==
    ASSUME ListingInv, listing.phase = "scanning", ~Scanning
    PROVE  /\ \A j \in Sessions \ listing.scanned, i \in listing.scanned :
                 records[j].time <= records[i].time
           /\ Cardinality(Sessions) <= ScanLimit => listing.scanned = Sessions
  <1>1. \A j \in Sessions \ listing.scanned, i \in listing.scanned :
            records[j].time <= records[i].time
    BY DEF ListingInv, NewestFirst
  <1>2. ASSUME Cardinality(Sessions) <= ScanLimit  PROVE listing.scanned = Sessions
    <2>1. listing.scanned \subseteq Sessions
      BY DEF ListingInv, ListingTypeOK
    <2>2. CASE Newest = {}
      <3> DEFINE left == Sessions \ listing.scanned
                 T == {records[j].time : j \in left}
                 time == [j \in left |-> records[j].time]
      <3>1. SUFFICES ASSUME left # {} PROVE FALSE
        BY <2>1
      <3>2. IsFiniteSet(left)
        BY QueriesAssumption, FS_Subset
      <3>3. T \subseteq Nat /\ T # {}
        BY <3>1, RecordsAreOf DEF ListingInv
      <3>4. time \in Surjection(left, T)
        BY DEF Surjection
      <3>5. PICK t \in T : \A u \in T : u <= t
        <4> HIDE DEF T, time, left
        <4>1. IsFiniteSet(T)
          BY <3>2, <3>4, FS_Surjection
        <4>2. QED
          BY <3>3, <4>1, GreatestNumber
      <3>6. PICK j \in left : records[j].time = t
        BY <3>5
      <3>7. j \in Newest
        BY <3>5, <3>6 DEF Newest
      <3>8. QED
        BY <2>2, <3>7
    <2>3. CASE ~ (Cardinality(listing.scanned) < ScanLimit)
      <3>1. /\ IsFiniteSet(listing.scanned) /\ Cardinality(listing.scanned) \in Nat
            /\ Cardinality(Sessions) \in Nat
        BY <2>1, QueriesAssumption, FS_Subset, FS_CardinalityType
      <3>2. Cardinality(listing.scanned) <= Cardinality(Sessions)
        BY <2>1, QueriesAssumption, FS_Subset
      <3>3. Cardinality(listing.scanned) = Cardinality(Sessions)
        BY <1>2, <2>3, <3>1, <3>2, QueriesAssumption
      <3>4. QED
        BY <2>1, <3>3, QueriesAssumption, FS_Subset
    <2>4. QED
      BY <2>2, <2>3 DEF Scanning
  <1>3. QED
    BY <1>1, <1>2

Ordered == {o \in (DOMAIN listing.grouped) \X (DOMAIN listing.grouped) : Before(o[1], o[2])}

LEMMA DirectoriesFinite ==
    ASSUME ListingInv
    PROVE  IsFiniteSet(DOMAIN listing.grouped)
  <1> DEFINE D == DOMAIN listing.grouped
             S == {i \in Sessions : Canonical[records[i].cwd] \in D}
             in == [i \in S |-> Canonical[records[i].cwd]]
  <1>1. IsFiniteSet(S)
    BY QueriesAssumption, FS_Subset
  <1>2. in \in Surjection(S, D)
    <2>1. \A d \in D : \E i \in S : in[i] = d
      BY DEF ListingInv, GroupsRight, ScannedIn, SessionsIn
    <2>2. QED
      BY <2>1 DEF Surjection
  <1>3. QED
    <2> HIDE DEF D, S, in
    <2>1. IsFiniteSet(D)
      BY <1>1, <1>2, FS_Surjection
    <2>2. QED
      BY <2>1 DEF D

LEMMA OrderOfProjects ==
    ASSUME ListingInv
    PROVE  LET D == DOMAIN listing.grouped IN
           /\ \A d \in D : ~Before(d, d)
           /\ \A d, e \in D : d # e => Before(d, e) \/ Before(e, d)
           /\ \A d, e, f \in D : Before(d, e) /\ Before(e, f) => Before(d, f)
  <1>1. \A d \in DOMAIN listing.grouped : d \in Nat /\ listing.grouped[d].last \in Nat
    BY GroupedIs, QueriesAssumption DEF ListingInv
  <1>2. QED
    BY <1>1 DEF Before

LEMMA ScanEndsKeeps ==
    ASSUME ListingInv, ScanEnds
    PROVE  ListingInv'
  <1> DEFINE g == listing.grouped
             D == DOMAIN listing.grouped
             first == {d \in D : Cardinality({e \in D : Before(e, d)}) < MaxProjects}
  <1>1. /\ listing.phase = "scanning" /\ ~Scanning /\ UNCHANGED <<records, there, came>>
        /\ listing' = [listing EXCEPT !.phase = "validating", !.candidates = first]
    BY DEF ScanEnds, placeVars
  <1>2. /\ listing'.phase = "validating" /\ listing'.candidates = first
        /\ listing'.scanned = listing.scanned /\ listing'.grouped = g
        /\ listing'.validated = listing.validated
    BY <1>1 DEF ListingInv, ListingTypeOK
  <1>3. D \subseteq Directories /\ \A d \in D \ came : g[d].last = LastIn(d) /\ LastIn(d) \in Nat
    BY GroupedIs DEF ListingInv, GroupsRight
  <1>4. \A d : /\ SessionsIn(d)' = SessionsIn(d) /\ LastIn(d)' = LastIn(d)
               /\ ScannedIn(d)' = ScannedIn(d)
    BY <1>1, <1>2, SessionsStay DEF ScannedIn
  <1>5. ListingTypeOK'
    BY <1>1, <1>3 DEF ListingInv, ListingTypeOK, ListingPhases
  <1>6. NewestFirst'
    BY <1>1, <1>2 DEF ListingInv, NewestFirst
  <1>7. GroupsRight'
    BY <1>1, <1>2, <1>4 DEF ListingInv, GroupsRight
  <1>8. IsFiniteSet(D)
    BY DirectoriesFinite
  <1>9. Cardinality(first) <= MaxProjects
    <2>1. \A d \in D : Preceding(D, Ordered, d) = {e \in D : Before(e, d)}
      BY DEF Preceding, Ordered
    <2>2. first = {d \in D : Cardinality(Preceding(D, Ordered, d)) < MaxProjects}
      BY <2>1
    <2>3. /\ \A d \in D : <<d, d>> \notin Ordered
          /\ \A d, e \in D : d # e => <<d, e>> \in Ordered \/ <<e, d>> \in Ordered
          /\ \A d, e, f \in D : <<d, e>> \in Ordered /\ <<e, f>> \in Ordered => <<d, f>> \in Ordered
      BY OrderOfProjects DEF Ordered
    <2>4. MaxProjects \in Nat
      BY QueriesAssumption
    <2> HIDE DEF D, first
    <2>5. QED
      BY <1>8, <2>2, <2>3, <2>4, FirstFew
  <1>10. ASSUME NEW d \in first \ came, NEW e \in (there \ came) \ first, SessionsIn(e) # {}
         PROVE  LastIn(e) <= LastIn(d)
    <2>1. d \in D /\ LastIn(d) \in Nat /\ LastIn(e) \in Nat
      BY <1>3, <1>10, LastInIs DEF ListingInv
    <2>2. CASE e \in D
      <3>1. SUFFICES ASSUME LastIn(d) < LastIn(e) PROVE FALSE
        BY <2>1
      <3>2. g[d].last = LastIn(d) /\ g[e].last = LastIn(e)
        BY <1>3, <2>1, <2>2
      <3>3. {x \in D : Before(x, e)} \subseteq {x \in D : Before(x, d)}
        <4>1. Before(e, d)
          BY <3>1, <3>2 DEF Before
        <4>2. QED
          BY <2>1, <2>2, <4>1, OrderOfProjects
      <3>4. /\ Cardinality({x \in D : Before(x, e)}) \in Nat
            /\ Cardinality({x \in D : Before(x, d)}) \in Nat
            /\ Cardinality({x \in D : Before(x, e)}) <= Cardinality({x \in D : Before(x, d)})
        <4> DEFINE before(x) == {y \in D : Before(y, x)}
        <4>1. IsFiniteSet(before(d)) /\ IsFiniteSet(before(e)) /\ before(e) \subseteq before(d)
          BY <1>8, <3>3, FS_Subset
        <4> HIDE DEF before
        <4>2. /\ Cardinality(before(e)) \in Nat /\ Cardinality(before(d)) \in Nat
              /\ Cardinality(before(e)) <= Cardinality(before(d))
          BY <4>1, FS_Subset, FS_CardinalityType
        <4>3. QED
          BY <4>2 DEF before
      <3>5. /\ Cardinality({x \in D : Before(x, d)}) < MaxProjects
            /\ ~ (Cardinality({x \in D : Before(x, e)}) < MaxProjects)
        BY <1>10, <2>2
      <3>6. QED
        BY <3>4, <3>5, QueriesAssumption
    <2>3. CASE e \notin D
      <3>1. ScannedIn(e) = {}
        BY <1>1, <1>10, <2>3 DEF ListingInv, GroupsRight
      <3>2. PICK j \in SessionsIn(e) : records[j].time = LastIn(e)
        BY <1>10, LastInIs DEF ListingInv
      <3>3. j \in Sessions \ listing.scanned
        BY <3>1, <3>2 DEF ScannedIn, SessionsIn
      <3>4. PICK i : i \in ScannedIn(d)
        BY <2>1 DEF ListingInv, GroupsRight
      <3>5. i \in listing.scanned /\ i \in SessionsIn(d) /\ records[j].time <= records[i].time
        BY <1>1, <3>3, <3>4, Cut DEF ScannedIn
      <3>6. records[i].time <= LastIn(d) /\ records[i].time \in Nat
        BY <3>5, LastInIs, RecordsAreOf DEF ListingInv, SessionsIn
      <3>7. QED
        BY <2>1, <3>2, <3>5, <3>6
    <2>4. QED
      BY <2>2, <2>3
  <1>11. ASSUME Cardinality(Sessions) <= ScanLimit, listing.validated = {},
                NEW d \in (first \cap (there \cup listing.validated)) \ came
         PROVE  g[d].count = Cardinality(SessionsIn(d))
    <2>1. listing.scanned = Sessions
      BY <1>1, <1>11, Cut
    <2>2. ScannedIn(d) = SessionsIn(d)
      BY <2>1 DEF ScannedIn, SessionsIn
    <2>3. ScannedIn(d) # {} /\ d \in there
      BY <1>11 DEF ListingInv, GroupsRight
    <2>4. QED
      BY <1>1, <2>2, <2>3 DEF ListingInv, GroupsRight
  <1>12. listing.validated = {}
    BY <1>1 DEF ListingInv, ChosenRight
  <1>13. ChosenRight'
    <2>1. first \subseteq D
      OBVIOUS
    <2> HIDE DEF first, g, D
    <2>2. \A d \in first \ came', e \in (there' \ came') \ first :
              SessionsIn(e)' # {} => LastIn(e)' <= LastIn(d)'
      BY <1>1, <1>4, <1>10
    <2>3. Cardinality(Sessions) <= ScanLimit =>
              \A d \in (first \cap (there' \cup listing'.validated)) \ came' :
                  g[d].count = Cardinality(SessionsIn(d)')
      BY <1>1, <1>2, <1>4, <1>11, <1>12
    <2>4. QED
      BY <1>2, <1>9, <2>1, <2>2, <2>3 DEF ChosenRight, D, g
  <1>14. QED
    BY <1>5, <1>6, <1>7, <1>13 DEF ListingInv

LEMMA ListingMoves ==
    ASSUME ListingInv, ListingEnds \/ \E d \in Directories : ValidateCandidate(d) \/ Vanish(d) \/ Appear(d)
    PROVE  ListingInv'
  <1>1. /\ UNCHANGED records /\ came \subseteq came' /\ there' \ came' \subseteq there \ came
        /\ listing'.scanned = listing.scanned /\ listing'.grouped = listing.grouped
        /\ listing'.candidates = listing.candidates
        /\ (listing.phase = "scanning") = (listing'.phase = "scanning")
        /\ listing.phase = "scanning" => listing'.validated = listing.validated
        /\ (there' \cup listing'.validated) \ came' \subseteq (there \cup listing.validated) \ came
        /\ listing'.phase = "answered" => listing'.validated = listing'.candidates
    BY DEF ListingInv, ListingTypeOK, ValidateCandidate, ListingEnds, Vanish, Appear, placeVars,
           ChosenRight
  <1>2. ListingTypeOK'
    BY DEF ListingInv, ListingTypeOK, ListingPhases, ValidateCandidate, ListingEnds, Vanish, Appear,
           placeVars
  <1>3. \A e : /\ SessionsIn(e)' = SessionsIn(e) /\ LastIn(e)' = LastIn(e)
               /\ ScannedIn(e)' = ScannedIn(e)
    BY <1>1, SessionsStay DEF ScannedIn
  <1>4. NewestFirst'
    BY <1>1 DEF ListingInv, NewestFirst
  <1>5. GroupsRight'
    BY <1>1, <1>3 DEF ListingInv, GroupsRight
  <1>6. ChosenRight'
    <2>1. listing'.phase = "scanning" => listing'.validated = {}
      BY <1>1 DEF ListingInv, ChosenRight
    <2>2. ASSUME listing'.phase # "scanning"
          PROVE  /\ listing'.candidates \subseteq DOMAIN listing'.grouped
                 /\ Cardinality(listing'.candidates) <= MaxProjects
                 /\ \A e \in listing'.candidates \ came', f \in (there' \ came') \ listing'.candidates :
                       SessionsIn(f)' # {} => LastIn(f)' <= LastIn(e)'
      BY <1>1, <1>3, <2>2 DEF ListingInv, ChosenRight
    <2>3. ASSUME listing'.phase # "scanning", Cardinality(Sessions) <= ScanLimit,
                 NEW e \in (listing'.candidates \cap (there' \cup listing'.validated)) \ came'
          PROVE  listing'.grouped[e].count = Cardinality(SessionsIn(e)')
      BY <1>1, <1>3, <2>3 DEF ListingInv, ChosenRight
    <2>4. QED
      BY <1>1, <2>1, <2>2, <2>3 DEF ChosenRight
  <1>7. QED
    BY <1>2, <1>4, <1>5, <1>6 DEF ListingInv

LEMMA KnownProjects == ListingInv => KnownProjectsRight
  <1> SUFFICES ASSUME ListingInv, listing.phase = "answered",
                      NEW d \in listing.candidates \ came
               PROVE  /\ listing.grouped[d].last = LastIn(d)
                      /\ Cardinality(Sessions) <= ScanLimit =>
                            listing.grouped[d].count = Cardinality(SessionsIn(d))
                      /\ \A e \in (there \ came) \ listing.candidates :
                            SessionsIn(e) # {} => LastIn(e) <= LastIn(d)
    BY DEF KnownProjectsRight, ListingInv, ChosenRight
  <1>1. QED
    BY DEF ListingInv, ChosenRight, GroupsRight

-----------------------------------------------------------------------------
(* The content of a directory.                                             *)

BrowsingPhases == {"reading", "walking", "looking", "walked", "answered", "failed"}

(* The walk is by name, and counts what it takes; while nobody changes the *)
(* directory, what it has yet to take and what it took are the directories.*)
DirectoriesThere == {n \in Names : entries[n].kind \in {"directory", "link"}}
Untouched == \A n \in Names : entries[n].file = 0

BrowsingTypeOK ==
    /\ \A n \in Names : entries[n].file \in Nat
    /\ entries \in [Names -> [kind : EntryKinds \cup {"gone"}, file : Nat]]
    /\ browsing \in [phase : BrowsingPhases, left : SUBSET Names, children : SUBSET Names,
                     found : Nat, before : Nat]

WalkCounts ==
    /\ browsing.phase = "reading" => browsing.children = {}
    /\ browsing.left \cap browsing.children = {}
    /\ Cardinality(browsing.children) <= MaxChildren
    /\ browsing.phase \in {"reading", "walking", "looking"} =>
          browsing.found = Cardinality(browsing.children)
    /\ browsing.phase = "looking" => browsing.left # {}

WalkInOrder ==
    Untouched =>
        /\ browsing.phase \in {"walking", "looking", "walked"} =>
              /\ browsing.left \cup browsing.children = DirectoriesThere
              /\ \A c \in browsing.children, n \in browsing.left : c < n
        /\ browsing.phase = "looking" => browsing.before = 0
        /\ browsing.phase = "walked" =>
              /\ browsing.left # {} /\ Cardinality(browsing.children) = MaxChildren
              /\ browsing.found = MaxChildren + 1

BrowsingInv == BrowsingTypeOK /\ WalkCounts /\ WalkInOrder /\ ListedAsItIs

LEMMA NamesFinite ==
    ASSUME NEW S, S \subseteq Names
    PROVE  IsFiniteSet(S) /\ Cardinality(S) \in Nat
  BY QueriesAssumption, FS_Subset, FS_CardinalityType

LEMMA NameIs ==
    ASSUME BrowsingTypeOK, browsing.left # {}
    PROVE  /\ Name \in browsing.left /\ Name \in Names /\ Name \in Nat
           /\ \A n \in browsing.left \ {Name} : Name < n
  <1>1. browsing.left \subseteq Nat /\ browsing.left \subseteq Names
    BY QueriesAssumption DEF BrowsingTypeOK
  <1>2. PICK m \in browsing.left : \A k \in browsing.left : m <= k
    BY <1>1, LeastNumber
  <1>3. Name \in browsing.left /\ \A k \in browsing.left : Name <= k
    BY <1>2 DEF Name, FirstName
  <1>4. \A n \in browsing.left \ {Name} : Name < n
    BY <1>1, <1>3
  <1>5. QED
    BY <1>1, <1>3, <1>4

(* What comes first in a set that another follows.                         *)
LEMMA FirstOfAll ==
    ASSUME NEW S, S \subseteq Names, NEW m \in Nat, Cardinality(S) <= m
    PROVE  FirstOf(S, m) = S
  <1>1. ASSUME NEW x \in S  PROVE Cardinality({y \in S : y < x}) < m
    <2> DEFINE before == {y \in S : y < x}
    <2>1. before \subseteq S /\ x \notin before
      BY QueriesAssumption
    <2>2. IsFiniteSet(S) /\ Cardinality(S) \in Nat /\ Cardinality(before) \in Nat
      BY <2>1, NamesFinite
    <2> HIDE DEF before
    <2>3. Cardinality(before) <= Cardinality(S) /\ Cardinality(before) # Cardinality(S)
      BY <2>1, <2>2, FS_Subset
    <2>4. Cardinality(before) < m
      BY <2>2, <2>3
    <2>5. QED
      BY <2>4 DEF before
  <1>2. QED
    BY <1>1 DEF FirstOf

LEMMA FirstOfFollowed ==
    ASSUME NEW S, NEW T, S \subseteq Names, T \subseteq Names, S \cap T = {},
           \A s \in S, t \in T : s < t
    PROVE  FirstOf(S \cup T, Cardinality(S)) = S
  <1>1. S \subseteq Nat /\ T \subseteq Nat
    BY QueriesAssumption
  <1>2. IsFiniteSet(S) /\ Cardinality(S) \in Nat
    BY NamesFinite
  <1>3. ASSUME NEW x \in S
        PROVE  Cardinality({y \in S \cup T : y < x}) < Cardinality(S)
    <2> DEFINE before == {y \in S \cup T : y < x}
    <2>1. before \subseteq S /\ x \notin before
      <3>1. x \in Nat /\ ~ (x < x)
        BY <1>1
      <3>2. \A y \in T : y \in Nat /\ ~ (y < x)
        BY <1>1, <3>1
      <3>3. QED
        BY <3>1, <3>2
    <2>2. Cardinality(before) \in Nat
      BY <2>1, NamesFinite
    <2> HIDE DEF before
    <2>3. Cardinality(before) <= Cardinality(S) /\ Cardinality(before) # Cardinality(S)
      BY <1>2, <2>1, FS_Subset
    <2>4. Cardinality(before) < Cardinality(S)
      BY <1>2, <2>2, <2>3
    <2>5. QED
      BY <2>4 DEF before
  <1>4. ASSUME NEW x \in T
        PROVE  ~ (Cardinality({y \in S \cup T : y < x}) < Cardinality(S))
    <2> DEFINE before == {y \in S \cup T : y < x}
    <2>1. S \subseteq before /\ before \subseteq Names
      OBVIOUS
    <2>2. IsFiniteSet(before) /\ Cardinality(before) \in Nat
      BY <2>1, NamesFinite
    <2> HIDE DEF before
    <2>3. Cardinality(S) <= Cardinality(before)
      BY <2>1, <2>2, FS_Subset
    <2>4. ~ (Cardinality(before) < Cardinality(S))
      BY <1>2, <2>2, <2>3
    <2>5. QED
      BY <2>4 DEF before
  <1>5. QED
    BY <1>3, <1>4 DEF FirstOf

LEMMA BrowsingInitially == QueriesInit => BrowsingInv
  <1> SUFFICES ASSUME QueriesInit PROVE BrowsingInv
    OBVIOUS
  <1>1. BrowsingTypeOK
    BY DEF QueriesInit, BrowsingTypeOK, BrowsingPhases, EntryKinds
  <1>2. WalkCounts
    BY QueriesAssumption, FS_EmptySet DEF QueriesInit, WalkCounts
  <1>3. WalkInOrder /\ ListedAsItIs
    BY DEF QueriesInit, WalkInOrder, ListedAsItIs
  <1>4. QED
    BY <1>1, <1>2, <1>3 DEF BrowsingInv

LEMMA ReadDirectoryKeeps ==
    ASSUME BrowsingInv, ReadDirectory
    PROVE  BrowsingInv'
  <1>1. /\ browsing.phase = "reading" /\ UNCHANGED entries
        /\ browsing' = [browsing EXCEPT !.phase = "walking", !.left = DirectoriesThere]
    BY DEF ReadDirectory, DirectoriesThere
  <1>2. DirectoriesThere \subseteq Names /\ DirectoriesThere' = DirectoriesThere
    BY <1>1 DEF DirectoriesThere
  <1>3. BrowsingTypeOK'
    BY <1>1, <1>2 DEF BrowsingInv, BrowsingTypeOK, BrowsingPhases
  <1>4. /\ browsing'.phase = "walking" /\ browsing'.left = DirectoriesThere
        /\ browsing'.children = {} /\ browsing'.found = browsing.found /\ browsing.children = {}
    BY <1>1 DEF BrowsingInv, BrowsingTypeOK, WalkCounts
  <1>5. WalkCounts'
    BY <1>1, <1>4 DEF BrowsingInv, WalkCounts
  <1>6. WalkInOrder' /\ ListedAsItIs'
    BY <1>2, <1>4 DEF WalkInOrder, ListedAsItIs
  <1>7. QED
    BY <1>3, <1>5, <1>6 DEF BrowsingInv

LEMMA LookAtEntryKeeps ==
    ASSUME BrowsingInv, LookAtEntry
    PROVE  BrowsingInv'
  <1>1. /\ browsing.phase = "walking" /\ browsing.left # {} /\ UNCHANGED entries
        /\ \/ /\ entries[Name].kind = "other"
              /\ browsing' = [browsing EXCEPT !.left = @ \ {Name}]
           \/ browsing' = [browsing EXCEPT !.phase = "failed"]
           \/ /\ entries[Name].kind \in {"directory", "link"}
              /\ browsing' = [browsing EXCEPT !.phase = "looking", !.before = entries[Name].file]
    BY DEF LookAtEntry
  <1>2. Name \in browsing.left /\ Name \in Names
    BY <1>1, NameIs DEF BrowsingInv
  <1>3. BrowsingTypeOK'
    BY <1>1, <1>2 DEF BrowsingInv, BrowsingTypeOK, BrowsingPhases
  <1>4. /\ browsing'.children = browsing.children /\ browsing'.found = browsing.found
        /\ browsing'.left \subseteq browsing.left
        /\ \/ browsing'.phase = "walking" /\ entries[Name].kind = "other"
           \/ browsing'.phase = "failed"
           \/ /\ browsing'.phase = "looking" /\ browsing'.left = browsing.left
              /\ browsing'.before = entries[Name].file
    BY <1>1 DEF BrowsingInv, BrowsingTypeOK
  <1>5. WalkCounts'
    BY <1>1, <1>4 DEF BrowsingInv, WalkCounts
  <1>6. DirectoriesThere' = DirectoriesThere /\ Untouched' = Untouched
    BY <1>1 DEF DirectoriesThere, Untouched
  <1>7. WalkInOrder'
    <2> SUFFICES ASSUME Untouched PROVE WalkInOrder'
      BY <1>6 DEF WalkInOrder
    <2>1. browsing.left \cup browsing.children = DirectoriesThere
      BY <1>1 DEF BrowsingInv, WalkInOrder
    <2>2. entries[Name].kind # "other" /\ entries[Name].file = 0
      BY <1>2, <2>1 DEF DirectoriesThere, Untouched
    <2>3. QED
      BY <1>1, <1>4, <1>6, <2>2 DEF BrowsingInv, WalkInOrder
  <1>8. ListedAsItIs'
    BY <1>4 DEF ListedAsItIs
  <1>9. QED
    BY <1>3, <1>5, <1>7, <1>8 DEF BrowsingInv

LEMMA LookAgainKeeps ==
    ASSUME BrowsingInv, LookAgain
    PROVE  BrowsingInv'
  <1>1. /\ browsing.phase = "looking" /\ UNCHANGED entries
        /\ \/ /\ entries[Name].file # browsing.before
              /\ browsing' = [browsing EXCEPT !.phase = "failed"]
           \/ /\ ~Full
              /\ browsing' = [browsing EXCEPT !.phase = "walking", !.left = @ \ {Name},
                             !.children = @ \cup {Name}, !.found = @ + 1]
           \/ /\ Full
              /\ browsing' = [browsing EXCEPT !.phase = "walked", !.found = @ + 1]
    BY DEF LookAgain
  <1>2. browsing.left # {} /\ browsing.found = Cardinality(browsing.children)
    BY <1>1 DEF BrowsingInv, WalkCounts
  <1>3. /\ Name \in browsing.left /\ Name \in Names /\ Name \in Nat
        /\ \A n \in browsing.left \ {Name} : Name < n
    BY <1>2, NameIs DEF BrowsingInv
  <1>4. BrowsingTypeOK'
    <2>1. /\ browsing \in [phase : BrowsingPhases, left : SUBSET Names, children : SUBSET Names,
                           found : Nat, before : Nat]
          /\ browsing.left \ {Name} \in SUBSET Names
          /\ browsing.children \cup {Name} \in SUBSET Names /\ browsing.found + 1 \in Nat
      BY <1>3 DEF BrowsingInv, BrowsingTypeOK
    <2>2. browsing' \in [phase : BrowsingPhases, left : SUBSET Names, children : SUBSET Names,
                        found : Nat, before : Nat]
      BY <1>1, <2>1 DEF BrowsingPhases
    <2>3. QED
      BY <1>1, <2>2 DEF BrowsingInv, BrowsingTypeOK
  <1>5. DirectoriesThere' = DirectoriesThere /\ Untouched' = Untouched
    BY <1>1 DEF DirectoriesThere, Untouched
  <1>6. /\ IsFiniteSet(browsing.children) /\ Cardinality(browsing.children) \in Nat
        /\ Cardinality(browsing.children) <= MaxChildren /\ MaxChildren \in Nat
    BY NamesFinite, QueriesAssumption DEF BrowsingInv, BrowsingTypeOK, WalkCounts
  <1>7. CASE browsing' = [browsing EXCEPT !.phase = "failed"]
    <2>1. /\ browsing'.phase = "failed" /\ browsing'.left = browsing.left
          /\ browsing'.children = browsing.children
      BY <1>7 DEF BrowsingInv, BrowsingTypeOK
    <2>2. WalkCounts' /\ WalkInOrder' /\ ListedAsItIs'
      BY <2>1 DEF BrowsingInv, WalkCounts, WalkInOrder, ListedAsItIs
    <2>3. QED
      BY <1>4, <2>2 DEF BrowsingInv
  <1>8. CASE /\ ~Full
             /\ browsing' = [browsing EXCEPT !.phase = "walking", !.left = @ \ {Name},
                                !.children = @ \cup {Name}, !.found = @ + 1]
    <2>1. /\ browsing'.phase = "walking" /\ browsing'.left = browsing.left \ {Name}
          /\ browsing'.children = browsing.children \cup {Name}
          /\ browsing'.found = browsing.found + 1
      BY <1>8 DEF BrowsingInv, BrowsingTypeOK
    <2>2. Cardinality(browsing.children \cup {Name}) = Cardinality(browsing.children) + 1
      BY <1>3, <1>6, FS_AddElement DEF BrowsingInv, WalkCounts
    <2>3. Cardinality(browsing.children) + 1 <= MaxChildren
      BY <1>2, <1>6, <1>8 DEF Full
    <2>4. WalkCounts'
      BY <1>2, <2>1, <2>2, <2>3 DEF BrowsingInv, WalkCounts
    <2>5. WalkInOrder'
      <3> SUFFICES ASSUME Untouched PROVE WalkInOrder'
        BY <1>5 DEF WalkInOrder
      <3>1. /\ browsing.left \cup browsing.children = DirectoriesThere
            /\ \A c \in browsing.children, n \in browsing.left : c < n
        BY <1>1 DEF BrowsingInv, WalkInOrder
      <3>2. /\ browsing'.left \cup browsing'.children = DirectoriesThere
            /\ \A c \in browsing'.children, n \in browsing'.left : c < n
        BY <1>3, <2>1, <3>1
      <3>3. QED
        BY <1>5, <2>1, <3>2 DEF WalkInOrder
    <2>6. ListedAsItIs'
      BY <2>1 DEF ListedAsItIs
    <2>7. QED
      BY <1>4, <2>4, <2>5, <2>6 DEF BrowsingInv
  <1>9. CASE /\ Full
             /\ browsing' = [browsing EXCEPT !.phase = "walked", !.found = @ + 1]
    <2>1. /\ browsing'.phase = "walked" /\ browsing'.left = browsing.left
          /\ browsing'.children = browsing.children /\ browsing'.found = MaxChildren + 1
          /\ Cardinality(browsing.children) = MaxChildren
      BY <1>2, <1>9 DEF BrowsingInv, BrowsingTypeOK, Full
    <2>2. WalkCounts' /\ ListedAsItIs'
      BY <2>1 DEF BrowsingInv, WalkCounts, ListedAsItIs
    <2>3. WalkInOrder'
      BY <1>1, <1>2, <1>5, <2>1 DEF BrowsingInv, WalkInOrder
    <2>4. QED
      BY <1>4, <2>2, <2>3 DEF BrowsingInv
  <1>10. QED
    BY <1>1, <1>7, <1>8, <1>9

LEMMA BrowsingEndsKeeps ==
    ASSUME BrowsingInv, BrowsingEnds
    PROVE  BrowsingInv'
  <1>1. /\ browsing' = [browsing EXCEPT !.phase = "answered"] /\ UNCHANGED entries
        /\ browsing.phase = "walked" \/ (browsing.phase = "walking" /\ browsing.left = {})
    BY DEF BrowsingEnds
  <1>2. /\ browsing'.phase = "answered" /\ browsing'.left = browsing.left
        /\ browsing'.children = browsing.children /\ browsing'.found = browsing.found
    BY <1>1 DEF BrowsingInv, BrowsingTypeOK
  <1>3. BrowsingTypeOK'
    BY <1>1 DEF BrowsingInv, BrowsingTypeOK, BrowsingPhases
  <1>4. WalkCounts' /\ WalkInOrder'
    BY <1>2 DEF BrowsingInv, WalkCounts, WalkInOrder
  <1>5. DirectoriesThere' = DirectoriesThere /\ Untouched' = Untouched
    BY <1>1 DEF DirectoriesThere, Untouched
  <1>6. /\ browsing.children \subseteq Names /\ browsing.left \subseteq Names
        /\ browsing.left \cap browsing.children = {}
        /\ Cardinality(browsing.children) <= MaxChildren /\ MaxChildren \in Nat
        /\ IsFiniteSet(DirectoriesThere) /\ Cardinality(DirectoriesThere) \in Nat
    BY NamesFinite, QueriesAssumption
    DEF BrowsingInv, BrowsingTypeOK, WalkCounts, DirectoriesThere
  <1>7. ASSUME Untouched
        PROVE  /\ browsing.children = FirstOf(DirectoriesThere, MaxChildren)
               /\ (browsing.found > Cardinality(browsing.children)) =
                        (Cardinality(DirectoriesThere) > MaxChildren)
    <2>1. browsing.left \cup browsing.children = DirectoriesThere
      BY <1>1, <1>7 DEF BrowsingInv, WalkInOrder
    <2>2. CASE browsing.phase = "walking" /\ browsing.left = {}
      <3>1. browsing.children = DirectoriesThere /\ browsing.found = Cardinality(browsing.children)
        BY <2>1, <2>2 DEF BrowsingInv, WalkCounts
      <3>2. FirstOf(browsing.children, MaxChildren) = browsing.children
        BY <1>6, FirstOfAll
      <3>3. QED
        BY <1>6, <3>1, <3>2
    <2>3. CASE browsing.phase = "walked"
      <3>1. /\ \A c \in browsing.children, n \in browsing.left : c < n
            /\ browsing.left # {} /\ Cardinality(browsing.children) = MaxChildren
            /\ browsing.found = MaxChildren + 1
        BY <1>7, <2>3 DEF BrowsingInv, WalkInOrder
      <3>2. FirstOf(browsing.children \cup browsing.left, Cardinality(browsing.children))
                = browsing.children
        BY <1>6, <3>1, FirstOfFollowed
      <3>3. Cardinality(DirectoriesThere) > MaxChildren
        <4>1. browsing.children \subseteq DirectoriesThere /\ browsing.children # DirectoriesThere
          BY <1>6, <2>1, <3>1
        <4>2. /\ Cardinality(browsing.children) <= Cardinality(DirectoriesThere)
              /\ Cardinality(browsing.children) # Cardinality(DirectoriesThere)
          BY <1>6, <4>1, FS_Subset
        <4>3. QED
          BY <1>6, <3>1, <4>2
      <3>4. FirstOf(DirectoriesThere, MaxChildren) = browsing.children
        <4>1. browsing.children \cup browsing.left = DirectoriesThere
          BY <2>1
        <4>2. QED
          BY <3>1, <3>2, <4>1
      <3>5. browsing.found > Cardinality(browsing.children)
        BY <1>6, <3>1
      <3>6. QED
        BY <3>3, <3>4, <3>5
    <2>4. QED
      BY <1>1, <2>2, <2>3
  <1>8. ListedAsItIs'
    <2> SUFFICES ASSUME Untouched
                 PROVE  /\ browsing'.children = FirstOf(DirectoriesThere, MaxChildren)
                        /\ (browsing'.found > Cardinality(browsing'.children)) =
                                (Cardinality(DirectoriesThere) > MaxChildren)
      BY <1>1 DEF ListedAsItIs, Untouched, DirectoriesThere
    <2>1. QED
      BY <1>2, <1>7
  <1>9. QED
    BY <1>3, <1>4, <1>8 DEF BrowsingInv

LEMMA ReplaceEntryKeeps ==
    ASSUME BrowsingInv, NEW n \in Names, ReplaceEntry(n)
    PROVE  BrowsingInv'
  <1>1. PICK k \in EntryKinds \cup {"gone"} :
            /\ entries' = [entries EXCEPT ![n] = [kind |-> k, file |-> @.file + 1]]
            /\ UNCHANGED browsing
    BY DEF ReplaceEntry
  <1>2. entries[n].file \in Nat /\ entries'[n].file = entries[n].file + 1
    BY <1>1 DEF BrowsingInv, BrowsingTypeOK
  <1>3. ~Untouched'
    BY <1>2 DEF Untouched
  <1>4. BrowsingTypeOK'
    BY <1>1, <1>2 DEF BrowsingInv, BrowsingTypeOK
  <1>5. WalkCounts'
    BY <1>1 DEF BrowsingInv, WalkCounts
  <1>6. WalkInOrder'
    BY <1>3 DEF WalkInOrder
  <1>7. ListedAsItIs'
    BY <1>3 DEF ListedAsItIs, Untouched
  <1>8. QED
    BY <1>4, <1>5, <1>6, <1>7 DEF BrowsingInv

-----------------------------------------------------------------------------
QueriesInv == ListingInv /\ BrowsingInv

LEMMA ListingUndisturbed ==
    ASSUME ListingInv, UNCHANGED listingVars
    PROVE  ListingInv'
  <1>1. UNCHANGED <<records, there, came, listing>>
    BY DEF listingVars, placeVars
  <1>2. ListingTypeOK' /\ NewestFirst'
    BY <1>1 DEF ListingInv, ListingTypeOK, NewestFirst
  <1>3. \A d : /\ SessionsIn(d)' = SessionsIn(d) /\ LastIn(d)' = LastIn(d)
               /\ ScannedIn(d)' = ScannedIn(d)
    BY <1>1, SessionsStay DEF ScannedIn
  <1>4. GroupsRight' /\ ChosenRight'
    BY <1>1, <1>3 DEF ListingInv, GroupsRight, ChosenRight
  <1>5. QED
    BY <1>2, <1>4 DEF ListingInv

LEMMA BrowsingUndisturbed ==
    ASSUME BrowsingInv, UNCHANGED browsingVars
    PROVE  BrowsingInv'
  BY DEF browsingVars, BrowsingInv, BrowsingTypeOK, WalkCounts, WalkInOrder, ListedAsItIs,
         Untouched, DirectoriesThere

LEMMA QueriesStep ==
    ASSUME QueriesInv, [ListNext \/ BrowseNext]_queryVars
    PROVE  QueriesInv'
  <1>1. CASE ListNext
    <2>1. UNCHANGED browsingVars
      BY <1>1 DEF ListNext, Scan, ScanEnds, ListingEnds, ValidateCandidate, Vanish,
             Appear
    <2>2. BrowsingInv'
      BY <2>1, BrowsingUndisturbed DEF QueriesInv
    <2>3. ASSUME NEW i \in Sessions, Scan(i)  PROVE ListingInv'
      BY <2>3, ScanKeeps DEF QueriesInv
    <2>4. ASSUME ScanEnds  PROVE ListingInv'
      BY <2>4, ScanEndsKeeps DEF QueriesInv
    <2>5. ASSUME ListingEnds \/ \E d \in Directories : ValidateCandidate(d) \/ Vanish(d) \/ Appear(d)
          PROVE  ListingInv'
      BY <2>5, ListingMoves DEF QueriesInv
    <2>6. QED
      BY <1>1, <2>2, <2>3, <2>4, <2>5 DEF ListNext, QueriesInv
  <1>2. CASE BrowseNext
    <2>1. UNCHANGED listingVars
      BY <1>2 DEF BrowseNext, ReadDirectory, LookAtEntry, LookAgain, BrowsingEnds, ReplaceEntry
    <2>2. ListingInv'
      BY <2>1, ListingUndisturbed DEF QueriesInv
    <2>3. QED
      BY <1>2, <2>2, ReadDirectoryKeeps, LookAtEntryKeeps, LookAgainKeeps, BrowsingEndsKeeps,
         ReplaceEntryKeeps
      DEF BrowseNext, QueriesInv
  <1>3. CASE UNCHANGED queryVars
    BY <1>3, ListingUndisturbed, BrowsingUndisturbed
    DEF queryVars, listingVars, placeVars, browsingVars, QueriesInv
  <1>4. QED
    BY <1>1, <1>2, <1>3

(* QueriesInv is an invariant of the two walks over the disk: what the       *)
(* listing has put together and what the browser may still return (the code  *)
(* in list and listProjectDirectories) is true of the files at the time it   *)
(* was read.                                                                 *)
THEOREM QueriesInvariant == QueriesSpec => []QueriesInv
  <1>1. QueriesInit => QueriesInv
    BY ListingInitially, BrowsingInitially DEF QueriesInv
  <1>2. QueriesInv /\ [ListNext \/ BrowseNext]_queryVars => QueriesInv'
    BY QueriesStep
  <1>3. QED
    BY <1>1, <1>2, PTL DEF QueriesSpec

-----------------------------------------------------------------------------
(* The sessions of a project.                                              *)

Summary == [id : Ids, parent : Ids \cup {NoPath}, live : BOOLEAN]
ScanPhases == {"asked", "reading", "listed", "notFound", "ambiguous", "opened", "failed"}

CatalogueTypeOK ==
    /\ files \subseteq Paths /\ loaded \subseteq Loadable
    /\ scan \in [phase : ScanPhases, target : Ids \cup {NoPath}, left : SUBSET Paths,
                 infos : SUBSET Paths, answer : Seq(Summary), writes : Nat]
    /\ seen \in [ever : SUBSET Paths, always : SUBSET Paths]

(* A file that is there all the time was read, or will be, and none that   *)
(* was never there.                                                        *)
ScanExact ==
    /\ IsFiniteSet(scan.infos)
    /\ scan.phase = "asked" => scan.infos = {}
    /\ scan.phase = "reading" =>
          /\ seen.always \subseteq files /\ files \subseteq seen.ever
          /\ seen.always \subseteq scan.left \cup scan.infos
          /\ scan.left \cup scan.infos \subseteq seen.ever
          /\ scan.left \cap scan.infos = {}

CatalogueInv == CatalogueTypeOK /\ ScanExact /\ CatalogueRight /\ OpenRight

LEMMA SetAsSequence ==
    ASSUME NEW S, IsFiniteSet(S)
    PROVE  LET s == SetToSeq(S) IN
           /\ s \in Seq(S) /\ DOMAIN s = 1 .. Len(s)
           /\ \A i, j \in DOMAIN s : s[i] = s[j] => i = j
           /\ \A i \in DOMAIN s : s[i] \in S
           /\ \A x \in S : \E i \in DOMAIN s : s[i] = x
  <1> DEFINE n == Cardinality(S)
             s == SetToSeq(S)
  <1>1. n \in Nat /\ ExistsBijection(1 .. n, S)
    BY FS_CardinalityType
  <1>2. \E f \in [1 .. n -> S] : IsInjective(f)
    BY <1>1 DEF ExistsBijection, Bijection, Injection
  <1>3. s \in [1 .. n -> S] /\ IsInjective(s)
    BY <1>2 DEF SetToSeq
  <1>4. s \in Injection(1 .. n, S)
    BY <1>3 DEF Injection
  <1>5. Cardinality(1 .. n) = Cardinality(S)
    BY <1>1, FS_Interval
  <1> HIDE DEF n, s
  <1>6. s \in Surjection(1 .. n, S)
    BY <1>4, <1>5, FS_Injection
  <1>7. s \in Seq(S) /\ DOMAIN s = 1 .. n /\ Len(s) = n
    BY <1>1, <1>3
  <1>8. \A x \in S : \E i \in 1 .. n : s[i] = x
    BY <1>6 DEF Surjection
  <1>9. QED
    BY <1>3, <1>7, <1>8 DEF IsInjective, s

LEMMA JoinedSequence ==
    ASSUME NEW X, NEW s \in Seq(X), NEW t \in Seq(X)
    PROVE  /\ s \o t \in Seq(X)
           /\ \A i \in DOMAIN (s \o t) :
                 \/ i \in DOMAIN s /\ (s \o t)[i] = s[i]
                 \/ i - Len(s) \in DOMAIN t /\ (s \o t)[i] = t[i - Len(s)] /\ i \notin DOMAIN s
           /\ \A i \in DOMAIN s : i \in DOMAIN (s \o t) /\ (s \o t)[i] = s[i]
           /\ \A i \in DOMAIN t : i + Len(s) \in DOMAIN (s \o t) /\ (s \o t)[i + Len(s)] = t[i]
           /\ DOMAIN s \subseteq Nat /\ DOMAIN t \subseteq Nat /\ DOMAIN (s \o t) \subseteq Nat
           /\ Len(s) \in Nat
  OBVIOUS

LEMMA CatalogueInitially == CatalogueInit => CatalogueInv
  <1> SUFFICES ASSUME CatalogueInit PROVE CatalogueInv
    OBVIOUS
  <1>1. CatalogueTypeOK
    <2>1. scan \in [phase : ScanPhases, target : Ids \cup {NoPath}, left : SUBSET Paths,
                    infos : SUBSET Paths, answer : Seq(Summary), writes : Nat]
      <3> DEFINE summaries == Seq(Summary)
                 targets == Ids \cup {NoPath}
      <3>1. <<>> \in summaries
        OBVIOUS
      <3> HIDE DEF summaries
      <3>2. scan \in [phase : {"asked"}, target : targets, left : {{}}, infos : {{}},
                     answer : {<<>>}, writes : {0}]
        BY DEF CatalogueInit
      <3> HIDE DEF targets
      <3>3. scan \in [phase : ScanPhases, target : targets, left : SUBSET Paths,
                     infos : SUBSET Paths, answer : summaries, writes : Nat]
        BY <3>1, <3>2 DEF ScanPhases
      <3>4. QED
        BY <3>3 DEF summaries, targets
    <2>2. QED
      BY <2>1 DEF CatalogueInit, CatalogueTypeOK
  <1>2. ScanExact
    BY FS_EmptySet DEF CatalogueInit, ScanExact
  <1>3. CatalogueRight /\ OpenRight
    BY DEF CatalogueInit, CatalogueRight, OpenRight
  <1>4. QED
    BY <1>1, <1>2, <1>3 DEF CatalogueInv

(* A summary of a file is that of its session; the parent it names is read.*)
LEMMA SummaryOf ==
    ASSUME CatalogueInv, NEW f \in scan.infos
    PROVE  /\ f \in Paths /\ IdAt[f] \in Ids
           /\ ListedSummary(f) \in Summary
           /\ ListedSummary(f).id = IdAt[f]
           /\ ListedSummary(f).live = FALSE
           /\ ListedSummary(f).parent \in {IdAt[g] : g \in scan.infos} \cup {NoPath}
  <1>1. f \in Paths /\ IdAt[f] \in Ids /\ scan.infos \subseteq Paths
    BY DEF CatalogueInv, CatalogueTypeOK, Ids
  <1>2. ParentIdOf(f, scan.infos) \in {IdAt[g] : g \in scan.infos} \cup {NoPath}
    BY DEF ParentIdOf
  <1>3. {IdAt[g] : g \in scan.infos} \subseteq Ids
    BY <1>1 DEF Ids
  <1>4. QED
    BY <1>1, <1>2, <1>3 DEF ListedSummary, Summary

LEMMA LiveSummaryOf ==
    ASSUME CatalogueInv, NEW id \in loaded
    PROVE  /\ LiveSummary(id) \in Summary /\ LiveSummary(id).id = id
           /\ LiveSummary(id).live = TRUE /\ LiveSummary(id).parent = NoPath
  BY DEF CatalogueInv, CatalogueTypeOK, LiveSummary, Summary, Ids

LEMMA OverlaidSummary ==
    ASSUME CatalogueInv, NEW f \in scan.infos
    PROVE  LET s == Overlaid(ListedSummary(f)) IN
           /\ s \in Summary /\ s.id = IdAt[f]
           /\ s.live <=> s.id \in loaded
           /\ s.parent \in {IdAt[g] : g \in scan.infos} \cup {NoPath}
  BY SummaryOf, LiveSummaryOf DEF Overlaid

(* What a listing contains, when all that was found was read.              *)
LEMMA ListingIs ==
    ASSUME CatalogueInv
    PROVE  LET read == {IdAt[f] : f \in scan.infos} IN
           /\ Listing \in Seq(Summary)
           /\ \A i \in DOMAIN Listing :
                 \/ \E f \in scan.infos : Listing[i] = Overlaid(ListedSummary(f))
                 \/ \E id \in loaded \ read : Listing[i] = LiveSummary(id)
           /\ \A f \in scan.infos : \E i \in DOMAIN Listing : Listing[i].id = IdAt[f]
           /\ \A id \in loaded \ read : \E i \in DOMAIN Listing : Listing[i].id = id
           /\ ~Copied(scan.infos) => AcceptsList(Listing)
  <1> DEFINE read == {IdAt[f] : f \in scan.infos}
             listed == SetToSeq(scan.infos)
             rest == loaded \ read
             M == {LiveSummary(id) : id \in rest}
             live == [id \in rest |-> LiveSummary(id)]
             a == [i \in DOMAIN listed |-> Overlaid(ListedSummary(listed[i]))]
             b == SetToSeq(M)
  <1>1. IsFiniteSet(scan.infos) /\ IsFiniteSet(rest)
    BY CatalogueAssumption, FS_Subset DEF CatalogueInv, CatalogueTypeOK, ScanExact
  <1>2. IsFiniteSet(M)
    <2>1. live \in Surjection(rest, M)
      BY DEF Surjection
    <2> HIDE DEF M, live, rest
    <2>2. QED
      BY <1>1, <2>1, FS_Surjection
  <1>3. /\ DOMAIN listed = 1 .. Len(listed) /\ Len(listed) \in Nat
        /\ \A i, j \in DOMAIN listed : listed[i] = listed[j] => i = j
        /\ \A i \in DOMAIN listed : listed[i] \in scan.infos
        /\ \A f \in scan.infos : \E i \in DOMAIN listed : listed[i] = f
    BY <1>1, SetAsSequence
  <1>4. /\ b \in Seq(M) /\ DOMAIN b = 1 .. Len(b)
        /\ \A i, j \in DOMAIN b : b[i] = b[j] => i = j
        /\ \A i \in DOMAIN b : b[i] \in M
        /\ \A x \in M : \E i \in DOMAIN b : b[i] = x
    <2> HIDE DEF M
    <2>1. QED
      BY <1>2, SetAsSequence
  <1>5. Listing = a \o b
    BY DEF Listing
  <1>6. /\ a \in Seq(Summary) /\ DOMAIN a = DOMAIN listed
        /\ \A i \in DOMAIN a : a[i] = Overlaid(ListedSummary(listed[i]))
    <2>1. DOMAIN a = DOMAIN listed /\ \A i \in DOMAIN a : a[i] = Overlaid(ListedSummary(listed[i]))
      OBVIOUS
    <2>2. \A i \in DOMAIN a : a[i] \in Summary
      BY <1>3, <2>1, OverlaidSummary
    <2>3. a = [i \in 1 .. Len(listed) |-> a[i]]
      BY <1>3
    <2> HIDE DEF a, listed
    <2>4. a \in [1 .. Len(listed) -> Summary]
      BY <1>3, <2>1, <2>2, <2>3
    <2>5. QED
      BY <1>3, <2>1, <2>4
  <1>7. /\ \A i \in DOMAIN b : \E id \in rest : b[i] = LiveSummary(id)
        /\ \A id \in rest : \E i \in DOMAIN b : b[i] = LiveSummary(id)
        /\ \A id \in rest : LiveSummary(id) \in Summary /\ LiveSummary(id).id = id
    <2>1. \A id \in rest : LiveSummary(id) \in Summary /\ LiveSummary(id).id = id
      BY LiveSummaryOf
    <2>2. \A i \in DOMAIN b : \E id \in rest : b[i] = LiveSummary(id)
      BY <1>4
    <2>3. \A id \in rest : \E i \in DOMAIN b : b[i] = LiveSummary(id)
      BY <1>4
    <2>4. QED
      BY <2>1, <2>2, <2>3
  <1>8. b \in Seq(Summary)
    <2>1. M \subseteq Summary
      BY <1>7
    <2> HIDE DEF M, b
    <2>2. QED
      BY <1>4, <2>1
  <1> HIDE DEF listed, rest, M, live, a, b
  <1>9. /\ a \o b \in Seq(Summary)
        /\ \A i \in DOMAIN (a \o b) :
              \/ i \in DOMAIN a /\ (a \o b)[i] = a[i]
              \/ i - Len(a) \in DOMAIN b /\ (a \o b)[i] = b[i - Len(a)]
        /\ \A i \in DOMAIN a : i \in DOMAIN (a \o b) /\ (a \o b)[i] = a[i]
        /\ \A i \in DOMAIN b : i + Len(a) \in DOMAIN (a \o b) /\ (a \o b)[i + Len(a)] = b[i]
        /\ DOMAIN (a \o b) \subseteq Nat /\ Len(a) \in Nat
    BY <1>6, <1>8, JoinedSequence
  <1>10. \A f \in scan.infos : Overlaid(ListedSummary(f)).id = IdAt[f]
    BY OverlaidSummary
  <1>11. \A i \in DOMAIN (a \o b) :
             \/ \E f \in scan.infos : (a \o b)[i] = Overlaid(ListedSummary(f))
             \/ \E id \in loaded \ read : (a \o b)[i] = LiveSummary(id)
    BY <1>3, <1>6, <1>7, <1>9 DEF rest
  <1>12. \A f \in scan.infos : \E i \in DOMAIN (a \o b) : (a \o b)[i].id = IdAt[f]
    BY <1>3, <1>6, <1>9, <1>10
  <1>13. \A id \in loaded \ read : \E i \in DOMAIN (a \o b) : (a \o b)[i].id = id
    <2> SUFFICES ASSUME NEW id \in rest
                 PROVE  \E i \in DOMAIN (a \o b) : (a \o b)[i].id = id
      BY DEF rest
    <2>1. PICK i \in DOMAIN b : b[i] = LiveSummary(id)
      BY <1>7
    <2>2. i + Len(a) \in DOMAIN (a \o b) /\ (a \o b)[i + Len(a)] = LiveSummary(id)
      BY <1>9, <2>1
    <2>3. LiveSummary(id).id = id
      BY <1>7
    <2>4. QED
      BY <2>2, <2>3
  <1>14. ASSUME ~Copied(scan.infos)  PROVE AcceptsList(a \o b)
    <2> SUFFICES ASSUME NEW i \in DOMAIN (a \o b), NEW j \in DOMAIN (a \o b),
                        (a \o b)[i].id = (a \o b)[j].id
                 PROVE  i = j
      BY DEF AcceptsList
    <2> DEFINE From(k) == k \in DOMAIN a /\ (a \o b)[k] = a[k]
               InRest(k) == k - Len(a) \in DOMAIN b /\ (a \o b)[k] = b[k - Len(a)]
    <2>1. i \in Nat /\ j \in Nat /\ (From(i) \/ InRest(i)) /\ (From(j) \/ InRest(j))
      BY <1>9
    <2>2. \A k \in DOMAIN a : /\ listed[k] \in scan.infos /\ a[k].id = IdAt[listed[k]]
                              /\ a[k].id \in read
      BY <1>3, <1>6, <1>10
    <2>3. \A k \in DOMAIN b : b[k].id \notin read
      BY <1>7 DEF rest
    <2>4. CASE From(i) /\ From(j)
      <3>1. listed[i] = listed[j]
        BY <1>14, <2>2, <2>4 DEF Copied
      <3>2. QED
        BY <1>3, <1>6, <2>4, <3>1
    <2>5. CASE InRest(i) /\ InRest(j)
      <3>1. PICK x \in rest : b[i - Len(a)] = LiveSummary(x)
        BY <1>7, <2>5
      <3>2. PICK y \in rest : b[j - Len(a)] = LiveSummary(y)
        BY <1>7, <2>5
      <3>3. x = y
        BY <1>7, <2>5, <3>1, <3>2
      <3>4. i - Len(a) = j - Len(a)
        BY <1>4, <2>5, <3>1, <3>2, <3>3
      <3>5. QED
        BY <1>9, <2>1, <3>4
    <2>6. CASE From(i) /\ InRest(j)
      BY <2>2, <2>3, <2>6
    <2>7. CASE InRest(i) /\ From(j)
      BY <2>2, <2>3, <2>7
    <2>8. QED
      BY <2>1, <2>4, <2>5, <2>6, <2>7
  <1>15. QED
    BY <1>5, <1>9, <1>11, <1>12, <1>13, <1>14

LEMMA ReadNamesKeeps ==
    ASSUME CatalogueInv, ReadNames
    PROVE  CatalogueInv'
  <1>1. /\ scan.phase = "asked" /\ UNCHANGED <<files, loaded>>
        /\ scan' = [scan EXCEPT !.phase = "reading", !.left = files]
        /\ seen' = [ever |-> files, always |-> files]
    BY DEF ReadNames
  <1>2. /\ scan'.phase = "reading" /\ scan'.left = files /\ scan'.infos = scan.infos
        /\ scan.infos = {}
    BY <1>1 DEF CatalogueInv, CatalogueTypeOK, ScanExact
  <1>3. CatalogueTypeOK'
    BY <1>1 DEF CatalogueInv, CatalogueTypeOK, ScanPhases
  <1>4. ScanExact'
    BY <1>1, <1>2 DEF CatalogueInv, ScanExact
  <1>5. CatalogueRight' /\ OpenRight'
    BY <1>2 DEF CatalogueRight, OpenRight
  <1>6. QED
    BY <1>3, <1>4, <1>5 DEF CatalogueInv

LEMMA ReadInfoKeeps ==
    ASSUME CatalogueInv, NEW f \in Paths, ReadInfo(f)
    PROVE  CatalogueInv'
  <1> DEFINE found == IF f \in files THEN scan.infos \cup {f} ELSE scan.infos
  <1>1. /\ scan.phase = "reading" /\ f \in scan.left /\ UNCHANGED <<files, loaded, seen>>
        /\ scan' = [scan EXCEPT !.left = scan.left \ {f}, !.infos = found]
    BY DEF ReadInfo
  <1>2. /\ scan'.phase = "reading" /\ scan'.left = scan.left \ {f} /\ scan'.infos = found
    BY <1>1 DEF CatalogueInv, CatalogueTypeOK
  <1>3. found \subseteq Paths /\ IsFiniteSet(found)
    BY FS_AddElement DEF CatalogueInv, CatalogueTypeOK, ScanExact
  <1> HIDE DEF found
  <1>4. CatalogueTypeOK'
    BY <1>1, <1>3 DEF CatalogueInv, CatalogueTypeOK
  <1>5. ScanExact'
    <2>1. /\ seen.always \subseteq files /\ files \subseteq seen.ever
          /\ seen.always \subseteq scan.left \cup scan.infos
          /\ scan.left \cup scan.infos \subseteq seen.ever
          /\ scan.left \cap scan.infos = {}
      BY <1>1 DEF CatalogueInv, ScanExact
    <2>2. QED
      BY <1>1, <1>2, <1>3, <2>1 DEF ScanExact, found
  <1>6. CatalogueRight' /\ OpenRight'
    BY <1>2 DEF CatalogueRight, OpenRight
  <1>7. QED
    BY <1>4, <1>5, <1>6 DEF CatalogueInv

LEMMA CopiedLess ==
    ASSUME NEW S, NEW T, S \subseteq T, ~Copied(T)
    PROVE  ~Copied(S)
  BY DEF Copied

LEMMA AnswerListKeeps ==
    ASSUME CatalogueInv, AnswerList
    PROVE  CatalogueInv'
  <1> DEFINE read == {IdAt[f] : f \in scan.infos}
             ids == {Listing[i].id : i \in DOMAIN Listing}
  <1>1. /\ scan.phase = "reading" /\ scan.left = {} /\ UNCHANGED <<files, loaded, seen>>
        /\ scan' = [scan EXCEPT !.phase = "listed", !.answer = Listing]
    BY DEF AnswerList
  <1>2. scan'.phase = "listed" /\ scan'.answer = Listing /\ scan'.infos = scan.infos
    BY <1>1 DEF CatalogueInv, CatalogueTypeOK
  <1>3. seen.always \subseteq scan.infos /\ scan.infos \subseteq seen.ever
    BY <1>1 DEF CatalogueInv, ScanExact
  <1>4. /\ Listing \in Seq(Summary)
        /\ \A i \in DOMAIN Listing :
              \/ \E f \in scan.infos : Listing[i] = Overlaid(ListedSummary(f))
              \/ \E id \in loaded \ read : Listing[i] = LiveSummary(id)
        /\ \A f \in scan.infos : \E i \in DOMAIN Listing : Listing[i].id = IdAt[f]
        /\ \A id \in loaded \ read : \E i \in DOMAIN Listing : Listing[i].id = id
        /\ ~Copied(scan.infos) => AcceptsList(Listing)
    BY ListingIs
  <1> HIDE DEF Listing
  <1>5. CatalogueTypeOK'
    BY <1>1, <1>4 DEF CatalogueInv, CatalogueTypeOK, ScanPhases
  <1>6. ScanExact'
    BY <1>1, <1>2 DEF CatalogueInv, ScanExact
  <1>7. read \subseteq ids /\ loaded \subseteq ids
    <2>1. read \subseteq ids
      BY <1>4
    <2>2. loaded \ read \subseteq ids
      BY <1>4
    <2>3. QED
      BY <2>1, <2>2
  <1>8. ASSUME NEW i \in DOMAIN Listing
        PROVE  /\ Listing[i].id \in loaded \cup read
               /\ Listing[i].live <=> Listing[i].id \in loaded
               /\ ~Listing[i].live => Listing[i].parent \in ids \cup {NoPath}
    <2>1. CASE \E f \in scan.infos : Listing[i] = Overlaid(ListedSummary(f))
      <3>1. PICK f \in scan.infos : Listing[i] = Overlaid(ListedSummary(f))
        BY <2>1
      <3> DEFINE s == Overlaid(ListedSummary(f))
      <3>2. /\ s.id = IdAt[f] /\ (s.live <=> s.id \in loaded)
            /\ s.parent \in read \cup {NoPath}
        BY OverlaidSummary
      <3>3. IdAt[f] \in read
        OBVIOUS
      <3>4. Listing[i] = s
        BY <3>1
      <3> HIDE DEF s, read, ids
      <3>5. QED
        BY <1>7, <3>2, <3>3, <3>4
    <2>2. CASE \E id \in loaded \ read : Listing[i] = LiveSummary(id)
      <3>1. PICK id \in loaded : Listing[i] = LiveSummary(id)
        BY <2>2
      <3>2. QED
        BY <3>1, LiveSummaryOf
    <2>3. \/ \E f \in scan.infos : Listing[i] = Overlaid(ListedSummary(f))
          \/ \E id \in loaded \ read : Listing[i] = LiveSummary(id)
      BY <1>4, Zenon
    <2>4. QED
      BY <2>1, <2>2, <2>3
  <1>9. CatalogueRight'
    <2>1. loaded \cup {IdAt[f] : f \in seen.always} \subseteq ids
      BY <1>3, <1>7
    <2>2. ids \subseteq loaded \cup {IdAt[f] : f \in seen.ever}
      BY <1>3, <1>8
    <2>3. ~Copied(seen.ever) => AcceptsList(Listing)
      BY <1>3, <1>4, CopiedLess
    <2> HIDE DEF read
    <2>4. QED
      BY <1>1, <1>2, <1>8, <2>1, <2>2, <2>3 DEF CatalogueRight
  <1>10. OpenRight'
    BY <1>2 DEF OpenRight
  <1>11. QED
    BY <1>5, <1>6, <1>9, <1>10 DEF CatalogueInv

LEMMA AnswerOpenKeeps ==
    ASSUME CatalogueInv, AnswerOpen
    PROVE  CatalogueInv'
  <1> DEFINE Of(S) == {f \in S : IdAt[f] = scan.target}
  <1>1. /\ scan.phase = "reading" /\ scan.left = {} /\ UNCHANGED <<files, loaded, seen>>
        /\ scan' = [scan EXCEPT !.phase = Opened]
    BY DEF AnswerOpen
  <1>2. /\ scan'.phase = Opened /\ scan'.infos = scan.infos /\ scan'.target = scan.target
        /\ scan'.answer = scan.answer
    BY <1>1 DEF CatalogueInv, CatalogueTypeOK
  <1>3. /\ seen.always \subseteq scan.infos /\ scan.infos \subseteq seen.ever
        /\ seen.always \subseteq files /\ files \subseteq seen.ever /\ seen.ever \subseteq Paths
    BY <1>1 DEF CatalogueInv, CatalogueTypeOK, ScanExact
  <1>4. IsFiniteSet(Matches) /\ Cardinality(Matches) \in Nat
    BY FS_Subset, FS_CardinalityType DEF CatalogueInv, ScanExact, Matches
  <1>5. Of(seen.always) \subseteq Matches
    BY <1>3 DEF Matches
  <1>6. Cardinality(Matches) = 0 <=> Matches = {}
    BY <1>4, FS_EmptySet
  <1>7. \/ Opened = "notFound" /\ Matches = {}
        \/ Opened = "ambiguous" /\ Cardinality(Matches) > 1
        \/ Opened \in {"opened", "failed"} /\ Cardinality(Matches) = 1
           /\ (Opened = "opened") = (Matches \subseteq files)
    <2>1. CASE Matches = {}
      <3>1. ~ (Cardinality(Matches) > 1) /\ ~ (Cardinality(Matches) = 1)
        BY <1>4, <1>6, <2>1
      <3>2. Opened = "notFound"
        BY <2>1, <3>1 DEF Opened
      <3>3. QED
        BY <2>1, <3>2
    <2>2. CASE Cardinality(Matches) > 1
      <3>1. Matches # {} /\ ~ (Cardinality(Matches) = 1)
        BY <1>4, <1>6, <2>2
      <3>2. Opened = "ambiguous"
        BY <2>2, <3>1 DEF Opened
      <3>3. QED
        BY <2>2, <3>2
    <2>3. CASE Cardinality(Matches) = 1
      <3>1. Matches # {} /\ ~ (Cardinality(Matches) > 1)
        BY <1>4, <1>6, <2>3
      <3>2. CASE Matches \subseteq files
        <4>1. Opened = "opened"
          BY <2>3, <3>1, <3>2 DEF Opened
        <4>2. QED
          BY <2>3, <3>2, <4>1
      <3>3. CASE ~(Matches \subseteq files)
        <4>1. Opened = "failed"
          BY <2>3, <3>1, <3>3 DEF Opened
        <4>2. QED
          BY <2>3, <3>3, <4>1
      <3>4. QED
        BY <3>2, <3>3
    <2>4. Matches = {} \/ Cardinality(Matches) = 1 \/ Cardinality(Matches) > 1
      BY <1>4, <1>6
    <2>5. QED
      BY <2>1, <2>2, <2>3, <2>4
  <1>8. CatalogueTypeOK'
    BY <1>1, <1>7 DEF CatalogueInv, CatalogueTypeOK, ScanPhases
  <1>9. ScanExact' /\ CatalogueRight'
    BY <1>1, <1>2, <1>7 DEF CatalogueInv, ScanExact, CatalogueRight
  <1>10. \A S : S \subseteq Paths => IsFiniteSet(Of(S))
    BY CatalogueAssumption, FS_Subset
  <1>11. ASSUME Cardinality(Matches) = 1
         PROVE  \E m \in Matches : Matches = {m}
    BY <1>4, <1>11, FS_Singleton
  <1>12. ASSUME Opened = "opened"
         PROVE  Cardinality(Of(seen.always)) <= 1 /\ Of(files) # {}
    <2>1. PICK m \in Matches : Matches = {m}
      BY <1>7, <1>11, <1>12
    <2>2. Of(seen.always) \subseteq {m}
      BY <1>5, <2>1
    <2>3. Cardinality(Of(seen.always)) <= 1
      <3> HIDE DEF Of
      <3>1. IsFiniteSet({m}) /\ Cardinality({m}) = 1
        BY FS_Singleton
      <3>2. QED
        BY <2>2, <3>1, FS_Subset
    <2>4. m \in Of(files)
      BY <1>7, <1>12, <2>1 DEF Matches
    <2>5. QED
      BY <2>3, <2>4
  <1>13. ASSUME Opened = "notFound"  PROVE Of(seen.always) = {}
    BY <1>5, <1>7, <1>13
  <1>14. ASSUME Opened = "failed"  PROVE Of(seen.always) = {}
    <2>1. PICK m \in Matches : Matches = {m}
      BY <1>7, <1>11, <1>14
    <2>2. m \notin files
      BY <1>7, <1>14, <2>1
    <2>3. QED
      BY <1>3, <1>5, <2>1, <2>2
  <1>15. ASSUME Opened = "ambiguous"  PROVE Cardinality(Of(seen.ever)) > 1
    <2>1. Matches \subseteq Of(seen.ever)
      BY <1>3 DEF Matches
    <2>2. IsFiniteSet(Of(seen.ever))
      BY <1>3, <1>10
    <2> HIDE DEF Of
    <2>3. Cardinality(Matches) <= Cardinality(Of(seen.ever))
      BY <2>1, <2>2, FS_Subset
    <2>4. Cardinality(Of(seen.ever)) \in Nat
      BY <2>2, FS_CardinalityType
    <2>5. QED
      BY <1>4, <1>7, <1>15, <2>3, <2>4
  <1>16. OpenRight'
    BY <1>1, <1>2, <1>12, <1>13, <1>14, <1>15 DEF OpenRight
  <1>17. QED
    BY <1>8, <1>9, <1>16 DEF CatalogueInv

LEMMA DiskWrites ==
    ASSUME CatalogueInv, NEW f \in Paths, WriteFile(f) \/ DeleteFile(f)
    PROVE  CatalogueInv'
  <1>1. /\ scan.phase = "reading" /\ scan' = [scan EXCEPT !.writes = @ + 1] /\ UNCHANGED loaded
        /\ \/ /\ files' = files \cup {f} /\ seen' = [seen EXCEPT !.ever = @ \cup {f}]
           \/ /\ files' = files \ {f} /\ seen' = [seen EXCEPT !.always = @ \ {f}]
    BY DEF WriteFile, DeleteFile, Written
  <1>2. /\ scan'.phase = "reading" /\ scan'.left = scan.left /\ scan'.infos = scan.infos
    BY <1>1 DEF CatalogueInv, CatalogueTypeOK
  <1>3. CatalogueTypeOK'
    <2>1. scan' \in [phase : ScanPhases, target : Ids \cup {NoPath}, left : SUBSET Paths,
                    infos : SUBSET Paths, answer : Seq(Summary), writes : Nat]
      <3> DEFINE summaries == Seq(Summary)
      <3>1. scan \in [phase : ScanPhases, target : Ids \cup {NoPath}, left : SUBSET Paths,
                     infos : SUBSET Paths, answer : summaries, writes : Nat]
        BY DEF CatalogueInv, CatalogueTypeOK
      <3> HIDE DEF summaries
      <3>2. scan' \in [phase : ScanPhases, target : Ids \cup {NoPath}, left : SUBSET Paths,
                      infos : SUBSET Paths, answer : summaries, writes : Nat]
        BY <1>1, <3>1
      <3>3. QED
        BY <3>2 DEF summaries
    <2>2. files' \subseteq Paths /\ loaded' \subseteq Loadable
      BY <1>1 DEF CatalogueInv, CatalogueTypeOK
    <2>3. seen' \in [ever : SUBSET Paths, always : SUBSET Paths]
      BY <1>1 DEF CatalogueInv, CatalogueTypeOK
    <2>4. QED
      BY <2>1, <2>2, <2>3 DEF CatalogueTypeOK
  <1>4. /\ \/ seen'.ever = seen.ever \cup {f} /\ seen'.always = seen.always /\ files' = files \cup {f}
           \/ seen'.ever = seen.ever /\ seen'.always = seen.always \ {f} /\ files' = files \ {f}
    BY <1>1 DEF CatalogueInv, CatalogueTypeOK
  <1>5. ScanExact'
    BY <1>1, <1>2, <1>4 DEF CatalogueInv, ScanExact
  <1>6. CatalogueRight' /\ OpenRight'
    BY <1>2 DEF CatalogueRight, OpenRight
  <1>7. QED
    BY <1>3, <1>5, <1>6 DEF CatalogueInv

LEMMA CatalogueUndisturbed ==
    ASSUME CatalogueInv, UNCHANGED catalogueVars
    PROVE  CatalogueInv'
  <1>1. UNCHANGED <<files, loaded, scan, seen>>
    BY DEF catalogueVars
  <1>2. CatalogueTypeOK' /\ ScanExact'
    BY <1>1 DEF CatalogueInv, CatalogueTypeOK, ScanExact
  <1>3. CatalogueRight'
    BY <1>1 DEF CatalogueInv, CatalogueRight
  <1>4. OpenRight'
    BY <1>1 DEF CatalogueInv, OpenRight
  <1>5. QED
    BY <1>2, <1>3, <1>4 DEF CatalogueInv

(* CatalogueInv is an invariant of the scan of session files.              *)
THEOREM CatalogueInvariant == CatalogueSpec => []CatalogueInv
  <1>1. CatalogueInv /\ [CatalogueNext]_catalogueVars => CatalogueInv'
    BY ReadNamesKeeps, AnswerListKeeps, AnswerOpenKeeps, ReadInfoKeeps, DiskWrites,
       CatalogueUndisturbed
    DEF CatalogueNext
  <1>2. QED
    BY <1>1, CatalogueInitially, PTL DEF CatalogueSpec

-----------------------------------------------------------------------------
LEMMA TrustAccepted ==
    ASSUME TrustInv, NEW n \in Nodes, Validated(n), Consistent(n)
    PROVE  AcceptsTrust(TrustSnapshot(n))
  <1> DEFINE read == call[n].read
             trust == TrustSnapshot(n)
  <1>1. /\ read.decision # "unread" => read.has = "yes"
        /\ read.has = "no" \/ (read.has = "yes" /\ read.decision # "unread")
        /\ (read.has = "yes") = (read.reasons # {})
    BY DEF TrustInv, ReadInOrder, Validated, Inspected, Consistent
  <1>2. /\ trust.reasons = read.reasons /\ trust.decided = (read.decision \in {"yes", "no"})
        /\ trust.status = CASE read.has = "no" -> "notRequired"
                            [] read.has = "yes" /\ read.decision = "yes" -> "trusted"
                            [] read.has = "yes" /\ read.decision = "no" -> "denied"
                            [] OTHER -> "approvalRequired"
    BY DEF TrustSnapshot
  <1> HIDE DEF read, trust
  <1>3. CASE read.has = "no"
    BY <1>1, <1>2, <1>3 DEF AcceptsTrust, trust
  <1>4. CASE read.has = "yes"
    <2>1. trust.status # "notRequired"
      BY <1>2, <1>4
    <2>2. QED
      BY <1>1, <1>2, <1>4, <2>1 DEF AcceptsTrust, trust
  <1>5. QED
    BY <1>1, <1>3, <1>4

LEMMA AnswersFollow ==
    ASSUME 0 \notin Times, TrustInv, QueriesInv, CatalogueInv
    PROVE  AnswersRight
  <1>1. KnownProjectsRight /\ ListedAsItIs /\ CatalogueRight /\ OpenRight
    BY KnownProjects DEF QueriesInv, BrowsingInv, CatalogueInv
  <1>2. browsing.phase = "answered" => AcceptsListing(DirectoryListing)
    BY DEF QueriesInv, BrowsingInv, WalkCounts, AcceptsListing, DirectoryListing
  <1>3. ASSUME listing.phase = "answered"
        PROVE  /\ Cardinality(listing.candidates) <= MaxProjects
               /\ \A d \in listing.candidates : AcceptsKnown(KnownProject(d))
    <2>1. ASSUME NEW d \in listing.candidates
          PROVE  listing.grouped[d].last > 0 /\ listing.grouped[d].count > 0
      <3>1. d \in DOMAIN listing.grouped
        BY <1>3 DEF QueriesInv, ListingInv, ChosenRight
      <3>2. listing.grouped[d].last \in Times /\ listing.grouped[d].count > 0
        BY <3>1 DEF QueriesInv, ListingInv, GroupsRight
      <3>3. listing.grouped[d].last \in Nat /\ listing.grouped[d].last # 0
        BY <3>2, QueriesAssumption
      <3>4. QED
        BY <3>2, <3>3
    <2>2. QED
      BY <1>3, <2>1 DEF QueriesInv, ListingInv, ChosenRight, AcceptsKnown, KnownProject
  <1>4. AnswersAccepted
    BY <1>2, <1>3, TrustAccepted DEF AnswersAccepted
  <1>5. QED
    BY <1>1, <1>4 DEF AnswersRight

(***************************************************************************)
(* Whatever comes and goes on disk, and whatever is asked at the same time:*)
(* the known projects and the content of a directory are answered as they  *)
(* are, a listing of sessions has all and only those there were, one that  *)
(* is opened is the only one, and the codec takes the answers.  No file is *)
(* as old as the epoch, which the codec would not take for a time.         *)
(***************************************************************************)
THEOREM AnswersAreRight ==
    ASSUME 0 \notin Times
    PROVE  TrustSpec /\ QueriesSpec /\ CatalogueSpec => []AnswersRight
  <1>1. TrustInv /\ QueriesInv /\ CatalogueInv => AnswersRight
    BY AnswersFollow
  <1>2. QED
    BY <1>1, TrustInvariant, QueriesInvariant, CatalogueInvariant, PTL
===============================================================================
