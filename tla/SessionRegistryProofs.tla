----------------------- MODULE SessionRegistryProofs -----------------------
(***************************************************************************)
(* Theorems about SessionRegistry, for every value of its constants:       *)
(* type correctness, the leases, the bound on the runtimes, and that no    *)
(* busy session is evicted.                                                *)
(***************************************************************************)
EXTENDS SessionRegistry, FiniteSetTheorems, TLAPS

(* What the function on the executor holds while it awaits: the part of    *)
(* the inductive invariant that the properties do not state themselves.    *)
Plain == {"opening", "admitting", "aborting", "mutating"}
Disposing == {"evicting", "closing", "administering"}

SlotShape ==
    /\ slot.phase = "idle" => slot = Idle
    /\ slot.phase \in Plain => slot.holding = {} /\ slot.dying = {}
    /\ slot.phase \in Disposing => slot.holding = slot.dying
    /\ slot.phase \in Disposing \cup {"discarding"} => \E i \in Ids : slot.dying = {i}
    /\ slot.phase = "draining" =>
           /\ slot.holding = slot.dying /\ slot.rest \subseteq sessions
           /\ slot.dying = {} \/ \E i \in Ids : slot.dying = {i}
           /\ slot.op.kind = "approve" => \A i \in slot.rest : ProjectOf[i] = slot.op.cwd
    /\ slot.phase = "opening" => slot.op.kind \in {"create", "load"}
    /\ slot.phase = "evicting" => slot.op.kind \in {"create", "load"}
    /\ slot.phase = "admitting" => slot.op.kind = "prompt"
    /\ slot.phase = "administering" => slot.op.kind = "admin"
    /\ slot.phase = "draining" => slot.op.kind \in {"approve", "dispose"}
    /\ slot.phase = "mutating" =>
           /\ slot.op.kind = "mutate" /\ slot.op.id \in sessions
           /\ entry[slot.op.id].active = None

Held == SlotShape /\ LeaseMatchesRegistry /\ RuntimesBounded

-----------------------------------------------------------------------------
(* Types of the helpers.                                                   *)

LEMMA BusyType ==
    ASSUME NEW phase \in Phases, NEW op \in Op
    PROVE  /\ Busy(phase, op) \in Slot
           /\ Busy(phase, op).phase = phase /\ Busy(phase, op).op = op
           /\ Busy(phase, op).holding = {} /\ Busy(phase, op).dying = {}
           /\ Busy(phase, op).rest = {}
BY DEF Busy, Slot

LEMMA IdleType ==
    /\ Idle \in Slot /\ Idle.phase = "idle" /\ Idle.holding = {} /\ Idle.dying = {}
<1>1. NoOp \in Op
  BY DEF NoOp, Operation, Op, Kinds
<1>2. QED
  BY <1>1, BusyType DEF Idle, Phases

LEMMA HeadType == TypeOK /\ queue # <<>> => Head(queue) \in Op /\ Tail(queue) \in Seq(Op)
BY DEF TypeOK

LEMMA TouchType ==
    ASSUME TypeOK, NEW L, NEW i \in Ids, Touch(L, i)
    PROVE  newer' \in [Ids -> SUBSET Ids]
BY DEF Touch, TypeOK

LEMMA ForgetType ==
    ASSUME TypeOK, NEW i \in Ids, Forget(i)
    PROVE  newer' \in [Ids -> SUBSET Ids]
BY DEF Forget, TypeOK

LEMMA EntryType ==
    /\ NoEntry \in Entry /\ \A r \in BOOLEAN : NewEntry(r) \in Entry
    /\ \A e \in Entry, c \in Cmds : Admitted(e, c) \in Entry
    /\ TypeOK => \A i \in Ids : MutatedEntry(i) \in Entry
<1>1. /\ NoEntry \in Entry /\ \A r \in BOOLEAN : NewEntry(r) \in Entry
  BY DEF NoEntry, NewEntry, Entry
<1>2. \A e \in Entry, c \in Cmds : Admitted(e, c) \in Entry
  BY DEF Admitted, Entry
<1>3. ASSUME TypeOK, NEW i \in Ids  PROVE  MutatedEntry(i) \in Entry
  <2>1. entry[i] \in Entry /\ BackendRunning(i) \in BOOLEAN
    BY <1>3 DEF TypeOK, BackendRunning, Entry
  <2>2. QED
    BY <2>1 DEF MutatedEntry, Entry
<1>4. QED
  BY <1>1, <1>2, <1>3

LEMMA ExceptType ==
    ASSUME TypeOK, NEW i \in Ids
    PROVE  /\ [entry EXCEPT ![i].active = None, ![i].running = FALSE] \in [Ids -> Entry]
           /\ [entry EXCEPT ![i].active = None, ![i].promptInFlight = None] \in [Ids -> Entry]
           /\ \A c \in Cmds \cup {None} :
                 [entry EXCEPT ![i].promptInFlight = c] \in [Ids -> Entry]
           /\ \A r \in BOOLEAN : [entry EXCEPT ![i].abortRequested = r] \in [Ids -> Entry]
           /\ [entry EXCEPT ![i].agentRunning = TRUE, ![i].running = TRUE] \in [Ids -> Entry]
           /\ [entry EXCEPT ![i].agentRunning = FALSE, ![i].running = FALSE] \in [Ids -> Entry]
           /\ \A l \in SUBSET Watchers : [entry EXCEPT ![i].listeners = l]
                                    \in [Ids -> Entry]
<1>1. \A e \in Entry :
         /\ \A c \in Cmds \cup {None} : [e EXCEPT !.active = c] \in Entry
         /\ \A c \in Cmds \cup {None} : [e EXCEPT !.promptInFlight = c] \in Entry
         /\ \A r \in BOOLEAN : [e EXCEPT !.running = r] \in Entry
         /\ \A r \in BOOLEAN : [e EXCEPT !.agentRunning = r] \in Entry
         /\ \A r \in BOOLEAN : [e EXCEPT !.abortRequested = r] \in Entry
         /\ \A l \in SUBSET Watchers : [e EXCEPT !.listeners = l] \in Entry
  BY DEF Entry
<1>2. \A f \in [Ids -> Entry], e \in Entry : [f EXCEPT ![i] = e] \in [Ids -> Entry]
  OBVIOUS
<1>3. entry \in [Ids -> Entry]
  BY DEF TypeOK
<1>4. QED
  BY <1>1, <1>2, <1>3

LEMMA FinallyType ==
    ASSUME TypeOK, NEW op \in Op, Finally(op)
    PROVE  /\ mutating' \subseteq Ids
           /\ admin' \in [Admins -> [phase : {"idle", "locking", "operating", "unlocking"},
                             alias : Aliases \cup {None}, cwd : Projects \cup {None},
                             id : Ids \cup {None}, deletes : BOOLEAN]]
           /\ command' \in [Cmds -> Answers]
BY DEF Finally, TypeOK, NoAdmin, Answers

LEMMA AdminPhaseType ==
    ASSUME TypeOK, NEW x \in Admins, NEW ph \in {"idle", "locking", "operating", "unlocking"}
    PROVE  [admin EXCEPT ![x].phase = ph] \in
               [Admins -> [phase : {"idle", "locking", "operating", "unlocking"},
                           alias : Aliases \cup {None}, cwd : Projects \cup {None},
                           id : Ids \cup {None}, deletes : BOOLEAN]]
BY ZenonT(60) DEF TypeOK

LEMMA DisposeType ==
    ASSUME TypeOK, NEW i \in Ids, NEW phase \in Phases, NEW op \in Op,
           NEW rest \in SUBSET Ids, BeginDispose(i, phase, op, rest)
    PROVE  /\ sessions' = sessions \ {i} /\ owner' = owner
           /\ entry' \in [Ids -> Entry] /\ newer' \in [Ids -> SUBSET Ids]
           /\ slot' \in Slot /\ slot'.phase = phase /\ slot'.op = op
           /\ slot'.holding = {i} /\ slot'.dying = {i} /\ slot'.rest = rest
<1>1. Forget(i)
  BY DEF BeginDispose
<1>2. slot' = [Busy(phase, op) EXCEPT !.holding = {i}, !.dying = {i}, !.rest = rest]
  BY DEF BeginDispose
<1>3. slot' \in Slot /\ slot'.phase = phase /\ slot'.op = op
      /\ slot'.holding = {i} /\ slot'.dying = {i} /\ slot'.rest = rest
  BY <1>2 DEF Busy, Slot
<1>4. entry' \in [Ids -> Entry]
  BY EntryType DEF BeginDispose, TypeOK
<1>5. QED
  BY <1>1, <1>3, <1>4, ForgetType DEF BeginDispose

LEMMA ReleaseType ==
    ASSUME TypeOK, ReleaseLease
    PROVE  owner' \in [Ids -> {"none", "self", "other"}]
BY DEF ReleaseLease, TypeOK

LEMMA AssumptionType ==
    /\ ProjectOf \in [Ids -> Projects] /\ InitialIds \subseteq Ids
    /\ None \notin Ids \cup Projects \cup Cmds \cup Admins \cup Aliases
BY RegistryAssumption DEF RegistryAssumption

-----------------------------------------------------------------------------
(* TypeOK is preserved.                                                    *)

LEMMA InitType == Init => TypeOK
<1> SUFFICES ASSUME Init PROVE TypeOK
  OBVIOUS
<1>1. entry \in [Ids -> Entry]
  BY EntryType DEF Init
<1>2. slot \in Slot
  BY IdleType DEF Init
<1>3. admin \in [Admins -> [phase : {"idle", "locking", "operating", "unlocking"},
                           alias : Aliases \cup {None}, cwd : Projects \cup {None},
                           id : Ids \cup {None}, deletes : BOOLEAN]]
  BY DEF Init, NoAdmin
<1>4. queue \in Seq(Op) /\ command \in [Cmds -> Answers] /\ used \subseteq Ids
  BY AssumptionType DEF Init, Answers
<1>5. QED
  BY <1>1, <1>2, <1>3, <1>4 DEF Init, TypeOK

LEMMA CallsType == TypeOK /\ Calls => TypeOK'
<1> SUFFICES ASSUME TypeOK, Calls PROVE TypeOK'
  OBVIOUS
<1> USE DEF TypeOK, registryVars, lockVars, commandVars, outsideVars
<1>1. ASSUME NEW op \in Op, Enqueue(op)  PROVE queue' \in Seq(Op)
  BY <1>1 DEF Enqueue
<1>2. CASE Call
  <2>1. \A op \in ClientCalls : op \in Op
    BY DEF ClientCalls, Operation, Op, Kinds
  <2>2. QED
    BY <1>1, <1>2, <2>1 DEF Call
<1>3. ASSUME NEW c \in Cmds, NEW i \in Ids, CallPrompt(c, i)  PROVE TypeOK'
  <2>1. Operation("prompt", None, i, c) \in Op
    BY DEF Operation, Op, Kinds
  <2>2. QED
    BY <1>1, <1>3, <2>1 DEF CallPrompt, Answers
<1>4. ASSUME NEW p \in Projects, NEW i \in Ids, CallMutation(p, i)  PROVE TypeOK'
  <2>1. Operation("mutate", p, i, None) \in Op
    BY DEF Operation, Op, Kinds
  <2>2. QED
    BY <1>1, <1>4, <2>1 DEF CallMutation
<1>5. ASSUME NEW x \in Admins, NEW a \in Aliases, NEW p \in Projects, NEW i \in Ids,
             NEW d \in BOOLEAN, CallAdministration(x, a, p, i, d)
      PROVE  TypeOK'
  <2>1. Operation("admin", p, i, x) \in Op
    BY DEF Operation, Op, Kinds
  <2>2. QED
    BY <1>1, <1>5, <2>1 DEF CallAdministration
<1>6. CASE CallDispose
  <2>1. Operation("dispose", None, None, None) \in Op
    BY DEF Operation, Op, Kinds
  <2>2. QED
    BY <1>1, <1>6, <2>1 DEF CallDispose
<1>7. QED
  BY <1>2, <1>3, <1>4, <1>5, <1>6 DEF Calls

LEMMA CapacityType ==
    ASSUME TypeOK, NEW op \in Op, EnsureCapacity(op), slot.phase = "idle"
    PROVE  /\ slot' \in Slot /\ sessions' \subseteq Ids /\ entry' \in [Ids -> Entry]
           /\ newer' \in [Ids -> SUBSET Ids]
           /\ owner' \in [Ids -> {"none", "self", "other"}]
<1> USE DEF TypeOK
<1>1. CASE slot' = Busy("opening", op) /\ UNCHANGED registryVars
  BY <1>1, BusyType DEF Phases, registryVars
<1>2. ASSUME NEW i \in LeastRecent, BeginDispose(i, "evicting", op, {})
      PROVE  /\ slot' \in Slot /\ sessions' \subseteq Ids /\ entry' \in [Ids -> Entry]
             /\ newer' \in [Ids -> SUBSET Ids]
             /\ owner' \in [Ids -> {"none", "self", "other"}]
  <2>1. i \in Ids /\ "evicting" \in Phases
    BY DEF LeastRecent, Evictable, Phases
  <2>2. QED
    BY <1>2, <2>1, DisposeType
<1>3. CASE UNCHANGED <<slot, registryVars>>
  BY <1>3 DEF registryVars
<1>4. QED
  BY <1>1, <1>2, <1>3 DEF EnsureCapacity

LEMMA ExecuteType == TypeOK /\ SlotShape /\ Execute => TypeOK'
<1> SUFFICES ASSUME TypeOK, SlotShape, Execute PROVE TypeOK'
  OBVIOUS
<1> DEFINE op == Head(queue)
<1> USE DEF TypeOK, registryVars, lockVars, commandVars, outsideVars
<1>1. queue # <<>> /\ op \in Op /\ Tail(queue) \in Seq(Op) /\ slot.phase = "idle"
  BY HeadType DEF Execute, Refuse, CreateSession, LoadSession, ReadSession, CloseSession,
     StartPrompt, SettleCommand, AbortRun, BeginMutation, BeginAdministration, UnlockKey,
     ApproveTrust, Dispose, Ready
<1> HIDE DEF op
<1>a. ASSUME Take PROVE queue' \in Seq(Op)
  BY <1>a, <1>1 DEF Take
<1>b. Phases = {"idle"} \cup Phases /\ {"opening", "admitting", "aborting", "mutating",
         "administering", "closing", "draining", "evicting"} \subseteq Phases
  BY DEF Phases
<1>2. CASE Refuse
  BY <1>2, <1>1, <1>a, FinallyType DEF Refuse, op
<1>3. CASE CreateSession
  <2>1. EnsureCapacity(op) /\ Take
    BY <1>3 DEF CreateSession, op
  <2>2. QED
    BY <1>3, <2>1, <1>1, <1>a, CapacityType DEF CreateSession
<1>4. CASE LoadSession
  <2>1. op.id \in Ids /\ Take
    BY <1>4, <1>1 DEF LoadSession, Op, Ready, op
  <2>2. CASE UNCHANGED <<slot, registryVars>>
    BY <2>1, <2>2, <1>4, <1>a DEF LoadSession
  <2>3. CASE /\ Touch(sessions, op.id) \/ UNCHANGED newer
             /\ UNCHANGED <<slot, sessions, entry, owner>>
    BY <2>1, <2>3, <1>4, <1>a, TouchType DEF LoadSession
  <2>4. CASE EnsureCapacity(op)
    BY <2>1, <2>4, <1>4, <1>1, <1>a, CapacityType DEF LoadSession
  <2>5. QED
    BY <1>4, <2>2, <2>3, <2>4 DEF LoadSession, op
<1>5. CASE ReadSession
  <2>1. op.id \in Ids
    BY <1>5, <1>1 DEF ReadSession, Op, Ready, op
  <2>2. newer' \in [Ids -> SUBSET Ids]
    BY <1>5, <2>1, TouchType DEF ReadSession, op
  <2>3. QED
    BY <1>5, <2>2, <1>a DEF ReadSession
<1>6. CASE CloseSession
  <2>1. op.id \in Ids
    BY <1>6, <1>1 DEF CloseSession, Op, Ready, op
  <2>2. CASE BeginDispose(op.id, "closing", op, {})
    BY <1>6, <2>1, <2>2, <1>1, <1>a, <1>b, DisposeType DEF CloseSession
  <2>3. CASE UNCHANGED <<slot, registryVars>>
    BY <1>6, <2>3, <1>a DEF CloseSession
  <2>4. QED
    BY <1>6, <2>2, <2>3 DEF CloseSession, op
<1>7. CASE StartPrompt
  <2>1. op.id \in Ids /\ op.arg \in Cmds
    BY <1>7, <1>1 DEF StartPrompt, Op, Ready, op
  <2>2. CASE Finally(op) /\ UNCHANGED <<slot, registryVars>>
    BY <1>7, <2>2, <1>1, <1>a, FinallyType DEF StartPrompt
  <2>3. CASE /\ Touch(sessions, op.id)
             /\ command' = [command EXCEPT ![op.arg] = "rejected"]
             /\ UNCHANGED <<slot, sessions, entry, owner, mutating, admin>>
    BY <1>7, <2>1, <2>3, <1>a, TouchType DEF StartPrompt, Answers
  <2>4. CASE /\ Touch(sessions, op.id)
             /\ entry' = [entry EXCEPT ![op.id] = Admitted(@, op.arg)]
             /\ slot' = Busy("admitting", op)
             /\ UNCHANGED <<sessions, owner, mutating, admin, command>>
    <3>1. entry' \in [Ids -> Entry]
      BY <2>1, <2>4, EntryType
    <3>2. slot' \in Slot
      BY <2>4, <1>1, <1>b, BusyType
    <3>3. QED
      BY <1>7, <2>1, <2>4, <3>1, <3>2, <1>a, TouchType DEF StartPrompt
  <2>5. QED
    BY <1>7, <2>2, <2>3, <2>4 DEF StartPrompt, op
<1>8. CASE SettleCommand
  <2>1. op.id \in Ids /\ op.arg \in Cmds
    BY <1>8, <1>1 DEF SettleCommand, Op, Ready, op
  <2>2. CASE UNCHANGED <<entry, command>>
    BY <1>8, <2>2, <1>a DEF SettleCommand
  <2>3. ASSUME NEW completion \in Completions,
               command' = [command EXCEPT ![op.arg] =
                              Outcome(completion, entry[op.id].abortRequested)],
               entry' = [entry EXCEPT ![op.id].active = None, ![op.id].running = FALSE]
        PROVE  TypeOK'
    <3>1. Outcome(completion, entry[op.id].abortRequested) \in Answers
      BY DEF Outcome, Completions, Answers
    <3>2. command' \in [Cmds -> Answers]
      BY <2>3, <3>1
    <3>3. entry' \in [Ids -> Entry]
      BY <2>3, <2>1, ExceptType
    <3>4. QED
      BY <1>8, <3>2, <3>3, <1>a DEF SettleCommand
  <2>4. QED
    BY <1>8, <2>2, <2>3 DEF SettleCommand, op
<1>9. CASE AbortRun
  <2>1. op.id \in Ids /\ op.id = Head(queue).id
    BY <1>9, <1>1 DEF AbortRun, Op, Ready, op
  <2>2. CASE UNCHANGED <<slot, entry, newer, aborted>>
    BY <1>9, <2>2, <1>a DEF AbortRun
  <2>3. CASE Touch(sessions, op.id) /\ UNCHANGED <<slot, entry, aborted>>
    BY <1>9, <2>1, <2>3, <1>a, TouchType DEF AbortRun
  <2>4. CASE /\ Touch(sessions, op.id)
             /\ entry' = [entry EXCEPT ![op.id].abortRequested = AbortMark(op.id)]
             /\ aborted' = aborted \cup ({entry[op.id].active} \ {None})
             /\ slot' = Busy("aborting", op)
    <3>a. AbortMark(op.id) \in BOOLEAN
      BY DEF AbortMark
    <3>b. entry' \in [Ids -> Entry]
      BY <2>1, <2>4, <3>a, ExceptType
    <3>c. aborted' \subseteq Cmds
      BY <2>1, <2>4 DEF Entry
    <3>1. entry' \in [Ids -> Entry] /\ aborted' \subseteq Cmds
      BY <3>b, <3>c
    <3>2. slot' \in Slot
      BY <2>4, <1>1, <1>b, BusyType
    <3>3. QED
      BY <1>9, <2>1, <2>4, <3>1, <3>2, <1>a, TouchType DEF AbortRun
  <2>5. QED
    BY <1>9, <2>1, <2>2, <2>3, <2>4 DEF AbortRun, op
<1>10. CASE BeginMutation
  <2>1. CASE slot' = Busy("mutating", op) /\ UNCHANGED <<mutating, admin, command>>
    BY <1>10, <2>1, <1>1, <1>a, <1>b, BusyType DEF BeginMutation
  <2>2. CASE Finally(op) /\ UNCHANGED slot
    BY <1>10, <2>2, <1>1, <1>a, FinallyType DEF BeginMutation
  <2>3. QED
    BY <1>10, <2>1, <2>2 DEF BeginMutation, op
<1>11. CASE BeginAdministration
  <2>1. op.id \in Ids /\ op.cwd \in Projects /\ op.arg \in Admins
    BY <1>11, <1>1 DEF BeginAdministration, Op, Ready, op
  <2>2. (locked \cup {<<op.cwd, op.id>>}) \subseteq Keys
    BY <2>1 DEF Keys
  <2>3. CASE Take /\ Finally(op) /\ UNCHANGED <<slot, registryVars, locked>>
    BY <1>11, <2>3, <1>1, <1>a, FinallyType DEF BeginAdministration
  <2>4. CASE /\ locked' = locked \cup {<<op.cwd, op.id>>} /\ Take
             /\ BeginDispose(op.id, "administering", op, {})
             /\ UNCHANGED <<mutating, admin, command>>
    BY <1>11, <2>1, <2>2, <2>4, <1>1, <1>a, <1>b, DisposeType DEF BeginAdministration
  <2>5. CASE /\ locked' = locked \cup {<<op.cwd, op.id>>} /\ Take
             /\ admin' = [admin EXCEPT ![op.arg].phase = "operating"]
             /\ UNCHANGED <<slot, registryVars, mutating, command>>
    BY <1>11, <2>1, <2>2, <2>5, <1>a, AdminPhaseType DEF BeginAdministration
  <2>6. CASE /\ locked' = locked \cup {<<op.cwd, op.id>>}
             /\ queue' = Append(Tail(queue), Operation("unlock", op.cwd, op.id, op.arg))
             /\ admin' = [admin EXCEPT ![op.arg].phase = "unlocking"]
             /\ UNCHANGED <<slot, registryVars, mutating, command>>
    <3>1. Operation("unlock", op.cwd, op.id, op.arg) \in Op
      BY <2>1 DEF Operation, Op, Kinds
    <3>2. queue' \in Seq(Op)
      BY <2>6, <3>1, <1>1
    <3>3. QED
      BY <1>11, <2>1, <2>2, <2>6, <3>2, AdminPhaseType DEF BeginAdministration
  <2>7. QED
    BY <1>11, <2>3, <2>4, <2>5, <2>6 DEF BeginAdministration, op
<1>12. CASE UnlockKey
  <2>1. admin' \in [Admins -> [phase : {"idle", "locking", "operating", "unlocking"},
                             alias : Aliases \cup {None}, cwd : Projects \cup {None},
                             id : Ids \cup {None}, deletes : BOOLEAN]]
    BY <1>12 DEF UnlockKey, NoAdmin
  <2>2. QED
    BY <1>12, <2>1, <1>a DEF UnlockKey
<1>13. CASE ApproveTrust
  <2>1. [Busy("draining", op) EXCEPT !.rest = SessionsOf(op.cwd)] \in Slot
    BY <1>1, <1>b DEF Busy, Slot, SessionsOf
  <2>2. QED
    BY <1>13, <2>1, <1>a DEF ApproveTrust, op
<1>14. CASE Dispose
  <2>1. [Busy("draining", op) EXCEPT !.rest = sessions] \in Slot
    BY <1>1, <1>b DEF Busy, Slot
  <2>2. QED
    BY <1>14, <2>1, <1>a DEF Dispose, op
<1>15. QED
  BY <1>2, <1>3, <1>4, <1>5, <1>6, <1>7, <1>8, <1>9, <1>10, <1>11, <1>12, <1>13, <1>14
  DEF Execute

LEMMA UnlockType ==
    ASSUME TypeOK, NEW x \in Admins, Unlock(x)
    PROVE  queue' \in Seq(Op)
<1>1. Operation("unlock", admin[x].cwd, admin[x].id, x) \in Op
  BY DEF TypeOK, Operation, Op, Kinds
<1>2. QED
  BY <1>1 DEF Unlock, Enqueue, TypeOK

LEMMA ResumeType == TypeOK /\ SlotShape /\ Resume => TypeOK'
<1> SUFFICES ASSUME TypeOK, SlotShape, Resume PROVE TypeOK'
  OBVIOUS
<1> USE DEF TypeOK, registryVars, lockVars, commandVars, outsideVars
<1>a. slot.op \in Op /\ slot.rest \subseteq Ids /\ slot.holding \subseteq Ids
  BY DEF Slot
<1>b. \A ph \in {"opening", "discarding"} : ph \in Phases
  BY DEF Phases
<1>c. ASSUME ReleaseLease PROVE owner' \in [Ids -> {"none", "self", "other"}]
  BY <1>c, ReleaseType
<1>1. CASE EvictionReturns
  BY <1>1, <1>a, <1>b, <1>c, BusyType, IdleType DEF EvictionReturns
<1>2. CASE OpenReturns
  <2>1. PICK i \in Ids : used' = used \cup {i} /\ Register(i)
    BY <1>2 DEF OpenReturns
  <2>2. CASE /\ slot' = [Busy("discarding", slot.op) EXCEPT !.dying = {i}]
             /\ UNCHANGED registryVars
    <3>1. slot' \in Slot
      BY <2>2, <1>a, <1>b DEF Busy, Slot
    <3>2. QED
      BY <1>2, <2>1, <2>2, <3>1 DEF OpenReturns
  <2>3. CASE /\ sessions' = sessions \cup {i}
             /\ entry' = [entry EXCEPT ![i] = NewEntry(trust[ProjectOf[i]] = "trusted")]
             /\ owner' = [owner EXCEPT ![i] = "self"]
             /\ Touch(sessions \cup {i}, i)
             /\ slot' = Idle
    <3>1. (trust[ProjectOf[i]] = "trusted") \in BOOLEAN
      OBVIOUS
    <3>2. entry' \in [Ids -> Entry]
      BY <2>3, <3>1, EntryType
    <3>3. newer' \in [Ids -> SUBSET Ids]
      BY <2>3, TouchType
    <3>4. QED
      BY <1>2, <2>1, <2>3, <3>2, <3>3, IdleType DEF OpenReturns
  <2>4. QED
    BY <2>1, <2>2, <2>3 DEF Register
<1>3. CASE OpenFails
  BY <1>3, IdleType DEF OpenFails
<1>4. CASE DiscardReturns
  BY <1>4, <1>a, <1>c, IdleType, FinallyType DEF DiscardReturns
<1>5. CASE CloseReturns
  BY <1>5, <1>c, IdleType DEF CloseReturns
<1>6. CASE AdmissionReturns
  <2>1. slot.op.id \in Ids /\ slot.op.arg \in Cmds
    BY <1>6, <1>a DEF AdmissionReturns, SlotShape, Op
  <2>2. CASE /\ command' \in {[command EXCEPT ![slot.op.arg] = a] : a \in {"accepted", "uncertain"}}
             /\ promise' = [promise EXCEPT ![slot.op.arg] = slot.op.id]
             /\ UNCHANGED entry
    <3>1. command' \in [Cmds -> Answers]
      BY <2>2 DEF Answers
    <3>2. QED
      BY <1>6, <2>1, <2>2, <3>1, IdleType DEF AdmissionReturns
  <2>3. CASE /\ command' = [command EXCEPT ![slot.op.arg] = "rejected"]
             /\ entry' = [entry EXCEPT ![slot.op.id].active = None,
                                       ![slot.op.id].promptInFlight = None]
             /\ UNCHANGED promise
    BY <1>6, <2>1, <2>3, IdleType, ExceptType DEF AdmissionReturns, Answers
  <2>4. QED
    BY <1>6, <2>2, <2>3 DEF AdmissionReturns
<1>7. CASE AbortReturns
  BY <1>7, IdleType DEF AbortReturns
<1>8. CASE MutationThrows
  BY <1>8, <1>a, IdleType, FinallyType DEF MutationThrows
<1>d. ASSUME slot.phase = "mutating"
      PROVE slot.op.id \in Ids /\ MutatedEntry(slot.op.id) \in Entry
  BY <1>d, EntryType DEF SlotShape
<1>9. CASE NavigationReturns
  <2>1. entry' \in [Ids -> Entry] /\ newer' \in [Ids -> SUBSET Ids]
    BY <1>9, <1>d, TouchType DEF NavigationReturns
  <2>2. QED
    BY <1>9, <2>1, <1>a, IdleType, FinallyType DEF NavigationReturns
<1>10. CASE ReplacementReturns
  <2> DEFINE i == slot.op.id
  <2>1. i \in Ids /\ MutatedEntry(i) \in Entry
    BY <1>10, <1>d DEF ReplacementReturns
  <2>2. ASSUME NEW j \in Ids, used' = used \cup {j},
               sessions' = (sessions \ {i}) \cup {j},
               entry' = [entry EXCEPT ![j] = MutatedEntry(i), ![i] = NoEntry],
               RekeyLease(i, j), Touch((sessions \ {i}) \cup {j}, j), Finally(slot.op),
               slot' = Idle
        PROVE  TypeOK'
    <3>1. entry' \in [Ids -> Entry] /\ newer' \in [Ids -> SUBSET Ids]
      BY <2>1, <2>2, EntryType, TouchType
    <3>2. owner' \in [Ids -> {"none", "self", "other"}]
      BY <2>2 DEF RekeyLease
    <3>3. QED
      BY <1>10, <2>1, <2>2, <3>1, <3>2, <1>a, IdleType, FinallyType DEF ReplacementReturns
  <2>3. ASSUME NEW j \in Ids, used' = used \cup {j},
               sessions' = sessions \ {i}, entry' = [entry EXCEPT ![i] = NoEntry],
               Forget(i),
               slot' = [Busy("discarding", slot.op) EXCEPT !.holding = {i}, !.dying = {j}],
               UNCHANGED <<owner, mutating, admin, command>>
        PROVE  TypeOK'
    <3>1. entry' \in [Ids -> Entry] /\ newer' \in [Ids -> SUBSET Ids]
      BY <2>1, <2>3, EntryType, ForgetType
    <3>2. slot' \in Slot
      BY <2>1, <2>3, <1>a, <1>b DEF Busy, Slot
    <3>3. QED
      BY <1>10, <2>1, <2>3, <3>1, <3>2 DEF ReplacementReturns
  <2>4. QED
    BY <1>10, <2>2, <2>3 DEF ReplacementReturns
<1>11. CASE AdministrationDisposed
  <2>1. slot.op.arg \in Admins
    BY <1>11, <1>a DEF AdministrationDisposed, SlotShape, Op
  <2>2. CASE admin' = [admin EXCEPT ![slot.op.arg].phase = "operating"] /\ UNCHANGED queue
    BY <1>11, <2>1, <2>2, <1>c, IdleType, AdminPhaseType DEF AdministrationDisposed
  <2>3. CASE /\ admin' = [admin EXCEPT ![slot.op.arg].phase = "unlocking"]
             /\ Unlock(slot.op.arg)
    BY <1>11, <2>1, <2>3, <1>c, IdleType, AdminPhaseType, UnlockType
    DEF AdministrationDisposed
  <2>4. QED
    BY <1>11, <2>2, <2>3 DEF AdministrationDisposed
<1>12. CASE DrainNext
  <2>1. PICK i \in slot.rest : BeginDispose(i, "draining", slot.op, slot.rest \ {i})
    BY <1>12 DEF DrainNext
  <2>2. i \in Ids /\ (slot.rest \ {i}) \in SUBSET Ids /\ "draining" \in Phases
    BY <1>a DEF Phases
  <2>3. QED
    BY <1>12, <1>a, <2>1, <2>2, DisposeType DEF DrainNext
<1>13. CASE DrainReturns
  <2>1. [slot EXCEPT !.holding = {}, !.dying = {}] \in Slot
    BY DEF Slot
  <2>2. QED
    BY <1>13, <2>1, <1>c, IdleType DEF DrainReturns
<1>14. CASE DrainEnds
  BY <1>14, IdleType DEF DrainEnds
<1>15. QED
  BY <1>1, <1>2, <1>3, <1>4, <1>5, <1>6, <1>7, <1>8, <1>9, <1>10, <1>11, <1>12, <1>13, <1>14
  DEF Resume

LEMMA OutsideType ==
    ASSUME TypeOK,
           \/ \E c \in Cmds : PromptReturns(c)
           \/ \E x \in Admins : AdministrationReturns(x)
           \/ Surroundings
    PROVE  TypeOK'
<1> USE DEF TypeOK, registryVars, lockVars, commandVars, outsideVars
<1>1. ASSUME NEW c \in Cmds, PromptReturns(c)  PROVE TypeOK'
  <2>1. promise[c] \in Ids
    BY <1>1 DEF PromptReturns
  <2>2. entry' \in [Ids -> Entry]
    BY <1>1, <2>1, ExceptType DEF PromptReturns
  <2>3. Operation("settle", None, promise[c], c) \in Op
    BY <2>1 DEF Operation, Op, Kinds
  <2>4. queue' \in Seq(Op)
    BY <1>1, <2>3 DEF PromptReturns, QueueSettlement, Enqueue
  <2>5. QED
    BY <1>1, <2>2, <2>4 DEF PromptReturns
<1>2. ASSUME NEW x \in Admins, AdministrationReturns(x)  PROVE TypeOK'
  <2>1. deleted' \subseteq Ids
    BY <1>2 DEF AdministrationReturns
  <2>2. QED
    BY <1>2, <2>1, AdminPhaseType, UnlockType DEF AdministrationReturns
<1>3. ASSUME NEW w \in Watchers, NEW i \in Ids, Observe(w, i) \/ Unsubscribe(w, i)
      PROVE  TypeOK'
  <2>1. entry[i].listeners \in SUBSET Watchers
    BY DEF Entry
  <2>a. PICK l \in SUBSET Watchers : entry' = [entry EXCEPT ![i].listeners = l]
    BY <1>3, <2>1, ZenonT(60) DEF Observe, Unsubscribe
  <2>2. entry' \in [Ids -> Entry]
    BY <2>a, ExceptType
  <2>3. newer' \in [Ids -> SUBSET Ids]
    BY <1>3, TouchType DEF Observe, Unsubscribe
  <2>4. QED
    BY <1>3, <2>2, <2>3 DEF Observe, Unsubscribe
<1>4. ASSUME NEW i \in Ids, BackendEvent(i)  PROVE TypeOK'
  <2>a. \/ UNCHANGED entry
        \/ entry' = [entry EXCEPT ![i].agentRunning = TRUE, ![i].running = TRUE]
        \/ entry' = [entry EXCEPT ![i].agentRunning = FALSE, ![i].running = FALSE]
    BY <1>4, Zenon DEF BackendEvent
  <2>b. /\ [entry EXCEPT ![i].agentRunning = TRUE, ![i].running = TRUE] \in [Ids -> Entry]
        /\ [entry EXCEPT ![i].agentRunning = FALSE, ![i].running = FALSE] \in [Ids -> Entry]
    BY ExceptType, Zenon
  <2>c. entry \in [Ids -> Entry]
    OBVIOUS
  <2>1. entry' \in [Ids -> Entry]
    BY <2>a, <2>b, <2>c, Zenon
  <2>2. QED
    BY <1>4, <2>1, TouchType DEF BackendEvent
<1>5. ASSUME NEW i \in Ids, OtherService(i)  PROVE TypeOK'
  BY <1>5 DEF OtherService
<1>6. ASSUME NEW p \in Projects, ResourcesAppear(p)  PROVE TypeOK'
  BY <1>6 DEF ResourcesAppear
<1>7. QED
  BY <1>1, <1>2, <1>3, <1>4, <1>5, <1>6 DEF Surroundings

LEMMA NextType == TypeOK /\ SlotShape /\ [Next]_vars => TypeOK'
<1>1. TypeOK /\ UNCHANGED vars => TypeOK'
  BY DEF TypeOK, vars
<1>2. QED
  BY <1>1, CallsType, ExecuteType, ResumeType, OutsideType DEF Next

-----------------------------------------------------------------------------
(* What the slot holds, the leases and the runtimes: preserved.            *)

LEMMA FiniteRuntimes ==
    TypeOK => IsFiniteSet(sessions) /\ IsFiniteSet(sessions \cup slot.dying)
              /\ Cardinality(sessions) \in Nat /\ Cardinality(sessions \cup slot.dying) \in Nat
              /\ Cardinality(sessions) <= Cardinality(sessions \cup slot.dying)
<1> SUFFICES ASSUME TypeOK
             PROVE  IsFiniteSet(sessions) /\ IsFiniteSet(sessions \cup slot.dying)
              /\ Cardinality(sessions) \in Nat /\ Cardinality(sessions \cup slot.dying) \in Nat
              /\ Cardinality(sessions) <= Cardinality(sessions \cup slot.dying)
  OBVIOUS
<1>1. sessions \subseteq Ids /\ (sessions \cup slot.dying) \subseteq Ids /\ IsFiniteSet(Ids)
  BY RegistryAssumption DEF TypeOK, Slot, RegistryAssumption
<1>2. IsFiniteSet(sessions) /\ IsFiniteSet(sessions \cup slot.dying)
  BY <1>1, FS_Subset
<1>3. QED
  BY <1>2, FS_Subset, FS_CardinalityType

(* The executor is free: every lease is a loaded session's. *)
LEMMA IdleHeld ==
    ASSUME TypeOK, Held, slot.phase = "idle"
    PROVE  /\ slot = Idle /\ slot.holding = {} /\ slot.dying = {}
           /\ {i \in Ids : owner[i] = "self"} = sessions
           /\ Cardinality(sessions) \in Nat /\ Cardinality(sessions) <= MaxOpen
<1>1. slot = Idle /\ slot.holding = {} /\ slot.dying = {}
  BY IdleType DEF Held, SlotShape
<1>2. sessions \cup slot.dying = sessions
  BY <1>1
<1>3. QED
  BY <1>1, <1>2, FiniteRuntimes DEF Held, LeaseMatchesRegistry, RuntimesBounded

(* A function ends and gives up the lease it holds. *)
LEMMA EndHeld ==
    ASSUME TypeOK, TypeOK', Held, slot' = Idle, sessions' = sessions, ReleaseLease
    PROVE  Held'
<1>1. SlotShape'
  BY IdleType DEF SlotShape, Plain, Disposing
<1>2. LeaseMatchesRegistry'
  BY IdleType DEF LeaseMatchesRegistry, ReleaseLease, Held
<1>3. RuntimesBounded'
  <2>1. slot'.phase = "idle" /\ sessions' \cup slot'.dying = sessions
    BY IdleType
  <2>2. MaxOpen \in Nat
    BY RegistryAssumption DEF RegistryAssumption
  <2>3. QED
    BY <2>1, <2>2, FiniteRuntimes DEF RuntimesBounded, Held
<1>4. QED
  BY <1>1, <1>2, <1>3 DEF Held

(* A function that holds no lease ends, or leaves the registry alone. *)
LEMMA QuietHeld ==
    ASSUME TypeOK, TypeOK', Held, sessions' = sessions, owner' = owner,
           slot.holding = {}, slot' = Idle
    PROVE  Held'
<1>1. ReleaseLease
  BY DEF ReleaseLease, TypeOK
<1>2. QED
  BY <1>1, EndHeld

LEMMA FrameHeld ==
    ASSUME TypeOK, TypeOK', Held, sessions' = sessions, slot' = slot,
           \A i \in Ids : owner'[i] = "self" <=> owner[i] = "self",
           slot.phase = "mutating" => entry'[slot.op.id].active = entry[slot.op.id].active
    PROVE  Held'
<1>1. SlotShape'
  BY DEF SlotShape, Held, Plain, Disposing
<1>2. LeaseMatchesRegistry'
  BY DEF LeaseMatchesRegistry, Held
<1>3. RuntimesBounded'
  BY DEF RuntimesBounded, Held
<1>4. QED
  BY <1>1, <1>2, <1>3 DEF Held

(* #disposeEntry up to its await. *)
LEMMA DisposeHeld ==
    ASSUME TypeOK, TypeOK', Held, slot.holding = {}, slot.dying = {},
           slot.phase \in {"idle", "draining"},
           NEW i \in sessions, NEW phase \in Disposing \cup {"draining"}, NEW op \in Op,
           NEW rest \in SUBSET (sessions \ {i}),
           BeginDispose(i, phase, op, rest),
           phase = "evicting" => op.kind \in {"create", "load"},
           phase = "administering" => op.kind = "admin",
           phase = "draining" =>
               /\ op.kind \in {"approve", "dispose"}
               /\ op.kind = "approve" => \A j \in rest : ProjectOf[j] = op.cwd
    PROVE  Held'
<1>0. i \in Ids /\ phase \in Phases /\ rest \in SUBSET Ids
  BY DEF TypeOK, Disposing, Phases
<1>a. /\ sessions' = sessions \ {i} /\ owner' = owner
      /\ slot'.phase = phase /\ slot'.op = op
      /\ slot'.holding = {i} /\ slot'.dying = {i} /\ slot'.rest = rest
  BY <1>0, DisposeType
<1>1. SlotShape'
  BY <1>0, <1>a DEF SlotShape, Plain, Disposing
<1>2. LeaseMatchesRegistry'
  BY <1>a DEF LeaseMatchesRegistry, Held
<1>3. RuntimesBounded'
  <2>1. sessions' \cup slot'.dying = sessions \cup slot.dying
    BY <1>a
  <2>2. slot'.phase # "opening" /\ slot.phase # "opening"
    BY <1>a DEF Disposing
  <2>3. QED
    BY <2>1, <2>2 DEF RuntimesBounded, Held
<1>4. QED
  BY <1>1, <1>2, <1>3 DEF Held

LEMMA InitHeld == Init => Held
<1> SUFFICES ASSUME Init PROVE Held
  OBVIOUS
<1>1. slot.phase = "idle" /\ slot = Idle /\ slot.holding = {} /\ slot.dying = {}
  BY IdleType DEF Init
<1>2. SlotShape
  BY <1>1 DEF SlotShape, Plain, Disposing
<1>3. LeaseMatchesRegistry
  BY <1>1 DEF LeaseMatchesRegistry, Init
<1>4. RuntimesBounded
  <2>1. sessions \cup slot.dying = {}
    BY <1>1 DEF Init
  <2>2. Cardinality(sessions \cup slot.dying) = 0
    BY <2>1, FS_EmptySet
  <2>3. QED
    BY <1>1, <2>2, RegistryAssumption DEF RuntimesBounded, RegistryAssumption
<1>5. QED
  BY <1>2, <1>3, <1>4 DEF Held

LEMMA CallsHeld == TypeOK /\ TypeOK' /\ Held /\ Calls => Held'
<1> SUFFICES ASSUME TypeOK, TypeOK', Held, Calls PROVE Held'
  OBVIOUS
<1>1. UNCHANGED <<slot, sessions, owner, entry>>
  BY DEF Calls, Call, CallPrompt, CallMutation, CallAdministration, CallDispose, registryVars
<1>2. QED
  BY <1>1, FrameHeld

(* The executor takes a function that changes neither slot nor registry. *)
LEMMA IdleFrame ==
    ASSUME TypeOK, TypeOK', Held, slot.phase = "idle", UNCHANGED <<slot, sessions, owner>>
    PROVE  Held'
BY FrameHeld

(* ... or starts to await something that holds no lease and no runtime. *)
LEMMA PlainHeld ==
    ASSUME TypeOK, TypeOK', Held, slot.phase = "idle", UNCHANGED <<sessions, owner>>,
           NEW phase \in {"opening", "admitting", "aborting", "mutating"}, NEW op \in Op,
           slot' = Busy(phase, op),
           phase = "opening" => HasRoom /\ op.kind \in {"create", "load"},
           phase = "admitting" => op.kind = "prompt",
           phase = "mutating" => /\ op.kind = "mutate" /\ op.id \in sessions
                                 /\ entry'[op.id].active = None
    PROVE  Held'
<1>1. /\ slot'.phase = phase /\ slot'.op = op
      /\ slot'.holding = {} /\ slot'.dying = {} /\ slot'.rest = {}
  BY BusyType DEF Phases
<1>2. SlotShape'
  BY <1>1 DEF SlotShape, Plain, Disposing
<1>3. LeaseMatchesRegistry'
  BY <1>1, IdleHeld DEF LeaseMatchesRegistry
<1>4. RuntimesBounded'
  <2>1. sessions' \cup slot'.dying = sessions
    BY <1>1
  <2>2. CASE phase = "opening"
    <3>1. Cardinality(sessions) \in Nat /\ Cardinality(sessions) < MaxOpen
      BY <2>2, IdleHeld DEF HasRoom
    <3>2. MaxOpen \in Nat
      BY RegistryAssumption DEF RegistryAssumption
    <3>3. Cardinality(sessions) + 1 <= MaxOpen
      BY <3>1, <3>2
    <3>4. QED
      BY <2>1, <2>2, <1>1, <3>3 DEF RuntimesBounded
  <2>3. CASE phase # "opening"
    BY <2>1, <2>3, <1>1, IdleHeld, RegistryAssumption DEF RuntimesBounded, RegistryAssumption
  <2>4. QED
    BY <2>2, <2>3
<1>5. QED
  BY <1>2, <1>3, <1>4 DEF Held

LEMMA CapacityHeld ==
    ASSUME TypeOK, TypeOK', Held, slot.phase = "idle", NEW op \in Op, EnsureCapacity(op),
           op.kind \in {"create", "load"}
    PROVE  Held'
<1>1. CASE HasRoom /\ slot' = Busy("opening", op) /\ UNCHANGED registryVars
  BY <1>1, PlainHeld DEF registryVars
<1>2. CASE \E i \in LeastRecent : BeginDispose(i, "evicting", op, {})
  <2>1. PICK i \in LeastRecent : BeginDispose(i, "evicting", op, {})
    BY <1>2
  <2>2. i \in sessions /\ "evicting" \in Disposing \cup {"draining"}
        /\ {} \in SUBSET (sessions \ {i})
    BY DEF LeastRecent, Evictable, Disposing
  <2>3. slot.holding = {} /\ slot.dying = {}
    BY IdleHeld
  <2>4. QED
    BY <2>1, <2>2, <2>3, DisposeHeld
<1>3. CASE UNCHANGED <<slot, registryVars>>
  BY <1>3, IdleFrame DEF registryVars
<1>4. QED
  BY <1>1, <1>2, <1>3 DEF EnsureCapacity

LEMMA ExecuteHeld == TypeOK /\ TypeOK' /\ Held /\ Execute => Held'
<1> SUFFICES ASSUME TypeOK, TypeOK', Held, Execute PROVE Held'
  OBVIOUS
<1> DEFINE op == Head(queue)
<1> USE DEF registryVars
<1>1. queue # <<>> /\ op \in Op /\ slot.phase = "idle"
  BY HeadType DEF Execute, Refuse, CreateSession, LoadSession, ReadSession, CloseSession,
     StartPrompt, SettleCommand, AbortRun, BeginMutation, BeginAdministration, UnlockKey,
     ApproveTrust, Dispose, Ready
<1> HIDE DEF op
<1>2. slot.holding = {} /\ slot.dying = {}
  BY <1>1, IdleHeld
<1>3. ASSUME UNCHANGED <<slot, sessions, owner>> PROVE Held'
  BY <1>1, <1>3, IdleFrame
<1>4. ASSUME NEW i \in sessions, NEW phase \in {"closing", "administering"},
             BeginDispose(i, phase, op, {}), phase = "administering" => op.kind = "admin"
      PROVE  Held'
  <2>1. phase \in Disposing \cup {"draining"} /\ {} \in SUBSET (sessions \ {i})
    BY DEF Disposing
  <2>2. QED
    BY <1>1, <1>2, <1>4, <2>1, DisposeHeld
<1>5. CASE Refuse \/ ReadSession \/ SettleCommand \/ UnlockKey
  BY <1>3, <1>5 DEF Refuse, ReadSession, SettleCommand, UnlockKey
<1>6. CASE CreateSession
  BY <1>1, <1>6, CapacityHeld DEF CreateSession, Ready, op
<1>7. CASE LoadSession
  BY <1>1, <1>3, <1>7, CapacityHeld DEF LoadSession, Ready, op
<1>8. CASE CloseSession
  BY <1>3, <1>4, <1>8 DEF CloseSession, op
<1>9. CASE StartPrompt
  <2>1. CASE slot' = Busy("admitting", op) /\ UNCHANGED <<sessions, owner>>
    BY <1>1, <1>9, <2>1, PlainHeld DEF StartPrompt, Ready, op
  <2>2. QED
    BY <1>3, <1>9, <2>1 DEF StartPrompt, op
<1>10. CASE AbortRun
  <2>1. CASE slot' = Busy("aborting", op) /\ UNCHANGED <<sessions, owner>>
    BY <1>1, <2>1, PlainHeld
  <2>2. QED
    BY <1>3, <1>10, <2>1 DEF AbortRun, op
<1>11. CASE BeginMutation
  <2>1. CASE MayMutate(op) /\ slot' = Busy("mutating", op)
    <3>1. op.kind = "mutate" /\ op.id \in sessions /\ entry'[op.id].active = None
      BY <1>11, <2>1 DEF BeginMutation, Ready, MayMutate, IdleEntry, op
    <3>2. QED
      BY <1>1, <1>11, <2>1, <3>1, PlainHeld DEF BeginMutation
  <2>2. QED
    BY <1>3, <1>11, <2>1 DEF BeginMutation, op
<1>12. CASE BeginAdministration
  BY <1>3, <1>4, <1>12 DEF BeginAdministration, Ready, op
<1>13. ASSUME NEW rest \in SUBSET sessions, op.kind \in {"approve", "dispose"},
              op.kind = "approve" => \A i \in rest : ProjectOf[i] = op.cwd,
              slot' = [Busy("draining", op) EXCEPT !.rest = rest],
              UNCHANGED <<sessions, owner>>
       PROVE  Held'
  <2>1. /\ slot'.phase = "draining" /\ slot'.op = op
        /\ slot'.holding = {} /\ slot'.dying = {} /\ slot'.rest = rest
    BY <1>13 DEF Busy
  <2>2. SlotShape'
    BY <1>13, <2>1 DEF SlotShape, Plain, Disposing
  <2>3. LeaseMatchesRegistry'
    BY <1>1, <1>13, <2>1, IdleHeld DEF LeaseMatchesRegistry
  <2>4. RuntimesBounded'
    <3>1. sessions' \cup slot'.dying = sessions
      BY <1>13, <2>1
    <3>2. QED
      BY <1>1, <2>1, <3>1, IdleHeld, RegistryAssumption DEF RuntimesBounded, RegistryAssumption
  <2>5. QED
    BY <2>2, <2>3, <2>4 DEF Held
<1>14. CASE ApproveTrust
  <2>1. /\ SessionsOf(op.cwd) \in SUBSET sessions
        /\ \A i \in SessionsOf(op.cwd) : ProjectOf[i] = op.cwd
    BY DEF SessionsOf
  <2>2. QED
    BY <1>3, <1>13, <1>14, <2>1 DEF ApproveTrust, Ready, op
<1>15. CASE Dispose
  BY <1>13, <1>15 DEF Dispose, Ready, op
<1>16. QED
  BY <1>5, <1>6, <1>7, <1>8, <1>9, <1>10, <1>11, <1>12, <1>14, <1>15 DEF Execute

LEMMA ResumeHeld == TypeOK /\ TypeOK' /\ Held /\ Resume => Held'
<1> SUFFICES ASSUME TypeOK, TypeOK', Held, Resume PROVE Held'
  OBVIOUS
<1> USE DEF registryVars
<1>a. MaxOpen \in Nat
  BY RegistryAssumption DEF RegistryAssumption
<1>b. slot.op \in Op
  BY DEF TypeOK, Slot
<1>1. CASE EvictionReturns
  <2>1. CASE slot' = Idle
    BY <1>1, <2>1, EndHeld DEF EvictionReturns
  <2>2. CASE slot' = Busy("opening", slot.op)
    <3>1. slot'.phase = "opening" /\ slot'.op = slot.op /\ slot'.holding = {} /\ slot'.dying = {}
      BY <2>2, <1>b, BusyType DEF Phases
    <3>2. PICK i \in Ids : slot.dying = {i} /\ slot.holding = {i} /\ i \notin sessions
      BY <1>1 DEF EvictionReturns, Held, SlotShape, Disposing, LeaseMatchesRegistry
    <3>3. SlotShape'
      BY <1>1, <3>1 DEF EvictionReturns, SlotShape, Held, Plain, Disposing
    <3>4. LeaseMatchesRegistry'
      BY <1>1, <3>1 DEF EvictionReturns, LeaseMatchesRegistry, Held, ReleaseLease
    <3>5. RuntimesBounded'
      <4>1. Cardinality(sessions \cup {i}) = Cardinality(sessions) + 1
        BY <3>2, FiniteRuntimes, FS_AddElement
      <4>2. Cardinality(sessions \cup slot.dying) <= MaxOpen
        BY <1>1, FiniteRuntimes DEF EvictionReturns, RuntimesBounded, Held
      <4>3. sessions' \cup slot'.dying = sessions /\ sessions \cup slot.dying = sessions \cup {i}
        BY <1>1, <3>1, <3>2 DEF EvictionReturns
      <4>4. QED
        BY <1>a, <3>1, <4>1, <4>2, <4>3 DEF RuntimesBounded
    <3>6. QED
      BY <3>3, <3>4, <3>5 DEF Held
  <2>3. QED
    BY <1>1, <2>1, <2>2 DEF EvictionReturns
<1>2. CASE OpenReturns
  <2>1. PICK i \in Ids : Register(i)
    BY <1>2 DEF OpenReturns
  <2>2. slot.phase = "opening" /\ slot.holding = {} /\ slot.dying = {}
    BY <1>2 DEF OpenReturns, Held, SlotShape, Plain
  <2>3. IsFiniteSet(sessions \cup {i}) /\ Cardinality(sessions \cup {i}) \in Nat
        /\ Cardinality(sessions \cup {i}) <= MaxOpen
    <3>1. /\ IsFiniteSet(sessions \cup {i})
          /\ Cardinality(sessions \cup {i}) = Cardinality(sessions)
             \/ Cardinality(sessions \cup {i}) = Cardinality(sessions) + 1
      BY FiniteRuntimes, FS_AddElement
    <3>2. sessions \cup slot.dying = sessions
      BY <2>2
    <3>3. Cardinality(sessions) \in Nat /\ Cardinality(sessions) + 1 <= MaxOpen
      BY <2>2, <3>2, FiniteRuntimes DEF RuntimesBounded, Held
    <3>4. QED
      BY <1>a, <3>1, <3>3
  <2>4. CASE /\ i \in sessions \/ owner[i] = "other"
             /\ slot' = [Busy("discarding", slot.op) EXCEPT !.dying = {i}]
             /\ UNCHANGED registryVars
    <3>1. slot'.phase = "discarding" /\ slot'.holding = {} /\ slot'.dying = {i}
      BY <2>4 DEF Busy
    <3>2. SlotShape'
      BY <3>1 DEF SlotShape, Plain, Disposing
    <3>3. LeaseMatchesRegistry'
      BY <2>2, <2>4, <3>1 DEF LeaseMatchesRegistry, Held
    <3>4. RuntimesBounded'
      BY <1>a, <2>3, <2>4, <3>1 DEF RuntimesBounded
    <3>5. QED
      BY <3>2, <3>3, <3>4 DEF Held
  <2>5. CASE /\ sessions' = sessions \cup {i}
             /\ owner' = [owner EXCEPT ![i] = "self"]
             /\ slot' = Idle
    <3>1. slot'.phase = "idle" /\ slot'.holding = {} /\ slot'.dying = {}
      BY <2>5, IdleType
    <3>2. SlotShape'
      BY <2>5, <3>1 DEF SlotShape, Plain, Disposing
    <3>3. LeaseMatchesRegistry'
      BY <2>2, <2>5, <3>1 DEF LeaseMatchesRegistry, Held, TypeOK
    <3>4. RuntimesBounded'
      <4>1. sessions' \cup slot'.dying = sessions \cup {i}
        BY <2>5, <3>1
      <4>2. QED
        BY <1>a, <2>3, <4>1, <3>1 DEF RuntimesBounded
    <3>5. QED
      BY <3>2, <3>3, <3>4 DEF Held
  <2>6. QED
    BY <2>1, <2>4, <2>5 DEF Register
<1>3. CASE OpenFails \/ AbortReturns \/ MutationThrows
  <2>1. slot.holding = {}
    BY <1>3 DEF OpenFails, AbortReturns, MutationThrows, Held, SlotShape, Plain
  <2>2. QED
    BY <1>3, <2>1, QuietHeld DEF OpenFails, AbortReturns, MutationThrows
<1>4. CASE DiscardReturns \/ CloseReturns \/ AdministrationDisposed
  BY <1>4, EndHeld DEF DiscardReturns, CloseReturns, AdministrationDisposed
<1>5. CASE AdmissionReturns \/ NavigationReturns
  <2>1. slot.holding = {}
    BY <1>5 DEF AdmissionReturns, NavigationReturns, Held, SlotShape, Plain
  <2>2. QED
    BY <1>5, <2>1, QuietHeld DEF AdmissionReturns, NavigationReturns
<1>6. CASE ReplacementReturns
  <2> DEFINE i == slot.op.id
  <2>1. /\ slot.phase = "mutating" /\ slot.holding = {} /\ slot.dying = {}
        /\ i \in sessions /\ i \in Ids
    BY <1>6 DEF ReplacementReturns, Held, SlotShape, Plain, TypeOK
  <2>2. Cardinality(sessions) \in Nat /\ Cardinality(sessions) <= MaxOpen
    <3>1. sessions \cup slot.dying = sessions
      BY <2>1
    <3>2. QED
      BY <2>1, <3>1, FiniteRuntimes DEF RuntimesBounded, Held
  <2>3. ASSUME NEW j \in Ids
        PROVE  /\ Cardinality((sessions \ {i}) \cup {j}) \in Nat
               /\ Cardinality((sessions \ {i}) \cup {j}) <= MaxOpen
    <3>1. /\ IsFiniteSet(sessions \ {i})
          /\ Cardinality(sessions \ {i}) = Cardinality(sessions) - 1
      BY <2>1, FiniteRuntimes, FS_RemoveElement
    <3>2. \/ Cardinality((sessions \ {i}) \cup {j}) = Cardinality(sessions \ {i})
          \/ Cardinality((sessions \ {i}) \cup {j}) = Cardinality(sessions \ {i}) + 1
      BY <3>1, FS_AddElement
    <3>3. Cardinality(sessions \ {i}) \in Nat
      BY <3>1, FS_CardinalityType
    <3>4. QED
      BY <1>a, <2>2, <3>1, <3>2, <3>3
  <2>4. ASSUME NEW j \in Ids, j \notin sessions, owner[j] # "other",
               sessions' = (sessions \ {i}) \cup {j}, RekeyLease(i, j), slot' = Idle
        PROVE  Held'
    <3>1. slot'.phase = "idle" /\ slot'.holding = {} /\ slot'.dying = {}
      BY <2>4, IdleType
    <3>2. SlotShape'
      BY <2>4, <3>1 DEF SlotShape, Plain, Disposing
    <3>3. LeaseMatchesRegistry'
      BY <2>1, <2>4, <3>1 DEF LeaseMatchesRegistry, Held, TypeOK, RekeyLease
    <3>4. RuntimesBounded'
      <4>1. sessions' \cup slot'.dying = (sessions \ {i}) \cup {j}
        BY <2>4, <3>1
      <4>2. QED
        BY <1>a, <2>3, <4>1, <3>1 DEF RuntimesBounded
    <3>5. QED
      BY <3>2, <3>3, <3>4 DEF Held
  <2>5. ASSUME NEW j \in Ids, sessions' = sessions \ {i}, owner' = owner,
               slot' = [Busy("discarding", slot.op) EXCEPT !.holding = {i}, !.dying = {j}]
        PROVE  Held'
    <3>1. slot'.phase = "discarding" /\ slot'.holding = {i} /\ slot'.dying = {j}
      BY <2>5 DEF Busy
    <3>2. SlotShape'
      BY <3>1 DEF SlotShape, Plain, Disposing
    <3>3. LeaseMatchesRegistry'
      BY <2>1, <2>5, <3>1 DEF LeaseMatchesRegistry, Held, TypeOK
    <3>4. RuntimesBounded'
      <4>1. sessions' \cup slot'.dying = (sessions \ {i}) \cup {j}
        BY <2>5, <3>1
      <4>2. QED
        BY <1>a, <2>3, <4>1, <3>1 DEF RuntimesBounded
    <3>5. QED
      BY <3>2, <3>3, <3>4 DEF Held
  <2>6. QED
    BY <1>6, <2>4, <2>5 DEF ReplacementReturns
<1>7. CASE DrainNext
  <2>1. PICK i \in slot.rest : BeginDispose(i, "draining", slot.op, slot.rest \ {i})
    BY <1>7 DEF DrainNext
  <2>2. /\ slot.phase = "draining" /\ slot.dying = {} /\ slot.holding = {}
        /\ slot.rest \subseteq sessions /\ slot.op.kind \in {"approve", "dispose"}
        /\ slot.op.kind = "approve" => \A j \in slot.rest : ProjectOf[j] = slot.op.cwd
    BY <1>7 DEF DrainNext, Held, SlotShape
  <2>3. i \in sessions /\ (slot.rest \ {i}) \in SUBSET (sessions \ {i})
    BY <2>2
  <2>4. QED
    BY <1>b, <2>1, <2>2, <2>3, DisposeHeld
<1>8. CASE DrainReturns
  <2>1. CASE slot' = Idle
    BY <1>8, <2>1, EndHeld DEF DrainReturns
  <2>2. CASE slot' = [slot EXCEPT !.holding = {}, !.dying = {}]
    <3>1. /\ slot'.phase = "draining" /\ slot'.op = slot.op /\ slot'.rest = slot.rest
          /\ slot'.holding = {} /\ slot'.dying = {}
      BY <1>8, <2>2 DEF DrainReturns, TypeOK, Slot
    <3>2. SlotShape'
      BY <1>8, <3>1 DEF DrainReturns, SlotShape, Held, Plain, Disposing
    <3>3. LeaseMatchesRegistry'
      BY <1>8, <3>1 DEF DrainReturns, LeaseMatchesRegistry, Held, ReleaseLease
    <3>4. RuntimesBounded'
      <4>1. sessions' \cup slot'.dying = sessions
        BY <1>8, <3>1 DEF DrainReturns
      <4>2. Cardinality(sessions \cup slot.dying) <= MaxOpen
        BY <1>8, FiniteRuntimes DEF DrainReturns, RuntimesBounded, Held
      <4>3. QED
        BY <1>a, <3>1, <4>1, <4>2, FiniteRuntimes DEF RuntimesBounded
    <3>5. QED
      BY <3>2, <3>3, <3>4 DEF Held
  <2>3. QED
    BY <1>8, <2>1, <2>2 DEF DrainReturns
<1>9. CASE DrainEnds
  <2>1. slot.holding = {}
    BY <1>9 DEF DrainEnds, Held, SlotShape
  <2>2. QED
    BY <1>9, <2>1, QuietHeld DEF DrainEnds
<1>10. QED
  BY <1>1, <1>2, <1>3, <1>4, <1>5, <1>6, <1>7, <1>8, <1>9 DEF Resume

LEMMA OutsideHeld ==
    ASSUME TypeOK, TypeOK', Held,
           \/ \E c \in Cmds : PromptReturns(c)
           \/ \E x \in Admins : AdministrationReturns(x)
           \/ Surroundings
    PROVE  Held'
<1> USE DEF registryVars
<1>1. ASSUME NEW c \in Cmds, PromptReturns(c)  PROVE Held'
  <2>1. \A i \in Ids : entry'[i].active = entry[i].active
    BY <1>1 DEF PromptReturns, TypeOK, Entry
  <2>2. slot.phase = "mutating" => slot.op.id \in Ids
    BY DEF Held, SlotShape, TypeOK
  <2>3. QED
    BY <1>1, <2>1, <2>2, FrameHeld DEF PromptReturns
<1>2. ASSUME NEW x \in Admins, AdministrationReturns(x)  PROVE Held'
  BY <1>2, FrameHeld DEF AdministrationReturns
<1>3. ASSUME NEW w \in Watchers, NEW i \in Ids, Observe(w, i) \/ Unsubscribe(w, i)
      PROVE  Held'
  <2>1. \A j \in Ids : entry'[j].active = entry[j].active
    BY <1>3, SMTT(30) DEF Observe, Unsubscribe, TypeOK, Entry
  <2>2. slot.phase = "mutating" => slot.op.id \in Ids
    BY DEF Held, SlotShape, TypeOK
  <2>3. QED
    BY <1>3, <2>1, <2>2, FrameHeld DEF Observe, Unsubscribe
<1>4. ASSUME NEW i \in Ids, BackendEvent(i)  PROVE Held'
  <2>a. \/ UNCHANGED entry
        \/ entry' = [entry EXCEPT ![i].agentRunning = TRUE, ![i].running = TRUE]
        \/ entry' = [entry EXCEPT ![i].agentRunning = FALSE, ![i].running = FALSE]
    BY <1>4, Zenon DEF BackendEvent
  <2>1. \A j \in Ids : entry'[j].active = entry[j].active
    BY <2>a DEF TypeOK, Entry
  <2>2. slot.phase = "mutating" => slot.op.id \in Ids
    BY DEF Held, SlotShape, TypeOK
  <2>3. QED
    BY <1>4, <2>1, <2>2, FrameHeld DEF BackendEvent
<1>5. ASSUME NEW i \in Ids, OtherService(i)  PROVE Held'
  <2>1. \A j \in Ids : owner'[j] = "self" <=> owner[j] = "self"
    BY <1>5 DEF OtherService, TypeOK
  <2>2. QED
    BY <1>5, <2>1, FrameHeld DEF OtherService
<1>6. ASSUME NEW p \in Projects, ResourcesAppear(p)  PROVE Held'
  BY <1>6, FrameHeld DEF ResourcesAppear
<1>7. QED
  BY <1>1, <1>2, <1>3, <1>4, <1>5, <1>6 DEF Surroundings

LEMMA NextHeld == TypeOK /\ TypeOK' /\ Held /\ [Next]_vars => Held'
<1>1. TypeOK /\ TypeOK' /\ Held /\ UNCHANGED vars => Held'
  BY FrameHeld DEF vars
<1>2. QED
  BY <1>1, CallsHeld, ExecuteHeld, ResumeHeld, OutsideHeld DEF Next

-----------------------------------------------------------------------------
(* The theorems.                                                           *)

LEMMA InductiveInvariant == Spec => [](TypeOK /\ Held)
<1>1. Init => TypeOK /\ Held
  BY InitType, InitHeld
<1>2. TypeOK /\ Held /\ [Next]_vars => (TypeOK /\ Held)'
  BY NextType, NextHeld DEF Held
<1>3. QED
  BY <1>1, <1>2, PTL DEF Spec

(* Every variable keeps its type, whatever the interleaving of calls,      *)
(* executor functions and callbacks.                                       *)
THEOREM TypeCorrect == Spec => []TypeOK
BY InductiveInvariant, PTL

(* The service holds the lease of exactly the loaded sessions and of the   *)
(* one it is disposing: registration, rekeying and #disposeEntry together. *)
THEOREM LeasesCorrect == Spec => []LeaseMatchesRegistry
<1>1. Held => LeaseMatchesRegistry
  BY DEF Held
<1>2. QED
  BY <1>1, InductiveInvariant, PTL

(* There are never more runtimes than maxOpenSessions, counting the one    *)
(* that is being opened, disposed or discarded.                            *)
THEOREM CapacityCorrect == Spec => []RuntimesBounded
<1>1. Held => RuntimesBounded
  BY DEF Held
<1>2. QED
  BY <1>1, InductiveInvariant, PTL

-----------------------------------------------------------------------------
(* Who may close a busy session.                                           *)

MayLeave(i) ==
    \/ entry[i].active = None /\ entry[i].listeners = {}
    \/ slot'.phase = "draining" /\ slot'.op.kind = "dispose"
    \/ slot'.op.kind \in {"close", "admin"} /\ slot'.op.id = i
    \/ slot'.op.kind = "approve" /\ slot'.op.cwd = ProjectOf[i]
    \/ slot.op.kind = "mutate" /\ slot.op.id = i /\ entry[i].active = None

LEMMA ExecuteLeaves ==
    ASSUME TypeOK, Held, Execute, NEW i \in sessions \ sessions'
    PROVE  MayLeave(i)
<1> DEFINE op == Head(queue)
<1> USE DEF registryVars
<1>1. ASSUME NEW j \in Ids, NEW phase \in {"closing", "administering"},
             BeginDispose(j, phase, op, {}), queue # <<>>
      PROVE  i = j /\ slot'.op = op
  <2>1. phase \in Phases /\ op \in Op
    BY <1>1, HeadType DEF Phases
  <2>2. QED
    BY <1>1, <2>1, DisposeType
<1>2. CASE CloseSession
  <2>1. op.kind = "close" /\ queue # <<>> /\ op.id \in Ids
    BY <1>2, HeadType DEF CloseSession, Ready, Op
  <2>2. BeginDispose(op.id, "closing", op, {})
    BY <1>2 DEF CloseSession
  <2>3. QED
    BY <1>1, <2>1, <2>2 DEF MayLeave
<1>3. CASE BeginAdministration
  <2>1. op.kind = "admin" /\ queue # <<>> /\ op.id \in Ids
    BY <1>3, HeadType DEF BeginAdministration, Ready, Op
  <2>2. BeginDispose(op.id, "administering", op, {})
    BY <1>3 DEF BeginAdministration
  <2>3. QED
    BY <1>1, <2>1, <2>2 DEF MayLeave
<1>4. CASE CreateSession \/ LoadSession
  <2>1. EnsureCapacity(op)
    BY <1>4 DEF CreateSession, LoadSession
  <2>2. PICK j \in LeastRecent : sessions' = sessions \ {j}
    BY <2>1 DEF EnsureCapacity, BeginDispose
  <2>3. i = j
    BY <2>2
  <2>4. QED
    BY <2>2, <2>3 DEF MayLeave, LeastRecent, Evictable, IdleEntry
<1>5. QED
  BY <1>2, <1>3, <1>4 DEF Execute, Refuse, ReadSession, StartPrompt, SettleCommand, AbortRun,
     BeginMutation, UnlockKey, ApproveTrust, Dispose

LEMMA ResumeLeaves ==
    ASSUME TypeOK, Held, Resume, NEW i \in sessions \ sessions'
    PROVE  MayLeave(i)
<1> USE DEF registryVars
<1>1. CASE ReplacementReturns
  <2>1. i = slot.op.id
    BY <1>1 DEF ReplacementReturns
  <2>2. slot.op.kind = "mutate" /\ entry[slot.op.id].active = None
    BY <1>1 DEF ReplacementReturns, Held, SlotShape
  <2>3. QED
    BY <2>1, <2>2 DEF MayLeave
<1>2. CASE DrainNext
  <2>1. PICK j \in slot.rest : BeginDispose(j, "draining", slot.op, slot.rest \ {j})
    BY <1>2 DEF DrainNext
  <2>2. j \in Ids /\ "draining" \in Phases /\ slot.op \in Op /\ (slot.rest \ {j}) \in SUBSET Ids
    BY DEF TypeOK, Slot, Phases
  <2>3. i = j /\ slot'.op = slot.op /\ slot'.phase = "draining"
    BY <2>1, <2>2, DisposeType
  <2>4. /\ slot.op.kind \in {"approve", "dispose"}
        /\ slot.op.kind = "approve" => ProjectOf[j] = slot.op.cwd
    BY <1>2 DEF DrainNext, Held, SlotShape
  <2>5. QED
    BY <2>3, <2>4 DEF MayLeave
<1>3. CASE OpenReturns
  BY <1>3 DEF OpenReturns, Register
<1>4. QED
  BY <1>1, <1>2, <1>3 DEF Resume, EvictionReturns, OpenFails, DiscardReturns, CloseReturns,
     AdmissionReturns, AbortReturns, MutationThrows, NavigationReturns,
     AdministrationDisposed, DrainReturns, DrainEnds

(* A session with an unfinished command or an observer is closed only by a *)
(* call for it or for its project, or at the end: the eviction made by     *)
(* ensureCapacity never picks it.                                          *)
THEOREM BusyStay == Spec => BusySessionsStay
<1>1. ASSUME TypeOK, Held, Next, NEW i \in sessions \ sessions'  PROVE MayLeave(i)
  <2>1. CASE Execute
    BY <1>1, <2>1, ExecuteLeaves
  <2>2. CASE Resume
    BY <1>1, <2>2, ResumeLeaves
  <2>3. CASE Calls
    BY <1>1, <2>3 DEF Calls, Call, CallPrompt, CallMutation, CallAdministration, CallDispose,
       registryVars
  <2>4. CASE \/ \E c \in Cmds : PromptReturns(c)
             \/ \E x \in Admins : AdministrationReturns(x)
             \/ Surroundings
    BY <1>1, <2>4 DEF PromptReturns, AdministrationReturns, Surroundings, Observe, Unsubscribe,
       BackendEvent, OtherService, ResourcesAppear, registryVars
  <2>5. QED
    BY <1>1, <2>1, <2>2, <2>3, <2>4 DEF Next
<1>2. TypeOK /\ Held /\ [Next]_vars => [\A i \in sessions \ sessions' : MayLeave(i)]_vars
  BY <1>1
<1>3. QED
  BY <1>2, InductiveInvariant, PTL DEF Spec, BusySessionsStay, MayLeave
=============================================================================
