-------------------------- MODULE SessionRegistry --------------------------
(***************************************************************************)
(* The Pi Node domain service: the registry of loaded sessions.            *)
(*   node/src/pi-node-domain-service.ts  (PiNodeDomainService)             *)
(*   node/src/project-service.ts         (approveTrust)                    *)
(*   node/src/project-trust.ts           (authorize, approve)              *)
(*                                                                         *)
(* Every operation is a function put on one SerialExecutor: `queue` holds  *)
(* the functions waiting, `slot` the one that is running and what it       *)
(* awaits.  The synchronous methods (observeSession, unsubscribe, the      *)
(* backend's event callback) run between two awaits of the slot.  Session  *)
(* administration leaves the executor for the time of its file operation   *)
(* and is kept apart by a set of locked keys.  The runtime behind a loaded *)
(* session, and another domain service of the same process that competes   *)
(* for session ownership, are external.                                    *)
(*                                                                         *)
(* An operator Faulty* is no part of the specification: it is the operator *)
(* below it with a plausible mistake, which a property must refute.        *)
(***************************************************************************)
EXTENDS Naturals, Sequences, FiniteSets

CONSTANTS
    Ids,         \* session identifiers, on disk or still to be generated
    Projects,    \* canonical project directories
    ProjectOf,   \* the directory each session belongs to
    InitialIds,  \* the sessions that are on disk at the start
    Cmds,        \* prompt commands; a command identifier is used once
    Admins,      \* administration requests in flight
    Aliases,     \* spellings of a directory (input.cwd before realpath)
    Watchers,    \* listeners that observe sessions
    Contended,   \* sessions another service of the process may own
    Protected,   \* projects that may get resources a decision is needed for
    MaxOpen,     \* maxOpenSessions
    QueueBound,  \* bound: client calls are made while the queue is shorter
    None

ASSUME RegistryAssumption ==
    /\ IsFiniteSet(Ids) /\ InitialIds \subseteq Ids
    /\ ProjectOf \in [Ids -> Projects]
    /\ Contended \subseteq Ids /\ Protected \subseteq Projects
    /\ MaxOpen \in Nat \ {0} /\ QueueBound \in Nat
    /\ None \notin Ids \cup Projects \cup Cmds \cup Admins \cup Aliases

VARIABLES
    queue,      \* functions waiting on #executor, oldest first
    slot,       \* the function that holds #executor
    sessions,   \* keys of #sessions
    entry,      \* RegistryEntry and its runtime, for each key of #sessions
    newer,      \* lastTouched: the loaded sessions touched since this one was
    owner,      \* InMemoryPiNodeSessionOwnershipRegistry.#owners
    locked,     \* #administeredSessionKeys
    mutating,   \* #mutatingSessionIds
    admin,      \* the administration requests, outside the executor
    command,    \* what each prompt command was answered
    promise,    \* the session a prompt promise of the SDK is outstanding for
    aborted,    \* history: commands that were active when an abort was asked
    trust,      \* protected resources and saved decision of each project
    used,       \* session files ever written
    deleted,    \* session files deleted since
    disposeRequested

vars == <<queue, slot, sessions, entry, newer, owner, locked, mutating, admin,
          command, promise, aborted, trust, used, deleted, disposeRequested>>

-----------------------------------------------------------------------------
(* Data *)

Keys == Projects \X Ids

(* Functions on the executor.  "read" stands for the history, statistics,  *)
(* tree and export calls: they only touch the entry.                       *)
Kinds == {"create", "load", "read", "prompt", "abort", "mutate", "admin",
          "close", "approve", "dispose", "settle", "unlock"}

Op == {op \in [kind : Kinds, cwd : Projects \cup {None}, id : Ids \cup {None},
                arg : Cmds \cup Admins \cup {None}] :
        /\ op.kind \in {"create", "load", "read", "mutate", "admin", "approve"} =>
               op.cwd \in Projects
        /\ op.kind \in {"load", "read", "prompt", "abort", "mutate", "admin", "close",
                        "settle"} => op.id \in Ids
        /\ op.kind \in {"prompt", "settle"} => op.arg \in Cmds
        /\ op.kind = "admin" => op.arg \in Admins}

Operation(kind, cwd, id, arg) == [kind |-> kind, cwd |-> cwd, id |-> id, arg |-> arg]

Phases == {"idle", "evicting", "opening", "discarding", "admitting", "aborting",
           "mutating", "administering", "closing", "draining"}

(* A busy slot: what it awaits, the leases it releases when the awaited    *)
(* dispose() ends, the runtime being disposed, the sessions left to close. *)
NoOp == Operation("dispose", None, None, None)
Slot == [phase : Phases, op : Op, holding : SUBSET Ids, dying : SUBSET Ids,
         rest : SUBSET Ids]
Busy(phase, op) == [phase |-> phase, op |-> op, holding |-> {}, dying |-> {}, rest |-> {}]
Idle == Busy("idle", NoOp)

Entry == [active : Cmds \cup {None}, abortRequested : BOOLEAN, running : BOOLEAN,
          listeners : SUBSET Watchers,
          promptInFlight : Cmds \cup {None},   \* the runtime's own flags
          agentRunning : BOOLEAN,
          resources : BOOLEAN]                 \* opened with project resources

NewEntry(resources) ==
    [active |-> None, abortRequested |-> FALSE, running |-> FALSE, listeners |-> {},
     promptInFlight |-> None, agentRunning |-> FALSE, resources |-> resources]
NoEntry == NewEntry(FALSE)

Answers == {"unsent", "queued", "error", "accepted", "uncertain", "rejected",
            "succeeded", "failed", "aborted"}
Answered == {"rejected", "succeeded", "failed", "aborted"}

NoAdmin == [phase |-> "idle", alias |-> None, cwd |-> None, id |-> None, deletes |-> FALSE]

(* PiSdkDomainSession.isRunning *)
BackendRunning(i) == entry[i].promptInFlight # None \/ entry[i].agentRunning

(* No command, no run: what a prompt, a mutation and an eviction require. *)
IdleEntry(i) == entry[i].active = None /\ ~entry[i].running /\ ~BackendRunning(i)

-----------------------------------------------------------------------------
Init ==
    /\ queue = <<>> /\ slot = Idle
    /\ sessions = {} /\ entry = [i \in Ids |-> NoEntry]
    /\ newer = [i \in Ids |-> {}]
    /\ owner = [i \in Ids |-> "none"]
    /\ locked = {} /\ mutating = {}
    /\ admin = [x \in Admins |-> NoAdmin]
    /\ command = [c \in Cmds |-> "unsent"]
    /\ promise = [c \in Cmds |-> None]
    /\ aborted = {}
    /\ trust = [p \in Projects |-> "notRequired"]
    /\ used = InitialIds /\ deleted = {}
    /\ disposeRequested = FALSE

-----------------------------------------------------------------------------
(* Calls of the service: each puts its function on the executor.           *)

Enqueue(op) == queue' = Append(queue, op)
Room == Len(queue) < QueueBound

registryVars == <<sessions, entry, newer, owner>>
lockVars == <<locked, mutating, admin>>
commandVars == <<command, promise, aborted>>
outsideVars == <<trust, used, deleted, disposeRequested>>

ClientCalls ==
    {Operation("create", p, None, None) : p \in Projects}
    \cup {Operation(k, p, i, None) : k \in {"load", "read"}, p \in Projects, i \in used}
    \cup {Operation(k, None, i, None) : k \in {"abort", "close"}, i \in used}
    \cup {Operation("approve", p, None, None) : p \in Projects}

Call ==
    /\ Room
    /\ \E op \in ClientCalls : Enqueue(op)
    /\ UNCHANGED <<slot, registryVars, lockVars, commandVars, outsideVars>>

CallPrompt(c, i) ==
    /\ Room /\ command[c] = "unsent" /\ i \in used
    /\ Enqueue(Operation("prompt", None, i, c))
    /\ command' = [command EXCEPT ![c] = "queued"]
    /\ UNCHANGED <<slot, registryVars, lockVars, promise, aborted, outsideVars>>

(* A second mutation of a session is refused before it is queued. *)
CallMutation(p, i) ==
    /\ Room /\ i \in used
    /\ i \notin mutating
    /\ mutating' = mutating \cup {i}
    /\ Enqueue(Operation("mutate", p, i, None))
    /\ UNCHANGED <<slot, registryVars, locked, admin, commandVars, outsideVars>>

(* #sessionAdminExecutor: one request at a time for a directory as spelled *)
(* and a session; a later one waits, which is to call later.               *)
CallAdministration(x, a, p, i, deletes) ==
    /\ Room /\ i \in used
    /\ admin[x].phase = "idle"
    /\ \A y \in Admins : admin[y].phase # "idle" =>
           <<admin[y].alias, admin[y].cwd, admin[y].id>> # <<a, p, i>>
    /\ admin' = [admin EXCEPT ![x] = [phase |-> "locking", alias |-> a, cwd |-> p,
                                      id |-> i, deletes |-> deletes]]
    /\ Enqueue(Operation("admin", p, i, x))
    /\ UNCHANGED <<slot, registryVars, locked, mutating, commandVars, outsideVars>>

(* dispose(): #disposePromise keeps a second call from queueing again. *)
CallDispose ==
    /\ ~disposeRequested
    /\ disposeRequested' = TRUE
    /\ Enqueue(Operation("dispose", None, None, None))
    /\ UNCHANGED <<slot, registryVars, lockVars, commandVars, trust, used, deleted>>

-----------------------------------------------------------------------------
(* The executor takes its next function when the previous one has ended.   *)

Ready(kind) == slot.phase = "idle" /\ queue # <<>> /\ Head(queue).kind = kind
Take == queue' = Tail(queue)

FaultyAvailable == TRUE
Available == ~disposeRequested
Authorized(p) == trust[p] # "undecided"

(* touch: i becomes the most recently touched of the loaded sessions L. *)
Touch(L, i) ==
    newer' = [j \in Ids |-> IF j \in L \ {i} THEN (newer[j] \cap L) \cup {i} ELSE {}]
Forget(i) == newer' = [j \in Ids |-> IF j = i THEN {} ELSE newer[j] \ {i}]

(* The part of #disposeEntry before its await: the entry is gone at once,  *)
(* its lease is held until the runtime is disposed.                        *)
BeginDispose(i, phase, op, rest) ==
    /\ sessions' = sessions \ {i}
    /\ entry' = [entry EXCEPT ![i] = NoEntry]
    /\ Forget(i)
    /\ slot' = [Busy(phase, op) EXCEPT !.holding = {i}, !.dying = {i}, !.rest = rest]
    /\ UNCHANGED owner

(* ... and its finally block. *)
ReleaseLease == owner' = [i \in Ids |-> IF i \in slot.holding THEN "none" ELSE owner[i]]

(* What the finally (and catch) of the caller does when a function ends:   *)
(* the mutation mark goes, a request that got no key is over, a prompt     *)
(* that threw is answered with an error.                                   *)
FaultyFinally(op) ==
    /\ UNCHANGED mutating
    /\ admin' = IF op.kind = "admin" THEN [admin EXCEPT ![op.arg] = NoAdmin] ELSE admin
    /\ command' = IF op.kind = "prompt" THEN [command EXCEPT ![op.arg] = "error"] ELSE command
Finally(op) ==
    /\ mutating' = IF op.kind = "mutate" THEN mutating \ {op.id} ELSE mutating
    /\ admin' = IF op.kind = "admin" THEN [admin EXCEPT ![op.arg] = NoAdmin] ELSE admin
    /\ command' = IF op.kind = "prompt" THEN [command EXCEPT ![op.arg] = "error"] ELSE command

(* assertAvailable throws, or a function that authorizes its directory,    *)
(* reads its revision or its evidence is refused before it changes state.  *)
Refuse ==
    /\ slot.phase = "idle" /\ queue # <<>>
    /\ LET op == Head(queue) IN
       /\ op.kind \notin {"dispose", "settle", "unlock"}
       /\ disposeRequested \/ op.kind \in {"create", "load", "read", "mutate", "admin", "approve"}
       /\ Finally(op)
    /\ Take
    /\ UNCHANGED <<slot, registryVars, locked, promise, aborted, outsideVars>>

FaultyEvictable == {i \in sessions : IdleEntry(i)}
Evictable == {i \in sessions : IdleEntry(i) /\ entry[i].listeners = {}}
LeastRecent == {i \in Evictable : Evictable \ {i} \subseteq newer[i]}

FaultyHasRoom == Cardinality(sessions) <= MaxOpen
HasRoom == Cardinality(sessions) < MaxOpen

EnsureCapacity(op) ==
    \/ /\ HasRoom
       /\ slot' = Busy("opening", op)
       /\ UNCHANGED registryVars
    \/ /\ ~HasRoom
       /\ \E i \in LeastRecent : BeginDispose(i, "evicting", op, {})
    \/ /\ ~HasRoom /\ Evictable = {}
       /\ UNCHANGED <<slot, registryVars>>

FaultyKeyLocked(p, i) == FALSE
KeyLocked(p, i) == <<p, i>> \in locked

FaultyLoadable(op) == TRUE
Loadable(op) == ~KeyLocked(op.cwd, op.id)

CreateSession ==
    /\ Ready("create") /\ Available /\ Authorized(Head(queue).cwd)
    /\ Take
    /\ EnsureCapacity(Head(queue))
    /\ UNCHANGED <<lockVars, commandVars, outsideVars>>

LoadSession ==
    /\ Ready("load") /\ Available /\ Authorized(Head(queue).cwd)
    /\ Take
    /\ LET op == Head(queue) IN
       \/ /\ ~Loadable(op)
          /\ UNCHANGED <<slot, registryVars>>
       \/ /\ Loadable(op) /\ op.id \in sessions
          /\ IF ProjectOf[op.id] = op.cwd THEN Touch(sessions, op.id) ELSE UNCHANGED newer
          /\ UNCHANGED <<slot, sessions, entry, owner>>
       \/ /\ Loadable(op) /\ op.id \notin sessions
          /\ EnsureCapacity(op)
    /\ UNCHANGED <<lockVars, commandVars, outsideVars>>

(* The evicted runtime is disposed, or its dispose() threw. *)
EvictionReturns ==
    /\ slot.phase = "evicting"
    /\ ReleaseLease
    /\ slot' \in {Busy("opening", slot.op), Idle}
    /\ UNCHANGED <<queue, sessions, entry, newer, lockVars, commandVars, outsideVars>>

(* #registerBackend, or disposeAfterRegistrationFailure when the session   *)
(* is loaded or another service owns it.                                   *)
Register(i) ==
    IF i \in sessions \/ owner[i] = "other"
    THEN /\ slot' = [Busy("discarding", slot.op) EXCEPT !.dying = {i}]
         /\ UNCHANGED registryVars
    ELSE /\ sessions' = sessions \cup {i}
         /\ entry' = [entry EXCEPT ![i] = NewEntry(trust[ProjectOf[i]] = "trusted")]
         /\ owner' = [owner EXCEPT ![i] = "self"]
         /\ Touch(sessions \cup {i}, i)
         /\ slot' = Idle

(* The factory answers with a runtime: a new identifier for create, the    *)
(* requested one, found on disk under that directory, for load.            *)
OpenReturns ==
    /\ slot.phase = "opening"
    /\ \E i \in {j \in Ids : ProjectOf[j] = slot.op.cwd} :
          /\ IF slot.op.kind = "create" THEN i \notin used
                                        ELSE i = slot.op.id /\ i \notin deleted
          /\ used' = used \cup {i}
          /\ Register(i)
    /\ UNCHANGED <<queue, lockVars, commandVars, trust, deleted, disposeRequested>>

OpenFails ==
    /\ slot.phase = "opening"
    /\ slot' = Idle
    /\ UNCHANGED <<queue, registryVars, lockVars, commandVars, outsideVars>>

(* A runtime that was never registered, or was a failed replacement, ends. *)
DiscardReturns ==
    /\ slot.phase = "discarding"
    /\ ReleaseLease
    /\ Finally(slot.op)
    /\ slot' = Idle
    /\ UNCHANGED <<queue, sessions, entry, newer, locked, promise, aborted,
                   outsideVars>>

ReadSession ==
    /\ Ready("read") /\ Available
    /\ Take
    /\ LET op == Head(queue) IN
       IF op.id \in sessions /\ ProjectOf[op.id] = op.cwd
       THEN Touch(sessions, op.id) ELSE UNCHANGED newer
    /\ UNCHANGED <<slot, sessions, entry, owner, lockVars, commandVars, outsideVars>>

CloseSession ==
    /\ Ready("close") /\ Available
    /\ Take
    /\ LET op == Head(queue) IN
       IF op.id \in sessions THEN BeginDispose(op.id, "closing", op, {})
                             ELSE UNCHANGED <<slot, registryVars>>
    /\ UNCHANGED <<lockVars, commandVars, outsideVars>>

CloseReturns ==
    /\ slot.phase = "closing"
    /\ ReleaseLease
    /\ slot' = Idle
    /\ UNCHANGED <<queue, sessions, entry, newer, lockVars, commandVars, outsideVars>>

-----------------------------------------------------------------------------
(* Commands.                                                               *)

(* A new ActiveCommand, and the runtime's prompt in flight. *)
FaultyAdmitted(e, c) == [e EXCEPT !.active = c, !.promptInFlight = c]
Admitted(e, c) == [e EXCEPT !.active = c, !.abortRequested = FALSE, !.promptInFlight = c]

(* submitPrompt up to the await of startPrompt.  An empty text is rejected *)
(* like a busy session.                                                    *)
StartPrompt ==
    /\ Ready("prompt") /\ Available
    /\ Take
    /\ LET op == Head(queue) IN
       \/ /\ op.id \notin sessions
          /\ Finally(op)
          /\ UNCHANGED <<slot, registryVars>>
       \/ /\ op.id \in sessions                       \* #rejectCommand
          /\ Touch(sessions, op.id)
          /\ command' = [command EXCEPT ![op.arg] = "rejected"]
          /\ UNCHANGED <<slot, sessions, entry, owner, mutating, admin>>
       \/ /\ op.id \in sessions /\ op.id \notin mutating /\ IdleEntry(op.id)
          /\ Touch(sessions, op.id)
          /\ entry' = [entry EXCEPT ![op.id] = Admitted(@, op.arg)]
          /\ slot' = Busy("admitting", op)
          /\ UNCHANGED <<sessions, owner, mutating, admin, command>>
    /\ UNCHANGED <<locked, promise, aborted, outsideVars>>

(* startPrompt answers: the prompt is accepted, its admission is uncertain,*)
(* or it is rejected (a throw of startPrompt included).                    *)
AdmissionReturns ==
    /\ slot.phase = "admitting"
    /\ LET i == slot.op.id
           c == slot.op.arg IN
       \/ /\ command' \in {[command EXCEPT ![c] = a] : a \in {"accepted", "uncertain"}}
          /\ promise' = [promise EXCEPT ![c] = i]
          /\ UNCHANGED entry
       \/ /\ command' = [command EXCEPT ![c] = "rejected"]
          /\ entry' = [entry EXCEPT ![i].active = None, ![i].promptInFlight = None]
          /\ UNCHANGED promise
    /\ slot' = Idle
    /\ UNCHANGED <<queue, sessions, newer, owner, lockVars, aborted, outsideVars>>

FaultyQueueSettlement(i, c) ==
    IF Available THEN Enqueue(Operation("settle", None, i, c)) ELSE UNCHANGED queue
QueueSettlement(i, c) == Enqueue(Operation("settle", None, i, c))

(* The SDK's prompt promise settles, whatever became of the runtime, and   *)
(* the continuation queues #settleCommand.                                 *)
PromptReturns(c) ==
    /\ promise[c] # None
    /\ LET i == promise[c] IN
       /\ entry' = IF entry[i].promptInFlight = c
                   THEN [entry EXCEPT ![i].promptInFlight = None] ELSE entry
       /\ QueueSettlement(i, c)
    /\ promise' = [promise EXCEPT ![c] = None]
    /\ UNCHANGED <<slot, sessions, newer, owner, lockVars, command, aborted,
                   outsideVars>>

(* #completionFromSession: the stop reason of the session's last assistant *)
(* message, which may be an earlier run's if this one added none.          *)
Completions == {"succeeded", "failed", "aborted"}

Outcome(completion, abortRequested) ==
    IF abortRequested /\ completion = "failed" THEN "aborted" ELSE completion

FaultySettlesAccepted(i, c) ==
    i \in sessions /\ entry[i].active = c /\ command[c] = "accepted"
FaultySettles(i, c) == i \in sessions /\ entry[i].active # None
Settles(i, c) == i \in sessions /\ entry[i].active = c

SettleCommand ==
    /\ Ready("settle")
    /\ Take
    /\ LET op == Head(queue) IN
       IF Settles(op.id, op.arg)
       THEN /\ \E completion \in Completions :
                  command' = [command EXCEPT ![op.arg] =
                                 Outcome(completion, entry[op.id].abortRequested)]
            /\ entry' = [entry EXCEPT ![op.id].active = None, ![op.id].running = FALSE]
       ELSE UNCHANGED <<entry, command>>
    /\ UNCHANGED <<slot, sessions, newer, owner, lockVars, promise, aborted,
                   outsideVars>>

FaultyAbortMark(i) == entry[i].active
AbortMark(i) == entry[i].active # None

(* abortActiveRun up to the await of the runtime's abort(). *)
AbortRun ==
    /\ Ready("abort") /\ Available
    /\ Take
    /\ LET op == Head(queue)
           i  == op.id IN
       \/ /\ i \notin sessions
          /\ UNCHANGED <<slot, entry, newer, aborted>>
       \/ /\ i \in sessions /\ IdleEntry(i)
          /\ Touch(sessions, i)
          /\ UNCHANGED <<slot, entry, aborted>>
       \/ /\ i \in sessions /\ ~IdleEntry(i)
          /\ Touch(sessions, i)
          /\ entry' = [entry EXCEPT ![i].abortRequested = AbortMark(i)]
          /\ aborted' = aborted \cup ({entry[i].active} \ {None})
          /\ slot' = Busy("aborting", op)
    /\ UNCHANGED <<sessions, owner, lockVars, command, promise, outsideVars>>

AbortReturns ==
    /\ slot.phase = "aborting"
    /\ slot' = Idle
    /\ UNCHANGED <<queue, registryVars, lockVars, commandVars, outsideVars>>

-----------------------------------------------------------------------------
(* Tree mutations: navigate, fork and clone.                               *)

FaultyMayMutate(op) ==
    /\ Authorized(op.cwd)
    /\ op.id \in sessions /\ ProjectOf[op.id] = op.cwd
    /\ ~KeyLocked(op.cwd, op.id)
MayMutate(op) ==
    /\ Authorized(op.cwd)
    /\ op.id \in sessions /\ ProjectOf[op.id] = op.cwd
    /\ IdleEntry(op.id)
    /\ ~KeyLocked(op.cwd, op.id)

BeginMutation ==
    /\ Ready("mutate") /\ Available
    /\ Take
    /\ LET op == Head(queue) IN
       IF MayMutate(op)
       THEN /\ slot' = Busy("mutating", op)
            /\ UNCHANGED <<mutating, admin, command>>
       ELSE /\ Finally(op)
            /\ UNCHANGED slot
    /\ UNCHANGED <<registryVars, locked, promise, aborted, outsideVars>>

MutationThrows ==
    /\ slot.phase = "mutating"
    /\ Finally(slot.op)
    /\ slot' = Idle
    /\ UNCHANGED <<queue, registryVars, locked, promise, aborted, outsideVars>>

(* The entry after a mutation: its listeners are dropped. *)
MutatedEntry(i) == [entry[i] EXCEPT !.listeners = {}, !.active = None,
                                    !.running = BackendRunning(i)]

(* navigateSessionTree: the session keeps its identifier. *)
NavigationReturns ==
    /\ slot.phase = "mutating"
    /\ LET i == slot.op.id IN
       /\ entry' = [entry EXCEPT ![i] = MutatedEntry(i)]
       /\ Touch(sessions, i)
       /\ Finally(slot.op)
    /\ slot' = Idle
    /\ UNCHANGED <<queue, sessions, owner, locked, promise, aborted, outsideVars>>

FaultyRekeyLease(i, j) == owner' = [owner EXCEPT ![j] = "self"]
RekeyLease(i, j) == owner' = [owner EXCEPT ![j] = "self", ![i] = "none"]

(* fork or clone: the runtime now has the new session j.  Either the entry *)
(* is rekeyed with the lease of j, or it is discarded with the lease of i. *)
ReplacementReturns ==
    /\ slot.phase = "mutating"
    /\ LET i == slot.op.id IN
       \E j \in {k \in Ids \ used : ProjectOf[k] = slot.op.cwd} :
          /\ used' = used \cup {j}
          /\ \/ /\ j \notin sessions /\ owner[j] # "other"      \* #rekeyReplacedEntry
                /\ sessions' = (sessions \ {i}) \cup {j}
                /\ entry' = [entry EXCEPT ![j] = MutatedEntry(i), ![i] = NoEntry]
                /\ RekeyLease(i, j)
                /\ Touch((sessions \ {i}) \cup {j}, j)
                /\ Finally(slot.op)
                /\ slot' = Idle
             \/ /\ j \in sessions \/ owner[j] = "other"   \* #discardFailedReplacement
                /\ sessions' = sessions \ {i}
                /\ entry' = [entry EXCEPT ![i] = NoEntry]
                /\ Forget(i)
                /\ slot' = [Busy("discarding", slot.op) EXCEPT !.holding = {i}, !.dying = {j}]
                /\ UNCHANGED <<owner, mutating, admin, command>>
    /\ UNCHANGED <<queue, locked, promise, aborted, trust, deleted, disposeRequested>>

-----------------------------------------------------------------------------
(* Administration: rename, clear name, auto-name, delete.                  *)

Unlock(x) == Enqueue(Operation("unlock", admin[x].cwd, admin[x].id, x))

(* The first executor function: lock the key, close the loaded session. *)
BeginAdministration ==
    /\ Ready("admin") /\ Available
    /\ LET op == Head(queue)
           x  == op.arg
           k  == <<op.cwd, op.id>> IN
       \/ /\ KeyLocked(op.cwd, op.id)
          /\ Take /\ Finally(op)
          /\ UNCHANGED <<slot, registryVars, locked>>
       \/ /\ ~KeyLocked(op.cwd, op.id) /\ locked' = locked \cup {k}
          /\ op.id \in sessions /\ ProjectOf[op.id] = op.cwd
          /\ Take
          /\ BeginDispose(op.id, "administering", op, {})
          /\ UNCHANGED <<mutating, admin, command>>
       \/ /\ ~KeyLocked(op.cwd, op.id) /\ locked' = locked \cup {k}
          /\ op.id \notin sessions
          /\ Take
          /\ admin' = [admin EXCEPT ![x].phase = "operating"]
          /\ UNCHANGED <<slot, registryVars, mutating, command>>
       \/ /\ ~KeyLocked(op.cwd, op.id) /\ locked' = locked \cup {k}
          /\ op.id \in sessions /\ ProjectOf[op.id] # op.cwd  \* session-not-found
          /\ queue' = Append(Tail(queue), Operation("unlock", op.cwd, op.id, x))
          /\ admin' = [admin EXCEPT ![x].phase = "unlocking"]
          /\ UNCHANGED <<slot, registryVars, mutating, command>>
    /\ UNCHANGED <<promise, aborted, outsideVars>>

AdministrationDisposed ==
    /\ slot.phase = "administering"
    /\ ReleaseLease
    /\ slot' = Idle
    /\ LET x == slot.op.arg IN
       \/ /\ admin' = [admin EXCEPT ![x].phase = "operating"]
          /\ UNCHANGED queue
       \/ /\ admin' = [admin EXCEPT ![x].phase = "unlocking"]     \* dispose() threw
          /\ Unlock(x)
    /\ UNCHANGED <<sessions, entry, newer, locked, mutating, commandVars, outsideVars>>

(* The file operation, outside the executor, succeeds or fails. *)
AdministrationReturns(x) ==
    /\ admin[x].phase = "operating"
    /\ deleted' \in {deleted} \cup
          IF /\ admin[x].deletes /\ admin[x].id \in used \ deleted
             /\ ProjectOf[admin[x].id] = admin[x].cwd
          THEN {deleted \cup {admin[x].id}} ELSE {}
    /\ admin' = [admin EXCEPT ![x].phase = "unlocking"]
    /\ Unlock(x)
    /\ UNCHANGED <<slot, registryVars, locked, mutating, commandVars, trust, used,
                   disposeRequested>>

(* The finally block: the second executor function. *)
UnlockKey ==
    /\ Ready("unlock")
    /\ Take
    /\ LET op == Head(queue) IN
       /\ locked' = locked \ {<<op.cwd, op.id>>}
       /\ admin' = [admin EXCEPT ![op.arg] = NoAdmin]
    /\ UNCHANGED <<slot, registryVars, mutating, commandVars, outsideVars>>

-----------------------------------------------------------------------------
(* Closing many sessions: before a trust approval, and at the end.         *)

FaultySessionsOf(p) == {i \in sessions : ProjectOf[i] = p /\ IdleEntry(i)}
SessionsOf(p) == {i \in sessions : ProjectOf[i] = p}

ApproveTrust ==
    /\ Ready("approve") /\ Available
    /\ Take
    /\ LET op == Head(queue) IN
       IF trust[op.cwd] = "undecided"
       THEN slot' = [Busy("draining", op) EXCEPT !.rest = SessionsOf(op.cwd)]
       ELSE UNCHANGED slot
    /\ UNCHANGED <<registryVars, lockVars, commandVars, outsideVars>>

Dispose ==
    /\ Ready("dispose")
    /\ Take
    /\ slot' = [Busy("draining", Head(queue)) EXCEPT !.rest = sessions]
    /\ UNCHANGED <<registryVars, lockVars, commandVars, outsideVars>>

DrainNext ==
    /\ slot.phase = "draining" /\ slot.dying = {}
    /\ \E i \in slot.rest : BeginDispose(i, "draining", slot.op, slot.rest \ {i})
    /\ UNCHANGED <<queue, lockVars, commandVars, outsideVars>>

(* A dispose() that throws ends the approval; dispose() goes on. *)
DrainReturns ==
    /\ slot.phase = "draining" /\ slot.dying # {}
    /\ ReleaseLease
    /\ \/ slot' = [slot EXCEPT !.holding = {}, !.dying = {}]
       \/ slot.op.kind = "approve" /\ slot' = Idle
    /\ UNCHANGED <<queue, sessions, entry, newer, lockVars, commandVars, outsideVars>>

(* The evidence is read again; the decision is saved, or cannot be. *)
DrainEnds ==
    /\ slot.phase = "draining" /\ slot.dying = {} /\ slot.rest = {}
    /\ slot' = Idle
    /\ trust' \in {trust} \cup IF slot.op.kind = "approve"
                               THEN {[trust EXCEPT ![slot.op.cwd] = "trusted"]} ELSE {}
    /\ UNCHANGED <<queue, registryVars, lockVars, commandVars, used, deleted,
                   disposeRequested>>

-----------------------------------------------------------------------------
(* Between the awaits: synchronous methods and callbacks.                  *)

Observe(w, i) ==
    /\ Available /\ i \in sessions
    /\ entry' = [entry EXCEPT ![i].listeners = @ \cup {w}]
    /\ Touch(sessions, i)
    /\ UNCHANGED <<queue, slot, sessions, owner, lockVars, commandVars, outsideVars>>

Unsubscribe(w, i) ==
    /\ w \in entry[i].listeners
    /\ entry' = [entry EXCEPT ![i].listeners = @ \ {w}]
    /\ UNCHANGED <<queue, slot, sessions, newer, owner, lockVars, commandVars,
                   outsideVars>>

(* #handleBackendEvent: the agent starts or settles, or there is another   *)
(* conversation event.                                                     *)
BackendEvent(i) ==
    /\ i \in sessions
    /\ Touch(sessions, i)
    /\ \/ /\ entry[i].promptInFlight # None /\ ~entry[i].agentRunning
          /\ entry' = [entry EXCEPT ![i].agentRunning = TRUE, ![i].running = TRUE]
       \/ /\ entry[i].agentRunning
          /\ entry' = [entry EXCEPT ![i].agentRunning = FALSE, ![i].running = FALSE]
       \/ /\ entry[i].agentRunning
          /\ UNCHANGED entry
    /\ UNCHANGED <<queue, slot, sessions, owner, lockVars, commandVars, outsideVars>>

(* Outside this service: another one acquires or releases a session, and   *)
(* a project gets resources that need a trust decision.                    *)
OtherService(i) ==
    /\ owner' \in {[owner EXCEPT ![i] = o] : o \in {"none", "other"}}
    /\ i \in Contended /\ owner[i] # "self" /\ owner'[i] # owner[i]
    /\ UNCHANGED <<queue, slot, sessions, entry, newer, lockVars, commandVars,
                   outsideVars>>

ResourcesAppear(p) ==
    /\ p \in Protected /\ trust[p] = "notRequired"
    /\ trust' = [trust EXCEPT ![p] = "undecided"]
    /\ UNCHANGED <<queue, slot, registryVars, lockVars, commandVars, used, deleted,
                   disposeRequested>>

-----------------------------------------------------------------------------
Calls ==
    \/ Call
    \/ \E c \in Cmds, i \in Ids : CallPrompt(c, i)
    \/ \E p \in Projects, i \in Ids : CallMutation(p, i)
    \/ \E x \in Admins, a \in Aliases, p \in Projects, i \in Ids, d \in BOOLEAN :
          CallAdministration(x, a, p, i, d)
    \/ CallDispose

(* The executor runs its next function ... *)
Execute ==
    \/ Refuse \/ CreateSession \/ LoadSession \/ ReadSession \/ CloseSession
    \/ StartPrompt \/ SettleCommand \/ AbortRun \/ BeginMutation
    \/ BeginAdministration \/ UnlockKey \/ ApproveTrust \/ Dispose

(* ... and what the running one awaits returns. *)
Resume ==
    \/ EvictionReturns \/ OpenReturns \/ OpenFails \/ DiscardReturns \/ CloseReturns
    \/ AdmissionReturns \/ AbortReturns
    \/ MutationThrows \/ NavigationReturns \/ ReplacementReturns
    \/ AdministrationDisposed \/ DrainNext \/ DrainReturns \/ DrainEnds

Surroundings ==
    \/ \E w \in Watchers, i \in Ids : Observe(w, i) \/ Unsubscribe(w, i)
    \/ \E i \in Ids : BackendEvent(i) \/ OtherService(i)
    \/ \E p \in Projects : ResourcesAppear(p)

Next ==
    \/ Calls
    \/ Execute
    \/ Resume
    \/ \E c \in Cmds : PromptReturns(c)
    \/ \E x \in Admins : AdministrationReturns(x)
    \/ Surroundings

Spec == Init /\ [][Next]_vars

(* The event loop runs the executor's next function, and every awaited     *)
(* SDK or file-system call returns in the end.  Nobody has to call.        *)
Fairness ==
    /\ WF_vars(Execute)
    /\ WF_vars(Resume)
    /\ \A c \in Cmds : WF_vars(PromptReturns(c))
    /\ \A x \in Admins : WF_vars(AdministrationReturns(x))

FairSpec == Spec /\ Fairness

-----------------------------------------------------------------------------
(* Properties.                                                             *)

(* Every variable has its type. *)
TypeOK ==
    /\ queue \in Seq(Op) /\ slot \in Slot
    /\ sessions \subseteq Ids /\ entry \in [Ids -> Entry]
    /\ newer \in [Ids -> SUBSET Ids]
    /\ owner \in [Ids -> {"none", "self", "other"}]
    /\ locked \subseteq Keys /\ mutating \subseteq Ids
    /\ admin \in [Admins -> [phase : {"idle", "locking", "operating", "unlocking"},
                             alias : Aliases \cup {None}, cwd : Projects \cup {None},
                             id : Ids \cup {None}, deletes : BOOLEAN]]
    /\ command \in [Cmds -> Answers] /\ promise \in [Cmds -> Ids \cup {None}]
    /\ aborted \subseteq Cmds
    /\ trust \in [Projects -> {"notRequired", "undecided", "trusted"}]
    /\ used \subseteq Ids /\ deleted \subseteq Ids
    /\ disposeRequested \in BOOLEAN

(***************************************************************************)
(* Ownership is held exactly for the sessions this service has loaded, and *)
(* for the one whose runtime it is still disposing: no lease leaks when a  *)
(* registration, a fork or a dispose() fails half way, and none is given   *)
(* up while its runtime lives.                                             *)
(***************************************************************************)
LeaseMatchesRegistry ==
    /\ {i \in Ids : owner[i] = "self"} = sessions \cup slot.holding
    /\ sessions \cap slot.holding = {}

(***************************************************************************)
(* maxOpenSessions bounds the runtimes alive at once, not only the         *)
(* registered ones: the one being opened, the one being disposed and an    *)
(* unregistered one on its way out count too.                              *)
(***************************************************************************)
RuntimesBounded ==
    Cardinality(sessions \cup slot.dying)
        + (IF slot.phase = "opening" THEN 1 ELSE 0) <= MaxOpen

(* A runtime of this service has the session's file open. *)
InUse(i) ==
    \/ i \in sessions \cup slot.dying
    \/ slot.phase = "opening" /\ slot.op.kind = "load" /\ slot.op.id = i
                              /\ ProjectOf[i] = slot.op.cwd

(* A deleted session never has a runtime again, which would write its file *)
(* anew.                                                                   *)
DeletedStaysGone == deleted \cap (sessions \cup slot.dying) = {}

(***************************************************************************)
(* While an administration request works on a session file no runtime of   *)
(* this service has that file open, and no second request works on it,     *)
(* under whatever spelling of the directory it came in; and one it deleted *)
(* is gone for good.                                                       *)
(***************************************************************************)
AdministrationAlone ==
    /\ \A x \in Admins : admin[x].phase = "operating" =>
           /\ ProjectOf[admin[x].id] = admin[x].cwd => ~InUse(admin[x].id)
           /\ \A y \in Admins \ {x} : admin[y].phase = "operating" =>
                  <<admin[y].cwd, admin[y].id>> # <<admin[x].cwd, admin[x].id>>
    /\ DeletedStaysGone

(***************************************************************************)
(* While the runtime of a session is navigated, forked or cloned, the      *)
(* session stays loaded, idle and free of administration.                  *)
(***************************************************************************)
MutationAlone ==
    slot.phase = "mutating" =>
        LET i == slot.op.id IN
        /\ i \in sessions /\ IdleEntry(i) /\ i \in mutating
        /\ \A x \in Admins : admin[x].phase = "operating" =>
               <<admin[x].cwd, admin[x].id>> # <<slot.op.cwd, i>>

SettleQueued(i, c) == \E n \in DOMAIN queue : queue[n] = Operation("settle", None, i, c)

(***************************************************************************)
(* A session that counts as busy will be freed: its command is being       *)
(* admitted, or its prompt promise is outstanding, or its settlement is on *)
(* the executor.  A command lost here would block the session for ever.    *)
(***************************************************************************)
ActiveWillSettle ==
    \A i \in sessions : LET c == entry[i].active IN c # None =>
        \/ slot.phase = "admitting" /\ slot.op.id = i /\ slot.op.arg = c
        \/ promise[c] = i
        \/ SettleQueued(i, c)

(***************************************************************************)
(* In a trusted project no loaded runtime was opened without the project's *)
(* resources: approveTrust closes the restricted ones first.               *)
(***************************************************************************)
TrustedNotRestricted ==
    \A i \in sessions : trust[ProjectOf[i]] = "trusted" => entry[i].resources

(***************************************************************************)
(* A command is answered once, an accepted one is not rejected afterwards, *)
(* and while its session stays loaded it stops being the active command    *)
(* only with its own answer: a late settlement, of a runtime closed and    *)
(* loaded again since, frees no other command's session.  An abort marks   *)
(* only the command it found active: none that follows in the same session *)
(* has its failure reported as an abort for it.  (A run that adds no       *)
(* assistant message may end "aborted" without one: see Completions.)      *)
(***************************************************************************)
AnsweredOnce ==
    [][\A c \in Cmds :
          /\ command[c] \in Answered => command'[c] = command[c]
          /\ command[c] \in {"accepted", "uncertain"} =>
                command'[c] \notin {"rejected", "error"}
          /\ \A i \in sessions' :
                entry'[i].active = c /\ entry'[i].abortRequested => c \in aborted'
          /\ \A i \in sessions \cap sessions' :
                entry[i].active = c /\ entry'[i].active # c =>
                    command'[c] \in Answered]_vars

(***************************************************************************)
(* A session with an unfinished command, or with an observer, leaves the   *)
(* registry only through a call for it or for its project, or at the end:  *)
(* never to make room, never as a side effect of another session's call.   *)
(***************************************************************************)
BusySessionsStay ==
    [][\A i \in sessions \ sessions' :
          \/ entry[i].active = None /\ entry[i].listeners = {}
          \/ slot'.phase = "draining" /\ slot'.op.kind = "dispose"
          \/ slot'.op.kind \in {"close", "admin"} /\ slot'.op.id = i
          \/ slot'.op.kind = "approve" /\ slot'.op.cwd = ProjectOf[i]
          \/ slot.op.kind = "mutate" /\ slot.op.id = i /\ entry[i].active = None]_vars

(* A busy session becomes free: its command settles, or it is closed. *)
BusyEnds ==
    \A i \in Ids, c \in Cmds :
        (i \in sessions /\ entry[i].active = c) ~> ~(i \in sessions /\ entry[i].active = c)

(* Administration keys and mutation marks do not stay behind. *)
LocksReleased ==
    /\ \A k \in Keys : k \in locked ~> k \notin locked
    /\ \A i \in Ids : i \in mutating ~> i \notin mutating

(* After dispose() the service ends up owning no session, for good. *)
ShutdownReleasesAll == disposeRequested ~> [](\A i \in Ids : owner[i] # "self")
=============================================================================
