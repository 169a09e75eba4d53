----------------------- MODULE SessionAdministration -----------------------
(***************************************************************************)
(* Administration of the session files on disk: rename, clear, automatic   *)
(* naming and deletion.                                                    *)
(*   node/src/pi-sdk-session-administration.ts                             *)
(*   node/src/pi-sdk-domain-session.ts   (listPersistentSessions)          *)
(*                                                                         *)
(* Several operations run at once, in one Pi Node or in several; what they *)
(* share is the directory.  Only they take the lock files.  The runtimes   *)
(* that append to a session file or fork it (external: the Pi SDK, here or *)
(* in a pi command line) take no lock.  A process may die between any two  *)
(* of its file operations, and a file operation may fail.                  *)
(*                                                                         *)
(* Files are named by numbers, in the order their paths sort in.           *)
(*                                                                         *)
(* An operator Faulty* is no part of the specification: it is the operator *)
(* below it with a plausible mistake, which a property must refute.        *)
(***************************************************************************)
EXTENDS Naturals, FiniteSets

CONSTANTS
    Files,       \* session files, on disk or still to be forked
    OnDisk,      \* the files at the start
    ParentOf,    \* parentSession in their headers: a session is forked from one that
                 \* was there before it (one that is not there any more counts as none)
    Projects,
    ProjectOf,   \* the cwd in a file's header
    Ops,         \* administration operations
    Kinds,       \* what they may be asked: "rename" (and clear), "autoName", "delete"
    Entries,     \* entries runtimes append
    Live,        \* files a runtime has open
    MaxAttempts, \* attempts of a deletion (3 in the code)
    MaxFaults,   \* bound: file operations that fail
    None

ASSUME AdministrationAssumption ==
    /\ Files \subseteq Nat /\ IsFiniteSet(Files)
    /\ OnDisk \subseteq Files /\ Live \subseteq Files
    /\ ParentOf \in [OnDisk -> OnDisk \cup {None}]
    /\ \A S \in (SUBSET OnDisk) \ {{}} : \E f \in S : ParentOf[f] \notin S
    /\ ProjectOf \in [Files -> Projects]
    /\ Kinds \subseteq {"rename", "autoName", "delete"}
    /\ MaxAttempts \in Nat \ {0} /\ MaxFaults \in Nat
    /\ None \notin Files /\ None \notin Ops
    /\ Entries \cap Ops = {} /\ Entries \cap Files = {} /\ Ops \cap Files = {}

VARIABLES
    onDisk,   \* the session files there are
    session,  \* what each holds: the header's parent, and its entries
    lock,     \* <path>.pi-client-admin.lock: the operation that created it
    op,       \* the operations
    gone,     \* files an operation has deleted
    exposed,  \* history: entries appended to a locked file; and files that became children
              \* of one after it was looked at: a fork, a file put back, a child of such
    faults

vars == <<onDisk, session, lock, op, gone, exposed, faults>>
diskVars == <<onDisk, session, gone>>

-----------------------------------------------------------------------------
(* Data.  A naming operation appends one entry, which is named after it.   *)

Session == [parent : Files \cup {None}, log : SUBSET (Entries \cup Ops)]
NoSession == [parent |-> None, log |-> {}]

(* What createSessionAdminRevision hashes. *)
Revisions == [log : SUBSET (Entries \cup Ops), parentId : Files \cup {None}]

Phases == {"idle", "generating", "locating", "locking", "checking", "copying",
           "committing", "reading", "reparenting", "deleting", "unlinking",
           "restoring", "rollingBack", "releasing", "reporting", "ended", "crashed"}

Results == {"none", "ok", "notFound", "locked", "conflict", "failed", "writeFailed",
            "cancelled", "timeout", "retry"}

Operation ==
    [phase : Phases, kind : Kinds \cup {"none"}, target : Files \cup {None},
     evidence : Revisions,            \* what was listed and confirmed
     attempt : 0 .. MaxAttempts - 1,
     family : SUBSET Files,           \* the paths to lock
     newParent : Files \cup {None},
     copy : [Files -> Session],       \* the shadow copy; the rollback snapshots
     read : SUBSET Files,             \* children with a snapshot
     done : SUBSET Files,             \* committedChildren
     cancelled : BOOLEAN, timedOut : BOOLEAN,   \* the two abort signals
     result : Results]

NoOperation ==
    [phase |-> "idle", kind |-> "none", target |-> None,
     evidence |-> [log |-> {}, parentId |-> None],
     attempt |-> 0, family |-> {}, newParent |-> None,
     copy |-> [f \in Files |-> NoSession], read |-> {}, done |-> {},
     cancelled |-> FALSE, timedOut |-> FALSE, result |-> "none"]

Least(S) == CHOOSE f \in S : \A g \in S : f <= g
Greatest(S) == CHOOSE f \in S : \A g \in S : g <= f

Held(p) == {f \in Files : lock[f] = p}
Children(f) == {c \in onDisk \ {f} : session[c].parent = f}

(* Which parent's identifier the listing of a project gives a session:     *)
(* parentSessionIdsByChildPath only knows the sessions of that listing.    *)
ListedParent(f) ==
    LET g == session[f].parent IN
    IF g \in onDisk /\ ProjectOf[g] = ProjectOf[f] THEN g ELSE None

(* assertAdminRevision hashes the entries and, unlike the listing, never a *)
(* parent.  The title that was displayed follows from the entries.         *)
Confirmed(p) == op[p].evidence = [log |-> session[op[p].target].log, parentId |-> None]

-----------------------------------------------------------------------------
Init ==
    /\ onDisk = OnDisk
    /\ session = [f \in Files |->
                    IF f \in OnDisk THEN [parent |-> ParentOf[f], log |-> {}] ELSE NoSession]
    /\ lock = [f \in Files |-> None]
    /\ op = [p \in Ops |-> NoOperation]
    /\ gone = {} /\ exposed = {} /\ faults = 0

-----------------------------------------------------------------------------
(* Requests.                                                               *)

Enter(p, phase) == op' = [op EXCEPT ![p].phase = phase]

(* Nothing is left of an operation that is over, but its answer.           *)
Over(p, phase, result) ==
    op' = [op EXCEPT ![p] = [NoOperation EXCEPT !.phase = phase, !.result = result]]
End(p, result) == Over(p, "ended", result)

(* The result is there: the finally blocks release the locks that are held *)
Finish(p, result) == op' = [op EXCEPT ![p].phase = "releasing", ![p].result = result]

(* A request names a session of a listing; a deletion also brings the      *)
(* revision it was listed with.                                            *)
Begin(p, kind, f) ==
    /\ op[p].phase = "idle" /\ f \in onDisk
    /\ op' = [op EXCEPT ![p].kind = kind, ![p].target = f,
                 ![p].phase = IF kind = "autoName" THEN "generating" ELSE "locating",
                 ![p].evidence = IF kind # "delete" THEN @ ELSE
                    [log |-> session[f].log, parentId |-> ListedParent(f)]]
    /\ UNCHANGED <<diskVars, lock, exposed, faults>>

(* The caller cancels, or the deadline passes: both abort the generator,   *)
(* which answers when it likes.                                            *)
Abort(p) ==
    /\ op[p].phase = "generating"
    /\ \/ ~op[p].cancelled /\ op' = [op EXCEPT ![p].cancelled = TRUE]
       \/ ~op[p].timedOut /\ op' = [op EXCEPT ![p].timedOut = TRUE]
    /\ UNCHANGED <<diskVars, lock, exposed, faults>>

Failure(p) ==
    IF op[p].cancelled THEN "cancelled" ELSE IF op[p].timedOut THEN "timeout" ELSE "failed"

(* A name that comes after the abort is used all the same, unless nothing  *)
(* is left of it when it is sanitized.                                     *)
NameGenerated(p) ==
    /\ op[p].phase = "generating"
    /\ \/ op' = [op EXCEPT ![p].phase = "locating",
                            ![p].cancelled = FALSE, ![p].timedOut = FALSE]
       \/ End(p, "failed")
       \/ End(p, Failure(p))
    /\ UNCHANGED <<diskVars, lock, exposed, faults>>

-----------------------------------------------------------------------------
(* Locating a session, and locking its family of files.                    *)

FaultyFamily(p) == IF op[p].kind = "delete" THEN {op[p].target} \cup Children(op[p].target)
                                            ELSE {}
Family(p) ==
    {op[p].target} \cup (IF op[p].kind = "delete" THEN Children(op[p].target) ELSE {})

(* locateSession, discoverDeleteTransaction *)
Locate(p) ==
    /\ op[p].phase = "locating"
    /\ \/ op[p].target \notin onDisk /\ End(p, "notFound")
       \/ /\ op[p].target \in onDisk
          /\ op[p].kind = "delete" /\ ~Confirmed(p)
          /\ Finish(p, "conflict")
       \/ /\ op[p].target \in onDisk
          /\ op[p].kind = "delete" => Confirmed(p)
          /\ op' = [op EXCEPT ![p].phase = "locking", ![p].family = Family(p)]
    /\ UNCHANGED <<diskVars, lock, exposed, faults>>

FaultyNextLock(p) ==          \* in the order of the listing: the fullest first
    LET left == op[p].family \ Held(p)
        size(f) == Cardinality(session[f].log)
    IN  Least({f \in left : \A g \in left : size(g) <= size(f)})
NextLock(p) == Least(op[p].family \ Held(p))

(* acquireFileLock: the file is created, or is there until the deadline.   *)
(* Nobody asks whether the process that created it still lives.            *)
AcquireLock(p) ==
    /\ op[p].phase = "locking" /\ op[p].family # Held(p)
    /\ lock[NextLock(p)] = None
    /\ lock' = [lock EXCEPT ![NextLock(p)] = p]
    /\ UNCHANGED <<diskVars, op, exposed, faults>>

FaultyTaken(f) == lock[f] # None /\ op[lock[f]].phase # "crashed"
Taken(f) == lock[f] # None

LockTimeout(p) ==
    /\ op[p].phase = "locking" /\ op[p].family # Held(p)
    /\ Taken(NextLock(p))
    /\ Finish(p, "locked")
    /\ UNCHANGED <<diskVars, lock, exposed, faults>>

FaultySamePaths(p) == TRUE
SamePaths(p) == Family(p) = op[p].family

(* Under the locks everything is looked up again. *)
LocateLocked(p) ==
    /\ op[p].phase = "locking" /\ op[p].family = Held(p)
    /\ \/ op[p].target \notin onDisk /\ Finish(p, "notFound")
       \/ /\ op[p].target \in onDisk /\ op[p].kind # "delete"
          /\ Enter(p, "copying")
       \/ /\ op[p].target \in onDisk /\ op[p].kind = "delete" /\ ~SamePaths(p)
          /\ Finish(p, "retry")
       \/ /\ op[p].target \in onDisk /\ op[p].kind = "delete" /\ SamePaths(p)
          /\ ~Confirmed(p)
          /\ Finish(p, "conflict")
       \/ /\ op[p].target \in onDisk /\ op[p].kind = "delete" /\ SamePaths(p)
          /\ Confirmed(p)
          /\ op' = [op EXCEPT ![p].phase = "reading",
                              ![p].newParent = session[op[p].target].parent]
    /\ UNCHANGED <<diskVars, lock, exposed, faults>>

MayRetry(p) == op[p].attempt + 1 < MaxAttempts

(* The last lock is released: the answer, another attempt, or a last look  *)
(* at the session that was named.                                          *)
Release(p) ==
    /\ op[p].phase = "releasing"
    /\ IF Held(p) # {}
       THEN /\ lock' = [lock EXCEPT ![Greatest(Held(p))] = None]
            /\ UNCHANGED op
       ELSE /\ UNCHANGED lock
            /\ \/ op[p].result \notin {"ok", "retry"} /\ End(p, op[p].result)
               \/ op[p].result = "ok" /\ op[p].kind = "delete" /\ End(p, "ok")
               \/ op[p].result = "ok" /\ op[p].kind # "delete" /\ Enter(p, "reporting")
               \/ /\ op[p].result = "retry" /\ MayRetry(p)
                  /\ op' = [op EXCEPT ![p].phase = "locating", ![p].result = "none",
                                      ![p].attempt = @ + 1]
               \/ /\ op[p].result = "retry" /\ ~MayRetry(p)
                  /\ End(p, "conflict")
    /\ UNCHANGED <<diskVars, exposed, faults>>

Report(p) ==
    /\ op[p].phase = "reporting"
    /\ End(p, IF op[p].target \in onDisk THEN "ok" ELSE "notFound")
    /\ UNCHANGED <<diskVars, lock, exposed, faults>>

-----------------------------------------------------------------------------
(* Naming: a shadow copy gets the entry and takes the file's place.        *)

Fault == faults < MaxFaults /\ faults' = faults + 1
NoFault == UNCHANGED faults

Shadow(p) == [session[op[p].target] EXCEPT !.log = @ \cup {p}]

(* atomicSessionManagerMutation, up to the rename: the copy gets the entry *)
CopyFile(p) ==
    /\ op[p].phase = "copying"
    /\ \/ /\ op[p].target \in onDisk /\ NoFault
          /\ op' = [op EXCEPT ![p].phase = "committing",
                              ![p].copy[op[p].target] = Shadow(p)]
       \/ op[p].target \notin onDisk /\ NoFault /\ Finish(p, "writeFailed")
       \/ Fault /\ Finish(p, "writeFailed")
    /\ UNCHANGED <<diskVars, lock, exposed>>

(* rename(temporary, f) puts s in the place of f. *)
Replace(f, s) ==
    /\ onDisk' = onDisk \cup {f}
    /\ session' = [session EXCEPT ![f] = s]
    /\ UNCHANGED gone

CommitName(p) ==
    /\ op[p].phase = "committing"
    /\ \/ /\ NoFault
          /\ Replace(op[p].target, op[p].copy[op[p].target])
          /\ Finish(p, "ok")
       \/ Fault /\ Finish(p, "writeFailed") /\ UNCHANGED diskVars
    /\ UNCHANGED <<lock, exposed>>

-----------------------------------------------------------------------------
(* Deletion: #commitDelete.                                                *)

ToDelete(p) == op[p].family \ {op[p].target}

(* The rollback snapshots, one file after the other; a failure here is     *)
(* outside the try and is not a write failure.                             *)
ReadChild(p) ==
    /\ op[p].phase = "reading" /\ op[p].read # ToDelete(p)
    /\ LET c == Least(ToDelete(p) \ op[p].read) IN
       \/ /\ c \in onDisk /\ NoFault
          /\ op' = [op EXCEPT ![p].copy[c] = session[c], ![p].read = @ \cup {c}]
       \/ c \notin onDisk /\ NoFault /\ Finish(p, "failed")
       \/ Fault /\ Finish(p, "failed")
    /\ UNCHANGED <<diskVars, lock, exposed>>

ReadDone(p) ==
    /\ op[p].phase = "reading" /\ op[p].read = ToDelete(p)
    /\ Enter(p, "reparenting")
    /\ UNCHANGED <<diskVars, lock, exposed, faults>>

(* reparentSessionHeader on the snapshot, then atomicReplaceBytes. *)
Reparented(p, s) == [s EXCEPT !.parent = op[p].newParent]

Reparent(p) ==
    /\ op[p].phase = "reparenting" /\ op[p].done # ToDelete(p)
    /\ LET c == Least(ToDelete(p) \ op[p].done) IN
       \/ /\ NoFault
          /\ op[p].copy[c].parent = op[p].target /\ c \in onDisk
          /\ Replace(c, Reparented(p, op[p].copy[c]))
          /\ exposed' = IF op[p].target \in exposed THEN exposed \cup {c} ELSE exposed
          /\ op' = [op EXCEPT ![p].done = @ \cup {c}]
       \/ /\ \/ NoFault /\ ~(op[p].copy[c].parent = op[p].target /\ c \in onDisk)
             \/ Fault
          /\ Enter(p, "rollingBack") /\ UNCHANGED <<diskVars, exposed>>
    /\ UNCHANGED lock

(* atomicDeleteFile: first the file becomes a tombstone ... *)
Tombstone(p) ==
    /\ op[p].phase = "reparenting" /\ op[p].done = ToDelete(p)
    /\ \/ /\ op[p].target \in onDisk /\ NoFault
          /\ onDisk' = onDisk \ {op[p].target} /\ gone' = gone \cup {op[p].target}
          /\ Enter(p, "unlinking")
          /\ UNCHANGED session
       \/ /\ \/ op[p].target \notin onDisk /\ NoFault
             \/ Fault
          /\ Enter(p, "rollingBack") /\ UNCHANGED diskVars
    /\ UNCHANGED <<lock, exposed>>

(* ... which is unlinked, or renamed back.  Meanwhile no listing shows it:  *)
(* a deletion of its parent does not know that it has this child.          *)
Unlink(p) ==
    /\ op[p].phase = "unlinking"
    /\ \/ NoFault /\ Finish(p, "ok")
       \/ Fault /\ Enter(p, "restoring")
    /\ UNCHANGED <<diskVars, lock, exposed>>

ParentLocked(f) ==
    session[f].parent \in gone \cup {g \in Files : lock[g] # None}

Restore(p) ==
    /\ op[p].phase = "restoring"
    /\ \/ /\ NoFault
          /\ onDisk' = onDisk \cup {op[p].target} /\ gone' = gone \ {op[p].target}
          /\ exposed' = IF ParentLocked(op[p].target) THEN exposed \cup {op[p].target}
                                                     ELSE exposed
          /\ UNCHANGED session
       \/ Fault /\ UNCHANGED <<diskVars, exposed>>
    /\ Enter(p, "rollingBack")
    /\ UNCHANGED lock

(* The children that were replaced get their snapshots back, the last one  *)
(* first; one that cannot be written stays as it is.                       *)
FaultyToRestore(p) == IF op[p].target \in onDisk THEN {} ELSE op[p].done
ToRestore(p) == op[p].done

RollBack(p) ==
    /\ op[p].phase = "rollingBack"
    /\ IF ToRestore(p) = {}
       THEN Finish(p, "writeFailed") /\ UNCHANGED diskVars /\ NoFault
       ELSE LET c == Greatest(ToRestore(p)) IN
            /\ op' = [op EXCEPT ![p].done = @ \ {c}]
            /\ \/ c \in onDisk /\ NoFault /\ Replace(c, op[p].copy[c])
               \/ c \notin onDisk /\ NoFault /\ UNCHANGED diskVars
               \/ Fault /\ UNCHANGED diskVars
    /\ UNCHANGED <<lock, exposed>>

-----------------------------------------------------------------------------
(* The process dies: its lock files stay.                                  *)
Crash(p) ==
    /\ op[p].phase \notin {"idle", "ended", "crashed"}
    /\ Over(p, "crashed", "none")
    /\ UNCHANGED <<diskVars, lock, exposed, faults>>

(* A runtime appends to its file, by path, or forks it.                    *)
AppendEntry(f, e) ==
    /\ f \in Live \cap onDisk
    /\ \A g \in Files : e \notin session[g].log
    /\ e \notin exposed
    /\ session' = [session EXCEPT ![f].log = @ \cup {e}]
    /\ exposed' = IF lock[f] = None THEN exposed ELSE exposed \cup {e}
    /\ UNCHANGED <<onDisk, lock, op, gone, faults>>

Fork(f, c) ==
    /\ f \in Live \cap onDisk
    /\ c \in Files \ (onDisk \cup gone)
    /\ onDisk' = onDisk \cup {c}
    /\ session' = [session EXCEPT ![c] = [parent |-> f, log |-> {}]]
    /\ exposed' = IF lock[f] = None THEN exposed ELSE exposed \cup {c}
    /\ UNCHANGED <<lock, op, gone, faults>>

-----------------------------------------------------------------------------
Step(p) ==
    \/ NameGenerated(p) \/ Locate(p) \/ AcquireLock(p) \/ LockTimeout(p) \/ LocateLocked(p)
    \/ CopyFile(p) \/ CommitName(p)
    \/ ReadChild(p) \/ ReadDone(p) \/ Reparent(p) \/ Tombstone(p) \/ Unlink(p)
    \/ Restore(p) \/ RollBack(p)
    \/ Release(p) \/ Report(p)

Next ==
    \/ \E p \in Ops, k \in Kinds, f \in Files : Begin(p, k, f)
    \/ \E p \in Ops : Step(p) \/ Abort(p) \/ Crash(p)
    \/ \E f \in Files : (\E e \in Entries : AppendEntry(f, e)) \/ (\E c \in Files : Fork(f, c))

Spec == Init /\ [][Next]_vars

(* Every awaited call of a process that lives returns.  Nobody has to ask  *)
(* for anything, and runtimes need not write.                              *)
FairSpec == Spec /\ \A p \in Ops : WF_vars(Step(p))

-----------------------------------------------------------------------------
(* Properties.                                                             *)

(***************************************************************************)
(* A name, or an entry, that was in a session file stays there as long as  *)
(* the file: no operation writes back a copy that is older than its locks. *)
(* An entry that a runtime appends while an operation has the file locked  *)
(* is not promised that (`exposed`), nor is it kept.                       *)
(***************************************************************************)
KeepsEntries ==
    [][\A f \in onDisk \cap onDisk' : session[f].log \ session'[f].log \subseteq exposed]_vars

(***************************************************************************)
(* No session is left with a parent that was deleted, whatever deletions   *)
(* run at once in its family and wherever one of them dies or one file     *)
(* operation fails; only a session that became a child of it while it was  *)
(* being deleted may be: a fork, or a session whose own deletion failed    *)
(* and that was put back, and what their children inherit.  (Where a       *)
(* second file operation fails, so that the session cannot be put back,    *)
(* its children are given back to it all the same.)                        *)
(***************************************************************************)
NoOrphans ==
    faults <= 1 => \A f \in onDisk \ exposed : session[f].parent \notin gone

(***************************************************************************)
(* A deletion that reports a failed write has left the family as it was:   *)
(* the session is there and its children are its children, if no more than *)
(* one file operation failed.                                              *)
(***************************************************************************)
FailedDeletionUndone ==
    \A p \in Ops :
        /\ op[p].phase = "releasing" /\ op[p].kind = "delete" /\ op[p].result = "writeFailed"
        /\ Held(p) = op[p].family /\ faults <= 1
        => /\ op[p].target \in onDisk
           /\ \A c \in ToDelete(p) : c \in onDisk /\ session[c].parent = op[p].target

(***************************************************************************)
(* Deletions leave families in order, those that succeed and those that    *)
(* fail.  deleteSession                                                    *)
(***************************************************************************)
DeletionsClean == NoOrphans /\ FailedDeletionUndone

Waits(p) == op[p].phase = "locking" /\ op[p].family # Held(p)

(***************************************************************************)
(* Operations never wait for each other's lock files in a circle, which    *)
(* only their deadlines would end.                                         *)
(***************************************************************************)
NoCircularWait ==
    \A S \in (SUBSET Ops) \ {{}} : \E p \in S : ~(Waits(p) /\ lock[NextLock(p)] \in S)

(***************************************************************************)
(* An operation that was asked for ends, unless its process dies: also     *)
(* when the process that had the lock died with it.                        *)
(***************************************************************************)
OperationEnds ==
    \A p \in Ops : op[p].phase # "idle" ~> op[p].phase \in {"ended", "crashed"}

(***************************************************************************)
(* What session-admin-conflict says: "The session changed after deletion   *)
(* was confirmed."                                                         *)
(***************************************************************************)
ConflictMeansChanged ==
    \A p \in Ops : op[p].phase = "releasing" /\ op[p].result = "conflict" =>
        op[p].evidence # [log |-> session[op[p].target].log,
                          parentId |-> ListedParent(op[p].target)]
=============================================================================
