---------------------------- MODULE SessionExport ----------------------------
(***************************************************************************)
(* The export of a session: from what the workspace shows, through a file  *)
(* in a private directory of the Node, to the file the user chose.         *)
(*   lib/app/workspace/workspace.vm.dart        (_onSessionExportRequested)*)
(*   lib/platform/session_export/session_export_saver_io.dart              *)
(*   node/src/protocol/pi-node-protobuf-connection.ts (handleExportSession)*)
(*   node/src/pi-sdk-domain-session.ts                      (exportToPath) *)
(*                                                                         *)
(* A session's content is known by its revision.  The Node handles one     *)
(* request after the other; the workspace handles events concurrently, and *)
(* each goes on after its own awaits.  How the bytes are transferred is in *)
(* Transfer.  The destination is the same in every dialog, and a session is*)
(* selected when the selection before has finished.                        *)
(*                                                                         *)
(* An operator Faulty* is no part of the specification: it is the operator *)
(* below it with a plausible mistake, which a property must refute.        *)
(***************************************************************************)
EXTENDS Naturals, FiniteSets

CONSTANTS
    Exported,      \* the sessions of the project
    MaxExports,    \* bound: exports that are asked for
    MaxRevisions,  \* bound: revisions of a session
    MaxMoves,      \* bound: how often the user selects a session
    MaxTransfers,  \* eight
    NoFile         \* no destination

ASSUME ExportAssumption == {MaxExports, MaxRevisions, MaxMoves, MaxTransfers} \subseteq Nat

VARIABLES
    export,      \* the exports that were asked for; with `revoked` (history: the user
                 \* cancelled it before its handle was there) and `late` (history: it was
                 \* asked for while a selection waited)
    view,        \* WorkspaceViewModel
    revision,    \* of each session, in the Node's memory
    directory,   \* exports that have a private directory at the Node
    outbound,    \* #outboundTransfers
    cancelling,  \* handles whose cancel() has not written its frame yet
    cancelled,   \* those that have
    linked,      \* the connection
    destination, \* the user's file
    moves

exportVars == <<export, view, revision, directory, outbound, cancelling, cancelled, linked,
                destination, moves>>
nodeExportVars == <<revision, directory, outbound>>
appExportVars == <<view, cancelling, destination, moves>>

Exports == 1..MaxExports
Handled == {"prepared", "writing", "written"}
Unanswered == Handled \cup {"asked", "ready", "refused"}
GoesOn == {"choosing", "streaming"}
Unknown == 0   \* a null revision

ExportPhases == {"none", "asked", "prepared", "writing", "written", "ready", "refused", "choosing",
                 "streaming", "replacing", "saved", "ending", "over"}
NoExport == [phase |-> "none", generation |-> 0, session |-> CHOOSE s \in Exported : TRUE,
             expected |-> Unknown, before |-> Unknown, content |-> Unknown,
             outcome |-> "none", revoked |-> FALSE, late |-> FALSE]

ExportInit ==
    /\ export = [e \in Exports |-> NoExport]
    /\ \E s \in Exported :
          view = [selected |-> s, next |-> s, revision |-> 1, generation |-> 0, inFlight |-> FALSE,
                  revoked |-> FALSE, handle |-> 0, leaving |-> "no", left |-> 0]
    /\ revision = [s \in Exported |-> 1]
    /\ directory = {} /\ outbound = {} /\ cancelling = {} /\ cancelled = {}
    /\ linked = TRUE /\ destination = NoFile /\ moves = 0

To(e, phase) == export' = [export EXCEPT ![e].phase = phase]
Ends(e, outcome) == export' = [export EXCEPT ![e].phase = "ending", ![e].outcome = outcome]

-----------------------------------------------------------------------------
(* The workspace                                                           *)

(* The history of the selected session has been read. *)
ShowRevision ==
    /\ view.leaving = "no" /\ view.revision # revision[view.selected]
    /\ view' = [view EXCEPT !.revision = revision[view.selected]]
    /\ UNCHANGED <<export, nodeExportVars, cancelling, cancelled, linked, destination, moves>>

AskExport(e) ==
    /\ export[e].phase = "none" /\ \A d \in 1..(e - 1) : export[d].phase # "none"
    /\ ~view.inFlight /\ linked
    /\ view' = [view EXCEPT !.inFlight = TRUE, !.revoked = FALSE, !.generation = @ + 1]
    /\ export' = [export EXCEPT ![e].phase = "asked", ![e].generation = view.generation + 1,
                                ![e].session = view.selected, ![e].expected = view.revision,
                                ![e].late = view.leaving # "no"]
    /\ UNCHANGED <<nodeExportVars, cancelling, cancelled, linked, destination, moves>>

(* _isCurrentExport *)
IsCurrent(e) ==
    export[e].generation = view.generation /\ export[e].session = view.selected

(* PiSessionExportHandle.cancel: it writes a frame, unless it has or the   *)
(* transfer is over.                                                       *)
CancelHandle(e) ==
    cancelling' = IF e = 0 \/ e \in cancelled \/ export[e].phase \in {"replacing", "saved", "over"}
                  THEN cancelling ELSE cancelling \cup {e}

CancelWritten(e) ==
    /\ e \in cancelling
    /\ cancelling' = cancelling \ {e} /\ cancelled' = cancelled \cup {e}
    /\ UNCHANGED <<export, view, nodeExportVars, linked, destination, moves>>

(* The handle arrives. *)
FaultyUnwanted(e) == ~IsCurrent(e)
Unwanted(e) == ~IsCurrent(e) \/ view.revoked

Offered(e) ==
    /\ export[e].phase = "ready" /\ linked
    /\ IF Unwanted(e) THEN Ends(e, "cancelled") /\ CancelHandle(e) /\ UNCHANGED view
       ELSE /\ To(e, "choosing") /\ view' = [view EXCEPT !.handle = e]
            /\ UNCHANGED cancelling
    /\ UNCHANGED <<nodeExportVars, cancelled, linked, destination, moves>>

Refused(e) ==
    /\ export[e].phase = "refused" \/ (~linked /\ export[e].phase \in {"asked", "ready"})
    /\ Ends(e, "failed")
    /\ UNCHANGED <<appExportVars, nodeExportVars, cancelled, linked>>

(* _saveDesktop: the dialog, the partial file, the old file, the new file. *)
Choose(e) ==
    /\ export[e].phase = "choosing"
    /\ \/ To(e, "streaming") /\ UNCHANGED cancelling
       \/ Ends(e, "cancelled") /\ CancelHandle(e)
    /\ UNCHANGED <<view, nodeExportVars, cancelled, linked, destination, moves>>

(* Every byte is there, and the digest is right. *)
Streamed(e) ==
    /\ export[e].phase = "streaming" /\ e \notin cancelled /\ e \in outbound /\ linked
    /\ To(e, "replacing") /\ destination' = NoFile
    /\ outbound' = outbound \ {e} /\ directory' = directory \ {e}
    /\ UNCHANGED <<view, revision, cancelling, cancelled, linked, moves>>

Replaced(e) ==
    /\ export[e].phase = "replacing"
    /\ \/ destination' = e /\ export' = [export EXCEPT ![e].phase = "saved", ![e].outcome = "saved"]
       \/ UNCHANGED destination /\ Ends(e, "failed")
    /\ UNCHANGED <<view, nodeExportVars, cancelling, cancelled, linked, moves>>

StreamFails(e) ==
    /\ export[e].phase = "streaming" /\ (e \in cancelled \/ e \notin outbound \/ ~linked)
    /\ Ends(e, "failed")
    /\ UNCHANGED <<appExportVars, nodeExportVars, cancelled, linked>>

(* The file cannot be written. *)
WriteFails(e) ==
    /\ export[e].phase = "streaming"
    /\ Ends(e, "failed") /\ CancelHandle(e)
    /\ UNCHANGED <<view, nodeExportVars, cancelled, linked, destination, moves>>

(* _onSessionExportRequested, its end: after cancel() where it is called.  *)
FaultyConcluded(e) ==
    [view EXCEPT !.handle = 0, !.inFlight = FALSE, !.revoked = FALSE]
Concluded(e) ==
    IF export[e].generation = view.generation
    THEN [view EXCEPT !.handle = 0, !.inFlight = FALSE, !.revoked = FALSE] ELSE view

Conclude(e) ==
    /\ export[e].phase \in {"ending", "saved"} /\ e \notin cancelling
    /\ view' = Concluded(e) /\ To(e, "over")
    /\ UNCHANGED <<nodeExportVars, cancelling, cancelled, linked, destination, moves>>

(* _onSessionExportCancelled *)
RevokeExport ==
    /\ view.inFlight /\ ~view.revoked
    /\ view' = [view EXCEPT !.revoked = TRUE]
    /\ CancelHandle(view.handle)
    /\ export' = [e \in Exports |->
          [export[e] EXCEPT !.revoked = @ \/ (/\ view.leaving = "no" /\ IsCurrent(e)
                                              /\ export[e].phase \in Unanswered)]]
    /\ UNCHANGED <<nodeExportVars, cancelled, linked, destination, moves>>

(* _onSessionSelected, _cancelActiveExportForContextChange *)
Leave(s) ==
    /\ view.leaving = "no" /\ moves < MaxMoves /\ moves' = moves + 1
    /\ view' = [view EXCEPT !.leaving = "cancelling", !.next = s, !.left = view.handle,
                            !.generation = @ + 1, !.inFlight = FALSE, !.revoked = TRUE,
                            !.handle = 0]
    /\ CancelHandle(view.handle)
    /\ UNCHANGED <<export, nodeExportVars, cancelled, linked, destination>>

LeaveReturns ==
    /\ view.leaving = "cancelling" /\ view.left \notin cancelling
    /\ view' = [view EXCEPT !.leaving = "stopping", !.revoked = FALSE]
    /\ UNCHANGED <<export, nodeExportVars, cancelling, cancelled, linked, destination, moves>>

(* The events of the old session have been stopped. *)
SelectNext ==
    /\ view.leaving = "stopping"
    /\ view' = [view EXCEPT !.leaving = "no", !.selected = view.next, !.revision = Unknown]
    /\ UNCHANGED <<export, nodeExportVars, cancelling, cancelled, linked, destination, moves>>

-----------------------------------------------------------------------------
(* The Node: handleExportSession                                           *)

Free == \A e \in Exports : export[e].phase \notin Handled

PrepareExport(e) ==
    /\ export[e].phase = "asked" /\ Free
    /\ IF Cardinality(outbound) >= MaxTransfers
       THEN To(e, "refused") /\ UNCHANGED directory
       ELSE To(e, "prepared") /\ directory' = directory \cup {e}
    /\ UNCHANGED <<appExportVars, revision, outbound, cancelled, linked>>

(* No directory, a session that runs or is not loaded, an error of the SDK,*)
(* or a file that is empty. *)
ExportFails(e) ==
    /\ export[e].phase \in Handled
    /\ To(e, "refused") /\ directory' = directory \ {e}
    /\ UNCHANGED <<appExportVars, revision, outbound, cancelled, linked>>

(* exportToPath: the revisions, the file, the revisions again.             *)
BeginExport(e) ==
    /\ export[e].phase = "prepared" /\ export[e].expected \in {Unknown, revision[export[e].session]}
    /\ export' = [export EXCEPT ![e].phase = "writing", ![e].before = revision[export[e].session]]
    /\ UNCHANGED <<appExportVars, nodeExportVars, cancelled, linked>>

WriteExport(e) ==
    /\ export[e].phase = "writing"
    /\ export' = [export EXCEPT ![e].phase = "written", ![e].content = revision[export[e].session]]
    /\ UNCHANGED <<appExportVars, nodeExportVars, cancelled, linked>>

FaultyUnchanged(e) == export[e].content # Unknown
Unchanged(e) == revision[export[e].session] = export[e].before

ExportReady(e) ==
    /\ export[e].phase = "written" /\ Unchanged(e)
    /\ To(e, "ready") /\ outbound' = outbound \cup {e}
    /\ UNCHANGED <<appExportVars, revision, directory, cancelled, linked>>

(* abortTransfer *)
FaultyReleased(es) == outbound' = outbound \ es /\ UNCHANGED directory
Released(es) == outbound' = outbound \ es /\ directory' = directory \ es

AbortExport(e) ==
    /\ e \in cancelled \cap outbound /\ Free /\ linked
    /\ Released({e})
    /\ UNCHANGED <<export, appExportVars, revision, cancelled, linked>>

(* The input has ended: dispose, releaseTransfers. *)
ReleaseExports ==
    /\ ~linked /\ Free /\ outbound # {}
    /\ Released(outbound)
    /\ UNCHANGED <<export, appExportVars, revision, cancelled, linked>>

(* An extension changes a session that is idle. *)
ExtensionWrites(s) ==
    /\ revision[s] < MaxRevisions
    /\ revision' = [revision EXCEPT ![s] = @ + 1]
    /\ UNCHANGED <<export, appExportVars, directory, outbound, cancelled, linked>>

LinkLost ==
    /\ linked /\ linked' = FALSE
    /\ UNCHANGED <<export, appExportVars, nodeExportVars, cancelled>>

-----------------------------------------------------------------------------
ExportNext ==
    \/ \E e \in Exports :
          \/ AskExport(e) \/ CancelWritten(e) \/ Offered(e) \/ Refused(e) \/ Choose(e)
          \/ Streamed(e) \/ Replaced(e) \/ StreamFails(e) \/ WriteFails(e) \/ Conclude(e)
          \/ PrepareExport(e) \/ ExportFails(e) \/ BeginExport(e) \/ WriteExport(e)
          \/ ExportReady(e) \/ AbortExport(e)
    \/ \E s \in Exported : Leave(s) \/ ExtensionWrites(s)
    \/ ShowRevision \/ RevokeExport \/ LeaveReturns \/ SelectNext \/ ReleaseExports \/ LinkLost

ExportSpec == ExportInit /\ [][ExportNext]_exportVars

-----------------------------------------------------------------------------
(* Properties                                                              *)

(***************************************************************************)
(* The file the user has holds the session as the workspace showed it when *)
(* the user asked for the export, whatever changed until it was written;   *)
(* unless the workspace had not read the session's history yet.  An export *)
(* the user cancelled while it was prepared is never saved, also when its  *)
(* file is offered afterwards.                                             *)
(***************************************************************************)
ExportAsShown ==
    /\ destination # NoFile /\ export[destination].expected # Unknown =>
           export[destination].content = export[destination].expected
    /\ \A e \in Exports : export[e].revoked => export[e].outcome # "saved"

(***************************************************************************)
(* The Node keeps a copy of a session in its private directory as long as  *)
(* it prepares or transfers it: a failure in any step, a cancellation and  *)
(* the end of the connection remove it.                                    *)
(***************************************************************************)
CopiesRemoved ==
    directory = outbound \cup {e \in Exports : export[e].phase \in Handled}

(***************************************************************************)
(* The user can stop the export that goes on: the workspace has its handle *)
(* while it is the current one, and has cancelled it when it is not.  (One *)
(* asked for while the selection of another session waits is never.)       *)
(***************************************************************************)
ExportStoppable ==
    \A e \in Exports : export[e].phase \in GoesOn =>
        IF IsCurrent(e) THEN view.handle = e
        ELSE e \in cancelling \cup cancelled \/ export[e].late

=============================================================================
