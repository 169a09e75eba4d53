--------------------------- MODULE SessionCatalogue --------------------------
(***************************************************************************)
(* Which sessions a project has: the files of a directory, that others     *)
(* write, copy and delete while it is scanned, and the sessions the Node   *)
(* has loaded, some of which have no file yet.                             *)
(*   node/src/pi-node-domain-service.ts       (listPersistentSessions)     *)
(*   node/src/pi-sdk-domain-session.ts        (openPersistentSession)      *)
(*   protocol/src/frame_codec.ts              (listSessionsResponse)       *)
(*                                                                         *)
(* The Node does one of the two at a time (the executor is held), and so   *)
(* loads or closes nothing meanwhile.  Names, times and counts of messages *)
(* are left out; those of a loaded session are partly of when it was loaded*)
(* (#summaryAndBranch).                                                    *)
(*                                                                         *)
(* An operator Faulty* is no part of the specification: it is the operator *)
(* below it with a plausible mistake, which a property must refute.        *)
(***************************************************************************)
EXTENDS Naturals, SequencesExt, FiniteSetsExt

CONSTANTS
    Paths,      \* of session files, on disk or not
    IdAt,       \* the session a file's header names: a copied file names the same
    ParentPath, \* parentSession in the header
    Loadable,   \* sessions the Node may have loaded
    MaxWrites,  \* bound: files created, copied and deleted during a scan
    NoPath

ASSUME CatalogueAssumption ==
    /\ IsFiniteSet(Paths) /\ IsFiniteSet(Loadable)
    /\ DOMAIN IdAt = Paths /\ NoPath \notin Paths
    /\ ParentPath \in [Paths -> Paths \cup {NoPath}]
    /\ MaxWrites \in Nat

Ids == {IdAt[f] : f \in Paths} \cup Loadable

ASSUME IdsAreNoPaths == Ids \cap (Paths \cup {NoPath}) = {}

VARIABLES
    files,    \* the files there are
    loaded,   \* the sessions in #sessions
    scan,     \* listPersistentSessions or openPersistentSession
    seen      \* history: files there at some time, and all the time, of the scan

catalogueVars == <<files, loaded, scan, seen>>

-----------------------------------------------------------------------------
CatalogueInit ==
    /\ files \in SUBSET Paths
    /\ loaded \in SUBSET Loadable
    /\ scan \in [phase : {"asked"}, target : Ids \cup {NoPath}, left : {{}}, infos : {{}},
                 answer : {<<>>}, writes : {0}]
    /\ seen = [ever |-> {}, always |-> {}]

(* SessionManager.list of the SDK (external): the names, then each file.   *)
(* Only sessions of this project are in its directory.                     *)
ReadNames ==
    /\ scan.phase = "asked"
    /\ scan' = [scan EXCEPT !.phase = "reading", !.left = files]
    /\ seen' = [ever |-> files, always |-> files]
    /\ UNCHANGED <<files, loaded>>

ReadInfo(f) ==
    /\ scan.phase = "reading" /\ f \in scan.left
    /\ scan' = [scan EXCEPT !.left = @ \ {f},
                            !.infos = IF f \in files THEN @ \cup {f} ELSE @]
    /\ UNCHANGED <<files, loaded, seen>>

-----------------------------------------------------------------------------
(* parentSessionIdsByChildPath, sessionInfoToSummary *)
ParentIdOf(f, infos) ==
    IF ParentPath[f] \in infos THEN IdAt[ParentPath[f]] ELSE NoPath

ListedSummary(f) == [id |-> IdAt[f], parent |-> ParentIdOf(f, scan.infos), live |-> FALSE]

(* getSnapshot of a loaded session.  The parent it was opened with, which  *)
(* may be gone, is left out.                                               *)
LiveSummary(id) == [id |-> id, parent |-> NoPath, live |-> TRUE]

Overlaid(summary) == IF summary.id \in loaded THEN LiveSummary(summary.id) ELSE summary

(* listPersistentSessions *)
FaultyListing ==
    LET listed == SetToSeq(scan.infos) IN
    [i \in DOMAIN listed |-> Overlaid(ListedSummary(listed[i]))]
        \o SetToSeq({LiveSummary(id) : id \in loaded})
Listing ==
    LET listed == SetToSeq(scan.infos)
        listedIds == {IdAt[f] : f \in scan.infos}
    IN  [i \in DOMAIN listed |-> Overlaid(ListedSummary(listed[i]))]
        \o SetToSeq({LiveSummary(id) : id \in loaded \ listedIds})

AnswerList ==
    /\ scan.phase = "reading" /\ scan.left = {} /\ scan.target = NoPath
    /\ scan' = [scan EXCEPT !.phase = "listed", !.answer = Listing]
    /\ UNCHANGED <<files, loaded, seen>>

Matches == {f \in scan.infos : IdAt[f] = scan.target}

(* openPersistentSession, which is not asked for a session that is loaded, *)
(* and loadSessionSnapshot: where the SDK finds the file gone it throws, or*)
(* begins another session, which is not registered.                        *)
FaultyOpened == IF Matches = {} THEN "notFound" ELSE "opened"
Opened ==
    CASE Matches = {} -> "notFound"
      [] Cardinality(Matches) > 1 -> "ambiguous"
      [] Cardinality(Matches) = 1 ->
            IF Matches \subseteq files THEN "opened" ELSE "failed"

AnswerOpen ==
    /\ scan.phase = "reading" /\ scan.left = {} /\ scan.target \notin {NoPath} \cup loaded
    /\ scan' = [scan EXCEPT !.phase = Opened]
    /\ UNCHANGED <<files, loaded, seen>>

-----------------------------------------------------------------------------
(* Meanwhile (external) *)

Written == scan.phase = "reading" /\ scan.writes < MaxWrites
           /\ scan' = [scan EXCEPT !.writes = @ + 1]

(* Another process creates a file, or a runtime of this one does for a     *)
(* session that is loaded.                                                 *)
WriteFile(f) ==
    /\ Written /\ f \notin files
    /\ files' = files \cup {f}
    /\ seen' = [seen EXCEPT !.ever = @ \cup {f}]
    /\ UNCHANGED loaded

DeleteFile(f) ==
    /\ Written /\ f \in files
    /\ files' = files \ {f}
    /\ seen' = [seen EXCEPT !.always = @ \ {f}]
    /\ UNCHANGED loaded

CatalogueNext ==
    \/ ReadNames \/ AnswerList \/ AnswerOpen
    \/ \E f \in Paths : ReadInfo(f) \/ WriteFile(f) \/ DeleteFile(f)

CatalogueSpec == CatalogueInit /\ [][CatalogueNext]_catalogueVars

-----------------------------------------------------------------------------
(* listSessionsResponse in validateTransportFrame *)
AcceptsList(answer) == \A i, j \in DOMAIN answer : answer[i].id = answer[j].id => i = j

Copied(S) == \E f, g \in S : f # g /\ IdAt[f] = IdAt[g]

(***************************************************************************)
(* While files come and go, a listing has every session that is loaded,    *)
(* reported from memory, and every session whose file was there all the    *)
(* time; and no other unless its file was there at some time.  It has none *)
(* twice, so that the codec takes it, but if a file was copied.  A parent  *)
(* it names of a session on disk is one of the sessions it lists.          *)
(***************************************************************************)
CatalogueRight ==
    scan.phase = "listed" =>
        LET ids == {scan.answer[i].id : i \in DOMAIN scan.answer}
        IN  /\ loaded \cup {IdAt[f] : f \in seen.always} \subseteq ids
            /\ ids \subseteq loaded \cup {IdAt[f] : f \in seen.ever}
            /\ \A i \in DOMAIN scan.answer :
                  LET s == scan.answer[i] IN
                  /\ s.live <=> s.id \in loaded
                  /\ ~s.live => s.parent \in ids \cup {NoPath}
            /\ ~Copied(seen.ever) => AcceptsList(scan.answer)

(***************************************************************************)
(* A session is opened from the one file that has it, and refused only if  *)
(* none was there all the time, or more than one was there.                *)
(***************************************************************************)
OpenRight ==
    LET of(S) == {f \in S : IdAt[f] = scan.target} IN
    /\ scan.phase = "opened" => Cardinality(of(seen.always)) <= 1 /\ of(files) # {}
    /\ scan.phase \in {"notFound", "failed"} => of(seen.always) = {}
    /\ scan.phase = "ambiguous" => Cardinality(of(seen.ever)) > 1
=============================================================================
