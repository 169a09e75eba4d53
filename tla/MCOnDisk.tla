------------------------------ MODULE MCOnDisk ------------------------------
(***************************************************************************)
(* What the Node keeps and reads on a disk that others change too: session *)
(* files under administration and as they are listed and opened, project   *)
(* trust, the list of known projects and the content of a directory, and a *)
(* Node that is started on one and stopped, alone or for an application.   *)
(* They share no state but the disk, of which each looks at another part:  *)
(* a behaviour exercises one.                                              *)
(***************************************************************************)
EXTENDS MCSessionAdministration, DiskAnswers, PiNodeRuntime, HostedNode

VARIABLE exercised
projectVars == <<trustVars, queryVars>>
onDiskVars == <<vars, projectVars, runtimeVars, catalogueVars, hostedVars, exercised>>

(* The file 3 is a copy of 1, and 4 is not written yet. *)
HeaderIds == (1 :> 11) @@ (2 :> 12) @@ (3 :> 11) @@ (4 :> 13)
HeaderParents == (1 :> NoPath) @@ (2 :> 1) @@ (3 :> NoPath) @@ (4 :> 2)

Resolve == (1 :> 1) @@ (2 :> 1) @@ (3 :> 2)

OnDiskInit ==
    /\ exercised \in {"sessions", "trust", "list", "browse", "runtime", "catalogue", "host"}
    /\ Init /\ RuntimeInit /\ HostedInit
    /\ CatalogueInit
    /\ exercised # "catalogue" => files = {} /\ loaded = {} /\ scan.target = NoPath
    /\ TrustInit
    /\ exercised # "trust" => resources = {} /\ saved = "unset"
    /\ QueriesInit
    /\ exercised # "list" => /\ there = Directories
                             /\ \A i \in Sessions : records[i] = [cwd |-> 1, time |-> 1]
    /\ exercised # "browse" => \A n \in Names : entries[n].kind = "other"

(* A bound: a runtime forks, appends, or does nothing while two file       *)
(* operations fail, and none fails when a process dies.  None of these is  *)
(* a step that has to be taken.                                            *)
Once ==
    LET forked == 4 \in onDisk \cup gone
        appended == \E f \in Files : session[f].log \cap Entries # {} IN
    /\ ~(forked /\ appended)
    /\ faults > 0 => \A x \in Ops : op[x].phase # "crashed"
    /\ faults > 1 => ~forked /\ ~appended

OnDiskNext ==
    /\ \/ exercised = "sessions" /\ Next /\ Once'
          /\ UNCHANGED <<projectVars, runtimeVars, catalogueVars, hostedVars>>
       \/ exercised = "trust" /\ TrustNext
          /\ UNCHANGED <<vars, queryVars, runtimeVars, catalogueVars, hostedVars>>
       \/ exercised = "list" /\ ListNext
          /\ UNCHANGED <<vars, trustVars, runtimeVars, catalogueVars, hostedVars>>
       \/ exercised = "browse" /\ BrowseNext
          /\ UNCHANGED <<vars, trustVars, runtimeVars, catalogueVars, hostedVars>>
       \/ exercised = "runtime" /\ RuntimeNext
          /\ UNCHANGED <<vars, projectVars, catalogueVars, hostedVars>>
       \/ exercised = "catalogue" /\ CatalogueNext
          /\ UNCHANGED <<vars, projectVars, runtimeVars, hostedVars>>
       \/ exercised = "host" /\ HostedNext
          /\ UNCHANGED <<vars, projectVars, runtimeVars, catalogueVars>>
    /\ UNCHANGED exercised

OnDiskSpec ==
    /\ OnDiskInit /\ [][OnDiskNext]_onDiskVars
    /\ \A x \in Ops : WF_vars(exercised = "sessions" /\ Step(x))
    /\ WF_runtimeVars(exercised = "runtime" /\ RuntimeContinues)
    /\ WF_hostedVars(exercised = "host" /\ HostedContinues)

(* What was asked for ends: an operation on a session file, and not only   *)
(* by the deadline of its wait for a lock, the stop of a Node, and the     *)
(* close of an application's.                                              *)
WorkEnds == OperationEnds /\ []NoCircularWait /\ StopEnds /\ HostedCloseEnds
=============================================================================
