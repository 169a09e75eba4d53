---------------------------- MODULE PiNodeRuntime ----------------------------
(***************************************************************************)
(* A Node embedded in another program: it is started and stopped, from any *)
(* number of callers, and holds one session of the Pi SDK in between.      *)
(*   node/src/pi-node-runtime.ts              (PiNodeRuntime)              *)
(*   node/src/pi-sdk-session-factory.ts       (PublicPiSdkSessionHandle)   *)
(*                                                                         *)
(* start() and stop() are memoized: a later caller awaits the same promise.*)
(* Any await may return an error.                                          *)
(*                                                                         *)
(* An operator Faulty* is no part of the specification: it is the operator *)
(* below it with a plausible mistake, which a property must refute.        *)
(***************************************************************************)
EXTENDS Naturals

VARIABLES
    lifecycle,  \* #state
    starting,   \* #startPromise: what it awaits
    stopping,   \* #stopPromise: what it awaits
    held,       \* #session is set
    sdk,        \* the session of the SDK
    settings,   \* whether the settings manager has writes to flush
    errors      \* of the steps of a stop

runtimeVars == <<lifecycle, starting, stopping, held, sdk, settings, errors>>

Lifecycle == {"created", "starting", "ready", "stopping", "stopped", "failed"}
Starting == {"no", "authorizing", "services", "creating", "flushing", "ready", "failed"}
Stopping == {"no", "waiting", "aborting", "disposing", "flushing", "stopped", "failed"}

RuntimeInit ==
    /\ lifecycle = "created" /\ starting = "no" /\ stopping = "no"
    /\ held = FALSE /\ sdk = "none" /\ settings = "clean" /\ errors = {}

-----------------------------------------------------------------------------
(* start(), #startOnce, PublicPiSdkRuntimeSessionFactory.create            *)

(* A call that finds another state throws, or awaits what is under way.    *)
Start ==
    /\ lifecycle = "created"
    /\ lifecycle' = "starting" /\ starting' = "authorizing"
    /\ UNCHANGED <<stopping, held, sdk, settings, errors>>

StartFailed == starting' = "failed" /\ lifecycle' = "failed"

Authorizes ==
    /\ starting = "authorizing"
    /\ \/ starting' = "services" /\ settings' = "unflushed" /\ UNCHANGED lifecycle
       \/ StartFailed /\ UNCHANGED settings
    /\ UNCHANGED <<stopping, held, sdk, errors>>

ServicesCreated ==
    /\ starting = "services"
    /\ starting' \in {"creating", "flushing"}
    /\ UNCHANGED <<lifecycle, stopping, held, sdk, settings, errors>>

SessionCreated ==
    /\ starting = "creating"
    /\ \/ /\ starting' = "ready" /\ lifecycle' = "ready" /\ held' = TRUE /\ sdk' = "live"
       \/ starting' = "flushing" /\ UNCHANGED <<lifecycle, held, sdk>>
    /\ UNCHANGED <<stopping, settings, errors>>

(* The factory flushes the settings before it throws. *)
FactoryFlushed ==
    /\ starting = "flushing" /\ StartFailed
    /\ settings' \in {"clean", "unflushed"}
    /\ UNCHANGED <<stopping, held, sdk, errors>>

-----------------------------------------------------------------------------
(* stop(), #stopOnce, PublicPiSdkSessionHandle.dispose                     *)

FaultyStop ==
    /\ stopping = "no"
    /\ IF held THEN stopping' = "waiting" /\ UNCHANGED lifecycle
       ELSE stopping' = "stopped" /\ UNCHANGED lifecycle
    /\ UNCHANGED <<starting, held, sdk, settings, errors>>
Stop ==
    /\ stopping = "no"
    /\ IF lifecycle = "created" THEN stopping' = "stopped" /\ lifecycle' = "stopped"
       ELSE stopping' = "waiting" /\ UNCHANGED lifecycle
    /\ UNCHANGED <<starting, held, sdk, settings, errors>>

FaultyStartAwaited ==
    /\ stopping = "waiting" /\ starting = "ready"
    /\ lifecycle' = "stopping" /\ stopping' \in {"aborting", "disposing"}
    /\ UNCHANGED <<starting, held, sdk, settings, errors>>
StartAwaited ==
    /\ stopping = "waiting" /\ starting \in {"ready", "failed"}
    /\ IF starting = "failed" THEN stopping' = "stopped" /\ UNCHANGED lifecycle
       ELSE /\ lifecycle' = "stopping"
            /\ stopping' \in {"aborting", "disposing"}   \* the SDK's session is idle, or not
    /\ UNCHANGED <<starting, held, sdk, settings, errors>>

(* An error is kept, and the next step taken. *)
Aborted ==
    /\ stopping = "aborting"
    /\ stopping' = "disposing"
    /\ errors' \in {errors, errors \cup {"abort"}}
    /\ UNCHANGED <<lifecycle, starting, held, sdk, settings>>

SessionDisposed ==
    /\ stopping = "disposing"
    /\ stopping' = "flushing"
    /\ \/ sdk' = "disposed" /\ UNCHANGED errors
       \/ errors' = errors \cup {"dispose"} /\ UNCHANGED sdk
    /\ UNCHANGED <<lifecycle, starting, held, settings>>

(* The errors of the steps before, and of this one, fail the stop. *)
SettingsFlushed ==
    /\ stopping = "flushing"
    /\ \/ /\ stopping' = "stopped" /\ lifecycle' = "stopped" /\ held' = FALSE
          /\ settings' = "clean" /\ errors = {}
       \/ /\ stopping' = "failed" /\ lifecycle' = "failed"
          /\ settings' \in {"clean", "unflushed"} /\ UNCHANGED held
    /\ UNCHANGED <<starting, sdk, errors>>

-----------------------------------------------------------------------------
RuntimeContinues ==
    \/ Authorizes \/ ServicesCreated \/ SessionCreated \/ FactoryFlushed
    \/ StartAwaited \/ Aborted \/ SessionDisposed \/ SettingsFlushed

RuntimeNext == Start \/ Stop \/ RuntimeContinues

RuntimeSpec == RuntimeInit /\ [][RuntimeNext]_runtimeVars /\ WF_runtimeVars(RuntimeContinues)

-----------------------------------------------------------------------------
(* Properties *)

(* Every variable has its type. *)
RuntimeTypeOK ==
    /\ lifecycle \in Lifecycle /\ starting \in Starting /\ stopping \in Stopping
    /\ held \in BOOLEAN /\ sdk \in {"none", "live", "disposed"}
    /\ settings \in {"clean", "unflushed"} /\ errors \subseteq {"abort", "dispose"}

(***************************************************************************)
(* A stop that is over leaves no session of the SDK alive, and none comes  *)
(* to life later, also if the Node was starting when it was stopped or the *)
(* abort of a running prompt failed: unless the SDK could not dispose it,  *)
(* in which case the stop has failed.  PiNodeRuntime.stop                  *)
(***************************************************************************)
StoppedIsReleased ==
    stopping \in {"stopped", "failed"} =>
        /\ starting \in {"no", "ready", "failed"}
        /\ sdk = "live" => "dispose" \in errors /\ stopping = "failed"

(* A stop ends, whatever the start it has to await does.  #stopOnce        *)
StopEnds == stopping = "waiting" ~> stopping \in {"stopped", "failed"}
=============================================================================
