------------------------------- MODULE Failures ------------------------------
(***************************************************************************)
(* What a client is told of an operation that failed.  An error of the SDK *)
(* adapter becomes one of the domain, which becomes a stable error of the  *)
(* protocol; each layer only knows the codes of the one below.             *)
(*   node/src/pi-node-domain-service.ts             (wrapSession...Error)  *)
(*   node/src/pi-sdk-domain-session.ts (classifySdkFailure, startPrompt)   *)
(*   node/src/protocol/protobuf-domain-adapter.ts   (mapDomainError)       *)
(*   protocol/src/frame_codec.ts                    (validateCompletion..) *)
(*                                                                         *)
(* A failure is [operation, from, code]: raised by the "sdk" adapter, by   *)
(* the "domain" itself, or any "other" exception, in which case the code   *)
(* is "unknown".                                                           *)
(*                                                                         *)
(* An operator Faulty* is no part of the specification: it is the operator *)
(* below it with a plausible mistake, which a property must refute.        *)
(***************************************************************************)
EXTENDS FiniteSets

(* The codes of the adapter that an operation can raise. *)
Raised ==
    [open |-> {"session-not-found", "session-id-ambiguous", "agent-dir-mismatch",
               "session-creation-failed"},
     history |-> {"session-history-cursor-invalid", "session-history-conflict",
                  "session-disposal-failed"},
     content |-> {"session-content-invalid", "session-disposal-failed"},
     export |-> {"session-history-conflict", "session-export-failed", "session-disposal-failed"},
     mutate |-> {"session-tree-entry-invalid", "session-clone-ineligible",
                 "session-mutation-cancelled", "session-mutation-conflict",
                 "session-mutation-locked", "session-mutation-failed",
                 "session-disposal-failed"},
     administer |-> {"session-not-found", "session-id-ambiguous", "session-name-invalid",
                     "session-delete-confirmation-required", "session-admin-conflict",
                     "session-admin-locked", "session-admin-write-failed",
                     "session-auto-name-model-unavailable",
                     "session-auto-name-provider-auth-required", "session-auto-name-timeout",
                     "session-auto-name-cancelled", "session-auto-name-empty",
                     "session-auto-name-failed"}]

Operations == DOMAIN Raised

(* Codes of the domain that its own checks raise within an operation. *)
DomainCodes == {"project-not-registered", "project-trust-unresolved", "session-not-loaded",
                "session-capacity-exceeded", "session-owned", "service-disposed"}

Failures ==
    UNION {{[operation |-> o, from |-> "sdk", code |-> c] : c \in Raised[o]} : o \in Operations}
    \cup [operation : Operations, from : {"domain"}, code : DomainCodes]
    \cup [operation : Operations, from : {"other"}, code : {"unknown"}]

-----------------------------------------------------------------------------
(* The domain *)

FailureCode == [open |-> "session-load-failed", history |-> "session-load-failed",
                content |-> "session-load-failed", export |-> "session-export-failed",
                mutate |-> "session-mutation-failed", administer |-> "session-admin-failed"]

(* Every code without a case of its own falls through to the last one. *)
MutationCode(code) ==
    CASE code \in {"session-not-found", "session-id-ambiguous"} -> "session-not-found"
      [] code \in {"session-tree-entry-invalid", "session-clone-ineligible",
                   "session-mutation-conflict", "session-mutation-locked"} -> code
      [] OTHER -> "session-content-invalid"

FaultyHistoryCode(code) == MutationCode(code)
HistoryCode(code) ==
    IF code \in {"session-history-cursor-invalid", "session-history-conflict"} THEN code
    ELSE MutationCode(code)

AdministrationCode(code) ==
    CASE code \in {"session-not-found", "session-id-ambiguous"} -> "session-not-found"
      [] code = "session-name-invalid" -> "session-admin-invalid-name"
      [] code = "session-delete-confirmation-required" -> "session-admin-confirmation-required"
      [] code = "session-auto-name-empty" -> "session-auto-name-failed"
      [] code = "session-admin-write-failed" -> "session-admin-failed"
      [] OTHER -> code

DomainCode(failure) ==
    CASE failure.from = "domain" -> failure.code
      [] failure.from = "other" -> FailureCode[failure.operation]
      [] failure.operation = "open" ->
            IF failure.code = "session-not-found" THEN failure.code ELSE FailureCode.open
      [] failure.operation \in {"history", "content"} -> HistoryCode(failure.code)
      [] failure.operation = "export" ->
            IF failure.code = "session-history-conflict" THEN failure.code ELSE FailureCode.export
      [] failure.operation = "mutate" -> MutationCode(failure.code)
      [] failure.operation = "administer" -> AdministrationCode(failure.code)

-----------------------------------------------------------------------------
(* The protocol *)

(* mapDomainError; a code in none of them is told as INTERNAL. *)
StableCodes ==
    [INVALID_REQUEST |-> {"invalid-project-path", "project-validation-failed",
                          "session-history-cursor-invalid", "session-admin-invalid-name",
                          "session-tree-entry-invalid"},
     FAILED_PRECONDITION |-> {"project-not-registered", "project-trust-unresolved",
                              "session-not-loaded", "session-admin-confirmation-required",
                              "session-auto-name-model-unavailable", "session-clone-ineligible"},
     CONFLICT |-> {"project-trust-revision-stale", "session-owned", "session-history-conflict",
                   "session-admin-conflict", "session-mutation-conflict"},
     PERMISSION_DENIED |-> {"project-trust-denied"},
     AUTHENTICATION_REQUIRED |-> {"session-auto-name-provider-auth-required"},
     NOT_FOUND |-> {"session-not-found"},
     NODE_BUSY |-> {"session-capacity-exceeded", "session-admin-locked",
                    "session-mutation-locked"},
     DATA_LOSS |-> {"session-content-invalid"},
     DEADLINE_EXCEEDED |-> {"session-auto-name-timeout"},
     CANCELLED |-> {"session-auto-name-cancelled"},
     UNAVAILABLE |-> {"service-disposed"}]

StableError(code) ==
    LET told == {stable \in DOMAIN StableCodes : code \in StableCodes[stable]}
    IN  [code |-> IF told = {} THEN "INTERNAL" ELSE CHOOSE stable \in told : TRUE,
         retryable |-> code \in StableCodes.NODE_BUSY \cup StableCodes.DEADLINE_EXCEEDED
                                \cup StableCodes.UNAVAILABLE]

Told(failure) == StableError(DomainCode(failure))

(* The layers meet: what the client saw has changed exactly if it is told  *)
(* CONFLICT, it may simply ask again exactly if nothing was begun, the     *)
(* session or the Node being taken or the name not there in time, and what *)
(* it named does not exist, or twice, if it is told so.                    *)
(* wrapSessionHistoryError and the others, mapDomainError                  *)
FailureTold(failure) ==
    /\ Told(failure).code = "CONFLICT" <=>
           failure.code \in {"session-history-conflict", "session-mutation-conflict",
                             "session-admin-conflict", "session-owned"}
    /\ Told(failure).retryable <=>
           failure.code \in {"session-mutation-locked", "session-admin-locked",
                             "session-auto-name-timeout", "session-capacity-exceeded",
                             "service-disposed"}
    /\ Told(failure).code = "NOT_FOUND" =>
           failure.code \in {"session-not-found", "session-id-ambiguous"}

-----------------------------------------------------------------------------
(* Prompts.  The SDK throws an error whose message mentions some of this;  *)
(* a run that ended leaves the stop reason of its last message.            *)

Mentions == {"model", "credentials", "processing", "abort"}
StopReasons == {"none", "stop", "aborted", "error"}
Ends == [throws : {TRUE}, mentions : SUBSET Mentions] \cup [throws : {FALSE}, stop : StopReasons]

ClassifySdkFailure(mentions) ==
    CASE "model" \in mentions -> "model-unavailable"
      [] "model" \notin mentions /\ "credentials" \in mentions -> "provider-auth-required"
      [] mentions \in {{"processing"}, {"processing", "abort"}} -> "session-busy"
      [] mentions = {"abort"} -> "aborted"
      [] mentions = {} -> "prompt-rejected"

Succeeded == [outcome |-> "succeeded"]
Ended(outcome, failure) == [outcome |-> outcome, failure |-> failure]

Completion(end) ==
    CASE end.throws -> Ended("failed", ClassifySdkFailure(end.mentions))
      [] ~end.throws /\ end.stop = "aborted" -> Ended("aborted", "aborted")
      [] ~end.throws /\ end.stop = "error" -> Ended("failed", "runtime-failed")
      [] OTHER -> Succeeded

(* #settleCommand, which keeps the failure of a command it calls aborted. *)
Settled(completion, abortRequested) ==
    IF abortRequested /\ completion.outcome = "failed"
    THEN [completion EXCEPT !.outcome = "aborted"]
    ELSE completion

(* mapCommandFailure *)
CommandError(failure) ==
    [code |-> CASE failure = "invalid-prompt" -> "INVALID_REQUEST"
                [] failure = "session-busy" -> "NODE_BUSY"
                [] failure \in {"model-unavailable", "prompt-rejected"} -> "FAILED_PRECONDITION"
                [] failure = "provider-auth-required" -> "AUTHENTICATION_REQUIRED"
                [] failure = "aborted" -> "CANCELLED"
                [] failure = "runtime-failed" -> "INTERNAL",
     retryable |-> failure = "session-busy"]

(* #sendDomainEvent, of a command-completed event. *)
FaultyCompletedEvent(completion) ==
    IF completion.outcome = "failed"
    THEN [succeeded |-> FALSE, error |-> {CommandError(completion.failure)}]
    ELSE [succeeded |-> TRUE, error |-> {}]
CompletedEvent(completion) ==
    IF completion.outcome = "succeeded"
    THEN [succeeded |-> TRUE, error |-> {}]
    ELSE [succeeded |-> FALSE, error |-> {CommandError(completion.failure)}]

(* validateCompletionError, validateStableError *)
AcceptsCompletion(event) == IF event.succeeded THEN event.error = {} ELSE Cardinality(event.error) = 1

(* However a run ended, and whether or not its abort was asked, the codec  *)
(* takes its completion, and the user is told that it succeeded exactly if *)
(* nothing was thrown and its last message neither failed nor was aborted. *)
(* startPrompt, #completionFromSession, #settleCommand, #sendDomainEvent   *)
CompletionTold(end, abortRequested) ==
    LET event == CompletedEvent(Settled(Completion(end), abortRequested)) IN
    /\ AcceptsCompletion(event)
    /\ event.succeeded <=> ~end.throws /\ end.stop \notin {"aborted", "error"}
=============================================================================
