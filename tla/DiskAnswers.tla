----------------------------- MODULE DiskAnswers -----------------------------
(***************************************************************************)
(* What the Node answers of a disk that others change, of projects and of  *)
(* sessions: as it is, and in frames.  The codec validates every answer,   *)
(* and one that it refuses is not sent.                                    *)
(*   node/src/project-service.ts                           (#resolveTrust) *)
(*   node/src/protocol/protobuf-domain-adapter.ts                          *)
(*   protocol/src/frame_codec.ts                                           *)
(* Identifiers and paths are taken to be acceptable, and names to differ in*)
(* more than the blanks around them.                                       *)
(***************************************************************************)
EXTENDS ProjectTrust, ProjectQueries, SessionCatalogue

(* The status follows from what inspect() found, the reasons from what was *)
(* probed; a saved decision is one of them.                                *)
TrustSnapshot(n) ==
    LET read == call[n].read
    IN  [status |-> CASE read.has = "no" -> "notRequired"
                      [] read.has = "yes" /\ read.decision = "yes" -> "trusted"
                      [] read.has = "yes" /\ read.decision = "no" -> "denied"
                      [] OTHER -> "approvalRequired",
         reasons |-> read.reasons, decided |-> read.decision \in {"yes", "no"}]

(* requireProjectSnapshot *)
AcceptsTrust(trust) ==
    (trust.status = "notRequired") = (trust.reasons = {} /\ ~trust.decided)

(* toProtocolDirectoryListing; requireDirectoryListing *)
DirectoryListing == [children |-> browsing.children, more |-> browsing.found > MaxChildren]
AcceptsListing(listed) == Cardinality(listed.children) <= MaxChildren

(* toProtocolKnownProjectSnapshot; validateTransportFrame *)
KnownProject(d) == listing.grouped[d]
AcceptsKnown(known) == known.last > 0 /\ known.count > 0

(***************************************************************************)
(* Every answer about projects can be sent, whatever changed on disk while *)
(* it was put together: a project says why it asks for trust exactly if it *)
(* does, and lists stay within their limits.                               *)
(***************************************************************************)
AnswersAccepted ==
    /\ \A n \in Nodes : Validated(n) /\ Consistent(n) => AcceptsTrust(TrustSnapshot(n))
    /\ browsing.phase = "answered" => AcceptsListing(DirectoryListing)
    /\ listing.phase = "answered" =>
          /\ Cardinality(listing.candidates) <= MaxProjects
          /\ \A d \in listing.candidates : AcceptsKnown(KnownProject(d))

(* What is read off the disk is answered as it is, and as the codec takes  *)
(* it: projects, directories, sessions and evidence of trust.  For         *)
(* listKnownProjects, browseDirectory, listSessions, openSession and       *)
(* validateTransportFrame.                                                 *)
AnswersRight ==
    KnownProjectsRight /\ ListedAsItIs /\ AnswersAccepted /\ CatalogueRight /\ OpenRight
=============================================================================
