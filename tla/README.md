# Verification of Pi Client

TLA+ models of Pi Client's own core: the Pi Node (a Node.js process that runs
coding-agent sessions through the Pi SDK) and the Flutter client's side of the
connection to it. TLC checks them on small instances. TLAPS proves, for every
value of the constants, every safety property of the session registry, of a
connection with its handshake and identifiers, of the events of a session on
it, of a transfer (with its refinement) and of an export, and the ones of the
Node's hosting. `PROJECT.json` maps every
definition to the lines it models, and lists runs, mutants, hazards, findings
and theorems.

Paths below are relative to the repository. C is
`node/src/protocol/pi-node-protobuf-connection.ts`, D is
`node/src/pi-node-domain-service.ts`, vm is `lib/app/workspace/workspace.vm.dart`.

## 1. The system

```
 HostedNode ── starts and closes ─────────────────────────────┐
                                                              ▼
 workspace.vm.dart ── PiNodeClient ── transport ══ stdio ══ stdio server
                                                              │ receive(frame), one at a time
                                                  PiNodeProtobufConnection
                                                              │ calls          ▲ session events
                                                     PiNodeDomainService ──────┘
                                                        │ leases, trust, sessions
                              PiSdkDomainSession / session administration / project service
                                                        │
                                                 Pi SDK (external), session files
```

| Component | State | Operations | Interacts by | Modules |
|---|---|---|---|---|
| Domain service (D) | loaded sessions with active command, abort flag, listeners, lease, last touch; executor queue; administered keys; mutating ids | create, load, list, read, prompt, abort, mutate, administer, close, approve trust, observe, dispose | functions on one serial executor; callbacks of the runtime; promises of the SDK | `SessionRegistry`, `SessionCatalogue`, `Failures` |
| Project trust, project service (`project-trust.ts`, `project-service.ts`) | saved decisions, inspection evidence, known projects | inspect, authorize, approve, list, browse | called by the domain service's functions | `ProjectTrust`, `ProjectQueries`, `DiskAnswers` |
| SDK adapter (`pi-sdk-domain-session.ts`) | prompt in flight, agent running, bound SDK session | startPrompt, abort, navigate, fork, clone, pages, tree, statistics, export | events and promises to the domain service | `DomainSession`, `SessionTree`, `SessionSummary`, `SessionStats` |
| Conversation normaliser | entries of the current run, content bindings, tool activities | normalise, page, read content | called by the adapter for every SDK event | `ConversationNormalizer`, `MessageParts`, `SafeValues` |
| Session administration (`pi-sdk-session-administration.ts`) | session files and their lock files | rename, auto-name, delete with rollback | called outside the executor, under a locked key | `SessionAdministration`, `SessionNaming` |
| Connection (C) | handshake, request and command ids, observations with event tails, pending admissions, transfers, write tail | one handler per client frame; event forwarding; transfer pump | calls the domain; receives its events; frames to the output | `ProtocolConnection`, `SessionEvents`, `Transfer`, `SessionExport` |
| stdio server, entry point | IPC decoder | read, hand on, dispose, exit | awaits each `receive` | `ProtocolConnection`, `IpcFraming` |
| Domain adapter, frame codec | none | convert, validate | called for every frame; a refused one is not sent | `FrameCodec`, and the stateless modules of section 8 |
| Client (`lib/api/pi_node/pi_node_client.dart`) | connection status, pending operations, session sequences, transfers | connect, one method per request, frame handler, close | transport streams; futures and streams to the view model | `ProtocolConnection`, `SessionEvents`, `Transfer` |
| Workspace view model (vm) | selected project and session, conversation, prompt in flight, generations | select, page, prompt, branch actions, export, reload after a gap | client futures and event streams | `Workspace`, `SessionExport` |
| Hosting, transport | Node process, connection, generation | connect, close, kill | process streams | `HostedNode`, `ProtocolConnection` |
| Embeddable runtime (`pi-node-runtime.ts`) | one SDK session | start, stop | memoised promises | `PiNodeRuntime` |

Hard behaviours: everything is single-threaded but asynchronous on both sides,
so the races are between awaits: functions on the executor against callbacks
and operations that have left it; two chains of promises (`inputTail`,
`eventTail`) writing to one output; SDK promises that settle after the runtime
they belong to is gone; the client's knowledge of a session against what is on
its way; a user who acts while an answer is awaited. Failures come half way
through: an SDK call, a lease, a `dispose()`, a write, a file operation, a
process. What is on disk changes while it is read: other Nodes and pi command
lines share it. The section "hazards" of `PROJECT.json` lists them at their
lines with the properties that cover them.

What makes each component correct:

- *domain service*: ownership leases match loaded sessions; the limit on open
  sessions bounds live runtimes; a busy session becomes free, and only by its
  own command's answer; administration, mutation and use exclude each other;
  deleted sessions stay deleted; shutdown releases everything;
- *trust and projects*: what is approved is what the user saw; a refusal has a
  cause; lists are right although directories and files come and go while they
  are put together;
- *files*: a failed deletion leaves the files as they were; no entry and no
  fork is lost; lock files do not deadlock;
- *connection and client*: correct peers never accuse each other; a command
  runs at most once; what the application is told is what happened; every
  operation and every close ends;
- *events*: an answer precedes its command's completion; a stream continues
  exactly where the snapshot of an opened session ends, and not before the page
  of an opened history; sequences grow; no event is lost
  unnoticed; accepted commands complete; no listener leaks;
- *transfers and exports*: credit is never exceeded, a transfer ends at both
  ends and its slot is freed; a saved file is the branch that was shown; no
  copy stays in the Node's directory;
- *workspace*: the view is a state of the Node's branch, no message is shown
  twice, what is shown can be fetched; late answers change nothing they do not
  belong to;
- *codec*: what the Node makes of the SDK's values passes its own validation
  and means the same after it; any split of the bytes gives the frames that
  were written;
- *hosting*: one process at a time, none when the application has closed.

## 2. Modules and plan

| # | Module | Models | Run |
|---|---|---|---|
| 1 | `SessionRegistry` | the domain service's registry; proved | `registry`, `registry_live` |
| 2 | `SessionEvents` | one session's events over one connection to the client; proved | `events`, `view_and_export`, `events_backlog`, `events_approval` |
| 3 | `Transfer`, `ContentCopy` | message content and exports as frames: credit, chunks, acknowledgements, both ends; the second is what the first implements; proved | `connection` |
| 4 | `ProtocolConnection` | a connection and its process: handshake, identifiers, pending operations, crashes, close; proved | `connection` |
| 5 | `IpcFraming` | frames on a byte stream that is cut anywhere | `connection` |
| 6 | `DomainSession`, `ConversationNormalizer` | one session as the Node serves it: tree, run of the agent, entries, pages, events | `workspace` |
| 7 | `Workspace` | the view model over that session, composed with 6 | `workspace`, `selection` |
| 8 | `FrameCodec` | the codec on everything 6 sends | `workspace`, `history` |
| 9 | `SessionExport` | an export from the button to the file, at both ends; proved | `view_and_export` |
| 10 | `SessionAdministration`, `SessionNaming` | file operations with locks, retries, rollback, faults and dying processes; the first proved | `on_disk`, `files_conflict`; `connection` |
| 11 | `ProjectTrust`, `ProjectQueries`, `DiskAnswers` | approval, known projects, directories; all answers together, and the codec on them; proved | `on_disk` |
| 12 | `SessionCatalogue` | listing and opening sessions while their files change; proved | `on_disk` |
| 13 | `PiNodeRuntime` | start and stop of an embedded Node; proved | `on_disk` |
| 14 | `HostedNode` | the processes an application hosts; proved | `on_disk` |
| 15 | `SafeValues`, `SessionTree`, `SessionSummary`, `SessionStats`, `MessageParts`, `Failures` | conversions without state of their own, against the codec | `connection` |

An MC module joins components that share no state into one run: a variable
`exercised` chooses in the initial state which of them the behaviour is about,
and the others stutter. Fairness is stated for the part that is exercised.

The theorems are in modules of their own, `<module>Proofs` (the registry has
two: `SessionRegistryProofs`, `SessionWorkProofs`; the
runtime, the hosted Node and the export share `ApplicationProofs`; trust and the
administration of session files share `OnDiskProofs`); section 10 lists them
with their arguments.

What could come next, in this order: the part of `NoSilentLoss` that says
sequences grow while the output keeps up;
`SessionRegistry` and `SessionEvents` composed over an abstract registry of one
session; the workspace's list of projects and sessions.

## 3. `SessionRegistry`

Every public method of `PiNodeDomainService` puts a function on one
`SerialExecutor`. `queue` holds the functions waiting, `slot` the running one
and the await it is in (`phase`). One action is the code between two awaits:
`CreateSession` runs from the function's start to the await of an eviction or
of the factory, `OpenReturns` from there through `#registerBackend` to the end
of the function or to the disposal of a runtime that could not be registered.

| Variable | Code |
|---|---|
| `queue`, `slot` | `#executor` |
| `sessions`, `entry` | `#sessions`, `RegistryEntry` and the flags of its runtime |
| `newer` | `lastTouched`, as an order: the loaded sessions touched since |
| `owner` | the process-wide ownership registry |
| `locked`, `mutating` | `#administeredSessionKeys`, `#mutatingSessionIds` |
| `admin` | administration requests between their two executor functions |
| `command`, `promise` | what a prompt was answered; the outstanding SDK promise |
| `trust` | protected resources and the saved decision of a project |
| `used`, `deleted`, `aborted` | session files, and history |

Abstractions. The trust authorization a function awaits first is merged with
the synchronous code after it: nothing that runs meanwhile changes what that
code reads, except the synchronous callbacks, which may as well run before.
A project's decision "not trusted" refuses like one that is missing. Reading
calls (history, statistics, tree, export, content) only touch the entry. Any
authorization, revision or evidence check may refuse (`Refuse`). A mutation
of the SDK replaces the session and returns, or throws and has replaced
nothing. The file operation of an administration request is one step here
(section 6 has its steps). The other owner of a session is another domain
service in the same process; its administration is not modelled. Client calls
name sessions that are on disk.

`KeyedSerialExecutor` keeps apart requests with the same *spelling* of the
directory, the locked key those with the same *canonical* directory; `Aliases`
are the spellings, which is why two requests for one session can meet.

Runs. `registry` checks nine properties; all four concerns of the registry at
once would be too large, so `MCSessionRegistry` lets a behaviour exercise one.
A concern bounds the sessions and commands and names the calls it leaves to the
others (`without`); every step of the service itself belongs to every concern:

| Concern | Instance | Aimed at |
|---|---|---|
| commands | 1 session, 2 commands, 2 functions waiting | `ActiveWillSettle`, `MutationAlone`, `AnsweredOnce` (no second answer, no abort that is held against a later command) |
| capacity | 3 sessions, room for 2, a competing service; one session is watched and prompted | `LeaseMatchesRegistry`, `RuntimesBounded`, `BusySessionsStay` |
| administration | 2 sessions, 2 requests, 2 spellings, 2 directories | `AdministrationAlone` (with: what is deleted stays gone) |
| trust | a session in each of 2 projects, one of which gets protected resources; 1 prompt | `TrustedNotRestricted` |

`registry_live` has two sessions with room for one, a competing owner, one
command and one request, and checks `BusyEnds`, `LocksReleased` and
`ShutdownReleasesAll`. Its concerns (answering, changing, replacing) bound only
what is called, never a step of the service, so that the fairness is that of
the specification.

Bounds. `QueueBound` limits only when clients call: settlements, unlocks and
`dispose()` are queued regardless. With a function waiting, a call made before
another's function runs is always possible, which is the race the executor is
there for; more callers only lengthen the wait. Two commands are needed for a
late settlement to meet the next command, three sessions and room for two for
an eviction with a choice, two requests and two spellings for administrations
to overlap. The proofs of section 10 have none of these bounds.

Fairness of `registry_live`: the event loop runs the executor's next function;
every awaited SDK or file call, and every prompt promise, returns or throws in
the end. Nothing obliges a client to call. An SDK call that never returns
blocks the executor for ever, by design of the code: there are no timeouts.

## 4. Connection, events, transfers

### `ProtocolConnection` (run `connection`)

A client and a Node process, from the offer to the exit. The Node handles one
frame at a time and awaits the domain before it takes the next; `handler` is
the request it handles, `called` and `carried` are history: what reached the
domain and what it did. The application's operations (`result`) are the ones of
`Kinds`: "known" teaches the connection projects, "list" sessions, a prompt or
a fork needs both; a command identifier may be used again. The operation may be
one the client cannot encode, its answer one the Node cannot, or one that does
not fit a frame: it is then told that it was refused, although it was carried out
(`unsent`). The domain may hang. The process may crash, the client may
close at any time, which ends the input, waits, and kills.

`PeersAgree`: neither peer calls the other's frames wrong, both have negotiated
the same, and every project the client was told of is one the Node will accept
(`HonestPeersAgree`, `NegotiationAgrees`, `ToldProjectsAreKnown`).
`CommandsTruthful`: a command identifier reaches the domain once (`CommandOnce`);
what the application is told succeeded was carried out, and what it is told was
rejected was not (`ResultsTruthful`). `EveryWaitEnds` joins the liveness of all
that the run exercises: here `OperationEnds` and `CloseEnds`, nothing is
awaited for ever, although the domain may hang.

Bounds: three operations with identifiers for two (`MaxTracked`) reach the
limit; one frame in the pipe lets a writer wait. Fairness: the client sends its
offer, both sides read, the transport writes and its timer kills, disposal
returns. None is assumed of the application, of the domain, or of a crash.

### `IpcFraming` (run `connection`)

`Push` hands the decoder any number of bytes; the writer may stop within a
frame (`Tear`). `FramesExact`: a stream that ends between frames gives exactly the frames
written, one that is cut or oversized fails. A length is two digits to base 3
and frames have up to 5 bytes, so that one length above the limit can be
written; payloads include an empty one and one that is too long.

### `SessionEvents` (runs `events`, `view_and_export`, `events_*`)

One session, observed over one connection by one client. `conn` has an
observation (`stream[s]`: last domain sequence, last sent sequence, event
tail), the pending admission of the session, and the frames that wait on
`writeTail`; `handler` is the client frame in progress (there is never more
than one: `receive` is chained on `inputTail`, and the stdio server awaits
it); `session` is what the domain service contributes: its sequence counter
and active command; `client` what the client and its view know. An action is
the code up to the next await; the writer of a frame continues when the frame
is written, and the client reads it then.

`Prompt` and `Abort` begin an admission: events are buffered until the answer
is queued and written, then flushed, one write at a time (`FlushRound`),
concurrently with `eventTail` (`RunTail`). `GetSession` subscribes after its
load (`SessionLoaded`) and answers a `getSession` or `createSession` with the
snapshot taken with the subscription, but a `getSessionHistory`, with which the
view model opens a session, with the page read before it: events between the two
are in neither, and the client learns of them by the gap at the next event, or
not before the session is loaded again (section 9).
Administration and tree mutations drop the observation first; trust approval
does not. `InputEnds`, `OutputFails` and a `closed` frame, which the client's
codec refuses, end the connection. `gap` is the client's: "known" once it saw a
sequence it did not expect, "reloading" from the request the view model sends to
its response. Older pages, asked for with a cursor, subscribe nobody new: they are
in `DomainSession` and `Workspace`.

| Run | Instance | Checks |
|---|---|---|
| `events` | all requests, 2 commands, 2 observations, 2 events, oversized frames, backlog, ends | `FramesInOrder`, `StreamsExact`, `ListenerIsObserved` |
| `view_and_export` | get, history, prompt, abort, change; output keeps up | `NoSilentLoss`, `CompletionArrives` |
| `events_backlog` | output may lag | `StrictlyIncreasing` is violated |
| `events_approval` | with trust approval | `CompletionArrives` is violated |

`FramesInOrder` is `AnswerBeforeCompletion` (the completion of a command waits
behind the answer that admitted it) and `WireInOrder` (events leave in the
order of their streams and of the domain, none twice). `StreamsExact` is
`SnapshotMeetsStream` (a stream goes on exactly where the snapshot in the answer
that opened it ends, or, if that was the page of a history, from there or later,
never from before it) and `OldStreamSilent` (no stream from before a change goes
on after its outcome). The three are proved for all constants (section 10).
`NoSilentLoss` says that sequences strictly increase within a stream and that
the client's view goes on by one event, by a snapshot, or knows of the gap.

Two disagreements between code and documents limit what `view_and_export` may
assume:

- *Backlog.* `#sendSessionEvent` computes the next `event_sequence` before it
  awaits the write and records it afterwards. While the event tail waits for
  the output, a prompt's or abort's flush of later events uses the same
  sequence. The schema promises strictly increasing sequences within a stream.
  `KeepsUp` says that no prompt or abort arrives while events wait behind the
  one being written.
- *Approval.* `approveTrust` closes the project's sessions in the domain
  service; the connection keeps its observations. The session loaded again has
  no listener, and an accepted command's completion is never sent, while the
  protocol's README says it arrives on the event stream.

Fairness of `view_and_export`: calls of the domain return, a run that started
ends, frames are written, answers sent. The reload after a gap is strongly
fair: the client asks once, and frames are handled first come, first served.

`MaxEvents` bounds conversation events (completions come on top): one event in
the tail, one in the admission's buffer are enough for the two writers to
meet. `MaxStream` = 2 lets an old and a new observation coexist.

### `Transfer` (run `connection`)

One download: the request for a message's content or a session export, the
temporary file at the Node, and the handle the client gives its caller. Other
transfers share only the order of frames and the limit of eight, which is the
rejecting branch of `HandleRequest`; one transfer stands for each of them.

| Variable | Code |
|---|---|
| `server` | `OutboundTransfer`: `phase` "open" or "closed" is `closed`, "pumping" is a handler inside `#pumpTransfer`; `outstanding` is `sentEndOffsets` after number `acked`; `ended` records why it was closed |
| `loader` | `_ClientTransfer`: `phase` is the await of `_consume`; `next`, `received`, `credit`, `terminal`, `cancelSent` its fields, `signals` its stream, `committed` and `consumed` the locals of `_consume`; `outcome` is how `done` completed, `delivered` what the caller got |
| the two channels | frames on their way, in order |

The Node handles one frame after the other, and a handler awaits the pump it
starts: no frame is handled while the Node is pumping. At the client
three activities interleave: the frame handler (`AcceptChunk`, `AcceptEnd`),
the generator (`Listen`, `Granted`, `TakeSignal`, `AckTaken`, `AckReturns`),
whose awaits are actions of their own, and the caller, who takes chunks when
it likes, leaves the stream (`Leave`, seen by the generator at its next
`yield`, as Dart does) or calls `cancel()`, which fails the transfer only when
its frame is sent (`CancelReturns`). `Disconnect` may happen at any time; the
Node sees it after any number of the frames still under way (`InputEnds`).
The pump may fail (`PumpFails`), and a read may return less than was asked.
Digests are not modelled: the bytes arrive as sent.

`TransferExact`: neither end accuses the other or sends a frame the codec
refuses (`PeersInStep`), the client's grants stay below the Node's limit
(`CreditSuffices`), the Node sends at the reader's pace (`WindowBounded`) and
calls complete only what was taken to the last byte (`CompleteWhenTaken`).
`ContentCopy` is the promise to the caller: content in order, an end told
once, "complete" only after the last byte. `Copied` is the refinement;
`DownloadEnds` and `SlotFreed`, in `EveryWaitEnds`, are the liveness: a download
that was asked for ends whatever its reader does, and the Node's slot and file
are freed.

Bounds. Four bytes in chunks of two, with reads that may return one byte, give
whole and short chunks and up to four of them; two outstanding chunks let the
pump stop for that reason while there is credit. `MaxCredit` is above what four
bytes can be granted, so that `CreditSuffices` speaks of the bookkeeping in this
run. The code grants a chunk's worth for every chunk, however short a read made
it (C:1554), and refuses more than 8 MiB of credit: section 10 proves that the
limit is never met when reads return what is asked for. With reads that stay
short it can be; that they do not is a property of the file system's reads, on
which the code relies.

Fairness: the Node handles what arrives (a pump that is not over reads on, and
need not fail), frames are delivered, awaited sends return, and a caller that
got a handle starts to read it. Without the last one the slot would stay taken,
in the code as in the model. Nothing obliges the caller to leave or cancel, nor
the connection to break.

Deadlock checking is off where a system may stop for good: a closed
connection, a finished transfer, an answered query.

## 5. The workspace and its session

`DomainSession` is one persistent session as the Node serves it to one client:
`node` has the SDK's tree of entries and its leaf, the flags of the adapter and
of the domain service, and the event sequence; `sdk` the run of the agent
(external), `conv` its `ConversationNormalizer`; `toNode`, `answering` and
`toClient` are requests, the page that has been read and is still to be
written, and answers and events on their way. `Workspace` extends it with
`view`, the view model. This is a composition of both ends: every property is
about what a user sees of what the Node has.

The normaliser turns messages of the SDK into entries with revisions; a text
above 64 KiB (`Inline`) and an image become a reference that is fetched under a
binding of session, entry, part, revisions and content. A turn of the agent is
a user message, then assistant messages streamed in updates, a tool call with
its activity and result, and metrics. The SDK appends a message to the tree
when it has ended and emits `agent_settled` before `prompt()` resolves.

A load of the view model asks for a page and for the tree and is done with the
last answer. The generation counters are modelled by the purpose a request
names: a load that is given up renames what is under way for it to "none". The
user selects this session, another one (`Away`, which has the same entries and
does nothing) or this one again, asks for older pages, prompts, and navigates,
forks or clones; a refresh of the session list comes at any time.

| Property (run `workspace`) | Says |
|---|---|
| `ViewCurrent` | with everything read, a view that is not reloading shows the Node's entries at the Node's revisions |
| `SettledViewIsBranch` | when the agent has settled and nothing is on its way, the view is the Node's branch |
| `ReferencesFetchable` | content on view can be fetched with its binding |
| `PagesJoin` | older pages continue the view without a gap or an overlap, and no message is on view twice |
| `AnswerAwaited` | whatever the view waits for is on its way |
| `FramesAccepted` | the codec accepts every page, tree, entry and event the Node writes |

`selection` shows that a fork's answer takes back a selection that was made
while it was awaited, although the requirements say that stale branch responses
cannot replace the active selection. `history` shows that the Node's codec
refuses a page with a shell command that printed nothing, although such
entries are to stay renderable.

Bounds: one prompt with two turns, the first with up to three updates and the
next with one fewer (`sdk.updates + sdk.turns < MaxUpdates`), gives an entry that
is revised, finalised and followed by another; one fork; pages of two from a
branch of four entries, of which one is left out of pages; two selections, older
pages or branch actions. `MaxWire` bounds the messages on their way before the
agent moves on. Streamed parts start non-empty in `workspace` (an empty one is
the subject of `history`).

What the model leaves out, because the view is known to go wrong there:
selecting the Node's own session while a mutation is pending (`selection`); an
older page asked for while a reload is pending (`OlderWhileLoading` = FALSE:
the older page lands on the reloaded view and leaves a hole); events that pass
between the page's answer and the listener's attachment, which are dropped:
`lost` marks such a view, and the properties excuse it until its next load. So
does a list refresh that discards a pending reload.

### `SessionExport` (run `view_and_export`)

From the button to the renamed file: the view model's expected revision, the
save dialog, the request, the private directory at the Node, the transfer (as
one outcome; its frames are in `Transfer`), the saver's temporary file and the
rename. Selections cancel exports; the user may; each step may fail and the
connection may break.

`ExportAsShown`: a saved file has the revision that was on view, and an export
that was cancelled while it was prepared is never saved. `CopiesRemoved`: the
Node's directory holds a copy exactly while it prepares or transfers it.
`ExportStoppable`: an export that goes on can be cancelled. All three are proved
for all constants (section 10). Bounds: two exports, two revisions, one move of
the selection, one transfer at a time (so the second export may be rejected);
the session selected first is fixed by symmetry and is the one that changes; a
session is selected when the previous selection is over.

## 6. What is on disk (run `on_disk`)

`SessionAdministration`: an action is one file operation. Several operations
run at once, in one Node or several; they take `<path>.pi-client-admin.lock`
with exclusive creation. Runtimes append to and fork session files without
taking a lock. A deletion locks the file and those of its children, renames it
to a tombstone, rewrites the children's headers, and undoes all that when a
step fails; it is tried again up to three times when the family changed.
A process may die between any two steps (`MaxFaults` counts failing file
operations; death is free). The properties speak of what one failing operation
leaves behind: with two, the second may hit the undoing of the first, and the
code gives up what it cannot restore; the second fault is there for what may
never be lost even then (`KeepsEntries`) and for what has to end.

While a session that is deleted is a tombstone no listing shows it, so a deletion
of its parent does not know that it has this child; when the tombstone cannot be
unlinked the session is put back, and names a parent that is gone. The history
variable `exposed` collects what no operation promises anything about: entries
appended to a file that is locked, and sessions that became children of one that
was locked or gone (forks, such a session that was put back, its children).

| Property | Says |
|---|---|
| `DeletionsClean` | a deletion that failed left every file as it was (`FailedDeletionUndone`), and no file names a parent that an operation removed (`NoOrphans`), but for those in `exposed` |
| `KeepsEntries` | no step writes back a copy without an entry that the file has, unless the entry was appended while the file was locked |
| `WorkEnds` | operations never wait for each other's lock files in a circle (`NoCircularWait`); every operation of a process that lives ends (`OperationEnds`); so do a stop and a close (`StopEnds`, `HostedCloseEnds`) |

`files_conflict` shows that a forked session that nobody touched cannot be
deleted with the evidence of the list: the list puts the parent into the
revision, the deletion does not.

`ProjectTrust`: `validateProject` shows evidence read piece by piece;
`approveTrust` reads it again and looks four times whether it is still what the
user saw. `ApprovalRight`: an approval is saved only if what was approved is
what was shown, up to what changed after the last look (`late`), and nothing is
refused unless something did change or was never decided (`ApprovalInformed`,
`RefusalHasCause`).

`ProjectQueries`: directories go and come while the two walks read them; what a
spelling resolves to stays as it is. `KnownProjectsRight`: the projects listed are
the latest ones, each with its latest session, of the records the scan took; only
of a directory that came while the listing ran sessions may be missed.
`ListedAsItIs`: a directory listing has what was there throughout and nothing
that never was. `DiskAnswers`: `AnswersAccepted`: the codec takes all that; and
`AnswersRight`, which joins these with the two below.

`SessionCatalogue`: a scan of a session directory that others write, copy and
delete in. `CatalogueRight`: a listed session was there, one that was there all
the time is listed, loaded ones from memory; of a summary the model has which
session, whose child, and from where it comes, and leaves out names, counts and
times (those of a loaded session are the ones read when it was loaded).
`OpenRight`: what is
opened is the session that was asked for.

`PiNodeRuntime`: `start()` and `stop()` are memoised; every await may throw; a
stop overtakes a start. `StoppedIsReleased`: when stop is over no SDK session
lives, unless the SDK could not dispose it and stop said so; `StopEnds`.

`HostedNode`: a connection is made by disposing the old session, starting a
process, and shaking hands; `close()` may come between any two of these.
`HostingRight`: one process at a time, none when `close()` has ended, and what
is shown as connected is hosted (`OneNode`, `NothingHosted`, `ShownIsHosted`).
`HostedCloseEnds`: a close ends.

Bounds: three files in a chain of forks, each of a project of its own (a
deletion of one in its parent's is refused, see `files_conflict`), and one to be forked, two operations,
two faults, two attempts; two categories of resources and two outside changes;
three sessions of which two are scanned; four paths of which two hold the same
session, and two writes during a scan; three connections. Each is the smallest
at which the case it is for happens: a deletion with a child and a parent, a
retry, a change between two looks, a copied file, a connection after a failed
one and one after that.

Fairness: an operation's process goes on until it dies; a runtime and a host
continue. For the handshake of a hosted Node this is an assumption: the code
has no timeout, and `close()` awaits a connection that is being made; a Node
that neither answers nor exits would keep it waiting.

## 7. The runs

| Run | Module | Expect | About |
|---|---|---|---|
| `registry` | `MCSessionRegistry` | pass | section 3 |
| `registry_live` | `MCSessionRegistry` | pass | section 3, liveness |
| `events` | `MCSessionEvents` | pass | section 4, the events of a session |
| `view_and_export` | `MCEventsAndExport` | pass | section 4, what the client makes of the events, with liveness; section 5, exports |
| `events_backlog` | `MCSessionEvents` | violation | section 4 |
| `events_approval` | `MCSessionEvents` | violation | section 4 |
| `on_disk` | `MCOnDisk` | pass | section 6 |
| `files_conflict` | `MCSessionAdministration` | violation | section 6 |
| `connection` | `MCProtocolConnection` | pass | section 4, section 8 |
| `workspace` | `MCWorkspace` | pass | section 5 |
| `selection` | `MCWorkspace` | violation | section 5 |
| `history` | `MCWorkspace` | violation | section 5 |

## 8. Conversions (run `connection`)

What the Node makes of the SDK's values has no state, but each conversion has
limits of its own and the codec has others; an answer the codec refuses is not
sent. These modules state both as operators, and the run enumerates the values:
`SafeValues` builds metadata value by value (`ValuesNext` wraps one in another)
up to its limits of depth, items, key and text length and total, the others
start from every stored value of a small set.

The run checks `AnswersServed`, which joins the parts below.

| Module | Part | Says |
|---|---|---|
| `SafeValues` | `SafeValuesBounded` | metadata of a tool is within every limit of the codec, secrets redacted, cycles cut |
| `SessionTree` | `TreesServed` | any forest of entries with any leaf gives a tree that is accepted, but for an entry that is its own ancestor |
| `SessionSummary` | `SummariesServed` | titles are within their length in code points and not blank; times are not in the future of each other |
| `SessionStats` | `TurnsCounted`, `StatisticsServed` | active time is the sum over turns; both codecs accept what is known and unknown of the context |
| `MessageParts` | `MessagesServed` | parts of a message of any size fit or are references |
| `SessionNaming` | `NamesUsable`, `TranscriptsRight` | a suggested name is one a user may ask for; the transcript is the latest messages that fit |
| `Failures` | `FailuresTold`, `CompletionsTold` | an error reaches the client as what it was; a completion says how the command ended |

Lengths stand for texts, and the limits are small (a depth of two, two items,
twelve characters); what a limit does is the same at any size.

## 9. Findings and known defects

The violations of the five runs above are listed under "findings". Others
that were met while modelling, and which the models exclude by a stated
precondition or state as they are:

- the workspace: `_promptInFlight` stays set when the session is left while a
  prompt is awaited (vm:1809); events between a page's answer and the
  listener's attachment are dropped; a list refresh (vm:515) discards a pending
  reload and leaves the conversation loading; an older page asked for during a
  reload leaves a hole; an upsert removes earlier entries of the same command
  (vm:2368-2376); a delta for a non-final entry of several parts does not fit
  and makes the view reload;
- the domain service: a prompt that adds no assistant message ends with the stop
  reason of the session's last one, so it may be told as aborted, or failed, for
  what became of an earlier prompt (pi-sdk-domain-session.ts:952-979); a run of
  `SessionRegistry` may therefore end in any way, whatever was asked;
- the connection: `getSessionHistory` answers the page it read, not the
  observed snapshot (C:766-785), so events between the two show only at the next
  event or load; an older page is answered with the sequence of its time, and the
  client, which takes it over, then skips events that still wait in the event tail
  (pi_node_client.dart:732-740, 755-763); an ambiguous session is told as INTERNAL, a
  stale cursor as INVALID_REQUEST, a mutation's other errors as DATA_LOSS
  (D:1402-1413); an aborted prompt with another failure keeps that failure's
  code; a chunk's worth of credit is granted for every short chunk (C:1554);
- the codec refuses: a page over its frame's limit, safe values with numbers
  that long or keys that meet after they are trimmed, a `toolCallId` above 128
  bytes, an image of no bytes, a delta above 64 KiB, a tree of more than 16,384
  entries or with an entry that is its own parent, names in a directory that
  meet after they are trimmed, a cost below 1e-6, a list with the same session
  twice;
- the editor text of a navigation above 1 MiB, or with a NUL, cannot be sent
  after the mutation is done; a title with a NUL cannot confirm a deletion; the
  parent of a live session is the one it had when it was loaded;
- a session whose deletion failed at the last step is put back with the parent it
  had, which may be deleted by then (pi-sdk-session-administration.ts:716-733);
  the user is told that children are reparented (session_browser.v.dart:617);
- an export asked for while a selection awaits the old one's `cancel()` is not
  cancelled (vm:2206); the destination is deleted before the rename; an export
  asked for while the history loads has no expected revision.

## 10. Proofs

All theorems are about the module's own specification, from the assumptions it
declares, for all values of its constants.

### The session registry

For all finite sets of sessions and any sets of projects, commands, requests,
spellings and watchers, any limit and any queue bound, from
`RegistryAssumption`:

| Module | Theorem | States |
|---|---|---|
| `SessionRegistryProofs` | `TypeCorrect` | `Spec => []TypeOK` |
| | `LeasesCorrect` | `Spec => []LeaseMatchesRegistry` |
| | `CapacityCorrect` | `Spec => []RuntimesBounded` |
| | `BusyStay` | `Spec => BusySessionsStay` |
| `SessionWorkProofs` | `MutationsAlone` | `Spec => []MutationAlone` |
| | `AdministrationsAlone` | `Spec => []AdministrationAlone` (with: what is deleted stays gone) |
| | `ActiveSettles` | `Spec => []ActiveWillSettle` |
| | `CommandsAnsweredOnce` | `Spec => AnsweredOnce` (with: an abort marks the command it found, no later one) |
| | `TrustedComplete` | `Spec => []TrustedNotRestricted` |

That is every invariant and every action property the run `registry` checks.
The inductive invariant has three layers, each proved relative to the ones
before it:

1. `TypeOK /\ Held`. `Held` joins the leases and the bound with `SlotShape`:
   what the running function holds, disposes and has left to close depends on
   the await it is in. That an eviction's `finally` releases exactly the lease
   of the evicted session needs that `slot.holding` is that session and that it
   is no longer registered; that a function in "opening" may add a runtime
   needs that there was room when it got there and that nothing else registers
   one while the slot is taken.
2. `Alone`. A request, a mark or a prompt stands for one function on the
   executor (`Once`, `Requests`, `Marked`, `Sent`): without that a second
   `finally` could take away the mark of a mutation that still waits, or unlock
   the key of another request. A request between its two functions holds its
   key (`KeysHeld`), and the session of a held key is neither loaded nor about
   to be (`FilesFree`); the session under mutation is idle (`Mutable`), because
   what would make it busy goes through the executor too; an approval has yet
   to close every session of its project (`Approval`).
3. `Commands`. A busy session is owed an admission, a promise or a settlement
   (`Owed`); an active command has no final answer and is active in one session
   (`Unfinished`), so that a settlement changes no command that has been
   answered; an abort mark stands for the active command (`Requested`).

The queue is handled as a set (`Pending`) with `Once` saying which functions
can be there once only: taking the head and appending are two lemmas on
sequences, and no other part of the proof speaks of positions. Each layer has
one lemma per group of actions, and framing lemmas (`LocksKept`, `MarksKept`,
`SentKept`, `Kept`) for the steps that touch none of its parts.

### A connection

For any kinds of operations, projects, commands, offers and versions, any number
of operations and identifiers, and a pipe of any size, from
`ConnectionAssumption` and `KindsAssumption`:

| Module | Theorem | States |
|---|---|---|
| `ProtocolConnectionProofs` | `ConnectionInvariant` | `Spec => []ConnectionInv` |
| | `ThePeersAgree` | `Spec => []PeersAgree` |
| | `CommandsAreTruthful` | `Spec => []CommandsTruthful` |

Neither peer sees the other's tables, so the invariant relates both to the frames
between them (`OnTheirWay`, and `toClient`):

- `Numbers`: frames on their way go on from the last one read, and the first of
  either direction is the handshake. This is why neither end ever meets a frame
  out of sequence, although some are never sent (the codec refused them) and
  others never written (the process is gone): those that are left out have taken
  no number, or come after the end of the Node.
- `Requests`: a request on its way is the one the client remembers under its
  identifier, the operation waits, and every identifier the Node has claimed is
  below it. The order of identifiers follows the order of numbers, so that none
  is ever claimed twice.
- `Handled`, `Answers`: the operation the Node is at, and the one an answer on its
  way is for, waits for exactly that one. An answer that nobody waits for would
  end the connection, and would have to come from one of these.
- `Tables`: the Node has claimed fewer identifiers than the client gave, and no
  more commands than requests. That an exhausted table means an exhausted client
  needs both; that a command reaches the domain once needs that what reached it
  is claimed.

An operation that gets no answer (`AllLost`, `WriteFails`) is told "failed" only
if it is no command: `Requests` and `Handled` keep what it was told until the Node
is done with it, since the domain may carry it out after the client gave up.
Steps at which an end only gives up or forgets (closing, the end of a process,
what is read in vain) are one lemma, `FadesKeeps`.

### The framing below it

`FramesAreExact` (in `ProtocolConnectionProofs`) proves `FramesExact` of
`IpcFraming` for any payloads, any base and number of a prefix's digits, and any
largest frame whose length a prefix can hold (`FramingAssumption`: nothing is
left of such a length once all its digits are shifted out; four bytes and
`MAX_FRAME_BYTES` satisfy it). The invariant, `FramingInv`, has the ends of the
written frames on the stream (`Ends`) and says

- `FramesAhead`: the frames that were returned are the first that were written,
  and each byte that is kept or still in the pipe is the byte of the frame its
  place says (`Carries`); the bytes end where the last frame ends, or, of a
  writer that died, within it;
- `NoneKept`: what is kept is less than the next frame;
- `EndedAtEnd`: the reader ends only when the writer has and nothing is left.

`FramesExact` alone is not inductive: it does not say what the bytes on their way
are. That an iteration of `push` takes off the frame that is next is
`TakesNext`, and `DecodedIs` shows what the whole loop returns. A length's digits
(`Shifted`), their value (`Length`) and the loop (`Decoded`) are recursive
functions; the prover is shown that such functions exist (`Iterates`, or a
function that satisfies the equation) and what they are by induction over a set
of numbers up to the bound (`StepByStep`), which takes no operator as a
parameter. TLC checked `FramingInv` with the values of run `connection` (2486
states) before it was proved.

### The events of a session

For any set of commands and any bounds on events and observations:

| Module | Theorem | States |
|---|---|---|
| `SessionEventsProofs` | `EventsInvariant` | `Spec => []EventsInv` |
| | `EventFramesInOrder` | `Spec => []FramesInOrder` |
| | `EventStreamsExact` | `Spec => []StreamsExact` |
| | `TheListenerIsObserved` | `Spec => []ListenerIsObserved` |

One step of the connection is a chain of operators on its state (`Forward`,
`RunTail`, `Accept`, `FlushRound`, `Dropped`, ...). The invariant is stated of a
connection, a handler, a client, what was written and the active command, not of
the variables, so that one lemma per operator says that what it makes of a
connection keeps the invariant, and the lemma of an action chains them. Beside
the types its parts are:

- `Observations`: only the newest stream is observed, and only it is open, has a
  listener, or has a pending admission. `ListenerIsObserved` is a part of it.
- `Awaited`, `Asks`: a handler awaits at most one frame; while a prompt asks the
  domain an admission holds its session's events back, and while a change does
  there is no stream. That the events of an admission are never sent before the
  answer needs this: nothing else ends an admission.
- `Answers`: whatever there is of a command is behind the answer to it.
  `AnswerBeforeCompletion` speaks of what the client has read; to get there an
  event in the queue needs the answer before it, one in a tail an answer that is
  written or waits (`Told`), one that is held back, and the active command that
  will emit one, an answer that is at least still to come (`Due`).
- `Order`: frames of the queue go on from what was written, by stream and by
  number in the domain.
- `Opened`: until the answer that opens the newest stream is written, the stream
  has an empty tail and an admission holds its events back. Otherwise an event
  could pass between the snapshot in that answer and its first event. The page of a
  history is read before the stream begins, so the stream is at most ahead of it:
  what a handler has read is never ahead of the session (`Seen`).
- `Silent`: a stream that was observed before a change is closed by its outcome.

### A download

For any size of content and chunk, any limits, and any reader:

| Module | Theorem | States |
|---|---|---|
| `TransferProofs` | `TransferInvariant` | `TransferSpec => []TransferInv` |
| | `TransferKeepsStep` | the ends agree, the Node keeps the reader's pace, and complete means taken: `TransferExact` but for `CreditSuffices` |
| | `TransferImplementsCopy` | `TransferSpec => Copied`, the refinement of `ContentCopy` |
| | `WholeReadsSuffice` | `TransferSpec /\ WholeReads => []TransferExact` |

Both ends and both channels have to agree on every chunk, and reads of any
length mean that its bounds cannot be computed from its number. So the invariant
says that *there is* a function `ends`, where chunk n ends, with which all
agree: what the Node remembers (`Sending`), what the reader has (`Reading`) and
has not taken (`Waiting`), and the chunks and acknowledgements on their way
(`Arriving`, `Acknowledging`). A step keeps the witness; the one that sends a
chunk extends it. `sums` is the same for the credit on its way: the sums of what
the Node has had and will have after each frame (`Crediting`). `Opening` and
`Ending` say that request and answer come first, and that a download ends once.

`WholeReads` says that a read returns what was asked for or the rest of the
content. Then chunk n ends at `Mark(n)`, and the second invariant, `Whole`, says
that each grant is used up by one chunk and that at most one is on its way: the
credit at the Node never exceeds one chunk. With short reads `CreditSuffices`
does not follow (C:1554), and no theorem claims it.

### An export

For any sessions, and any number of exports, revisions, selections, transfers:

| Module | Theorem | States |
|---|---|---|
| `ApplicationProofs` | `CopiesAreRemoved` | `ExportSpec => []CopiesRemoved` |
| | `ExportIsAsShown` | `ExportSpec => []ExportAsShown` |
| | `ExportIsStoppable` | `ExportSpec => []ExportStoppable` |

The invariant has three groups. `Copies`: an export whose transfer the Node holds
has left its handler (`OnOffer`), so the transfer's end removes the only copy.
`Contents`: the revision is looked at before and after the SDK writes, and
revisions only grow, so what was written between two equal looks has that
revision (`BegunAsShown`, `NotYetChanged`, `OneRevision`); a file that is in
place is not written again (`InPlace`). `Turns`: a generation is one export's
(`Generations`), and the next begins when it is over (`Busy`); what was asked for
while a selection waits belongs to the session selected since (`LateOnes`); a
cancelled export whose handle is still to come is superseded or remembered
(`Revoked`). Without the last, an export that is cancelled while it is prepared
could be picked up when its handle arrives.

### The view of a session

For any log to start with, any number of prompts, turns, forks, selections and
older pages, and any number of messages on their way (`MaxWire` included):

| Module | Theorem | States |
|---|---|---|
| `WorkspaceProofs` | `AnswersAreAwaited` | `WorkspaceSpec => []AnswerAwaited` |
| | `FramesAreAccepted` | `WorkspaceSpec => [](FramesAccepted /\ HistoryRenderable)` if the log at first is `LogRenderable` |

`AnswerAwaited` only says that a message of the load's purpose is on its way. That
is not inductive: if it were a page whose tree is gone, or one of two trees, the
answer could come and the load not end. `AwaitInv` says more: of the two
purposes that can be superseded the tree is on its way exactly while the view
awaits it (`LoadAwaited`), there is one, and a page, where it is under way, being
read or written, comes before it (`InOrder`). A selection is not listening, so an
event that does not fit cannot start a reload beside it. The steps are proved by
what they do to the three sequences: `NodeMoves` for the Node, of which the proof
uses only that it answers in the order of requests and reads one page at a time,
and `Ask` for the view.

`LogRenderable` says that no text or image of the messages the session was stored
with is empty. Run `history` starts without it (a shell command that printed
nothing) and refutes `HistoryRenderable`; the theorem says that such messages are
the only cause: nothing that is streamed, appended or copied later can make the
codec refuse a page, an event or the tree. `FramesInv` holds the reasons: the log
is a forest in which a parent comes before its children, also after a fork; every
entry of the normaliser has revisions from 1, parts within their limits and one
activity per call; and while the agent speaks, its message has an entry, so that
each event takes the next revision of an entry that is there. `PathFacts` is the
lemma on the recursive function `PathTo` (by the least entry where it would fail):
the path to an entry ascends, which keeps a page from showing an entry twice, and
goes from parent to parent, which is what the codec asks of the active path.

### The embedded runtime and the hosted Node

`ApplicationProofs`, `StopReleases`: `RuntimeSpec => []StoppedIsReleased`, from
`RuntimeInv`: there is a session only of a start that succeeded, a stop goes past
its wait only when the start is over, and what could not be disposed is in its
errors.

`ApplicationProofs`, `HostingCorrect`: `HostedSpec => []HostingRight`, for any
number of connections, from `HostedInv`: of the steps of `_connectFresh` and
`_close` at most one owns a session or a process at a time (`OneOwner`), every
process that lives is that owner's (`Accounted`), and a generation is used once
(`GenerationCounts`).

### Trust in a project

For any number of Nodes, categories of resources and changes of the disk:

| Module | Theorem | States |
|---|---|---|
| `OnDiskProofs` | `TrustInvariant` | `TrustSpec => []TrustInv` |
| | `ApprovalsAreRight` | `TrustSpec => ApprovalRight` |

Nothing locks the directory, so what a call has read may be out of date at once.
`late` and `changed` say, of each Node, what changed behind its back, and the
invariant says that this is all: what a call has read of a part is what the disk
has, unless the part changed since (`NothingChanged`, `ApprovesAsShown`). An
approval that gets as far as writing was compared with what was shown, part by
part, after it was read again; a refusal without a cause would need a difference
between two readings of a disk that did not change. Reading is in order
(`ReadInOrder`): a decision is read only where there is something to decide, so a
decision that was not read counts as the one that nobody needs.

### The administration of session files

For any finite set of files, any family tree on them, any number of operations,
runtimes, entries and failing file operations, from `AdministrationAssumption`
(which says of the tree that no session descends from itself):

| Module | Theorem | States |
|---|---|---|
| `OnDiskProofs` | `AdminInvariant` | `Spec => []AdminInv` |
| | `DeletionsAreClean` | `Spec => []DeletionsClean` |
| | `EntriesAreKept` | `Spec => KeepsEntries` |
| | `NoWaitIsCircular` | `Spec => []NoCircularWait`, a part of `WorkEnds` |

The parts of the invariant `AdminInv`:

- `LocksFirst`: an operation locks in the order of the paths, works only on files
  it has locked, and gives up locks only in the end. Two operations therefore
  never work on one file, and everything the next three say of an operation is
  undisturbed by others (`Undisturbed`); only runtimes write to its files, and
  what they append is `exposed`. `NoWaitIsCircular` needs this part alone: of the
  files that a circle of operations waits for, the one that holds the greatest
  waits for a greater one.
- `FilesThere`, `Progress`: how far it got; its copies of the files are no older
  than its locks (`UpToDate`), and it knows which children have which parent. A
  rollback restores them from the copies, and what a copy lacks is `exposed`:
  that is `KeepsEntries`, and, at the end of a rollback, `Undone`.
- `ChildrenKnown`: until a deletion removes the session, the family it has locked
  has every child of it. Another deletion makes a child of a session only by
  removing one in between; that one is a child too, so it would be locked by both.
- `Descent`: no session descends from itself. A child that is moved to the parent
  of the session that goes would otherwise still have that session for a parent.
- `NoOrphans` itself: the parent that children are moved to is still there, since
  the session that goes is there and is no orphan; and one that is given back to
  its parent finds it there, unless a second file operation failed.

### What is answered about the disk

For any number of sessions, files, spellings of a directory and limits, while
project directories go and come, entries of a browsed directory are replaced, and
session files are written and deleted:

| Module | Theorem | States |
|---|---|---|
| `OnDiskProofs` | `QueriesInvariant` | `QueriesSpec => []QueriesInv` |
| | `CatalogueInvariant` | `CatalogueSpec => []CatalogueInv` |
| | `AnswersAreRight` | `TrustSpec /\ QueriesSpec /\ CatalogueSpec => []AnswersRight`, if `0 \notin Times` |

The three parts share no variable, so their conjunction is what a Node does that
answers all of them at the same time. The hypothesis is the codec's: it takes no
time of 0, which a file only has that is dated to the epoch.

- Known projects: sessions are taken up from the newest (`NewestFirst`), so the
  first one of a directory already has the time of the project, and a project
  that the limit of the scan leaves out is no newer than one it has. A directory
  that did not come meanwhile and is there at the end was there for each of its
  sessions, so its count is right (`GroupsRight`); of one that came (`came`) only
  that its time is one of its sessions', which is what the codec needs. `FirstFew` is the lemma on
  orders without ties: at most n elements have fewer than n before them, which
  bounds the choice; a project that was not chosen has as many before it as one
  that was chosen can have at most.
- A directory: while nobody touches it, what the walk has left and what it took
  are its directories, the latter before the former (`WalkInOrder`).
- Sessions: a file is read at most once (`ScanExact`), one that is there all the
  time is read or still to be read, and what is to be read was there. `ListingIs`
  says of the sequence that is answered which summaries it has, in whatever order
  the SDK returns them: every file's, the loaded ones in place of theirs, and the
  loaded ones without a file; a session twice only if two files have it.

### Only model-checked

- `ViewCurrent`, `ReferencesFetchable`, `PagesJoin` and `SettledViewIsBranch`
  (workspace): they say of a settled view what the events and pages on their way
  will have made of it, so the invariant would have to apply a wire of any length
  to the view, event by event.
- `NoSilentLoss` holds only under `KeepsUp`, an assumption on the order of steps
  that `events_backlog` shows to be necessary.
- `AnswersServed`: the conversions of section 8 are checked on the values of the
  run; those that fold over data need induction, which the prover cannot
  instantiate.
- Every liveness property (`BusyEnds`, `LocksReleased`, `ShutdownReleasesAll`,
  `CompletionArrives`, `WorkEnds`, `EveryWaitEnds`): fairness and ENABLED are
  beyond the prover.

## 11. Mutants

Every property of a passing run has a mutant in `PROJECT.json`: the operator
`Faulty*` stands before the one it is a mistaken form of (a missing check, a
flag not reset, a `finally` forgotten), and TLC refutes the property with it.

## 12. Not modelled

- Generated code, rendering, build, signing and release tooling, the in-memory
  transport (a test double), signal handling and start-up diagnostics of
  `stdio-main.ts`, and `central_access`, an interface without implementation.
- In the workspace: projects, browsing, renaming, deleting and the abort
  button, each of which is one awaited call; prompts to the other session;
  selecting the session from before a fork; a reload from disk.
- In exports: a second selection while one is under way.
- In the connection: the cancel of an auto-name request, which is handled after
  the request it means to cancel (C:1505), and field validation of requests.
- In the domain service: a mutation of which a later step throws after the SDK
  replaced the session (D:882 and the hazard there): the model returns it as
  replaced, or throws with nothing replaced.
- The Pi SDK is external: the models use of it what the code relies on, among
  which that a message's context counts and percentages are unknown together
  and that a context window is larger than zero.
