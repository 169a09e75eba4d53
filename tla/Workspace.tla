----------------------------- MODULE Workspace -----------------------------
(***************************************************************************)
(* The Workspace's view of one session: it loads pages of the conversation,*)
(* applies the events of the session to them, submits prompts and changes  *)
(* branches, and reloads when an event does not fit.                       *)
(*   lib/app/workspace/workspace.vm.dart    (WorkspaceViewModel)           *)
(*   lib/api/pi_node/pi_node_client.dart    (_handleSessionEvent,          *)
(*                                           _acceptSessionHistory)        *)
(*                                                                         *)
(* The handlers of the view model run concurrently between their awaits; a *)
(* generation counter per purpose tells an answer from one that has been   *)
(* superseded.  Here a request names its purpose, and a load that is given *)
(* up renames what is under way for it to "none".  A load asks for a page  *)
(* and for the tree and is done with the last answer (Future.wait).        *)
(*                                                                         *)
(* An operator Faulty* is no part of the specification: it is the operator *)
(* below it with a plausible mistake, which a property must refute.        *)
(***************************************************************************)
EXTENDS DomainSession

CONSTANTS
    Mutations,         \* the branch actions the user takes
    MaxAsks,           \* bound: selections, older pages, branch actions, list refreshes
    OlderWhileLoading  \* the user also asks for older pages during a reload

ASSUME WorkspaceAssumption ==
    /\ Mutations \subseteq {"navigate", "fork", "clone"}
    /\ MaxAsks \in Nat /\ OlderWhileLoading \in BOOLEAN

VARIABLE view  \* the model of the view, its pending loads, the client's sequence

workspaceVars == <<nodeVars, view>>

-----------------------------------------------------------------------------
(* Data *)

NoLoad == [kind |-> "none", page |-> None]
NoMutation == [phase |-> "none", page |-> None, left |-> FALSE]

Here == view.session = node.session

(* What is under way for the given purposes is not awaited any more. *)
Unawaited(x, purposes) ==
    IF "for" \in DOMAIN x /\ x.for \in purposes THEN [x EXCEPT !.for = "none"] ELSE x
UnawaitedAll(s, purposes) == [i \in DOMAIN s |-> Unawaited(s[i], purposes)]

(* Requests sent, after others were given up.  In toClient, rest remains.  *)
Ask(requests, purposes, rest) ==
    /\ toNode' = UnawaitedAll(toNode, purposes) \o requests
    /\ toClient' = UnawaitedAll(rest, purposes)
    /\ answering' = Unawaited(answering, purposes)

Load(purpose, s) ==
    <<[kind |-> "page", for |-> purpose, session |-> s, cursor |-> None, rev |-> None],
      [kind |-> "tree", for |-> purpose, session |-> s]>>

Stale(pending) == IF pending = "current" THEN "stale" ELSE pending

(* The view after a load: its page, and listening to the session's events. *)
(* Events that went by unheard after the page was read are lost (history). *)
Loaded(v, s, page, tree) ==
    [v EXCEPT !.session = s, !.entries = page.entries, !.cursor = page.cursor,
              !.rev = page.rev, !.tree = tree, !.loading = FALSE,
              !.running = IF s = Away THEN @ ELSE page.running,
              !.listening = TRUE, !.watched = @ \/ s # Away,
              !.lost = s # Away /\ v.missed > page.n, !.missed = 0]

-----------------------------------------------------------------------------
(* _reduceConversationEvent: the entries after the event, None if it does  *)
(* not fit them.                                                           *)

At(entries, id) == {i \in DOMAIN entries : entries[i].id = id}
The(s) == CHOOSE i \in s : TRUE

Replace(entries, id, e) == [i \in DOMAIN entries |-> IF entries[i].id = id THEN e ELSE entries[i]]

(* An entry takes the place of those of its command, other than itself. *)
FaultyMakeRoom(entries, e) == entries
MakeRoom(entries, e) ==
    SelectSeq(entries, LAMBDA x : x.id = e.id \/ e.origin = None \/ x.origin # e.origin)

ReduceUpsert(old, event) ==
    LET e == event.entry
        entries == MakeRoom(old, e)
        found == At(entries, e.id)
        previous == entries[The(found)].rev
    IN  IF found = {} THEN IF event.expected # None THEN None ELSE Append(entries, e)
        ELSE IF e.rev <= previous THEN entries
        ELSE IF e.rev # previous + 1 \/ event.expected \notin {None, previous} THEN None
        ELSE Replace(entries, e.id, e)

ReduceFinalized(entries, event) ==
    LET found == At(entries, event.entry.id)
    IN  IF found = {} THEN IF event.expected = 0 THEN Append(entries, event.entry) ELSE None
        ELSE IF entries[The(found)].rev # event.expected THEN None
        ELSE Replace(entries, event.entry.id, event.entry)

(* The other events change an entry that must have the revision expected.  *)
Fits(entries, event) ==
    /\ At(entries, event.id) # {}
    /\ LET e == entries[The(At(entries, event.id))] IN
       /\ e.rev = event.expected
       /\ event.type = "delta" =>
             /\ event.part \in DOMAIN e.parts
             /\ e.parts[event.part].rev = event.partExpected
             /\ e.parts[event.part].type \in {"text", "thinking"}
             /\ e.parts[event.part].ref = None
       /\ event.type = "activity" =>
             \A a \in e.activities : a.call = event.activity.call => event.activity.rev = a.rev + 1

FaultyChange(e, event) ==
    CASE event.type = "delta" ->
            [e EXCEPT !.rev = @ + 1, !.parts[event.part].rev = @ + 1,
                      !.parts[event.part].size = @ + event.size]
      [] event.type = "activity" ->
            [e EXCEPT !.rev = @ + 1, !.activities = @ \cup {event.activity}]
      [] event.type = "metrics" -> [e EXCEPT !.rev = @ + 1, !.usage = event.usage]
Change(e, event) ==
    CASE event.type = "delta" ->
            [e EXCEPT !.rev = @ + 1, !.parts[event.part].rev = @ + 1,
                      !.parts[event.part].size = @ + event.size]
      [] event.type = "activity" ->
            [e EXCEPT !.rev = @ + 1,
                      !.activities = {a \in @ : a.call # event.activity.call} \cup {event.activity}]
      [] event.type = "metrics" -> [e EXCEPT !.rev = @ + 1, !.usage = event.usage]

Reduce(entries, event) ==
    IF event.type = "upsert" THEN ReduceUpsert(entries, event)
    ELSE IF event.type = "finalized" THEN ReduceFinalized(entries, event)
    ELSE IF ~Fits(entries, event) THEN None
    ELSE Replace(entries, event.id, Change(entries[The(At(entries, event.id))], event))

-----------------------------------------------------------------------------
WorkspaceInit ==
    /\ NodeInit
    /\ view = [session |-> Away, entries |-> <<>>, cursor |-> None, rev |-> None, tree |-> None,
               running |-> FALSE, sending |-> FALSE, loading |-> FALSE, listening |-> TRUE,
               watched |-> FALSE, last |-> 0, load |-> NoLoad, mutation |-> NoMutation,
               older |-> "none", inFlight |-> FALSE, submission |-> "none",
               used |-> {}, asks |-> 0, chosen |-> Away, missed |-> 0, lost |-> FALSE]

User == view.asks < MaxAsks

(* _onSessionSelected.  The session is the one of the Node, or another.    *)
Select(s) ==
    /\ User
    /\ s # Away => view.mutation = NoMutation
    /\ view' = [view EXCEPT !.session = s, !.entries = <<>>, !.cursor = None, !.rev = None,
                            !.tree = None, !.sending = FALSE, !.loading = TRUE,
                            !.listening = FALSE, !.missed = 0, !.lost = FALSE,
                            !.load = [kind |-> "select", page |-> None],
                            !.mutation.left = view.mutation # NoMutation,
                            !.older = Stale(@), !.submission = Stale(@),
                            !.chosen = s, !.asks = @ + 1]
    /\ Ask(Load("select", s), {"select", "refresh", "older"}, toClient)
    /\ UNCHANGED <<node, conv, sdk>>

(* _onSessionsRefreshed: the list is loaded, and a reload is discarded. *)
RefreshList ==
    /\ User /\ view.load.kind = "refresh"
    /\ view' = [view EXCEPT !.load = NoLoad, !.lost = TRUE, !.asks = @ + 1]
    /\ Ask(<<>>, {"refresh"}, toClient)
    /\ UNCHANGED <<node, conv, sdk>>

(* _onOlderHistoryRequested *)
RequestOlder ==
    /\ User /\ Here /\ view.older = "none" /\ view.cursor # None /\ view.rev # None
    /\ view.loading => OlderWhileLoading
    /\ view' = [view EXCEPT !.older = "current", !.asks = @ + 1]
    /\ Ask(<<[kind |-> "older", for |-> "older", session |-> view.session,
              cursor |-> view.cursor, rev |-> view.rev]>>, {}, toClient)
    /\ UNCHANGED <<node, conv, sdk>>

(* _runSessionTreeMutation, up to the request *)
StartMutation ==
    /\ User /\ Here /\ view.mutation = NoMutation /\ ~view.loading
    /\ view.tree # None /\ ~view.running /\ ~view.sending
    /\ \E kind \in Mutations, i \in 1..view.tree.count :
          /\ kind = "clone" => i = view.tree.leaf
          /\ kind = "fork" => node.log[i].message.role = "user"  \* canFork
          /\ Ask(<<[kind |-> kind, entry |-> i, rev |-> view.tree]>>,
                 {"select", "refresh", "older"}, toClient)
    /\ view' = [view EXCEPT !.mutation = [NoMutation EXCEPT !.phase = "asked"],
                            !.load = NoLoad, !.listening = FALSE, !.missed = 0,
                            !.older = Stale(@), !.submission = Stale(@), !.asks = @ + 1]
    /\ UNCHANGED <<node, conv, sdk>>

(* _onPromptSubmitted.  The composer is disabled during a branch action.   *)
Optimistic(c) ==
    [Entry([scope |-> "optimistic", n |-> c],
           [role |-> "user", parts |-> FirstParts("user"), usage |-> None], c, 1, TRUE)
     EXCEPT !.final = TRUE]

Submit(c) ==
    /\ Here /\ c \notin view.used
    /\ ~view.inFlight /\ ~view.running /\ view.mutation = NoMutation
    /\ view' = [view EXCEPT !.inFlight = TRUE, !.submission = "current", !.sending = TRUE,
                            !.entries = Append(@, Optimistic(c)), !.used = @ \cup {c}]
    /\ Ask(<<[kind |-> "prompt", cmd |-> c]>>, {}, toClient)
    /\ UNCHANGED <<node, conv, sdk>>

-----------------------------------------------------------------------------
(* What arrives *)

Arrives(kind) == toClient # <<>> /\ Head(toClient).kind = kind
Nothing == Ask(<<>>, {}, Tail(toClient))

(* _acceptSessionHistory: the sequence is the page's, awaited or not.      *)
Accepted(v, page) ==
    IF page.ok /\ page.session = node.session THEN [v EXCEPT !.last = page.n] ELSE v

PageArrives ==
    /\ Arrives("page")
    /\ LET page == Head(toClient)
           v == Accepted(view, page)
       IN  view' = CASE page.for \in {"select", "refresh"} -> [v EXCEPT !.load.page = page]
                     [] page.for = "mutation" -> [v EXCEPT !.mutation.page = page]
                     [] OTHER -> v
    /\ Nothing
    /\ UNCHANGED <<node, conv, sdk>>

(* The load is done. _onSessionSelected, _refreshSelectedAuthoritatively,  *)
(* _runSessionTreeMutation, after their awaits; _startSessionEvents        *)
TreeArrives ==
    /\ Arrives("tree")
    /\ LET tree == Head(toClient) IN
       CASE tree.for \in {"select", "refresh"} ->
               /\ view' = [Loaded(view, tree.session, view.load.page, tree.rev)
                              EXCEPT !.load = NoLoad]
               /\ Nothing
         [] tree.for = "mutation" ->
               /\ view' = [Loaded(view, tree.session, view.mutation.page, tree.rev)
                              EXCEPT !.load = NoLoad, !.mutation = NoMutation,
                                     !.chosen = IF view.mutation.left THEN @ ELSE tree.session]
               /\ Ask(<<>>, {"select", "refresh"}, Tail(toClient))
         [] OTHER -> UNCHANGED view /\ Nothing
    /\ UNCHANGED <<node, conv, sdk>>

(* The branch action was taken or refused; the state is loaded either way. *)
MutationArrives ==
    /\ Arrives("mutated")
    /\ LET answer == Head(toClient) IN
       /\ view' = [view EXCEPT !.mutation.phase = "loading",
                               !.watched = @ /\ answer.same,
                               !.last = IF answer.same THEN @ ELSE 0]
       /\ Ask(Load("mutation", answer.session), {}, Tail(toClient))
    /\ UNCHANGED <<node, conv, sdk>>

(* Older entries are put before those there are. *)
Prepend(entries, page) ==
    SelectSeq(page.entries, LAMBDA e : At(entries, e.id) = {}) \o entries

OlderArrives ==
    /\ Arrives("older")
    /\ LET page == Head(toClient)
           v == [Accepted(view, page) EXCEPT !.older = "none"]
       IN  view' = IF page.for # "older" \/ ~page.ok THEN v
                   ELSE [v EXCEPT !.entries = Prepend(@, page), !.cursor = page.cursor,
                                  !.rev = page.rev, !.running = page.running]
    /\ Nothing
    /\ UNCHANGED <<node, conv, sdk>>

(* The answer to a prompt, while the view has not moved on *)
AdmissionArrives ==
    /\ Arrives("prompt")
    /\ LET answer == Head(toClient)
           v == [view EXCEPT !.submission = "none", !.inFlight = FALSE, !.sending = FALSE]
       IN  view' = IF view.submission = "stale" THEN [view EXCEPT !.submission = "none"]
                   ELSE IF answer.status = "rejected"
                   THEN [v EXCEPT !.entries = SelectSeq(@, LAMBDA e : e.origin # answer.cmd)]
                   ELSE [v EXCEPT !.running = TRUE]
    /\ Nothing
    /\ UNCHANGED <<node, conv, sdk>>

(* _refreshSelectedAuthoritatively, up to the requests *)
Refresh(v) ==
    /\ view' = [v EXCEPT !.loading = TRUE, !.load = [kind |-> "refresh", page |-> None]]
    /\ Ask(Load("refresh", view.session), {"refresh"}, Tail(toClient))

(* _onSessionEventReceived *)
Apply(v, event) ==
    CASE event.type = "running" ->
            /\ view' = [v EXCEPT !.running = event.running, !.sending = @ /\ event.running]
            /\ Nothing
      [] event.type = "completed" -> Refresh([v EXCEPT !.running = FALSE, !.sending = FALSE])
      [] OTHER ->
            LET entries == Reduce(view.entries, event)
            IN  IF entries = None THEN Refresh(v)
                ELSE view' = [v EXCEPT !.entries = entries] /\ Nothing

(* _handleSessionEvent: the client drops what it has seen, notes a gap, and*)
(* hands an event to whoever listens.                                      *)
FaultyEventArrives ==
    /\ Arrives("event")
    /\ LET item == Head(toClient)
           v == [view EXCEPT !.last = item.n]
       IN  IF item.session # node.session \/ ~view.watched \/ item.n <= view.last
           THEN UNCHANGED view /\ Nothing
           ELSE IF ~view.listening \/ ~Here THEN view' = [v EXCEPT !.missed = item.n] /\ Nothing
           ELSE Apply(v, item.event)
    /\ UNCHANGED <<node, conv, sdk>>
EventArrives ==
    /\ Arrives("event")
    /\ LET item == Head(toClient)
           v == [view EXCEPT !.last = item.n]
       IN  IF item.session # node.session \/ (view.watched /\ item.n <= view.last)
           THEN UNCHANGED view /\ Nothing
           ELSE IF ~view.watched THEN view' = [view EXCEPT !.missed = item.n] /\ Nothing
           ELSE IF ~view.listening \/ ~Here THEN view' = [v EXCEPT !.missed = item.n] /\ Nothing
           ELSE IF item.n > view.last + 1 THEN Refresh(v)
           ELSE Apply(v, item.event)
    /\ UNCHANGED <<node, conv, sdk>>

Receive ==
    \/ PageArrives \/ TreeArrives \/ MutationArrives \/ OlderArrives \/ AdmissionArrives
    \/ EventArrives

Ui ==
    \/ \E s \in {Away, node.session} : Select(s)
    \/ RefreshList \/ RequestOlder \/ StartMutation
    \/ \E c \in Prompts : Submit(c)

WorkspaceNext ==
    \/ NodeNext /\ UNCHANGED view
    \/ Receive
    \/ Ui

WorkspaceSpec == WorkspaceInit /\ [][WorkspaceNext]_workspaceVars

-----------------------------------------------------------------------------
(* Properties *)

(* The view shows the Node's session, and nothing is under way to change it*)
Settled ==
    /\ Here /\ view.watched /\ view.listening /\ ~view.lost
    /\ ~view.loading /\ view.load = NoLoad /\ view.mutation = NoMutation

Persisted(e) == e.id.scope = "persistent"
Shown == ToSet(view.entries)

(* Once every event has been applied, an entry shown is as the Node has it:*)
(* deltas, tool activities and metrics have added up to the same entry.    *)
(* The revisions of its parts agree when it is final.                      *)
(* _reduceConversationEvent, assistantTextDelta and MessageUpdate           *)
Agrees(e, there) ==
    /\ e.rev = there.rev /\ e.final = there.final /\ e.role = there.role
    /\ e.usage = there.usage /\ e.activities = there.activities
    /\ DOMAIN e.parts = DOMAIN there.parts
    /\ \A i \in DOMAIN e.parts : e.parts[i].size = there.parts[i].size
    /\ e.final => e.parts = there.parts
ViewCurrent ==
    Settled /\ toClient = <<>> /\ view.last = node.seq =>
        \A e \in Shown : e.id.scope = "runtime" =>
            Has(conv, e.id) /\ Agrees(e, Get(conv, e.id))

(* Large content of a final entry on view can be fetched with the binding  *)
(* the view has of it, also after activities have raised the revision, the *)
(* entry was shown by another page, or the session was forked.             *)
(* getMessageContent, #activateEntryContent                                *)
ReferencesFetchable ==
    Settled /\ toClient = <<>> /\ view.last = node.seq =>
        \A e \in Shown : e.final =>
            \A i \in DOMAIN e.parts : e.parts[i].ref # None => ContentServed(e, i)

(* Pages that were read at different times, with a run, a reload or a      *)
(* change of branch in between, join without a hole: neighbours on view    *)
(* are neighbours in the branch.  _onOlderHistoryRequested                 *)
Joined ==
    Settled =>
        \A i \in DOMAIN view.entries :
            i + 1 \in DOMAIN view.entries
            /\ Persisted(view.entries[i]) /\ Persisted(view.entries[i + 1]) =>
                \E k \in DOMAIN Messages :
                    /\ k + 1 \in DOMAIN Messages
                    /\ Messages[k] = view.entries[i].id.n
                    /\ Messages[k + 1] = view.entries[i + 1].id.n

(* A message is never on view twice: as it is stored and as it was streamed*)
(* or as streamed and as the user typed it, or stored in two pages.        *)
(* _onPromptSubmitted, _reduceConversationEvent, _onOlderHistoryRequested  *)
SameMessage(e, other) ==
    \/ e.id = other.id
    \/ /\ Persisted(e) /\ other.id.scope = "runtime"
       /\ other.id.n \in DOMAIN conv.objects
       /\ node.log[e.id.n].message.n = conv.objects[other.id.n]
    \/ e.id.scope = "optimistic" /\ other.id.scope = "runtime" /\ e.origin = other.origin
NothingTwice ==
    Settled =>
        \A i, j \in DOMAIN view.entries :
            i # j => ~SameMessage(view.entries[i], view.entries[j])

(***************************************************************************)
(* The view has every message between two that it shows, and each once.    *)
(***************************************************************************)
PagesJoin == Joined /\ NothingTwice

(* When the run is over and nothing is on its way, the view is the end of  *)
(* the branch, from its cursor on, and does not say that the agent runs.   *)
SettledViewIsBranch ==
    /\ Settled /\ toClient = <<>> /\ toNode = <<>> /\ answering = NoAnswer
    /\ ~IsRunning /\ node.active = None
    => /\ ~view.running
       /\ LET from == IF view.cursor = None THEN 0 ELSE view.cursor.end
          IN  [i \in DOMAIN view.entries |-> view.entries[i].id]
              = [i \in 1..(Len(Messages) - from) |-> PersistentId(Messages[from + i])]

(* What the view waits for is on its way, whatever superseded it since: a  *)
(* load, a branch action, an older page.  (A list refresh discards a reload*)
(* that nothing then replaces: see RefreshList.)                           *)
(* _isCurrentSessionLoad, _isCurrentSessionTreeMutation, _historyInFlight   *)
OnTheWay(Test(_)) ==
    \E x \in ToSet(toNode) \cup ToSet(toClient) \cup ({answering} \ {NoAnswer}) : Test(x)
OnTheWayFor(purpose) == OnTheWay(LAMBDA x : "for" \in DOMAIN x /\ x.for = purpose)
AnswerAwaited ==
    /\ view.load # NoLoad => OnTheWayFor(view.load.kind)
    /\ view.loading => view.load # NoLoad \/ view.mutation # NoMutation \/ view.lost
    /\ view.mutation.phase = "loading" => OnTheWayFor("mutation")
    /\ view.mutation.phase = "asked" =>
          OnTheWay(LAMBDA x : x.kind \in Mutations \cup {"mutated"})
    /\ view.older # "none" => OnTheWay(LAMBDA x : x.kind = "older")

(* The session on view is the one the user chose last, or the one that the *)
(* user's own branch action led to while they stayed.                      *)
SelectionKept == view.session = view.chosen
=============================================================================
