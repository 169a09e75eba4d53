------------------------- MODULE MCSessionRegistry -------------------------
(***************************************************************************)
(* SessionRegistry on small sets.  All of it at once is too large, so a    *)
(* behaviour exercises one concern.  For the invariants: two commands of a *)
(* session; a full registry, with one session that is watched and prompted;*)
(* administrations in two directories; sessions of two projects, one of    *)
(* which gets protected resources.  For the liveness properties: a session *)
(* that is answered, administered and closed, one that is administered and *)
(* replaced, and one that is prompted and replaced.                        *)
(***************************************************************************)
EXTENDS SessionRegistry, Functions, TLC

CONSTANTS a, b, d, e, p, q

VARIABLE exercised

Symmetry == Permutations(Cmds) \cup Permutations(Admins)

TwoProjects == [i \in Ids |-> IF i = e THEN q ELSE p]

(* Every step but the calls, which are bounded by concern. *)
Internal ==
    \/ Execute \/ Resume \/ Surroundings
    \/ \E c \in Cmds : PromptReturns(c)
    \/ \E x \in Admins : AdministrationReturns(x)

(* The sessions and projects of a concern (d is the one to be created),    *)
(* how many commands it sends, how long the queue is for a call, and the   *)
(* calls it leaves to the others.                                          *)
Concern(c) ==
    CASE c = "commands" ->
            [ids |-> {a}, projects |-> {p}, prompts |-> 2, queue |-> 2,
             without |-> {"create", "read", "approve"}]
      [] c = "capacity" ->
            [ids |-> {a, b, d}, projects |-> {p}, prompts |-> 1, queue |-> 1,
             without |-> {"abort", "approve"}]
      [] c = "administration" ->
            [ids |-> {a, d}, projects |-> {p, q}, prompts |-> 0, queue |-> 1,
             without |-> {"create", "read", "abort", "approve"}]
      [] c = "trust" ->
            [ids |-> {a, e}, projects |-> {p, q}, prompts |-> 1, queue |-> 1,
             without |-> {"read", "abort"}]

Concerned(c) ==
    /\ \A op \in Range(queue) \cup {slot.op} :
          op.id \in Concern(c).ids \cup {None} /\ op.cwd \in Concern(c).projects \cup {None}
    /\ used \subseteq InitialIds \cup Concern(c).ids
    /\ Cardinality({k \in Cmds : command[k] # "unsent"}) <= Concern(c).prompts
    /\ IF c = "administration"
       THEN \A op \in Range(queue) \cup {slot.op} : op.cwd = q => op.kind \in {"admin", "unlock"}
       ELSE \A x \in Admins : admin[x] = NoAdmin
    /\ c # "capacity" => \A i \in Ids : owner[i] # "other" /\ entry[i].listeners = {}
    /\ c = "capacity" => /\ \A i \in Ids \ {a} : entry[i].listeners = {}
                         /\ \A op \in Range(queue) \cup {slot.op} : op.kind = "prompt" => op.id = a
    /\ c # "trust" => \A r \in Projects : trust[r] = "notRequired"

Called == queue'[Len(queue')].kind

ConcernsInit == Init /\ exercised \in {"commands", "capacity", "administration", "trust"}

ConcernsNext ==
    /\ \/ /\ Calls /\ Called \notin Concern(exercised).without
          /\ disposeRequested' # disposeRequested \/ Len(queue) < Concern(exercised).queue
       \/ Internal
    /\ UNCHANGED exercised
    /\ Concerned(exercised)'

ConcernsSpec == ConcernsInit /\ [][ConcernsNext]_<<vars, exercised>>

-----------------------------------------------------------------------------
(* Liveness: whatever is called for, but no step of the service is held    *)
(* back, so that its fairness is that of the specification.                *)
ServedCalls(c) ==
    CASE c = "answering" -> Kinds \ {"create", "mutate"}
      [] c = "changing" -> {"load", "create", "mutate", "admin", "approve", "dispose"}
      [] c = "replacing" -> {"load", "prompt", "abort", "mutate", "dispose"}

LiveInit == Init /\ exercised \in {"answering", "changing", "replacing"}

LiveNext ==
    /\ \/ Calls /\ Called \in ServedCalls(exercised)
       \/ Internal
    /\ UNCHANGED exercised

LiveSpec == LiveInit /\ [][LiveNext]_<<vars, exercised>> /\ Fairness
=============================================================================
