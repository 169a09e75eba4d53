-------------------------- MODULE WorkspaceProofs --------------------------
(***************************************************************************)
(* Proofs about Workspace, for any log the session starts with, any number *)
(* of prompts, turns, forks and selections, and a wire of any length.      *)
(*                                                                         *)
(* That the view never waits in vain is a fact about three sequences: the  *)
(* requests, the page that is being read, and the answers and events.  The *)
(* inductive invariant AwaitInv says of a load the view awaits that its    *)
(* tree is on the wire, once, and behind its page; and that nothing of a   *)
(* load it does not await is (LoadAwaited).  Most of the proof is how the  *)
(* steps move messages: the Node's (NodeMoves: it says something, takes a  *)
(* command, reads and writes a page, tells a tree) and the view's (Ask:    *)
(* one arrives, some are given up, others are asked for).                  *)
(*                                                                         *)
(* That the codec accepts what the Node says rests on FramesInv: what the  *)
(* log and the normaliser hold can be rendered, the log is a forest, and   *)
(* the message that is being streamed has an entry.  Its lemmas say what   *)
(* the operators return: the path to an entry of the log (PathFacts), and  *)
(* the entries and events of the normaliser (MessageUpdateIsGood, ...).    *)
(***************************************************************************)
EXTENDS Workspace, FrameCodec, SequenceTheorems, WellFoundedInduction, TLAPS

-----------------------------------------------------------------------------
(* Sequences whose members have no set to be in.                           *)

IsSeq(s) == s \in Seq(ToSet(s))

(* u is s without its first. *)
Rest(s, u) == s # <<>> /\ u = Tail(s)

(* What appending, taking the rest, joining and mapping do to positions.   *)
LEMMA SeqFacts ==
  ASSUME NEW s, IsSeq(s)
  PROVE  /\ Len(s) \in Nat /\ DOMAIN s = 1..Len(s)
         /\ s = <<>> <=> Len(s) = 0
         /\ \A i \in DOMAIN s : s[i] \in ToSet(s)
         /\ \A x \in ToSet(s) : \E i \in DOMAIN s : s[i] = x
<1>1. \A i \in DOMAIN s : s[i] \in ToSet(s)
  BY DEF ToSet
<1>2. \A x \in ToSet(s) : \E i \in DOMAIN s : s[i] = x
  BY DEF ToSet
<1> QED BY <1>1, <1>2, SMT DEF IsSeq

(* The empty sequence is one.                                             *)
LEMMA EmptyFacts == IsSeq(<<>>) /\ DOMAIN <<>> = {} /\ ToSet(<<>>) = {}
<1>1. DOMAIN <<>> = {}
  BY SMT
<1>2. ToSet(<<>>) = {}
  BY <1>1, Zenon DEF ToSet
<1>3. <<>> \in Seq({})
  BY SMT
<1> QED BY <1>1, <1>2, <1>3, Zenon DEF IsSeq

(* Appending adds the last position.                                      *)
LEMMA AppendFacts ==
  ASSUME NEW s, IsSeq(s), NEW x
  PROVE  /\ IsSeq(Append(s, x)) /\ DOMAIN Append(s, x) = 1..(Len(s) + 1)
         /\ \A i \in DOMAIN s : Append(s, x)[i] = s[i]
         /\ Append(s, x)[Len(s) + 1] = x
         /\ ToSet(Append(s, x)) = ToSet(s) \cup {x}
<1> DEFINE S == ToSet(s) \cup {x}
           a == Append(s, x)
<1>1. s \in Seq(S) /\ x \in S
  BY SMT DEF IsSeq
<1>2. /\ a \in Seq(S) /\ DOMAIN a = 1..(Len(s) + 1)
      /\ \A i \in DOMAIN s : a[i] = s[i]
      /\ a[Len(s) + 1] = x
      /\ Len(s) \in Nat /\ DOMAIN s = 1..Len(s)
  <2> HIDE DEF S
  <2> QED BY <1>1, SMT DEF a
<1>3. ToSet(a) = ToSet(s) \cup {x}
  <2> HIDE DEF a, S
  <2>1. \A i \in DOMAIN a : i \in DOMAIN s \/ i = Len(s) + 1
    BY <1>2, SMT
  <2>2. Len(s) + 1 \in DOMAIN a /\ DOMAIN s \subseteq DOMAIN a
    BY <1>2, SMT
  <2> QED BY <1>2, <2>1, <2>2, Zenon DEF ToSet
<1> QED BY <1>2, <1>3, Zenon DEF IsSeq

(* Without its first, the other positions come one earlier.               *)
LEMMA TailFacts ==
  ASSUME NEW s, IsSeq(s), s # <<>>
  PROVE  /\ IsSeq(Tail(s)) /\ DOMAIN Tail(s) = 1..(Len(s) - 1)
         /\ Len(s) \in Nat \ {0} /\ 1 \in DOMAIN s /\ Head(s) = s[1]
         /\ \A i \in DOMAIN Tail(s) : i + 1 \in DOMAIN s /\ Tail(s)[i] = s[i + 1]
         /\ \A i \in DOMAIN s : i # 1 => i - 1 \in DOMAIN Tail(s) /\ Tail(s)[i - 1] = s[i]
         /\ ToSet(s) = {Head(s)} \cup ToSet(Tail(s))
<1> DEFINE S == ToSet(s)
           t == Tail(s)
<1>1. s \in Seq(S)
  BY DEF IsSeq
<1>2. /\ t \in Seq(S) /\ DOMAIN t = 1..(Len(s) - 1)
      /\ Len(s) \in Nat \ {0} /\ DOMAIN s = 1..Len(s) /\ Head(s) = s[1]
      /\ \A i \in DOMAIN t : t[i] = s[i + 1]
  <2> HIDE DEF S
  <2> QED BY <1>1, SMT DEF t
<1> HIDE DEF t, S
<1>3. /\ 1 \in DOMAIN s
      /\ \A i \in DOMAIN t : i + 1 \in DOMAIN s /\ t[i] = s[i + 1]
      /\ \A i \in DOMAIN s : i # 1 => i - 1 \in DOMAIN t /\ t[i - 1] = s[i]
  BY <1>2, SMTT(30)
<1>4. ToSet(s) = {Head(s)} \cup ToSet(t)
  <2>1. ASSUME NEW x \in ToSet(s)
        PROVE  x = Head(s) \/ x \in ToSet(t)
    <3>1. PICK i \in DOMAIN s : s[i] = x
      BY Zenon DEF ToSet
    <3>2. CASE i = 1
      BY <1>2, <3>1, <3>2
    <3>3. CASE i # 1
      <4>1. i - 1 \in DOMAIN t /\ t[i - 1] = x
        BY <1>3, <3>1, <3>3, Zenon
      <4> QED BY <4>1, Zenon DEF ToSet
    <3> QED BY <3>2, <3>3
  <2>2. ASSUME NEW x \in ToSet(t)
        PROVE  x \in ToSet(s)
    <3>1. PICK i \in DOMAIN t : t[i] = x
      BY Zenon DEF ToSet
    <3>2. i + 1 \in DOMAIN s /\ s[i + 1] = x
      BY <1>3, <3>1, Zenon
    <3> QED BY <3>2, Zenon DEF ToSet
  <2>3. Head(s) \in ToSet(s)
    BY <1>2, <1>3, Zenon DEF ToSet
  <2> QED BY <2>1, <2>2, <2>3, Zenon
<1>5. t \in Seq(ToSet(t))
  BY <1>2, SMT DEF ToSet
<1> QED BY <1>2, <1>3, <1>4, <1>5 DEF t, IsSeq

(* Joined, the positions of the second come behind the first.             *)
LEMMA ConcatFacts ==
  ASSUME NEW s, NEW t, IsSeq(s), IsSeq(t)
  PROVE  /\ IsSeq(s \o t) /\ DOMAIN (s \o t) = 1..(Len(s) + Len(t))
         /\ \A i \in DOMAIN s : (s \o t)[i] = s[i]
         /\ \A i \in DOMAIN t : (s \o t)[Len(s) + i] = t[i]
         /\ \A i \in DOMAIN (s \o t) :
               \/ i \in DOMAIN s /\ (s \o t)[i] = s[i]
               \/ i - Len(s) \in DOMAIN t /\ (s \o t)[i] = t[i - Len(s)]
         /\ ToSet(s \o t) = ToSet(s) \cup ToSet(t)
<1> DEFINE S == ToSet(s) \cup ToSet(t)
           c == s \o t
<1>1. s \in Seq(S) /\ t \in Seq(S)
  BY SMT DEF IsSeq
<1>2. /\ c \in Seq(S) /\ DOMAIN c = 1..(Len(s) + Len(t))
      /\ Len(s) \in Nat /\ Len(t) \in Nat /\ DOMAIN s = 1..Len(s) /\ DOMAIN t = 1..Len(t)
      /\ \A i \in DOMAIN c : c[i] = IF i <= Len(s) THEN s[i] ELSE t[i - Len(s)]
  <2> HIDE DEF S
  <2> QED BY <1>1, SMT DEF c
<1> HIDE DEF c, S
<1>3. /\ \A i \in DOMAIN s : i \in DOMAIN c /\ c[i] = s[i]
      /\ \A i \in DOMAIN t : Len(s) + i \in DOMAIN c /\ c[Len(s) + i] = t[i]
      /\ \A i \in DOMAIN c :
            \/ i \in DOMAIN s /\ c[i] = s[i]
            \/ i - Len(s) \in DOMAIN t /\ c[i] = t[i - Len(s)]
  BY <1>2, SMTT(30)
<1>4. ToSet(c) = ToSet(s) \cup ToSet(t)
  <2>1. ToSet(c) \subseteq ToSet(s) \cup ToSet(t)
    BY <1>3, Zenon DEF ToSet
  <2>2. ASSUME NEW x \in ToSet(s)
        PROVE  x \in ToSet(c)
    <3>1. PICK i \in DOMAIN s : s[i] = x
      BY Zenon DEF ToSet
    <3> QED BY <1>3, <3>1, Zenon DEF ToSet
  <2>3. ASSUME NEW x \in ToSet(t)
        PROVE  x \in ToSet(c)
    <3>1. PICK i \in DOMAIN t : t[i] = x
      BY Zenon DEF ToSet
    <3> QED BY <1>3, <3>1, Zenon DEF ToSet
  <2> QED BY <2>1, <2>2, <2>3, Zenon
<1>5. IsSeq(c)
  BY <1>2, <1>4, Zenon DEF S, IsSeq
<1>6. /\ \A i \in DOMAIN s : c[i] = s[i]
      /\ \A i \in DOMAIN t : c[Len(s) + i] = t[i]
      /\ DOMAIN c = 1..(Len(s) + Len(t))
  BY <1>2, <1>3
<1> QED BY <1>3, <1>4, <1>5, <1>6 DEF c

-----------------------------------------------------------------------------
(* The wire: requests, the page that is read, answers and events.          *)

Shaped(x) ==
    /\ "kind" \in DOMAIN x
    /\ x.kind \in {"page", "older", "tree"} => "for" \in DOMAIN x

WireOK ==
    /\ IsSeq(toNode) /\ IsSeq(toClient)
    /\ \A x \in ToSet(toNode) \cup ToSet(toClient) : Shaped(x)
    /\ Shaped(answering) /\ (answering = NoAnswer \/ answering.kind \in {"page", "older"})

(* The steps of the Node, as the wire sees them: it says something, takes  *)
(* a command and answers it, reads a page, writes it, or tells the tree.   *)
Answers(t) ==
    /\ IsSeq(t)
    /\ \A x \in ToSet(t) : "kind" \in DOMAIN x /\ x.kind \in {"prompt", "event", "mutated"}

Speaks(t) == Answers(t) /\ toClient' = toClient \o t /\ UNCHANGED <<toNode, answering>>

Serves(t) ==
    /\ answering = NoAnswer /\ Rest(toNode, toNode')
    /\ Head(toNode).kind \in {"prompt", "navigate", "fork", "clone"}
    /\ Answers(t)
    /\ Head(toNode).kind # "prompt" => \E x \in ToSet(t) : x.kind = "mutated"
    /\ toClient' = toClient \o t /\ UNCHANGED answering

Reads ==
    /\ answering = NoAnswer /\ Rest(toNode, toNode')
    /\ Head(toNode).kind \in {"page", "older"}
    /\ {"kind", "for"} \subseteq DOMAIN answering'
    /\ answering'.kind = Head(toNode).kind /\ answering'.for = Head(toNode).for
    /\ UNCHANGED toClient

Writes ==
    /\ answering # NoAnswer
    /\ toClient' = Append(toClient, answering) /\ answering' = NoAnswer /\ UNCHANGED toNode

Tells(x) ==
    /\ answering = NoAnswer /\ Rest(toNode, toNode') /\ Head(toNode).kind = "tree"
    /\ {"kind", "for"} \subseteq DOMAIN x /\ x.kind = "tree" /\ x.for = Head(toNode).for
    /\ toClient' = Append(toClient, x) /\ UNCHANGED answering

NodeMoves ==
    \/ \E t : Speaks(t) \/ Serves(t)
    \/ Reads \/ Writes
    \/ \E x : Tells(x)
    \/ UNCHANGED <<toNode, answering, toClient>>

(* Short sequences that are written out.                                  *)
LEMMA TupleFacts ==
  /\ IsSeq(<<>>) /\ ToSet(<<>>) = {}
  /\ \A x : IsSeq(<<x>>) /\ ToSet(<<x>>) = {x}
  /\ \A x, y : IsSeq(<<x, y>>) /\ ToSet(<<x, y>>) = {x, y}
<1>1. ASSUME NEW x
      PROVE  IsSeq(<<x>>) /\ ToSet(<<x>>) = {x}
  <2>1. DOMAIN <<x>> = {1} /\ <<x>>[1] = x
    BY SMT
  <2>2. ToSet(<<x>>) = {x}
    BY <2>1, Zenon DEF ToSet
  <2>3. <<x>> \in Seq({x})
    BY SMT
  <2> QED BY <2>2, <2>3, Zenon DEF IsSeq
<1>2. ASSUME NEW x, NEW y
      PROVE  IsSeq(<<x, y>>) /\ ToSet(<<x, y>>) = {x, y}
  <2>1. DOMAIN <<x, y>> = {1, 2} /\ <<x, y>>[1] = x /\ <<x, y>>[2] = y
    BY SMT
  <2>2. ToSet(<<x, y>>) = {x, y}
    BY <2>1, Zenon DEF ToSet
  <2>3. <<x, y>> \in Seq({x, y})
    BY SMT
  <2> QED BY <2>2, <2>3, Zenon DEF IsSeq
<1> QED BY <1>1, <1>2, EmptyFacts, Zenon

(* Appending one is joining a sequence of one.                            *)
LEMMA AppendIsConcat2 ==
  ASSUME NEW s, IsSeq(s), NEW x
  PROVE  Append(s, x) = s \o <<x>>
<1> DEFINE S == ToSet(s) \cup {x}
<1>1. s \in Seq(S) /\ x \in S
  BY SMT DEF IsSeq
<1> HIDE DEF S
<1> QED BY <1>1, AppendIsConcat, SMT

(* What is emitted is told, as events. *)
LEMMA EmittedSpeaks ==
  ASSUME NEW events, IsSeq(events)
  PROVE  Answers([i \in DOMAIN events |-> Event(i, events[i])])
<1> DEFINE t == [i \in DOMAIN events |-> Event(i, events[i])]
<1>1. DOMAIN events = 1..Len(events) /\ Len(events) \in Nat
  BY SeqFacts
<1>2. ASSUME NEW x \in ToSet(t)
      PROVE  "kind" \in DOMAIN x /\ x.kind = "event"
  <2>1. PICK i \in DOMAIN events : x = Event(i, events[i])
    BY DEF ToSet
  <2> QED BY <2>1 DEF Event
<1>3. \A i \in DOMAIN events : t[i] \in ToSet(t)
  BY Zenon DEF ToSet
<1>4. t \in [1..Len(events) -> ToSet(t)]
  BY <1>1, <1>3
<1>5. IsSeq(t)
  <2> HIDE DEF t
  <2> QED BY <1>1, <1>4, SeqDef DEF IsSeq
<1> QED BY <1>2, <1>5 DEF Answers

(* What the normaliser emits is a sequence of events.                     *)
LEMMA NormalizerEmits ==
  ASSUME NEW c, NEW message, NEW delta, NEW origin, NEW call, NEW status
  PROVE  /\ IsSeq(MessageStart(c, message, origin).events)
         /\ IsSeq(MessageUpdate(c, message, delta, origin).events)
         /\ IsSeq(MessageEnd(c, message, origin).events)
         /\ IsSeq(ToolActivity(c, call, status).events)
<1>1. /\ \A d : IsSeq(Emits(d, <<>>).events)
      /\ \A d, x : IsSeq(Emits(d, <<x>>).events)
      /\ \A d, x, y : IsSeq(Emits(d, <<x, y>>).events)
  BY TupleFacts DEF Emits
<1>2. IsSeq(MessageStart(c, message, origin).events)
  BY <1>1 DEF MessageStart
<1>3. IsSeq(MessageUpdate(c, message, delta, origin).events)
  BY <1>1, <1>2, ZenonT(60) DEF MessageUpdate
<1>4. IsSeq(MessageEnd(c, message, origin).events)
  BY <1>1 DEF MessageEnd
<1>5. IsSeq(ToolActivity(c, call, status).events)
  BY <1>1 DEF ToolActivity
<1> QED BY <1>2, <1>3, <1>4, <1>5

(* Emitting says events only.                                             *)
LEMMA EmitSpeaks ==
  ASSUME NEW n, NEW events, IsSeq(events), Emit(n, events), UNCHANGED <<toNode, answering>>
  PROVE  NodeMoves
<1>1. Speaks([i \in DOMAIN events |-> Event(i, events[i])])
  BY EmittedSpeaks, Zenon DEF Emit, Speaks
<1> QED BY <1>1, Zenon DEF NodeMoves

(* A step of the agent is a move of the Node.                             *)
LEMMA AgentMoves ==
  ASSUME Agent
  PROVE  NodeMoves
<1>1. /\ \A x : IsSeq(<<x>>)
      /\ IsSeq(<<>>)
  BY TupleFacts
<1>2. CASE AgentStart
  BY <1>1, <1>2, EmitSpeaks DEF AgentStart
<1>3. CASE StartMessage
  BY <1>3, NormalizerEmits, EmitSpeaks DEF StartMessage, Handle
<1>4. ASSUME NEW message, NEW delta, UpdateMessage(message, delta)
      PROVE  NodeMoves
  BY <1>4, NormalizerEmits, EmitSpeaks DEF UpdateMessage, Handle
<1>5. CASE AddPart
  BY <1>4, <1>5, Zenon DEF AddPart
<1>6. CASE Stream
  BY <1>4, <1>6, Zenon DEF Stream
<1>7. CASE EndMessage
  BY <1>7, NormalizerEmits, EmitSpeaks DEF EndMessage, Handle
<1>8. CASE RunTool
  BY <1>8, NormalizerEmits, EmitSpeaks DEF RunTool, Handle
<1>9. CASE AgentSettled
  BY <1>1, <1>9, EmitSpeaks DEF AgentSettled
<1>10. CASE PromptResolves
  BY <1>10 DEF PromptResolves, NodeMoves
<1> QED BY <1>2, <1>3, <1>5, <1>6, <1>7, <1>8, <1>9, <1>10 DEF Agent

(* Any two of a page's fields. *)
LEMMA PageFields ==
  ASSUME NEW r, NEW ok
  PROVE  /\ {"kind", "for"} \subseteq DOMAIN PageOf(r)
         /\ {"kind", "for"} \subseteq DOMAIN Empty(r, ok)
         /\ PageOf(r).kind = r.kind /\ PageOf(r).for = r.for
         /\ Empty(r, ok).kind = r.kind /\ Empty(r, ok).for = r.for
<1>1. /\ {"kind", "for"} \subseteq DOMAIN Empty(r, ok)
      /\ Empty(r, ok).kind = r.kind /\ Empty(r, ok).for = r.for
  BY DEF Empty
<1>2. /\ {"kind", "for"} \subseteq DOMAIN PageOf(r)
      /\ PageOf(r).kind = r.kind /\ PageOf(r).for = r.for
  BY DEF PageOf
<1> QED BY <1>1, <1>2

(* So is serving a request.                                               *)
LEMMA ServeMoves ==
  ASSUME WireOK, Serve
  PROVE  NodeMoves
<1>1. /\ \A x : IsSeq(<<x>>) /\ ToSet(<<x>>) = {x}
      /\ \A x, y : IsSeq(<<x, y>>) /\ ToSet(<<x, y>>) = {x, y}
      /\ IsSeq(<<>>)
  BY TupleFacts
<1>2. \A x : Append(toClient, x) = toClient \o <<x>>
  BY AppendIsConcat2 DEF WireOK
<1>3. CASE ReadHistory
  <2>1. Reads
    BY <1>3, PageFields DEF ReadHistory, Request, Reads, Taken, Rest
  <2> QED BY <2>1 DEF NodeMoves
<1>4. CASE AnswerHistory
  BY <1>4, Zenon DEF AnswerHistory, Reply, Writes, NodeMoves
<1>5. CASE ReadTree
  <2> DEFINE x == [kind |-> "tree", for |-> Head(toNode).for, session |-> Head(toNode).session,
                   rev |-> IF Head(toNode).session = Away THEN None ELSE Revision]
  <2>1. {"kind", "for"} \subseteq DOMAIN x /\ x.kind = "tree" /\ x.for = Head(toNode).for
    OBVIOUS
  <2>2. toClient' = Append(toClient, x)
    BY <1>5 DEF ReadTree, Reply
  <2> HIDE DEF x
  <2>3. Tells(x)
    BY <1>5, <2>1, <2>2, Zenon DEF ReadTree, Request, Taken, Rest, Tells
  <2> QED BY <2>3, Zenon DEF NodeMoves
<1>6. CASE SubmitPrompt
  <2> DEFINE c == Head(toNode).cmd
  <2>1. \A status : Answers(<<Admission(c, status)>>)
    BY <1>1 DEF Answers, Admission
  <2>2. Answers(<<Admission(c, "rejected"), Event(1, Completed(c))>>)
    BY <1>1 DEF Answers, Admission, Event
  <2>3. /\ answering = NoAnswer /\ Head(toNode).kind = "prompt"
        /\ Rest(toNode, toNode') /\ answering' = answering
    BY <1>6 DEF SubmitPrompt, Request, Taken, Rest
  <2>4. \/ \E status : toClient' = toClient \o <<Admission(c, status)>>
        \/ toClient' = toClient \o <<Admission(c, "rejected"), Event(1, Completed(c))>>
    BY <1>2, <1>6, Zenon DEF SubmitPrompt, Accept, Reject, Uncertain, Reply
  <2> HIDE DEF c
  <2>5. \E t : Serves(t)
    BY <2>1, <2>2, <2>3, <2>4, Zenon DEF Serves
  <2> QED BY <2>5, Zenon DEF NodeMoves
<1>7. CASE Mutate
  <2>1. \A ok, s : Answers(<<MutationAnswer(ok, s)>>)
    BY <1>1 DEF Answers, MutationAnswer
  <2>2. \A ok, s : \E x \in ToSet(<<MutationAnswer(ok, s)>>) : x.kind = "mutated"
    BY <1>1 DEF MutationAnswer
  <2>3. /\ answering = NoAnswer /\ Rest(toNode, toNode')
        /\ Head(toNode).kind \in {"navigate", "fork", "clone"}
        /\ answering' = answering
    BY <1>7 DEF Mutate, Request, Taken, Rest
  <2>4. \E ok, s : toClient' = toClient \o <<MutationAnswer(ok, s)>>
    <3>1. \A i : ForkAt(i) => toClient' = toClient \o <<MutationAnswer(TRUE, node.session + 1)>>
      BY <1>2 DEF ForkAt, Reply
    <3>2. \A r : Fork(r) \/ Clone(r) => \E i : ForkAt(i)
      BY Zenon DEF Fork, Clone
    <3>3. \A r : Navigate(r) => toClient' = toClient \o <<MutationAnswer(TRUE, node.session)>>
      BY <1>2, Zenon DEF Navigate, Reply
    <3>4. RefuseMutation => toClient' = toClient \o <<MutationAnswer(FALSE, node.session)>>
      BY <1>2, Zenon DEF RefuseMutation, Reply
    <3>5. RefuseMutation \/ \E r : Navigate(r) \/ Fork(r) \/ Clone(r)
      BY <1>7, Zenon DEF Mutate
    <3> QED BY <3>1, <3>2, <3>3, <3>4, <3>5, Zenon
  <2>5. \E t : Serves(t)
    BY <2>1, <2>2, <2>3, <2>4, Zenon DEF Serves
  <2> QED BY <2>5, Zenon DEF NodeMoves
<1>8. CASE SettleCommand
  <2>1. IsSeq((IF node.shown THEN <<Running(FALSE)>> ELSE <<>>) \o <<Completed(node.active)>>)
    BY <1>1, ConcatFacts
  <2> QED BY <1>8, <2>1, EmitSpeaks DEF SettleCommand
<1> QED BY <1>3, <1>4, <1>5, <1>6, <1>7, <1>8 DEF Serve

-----------------------------------------------------------------------------
(* The order of a load's page and tree.  Of a purpose there is at most one *)
(* tree on the wire, and no page comes after it.                           *)

Loads == {"select", "refresh"}

IsPage(x, p) == x.kind = "page" /\ x.for = p
IsTree(x, p) == x.kind = "tree" /\ x.for = p
Quiet(x, p) == ~IsPage(x, p) /\ ~IsTree(x, p)

Silent(s, p) == \A i \in DOMAIN s : Quiet(s[i], p)
HasTree(s, p) == \E i \in DOMAIN s : IsTree(s[i], p)
OneTree(s, p) == \A i, j \in DOMAIN s : IsTree(s[i], p) /\ IsTree(s[j], p) => i = j
Followed(s, p) ==
    \A i \in DOMAIN s : IsPage(s[i], p) => \E j \in DOMAIN s : j > i /\ IsTree(s[j], p)

InOrder(n, a, c, p) ==
    /\ OneTree(n, p) /\ OneTree(c, p) /\ ~(HasTree(n, p) /\ HasTree(c, p))
    /\ Followed(n, p) /\ (HasTree(n, p) \/ Followed(c, p))
    /\ IsPage(a, p) => HasTree(n, p)

TreeOnWire(p) == HasTree(toNode, p) \/ HasTree(toClient, p)

(* Joining what is quiet about a purpose changes nothing for it.          *)
LEMMA QuietConcat ==
  ASSUME NEW s, NEW t, IsSeq(s), IsSeq(t), NEW p, \A x \in ToSet(t) : Quiet(x, p)
  PROVE  /\ HasTree(s \o t, p) <=> HasTree(s, p)
         /\ OneTree(s, p) => OneTree(s \o t, p)
         /\ Followed(s, p) => Followed(s \o t, p)
         /\ Silent(s, p) => Silent(s \o t, p)
<1> DEFINE c == s \o t
<1>1. /\ \A i \in DOMAIN s : i \in DOMAIN c /\ c[i] = s[i]
      /\ \A i \in DOMAIN c : (i \in DOMAIN s /\ c[i] = s[i]) \/ Quiet(c[i], p)
  BY ConcatFacts, SeqFacts
<1> HIDE DEF c
<1>2. HasTree(c, p) <=> HasTree(s, p)
  BY <1>1 DEF HasTree, Quiet
<1>3. OneTree(s, p) => OneTree(c, p)
  BY <1>1 DEF OneTree, Quiet
<1>4. Followed(s, p) => Followed(c, p)
  BY <1>1 DEF Followed, Quiet
<1>5. Silent(s, p) => Silent(c, p)
  BY <1>1 DEF Silent
<1> QED BY <1>2, <1>3, <1>4, <1>5 DEF c

(* Nor does taking what is not its tree.                                  *)
LEMMA OrderOfTail ==
  ASSUME NEW s, IsSeq(s), NEW t, Rest(s, t), NEW p, ~IsTree(Head(s), p)
  PROVE  /\ HasTree(t, p) <=> HasTree(s, p)
         /\ OneTree(s, p) => OneTree(t, p)
         /\ Followed(s, p) => Followed(t, p)
         /\ Silent(s, p) => Silent(t, p)
         /\ IsPage(Head(s), p) /\ Followed(s, p) => HasTree(t, p)
<1>1. /\ \A i \in DOMAIN t : i \in Int /\ i + 1 \in DOMAIN s /\ t[i] = s[i + 1]
      /\ \A i \in DOMAIN s : i # 1 => i - 1 \in DOMAIN t /\ t[i - 1] = s[i]
      /\ 1 \in DOMAIN s /\ ~IsTree(s[1], p) /\ Head(s) = s[1]
      /\ \A i \in DOMAIN s : i \in Int
  BY TailFacts, SeqFacts DEF Rest
<1>2. HasTree(t, p) <=> HasTree(s, p)
  BY <1>1, Zenon DEF HasTree
<1>3. OneTree(s, p) => OneTree(t, p)
  <2> SUFFICES ASSUME OneTree(s, p), NEW i \in DOMAIN t, NEW j \in DOMAIN t,
                      IsTree(t[i], p), IsTree(t[j], p)
               PROVE  i = j
    BY DEF OneTree
  <2>1. i + 1 = j + 1
    BY <1>1, Zenon DEF OneTree
  <2> QED BY <1>1, <2>1
<1>4. ASSUME Followed(s, p)
      PROVE  Followed(t, p)
  <2> SUFFICES ASSUME NEW i \in DOMAIN t, IsPage(t[i], p)
               PROVE  \E j \in DOMAIN t : j > i /\ IsTree(t[j], p)
    BY Zenon DEF Followed
  <2>1. PICK j \in DOMAIN s : j > i + 1 /\ IsTree(s[j], p)
    BY <1>1, <1>4, Zenon DEF Followed
  <2>2. j - 1 \in DOMAIN t /\ t[j - 1] = s[j] /\ j - 1 > i
    BY <1>1, <2>1
  <2> QED BY <2>1, <2>2, Zenon
<1>5. Silent(s, p) => Silent(t, p)
  BY <1>1, Zenon DEF Silent
<1>6. ASSUME IsPage(Head(s), p), Followed(s, p)
      PROVE  HasTree(t, p)
  BY <1>1, <1>2, <1>6, Zenon DEF Followed, HasTree
<1> QED BY <1>2, <1>3, <1>4, <1>5, <1>6

(* After the tree there is nothing of its purpose. *)
LEMMA TreeIsLast ==
  ASSUME NEW s, IsSeq(s), NEW t, Rest(s, t), NEW p, IsTree(Head(s), p),
         OneTree(s, p), Followed(s, p)
  PROVE  Silent(t, p)
<1>1. /\ \A i \in DOMAIN t : i \in Int /\ i > 0 /\ i + 1 \in DOMAIN s /\ t[i] = s[i + 1]
      /\ 1 \in DOMAIN s /\ IsTree(s[1], p)
      /\ \A i \in DOMAIN s : i \in Int
  BY TailFacts, SeqFacts DEF Rest
<1> SUFFICES ASSUME NEW i \in DOMAIN t
             PROVE  Quiet(t[i], p)
  BY DEF Silent
<1>2. \A j \in DOMAIN s : IsTree(s[j], p) => j = 1
  BY <1>1, Zenon DEF OneTree
<1>3. ~IsTree(t[i], p)
  BY <1>1, <1>2
<1>4. ASSUME IsPage(t[i], p)
      PROVE  FALSE
  <2>1. PICK j \in DOMAIN s : j > i + 1 /\ IsTree(s[j], p)
    BY <1>1, <1>4, Zenon DEF Followed
  <2> QED BY <1>1, <1>2, <2>1
<1> QED BY <1>3, <1>4 DEF Quiet

(* A sequence that says nothing of a purpose is in order.                 *)
LEMMA SilentFacts ==
  ASSUME NEW s, NEW p, Silent(s, p)
  PROVE  ~HasTree(s, p) /\ OneTree(s, p) /\ Followed(s, p)
BY DEF Silent, Quiet, HasTree, OneTree, Followed

(* The places after appending.                                            *)
LEMMA AppendPlaces ==
  ASSUME NEW s, IsSeq(s), NEW x
  PROVE  LET t == Append(s, x)
             n == Len(s) + 1
         IN  /\ n \in DOMAIN t /\ t[n] = x /\ n \in Int
             /\ \A i \in DOMAIN s : i \in DOMAIN t /\ t[i] = s[i] /\ i \in Int
             /\ \A i \in DOMAIN t : i = n \/ (i \in DOMAIN s /\ t[i] = s[i] /\ n > i)
<1> DEFINE t == Append(s, x)
           n == Len(s) + 1
<1>1. DOMAIN t = 1..n /\ (\A i \in DOMAIN s : t[i] = s[i]) /\ t[n] = x
  BY AppendFacts, ZenonT(60)
<1>2. n = Len(s) + 1 /\ Len(s) \in Nat /\ DOMAIN s = 1..Len(s)
  BY SeqFacts
<1> HIDE DEF t, n
<1>3. n \in Nat \ {0} /\ DOMAIN s = 1..(n - 1)
  BY <1>2
<1>4. /\ n \in DOMAIN t /\ t[n] = x /\ n \in Int
      /\ \A i \in DOMAIN s : i \in DOMAIN t /\ t[i] = s[i] /\ i \in Int
      /\ \A i \in DOMAIN t : i = n \/ (i \in DOMAIN s /\ t[i] = s[i] /\ n > i)
  BY ONLY <1>1, <1>3, SMT
<1> QED BY <1>4 DEF t, n

(* A tree that is told comes last. *)
LEMMA TreeAppended ==
  ASSUME NEW s, IsSeq(s), NEW x, NEW p, IsTree(x, p), ~HasTree(s, p)
  PROVE  /\ HasTree(Append(s, x), p) /\ OneTree(Append(s, x), p)
         /\ Followed(Append(s, x), p)
<1> DEFINE t == Append(s, x)
           n == Len(s) + 1
<1>1. /\ n \in DOMAIN t /\ t[n] = x /\ n \in Int /\ ~IsPage(x, p)
      /\ \A i \in DOMAIN t : i = n \/ (i \in DOMAIN s /\ t[i] = s[i] /\ n > i)
  <2>1. /\ n \in DOMAIN t /\ t[n] = x /\ n \in Int
        /\ \A i \in DOMAIN t : i = n \/ (i \in DOMAIN s /\ t[i] = s[i] /\ n > i)
    BY AppendPlaces, Zenon
  <2> QED BY <2>1 DEF IsPage, IsTree
<1> HIDE DEF t, n
<1>2. HasTree(t, p) /\ OneTree(t, p)
  BY <1>1, Zenon DEF HasTree, OneTree
<1>3. Followed(t, p)
  BY <1>1, Zenon DEF Followed
<1> QED BY <1>2, <1>3 DEF t

(* A page that is written, while its tree is still to be told. *)
LEMMA PageAppended ==
  ASSUME NEW s, IsSeq(s), NEW x, NEW p, ~IsTree(x, p)
  PROVE  /\ HasTree(Append(s, x), p) <=> HasTree(s, p)
         /\ OneTree(s, p) => OneTree(Append(s, x), p)
         /\ Followed(s, p) /\ ~IsPage(x, p) => Followed(Append(s, x), p)
<1> DEFINE t == Append(s, x)
           n == Len(s) + 1
<1>1. /\ n \in DOMAIN t /\ t[n] = x /\ n \in Int
      /\ \A i \in DOMAIN s : i \in DOMAIN t /\ t[i] = s[i] /\ i \in Int
      /\ \A i \in DOMAIN t : i = n \/ (i \in DOMAIN s /\ t[i] = s[i] /\ n > i)
  BY AppendPlaces, Zenon
<1> HIDE DEF t, n
<1>2. HasTree(t, p) <=> HasTree(s, p)
  BY <1>1, Zenon DEF HasTree
<1>3. OneTree(s, p) => OneTree(t, p)
  BY <1>1, Zenon DEF OneTree
<1>4. ASSUME Followed(s, p), ~IsPage(x, p)
      PROVE  Followed(t, p)
  BY <1>1, <1>4, Zenon DEF Followed
<1> QED BY <1>2, <1>3, <1>4 DEF t

-----------------------------------------------------------------------------
(* The Node's steps keep the order of the wire, and what is awaited on it. *)

OnWire == ToSet(toNode) \cup ToSet(toClient) \cup ({answering} \ {NoAnswer})
OlderOnWire == \E x \in OnWire : x.kind = "older"
ChangeOnWire == \E x \in OnWire : x.kind \in Mutations \cup {"mutated"}

(* Reading no page says nothing.                                          *)
LEMMA NoAnswerFacts ==
  /\ Shaped(NoAnswer) /\ NoAnswer.kind = "none"
  /\ \A p : Quiet(NoAnswer, p)
BY DEF NoAnswer, Shaped, Quiet, IsPage, IsTree

(* Answers to commands and events say nothing of a load.                  *)
LEMMA AnswersAreQuiet ==
  ASSUME NEW t, Answers(t)
  PROVE  /\ IsSeq(t)
         /\ \A x \in ToSet(t) : Shaped(x) /\ x.kind \in {"prompt", "event", "mutated"}
         /\ \A p : \A x \in ToSet(t) : Quiet(x, p)
BY DEF Answers, Shaped, Quiet, IsPage, IsTree

(* The sequences after a move, by what they hold. *)
LEMMA Joined2 ==
  ASSUME NEW s, IsSeq(s), NEW t, IsSeq(t), NEW u, u = s \o t
  PROVE  IsSeq(u) /\ ToSet(u) = ToSet(s) \cup ToSet(t)
BY ConcatFacts

LEMMA Appended ==
  ASSUME NEW s, IsSeq(s), NEW x, NEW u, u = Append(s, x)
  PROVE  IsSeq(u) /\ ToSet(u) = ToSet(s) \cup {x}
BY AppendFacts

LEMMA Shortened ==
  ASSUME NEW s, IsSeq(s), NEW u, Rest(s, u)
  PROVE  IsSeq(u) /\ ToSet(s) = {Head(s)} \cup ToSet(u)
BY TailFacts DEF Rest

(* A move of the Node keeps the shape of messages,                        *)
LEMMA MovesKeepWire ==
  ASSUME WireOK, NodeMoves
  PROVE  WireOK'
<1>a. /\ IsSeq(toNode) /\ IsSeq(toClient)
      /\ \A x \in ToSet(toNode) \cup ToSet(toClient) : Shaped(x)
      /\ Shaped(answering) /\ (answering = NoAnswer \/ answering.kind \in {"page", "older"})
  BY DEF WireOK
<1>1. ASSUME NEW t, Speaks(t)
      PROVE  WireOK'
  <2>1. IsSeq(t) /\ \A x \in ToSet(t) : Shaped(x)
    BY <1>1, AnswersAreQuiet DEF Speaks
  <2>2. IsSeq(toClient') /\ ToSet(toClient') = ToSet(toClient) \cup ToSet(t)
    BY <1>1, <1>a, <2>1, Joined2 DEF Speaks
  <2>3. toNode' = toNode /\ answering' = answering
    BY <1>1 DEF Speaks
  <2> QED BY <1>a, <2>1, <2>2, <2>3 DEF WireOK
<1>2. ASSUME NEW t, Serves(t)
      PROVE  WireOK'
  <2>1. IsSeq(t) /\ \A x \in ToSet(t) : Shaped(x)
    BY <1>2, AnswersAreQuiet DEF Serves
  <2>2. IsSeq(toClient') /\ ToSet(toClient') = ToSet(toClient) \cup ToSet(t)
    BY <1>2, <1>a, <2>1, Joined2 DEF Serves
  <2>3. IsSeq(toNode') /\ ToSet(toNode') \subseteq ToSet(toNode) /\ answering' = answering
    BY <1>2, <1>a, Shortened DEF Serves
  <2> QED BY <1>a, <2>1, <2>2, <2>3 DEF WireOK
<1>3. CASE Reads
  <2>1. Shaped(answering') /\ answering'.kind \in {"page", "older"}
    BY <1>3 DEF Reads, Shaped
  <2>2. IsSeq(toNode') /\ ToSet(toNode') \subseteq ToSet(toNode) /\ toClient' = toClient
    BY <1>3, <1>a, Shortened DEF Reads
  <2> QED BY <1>a, <2>1, <2>2 DEF WireOK
<1>4. CASE Writes
  <2>1. IsSeq(toClient') /\ ToSet(toClient') = ToSet(toClient) \cup {answering}
    BY <1>4, <1>a, Appended DEF Writes
  <2>2. toNode' = toNode /\ answering' = NoAnswer
    BY <1>4 DEF Writes
  <2> QED BY <1>a, <2>1, <2>2, NoAnswerFacts DEF WireOK
<1>5. ASSUME NEW x, Tells(x)
      PROVE  WireOK'
  <2>1. Shaped(x)
    BY <1>5 DEF Tells, Shaped
  <2>2. IsSeq(toClient') /\ ToSet(toClient') = ToSet(toClient) \cup {x}
    BY <1>5, <1>a, Appended DEF Tells
  <2>3. IsSeq(toNode') /\ ToSet(toNode') \subseteq ToSet(toNode) /\ answering' = answering
    BY <1>5, <1>a, Shortened DEF Tells
  <2> QED BY <1>a, <2>1, <2>2, <2>3 DEF WireOK
<1>6. CASE UNCHANGED <<toNode, answering, toClient>>
  BY <1>6, <1>a DEF WireOK
<1> QED BY <1>1, <1>2, <1>3, <1>4, <1>5, <1>6, Zenon DEF NodeMoves

(* the order of every load,                                               *)
LEMMA MovesKeepOrder ==
  ASSUME WireOK, NodeMoves, NEW p
  PROVE  /\ InOrder(toNode, answering, toClient, p) => InOrder(toNode, answering, toClient, p)'
         /\ TreeOnWire(p)' <=> TreeOnWire(p)
<1> DEFINE Kept == /\ InOrder(toNode, answering, toClient, p) =>
                          InOrder(toNode, answering, toClient, p)'
                   /\ TreeOnWire(p)' <=> TreeOnWire(p)
           AsBefore(s, u) == /\ HasTree(u, p) <=> HasTree(s, p)
                             /\ OneTree(s, p) => OneTree(u, p)
                             /\ Followed(s, p) => Followed(u, p)
<1>a. IsSeq(toNode) /\ IsSeq(toClient)
  BY DEF WireOK
<1>1. ASSUME NEW t, Speaks(t)
      PROVE  Kept
  <2>1. IsSeq(t) /\ \A x \in ToSet(t) : Quiet(x, p)
    BY <1>1, AnswersAreQuiet DEF Speaks
  <2>2. toClient' = toClient \o t /\ toNode' = toNode /\ answering' = answering
    BY <1>1 DEF Speaks
  <2>3. AsBefore(toClient, toClient')
    BY <1>a, <2>1, <2>2, QuietConcat
  <2> QED BY <1>a, <2>2, <2>3, Zenon DEF InOrder, TreeOnWire
<1>2. ASSUME NEW t, Serves(t)
      PROVE  Kept
  <2>1. IsSeq(t) /\ \A x \in ToSet(t) : Quiet(x, p)
    BY <1>2, AnswersAreQuiet DEF Serves
  <2>2. ~IsTree(Head(toNode), p)
    BY <1>2 DEF Serves, IsTree
  <2>3. /\ toClient' = toClient \o t /\ Rest(toNode, toNode')
        /\ answering' = answering
    BY <1>2 DEF Serves
  <2>4. AsBefore(toClient, toClient')
    BY <1>a, <2>1, <2>3, QuietConcat
  <2>5. AsBefore(toNode, toNode')
    BY <1>a, <2>2, <2>3, OrderOfTail
  <2> QED BY <1>a, <2>3, <2>4, <2>5, Zenon DEF InOrder, TreeOnWire
<1>3. CASE Reads
  <2>1. /\ ~IsTree(Head(toNode), p)
        /\ IsPage(answering', p) <=> IsPage(Head(toNode), p)
        /\ Rest(toNode, toNode') /\ toClient' = toClient
    BY <1>3 DEF Reads, IsTree, IsPage
  <2>2. AsBefore(toNode, toNode')
    BY <1>a, <2>1, OrderOfTail
  <2>3. IsPage(Head(toNode), p) /\ Followed(toNode, p) => HasTree(toNode', p)
    BY <1>a, <2>1, OrderOfTail
  <2> QED BY <1>a, <2>1, <2>2, <2>3, Zenon DEF InOrder, TreeOnWire
<1>4. CASE Writes
  <2>1. /\ toClient' = Append(toClient, answering) /\ answering' = NoAnswer /\ toNode' = toNode
        /\ ~IsPage(NoAnswer, p) /\ ~IsTree(answering, p)
    BY <1>4, NoAnswerFacts DEF Writes, Quiet, WireOK, IsTree
  <2>2. /\ HasTree(toClient', p) <=> HasTree(toClient, p)
        /\ OneTree(toClient, p) => OneTree(toClient', p)
        /\ Followed(toClient, p) /\ ~IsPage(answering, p) => Followed(toClient', p)
    BY <1>a, <2>1, PageAppended
  <2> QED BY <1>a, <2>1, <2>2, Zenon DEF InOrder, TreeOnWire
<1>5. ASSUME NEW x, Tells(x)
      PROVE  Kept
  <2>1. /\ answering' = answering /\ ~IsPage(answering, p)
        /\ Rest(toNode, toNode') /\ toClient' = Append(toClient, x)
        /\ IsTree(x, p) <=> IsTree(Head(toNode), p)
        /\ ~IsPage(x, p)
    BY <1>5, NoAnswerFacts DEF Tells, Quiet, IsTree, IsPage
  <2>2. CASE ~IsTree(x, p)
    <3>1. AsBefore(toClient, toClient')
      BY <1>a, <2>1, <2>2, PageAppended
    <3>2. AsBefore(toNode, toNode')
      BY <1>a, <2>1, <2>2, OrderOfTail
    <3> QED BY <1>a, <2>1, <3>1, <3>2, Zenon DEF InOrder, TreeOnWire
  <2>3. CASE IsTree(x, p)
    <3>1. HasTree(toNode, p)
      <4>1. 1 \in DOMAIN toNode /\ Head(toNode) = toNode[1]
        BY <1>a, <2>1, TailFacts DEF Rest
      <4> QED BY <2>1, <2>3, <4>1, Zenon DEF HasTree
    <3>2. ASSUME InOrder(toNode, answering, toClient, p)
          PROVE  InOrder(toNode, answering, toClient, p)'
      <4>1. Silent(toNode', p)
        BY <1>a, <2>1, <2>3, <3>2, TreeIsLast DEF InOrder
      <4>2. ~HasTree(toClient, p)
        BY <3>1, <3>2 DEF InOrder
      <4>3. OneTree(toClient', p) /\ Followed(toClient', p)
        BY <1>a, <2>1, <2>3, <4>2, TreeAppended
      <4>5. ~HasTree(toNode', p) /\ OneTree(toNode', p) /\ Followed(toNode', p)
        BY <2>1, <4>1, SilentFacts, Zenon
      <4> QED BY <2>1, <4>3, <4>5, Zenon DEF InOrder
    <3>3. HasTree(Append(toClient, x), p)
      <4>1. x \in ToSet(Append(toClient, x))
        BY <1>a, AppendFacts
      <4> QED BY <2>3, <4>1, Zenon DEF ToSet, HasTree
    <3> QED BY <2>1, <3>1, <3>2, <3>3, Zenon DEF TreeOnWire
  <2> QED BY <2>2, <2>3
<1>6. CASE UNCHANGED <<toNode, answering, toClient>>
  BY <1>6, Zenon DEF InOrder, TreeOnWire
<1> QED BY <1>1, <1>2, <1>3, <1>4, <1>5, <1>6, Zenon DEF NodeMoves

(* and what an older page and a branch action wait for.                   *)
LEMMA MovesKeepAwaited ==
  ASSUME WireOK, NodeMoves
  PROVE  (OlderOnWire => OlderOnWire') /\ (ChangeOnWire => ChangeOnWire')
<1>a. IsSeq(toNode) /\ IsSeq(toClient) /\ (answering = NoAnswer \/ answering.kind \in {"page", "older"})
  BY DEF WireOK
<1>1. ASSUME NEW t, Speaks(t)
      PROVE  OnWire \subseteq OnWire'
  <2>1. IsSeq(t) /\ toClient' = toClient \o t /\ toNode' = toNode /\ answering' = answering
    BY <1>1, AnswersAreQuiet DEF Speaks
  <2>2. ToSet(toClient') = ToSet(toClient) \cup ToSet(t)
    BY <1>a, <2>1, Joined2
  <2> QED BY <2>1, <2>2 DEF OnWire
<1>2. ASSUME NEW t, Serves(t)
      PROVE  /\ \A x \in OnWire : x \in OnWire' \/ x = Head(toNode)
             /\ Head(toNode).kind \in {"prompt", "navigate", "fork", "clone"}
             /\ Head(toNode).kind # "prompt" => \E x \in OnWire' : x.kind = "mutated"
  <2>1. /\ ToSet(toNode) = {Head(toNode)} \cup ToSet(toNode')
        /\ ToSet(toClient') = ToSet(toClient) \cup ToSet(t) /\ answering' = answering
    <3>1. /\ IsSeq(t) /\ toClient' = toClient \o t
          /\ Rest(toNode, toNode') /\ answering' = answering
      BY <1>2, AnswersAreQuiet DEF Serves
    <3>2. ToSet(toClient') = ToSet(toClient) \cup ToSet(t)
      BY <1>a, <3>1, Joined2
    <3>3. ToSet(toNode) = {Head(toNode)} \cup ToSet(toNode')
      BY <1>a, <3>1, Shortened
    <3> QED BY <3>1, <3>2, <3>3
  <2> QED BY <1>2, <2>1, Zenon DEF Serves, OnWire
<1>3. CASE Reads
  <2>1. /\ ToSet(toNode) = {Head(toNode)} \cup ToSet(toNode')
        /\ toClient' = toClient /\ answering = NoAnswer /\ answering'.kind = Head(toNode).kind
        /\ Head(toNode).kind \in {"page", "older"}
    BY <1>3, <1>a, Shortened DEF Reads
  <2>2. answering' # NoAnswer
    BY <2>1, NoAnswerFacts
  <2>3. \A x \in OnWire : x \in OnWire' \/ (x.kind = answering'.kind /\ answering' \in OnWire')
    BY <2>1, <2>2, Zenon DEF OnWire
  <2>4. \A x \in OnWire : \E y \in OnWire' : y.kind = x.kind
    BY <2>3, Zenon
  <2> QED BY <2>4, Zenon DEF OlderOnWire, ChangeOnWire
<1>4. CASE Writes
  <2>1. OnWire \subseteq OnWire'
    <3>1. ToSet(toClient') = ToSet(toClient) \cup {answering}
      BY <1>4, <1>a, Appended DEF Writes
    <3> QED BY <1>4, <3>1 DEF Writes, OnWire
  <2> QED BY <2>1, Zenon DEF OlderOnWire, ChangeOnWire
<1>5. ASSUME NEW x, Tells(x)
      PROVE  \A y \in OnWire : y \in OnWire' \/ y.kind = "tree"
  <2>1. ToSet(toClient') = ToSet(toClient) \cup {x}
    BY <1>5, <1>a, Appended DEF Tells
  <2>2. ToSet(toNode) = {Head(toNode)} \cup ToSet(toNode')
    BY <1>5, <1>a, Shortened DEF Tells
  <2>3. answering' = answering /\ Head(toNode).kind = "tree"
    BY <1>5 DEF Tells
  <2> QED BY <2>1, <2>2, <2>3, Zenon DEF OnWire
<1>6. CASE UNCHANGED <<toNode, answering, toClient>>
  BY <1>6, Zenon DEF OnWire, OlderOnWire, ChangeOnWire
<1>7. "tree" \notin Mutations \cup {"mutated", "older"} /\ "prompt" \notin Mutations \cup {"mutated", "older"}
  BY WorkspaceAssumption DEF WorkspaceAssumption
<1>8. ASSUME NEW t, Serves(t)
      PROVE  (OlderOnWire => OlderOnWire') /\ (ChangeOnWire => ChangeOnWire')
  BY <1>2, <1>7, <1>8 DEF OlderOnWire, ChangeOnWire
<1>9. ASSUME NEW x, Tells(x)
      PROVE  (OlderOnWire => OlderOnWire') /\ (ChangeOnWire => ChangeOnWire')
  BY <1>5, <1>7, <1>9 DEF OlderOnWire, ChangeOnWire
<1>10. ASSUME NEW t, Speaks(t)
       PROVE  (OlderOnWire => OlderOnWire') /\ (ChangeOnWire => ChangeOnWire')
  BY <1>1, <1>10, Zenon DEF OlderOnWire, ChangeOnWire
<1> QED BY <1>3, <1>4, <1>6, <1>8, <1>9, <1>10, Zenon DEF NodeMoves

-----------------------------------------------------------------------------
(* Requests are sent, and others given up.                                 *)

LEMMA UnawaitedFacts ==
  ASSUME NEW x, Shaped(x), NEW P
  PROVE  /\ Shaped(Unawaited(x, P)) /\ Unawaited(x, P).kind = x.kind
         /\ \A p : p # "none" => /\ IsPage(Unawaited(x, P), p) <=> IsPage(x, p) /\ p \notin P
                                 /\ IsTree(Unawaited(x, P), p) <=> IsTree(x, p) /\ p \notin P
<1>1. CASE ~("for" \in DOMAIN x /\ x.for \in P)
  BY <1>1 DEF Unawaited, Shaped, IsPage, IsTree
<1>2. CASE "for" \in DOMAIN x /\ x.for \in P
  <2>1. Unawaited(x, P) = [x EXCEPT !.for = "none"]
    BY <1>2 DEF Unawaited
  <2>2. /\ DOMAIN Unawaited(x, P) = DOMAIN x
        /\ Unawaited(x, P).kind = x.kind /\ Unawaited(x, P).for = "none"
    BY <1>2, <2>1 DEF Shaped
  <2> QED BY <1>2, <2>2 DEF Shaped, IsPage, IsTree
<1> QED BY <1>1, <1>2

(* in a sequence,                                                         *)
LEMMA UnawaitedAllFacts ==
  ASSUME NEW s, IsSeq(s), NEW P
  PROVE  /\ IsSeq(UnawaitedAll(s, P)) /\ DOMAIN UnawaitedAll(s, P) = DOMAIN s
         /\ \A i \in DOMAIN s : UnawaitedAll(s, P)[i] = Unawaited(s[i], P)
         /\ \A x \in ToSet(s) : Unawaited(x, P) \in ToSet(UnawaitedAll(s, P))
         /\ \A y \in ToSet(UnawaitedAll(s, P)) : \E x \in ToSet(s) : y = Unawaited(x, P)
<1> DEFINE u == UnawaitedAll(s, P)
<1>1. DOMAIN s = 1..Len(s) /\ Len(s) \in Nat
  BY SeqFacts
<1>2. DOMAIN u = DOMAIN s /\ \A i \in DOMAIN s : u[i] = Unawaited(s[i], P)
  BY DEF UnawaitedAll
<1> HIDE DEF u
<1>3. \A i \in DOMAIN u : u[i] \in ToSet(u)
  BY DEF ToSet
<1>4. u \in [1..Len(s) -> ToSet(u)]
  <2>1. u = [i \in DOMAIN s |-> u[i]]
    BY <1>2 DEF u, UnawaitedAll
  <2> QED BY <1>1, <1>2, <1>3, <2>1
<1>5. IsSeq(u)
  BY <1>1, <1>4, SeqDef DEF IsSeq
<1>6. \A x \in ToSet(s) : Unawaited(x, P) \in ToSet(u)
  BY <1>2, <1>3, Zenon DEF ToSet
<1>7. \A y \in ToSet(u) : \E x \in ToSet(s) : y = Unawaited(x, P)
  BY <1>2, Zenon DEF ToSet
<1> QED BY <1>2, <1>5, <1>6, <1>7 DEF u

(* What is given up is silent, and the rest in the order it was in. *)
LEMMA UnawaitedOrder ==
  ASSUME NEW s, IsSeq(s), \A x \in ToSet(s) : Shaped(x), NEW P, NEW p, p # "none"
  PROVE  /\ p \in P => Silent(UnawaitedAll(s, P), p)
         /\ p \notin P => /\ HasTree(UnawaitedAll(s, P), p) <=> HasTree(s, p)
                          /\ OneTree(s, p) => OneTree(UnawaitedAll(s, P), p)
                          /\ Followed(s, p) => Followed(UnawaitedAll(s, P), p)
<1> DEFINE u == UnawaitedAll(s, P)
<1>1. DOMAIN u = DOMAIN s /\ \A i \in DOMAIN s : u[i] = Unawaited(s[i], P) /\ Shaped(s[i])
  BY UnawaitedAllFacts, SeqFacts
<1> HIDE DEF u
<1>2. \A i \in DOMAIN s : /\ IsPage(u[i], p) <=> IsPage(s[i], p) /\ p \notin P
                          /\ IsTree(u[i], p) <=> IsTree(s[i], p) /\ p \notin P
  BY <1>1, UnawaitedFacts
<1>3. ASSUME p \in P
      PROVE  Silent(u, p)
  BY <1>1, <1>2, <1>3 DEF Silent, Quiet
<1>4. ASSUME p \notin P
      PROVE  /\ HasTree(u, p) <=> HasTree(s, p)
             /\ OneTree(s, p) => OneTree(u, p)
             /\ Followed(s, p) => Followed(u, p)
  BY <1>1, <1>2, <1>4, Zenon DEF HasTree, OneTree, Followed
<1> QED BY <1>3, <1>4 DEF u

(* What Ask keeps: shapes, and a message of every kind.                   *)
LEMMA AskFacts ==
  ASSUME WireOK, NEW requests, NEW P, NEW rest, Ask(requests, P, rest),
         IsSeq(requests), \A x \in ToSet(requests) : Shaped(x),
         IsSeq(rest), ToSet(rest) \subseteq ToSet(toClient)
  PROVE  /\ WireOK'
         /\ \A x \in ToSet(toNode) \cup ToSet(rest) \cup ({answering} \ {NoAnswer}) :
               \E y \in OnWire' : y.kind = x.kind
         /\ ToSet(requests) \subseteq OnWire'
<1>1. /\ IsSeq(toNode) /\ IsSeq(toClient)
      /\ \A x \in ToSet(toNode) \cup ToSet(toClient) : Shaped(x)
      /\ Shaped(answering) /\ (answering = NoAnswer \/ answering.kind \in {"page", "older"})
  BY DEF WireOK
<1> DEFINE n == UnawaitedAll(toNode, P)
<1>2. /\ toNode' = n \o requests /\ toClient' = UnawaitedAll(rest, P)
      /\ answering' = Unawaited(answering, P)
  BY DEF Ask
<1>3. /\ IsSeq(n)
      /\ \A x \in ToSet(toNode) : Unawaited(x, P) \in ToSet(n)
      /\ \A y \in ToSet(n) : \E x \in ToSet(toNode) : y = Unawaited(x, P)
  BY <1>1, UnawaitedAllFacts
<1>4. /\ IsSeq(toClient')
      /\ \A x \in ToSet(rest) : Unawaited(x, P) \in ToSet(toClient')
      /\ \A y \in ToSet(toClient') : \E x \in ToSet(rest) : y = Unawaited(x, P)
  BY <1>2, UnawaitedAllFacts
<1> HIDE DEF n
<1>5. IsSeq(toNode') /\ ToSet(toNode') = ToSet(n) \cup ToSet(requests)
  BY <1>2, <1>3, Joined2
<1>6. \A x \in ToSet(toNode) \cup ToSet(toClient) \cup {answering} :
          Shaped(Unawaited(x, P)) /\ Unawaited(x, P).kind = x.kind
  BY <1>1, UnawaitedFacts
<1>7. WireOK'
  <2>1. \A x \in ToSet(toNode') : Shaped(x)
    BY <1>3, <1>5, <1>6
  <2>2. \A x \in ToSet(toClient') : Shaped(x)
    BY <1>4, <1>6
  <2>3. /\ Shaped(answering')
        /\ answering' = NoAnswer \/ answering'.kind \in {"page", "older"}
    <3>1. CASE answering = NoAnswer
      BY <1>2, <1>6, <3>1 DEF NoAnswer, Unawaited
    <3>2. CASE answering # NoAnswer
      BY <1>1, <1>2, <1>6, <3>2
    <3> QED BY <3>1, <3>2
  <2> QED BY <1>4, <1>5, <2>1, <2>2, <2>3 DEF WireOK
<1>8. ASSUME answering # NoAnswer
      PROVE  answering' # NoAnswer
  BY <1>1, <1>2, <1>6, <1>8, NoAnswerFacts
<1> QED BY <1>2, <1>3, <1>4, <1>5, <1>6, <1>7, <1>8 DEF OnWire

(* A purpose that is given up, and not asked for. *)
LEMMA AskSilences ==
  ASSUME WireOK, NEW requests, NEW P, NEW rest, Ask(requests, P, rest),
         IsSeq(requests), IsSeq(rest), ToSet(rest) \subseteq ToSet(toClient),
         NEW p \in P, p # "none", \A x \in ToSet(requests) : Quiet(x, p)
  PROVE  InOrder(toNode, answering, toClient, p)' /\ ~TreeOnWire(p)'
<1> DEFINE n == UnawaitedAll(toNode, P)
<1>1. /\ toNode' = n \o requests /\ toClient' = UnawaitedAll(rest, P)
      /\ answering' = Unawaited(answering, P)
  BY DEF Ask
<1>2. IsSeq(n) /\ Silent(n, p)
  BY UnawaitedAllFacts, UnawaitedOrder DEF WireOK
<1>3. Silent(toClient', p)
  BY <1>1, UnawaitedOrder DEF WireOK
<1>4. ~IsPage(answering', p)
  BY <1>1, UnawaitedFacts DEF WireOK
<1> HIDE DEF n
<1>5. Silent(toNode', p)
  BY <1>1, <1>2, QuietConcat
<1> QED BY <1>3, <1>4, <1>5, SilentFacts, Zenon DEF InOrder, TreeOnWire

(* A purpose that is given up, and asked for again. *)
LEMMA LoadFacts ==
  ASSUME NEW p, NEW s
  PROVE  /\ IsSeq(Load(p, s)) /\ \A x \in ToSet(Load(p, s)) : Shaped(x)
         /\ \A q : q # p => \A x \in ToSet(Load(p, s)) : Quiet(x, q)
         /\ Load(p, s)[1].kind = "page" /\ IsTree(Load(p, s)[2], p)
         /\ DOMAIN Load(p, s) = {1, 2} /\ Len(Load(p, s)) = 2
<1> DEFINE a == [kind |-> "page", for |-> p, session |-> s, cursor |-> None, rev |-> None]
           b == [kind |-> "tree", for |-> p, session |-> s]
<1>1. Load(p, s) = <<a, b>>
  BY DEF Load
<1>2. Shaped(a) /\ Shaped(b) /\ a.kind = "page" /\ IsTree(b, p)
  BY DEF Shaped, IsTree
<1>3. \A q : q # p => Quiet(a, q) /\ Quiet(b, q)
  BY DEF Quiet, IsPage, IsTree
<1> HIDE DEF a, b
<1>4. IsSeq(<<a, b>>) /\ ToSet(<<a, b>>) = {a, b}
  BY TupleFacts
<1>5. /\ DOMAIN <<a, b>> = {1, 2} /\ Len(<<a, b>>) = 2
      /\ <<a, b>>[1] = a /\ <<a, b>>[2] = b
  BY SMT
<1> QED BY <1>1, <1>2, <1>3, <1>4, <1>5

(* A load that is asked for anew is in order and has its tree.            *)
LEMMA AskLoads ==
  ASSUME WireOK, NEW P, NEW rest, NEW s, NEW p \in P, p # "none", Ask(Load(p, s), P, rest),
         IsSeq(rest), ToSet(rest) \subseteq ToSet(toClient)
  PROVE  InOrder(toNode, answering, toClient, p)' /\ TreeOnWire(p)'
<1> DEFINE n == UnawaitedAll(toNode, P)
           l == Load(p, s)
<1>1. /\ toNode' = n \o l /\ toClient' = UnawaitedAll(rest, P)
      /\ answering' = Unawaited(answering, P)
  BY DEF Ask
<1>2. IsSeq(n) /\ Silent(n, p)
  BY UnawaitedAllFacts, UnawaitedOrder DEF WireOK
<1>3. Silent(toClient', p)
  BY <1>1, UnawaitedOrder DEF WireOK
<1>4. ~IsPage(answering', p)
  BY <1>1, UnawaitedFacts DEF WireOK
<1>5. IsSeq(l) /\ l[1].kind = "page" /\ IsTree(l[2], p) /\ DOMAIN l = {1, 2} /\ Len(l) = 2
  BY LoadFacts
<1> HIDE DEF n, l
<1>6. /\ Len(n) \in Nat /\ DOMAIN n = 1..Len(n)
      /\ DOMAIN toNode' = 1..(Len(n) + 2)
      /\ \A i \in DOMAIN n : toNode'[i] = n[i]
      /\ \A i \in {1, 2} : toNode'[Len(n) + i] = l[i]
  <2>1. Len(n) \in Nat /\ DOMAIN n = 1..Len(n)
    BY <1>2, SeqFacts
  <2>2. DOMAIN toNode' = 1..(Len(n) + 2)
    BY <1>1, <1>2, <1>5, ConcatFacts, ZenonT(60)
  <2>3. \A i \in DOMAIN n : toNode'[i] = n[i]
    BY <1>1, <1>2, <1>5, ConcatFacts
  <2>4. \A i \in {1, 2} : toNode'[Len(n) + i] = l[i]
    BY <1>1, <1>2, <1>5, ConcatFacts
  <2> QED BY <2>1, <2>2, <2>3, <2>4
<1>7. /\ Len(n) + 2 \in DOMAIN toNode' /\ IsTree(toNode'[Len(n) + 2], p)
      /\ ~IsTree(toNode'[Len(n) + 1], p) /\ ~IsPage(toNode'[Len(n) + 2], p)
      /\ \A i \in 1..Len(n) : ~IsTree(toNode'[i], p) /\ ~IsPage(toNode'[i], p)
  BY <1>2, <1>5, <1>6 DEF Silent, Quiet, IsTree, IsPage
<1>8. HasTree(toNode', p)
  BY <1>7, Zenon DEF HasTree
<1>9. \A i \in DOMAIN toNode' : IsTree(toNode'[i], p) => i = Len(n) + 2
  BY <1>6, <1>7
<1>10. OneTree(toNode', p)
  BY <1>9, Zenon DEF OneTree
<1>11. \A i \in DOMAIN toNode' : IsPage(toNode'[i], p) => Len(n) + 2 > i
  BY <1>6, <1>7
<1>12. Followed(toNode', p)
  BY <1>7, <1>11, Zenon DEF Followed
<1> QED BY <1>3, <1>4, <1>8, <1>10, <1>12, SilentFacts, Zenon DEF InOrder, TreeOnWire

(* A purpose that is neither. *)
LEMMA AskKeeps ==
  ASSUME WireOK, NEW requests, NEW P, NEW rest, Ask(requests, P, rest),
         IsSeq(requests), IsSeq(rest), ToSet(rest) \subseteq ToSet(toClient),
         NEW p, p \notin P, p # "none", \A x \in ToSet(requests) : Quiet(x, p)
  PROVE  /\ InOrder(toNode, answering, rest, p) => InOrder(toNode, answering, toClient, p)'
         /\ TreeOnWire(p)' <=> HasTree(toNode, p) \/ HasTree(rest, p)
<1> DEFINE n == UnawaitedAll(toNode, P)
           AsBefore(s, u) == /\ HasTree(u, p) <=> HasTree(s, p)
                             /\ OneTree(s, p) => OneTree(u, p)
                             /\ Followed(s, p) => Followed(u, p)
<1>1. /\ toNode' = n \o requests /\ toClient' = UnawaitedAll(rest, P)
      /\ answering' = Unawaited(answering, P)
  BY DEF Ask
<1>2. IsSeq(n) /\ AsBefore(toNode, n)
  BY UnawaitedAllFacts, UnawaitedOrder DEF WireOK
<1>3. AsBefore(rest, toClient')
  BY <1>1, UnawaitedOrder DEF WireOK
<1>4. IsPage(answering', p) <=> IsPage(answering, p)
  BY <1>1, UnawaitedFacts DEF WireOK
<1> HIDE DEF n
<1>5. AsBefore(n, toNode')
  BY <1>1, <1>2, QuietConcat
<1> QED BY <1>2, <1>3, <1>4, <1>5, Zenon DEF InOrder, TreeOnWire

-----------------------------------------------------------------------------
(* What the view waits for.  A load's tree is on the wire exactly while it *)
(* is awaited; so is a page's, which comes before its tree.                *)

ViewFields ==
    {"session", "entries", "cursor", "rev", "tree", "running", "sending", "loading", "listening",
     "watched", "last", "load", "mutation", "older", "inFlight", "submission", "used", "asks",
     "chosen", "missed", "lost"}

ViewShape ==
    /\ DOMAIN view = ViewFields
    /\ DOMAIN view.load = {"kind", "page"} /\ DOMAIN view.mutation = {"phase", "page", "left"}

LoadAwaited ==
    /\ view.load.kind \in Loads \cup {"none"}
    /\ view.load.kind = "none" => view.load = NoLoad
    /\ \A p \in Loads : /\ InOrder(toNode, answering, toClient, p)
                        /\ TreeOnWire(p) <=> view.load.kind = p
    /\ view.load.kind = "select" => ~view.listening
    /\ view.loading => view.load.kind # "none" \/ view.mutation.phase # "none" \/ view.lost

ChangeAwaited ==
    /\ view.mutation.phase = "loading" => TreeOnWire("mutation")
    /\ view.mutation.phase = "asked" => ChangeOnWire

OlderAwaited == view.older # "none" => OlderOnWire

AwaitInv == WireOK /\ ViewShape /\ LoadAwaited /\ ChangeAwaited /\ OlderAwaited

(* The Node's steps keep the invariant.                                   *)
LEMMA NodeKeepsAwaitInv ==
  ASSUME AwaitInv, NodeNext, UNCHANGED view
  PROVE  AwaitInv'
<1>1. NodeMoves
  BY AgentMoves, ServeMoves DEF NodeNext, AwaitInv
<1>2. WireOK'
  BY <1>1, MovesKeepWire DEF AwaitInv
<1>3. (OlderOnWire => OlderOnWire') /\ (ChangeOnWire => ChangeOnWire')
  BY <1>1, MovesKeepAwaited DEF AwaitInv
<1>4. \A p : /\ InOrder(toNode, answering, toClient, p) => InOrder(toNode, answering, toClient, p)'
             /\ TreeOnWire(p)' <=> TreeOnWire(p)
  BY <1>1, MovesKeepOrder DEF AwaitInv
<1>5. view' = view
  OBVIOUS
<1>6. LoadAwaited'
  <2>1. /\ view'.load.kind \in Loads \cup {"none"}
        /\ view'.load.kind = "none" => view'.load = NoLoad
        /\ view'.load.kind = "select" => ~view'.listening
        /\ view'.loading => view'.load.kind # "none" \/ view'.mutation.phase # "none" \/ view'.lost
    BY <1>5, Zenon DEF AwaitInv, LoadAwaited
  <2>2. \A p \in Loads : /\ InOrder(toNode, answering, toClient, p)'
                         /\ TreeOnWire(p)' <=> view'.load.kind = p
    BY <1>4, <1>5, Zenon DEF AwaitInv, LoadAwaited
  <2> QED BY <2>1, <2>2, Zenon DEF LoadAwaited
<1>7. ViewShape' /\ ChangeAwaited' /\ OlderAwaited'
  BY <1>3, <1>4, <1>5, Zenon DEF AwaitInv, ViewShape, ChangeAwaited, OlderAwaited
<1> QED BY <1>2, <1>6, <1>7 DEF AwaitInv

(* What is left when the first message has arrived. *)
LEMMA ArrivalFacts ==
  ASSUME WireOK, toClient # <<>>
  PROVE  /\ IsSeq(Tail(toClient)) /\ ToSet(Tail(toClient)) \subseteq ToSet(toClient)
         /\ ToSet(toClient) = {Head(toClient)} \cup ToSet(Tail(toClient))
         /\ Rest(toClient, Tail(toClient)) /\ Shaped(Head(toClient))
<1>1. Rest(toClient, Tail(toClient))
  BY DEF Rest
<1>2. IsSeq(toClient) /\ \A x \in ToSet(toClient) : Shaped(x)
  BY DEF WireOK
<1>3. /\ IsSeq(Tail(toClient))
      /\ ToSet(toClient) = {Head(toClient)} \cup ToSet(Tail(toClient))
  BY <1>1, <1>2, Shortened
<1> QED BY <1>1, <1>2, <1>3

(* The order of a load when the first message has arrived.                *)
LEMMA ArrivalOrder ==
  ASSUME WireOK, toClient # <<>>, NEW p
  PROVE  /\ ~IsTree(Head(toClient), p) =>
              /\ InOrder(toNode, answering, toClient, p) =>
                     InOrder(toNode, answering, Tail(toClient), p)
              /\ HasTree(toNode, p) \/ HasTree(Tail(toClient), p) <=> TreeOnWire(p)
         /\ IsTree(Head(toClient), p) => TreeOnWire(p)
         /\ IsTree(Head(toClient), p) /\ InOrder(toNode, answering, toClient, p) =>
              /\ InOrder(toNode, answering, Tail(toClient), p)
              /\ ~HasTree(toNode, p) /\ ~HasTree(Tail(toClient), p)
         /\ IsPage(Head(toClient), p) /\ InOrder(toNode, answering, toClient, p) => TreeOnWire(p)
<1> DEFINE rest == Tail(toClient)
<1>1. IsSeq(toClient) /\ Rest(toClient, rest)
  BY ArrivalFacts DEF WireOK
<1>2. 1 \in DOMAIN toClient /\ Head(toClient) = toClient[1]
  BY <1>1, TailFacts DEF Rest
<1> HIDE DEF rest
<1>3. ASSUME ~IsTree(Head(toClient), p)
      PROVE  /\ InOrder(toNode, answering, toClient, p) => InOrder(toNode, answering, rest, p)
             /\ HasTree(toNode, p) \/ HasTree(rest, p) <=> TreeOnWire(p)
  <2>1. /\ HasTree(rest, p) <=> HasTree(toClient, p)
        /\ OneTree(toClient, p) => OneTree(rest, p)
        /\ Followed(toClient, p) => Followed(rest, p)
    BY <1>1, <1>3, OrderOfTail
  <2> QED BY <2>1, Zenon DEF InOrder, TreeOnWire
<1>4. ASSUME IsTree(Head(toClient), p)
      PROVE  HasTree(toClient, p)
  BY <1>2, <1>4, Zenon DEF HasTree
<1>5. ASSUME IsTree(Head(toClient), p), InOrder(toNode, answering, toClient, p)
      PROVE  InOrder(toNode, answering, rest, p) /\ ~HasTree(toNode, p) /\ ~HasTree(rest, p)
  <2>1. ~HasTree(toNode, p)
    BY <1>4, <1>5, Zenon DEF InOrder
  <2>2. OneTree(toClient, p) /\ Followed(toClient, p)
    BY <1>5, <2>1, Zenon DEF InOrder
  <2>3. Silent(rest, p)
    BY <1>1, <1>5, <2>2, TreeIsLast
  <2> QED BY <1>5, <2>1, <2>3, SilentFacts, Zenon DEF InOrder
<1>6. ASSUME IsPage(Head(toClient), p), InOrder(toNode, answering, toClient, p)
      PROVE  TreeOnWire(p)
  BY <1>2, <1>6, Zenon DEF InOrder, TreeOnWire, HasTree, Followed
<1> QED BY <1>3, <1>4, <1>5, <1>6 DEF rest, TreeOnWire

(* A message arrives, and nothing is asked for. *)
LEMMA NothingKeeps ==
  ASSUME WireOK, toClient # <<>>, Nothing
  PROVE  /\ WireOK'
         /\ \A p : p # "none" =>
               /\ ~IsTree(Head(toClient), p) =>
                     /\ InOrder(toNode, answering, toClient, p) =>
                           InOrder(toNode, answering, toClient, p)'
                     /\ TreeOnWire(p)' <=> TreeOnWire(p)
               /\ IsTree(Head(toClient), p) /\ InOrder(toNode, answering, toClient, p) =>
                     InOrder(toNode, answering, toClient, p)' /\ ~TreeOnWire(p)'
         /\ Head(toClient).kind # "older" /\ OlderOnWire => OlderOnWire'
         /\ Head(toClient).kind \notin Mutations \cup {"mutated"} /\ ChangeOnWire => ChangeOnWire'
<1> DEFINE rest == Tail(toClient)
<1>1. /\ IsSeq(rest) /\ ToSet(rest) \subseteq ToSet(toClient)
      /\ ToSet(toClient) = {Head(toClient)} \cup ToSet(rest)
  BY ArrivalFacts
<1>2. IsSeq(<<>>) /\ ToSet(<<>>) = {}
  BY TupleFacts
<1>3. Ask(<<>>, {}, rest)
  BY DEF Nothing
<1> HIDE DEF rest
<1>4. /\ WireOK'
      /\ \A x \in ToSet(toNode) \cup ToSet(rest) \cup ({answering} \ {NoAnswer}) :
            \E y \in OnWire' : y.kind = x.kind
  BY <1>1, <1>2, <1>3, AskFacts
<1>5. \A x \in OnWire : x = Head(toClient) \/ \E y \in OnWire' : y.kind = x.kind
  BY <1>1, <1>4 DEF OnWire
<1>6. ASSUME NEW p, p # "none"
      PROVE  /\ InOrder(toNode, answering, rest, p) => InOrder(toNode, answering, toClient, p)'
             /\ TreeOnWire(p)' <=> HasTree(toNode, p) \/ HasTree(rest, p)
  BY <1>1, <1>2, <1>3, <1>6, AskKeeps
<1>7. ASSUME NEW p, p # "none"
      PROVE  /\ ~IsTree(Head(toClient), p) =>
                   /\ InOrder(toNode, answering, toClient, p) =>
                         InOrder(toNode, answering, toClient, p)'
                   /\ TreeOnWire(p)' <=> TreeOnWire(p)
             /\ IsTree(Head(toClient), p) /\ InOrder(toNode, answering, toClient, p) =>
                   InOrder(toNode, answering, toClient, p)' /\ ~TreeOnWire(p)'
  <2>1. /\ ~IsTree(Head(toClient), p) =>
             /\ InOrder(toNode, answering, toClient, p) => InOrder(toNode, answering, rest, p)
             /\ HasTree(toNode, p) \/ HasTree(rest, p) <=> TreeOnWire(p)
        /\ IsTree(Head(toClient), p) /\ InOrder(toNode, answering, toClient, p) =>
             /\ InOrder(toNode, answering, rest, p)
             /\ ~HasTree(toNode, p) /\ ~HasTree(rest, p)
    BY ArrivalOrder DEF rest
  <2> QED BY <1>6, <1>7, <2>1, Zenon
<1>8. Head(toClient).kind # "older" /\ OlderOnWire => OlderOnWire'
  BY <1>5, Zenon DEF OlderOnWire
<1>9. Head(toClient).kind \notin Mutations \cup {"mutated"} /\ ChangeOnWire => ChangeOnWire'
  BY <1>5, Zenon DEF ChangeOnWire
<1> QED BY <1>4, <1>7, <1>8, <1>9

(* Ask when nothing arrives.                                              *)
LEMMA AskAll ==
  ASSUME WireOK, NEW requests, NEW P, Ask(requests, P, toClient),
         IsSeq(requests), \A x \in ToSet(requests) : Shaped(x)
  PROVE  /\ WireOK' /\ ToSet(requests) \subseteq OnWire'
         /\ OlderOnWire => OlderOnWire'
         /\ ChangeOnWire => ChangeOnWire'
         /\ \A p : p # "none" /\ (\A x \in ToSet(requests) : Quiet(x, p)) =>
               /\ p \in P => InOrder(toNode, answering, toClient, p)' /\ ~TreeOnWire(p)'
               /\ p \notin P =>
                     /\ InOrder(toNode, answering, toClient, p) =>
                           InOrder(toNode, answering, toClient, p)'
                     /\ TreeOnWire(p)' <=> TreeOnWire(p)
<1>1. IsSeq(toClient) /\ ToSet(toClient) \subseteq ToSet(toClient)
  BY DEF WireOK
<1>2. /\ WireOK' /\ ToSet(requests) \subseteq OnWire'
      /\ \A x \in ToSet(toNode) \cup ToSet(toClient) \cup ({answering} \ {NoAnswer}) :
            \E y \in OnWire' : y.kind = x.kind
  BY <1>1, AskFacts
<1>3. \A x \in OnWire : \E y \in OnWire' : y.kind = x.kind
  BY <1>2 DEF OnWire
<1>4. (OlderOnWire => OlderOnWire') /\ (ChangeOnWire => ChangeOnWire')
  BY <1>3, Zenon DEF OlderOnWire, ChangeOnWire
<1>5. ASSUME NEW p, p # "none", \A x \in ToSet(requests) : Quiet(x, p)
      PROVE  /\ p \in P => InOrder(toNode, answering, toClient, p)' /\ ~TreeOnWire(p)'
             /\ p \notin P =>
                   /\ InOrder(toNode, answering, toClient, p) =>
                         InOrder(toNode, answering, toClient, p)'
                   /\ TreeOnWire(p)' <=> TreeOnWire(p)
  <2>1. ASSUME p \in P
        PROVE  InOrder(toNode, answering, toClient, p)' /\ ~TreeOnWire(p)'
    BY <1>1, <1>5, <2>1, AskSilences
  <2>2. ASSUME p \notin P
        PROVE  /\ InOrder(toNode, answering, toClient, p) =>
                     InOrder(toNode, answering, toClient, p)'
               /\ TreeOnWire(p)' <=> HasTree(toNode, p) \/ HasTree(toClient, p)
    BY <1>1, <1>5, <2>2, AskKeeps
  <2> QED BY <2>1, <2>2, Zenon DEF TreeOnWire
<1> QED BY <1>2, <1>4, <1>5

(* The purposes differ.                                                   *)
LEMMA LoadNames == "select" # "none" /\ "refresh" # "none" /\ "mutation" # "none"
                   /\ "select" # "refresh" /\ "mutation" \notin Loads
  BY DEF Loads

(* The steps of the user.                                                 *)
LEMMA SelectKeeps ==
  ASSUME AwaitInv, NEW s, Select(s)
  PROVE  AwaitInv'
<1> DEFINE P == {"select", "refresh", "older"}
           requests == Load("select", s)
<1>1. Ask(requests, P, toClient)
  BY DEF Select
<1>2. /\ IsSeq(requests) /\ \A x \in ToSet(requests) : Shaped(x)
      /\ \A q : q # "select" => \A x \in ToSet(requests) : Quiet(x, q)
  BY LoadFacts
<1>3. WireOK /\ IsSeq(toClient) /\ ToSet(toClient) \subseteq ToSet(toClient)
  BY DEF AwaitInv, WireOK
<1>4. InOrder(toNode, answering, toClient, "select")' /\ TreeOnWire("select")'
  BY <1>1, <1>3, AskLoads
<1> HIDE DEF requests
<1>5. /\ WireOK'
      /\ OlderOnWire => OlderOnWire'
      /\ ChangeOnWire => ChangeOnWire'
  BY <1>1, <1>2, <1>3, AskAll
<1>6. InOrder(toNode, answering, toClient, "refresh")' /\ ~TreeOnWire("refresh")'
  BY <1>1, <1>2, <1>3, AskAll
<1>7. TreeOnWire("mutation")' <=> TreeOnWire("mutation")
  BY <1>1, <1>2, <1>3, AskAll
<1>8. /\ DOMAIN view' = ViewFields
      /\ DOMAIN view'.load = {"kind", "page"} /\ DOMAIN view'.mutation = {"phase", "page", "left"}
      /\ view'.load.kind = "select" /\ ~view'.listening
      /\ view'.mutation.phase = view.mutation.phase
      /\ view'.older # "none" => view.older # "none"
  BY ZenonT(60) DEF Select, Stale, AwaitInv, ViewShape, ViewFields
<1>9. LoadAwaited'
  BY <1>4, <1>6, <1>8 DEF LoadAwaited, Loads
<1>10. ViewShape' /\ ChangeAwaited' /\ OlderAwaited'
  BY <1>5, <1>7, <1>8 DEF AwaitInv, ViewShape, ChangeAwaited, OlderAwaited
<1> QED BY <1>5, <1>9, <1>10 DEF AwaitInv

LEMMA RefreshListKeeps ==
  ASSUME AwaitInv, RefreshList
  PROVE  AwaitInv'
<1>1. Ask(<<>>, {"refresh"}, toClient) /\ view.load.kind = "refresh" /\ WireOK
  BY DEF RefreshList, AwaitInv
<1>2. IsSeq(<<>>) /\ ToSet(<<>>) = {}
  BY TupleFacts
<1>3. /\ WireOK'
      /\ OlderOnWire => OlderOnWire'
      /\ ChangeOnWire => ChangeOnWire'
  BY <1>1, <1>2, AskAll
<1>4. InOrder(toNode, answering, toClient, "refresh")' /\ ~TreeOnWire("refresh")'
  BY <1>1, <1>2, AskAll
<1>5. /\ InOrder(toNode, answering, toClient, "select") =>
            InOrder(toNode, answering, toClient, "select")'
      /\ TreeOnWire("select")' <=> TreeOnWire("select")
      /\ TreeOnWire("mutation")' <=> TreeOnWire("mutation")
  BY <1>1, <1>2, AskAll
<1>6. /\ DOMAIN view' = ViewFields
      /\ DOMAIN view'.load = {"kind", "page"} /\ DOMAIN view'.mutation = {"phase", "page", "left"}
      /\ view'.load = NoLoad /\ view'.lost /\ view'.mutation = view.mutation
      /\ view'.older = view.older
  BY DEF RefreshList, AwaitInv, ViewShape, ViewFields, NoLoad
<1>7. LoadAwaited'
  BY <1>1, <1>4, <1>5, <1>6 DEF AwaitInv, LoadAwaited, Loads, NoLoad
<1>8. ViewShape' /\ ChangeAwaited' /\ OlderAwaited'
  BY <1>3, <1>5, <1>6 DEF AwaitInv, ViewShape, ChangeAwaited, OlderAwaited
<1> QED BY <1>3, <1>7, <1>8 DEF AwaitInv

LEMMA RequestOlderKeeps ==
  ASSUME AwaitInv, RequestOlder
  PROVE  AwaitInv'
<1> DEFINE r == [kind |-> "older", for |-> "older", session |-> view.session,
                 cursor |-> view.cursor, rev |-> view.rev]
<1>1. Ask(<<r>>, {}, toClient) /\ WireOK
  BY DEF RequestOlder, AwaitInv
<1>2. Shaped(r) /\ r.kind = "older" /\ \A p : Quiet(r, p)
  BY DEF Shaped, Quiet, IsPage, IsTree
<1> HIDE DEF r
<1>3. IsSeq(<<r>>) /\ ToSet(<<r>>) = {r}
  BY TupleFacts
<1>4. WireOK' /\ r \in OnWire' /\ (ChangeOnWire => ChangeOnWire')
  BY <1>1, <1>2, <1>3, AskAll
<1>5. \A p \in {"select", "refresh", "mutation"} :
         /\ InOrder(toNode, answering, toClient, p) => InOrder(toNode, answering, toClient, p)'
         /\ TreeOnWire(p)' <=> TreeOnWire(p)
  BY <1>1, <1>2, <1>3, AskAll
<1>6. /\ DOMAIN view' = ViewFields
      /\ view'.load = view.load /\ view'.lost = view.lost /\ view'.mutation = view.mutation
      /\ view'.listening = view.listening /\ view'.loading = view.loading
  BY DEF RequestOlder, AwaitInv, ViewShape, ViewFields
<1>7. LoadAwaited'
  BY <1>5, <1>6 DEF AwaitInv, LoadAwaited, Loads
<1>8. OlderOnWire'
  BY <1>2, <1>4 DEF OlderOnWire
<1>9. ViewShape' /\ ChangeAwaited' /\ OlderAwaited'
  BY <1>4, <1>5, <1>6, <1>8 DEF AwaitInv, ViewShape, ChangeAwaited, OlderAwaited
<1> QED BY <1>4, <1>7, <1>9 DEF AwaitInv

LEMMA StartMutationKeeps ==
  ASSUME AwaitInv, StartMutation
  PROVE  AwaitInv'
<1> DEFINE P == {"select", "refresh", "older"}
<1>1. PICK kind \in Mutations, i \in 1..view.tree.count :
         Ask(<<[kind |-> kind, entry |-> i, rev |-> view.tree]>>, P, toClient)
  BY Zenon DEF StartMutation
<1> DEFINE r == [kind |-> kind, entry |-> i, rev |-> view.tree]
<1>2. Shaped(r) /\ r.kind \in Mutations /\ \A p : Quiet(r, p)
  BY WorkspaceAssumption DEF WorkspaceAssumption, Shaped, Quiet, IsPage, IsTree
<1>3. Ask(<<r>>, P, toClient) /\ WireOK
  BY <1>1 DEF AwaitInv
<1> HIDE DEF r
<1>4. IsSeq(<<r>>) /\ ToSet(<<r>>) = {r}
  BY TupleFacts
<1>5. WireOK' /\ r \in OnWire' /\ (OlderOnWire => OlderOnWire')
  BY <1>2, <1>3, <1>4, AskAll
<1>6. \A p \in Loads : InOrder(toNode, answering, toClient, p)' /\ ~TreeOnWire(p)'
  BY <1>2, <1>3, <1>4, AskAll DEF Loads
<1>7. /\ DOMAIN view' = ViewFields
      /\ DOMAIN view'.load = {"kind", "page"} /\ DOMAIN view'.mutation = {"phase", "page", "left"}
      /\ view'.load = NoLoad /\ view'.mutation.phase = "asked"
      /\ view'.older # "none" => view.older # "none"
  BY DEF StartMutation, Stale, AwaitInv, ViewShape, ViewFields, NoLoad, NoMutation
<1>8. LoadAwaited'
  BY <1>6, <1>7 DEF LoadAwaited, Loads, NoLoad
<1>9. ChangeOnWire'
  BY <1>2, <1>5 DEF ChangeOnWire
<1>10. ViewShape' /\ ChangeAwaited' /\ OlderAwaited'
  BY <1>5, <1>7, <1>9 DEF AwaitInv, ViewShape, ChangeAwaited, OlderAwaited
<1> QED BY <1>5, <1>8, <1>10 DEF AwaitInv

LEMMA SubmitKeeps ==
  ASSUME AwaitInv, NEW c, Submit(c)
  PROVE  AwaitInv'
<1> DEFINE r == [kind |-> "prompt", cmd |-> c]
<1>1. Ask(<<r>>, {}, toClient) /\ WireOK
  BY DEF Submit, AwaitInv
<1>2. Shaped(r) /\ \A p : Quiet(r, p)
  BY DEF Shaped, Quiet, IsPage, IsTree
<1> HIDE DEF r
<1>3. IsSeq(<<r>>) /\ ToSet(<<r>>) = {r}
  BY TupleFacts
<1>4. WireOK' /\ (ChangeOnWire => ChangeOnWire') /\ (OlderOnWire => OlderOnWire')
  BY <1>1, <1>2, <1>3, AskAll
<1>5. \A p \in {"select", "refresh", "mutation"} :
         /\ InOrder(toNode, answering, toClient, p) => InOrder(toNode, answering, toClient, p)'
         /\ TreeOnWire(p)' <=> TreeOnWire(p)
  BY <1>1, <1>2, <1>3, AskAll
<1>6. /\ DOMAIN view' = ViewFields
      /\ view'.load = view.load /\ view'.lost = view.lost /\ view'.mutation = view.mutation
      /\ view'.listening = view.listening /\ view'.loading = view.loading
      /\ view'.older = view.older
  BY DEF Submit, AwaitInv, ViewShape, ViewFields
<1>7. LoadAwaited'
  BY <1>5, <1>6 DEF AwaitInv, LoadAwaited, Loads
<1>8. ViewShape' /\ ChangeAwaited' /\ OlderAwaited'
  BY <1>4, <1>5, <1>6 DEF AwaitInv, ViewShape, ChangeAwaited, OlderAwaited
<1> QED BY <1>4, <1>7, <1>8 DEF AwaitInv

(* A message that ends nothing the view waits for, and asks for nothing.   *)
LEMMA QuietArrivalKeeps ==
  ASSUME AwaitInv, toClient # <<>>, Nothing, NEW gone \in {"older", "other"},
         Head(toClient).kind \notin Mutations \cup {"mutated", "tree"},
         Head(toClient).kind # "older" \/ gone = "older",
         DOMAIN view' = ViewFields,
         DOMAIN view'.load = {"kind", "page"}, DOMAIN view'.mutation = {"phase", "page", "left"},
         view'.load.kind = view.load.kind, view.load.kind = "none" => view'.load = view.load,
         view'.mutation.phase = view.mutation.phase,
         view'.listening = view.listening, view'.loading = view.loading, view'.lost = view.lost,
         view'.older = IF gone = "older" THEN "none" ELSE view.older
  PROVE  AwaitInv'
<1>1. WireOK
  BY DEF AwaitInv
<1>2. \A p : ~IsTree(Head(toClient), p)
  BY DEF IsTree
<1>3. /\ WireOK'
      /\ \A p : p # "none" =>
            /\ InOrder(toNode, answering, toClient, p) => InOrder(toNode, answering, toClient, p)'
            /\ TreeOnWire(p)' <=> TreeOnWire(p)
  BY <1>1, <1>2, NothingKeeps
<1>4. Head(toClient).kind # "older" /\ OlderOnWire => OlderOnWire'
  BY <1>1, NothingKeeps
<1>5. ChangeOnWire => ChangeOnWire'
  BY <1>1, NothingKeeps
<1>6. LoadAwaited'
  <2>1. /\ view'.load.kind \in Loads \cup {"none"}
        /\ view'.load.kind = "none" => view'.load = NoLoad
        /\ view'.load.kind = "select" => ~view'.listening
        /\ view'.loading => view'.load.kind # "none" \/ view'.mutation.phase # "none" \/ view'.lost
    BY DEF AwaitInv, LoadAwaited
  <2>2. \A p \in Loads : /\ InOrder(toNode, answering, toClient, p)'
                         /\ TreeOnWire(p)' <=> view'.load.kind = p
    BY <1>3, LoadNames DEF AwaitInv, LoadAwaited, Loads
  <2> QED BY <2>1, <2>2, Zenon DEF LoadAwaited
<1>7. ViewShape' /\ ChangeAwaited' /\ OlderAwaited'
  BY <1>3, <1>4, <1>5, LoadNames DEF AwaitInv, ViewShape, ChangeAwaited, OlderAwaited
<1> QED BY <1>3, <1>6, <1>7 DEF AwaitInv

(* A page of a load is one of the load that is awaited. *)
LEMMA PageIsAwaited ==
  ASSUME AwaitInv, toClient # <<>>, Head(toClient).kind = "page", Head(toClient).for \in Loads
  PROVE  view.load.kind = Head(toClient).for
<1> DEFINE p == Head(toClient).for
<1>1. IsPage(Head(toClient), p) /\ p \in Loads
  BY DEF IsPage
<1>2. TreeOnWire(p)
  BY <1>1, ArrivalOrder DEF AwaitInv, LoadAwaited
<1> QED BY <1>1, <1>2 DEF AwaitInv, LoadAwaited

(* Accepting a page changes only the sequence.                            *)
LEMMA AcceptedFacts ==
  ASSUME NEW v, DOMAIN v = ViewFields, NEW page
  PROVE  /\ DOMAIN Accepted(v, page) = ViewFields
         /\ \A f \in ViewFields \ {"last"} : Accepted(v, page)[f] = v[f]
BY DEF Accepted, ViewFields

(* The messages that arrive.                                              *)
LEMMA PageKeeps ==
  ASSUME AwaitInv, PageArrives
  PROVE  AwaitInv'
<1> DEFINE page == Head(toClient)
           v == Accepted(view, page)
<1>1. toClient # <<>> /\ page.kind = "page" /\ Nothing
  BY DEF PageArrives, Arrives
<1>2. /\ DOMAIN v = ViewFields /\ v.load = view.load /\ v.mutation = view.mutation
      /\ v.listening = view.listening /\ v.loading = view.loading /\ v.lost = view.lost
      /\ v.older = view.older
  BY AcceptedFacts DEF AwaitInv, ViewShape, ViewFields
<1>3. page.for \in Loads => view.load.kind = page.for
  BY <1>1, PageIsAwaited
<1>4. /\ page.for \in Loads => view' = [v EXCEPT !.load.page = page]
      /\ page.for = "mutation" => view' = [v EXCEPT !.mutation.page = page]
      /\ page.for \notin Loads \cup {"mutation"} => view' = v
  BY DEF PageArrives, Loads
<1> HIDE DEF v, page
<1>5. /\ DOMAIN view' = ViewFields
      /\ DOMAIN view'.load = {"kind", "page"} /\ DOMAIN view'.mutation = {"phase", "page", "left"}
      /\ view'.load.kind = view.load.kind /\ view'.mutation.phase = view.mutation.phase
      /\ view'.listening = view.listening /\ view'.loading = view.loading
      /\ view'.lost = view.lost /\ view'.older = view.older
      /\ page.for \notin Loads => view'.load = view.load
  BY <1>2, <1>4, LoadNames DEF AwaitInv, ViewShape, ViewFields
<1>6. view.load.kind = "none" => view'.load = view.load
  BY <1>3, <1>5, LoadNames DEF Loads
<1>7. page.kind \notin Mutations \cup {"mutated", "tree", "older"}
  BY <1>1, WorkspaceAssumption DEF WorkspaceAssumption
<1> QED BY <1>1, <1>5, <1>6, <1>7, QuietArrivalKeeps DEF page

LEMMA OlderKeeps ==
  ASSUME AwaitInv, OlderArrives
  PROVE  AwaitInv'
<1> DEFINE page == Head(toClient)
           v == [Accepted(view, page) EXCEPT !.older = "none"]
<1>1. toClient # <<>> /\ page.kind = "older" /\ Nothing
  BY DEF OlderArrives, Arrives
<1>2. /\ DOMAIN v = ViewFields /\ v.load = view.load /\ v.mutation = view.mutation
      /\ v.listening = view.listening /\ v.loading = view.loading /\ v.lost = view.lost
      /\ v.older = "none"
  BY AcceptedFacts DEF AwaitInv, ViewShape, ViewFields
<1>3. \/ view' = v
      \/ view' = [v EXCEPT !.entries = Prepend(@, page), !.cursor = page.cursor,
                           !.rev = page.rev, !.running = page.running]
  BY DEF OlderArrives
<1> HIDE DEF v, page
<1>4. /\ DOMAIN view' = ViewFields /\ view'.load = view.load /\ view'.mutation = view.mutation
      /\ view'.listening = view.listening /\ view'.loading = view.loading
      /\ view'.lost = view.lost /\ view'.older = "none"
  BY <1>2, <1>3 DEF ViewFields
<1>5. page.kind \notin Mutations \cup {"mutated", "tree"}
  BY <1>1, WorkspaceAssumption DEF WorkspaceAssumption
<1> QED BY <1>1, <1>4, <1>5, QuietArrivalKeeps DEF page, AwaitInv, ViewShape

LEMMA AdmissionKeeps ==
  ASSUME AwaitInv, AdmissionArrives
  PROVE  AwaitInv'
<1>1. toClient # <<>> /\ Head(toClient).kind = "prompt" /\ Nothing
  BY DEF AdmissionArrives, Arrives
<1>2. /\ DOMAIN view' = ViewFields /\ view'.load = view.load /\ view'.mutation = view.mutation
      /\ view'.listening = view.listening /\ view'.loading = view.loading
      /\ view'.lost = view.lost /\ view'.older = view.older
  BY DEF AdmissionArrives, AwaitInv, ViewShape, ViewFields
<1>3. Head(toClient).kind \notin Mutations \cup {"mutated", "tree", "older"}
  BY <1>1, WorkspaceAssumption DEF WorkspaceAssumption
<1> QED BY <1>1, <1>2, <1>3, QuietArrivalKeeps DEF AwaitInv, ViewShape

LEMMA MutationKeeps ==
  ASSUME AwaitInv, MutationArrives
  PROVE  AwaitInv'
<1> DEFINE requests == Load("mutation", Head(toClient).session)
           rest == Tail(toClient)
<1>1. toClient # <<>> /\ Head(toClient).kind = "mutated" /\ Ask(requests, {}, rest)
  BY DEF MutationArrives, Arrives
<1>2. /\ IsSeq(rest) /\ ToSet(rest) \subseteq ToSet(toClient)
      /\ ToSet(toClient) = {Head(toClient)} \cup ToSet(rest)
  BY <1>1, ArrivalFacts DEF AwaitInv
<1>3. /\ IsSeq(requests) /\ \A x \in ToSet(requests) : Shaped(x)
      /\ \A q : q # "mutation" => \A x \in ToSet(requests) : Quiet(x, q)
      /\ IsTree(requests[2], "mutation") /\ DOMAIN requests = {1, 2}
  BY LoadFacts
<1>4. \A p : ~IsTree(Head(toClient), p)
  BY <1>1 DEF IsTree
<1>5. \A p \in Loads : /\ InOrder(toNode, answering, rest, p)
                       /\ HasTree(toNode, p) \/ HasTree(rest, p) <=> TreeOnWire(p)
  BY <1>1, <1>4, ArrivalOrder DEF AwaitInv, LoadAwaited
<1> HIDE DEF requests, rest
<1>6. WireOK'
  BY <1>1, <1>2, <1>3, AskFacts DEF AwaitInv
<1>7. \A x \in ToSet(toNode) \cup ToSet(rest) \cup ({answering} \ {NoAnswer}) :
          \E y \in OnWire' : y.kind = x.kind
  BY <1>1, <1>2, <1>3, AskFacts DEF AwaitInv
<1>8. OlderOnWire => OlderOnWire'
  <2>1. \A x \in OnWire : x = Head(toClient) \/ \E y \in OnWire' : y.kind = x.kind
    BY <1>2, <1>7 DEF OnWire
  <2>2. Head(toClient).kind # "older"
    BY <1>1
  <2> QED BY <2>1, <2>2, Zenon DEF OlderOnWire
<1>9. ASSUME NEW p \in Loads
      PROVE  /\ InOrder(toNode, answering, toClient, p)'
             /\ TreeOnWire(p)' <=> TreeOnWire(p)
  <2>1. p # "none" /\ p # "mutation" /\ p \notin {}
    BY <1>9, LoadNames DEF Loads
  <2>2. /\ InOrder(toNode, answering, rest, p) => InOrder(toNode, answering, toClient, p)'
        /\ TreeOnWire(p)' <=> HasTree(toNode, p) \/ HasTree(rest, p)
    BY <1>1, <1>2, <1>3, <2>1, AskKeeps DEF AwaitInv
  <2> QED BY <1>5, <2>2, Zenon
<1>10. TreeOnWire("mutation")'
  <2> DEFINE n == UnawaitedAll(toNode, {})
  <2>1. IsSeq(n) /\ toNode' = n \o requests
    BY <1>1, UnawaitedAllFacts DEF Ask, AwaitInv, WireOK
  <2> HIDE DEF n
  <2>4. ToSet(toNode') = ToSet(n) \cup ToSet(requests)
    BY <1>3, <2>1, Joined2
  <2>2. requests[2] \in ToSet(requests)
    BY <1>3, SeqFacts
  <2>3. \E x \in ToSet(toNode') : IsTree(x, "mutation")
    BY <1>3, <2>2, <2>4
  <2> QED BY <2>3, Zenon DEF ToSet, HasTree, TreeOnWire
<1>11. /\ DOMAIN view' = ViewFields /\ view'.load = view.load
       /\ DOMAIN view'.mutation = {"phase", "page", "left"} /\ view'.mutation.phase = "loading"
       /\ view'.listening = view.listening /\ view'.older = view.older
  BY DEF MutationArrives, AwaitInv, ViewShape, ViewFields
<1>12. LoadAwaited'
  BY <1>9, <1>11, Zenon DEF AwaitInv, LoadAwaited
<1>13. ViewShape' /\ ChangeAwaited' /\ OlderAwaited'
  BY <1>8, <1>10, <1>11 DEF AwaitInv, ViewShape, ChangeAwaited, OlderAwaited
<1> QED BY <1>6, <1>12, <1>13 DEF AwaitInv

(* The tree of a load that is awaited, of the branch action, or of what was*)
(* given up.                                                               *)
LEMMA LoadedFacts ==
  ASSUME ViewShape, NEW s, NEW page, NEW tree
  PROVE  LET v == Loaded(view, s, page, tree)
         IN  /\ DOMAIN v = ViewFields /\ v.mutation = view.mutation /\ v.older = view.older
             /\ ~v.loading /\ v.listening
BY DEF Loaded, ViewShape, ViewFields

LEMMA LoadTreeKeeps ==
  ASSUME AwaitInv, TreeArrives, Head(toClient).for \in Loads
  PROVE  AwaitInv'
<1>0. PICK p \in Loads : p = Head(toClient).for
  OBVIOUS
<1>1. toClient # <<>> /\ Head(toClient).kind = "tree" /\ Nothing
  BY DEF TreeArrives, Arrives, Loads
<1>2. /\ DOMAIN view' = ViewFields /\ view'.load = NoLoad /\ view'.mutation = view.mutation
      /\ ~view'.loading /\ view'.listening /\ view'.older = view.older
  <2> DEFINE v == Loaded(view, Head(toClient).session, view.load.page, Head(toClient).rev)
  <2>1. view' = [v EXCEPT !.load = NoLoad]
    BY DEF TreeArrives, Loads
  <2>2. /\ DOMAIN v = ViewFields /\ v.mutation = view.mutation
        /\ ~v.loading /\ v.listening /\ v.older = view.older
    BY LoadedFacts DEF AwaitInv
  <2> HIDE DEF v
  <2> QED BY <2>1, <2>2 DEF ViewFields
<1>3. IsTree(Head(toClient), p) /\ \A q : q # p => ~IsTree(Head(toClient), q)
  BY <1>0, <1>1 DEF IsTree
<1>p. p # "mutation" /\ p # "none"
  BY LoadNames DEF Loads
<1>4. /\ WireOK'
      /\ OlderOnWire => OlderOnWire'
      /\ ChangeOnWire => ChangeOnWire'
  <2>1. Head(toClient).kind # "older" /\ Head(toClient).kind \notin Mutations \cup {"mutated"}
    BY <1>1, WorkspaceAssumption DEF WorkspaceAssumption
  <2> QED BY <1>1, <2>1, NothingKeeps, Zenon DEF AwaitInv
<1>5. \A q : q # "none" /\ q # p =>
         /\ InOrder(toNode, answering, toClient, q) => InOrder(toNode, answering, toClient, q)'
         /\ TreeOnWire(q)' <=> TreeOnWire(q)
  BY <1>1, <1>3, NothingKeeps DEF AwaitInv
<1>6. p # "none" /\ InOrder(toNode, answering, toClient, p) /\ view.load.kind = p
  <2>1. TreeOnWire(p)
    BY <1>1, <1>3, ArrivalOrder DEF AwaitInv
  <2> QED BY <1>p, <2>1 DEF AwaitInv, LoadAwaited
<1>7. InOrder(toNode, answering, toClient, p)' /\ ~TreeOnWire(p)'
  BY <1>1, <1>3, <1>6, NothingKeeps DEF AwaitInv
<1>8. ASSUME NEW q \in Loads
      PROVE  InOrder(toNode, answering, toClient, q)' /\ ~TreeOnWire(q)'
  <2>1. CASE q = p
    BY <1>7, <2>1
  <2>2. CASE q # p
    <3>1. q # "none" /\ InOrder(toNode, answering, toClient, q) /\ ~TreeOnWire(q)
      BY <1>6, <2>2, LoadNames DEF AwaitInv, LoadAwaited, Loads
    <3> QED BY <1>5, <2>2, <3>1, Zenon
  <2> QED BY <2>1, <2>2
<1>9. LoadAwaited'
  BY <1>2, <1>8 DEF LoadAwaited, Loads, NoLoad
<1>10. ViewShape' /\ ChangeAwaited' /\ OlderAwaited'
  BY <1>2, <1>4, <1>5, <1>p, LoadNames
     DEF AwaitInv, ViewShape, ChangeAwaited, OlderAwaited, NoLoad
<1> QED BY <1>4, <1>9, <1>10 DEF AwaitInv

LEMMA MutationTreeKeeps ==
  ASSUME AwaitInv, TreeArrives, Head(toClient).for = "mutation"
  PROVE  AwaitInv'
<1> DEFINE rest == Tail(toClient)
<1>1. /\ toClient # <<>> /\ Head(toClient).kind = "tree"
      /\ Ask(<<>>, {"select", "refresh"}, rest)
  BY DEF TreeArrives, Arrives
<1>2. /\ DOMAIN view' = ViewFields /\ view'.load = NoLoad /\ view'.mutation = NoMutation
      /\ ~view'.loading /\ view'.listening /\ view'.older = view.older
  <2> DEFINE v == Loaded(view, Head(toClient).session, view.mutation.page, Head(toClient).rev)
  <2>1. PICK c : view' = [v EXCEPT !.load = NoLoad, !.mutation = NoMutation, !.chosen = c]
    BY Zenon DEF TreeArrives
  <2>2. DOMAIN v = ViewFields /\ ~v.loading /\ v.listening /\ v.older = view.older
    BY LoadedFacts DEF AwaitInv
  <2> HIDE DEF v
  <2> QED BY <2>1, <2>2 DEF ViewFields
<1>3. /\ IsSeq(rest) /\ ToSet(rest) \subseteq ToSet(toClient)
      /\ ToSet(toClient) = {Head(toClient)} \cup ToSet(rest)
  BY <1>1, ArrivalFacts DEF AwaitInv
<1> HIDE DEF rest
<1>4. IsSeq(<<>>) /\ ToSet(<<>>) = {} /\ WireOK
  BY TupleFacts DEF AwaitInv
<1>5. WireOK'
  BY <1>1, <1>3, <1>4, AskFacts
<1>6. OlderOnWire => OlderOnWire'
  <2>1. \A x \in ToSet(toNode) \cup ToSet(rest) \cup ({answering} \ {NoAnswer}) :
           \E y \in OnWire' : y.kind = x.kind
    BY <1>1, <1>3, <1>4, AskFacts
  <2>2. \A x \in OnWire : x = Head(toClient) \/ \E y \in OnWire' : y.kind = x.kind
    BY <1>3, <2>1 DEF OnWire
  <2>3. Head(toClient).kind # "older"
    BY <1>1
  <2> QED BY <2>2, <2>3, Zenon DEF OlderOnWire
<1>7. \A p \in {"select", "refresh"} : InOrder(toNode, answering, toClient, p)' /\ ~TreeOnWire(p)'
  <2> TAKE p \in {"select", "refresh"}
  <2>1. p # "none" /\ \A x \in ToSet(<<>>) : Quiet(x, p)
    BY <1>4, LoadNames
  <2> QED BY <1>1, <1>3, <1>4, <2>1, AskSilences
<1>8. LoadAwaited'
  BY <1>2, <1>7 DEF LoadAwaited, Loads, NoLoad
<1>9. ViewShape' /\ ChangeAwaited' /\ OlderAwaited'
  BY <1>2, <1>6
     DEF AwaitInv, ViewShape, ChangeAwaited, OlderAwaited, NoLoad, NoMutation
<1> QED BY <1>5, <1>8, <1>9 DEF AwaitInv

LEMMA OtherTreeKeeps ==
  ASSUME AwaitInv, TreeArrives, Head(toClient).for \notin Loads \cup {"mutation"}
  PROVE  AwaitInv'
<1>1. toClient # <<>> /\ Head(toClient).kind = "tree" /\ Nothing /\ view' = view
  BY DEF TreeArrives, Arrives, Loads
<1>2. \A q \in Loads \cup {"mutation"} : q # "none" /\ ~IsTree(Head(toClient), q)
  BY LoadNames DEF IsTree, Loads
<1>3. Head(toClient).kind # "older" /\ Head(toClient).kind \notin Mutations \cup {"mutated"}
  BY <1>1, WorkspaceAssumption DEF WorkspaceAssumption
<1>4. /\ WireOK'
      /\ OlderOnWire => OlderOnWire'
      /\ ChangeOnWire => ChangeOnWire'
  BY <1>1, <1>3, NothingKeeps, Zenon DEF AwaitInv
<1>5. \A q \in Loads \cup {"mutation"} :
         /\ InOrder(toNode, answering, toClient, q) => InOrder(toNode, answering, toClient, q)'
         /\ TreeOnWire(q)' <=> TreeOnWire(q)
  BY <1>1, <1>2, NothingKeeps DEF AwaitInv
<1>6. LoadAwaited'
  BY <1>1, <1>5 DEF AwaitInv, LoadAwaited
<1>7. ViewShape' /\ ChangeAwaited' /\ OlderAwaited'
  BY <1>1, <1>4, <1>5 DEF AwaitInv, ViewShape, ChangeAwaited, OlderAwaited
<1> QED BY <1>4, <1>6, <1>7 DEF AwaitInv

(* An event that does not fit: what is on view is asked for again.  The    *)
(* view listens, so that no selection is under way.                        *)
LEMMA RefreshKeeps ==
  ASSUME AwaitInv, toClient # <<>>, Head(toClient).kind = "event", view.listening,
         NEW v, Refresh(v), DOMAIN v = ViewFields,
         v.mutation = view.mutation, v.listening = view.listening, v.older = view.older
  PROVE  AwaitInv'
<1> DEFINE rest == Tail(toClient)
           requests == Load("refresh", view.session)
<1>1. Ask(requests, {"refresh"}, rest) /\ WireOK
  BY DEF Refresh, AwaitInv
<1>2. /\ IsSeq(rest) /\ ToSet(rest) \subseteq ToSet(toClient)
      /\ ToSet(toClient) = {Head(toClient)} \cup ToSet(rest)
  BY <1>1, ArrivalFacts
<1>3. /\ IsSeq(requests) /\ \A x \in ToSet(requests) : Shaped(x)
      /\ \A q : q # "refresh" => \A x \in ToSet(requests) : Quiet(x, q)
  BY LoadFacts
<1>4. InOrder(toNode, answering, toClient, "refresh")' /\ TreeOnWire("refresh")'
  BY <1>1, <1>2, LoadNames, AskLoads
<1>5. \A p : ~IsTree(Head(toClient), p)
  BY DEF IsTree
<1>6. \A p : /\ InOrder(toNode, answering, toClient, p) => InOrder(toNode, answering, rest, p)
             /\ HasTree(toNode, p) \/ HasTree(rest, p) <=> TreeOnWire(p)
  BY <1>1, <1>5, ArrivalOrder
<1> HIDE DEF requests, rest
<1>7. WireOK'
  BY <1>1, <1>2, <1>3, AskFacts
<1>8. \A x \in OnWire : x = Head(toClient) \/ \E y \in OnWire' : y.kind = x.kind
  <2>1. \A x \in ToSet(toNode) \cup ToSet(rest) \cup ({answering} \ {NoAnswer}) :
           \E y \in OnWire' : y.kind = x.kind
    BY <1>1, <1>2, <1>3, AskFacts
  <2> QED BY <1>2, <2>1 DEF OnWire
<1>9. OlderOnWire => OlderOnWire'
  <2>1. Head(toClient).kind # "older"
    OBVIOUS
  <2> QED BY <1>8, <2>1, Zenon DEF OlderOnWire
<1>10. ChangeOnWire => ChangeOnWire'
  <2>1. Head(toClient).kind \notin Mutations \cup {"mutated"}
    BY WorkspaceAssumption DEF WorkspaceAssumption
  <2> QED BY <1>8, <2>1, Zenon DEF ChangeOnWire
<1>11. ASSUME NEW p \in {"select", "mutation"}
       PROVE  /\ InOrder(toNode, answering, toClient, p) =>
                     InOrder(toNode, answering, toClient, p)'
              /\ TreeOnWire(p)' <=> TreeOnWire(p)
  <2>1. p # "none" /\ p # "refresh" /\ p \notin {"refresh"}
    BY <1>11, LoadNames
  <2>2. /\ InOrder(toNode, answering, rest, p) => InOrder(toNode, answering, toClient, p)'
        /\ TreeOnWire(p)' <=> HasTree(toNode, p) \/ HasTree(rest, p)
    BY <1>1, <1>2, <1>3, <2>1, AskKeeps
  <2> QED BY <1>6, <2>2, Zenon
<1>12. /\ DOMAIN view' = ViewFields
       /\ DOMAIN view'.load = {"kind", "page"} /\ view'.load.kind = "refresh"
       /\ view'.mutation = view.mutation /\ view'.older = view.older
  BY DEF Refresh, ViewFields
<1>13. InOrder(toNode, answering, toClient, "select")' /\ ~TreeOnWire("select")'
  BY <1>11, LoadNames DEF AwaitInv, LoadAwaited, Loads
<1>14. LoadAwaited'
  BY <1>4, <1>12, <1>13, LoadNames DEF LoadAwaited, Loads
<1>15. ViewShape' /\ ChangeAwaited' /\ OlderAwaited'
  BY <1>9, <1>10, <1>11, <1>12 DEF AwaitInv, ViewShape, ChangeAwaited, OlderAwaited
<1> QED BY <1>7, <1>14, <1>15 DEF AwaitInv

LEMMA EventKeeps ==
  ASSUME AwaitInv, EventArrives
  PROVE  AwaitInv'
<1> DEFINE item == Head(toClient)
           v == [view EXCEPT !.last = item.n]
           w == [v EXCEPT !.running = FALSE, !.sending = FALSE]
           Like(x) == /\ DOMAIN x = ViewFields /\ x.load = view.load
                      /\ x.mutation = view.mutation /\ x.listening = view.listening
                      /\ x.loading = view.loading /\ x.lost = view.lost
                      /\ x.older = view.older
<1>1. toClient # <<>> /\ item.kind = "event"
  BY DEF EventArrives, Arrives
<1>2. Like(view) /\ Like(v) /\ Like(w)
  BY DEF AwaitInv, ViewShape, ViewFields
<1>3. \/ Nothing /\ \/ view' = view
                    \/ \E n : view' = [view EXCEPT !.missed = n]
                    \/ \E n : view' = [v EXCEPT !.missed = n]
                    \/ \E r, q : view' = [v EXCEPT !.running = r, !.sending = q]
                    \/ \E entries : view' = [v EXCEPT !.entries = entries]
      \/ view.listening /\ (Refresh(v) \/ Refresh(w))
  BY Zenon DEF EventArrives, Apply
<1>4. CASE Nothing /\ Like(view')
  <2>1. item.kind \notin Mutations \cup {"mutated", "tree", "older"}
    BY <1>1, WorkspaceAssumption DEF WorkspaceAssumption
  <2> QED BY <1>1, <1>4, <2>1, QuietArrivalKeeps DEF AwaitInv, ViewShape
<1>5. CASE view.listening /\ (Refresh(v) \/ Refresh(w))
  <2> HIDE DEF v, w
  <2> QED BY <1>1, <1>2, <1>5, RefreshKeeps
<1>6. CASE Nothing /\ \/ view' = view
                      \/ \E n : view' = [view EXCEPT !.missed = n]
                      \/ \E n : view' = [v EXCEPT !.missed = n]
                      \/ \E r, q : view' = [v EXCEPT !.running = r, !.sending = q]
                      \/ \E entries : view' = [v EXCEPT !.entries = entries]
  <2> HIDE DEF v
  <2>1. Like(view')
    BY <1>2, <1>6 DEF ViewFields
  <2> QED BY <1>4, <1>6, <2>1
<1> QED BY <1>3, <1>5, <1>6

-----------------------------------------------------------------------------
(* The invariant holds, and says what the property does.                   *)

LEMMA AwaitInvInit ==
  ASSUME WorkspaceInit
  PROVE  AwaitInv
<1>1. toNode = <<>> /\ toClient = <<>> /\ answering = NoAnswer
  BY DEF WorkspaceInit, NodeInit
<1>2. IsSeq(<<>>) /\ ToSet(<<>>) = {} /\ DOMAIN <<>> = {}
  BY EmptyFacts
<1>3. Shaped(NoAnswer) /\ \A p : ~IsPage(NoAnswer, p)
  BY NoAnswerFacts DEF Quiet
<1>4. WireOK
  BY <1>1, <1>2, <1>3 DEF WireOK
<1>5. \A p : Silent(<<>>, p)
  BY <1>2, Zenon DEF Silent
<1>6. \A p : InOrder(toNode, answering, toClient, p) /\ ~TreeOnWire(p)
  BY <1>1, <1>3, <1>5, SilentFacts, Zenon DEF InOrder, TreeOnWire
<1>7. /\ ViewShape /\ view.load = NoLoad /\ view.mutation = NoMutation /\ ~view.loading
      /\ view.older = "none"
  BY DEF WorkspaceInit, ViewShape, ViewFields, NoLoad, NoMutation
<1>8. LoadAwaited
  BY <1>6, <1>7 DEF LoadAwaited, Loads, NoLoad
<1> QED BY <1>4, <1>7, <1>8 DEF AwaitInv, ChangeAwaited, OlderAwaited, NoMutation

(* Every step keeps it.                                                   *)
LEMMA AwaitInvNext ==
  ASSUME AwaitInv, [WorkspaceNext]_workspaceVars
  PROVE  AwaitInv'
<1>1. CASE UNCHANGED workspaceVars
  <2>1. UNCHANGED <<toNode, toClient, answering, view>>
    BY <1>1 DEF workspaceVars, nodeVars
  <2> QED BY <2>1 DEF AwaitInv, WireOK, ViewShape, LoadAwaited, ChangeAwaited, OlderAwaited,
                      InOrder, TreeOnWire, ChangeOnWire, OlderOnWire, OnWire
<1>2. CASE NodeNext /\ UNCHANGED view
  BY <1>2, NodeKeepsAwaitInv
<1>3. CASE Receive
  <2>1. CASE TreeArrives
    BY <2>1, LoadTreeKeeps, MutationTreeKeeps, OtherTreeKeeps
  <2> QED BY <1>3, <2>1, PageKeeps, MutationKeeps, OlderKeeps, AdmissionKeeps, EventKeeps
             DEF Receive
<1>4. CASE Ui
  BY <1>4, SelectKeeps, RefreshListKeeps, RequestOlderKeeps, StartMutationKeeps, SubmitKeeps
     DEF Ui
<1> QED BY <1>1, <1>2, <1>3, <1>4 DEF WorkspaceNext

(* It implies the property.                                               *)
LEMMA AwaitInvSuffices ==
  ASSUME AwaitInv
  PROVE  AnswerAwaited
<1>1. OnWire = ToSet(toNode) \cup ToSet(toClient) \cup ({answering} \ {NoAnswer})
  BY DEF OnWire
<1>2. ASSUME NEW p, TreeOnWire(p)
      PROVE  OnTheWayFor(p)
  <2>1. PICK x \in ToSet(toNode) \cup ToSet(toClient) : IsTree(x, p)
    BY <1>2, Zenon DEF TreeOnWire, HasTree, ToSet
  <2>2. "for" \in DOMAIN x /\ x.for = p
    BY <2>1 DEF IsTree, AwaitInv, WireOK, Shaped
  <2> QED BY <2>1, <2>2, Zenon DEF OnTheWayFor, OnTheWay
<1>3. view.load # NoLoad => OnTheWayFor(view.load.kind)
  BY <1>2 DEF AwaitInv, LoadAwaited
<1>4. view.mutation.phase = "loading" => OnTheWayFor("mutation")
  BY <1>2 DEF AwaitInv, ChangeAwaited
<1>5. view.loading => view.load # NoLoad \/ view.mutation # NoMutation \/ view.lost
  BY DEF AwaitInv, LoadAwaited, NoLoad, NoMutation
<1>6. view.mutation.phase = "asked" =>
         OnTheWay(LAMBDA x : x.kind \in Mutations \cup {"mutated"})
  BY Zenon DEF AwaitInv, ChangeAwaited, ChangeOnWire, OnWire, OnTheWay
<1>7. view.older # "none" => OnTheWay(LAMBDA x : x.kind = "older")
  BY Zenon DEF AwaitInv, OlderAwaited, OlderOnWire, OnWire, OnTheWay
<1> QED BY <1>3, <1>4, <1>5, <1>6, <1>7 DEF AnswerAwaited

(* Whatever the user did in between and in whatever order the answers and  *)
(* events arrive, the view never waits for an answer that does not come: a *)
(* load, a branch action and an older page that it awaits are on their way.*)
(* _isCurrentSessionLoad, _isCurrentSessionTreeMutation, _historyInFlight   *)
THEOREM AnswersAreAwaited == WorkspaceSpec => []AnswerAwaited
<1>1. WorkspaceInit => AwaitInv
  BY AwaitInvInit
<1>2. AwaitInv /\ [WorkspaceNext]_workspaceVars => AwaitInv'
  BY AwaitInvNext
<1>3. AwaitInv => AnswerAwaited
  BY AwaitInvSuffices
<1> QED BY <1>1, <1>2, <1>3, PTL DEF WorkspaceSpec

-----------------------------------------------------------------------------
(* The frames: numbers, and the paths of a log.                            *)

(* A set of numbers has a least one,                                       *)
LEMMA LeastNumber ==
  ASSUME NEW S, S \subseteq Nat, S # {}
  PROVE  \E m \in S : \A k \in S : m <= k
<1>1. IsWellFoundedOn(OpToRel(<, Nat), Nat)
  BY NatLessThanWellFounded
<1>2. PICK m \in S : \A k \in S : ~ (<<k, m>> \in OpToRel(<, Nat))
  BY <1>1, WFMin
<1>3. \A k \in S : ~ (k < m)
  BY <1>2 DEF OpToRel
<1> QED BY <1>3

(* and one with a bound a greatest.                                        *)
LEMMA GreatestNumber ==
  ASSUME NEW n \in Nat, NEW S, S \subseteq 1..n, S # {}
  PROVE  \E m \in S : \A k \in S : k <= m
<1> DEFINE T == {n - i : i \in S}
<1>1. T \subseteq Nat /\ T # {}
  <2>1. \A i \in S : i \in 1..n /\ n - i \in Nat
    OBVIOUS
  <2> QED BY <2>1
<1>2. PICK m \in T : \A k \in T : m <= k
  <2> HIDE DEF T
  <2> QED BY <1>1, LeastNumber
<1>3. PICK i \in S : m = n - i
  BY <1>2
<1>4. ASSUME NEW k \in S
      PROVE  k <= i
  <2>1. n - k \in T
    BY <1>4
  <2>2. m <= n - k
    <3> HIDE DEF T
    <3> QED BY <1>2, <2>1
  <2>3. n - i <= n - k /\ i \in Int /\ k \in Int
    BY <1>3, <2>2
  <2> QED BY <2>3
<1> QED BY <1>4

(* A set that has every number below whose predecessors it has, has all.   *)
LEMMA AllUpTo ==
  ASSUME NEW S, NEW n \in Nat,
         \A i \in 0..n : (\A j \in 0..n : j < i => j \in S) => i \in S
  PROVE  \A i \in 0..n : i \in S
<1> DEFINE T == {i \in 0..n : i \notin S}
<1> SUFFICES ASSUME T # {} PROVE FALSE
  OBVIOUS
<1>0. T \subseteq Nat
  OBVIOUS
<1>1. PICK m \in T : \A k \in T : m <= k
  <2> HIDE DEF T
  <2> QED BY <1>0, LeastNumber
<1>2. \A j \in 0..n : j < m => j \in S
  BY <1>1
<1> QED BY <1>1, <1>2

-----------------------------------------------------------------------------
(* The paths of a log.                                                     *)

PathStep(p, log, kind, j) ==
    IF j = 0 THEN <<>>
    ELSE IF j \in kind THEN Append(p[log[j].parent], j)
    ELSE p[log[j].parent]

PathsUpTo(p, log, kind, n) == p = [j \in 0..n |-> PathStep(p, log, kind, j)]

Upwards(log) == Len(log) \in Nat /\ \A j \in 1..Len(log) : log[j].parent \in 0..(j - 1)

(* PathTo is a function that satisfies its equation, if there is one:      *)
LEMMA PathToIs ==
  ASSUME NEW i, NEW kind
  PROVE  PathTo(i, kind) = (CHOOSE p : PathsUpTo(p, node.log, kind, Len(node.log)))[i]
BY Zenon DEF PathTo, PathsUpTo, PathStep

(* there are paths, as a parent comes before its children.                 *)
LEMMA PathsExist ==
  ASSUME NEW log, Upwards(log), NEW kind
  PROVE  \E p : PathsUpTo(p, log, kind, Len(log))
<1> DEFINE N == Len(log)
           S == {n \in 0..N : \E p : PathsUpTo(p, log, kind, n)}
<1>1. N \in Nat
  BY DEF Upwards
<1>2. ASSUME NEW i \in 0..N, \A j \in 0..N : j < i => j \in S
      PROVE  i \in S
  <2>1. CASE i = 0
    <3> DEFINE p == [j \in 0..0 |-> <<>>]
    <3>1. \A j \in 0..0 : PathStep(p, log, kind, j) = <<>>
      BY DEF PathStep
    <3>2. PathsUpTo(p, log, kind, 0)
      BY <3>1 DEF PathsUpTo
    <3> HIDE DEF p
    <3> QED BY <2>1, <3>2
  <2>2. CASE i # 0
    <3>1. i - 1 \in S
      BY <1>1, <1>2, <2>2
    <3>2. PICK p : PathsUpTo(p, log, kind, i - 1)
      BY <3>1
    <3> DEFINE q == [j \in 0..i |-> IF j = i THEN PathStep(p, log, kind, i) ELSE p[j]]
    <3>3. \A j \in 0..i : j # 0 => log[j].parent \in 0..(i - 1)
      BY <1>1 DEF Upwards
    <3>4. \A k \in 0..(i - 1) : q[k] = p[k] /\ p[k] = PathStep(p, log, kind, k)
      BY <1>1, <3>2 DEF PathsUpTo
    <3>5. \A j \in 0..i : PathStep(q, log, kind, j) = PathStep(p, log, kind, j)
      <4> HIDE DEF q
      <4> QED BY <3>3, <3>4 DEF PathStep
    <3>6. \A j \in 0..i : q[j] = PathStep(q, log, kind, j)
      <4>1. q[i] = PathStep(p, log, kind, i)
        BY <1>1
      <4>2. \A j \in 0..i : j = i \/ j \in 0..(i - 1)
        BY <1>1
      <4> HIDE DEF q
      <4> QED BY <3>4, <3>5, <4>1, <4>2
    <3>7. q = [j \in 0..i |-> q[j]]
      OBVIOUS
    <3> HIDE DEF q
    <3>8. PathsUpTo(q, log, kind, i)
      BY <3>6, <3>7 DEF PathsUpTo
    <3> QED BY <3>8
  <2> QED BY <2>1, <2>2
<1>3. \A i \in 0..N : (\A j \in 0..N : j < i => j \in S) => i \in S
  BY <1>2
<1> HIDE DEF S, N
<1>4. N \in S
  BY <1>1, <1>3, AllUpTo
<1> QED BY <1>4 DEF S, N

(* A path goes upwards, and has only what is of the kind.                  *)
Ascends(s, j, kind) ==
    /\ IsSeq(s) /\ ToSet(s) \subseteq (1..j) \cap kind
    /\ \A a, b \in DOMAIN s : a < b => s[a] < s[b]

(* The path of all entries: from a root to the entry, parent by parent.    *)
Leads(s, j, log) ==
    /\ j = 0 <=> s = <<>>
    /\ s # <<>> => s[Len(s)] = j
    /\ \A k \in DOMAIN s : log[s[k]].parent = IF k = 1 THEN 0 ELSE s[k - 1]

(* A path that ascends to an entry ascends to its child.                   *)
LEMMA AscendsAppend ==
  ASSUME NEW i \in Nat, NEW j \in Nat, i < j, NEW kind, NEW s, Ascends(s, i, kind)
  PROVE  Ascends(s, j, kind) /\ (j \in kind => Ascends(Append(s, j), j, kind))
<1> DEFINE t == Append(s, j)
           n == Len(s) + 1
<1>1. /\ IsSeq(t) /\ ToSet(t) = ToSet(s) \cup {j}
      /\ DOMAIN t = 1..n /\ t[n] = j /\ \A a \in DOMAIN s : t[a] = s[a]
  BY AppendFacts DEF Ascends
<1>2. Len(s) \in Nat /\ DOMAIN s = 1..Len(s) /\ \A a \in DOMAIN s : s[a] \in 1..i
  BY SeqFacts DEF Ascends
<1>3. ToSet(s) \subseteq (1..j) \cap kind
  BY DEF Ascends
<1> HIDE DEF t
<1>4. ASSUME NEW a \in DOMAIN t, NEW b \in DOMAIN t, a < b
      PROVE  t[a] < t[b]
  <2>1. a \in DOMAIN s /\ t[a] = s[a] /\ s[a] \in 1..i
    BY <1>1, <1>2, <1>4
  <2>2. CASE b = n
    BY <1>1, <2>1, <2>2
  <2>3. CASE b # n
    BY <1>1, <1>2, <1>4, <2>1, <2>3 DEF Ascends
  <2> QED BY <2>2, <2>3
<1> QED BY <1>1, <1>3, <1>4 DEF Ascends, t

(* The path to an entry is the one to its parent, and the entry.           *)
LEMMA LeadsAppend ==
  ASSUME NEW log, NEW j \in Nat \ {0}, NEW s, IsSeq(s), Leads(s, log[j].parent, log)
  PROVE  Leads(Append(s, j), j, log)
<1> DEFINE t == Append(s, j)
           n == Len(s) + 1
<1>1. /\ DOMAIN t = 1..n /\ t[n] = j /\ (\A a \in DOMAIN s : t[a] = s[a]) /\ IsSeq(t)
  BY AppendFacts
<1>2. Len(s) \in Nat /\ DOMAIN s = 1..Len(s) /\ (s = <<>> <=> Len(s) = 0)
  BY SeqFacts
<1>3. Len(t) = n /\ t # <<>>
  <2> HIDE DEF t
  <2>1. Len(t) \in Nat /\ DOMAIN t = 1..Len(t) /\ (t = <<>> <=> Len(t) = 0)
    BY <1>1, SeqFacts
  <2> QED BY <1>1, <1>2, <2>1
<1> HIDE DEF t
<1>4. ASSUME NEW k \in DOMAIN t
      PROVE  log[t[k]].parent = IF k = 1 THEN 0 ELSE t[k - 1]
  <2>1. CASE k = n
    <3>1. CASE s = <<>>
      BY <1>1, <1>2, <2>1, <3>1 DEF Leads
    <3>2. CASE s # <<>>
      <4>1. s[Len(s)] = log[j].parent /\ Len(s) \in DOMAIN s
        BY <1>2, <3>2 DEF Leads
      <4>2. k # 1 /\ k - 1 = Len(s)
        BY <1>2, <2>1, <3>2
      <4> QED BY <1>1, <2>1, <4>1, <4>2
    <3> QED BY <3>1, <3>2
  <2>2. CASE k # n
    <3>1. k \in DOMAIN s /\ (k # 1 => k - 1 \in DOMAIN s)
      BY <1>1, <1>2, <2>2
    <3> QED BY <1>1, <3>1 DEF Leads
  <2> QED BY <2>1, <2>2
<1> QED BY <1>1, <1>3, <1>4 DEF Leads, t

(* What PathTo returns: it ascends, and the path of all entries is the way *)
(* from a root to the entry, parent by parent.                             *)
LEMMA PathFacts ==
  ASSUME Upwards(node.log), NEW kind, NEW i \in 0..Len(node.log)
  PROVE  /\ Ascends(PathTo(i, kind), i, kind)
         /\ kind = DOMAIN node.log /\ DOMAIN node.log = 1..Len(node.log) =>
                Leads(PathTo(i, kind), i, node.log)
<1> DEFINE log == node.log
           N == Len(log)
           p == CHOOSE q : PathsUpTo(q, log, kind, N)
           full == kind = DOMAIN log /\ DOMAIN log = 1..N
           Good(j) == Ascends(p[j], j, kind) /\ (full => Leads(p[j], j, log))
           S == {j \in 0..N : Good(j)}
<1>1. PathTo(i, kind) = p[i]
  BY PathToIs
<1>2. PathsUpTo(p, log, kind, N)
  BY PathsExist
<1>3. N \in Nat /\ \A j \in 1..N : log[j].parent \in 0..(j - 1)
  BY DEF Upwards
<1>4. \A j \in 0..N : p[j] = PathStep(p, log, kind, j)
  <2> HIDE DEF p
  <2> QED BY <1>2 DEF PathsUpTo
<1> HIDE DEF p
<1>5. ASSUME NEW j \in 0..N, \A k \in 0..N : k < j => k \in S
      PROVE  Good(j)
  <2>1. CASE j = 0
    <3>1. p[j] = <<>>
      BY <1>4, <2>1 DEF PathStep
    <3>2. Ascends(<<>>, 0, kind)
      BY EmptyFacts DEF Ascends
    <3>3. Leads(<<>>, 0, log)
      BY EmptyFacts DEF Leads
    <3> QED BY <2>1, <3>1, <3>2, <3>3
  <2>2. CASE j # 0
    <3> DEFINE k == log[j].parent
    <3>1. k \in 0..N /\ k < j /\ j \in Nat /\ j \in 1..N /\ k \in Nat
      BY <1>3, <2>2
    <3>2. Good(k)
      BY <1>5, <3>1
    <3>3. p[j] = IF j \in kind THEN Append(p[k], j) ELSE p[k]
      BY <1>4, <2>2 DEF PathStep
    <3>4. full => j \in kind
      BY <3>1
    <3> HIDE DEF k
    <3>5. Ascends(p[j], j, kind)
      BY <3>1, <3>2, <3>3, AscendsAppend
    <3>6. full => Leads(p[j], j, log)
      <4>1. IsSeq(p[k]) /\ j \in Nat \ {0}
        BY <3>1, <3>2 DEF Ascends
      <4> QED BY <3>2, <3>3, <3>4, <4>1, LeadsAppend DEF k
    <3> QED BY <3>5, <3>6
  <2> QED BY <2>1, <2>2
<1>6. \A j \in 0..N : (\A k \in 0..N : k < j => k \in S) => j \in S
  BY <1>5
<1> HIDE DEF S
<1>7. i \in S
  BY <1>3, <1>6, AllUpTo
<1> QED BY <1>1, <1>7 DEF S

-----------------------------------------------------------------------------
(* What the codec accepts of an entry.  A text or an image is not empty, in*)
(* the SDK's messages and in entries; revisions are counted from 1; and an *)
(* entry has at most one activity of a tool call.                          *)

GoodPart(p) ==
    /\ {"type", "size"} \subseteq DOMAIN p
    /\ p.type \in {"text", "thinking", "image"} => p.size \in Nat \ {0}

GoodMessage(m) ==
    /\ {"n", "role", "parts", "usage"} \subseteq DOMAIN m
    /\ IsSeq(m.parts) /\ \A p \in ToSet(m.parts) : GoodPart(p)

Ids == [scope : {"persistent", "runtime"}, n : Nat]

GoodContent(p) ==
    /\ {"type", "size", "rev", "ref"} \subseteq DOMAIN p
    /\ p.rev \in Nat \ {0} /\ AcceptsPart(FramedPart(p))

GoodActivity(a) == {"call", "rev", "status"} \subseteq DOMAIN a /\ a.rev \in Nat \ {0}

GoodEntry(e) ==
    /\ DOMAIN e = {"id", "role", "origin", "rev", "final", "parts", "usage", "activities"}
    /\ e.id \in Ids /\ e.rev \in Nat \ {0}
    /\ \A i \in DOMAIN e.parts : GoodContent(e.parts[i])
    /\ \A a \in e.activities : GoodActivity(a)
    /\ \A a, b \in e.activities : a.call = b.call => a = b

(* The codec accepts an entry of the normaliser.                           *)
LEMMA GoodIsAccepted ==
  ASSUME NEW e, GoodEntry(e)
  PROVE  AcceptsEntry(FramedEntry(e))
<1> DEFINE f == FramedEntry(e)
<1>1. /\ f.revision = e.rev /\ f.parts = [i \in DOMAIN e.parts |-> FramedPart(e.parts[i])]
      /\ f.toolActivities = {FramedActivity(a) : a \in e.activities}
  BY DEF FramedEntry
<1>2. f.revision > 0
  BY <1>1 DEF GoodEntry
<1>3. \A part \in ToSet(f.parts) : AcceptsPart(part)
  BY <1>1 DEF GoodEntry, GoodContent, ToSet
<1>4. \A x \in f.toolActivities : AcceptsActivity(x)
  BY <1>1 DEF GoodEntry, GoodActivity, FramedActivity, AcceptsActivity
<1>5. \A x, y \in f.toolActivities : x.toolCallId = y.toolCallId => x = y
  BY <1>1 DEF GoodEntry, FramedActivity
<1> QED BY <1>2, <1>3, <1>4, <1>5 DEF AcceptsEntry

(* #part gives a part that is accepted: inline text up to its limit, larger*)
(* text and images as references.                                          *)
LEMMA PartIsGood ==
  ASSUME NEW id \in Ids, NEW rev \in Nat \ {0}, NEW i \in Nat, NEW source, GoodPart(source)
  PROVE  GoodContent(Part(id, rev, i, source))
<1> DEFINE p == Part(id, rev, i, source)
           ref == [entry |-> id, entryRev |-> rev, part |-> i, partRev |-> rev,
                   type |-> source.type, size |-> source.size]
<1>1. /\ {"type", "size", "rev", "ref"} \subseteq DOMAIN p /\ p.rev = rev /\ p.type = source.type
      /\ p.size = source.size
      /\ p.ref = IF Large(source) THEN ref ELSE None
  BY DEF Part
<1>2. Large(source) => ref # None /\ ref.size \in Nat \ {0}
  <2> SUFFICES ASSUME Large(source) PROVE ref # None /\ ref.size \in Nat \ {0}
    OBVIOUS
  <2>1. source.type \in {"text", "thinking", "image"} /\ source.size \in Nat \ {0}
    BY DEF Large, GoodPart
  <2>2. ref \in References
    BY <2>1 DEF References, Ids
  <2> QED BY <2>1, <2>2, NormalizerAssumption DEF NormalizerAssumption
<1>3. ~Large(source) /\ source.type \in {"text", "thinking"} => source.size \in 1..Inline
  BY NormalizerAssumption DEF Large, GoodPart, NormalizerAssumption
<1>4. source.type = "image" => Large(source)
  BY DEF Large
<1> HIDE DEF p, ref
<1>5. AcceptsPart(FramedPart(p))
  BY <1>1, <1>2, <1>3, <1>4 DEF AcceptsPart, FramedPart, FramedContent, AcceptsContent
<1> QED BY <1>1, <1>5 DEF GoodContent, p

(* Its revision may be any number from 1.                                  *)
LEMMA NextPartIsGood ==
  ASSUME NEW p, GoodContent(p), NEW rev \in Nat \ {0}
  PROVE  GoodContent([p EXCEPT !.rev = rev])
<1> DEFINE q == [p EXCEPT !.rev = rev]
<1>1. /\ DOMAIN q = DOMAIN p /\ q.rev = rev
      /\ q.type = p.type /\ q.size = p.size /\ q.ref = p.ref
  BY DEF GoodContent
<1> HIDE DEF q
<1>2. FramedContent(q) = FramedContent(p)
  BY <1>1 DEF FramedContent
<1>3. /\ FramedPart(q).type = FramedPart(p).type /\ FramedPart(q).revision = rev
      /\ FramedPart(q).content = FramedPart(p).content
  BY <1>1, <1>2 DEF FramedPart
<1> QED BY <1>1, <1>3 DEF GoodContent, AcceptsPart, q

(* #messageEntry gives an entry that is accepted.                          *)
LEMMA EntryIsGood ==
  ASSUME NEW id \in Ids, NEW m, GoodMessage(m), NEW origin, NEW rev \in Nat \ {0}, NEW final
  PROVE  /\ GoodEntry(Entry(id, m, origin, rev, final))
         /\ Entry(id, m, origin, rev, final).id = id
         /\ Entry(id, m, origin, rev, final).rev = rev
         /\ Entry(id, m, origin, rev, final).final = final
         /\ Entry(id, m, origin, rev, final).usage = m.usage
<1> DEFINE e == Entry(id, m, origin, rev, final)
<1>1. /\ DOMAIN e = {"id", "role", "origin", "rev", "final", "parts", "usage", "activities"}
      /\ e.id = id /\ e.rev = rev /\ e.activities = {} /\ e.final = final /\ e.usage = m.usage
      /\ e.parts = [i \in DOMAIN m.parts |-> Part(id, rev, i, m.parts[i])]
  BY DEF Entry
<1>2. \A i \in DOMAIN m.parts : i \in Nat /\ GoodPart(m.parts[i])
  BY SeqFacts DEF GoodMessage
<1>3. \A i \in DOMAIN e.parts : GoodContent(e.parts[i])
  BY <1>1, <1>2, PartIsGood
<1> QED BY <1>1, <1>3 DEF GoodEntry

-----------------------------------------------------------------------------
(* The normaliser keeps entries like that, and emits events of them.       *)

GoodConv(c) ==
    /\ DOMAIN c = {"session", "objects", "entries", "active", "calls"}
    /\ IsSeq(c.objects) /\ IsSeq(c.entries)
    /\ \A e \in ToSet(c.entries) : GoodEntry(e)
    /\ \A a \in c.calls : GoodActivity(a)

Knows(c, m) == m.n \in ToSet(c.objects) /\ Has(c, IdOf(c, m))

GoodEvents(events) == IsSeq(events) /\ \A e \in ToSet(events) : AcceptsEvent(e)

(* Setting an entry keeps the conversation.                                *)
LEMMA PutIsGood ==
  ASSUME NEW c, GoodConv(c), NEW e, GoodEntry(e)
  PROVE  /\ GoodConv(Put(c, e)) /\ Has(Put(c, e), e.id)
         /\ Put(c, e).objects = c.objects /\ Put(c, e).calls = c.calls
<1> DEFINE old == c.entries
           swap == [i \in DOMAIN old |-> IF old[i].id = e.id THEN e ELSE old[i]]
           new == IF Has(c, e.id) THEN swap ELSE Append(old, e)
           p == Put(c, e)
<1>1. /\ DOMAIN p = {"session", "objects", "entries", "active", "calls"}
      /\ p.objects = c.objects /\ p.calls = c.calls /\ p.entries = new
  BY DEF Put, Activate, GoodConv
<1>2. IsSeq(old) /\ \A i \in DOMAIN old : GoodEntry(old[i])
  BY SeqFacts DEF GoodConv
<1>3. CASE Has(c, e.id)
  <2>1. \A i \in DOMAIN swap : swap[i] \in ToSet(swap)
    BY DEF ToSet
  <2>2. Len(old) \in Nat /\ DOMAIN old = 1..Len(old)
    BY <1>2, SeqFacts
  <2>3. swap \in [1..Len(old) -> ToSet(swap)]
    BY <2>1, <2>2
  <2>4. IsSeq(swap)
    BY <2>2, <2>3, SeqDef DEF IsSeq
  <2>5. \A x \in ToSet(swap) : GoodEntry(x)
    BY <1>2 DEF ToSet
  <2>6. \E i \in DOMAIN swap : swap[i].id = e.id
    BY <1>3 DEF Has
  <2> QED BY <1>1, <1>3, <2>4, <2>5, <2>6 DEF GoodConv, Has
<1>4. CASE ~Has(c, e.id)
  <2>1. /\ IsSeq(Append(old, e)) /\ ToSet(Append(old, e)) = ToSet(old) \cup {e}
        /\ DOMAIN Append(old, e) = 1..(Len(old) + 1) /\ Append(old, e)[Len(old) + 1] = e
        /\ Len(old) \in Nat
    BY <1>2, AppendFacts, SeqFacts
  <2>2. p.entries = Append(old, e)
    BY <1>1, <1>4
  <2>3. Len(old) + 1 \in DOMAIN p.entries /\ p.entries[Len(old) + 1] = e
    BY <2>1, <2>2
  <2> HIDE DEF p, old
  <2>4. Has(p, e.id)
    BY <2>3 DEF Has
  <2>5. \A x \in ToSet(p.entries) : GoodEntry(x)
    BY <2>1, <2>2 DEF GoodConv, old
  <2> QED BY <1>1, <2>1, <2>2, <2>4, <2>5 DEF GoodConv, p
<1> QED BY <1>3, <1>4

(* An entry that is there has been set.                                    *)
LEMMA GetIsGood ==
  ASSUME NEW c, GoodConv(c), NEW id, Has(c, id)
  PROVE  GoodEntry(Get(c, id)) /\ Get(c, id).id = id
<1>1. \E e \in ToSet(c.entries) : e.id = id
  BY DEF Has, ToSet
<1>2. Get(c, id) \in ToSet(c.entries) /\ Get(c, id).id = id
  BY <1>1 DEF Get
<1> QED BY <1>2 DEF GoodConv

(* An object that is known has an identifier.                              *)
LEMMA IdIsGood ==
  ASSUME NEW c, IsSeq(c.objects), NEW m, m.n \in ToSet(c.objects)
  PROVE  IdOf(c, m) \in Ids
<1> DEFINE i == CHOOSE k \in DOMAIN c.objects : c.objects[k] = m.n
<1>1. \E k \in DOMAIN c.objects : c.objects[k] = m.n
  BY SeqFacts
<1>2. i \in DOMAIN c.objects
  BY <1>1
<1> HIDE DEF i
<1>3. i \in Nat
  BY <1>2, SeqFacts
<1>4. IdOf(c, m) = RuntimeId(i)
  BY Zenon DEF IdOf, i
<1> QED BY <1>3, <1>4 DEF RuntimeId, Ids

(* A single event.                                                         *)
LEMMA OneEvent ==
  ASSUME NEW e, AcceptsEvent(e)
  PROVE  GoodEvents(<<e>>)
BY TupleFacts DEF GoodEvents

(* message_start: the object is known from then on.                        *)
LEMMA MessageStartIsGood ==
  ASSUME NEW c, GoodConv(c), NEW m, GoodMessage(m), NEW origin
  PROVE  /\ GoodConv(MessageStart(c, m, origin).conv)
         /\ Knows(MessageStart(c, m, origin).conv, m)
         /\ GoodEvents(MessageStart(c, m, origin).events)
<1> DEFINE known == Identify(c, m)
           id == IdOf(known, m)
           e == Entry(id, m, origin, 1, FALSE)
           next == Put(known, e)
<1>1. /\ MessageStart(c, m, origin).conv = next
      /\ MessageStart(c, m, origin).events = <<Upsert(e, None)>>
  BY DEF MessageStart, Emits
<1>2. GoodConv(known) /\ m.n \in ToSet(known.objects)
  <2>1. CASE m.n \in ToSet(c.objects)
    BY <2>1 DEF Identify
  <2>2. CASE m.n \notin ToSet(c.objects)
    <3> DEFINE o == Append(c.objects, m.n)
    <3>1. IsSeq(o) /\ ToSet(o) = ToSet(c.objects) \cup {m.n}
      BY AppendFacts DEF GoodConv
    <3>2. known = [c EXCEPT !.objects = o]
      BY <2>2 DEF Identify
    <3> HIDE DEF o, known
    <3> QED BY <3>1, <3>2 DEF GoodConv
  <2> QED BY <2>1, <2>2
<1> HIDE DEF known
<1>3. id \in Ids
  BY <1>2, IdIsGood DEF GoodConv
<1> HIDE DEF id
<1>4. GoodEntry(e) /\ e.id = id
  <2>1. \A f : /\ GoodEntry(Entry(id, m, origin, 1, f))
               /\ Entry(id, m, origin, 1, f).id = id
    BY <1>3, EntryIsGood
  <2> QED BY <2>1, Zenon
<1>5. AcceptsEvent(Upsert(e, None))
  <2> HIDE DEF e
  <2> QED BY <1>4, GoodIsAccepted DEF AcceptsEvent, Upsert
<1> HIDE DEF e
<1>6. GoodConv(next) /\ Has(next, id) /\ next.objects = known.objects
  BY <1>2, <1>4, PutIsGood
<1>7. IdOf(next, m) = id
  <2> HIDE DEF next
  <2> QED BY <1>6, Zenon DEF IdOf, id
<1>8. GoodEvents(<<Upsert(e, None)>>)
  BY <1>5, OneEvent
<1> QED BY <1>1, <1>2, <1>6, <1>7, <1>8 DEF Knows

(* A message that is known is updated: its entry's next revisions.         *)
LEMMA MessageUpdateIsGood ==
  ASSUME NEW c, GoodConv(c), NEW m, GoodMessage(m), Knows(c, m), NEW origin,
         NEW delta, delta = None \/ delta.size = 1
  PROVE  /\ GoodConv(MessageUpdate(c, m, delta, origin).conv)
         /\ Knows(MessageUpdate(c, m, delta, origin).conv, m)
         /\ GoodEvents(MessageUpdate(c, m, delta, origin).events)
<1> DEFINE id == IdOf(c, m)
           previous == Get(c, id)
           from == IF previous.origin = None THEN origin ELSE previous.origin
           candidate == Entry(id, m, from, previous.rev + 1, FALSE)
           isDelta == IsDelta(previous, candidate, delta)
           next == IF isDelta THEN DeltaEntry(previous, candidate, delta) ELSE candidate
           counted == [next EXCEPT !.rev = @ + 1, !.usage = candidate.usage]
           event == IF isDelta THEN Delta(previous, next, delta.part, delta.size)
                    ELSE Upsert(candidate, previous.rev)
           result == MessageUpdate(c, m, delta, origin)
<1>1. \/ result.conv = Put(c, next) /\ result.events = <<event>>
      \/ result.conv = Put(c, counted) /\ result.events = <<event, Metrics(next, counted)>>
  <2>1. result = IF candidate.usage \in {previous.usage, None}
                 THEN Emits(Put(c, next), <<event>>)
                 ELSE Emits(Put(c, counted), <<event, Metrics(next, counted)>>)
    BY Zenon DEF MessageUpdate, Knows
  <2> HIDE DEF next, counted, event, candidate, result
  <2> QED BY <2>1 DEF Emits
<1> HIDE DEF result
<1>2. id \in Ids /\ Has(c, id)
  BY IdIsGood DEF GoodConv, Knows
<1> HIDE DEF id
<1>3. GoodEntry(previous) /\ previous.id = id
  BY <1>2, GetIsGood
<1> HIDE DEF previous, from
<1>4. /\ GoodEntry(candidate) /\ candidate.id = id /\ candidate.rev = previous.rev + 1
      /\ previous.rev \in Nat \ {0}
  <2>1. previous.rev \in Nat \ {0} /\ previous.rev + 1 \in Nat \ {0}
    BY <1>3 DEF GoodEntry
  <2> DEFINE r == previous.rev + 1
  <2>2. r \in Nat \ {0}
    BY <2>1
  <2> HIDE DEF r
  <2>3. \A f : /\ GoodEntry(Entry(id, m, from, r, f)) /\ Entry(id, m, from, r, f).id = id
               /\ Entry(id, m, from, r, f).rev = r
    BY <1>2, <2>2, EntryIsGood
  <2> QED BY <2>1, <2>3, Zenon DEF r
<1> HIDE DEF candidate
<1>5. GoodEntry(next) /\ next.id = id /\ next.rev = previous.rev + 1 /\ AcceptsEvent(event)
  <2>1. CASE isDelta
    <3> DEFINE k == delta.part
               u == IF previous.usage = None THEN candidate.usage ELSE previous.usage
    <3>1. k \in DOMAIN previous.parts /\ k \in DOMAIN candidate.parts /\ delta.size = 1
      BY <2>1 DEF IsDelta
    <3>2. next = [candidate EXCEPT !.parts[k].rev = previous.parts[k].rev + 1, !.usage = u]
      BY <2>1 DEF DeltaEntry
    <3>3. GoodContent(previous.parts[k]) /\ GoodContent(candidate.parts[k])
      BY <1>3, <1>4, <3>1 DEF GoodEntry
    <3> DEFINE part == [candidate.parts[k] EXCEPT !.rev = previous.parts[k].rev + 1]
    <3>4. previous.parts[k].rev \in Nat \ {0} /\ previous.parts[k].rev + 1 \in Nat \ {0}
      BY <3>3 DEF GoodContent
    <3>5. GoodContent(part)
      BY <3>3, <3>4, NextPartIsGood
    <3>6. /\ DOMAIN next = DOMAIN candidate
          /\ next.parts = [candidate.parts EXCEPT ![k] = part] /\ next.usage = u
          /\ \A f \in DOMAIN candidate \ {"parts", "usage"} : next[f] = candidate[f]
      BY <1>4, <3>2 DEF GoodEntry
    <3>7. next.parts[k].rev = previous.parts[k].rev + 1
      BY <3>1, <3>3, <3>6 DEF GoodContent
    <3>8. \A i \in DOMAIN next.parts : GoodContent(next.parts[i])
      <4> HIDE DEF part
      <4> QED BY <1>4, <3>5, <3>6 DEF GoodEntry
    <3>9. event = Delta(previous, next, k, delta.size)
      BY <2>1
    <3> HIDE DEF next, event, isDelta, part, u, k
    <3>10. GoodEntry(next) /\ next.id = id /\ next.rev = previous.rev + 1
      BY <1>4, <3>6, <3>8 DEF GoodEntry
    <3>11. AcceptsEvent(Delta(previous, next, k, delta.size))
      BY <1>4, <3>1, <3>4, <3>7, <3>10, NormalizerAssumption
         DEF AcceptsEvent, Delta, Advances, NormalizerAssumption
    <3> QED BY <3>9, <3>10, <3>11
  <2>2. CASE ~isDelta
    <3>1. next = candidate /\ event = Upsert(candidate, previous.rev)
      BY <2>2
    <3>2. AcceptsEvent(Upsert(candidate, previous.rev))
      BY <1>4, GoodIsAccepted DEF AcceptsEvent, Upsert
    <3> HIDE DEF next, event, isDelta
    <3> QED BY <1>4, <3>1, <3>2
  <2> QED BY <2>1, <2>2
<1> HIDE DEF next, event
<1>6. /\ GoodEntry(counted) /\ counted.id = id
      /\ counted.rev = next.rev + 1 /\ AcceptsEvent(Metrics(next, counted))
  <2>1. /\ DOMAIN counted = DOMAIN next /\ counted.rev = next.rev + 1
        /\ \A f \in DOMAIN next \ {"rev", "usage"} : counted[f] = next[f]
        /\ next.rev \in Nat \ {0}
    BY <1>5 DEF GoodEntry
  <2> HIDE DEF counted
  <2>2. GoodEntry(counted) /\ counted.id = id
    BY <1>5, <2>1 DEF GoodEntry
  <2>3. AcceptsEvent(Metrics(next, counted))
    BY <2>1 DEF AcceptsEvent, Metrics, Advances
  <2> QED BY <2>1, <2>2, <2>3
<1> HIDE DEF counted
<1>7. \A e : GoodEntry(e) /\ e.id = id =>
          GoodConv(Put(c, e)) /\ Has(Put(c, e), id) /\ Put(c, e).objects = c.objects
  BY PutIsGood
<1>8. \A d : d.objects = c.objects /\ Has(d, id) => Knows(d, m)
  BY Zenon DEF Knows, IdOf, id
<1>9. GoodConv(result.conv) /\ Knows(result.conv, m)
  BY <1>1, <1>5, <1>6, <1>7, <1>8
<1>10. GoodEvents(<<event>>)
  BY <1>5, OneEvent
<1>11. GoodEvents(<<event, Metrics(next, counted)>>)
  BY <1>5, <1>6, TupleFacts DEF GoodEvents
<1> QED BY <1>1, <1>9, <1>10, <1>11 DEF result

(* message_end: its entry is final, with the next revision.                *)
LEMMA MessageEndIsGood ==
  ASSUME NEW c, GoodConv(c), NEW m, GoodMessage(m), Knows(c, m), NEW origin
  PROVE  /\ GoodConv(MessageEnd(c, m, origin).conv)
         /\ GoodEvents(MessageEnd(c, m, origin).events)
<1> DEFINE id == IdOf(c, m)
           rev == Get(c, id).rev
           from == IF Get(c, id).origin # None THEN Get(c, id).origin ELSE origin
           e == Entry(id, m, from, rev + 1, TRUE)
<1>1. Identify(c, m) = c
  BY DEF Identify, Knows
<1>2. MessageEnd(c, m, origin) = Emits(Put(c, e), <<Finalized(e, rev)>>)
  BY <1>1, Zenon DEF MessageEnd, Knows
<1>3. id \in Ids /\ Has(c, id)
  BY IdIsGood DEF GoodConv, Knows
<1>4. rev \in Nat \ {0} /\ rev + 1 \in Nat \ {0}
  BY <1>3, GetIsGood DEF GoodEntry
<1> DEFINE next == rev + 1
<1>5. next \in Nat \ {0}
  BY <1>4
<1> HIDE DEF id, rev, from, next
<1>6. /\ GoodEntry(Entry(id, m, from, next, TRUE))
      /\ Entry(id, m, from, next, TRUE).final = TRUE
  <2>1. \A f : GoodEntry(Entry(id, m, from, next, f)) /\ Entry(id, m, from, next, f).final = f
    BY <1>3, <1>5, EntryIsGood
  <2> QED BY <2>1, Zenon
<1>7. GoodEntry(e) /\ e.final
  BY <1>6, Zenon DEF next
<1> HIDE DEF e
<1>8. AcceptsEvent(Finalized(e, rev))
  BY <1>4, <1>7, GoodIsAccepted DEF AcceptsEvent, Finalized
<1>9. GoodConv(Put(c, e))
  BY <1>7, PutIsGood
<1>10. GoodEvents(<<Finalized(e, rev)>>)
  BY <1>8, OneEvent
<1> QED BY <1>2, <1>9, <1>10 DEF Emits

(* A tool activity: the entry and the activity have their next revisions.  *)
LEMMA ToolActivityIsGood ==
  ASSUME NEW c, GoodConv(c), NEW call, NEW status
  PROVE  /\ GoodConv(ToolActivity(c, call, status).conv)
         /\ GoodEvents(ToolActivity(c, call, status).events)
<1> DEFINE owners == {i \in DOMAIN c.entries :
                         /\ c.entries[i].role = "assistant"
                         /\ \E p \in ToSet(c.entries[i].parts) : p.type = "toolCall" /\ p.call = call}
           latest == CHOOSE i \in owners : \A j \in owners : j <= i
           owner == c.entries[latest]
           before == {a \in c.calls : a.call = call}
           rev == IF before = {} THEN 1 ELSE (CHOOSE a \in before : TRUE).rev + 1
           activity == [call |-> call, status |-> status, rev |-> rev]
           activities == {a \in owner.activities : a.call # call} \cup {activity}
           updated == [owner EXCEPT !.rev = @ + 1, !.activities = activities]
           next == [Put(c, updated) EXCEPT !.calls = (@ \ before) \cup {activity}]
           result == ToolActivity(c, call, status)
<1>1. result = IF owners = {} THEN Emits(c, <<>>)
               ELSE Emits(next, <<Activity(owner, updated, activity)>>)
  BY Zenon DEF ToolActivity
<1> HIDE DEF result
<1>2. CASE owners = {}
  <2>1. result = Emits(c, <<>>)
    BY <1>1, <1>2, Zenon
  <2>2. GoodEvents(<<>>)
    BY EmptyFacts DEF GoodEvents
  <2> QED BY <2>1, <2>2 DEF Emits, result
<1>3. CASE owners # {}
  <2>0. result = Emits(next, <<Activity(owner, updated, activity)>>)
    BY <1>1, <1>3, Zenon
  <2>1. Len(c.entries) \in Nat /\ DOMAIN c.entries = 1..Len(c.entries)
    BY SeqFacts DEF GoodConv
  <2>2. latest \in owners
    <3>1. owners \subseteq 1..Len(c.entries)
      BY <2>1
    <3> HIDE DEF owners
    <3>2. \E i \in owners : \A j \in owners : j <= i
      BY <1>3, <2>1, <3>1, GreatestNumber
    <3> QED BY <3>2
  <2> HIDE DEF latest
  <2>3. GoodEntry(owner)
    BY <2>2, SeqFacts DEF GoodConv
  <2>4. rev \in Nat \ {0} /\ GoodActivity(activity) /\ activity.call = call
    <3>1. before # {} => (CHOOSE a \in before : TRUE) \in c.calls
      OBVIOUS
    <3>2. rev \in Nat \ {0}
      BY <3>1 DEF GoodConv, GoodActivity
    <3> HIDE DEF rev
    <3> QED BY <3>2 DEF GoodActivity
  <2> HIDE DEF owners, owner, before, rev, activity
  <2>5. /\ DOMAIN updated = DOMAIN owner /\ updated.rev = owner.rev + 1
        /\ updated.activities = activities /\ owner.rev \in Nat \ {0}
        /\ \A f \in DOMAIN owner \ {"rev", "activities"} : updated[f] = owner[f]
    BY <2>3 DEF GoodEntry
  <2>6. /\ \A a \in activities : GoodActivity(a)
        /\ \A a, b \in activities : a.call = b.call => a = b
    BY <2>3, <2>4 DEF GoodEntry
  <2> HIDE DEF updated, activities
  <2>7. GoodEntry(updated)
    BY <2>3, <2>5, <2>6 DEF GoodEntry
  <2>8. AcceptsEvent(Activity(owner, updated, activity))
    <3>1. AcceptsActivity(FramedActivity(activity))
      BY <2>4 DEF GoodActivity, AcceptsActivity, FramedActivity
    <3> QED BY <2>5, <3>1 DEF AcceptsEvent, Activity, Advances
  <2>9. GoodConv(Put(c, updated)) /\ Put(c, updated).calls = c.calls
    BY <2>7, PutIsGood
  <2>10. GoodConv(next)
    <3> DEFINE q == Put(c, updated)
    <3>1. GoodConv(q) /\ next = [q EXCEPT !.calls = (q.calls \ before) \cup {activity}]
      BY <2>9
    <3> HIDE DEF q, next
    <3> QED BY <2>4, <3>1 DEF GoodConv
  <2>11. GoodEvents(<<Activity(owner, updated, activity)>>)
    BY <2>8, OneEvent
  <2> HIDE DEF next
  <2> QED BY <2>0, <2>10, <2>11 DEF Emits, result
<1> QED BY <1>2, <1>3


(* What is said is accepted.                                               *)
FrameOK(x) ==
    /\ "kind" \in DOMAIN x
    /\ x.kind \in {"page", "older"} =>
           {"ok", "entries"} \subseteq DOMAIN x /\ (x.ok => AcceptsPage(FramedPage(x)))
    /\ x.kind = "event" => "event" \in DOMAIN x /\ AcceptsEvent(x.event)

Said(s) == \A x \in ToSet(s) : FrameOK(x)

(* The log is a forest, in which a parent comes before its children, of    *)
(* messages that can be rendered.                                          *)
LogOK(log) ==
    /\ IsSeq(log) /\ Upwards(log)
    /\ \A i \in DOMAIN log : DOMAIN log[i] = {"message", "parent"} /\ GoodMessage(log[i].message)

NodeOK(n) ==
    /\ DOMAIN n = {"session", "log", "leaf", "seq", "running", "shown", "inFlight", "origin",
                   "active", "settled"}
    /\ LogOK(n.log) /\ n.leaf \in 0..Len(n.log)

Speaking == {"user", "assistant", "toolResult"}

SdkOK(s, c) ==
    /\ DOMAIN s = {"phase", "message", "turns", "updates"}
    /\ s.message # None => s.phase \in Speaking /\ GoodMessage(s.message) /\ Knows(c, s.message)

(* The inductive invariant: of the message that is being streamed the      *)
(* conversation has an entry, and there is one only while the agent speaks.*)
FramesInv ==
    NodeOK(node) /\ GoodConv(conv) /\ SdkOK(sdk, conv) /\ Said(toClient) /\ FrameOK(answering)

(* A function on 1..k is a sequence of length k.                           *)
LEMMA MapFacts ==
  ASSUME NEW k \in Nat, NEW f, f = [i \in 1..k |-> f[i]]
  PROVE  IsSeq(f) /\ Len(f) = k /\ DOMAIN f = 1..k
<1>1. DOMAIN f = 1..k
  BY Zenon
<1>2. \A i \in 1..k : f[i] \in ToSet(f)
  BY <1>1, Zenon DEF ToSet
<1>3. f \in [1..k -> ToSet(f)]
  BY <1>2, Zenon
<1>4. IsSeq(f)
  BY <1>3, SeqDef DEF IsSeq
<1>5. Len(f) \in Nat /\ DOMAIN f = 1..Len(f)
  BY <1>4, SeqFacts
<1>6. Len(f) = k
  BY <1>1, <1>5
<1> QED BY <1>1, <1>4, <1>6

(* What is emitted is accepted if its events are.                          *)
LEMMA EventsAreSaid ==
  ASSUME IsSeq(toClient), Said(toClient), NEW n, NodeOK(n), NEW events, GoodEvents(events),
         Emit(n, events)
  PROVE  /\ Said(toClient') /\ NodeOK(node')
<1> DEFINE t == [i \in DOMAIN events |-> Event(i, events[i])]
<1>1. IsSeq(t)
  BY EmittedSpeaks DEF GoodEvents, Answers
<1>2. toClient' = toClient \o t
  BY Zenon DEF Emit
<1>3. ASSUME NEW x \in ToSet(t)
      PROVE  FrameOK(x)
  <2>1. PICK i \in DOMAIN events : x = Event(i, events[i])
    BY DEF ToSet
  <2>2. AcceptsEvent(events[i])
    BY <2>1, SeqFacts DEF GoodEvents
  <2>3. DOMAIN x = {"kind", "session", "n", "event"} /\ x.kind = "event" /\ x.event = events[i]
    BY <2>1 DEF Event
  <2> QED BY <2>2, <2>3 DEF FrameOK
<1> HIDE DEF t
<1>4. ToSet(toClient') = ToSet(toClient) \cup ToSet(t)
  BY <1>1, <1>2, ConcatFacts
<1>5. Said(toClient')
  BY <1>3, <1>4, Zenon DEF Said
<1>6. NodeOK(node')
  <2>1. node' = [n EXCEPT !.seq = @ + Len(events)]
    BY Zenon DEF Emit
  <2>2. DOMAIN node' = DOMAIN n /\ node'.log = n.log /\ node'.leaf = n.leaf
    BY <2>1 DEF NodeOK
  <2> QED BY <2>2 DEF NodeOK
<1> QED BY <1>5, <1>6

(* So is an answer.                                                        *)
LEMMA AnswersAreSaid ==
  ASSUME IsSeq(toClient), Said(toClient), NEW x, FrameOK(x)
  PROVE  toClient' = Append(toClient, x) => Said(toClient')
<1>1. ToSet(Append(toClient, x)) = ToSet(toClient) \cup {x}
  BY AppendFacts
<1> QED BY <1>1, Zenon DEF Said

-----------------------------------------------------------------------------
(* A page of any part of the branch is accepted, no entry of it twice.     *)
LEMMA PageIsAccepted ==
  ASSUME NodeOK(node), NEW r, r.kind \in {"page", "older"}, Valid(r)
  PROVE  FrameOK(PageOf(r))
<1> DEFINE kinds == {i \in DOMAIN node.log : node.log[i].message.role # "marker"}
           N == Len(node.log)
           end == IF r.cursor = None THEN Len(Messages) ELSE r.cursor.end
           start == IF end > Limit THEN end - Limit ELSE 0
           at(i) == Messages[start + i]
           entry(i) == PersistentEntry(at(i), node.log[at(i)].message)
           page == PageOf(r)
           k == end - start
<1>1. Upwards(node.log) /\ DOMAIN node.log = 1..N /\ N \in Nat /\ node.leaf \in 0..N
  BY SeqFacts DEF NodeOK, LogOK
<1>2. Ascends(Messages, node.leaf, kinds)
  BY <1>1, PathFacts DEF Messages
<1>3. /\ Len(Messages) \in Nat /\ DOMAIN Messages = 1..Len(Messages)
      /\ \A j \in DOMAIN Messages : Messages[j] \in DOMAIN node.log
      /\ \A a, b \in DOMAIN Messages : a < b => Messages[a] < Messages[b]
  BY <1>2, SeqFacts DEF Ascends
<1>4. end \in 0..Len(Messages)
  BY <1>3 DEF Valid
<1>5. /\ page.kind = r.kind /\ page.entries = [i \in 1..k |-> entry(i)]
      /\ {"kind", "ok", "entries"} \subseteq DOMAIN page /\ "event" \notin DOMAIN page
  BY DEF PageOf
<1> HIDE DEF page, kinds, end
<1>6. k \in Nat /\ k <= Limit /\ start \in Nat /\ start + k <= Len(Messages)
  BY <1>3, <1>4, SessionAssumption DEF SessionAssumption
<1> HIDE DEF start, k
<1>7. ASSUME NEW i \in 1..k
      PROVE  start + i \in DOMAIN Messages /\ at(i) \in 1..N
  <2>1. start + i \in DOMAIN Messages
    BY <1>3, <1>6
  <2> QED BY <1>1, <1>3, <2>1
<1>8. \A a, b \in 1..k : at(a) = at(b) => a = b
  <2> TAKE a \in 1..k, b \in 1..k
  <2>1. /\ start + a \in DOMAIN Messages /\ start + b \in DOMAIN Messages
        /\ at(a) \in Nat /\ at(b) \in Nat
    BY <1>1, <1>7
  <2>2. (a < b => start + a < start + b) /\ (b < a => start + b < start + a)
    BY <1>6
  <2>3. (a < b => at(a) < at(b)) /\ (b < a => at(b) < at(a))
    BY <1>3, <2>1, <2>2
  <2> HIDE DEF at
  <2> QED BY <2>1, <2>3
<1>9. \A i \in 1..k : GoodEntry(entry(i)) /\ entry(i).id = PersistentId(at(i))
  <2> TAKE i \in 1..k
  <2> DEFINE m == node.log[at(i)].message
             id == PersistentId(at(i))
  <2>1. GoodMessage(m)
    BY <1>1, <1>7 DEF NodeOK, LogOK
  <2>2. id \in Ids
    BY <1>1, <1>7 DEF PersistentId, Ids
  <2> HIDE DEF m, id, at
  <2>3. 1 \in Nat \ {0}
    OBVIOUS
  <2>4. \A f : GoodEntry(Entry(id, m, None, 1, f)) /\ Entry(id, m, None, 1, f).id = id
    BY <2>1, <2>2, <2>3, EntryIsGood
  <2>5. entry(i) = Entry(id, m, None, 1, TRUE)
    BY Zenon DEF PersistentEntry, m, id
  <2> HIDE DEF entry
  <2> QED BY <2>4, <2>5, Zenon DEF id
<1> HIDE DEF at, entry
<1> DEFINE framed == FramedPage(page)
<1>10. framed.entries = [i \in 1..k |-> FramedEntry(entry(i))]
  <2>1. DOMAIN page.entries = 1..k /\ \A i \in 1..k : page.entries[i] = entry(i)
    BY <1>5
  <2>2. framed.entries = [i \in DOMAIN page.entries |-> FramedEntry(page.entries[i])]
    BY DEF FramedPage
  <2> QED BY <2>1, <2>2
<1> HIDE DEF framed
<1>11. DOMAIN framed.entries = 1..k /\ \A i \in 1..k : framed.entries[i] = FramedEntry(entry(i))
  BY <1>10
<1>12. Len(framed.entries) = k
  BY <1>6, <1>10, <1>11, MapFacts
<1>13. \A e \in ToSet(framed.entries) : AcceptsEntry(e)
  <2> TAKE e \in ToSet(framed.entries)
  <2>1. PICK i \in 1..k : e = FramedEntry(entry(i))
    BY <1>11 DEF ToSet
  <2> QED BY <1>9, <2>1, GoodIsAccepted
<1>14. IsInjective([i \in DOMAIN framed.entries |-> framed.entries[i].entryId])
  <2>1. \A i \in 1..k : framed.entries[i].entryId = PersistentId(at(i))
    <3>1. \A e : FramedEntry(e).entryId = e.id
      BY DEF FramedEntry
    <3> QED BY <1>9, <1>11, <3>1
  <2>2. \A a, b : PersistentId(a) = PersistentId(b) => a = b
    BY DEF PersistentId
  <2> QED BY <1>8, <1>11, <2>1, <2>2 DEF IsInjective
<1>15. AcceptsPage(framed)
  BY <1>6, <1>12, <1>13, <1>14 DEF AcceptsPage
<1> QED BY <1>5, <1>15 DEF FrameOK, page, framed

(* A page that is refused, or of an empty session, too.                    *)
LEMMA EmptyPageIsAccepted ==
  ASSUME NEW r, r.kind \in {"page", "older"}, NEW ok
  PROVE  FrameOK(Empty(r, ok))
<1> DEFINE page == Empty(r, ok)
           framed == FramedPage(page)
<1>1. /\ page.kind = r.kind /\ page.entries = <<>>
      /\ {"kind", "ok", "entries"} \subseteq DOMAIN page
  BY DEF Empty
<1> HIDE DEF page
<1>2. DOMAIN <<>> = {}
  BY EmptyFacts
<1>3. framed.entries = [i \in {} |-> FramedEntry(page.entries[i])]
  BY <1>1, <1>2 DEF FramedPage
<1> HIDE DEF framed
<1>4. DOMAIN framed.entries = {}
  BY <1>3
<1>5. Len(framed.entries) = 0
  <2>1. framed.entries = [i \in 1..0 |-> framed.entries[i]] /\ 0 \in Nat
    BY <1>3
  <2> QED BY <2>1, MapFacts
<1>6. AcceptsPage(framed)
  BY <1>4, <1>5, SessionAssumption DEF AcceptsPage, IsInjective, ToSet, SessionAssumption
<1> QED BY <1>1, <1>6 DEF FrameOK, page, framed

-----------------------------------------------------------------------------
(* The tree after any change of branch is accepted.                        *)
LEMMA TreeIsAccepted ==
  ASSUME NodeOK(node)
  PROVE  AcceptsTree(TreeSnapshot)
<1> DEFINE log == node.log
           N == Len(log)
           path == Branch
           leaf == node.leaf
           entries == StoredEntries
<1>1. Upwards(log) /\ DOMAIN log = 1..N /\ N \in Nat /\ leaf \in 0..N
  BY SeqFacts DEF NodeOK, LogOK
<1>2. Ascends(path, leaf, DOMAIN log) /\ Leads(path, leaf, log)
  BY <1>1, PathFacts DEF Branch
<1>3. DOMAIN entries = 1..N /\ \A i \in 1..N : entries[i].parent = log[i].parent
  BY <1>1 DEF StoredEntries
<1>4. /\ Len(path) \in Nat /\ DOMAIN path = 1..Len(path) /\ (path = <<>> <=> Len(path) = 0)
      /\ ToSet(path) \subseteq 1..N
      /\ \A j \in DOMAIN path : path[j] \in ToSet(path)
      /\ \A a, b \in DOMAIN path : a < b => path[a] < path[b]
  BY <1>1, <1>2, SeqFacts DEF Ascends
<1>5. \A i \in 1..N : log[i].parent \in 0..(i - 1)
  BY <1>1 DEF Upwards
<1> HIDE DEF path, entries, log, leaf, N
<1>6. ASSUME NEW filed
      PROVE  AcceptsTree(Tree(entries, path, leaf, filed))
  <2> DEFINE tree == Tree(entries, path, leaf, filed)
             active == ToSet(path)
  <2>1. /\ DOMAIN tree.nodes = 1..N /\ tree.path = path /\ tree.leaf = leaf
        /\ tree.canClone = (filed /\ leaf # 0 /\ \E i \in active : entries[i].user)
        /\ tree.nodes = [i \in DOMAIN entries |->
                           [parent |-> Parent(entries, i), user |-> entries[i].user,
                            depth |-> Depth(Levels(entries), i), onPath |-> i \in active,
                            hasChildren |-> Children(entries, i) # {},
                            canEdit |-> entries[i].user,
                            canFork |-> entries[i].user /\ (Parent(entries, i) = 0 \/ filed)]]
    BY <1>3, Zenon DEF Tree
  <2> HIDE DEF tree
  <2>2. \A i \in 1..N : /\ tree.nodes[i].parent = log[i].parent
                        /\ tree.nodes[i].user = entries[i].user
                        /\ tree.nodes[i].onPath = (i \in active)
                        /\ tree.nodes[i].canEdit = entries[i].user
                        /\ tree.nodes[i].canFork =
                               (entries[i].user /\ (Parent(entries, i) = 0 \/ filed))
    BY <1>3, <2>1 DEF Parent
  <2>3. NotItsOwnParent(tree)
    BY <1>5, <2>1, <2>2 DEF NotItsOwnParent
  <2>4. AcceptsNodes(tree)
    BY <2>1, <2>2, Zenon DEF AcceptsNodes
  <2>5. AcceptsPath(tree)
    <3>1. IsInjective(path)
      <4>1. ASSUME NEW a \in DOMAIN path, NEW b \in DOMAIN path, path[a] = path[b]
            PROVE  a = b
        <5>1. /\ a \in Nat /\ b \in Nat /\ (a < b => path[a] < path[b]) /\ (b < a => path[b] < path[a])
              /\ path[a] \in Nat
          BY <1>4
        <5> QED BY <4>1, <5>1
      <4> QED BY <4>1, Zenon DEF IsInjective
    <3>2. ASSUME NEW j \in DOMAIN path
          PROVE  IF j = 1 THEN tree.nodes[path[j]].parent \notin DOMAIN tree.nodes
                 ELSE tree.nodes[path[j]].parent = path[j - 1]
      <4>1. path[j] \in 1..N /\ log[path[j]].parent = IF j = 1 THEN 0 ELSE path[j - 1]
        BY <1>2, <1>4, <3>2 DEF Leads
      <4>2. 0 \notin 1..N
        OBVIOUS
      <4> QED BY <2>1, <2>2, <4>1, <4>2
    <3> QED BY <1>4, <2>1, <3>1, <3>2 DEF AcceptsPath
  <2>6. AcceptsLeaf(tree)
    <3>1. CASE path = <<>>
      BY <1>2, <2>1, <3>1 DEF AcceptsLeaf, Leads
    <3>2. CASE path # <<>>
      <4>1. leaf = Last(path)
        BY <1>2, <3>2 DEF Leads, Last
      <4>2. tree.canClone => \E i \in ToSet(path) : tree.nodes[i].user
        BY <1>4, <2>1, <2>2
      <4> QED BY <2>1, <3>2, <4>1, <4>2 DEF AcceptsLeaf
    <3> QED BY <3>1, <3>2
  <2> QED BY <2>3, <2>4, <2>5, <2>6 DEF AcceptsTree, tree
<1>7. AcceptsTree(Tree(entries, path, leaf, TRUE))
  BY <1>6, Zenon
<1> QED BY <1>7 DEF TreeSnapshot, entries, path, leaf


(* What is given up remains accepted.                                      *)
LEMMA UnawaitedIsSaid ==
  ASSUME NEW x, FrameOK(x), NEW P
  PROVE  FrameOK(Unawaited(x, P))
<1>1. CASE ~("for" \in DOMAIN x /\ x.for \in P)
  BY <1>1 DEF Unawaited
<1>2. CASE "for" \in DOMAIN x /\ x.for \in P
  <2> DEFINE y == [x EXCEPT !.for = "none"]
  <2>1. Unawaited(x, P) = y
    BY <1>2 DEF Unawaited
  <2>2. /\ DOMAIN y = DOMAIN x /\ y.kind = x.kind
        /\ "ok" \in DOMAIN x => y.ok = x.ok
        /\ "entries" \in DOMAIN x => y.entries = x.entries
        /\ "event" \in DOMAIN x => y.event = x.event
    BY DEF FrameOK
  <2> HIDE DEF y
  <2>3. "entries" \in DOMAIN x => FramedPage(y) = FramedPage(x)
    BY <2>2 DEF FramedPage
  <2> QED BY <2>1, <2>2, <2>3 DEF FrameOK
<1> QED BY <1>1, <1>2

(* Requests are sent, and perhaps the first message has arrived.           *)
Asks ==
    \E requests, P, rest :
        /\ Ask(requests, P, rest)
        /\ rest = toClient \/ (toClient # <<>> /\ rest = Tail(toClient))

(* A step of the view says nothing on behalf of the Node:                  *)
LEMMA AskSays ==
  ASSUME WireOK, FramesInv, Asks, UNCHANGED <<node, conv, sdk>>
  PROVE  FramesInv'
<1>1. PICK requests, P, rest : /\ Ask(requests, P, rest)
                               /\ rest = toClient \/ (toClient # <<>> /\ rest = Tail(toClient))
  BY Zenon DEF Asks
<1>2. IsSeq(rest) /\ ToSet(rest) \subseteq ToSet(toClient)
  BY <1>1, ArrivalFacts DEF WireOK
<1>3. toClient' = UnawaitedAll(rest, P) /\ answering' = Unawaited(answering, P)
  BY <1>1, Zenon DEF Ask
<1>4. FrameOK(answering')
  BY <1>3, UnawaitedIsSaid DEF FramesInv
<1>5. Said(toClient')
  <2>1. \A y \in ToSet(toClient') : \E x \in ToSet(rest) : y = Unawaited(x, P)
    BY <1>2, <1>3, UnawaitedAllFacts
  <2> QED BY <1>2, <2>1, UnawaitedIsSaid DEF FramesInv, Said
<1> QED BY <1>4, <1>5, Zenon DEF FramesInv

(* it only asks.                                                           *)
LEMMA ViewAsks ==
  ASSUME Receive \/ Ui
  PROVE  Asks /\ UNCHANGED <<node, conv, sdk>>
<1>1. ASSUME toClient # <<>>, Nothing
      PROVE  Asks
  BY <1>1, Zenon DEF Nothing, Asks
<1>2. ASSUME toClient # <<>>, NEW v, Refresh(v)
      PROVE  Asks
  BY <1>2, Zenon DEF Refresh, Asks
<1>3. ASSUME NEW requests, NEW P, Ask(requests, P, toClient)
      PROVE  Asks
  BY <1>3, Zenon DEF Asks
<1>4. ASSUME toClient # <<>>, NEW requests, NEW P, Ask(requests, P, Tail(toClient))
      PROVE  Asks
  BY <1>4, Zenon DEF Asks
<1>5. CASE PageArrives
  BY <1>1, <1>5, Zenon DEF PageArrives, Arrives
<1>6. CASE TreeArrives
  BY <1>1, <1>4, <1>6 DEF TreeArrives, Arrives
<1>7. CASE MutationArrives
  BY <1>4, <1>7, Zenon DEF MutationArrives, Arrives
<1>8. CASE OlderArrives
  BY <1>1, <1>8, Zenon DEF OlderArrives, Arrives
<1>9. CASE AdmissionArrives
  BY <1>1, <1>9, Zenon DEF AdmissionArrives, Arrives
<1>10. CASE EventArrives
  <2>1. ASSUME NEW v, NEW event, Apply(v, event)
        PROVE  Nothing \/ \E w : Refresh(w)
    BY <2>1, Zenon DEF Apply
  <2> HIDE DEF Asks
  <2> QED BY <1>1, <1>2, <1>10, <2>1, Zenon DEF EventArrives, Arrives
<1>11. CASE \E s \in {Away, node.session} : Select(s)
  BY <1>3, <1>11, Zenon DEF Select
<1>12. CASE RefreshList
  BY <1>3, <1>12, Zenon DEF RefreshList
<1>13. CASE RequestOlder
  BY <1>3, <1>13, Zenon DEF RequestOlder
<1>14. CASE StartMutation
  BY <1>3, <1>14, Zenon DEF StartMutation
<1>15. CASE \E c \in Prompts : Submit(c)
  BY <1>3, <1>15, Zenon DEF Submit
<1> QED BY <1>5, <1>6, <1>7, <1>8, <1>9, <1>10, <1>11, <1>12, <1>13, <1>14, <1>15
        DEF Receive, Ui

-----------------------------------------------------------------------------
(* Showing entries changes no entry.                                       *)
LEMMA ShowIsGood ==
  ASSUME NEW c, GoodConv(c), NEW entries, SdkOK(sdk, c)
  PROVE  GoodConv(Show(c, entries)) /\ SdkOK(sdk, Show(c, entries))
<1> DEFINE d == Show(c, entries)
<1>1. /\ DOMAIN d = DOMAIN c
      /\ d.objects = c.objects /\ d.entries = c.entries /\ d.calls = c.calls
  BY DEF Show, GoodConv
<1> HIDE DEF d
<1>2. GoodConv(d)
  BY <1>1 DEF GoodConv
<1>3. \A m : Knows(c, m) => Knows(d, m)
  BY <1>1, Zenon DEF Knows, Has, IdOf
<1> QED BY <1>2, <1>3 DEF SdkOK, d

(* Reading a page,                                                         *)
LEMMA ReadsGood ==
  ASSUME WireOK, FramesInv, ReadHistory
  PROVE  FramesInv'
<1> DEFINE r == Head(toNode)
<1>1. r.kind \in {"page", "older"} /\ UNCHANGED <<node, sdk, toClient>>
  BY DEF ReadHistory, Request
<1>2. \/ answering' = Empty(r, r.session = Away) /\ conv' = conv
      \/ Valid(r) /\ answering' = PageOf(r) /\ conv' = Show(conv, PageOf(r).entries)
  BY Zenon DEF ReadHistory
<1> HIDE DEF r
<1>3. \A ok : FrameOK(Empty(r, ok))
  BY <1>1, EmptyPageIsAccepted
<1>4. Valid(r) => FrameOK(PageOf(r))
  BY <1>1, PageIsAccepted DEF FramesInv
<1>5. FrameOK(answering')
  BY <1>2, <1>3, <1>4, Zenon
<1>6. GoodConv(conv') /\ SdkOK(sdk, conv')
  BY <1>2, ShowIsGood DEF FramesInv
<1> QED BY <1>1, <1>5, <1>6 DEF FramesInv

(* having none,                                                            *)
LEMMA NoAnswerIsSaid == FrameOK(NoAnswer)
  BY DEF FrameOK, NoAnswer

(* writing it,                                                             *)
LEMMA AnswersGood ==
  ASSUME WireOK, FramesInv, AnswerHistory
  PROVE  FramesInv'
<1>1. toClient' = Append(toClient, answering) /\ answering' = NoAnswer /\ UNCHANGED <<node, conv, sdk>>
  BY Zenon DEF AnswerHistory, Reply
<1>2. Said(toClient')
  BY <1>1, AnswersAreSaid DEF FramesInv, WireOK
<1> QED BY <1>1, <1>2, NoAnswerIsSaid DEF FramesInv

(* telling the tree,                                                       *)
LEMMA TellsGood ==
  ASSUME WireOK, FramesInv, ReadTree
  PROVE  FramesInv'
<1> DEFINE x == [kind |-> "tree", for |-> Head(toNode).for, session |-> Head(toNode).session,
                 rev |-> IF Head(toNode).session = Away THEN None ELSE Revision]
<1>1. toClient' = Append(toClient, x) /\ UNCHANGED <<node, conv, sdk, answering>>
  BY DEF ReadTree, Reply
<1>2. FrameOK(x)
  BY DEF FrameOK
<1> HIDE DEF x
<1>3. Said(toClient')
  BY <1>1, <1>2, AnswersAreSaid DEF FramesInv, WireOK
<1> QED BY <1>1, <1>3 DEF FramesInv

(* Flags of the session, and where the event sequence is.                  *)
LEMMA FlagsKeep ==
  ASSUME NodeOK(node)
  PROVE  /\ \A a, f, o : NodeOK([node EXCEPT !.active = a, !.inFlight = f, !.origin = o])
         /\ \A a, s : NodeOK([node EXCEPT !.active = a, !.settled = s])
         /\ \A f, o, s : NodeOK([node EXCEPT !.inFlight = f, !.origin = o, !.settled = s])
         /\ \A a, s, h : NodeOK([node EXCEPT !.active = a, !.settled = s, !.shown = h])
         /\ \A r, h : NodeOK([node EXCEPT !.running = r, !.shown = h])
         /\ \A q : NodeOK([node EXCEPT !.seq = q])
  BY DEF NodeOK

(* admitting a prompt,                                                     *)
LEMMA SubmitsGood ==
  ASSUME WireOK, FramesInv, SubmitPrompt
  PROVE  FramesInv'
<1> DEFINE c == Head(toNode).cmd
<1>1. UNCHANGED <<conv, answering>>
  BY DEF SubmitPrompt
<1>2. \A status : FrameOK(Admission(c, status))
  BY DEF FrameOK, Admission
<1>3. \A status : Reply(Admission(c, status)) => Said(toClient')
  BY <1>2, AnswersAreSaid DEF Reply, FramesInv, WireOK
<1>4. CASE Idle /\ Accept(c)
  <2>1. NodeOK(node')
    <3>1. node' = [node EXCEPT !.active = c, !.inFlight = TRUE, !.origin = c]
      BY <1>4 DEF Accept
    <3>2. \A a, f, o : NodeOK([node EXCEPT !.active = a, !.inFlight = f, !.origin = o])
      BY FlagsKeep DEF FramesInv
    <3> QED BY <3>1, <3>2, Zenon
  <2>2. SdkOK(sdk', conv)
    BY <1>4 DEF Idle, IsRunning, Accept, FramesInv, SdkOK, Speaking
  <2>3. Said(toClient')
    BY <1>3, <1>4 DEF Accept
  <2> QED BY <1>1, <2>1, <2>2, <2>3 DEF FramesInv
<1>5. CASE Idle /\ Uncertain(c)
  <2>1. NodeOK(node')
    <3>1. node' = [node EXCEPT !.active = c, !.settled = TRUE]
      BY <1>5 DEF Uncertain
    <3>2. \A a, s : NodeOK([node EXCEPT !.active = a, !.settled = s])
      BY FlagsKeep DEF FramesInv
    <3> QED BY <3>1, <3>2, Zenon
  <2>2. Said(toClient') /\ sdk' = sdk
    BY <1>3, <1>5 DEF Uncertain
  <2> QED BY <1>1, <2>1, <2>2 DEF FramesInv
<1>6. CASE Reject(c)
  <2> DEFINE t == <<Admission(c, "rejected"), Event(1, Completed(c))>>
  <2>1. toClient' = toClient \o t /\ sdk' = sdk /\ node' = [node EXCEPT !.seq = node.seq + 1]
    BY <1>6 DEF Reject
  <2>2. NodeOK(node')
    BY <2>1, FlagsKeep DEF FramesInv
  <2>3. FrameOK(Event(1, Completed(c)))
    BY DEF FrameOK, Event, Completed, AcceptsEvent
  <2>4. IsSeq(t) /\ \A x \in ToSet(t) : FrameOK(x)
    BY <1>2, <2>3, TupleFacts
  <2> HIDE DEF t
  <2>5. ToSet(toClient') = ToSet(toClient) \cup ToSet(t)
    BY <2>1, <2>4, ConcatFacts DEF WireOK
  <2>6. Said(toClient')
    BY <2>4, <2>5 DEF Said, FramesInv
  <2> QED BY <1>1, <2>1, <2>2, <2>6 DEF FramesInv
<1> QED BY <1>4, <1>5, <1>6 DEF SubmitPrompt

(* and settling its command keep the invariant.                            *)
LEMMA SettlesGood ==
  ASSUME WireOK, FramesInv, SettleCommand
  PROVE  FramesInv'
<1> DEFINE ended == IF node.shown THEN <<Running(FALSE)>> ELSE <<>>
           events == ended \o <<Completed(node.active)>>
           n == [node EXCEPT !.active = None, !.settled = FALSE, !.shown = FALSE]
<1>1. Emit(n, events) /\ UNCHANGED <<conv, sdk, answering>>
  BY Zenon DEF SettleCommand
<1>2. NodeOK(n)
  <2>1. \A a, s, h : NodeOK([node EXCEPT !.active = a, !.settled = s, !.shown = h])
    BY FlagsKeep DEF FramesInv
  <2> QED BY <2>1, Zenon
<1>3. AcceptsEvent(Running(FALSE)) /\ AcceptsEvent(Completed(node.active))
  BY DEF AcceptsEvent, Running, Completed
<1>4. GoodEvents(events)
  <2>1. GoodEvents(ended) /\ GoodEvents(<<Completed(node.active)>>)
    BY <1>3, OneEvent, EmptyFacts DEF GoodEvents
  <2> HIDE DEF ended
  <2> QED BY <2>1, ConcatFacts DEF GoodEvents
<1> HIDE DEF events, n
<1>5. Said(toClient') /\ NodeOK(node')
  BY <1>1, <1>2, <1>4, EventsAreSaid DEF FramesInv, WireOK
<1> QED BY <1>1, <1>5 DEF FramesInv


(* The copy of a path is a log.                                            *)
LEMMA CopyIsLog ==
  ASSUME NodeOK(node), NEW i \in 0..Len(node.log)
  PROVE  LogOK(CopyOf(i)) /\ Len(CopyOf(i)) \in 0..Len(CopyOf(i))
<1> DEFINE path == PathTo(i, DOMAIN node.log)
           copy == CopyOf(i)
           N == Len(node.log)
<1>1. Upwards(node.log) /\ DOMAIN node.log = 1..N /\ N \in Nat
  BY SeqFacts DEF NodeOK, LogOK
<1>2. Ascends(path, i, DOMAIN node.log)
  BY <1>1, PathFacts
<1>3. Len(path) \in Nat /\ DOMAIN path = 1..Len(path) /\ \A j \in DOMAIN path : path[j] \in 1..N
  BY <1>1, <1>2, SeqFacts DEF Ascends
<1>4. copy = [j \in DOMAIN path |-> [message |-> [node.log[path[j]].message EXCEPT !.n = 0],
                                     parent |-> j - 1]]
  BY DEF CopyOf
<1> HIDE DEF copy, path
<1>5. IsSeq(copy) /\ DOMAIN copy = DOMAIN path /\ Len(copy) = Len(path)
  <2>1. DOMAIN copy = 1..Len(path) /\ copy = [j \in 1..Len(path) |-> copy[j]]
    BY <1>3, <1>4
  <2> QED BY <1>3, <2>1, MapFacts
<1>6. ASSUME NEW j \in DOMAIN copy
      PROVE  /\ DOMAIN copy[j] = {"message", "parent"}
             /\ GoodMessage(copy[j].message) /\ copy[j].parent = j - 1
  <2> DEFINE m == node.log[path[j]].message
             n == [m EXCEPT !.n = 0]
  <2>1. GoodMessage(m)
    BY <1>1, <1>3, <1>5 DEF NodeOK, LogOK
  <2> HIDE DEF m
  <2>2. DOMAIN n = DOMAIN m /\ n.parts = m.parts
    BY <2>1 DEF GoodMessage
  <2> HIDE DEF n
  <2>3. GoodMessage(n)
    BY <2>1, <2>2 DEF GoodMessage
  <2>4. copy[j] = [message |-> n, parent |-> j - 1]
    BY <1>4, <1>5 DEF n, m
  <2> QED BY <2>3, <2>4
<1>7. Upwards(copy)
  <2>1. \A j \in 1..Len(copy) : copy[j].parent = j - 1 /\ j - 1 \in 0..(j - 1)
    BY <1>3, <1>5, <1>6
  <2> QED BY <1>3, <1>5, <2>1 DEF Upwards
<1>8. Len(copy) \in 0..Len(copy)
  BY <1>3, <1>5
<1> QED BY <1>5, <1>6, <1>7, <1>8 DEF LogOK, copy

(* A new session starts with an empty conversation.                        *)
LEMMA NewIsGood == \A s : GoodConv(NewConversation(s))
  BY EmptyFacts DEF GoodConv, NewConversation

(* A branch action keeps the invariant; a session is replaced when no      *)
(* message of the old conversation is being streamed.                      *)
LEMMA MutatesGood ==
  ASSUME WireOK, FramesInv, Mutate
  PROVE  FramesInv'
<1>1. UNCHANGED <<sdk, answering>>
  BY DEF Mutate
<1>2. \A ok, s : FrameOK(MutationAnswer(ok, s))
  BY DEF FrameOK, MutationAnswer
<1>3. \A ok, s : Reply(MutationAnswer(ok, s)) => Said(toClient')
  BY <1>2, AnswersAreSaid DEF Reply, FramesInv, WireOK
<1>4. /\ DOMAIN node.log = 1..Len(node.log) /\ Len(node.log) \in Nat /\ NodeOK(node)
      /\ \A i \in DOMAIN node.log : node.log[i].parent \in 0..(i - 1)
  BY SeqFacts DEF FramesInv, NodeOK, LogOK, Upwards
<1>5. CASE RefuseMutation
  BY <1>1, <1>3, <1>5 DEF RefuseMutation, FramesInv
<1>6. ASSUME NEW r, Navigate(r)
      PROVE  FramesInv'
  <2>1. /\ node' = [node EXCEPT !.leaf = Before(r.entry)] /\ conv' = conv
        /\ r.entry \in DOMAIN node.log
    BY <1>6 DEF Navigate
  <2>2. Before(r.entry) \in 0..Len(node.log)
    BY <1>4, <2>1 DEF Before
  <2>3. /\ DOMAIN node' = DOMAIN node /\ node'.log = node.log
        /\ node'.leaf = Before(r.entry)
    BY <1>4, <2>1 DEF NodeOK
  <2>4. NodeOK(node')
    BY <1>4, <2>2, <2>3 DEF NodeOK
  <2>5. Said(toClient')
    <3>1. Reply(MutationAnswer(TRUE, node.session))
      BY <1>6, Zenon DEF Navigate
    <3> QED BY <1>3, <3>1, Zenon
  <2> QED BY <1>1, <2>1, <2>4, <2>5 DEF FramesInv
<1>7. ASSUME Idle, NEW i \in 0..Len(node.log), ForkAt(i)
      PROVE  FramesInv'
  <2> DEFINE s == node.session + 1
             copy == CopyOf(i)
  <2>1. /\ conv' = NewConversation(s)
        /\ node' = [node EXCEPT !.session = s, !.log = copy, !.leaf = Len(copy),
                                !.seq = 0, !.running = FALSE, !.inFlight = FALSE, !.origin = None]
    BY <1>7, Zenon DEF ForkAt
  <2>2. LogOK(copy) /\ Len(copy) \in 0..Len(copy)
    BY <1>4, CopyIsLog
  <2> HIDE DEF s, copy
  <2>3. DOMAIN node' = DOMAIN node /\ node'.log = copy /\ node'.leaf = Len(copy)
    BY <1>4, <2>1 DEF NodeOK
  <2>4. NodeOK(node')
    BY <1>4, <2>2, <2>3 DEF NodeOK
  <2>5. GoodConv(conv')
    BY <2>1, NewIsGood
  <2>6. SdkOK(sdk, conv')
    BY <1>7 DEF Idle, IsRunning, FramesInv, SdkOK, Speaking
  <2>7. Said(toClient')
    <3>1. Reply(MutationAnswer(TRUE, s))
      BY <1>7, Zenon DEF ForkAt, s
    <3> QED BY <1>3, <3>1, Zenon
  <2> QED BY <1>1, <2>4, <2>5, <2>6, <2>7 DEF FramesInv
<1>8. ASSUME Idle, NEW r, Fork(r)
      PROVE  FramesInv'
  <2>1. r.entry \in DOMAIN node.log /\ ForkAt(node.log[r.entry].parent)
    BY <1>8, Zenon DEF Fork
  <2>2. node.log[r.entry].parent \in 0..Len(node.log)
    BY <1>4, <2>1
  <2> QED BY <1>7, <1>8, <2>1, <2>2
<1>9. ASSUME Idle, NEW r, Clone(r)
      PROVE  FramesInv'
  <2>1. ForkAt(node.leaf) /\ node.leaf \in 0..Len(node.log)
    BY <1>4, <1>9, Zenon DEF Clone, NodeOK
  <2> QED BY <1>7, <1>9, <2>1
<1> QED BY <1>5, <1>6, <1>8, <1>9, Zenon DEF Mutate

-----------------------------------------------------------------------------
(* The agent handles an event: what the normaliser made of it is said.     *)
LEMMA HandledIsSaid ==
  ASSUME IsSeq(toClient), Said(toClient), NEW n, NodeOK(n), NEW result, Handle(n, result),
         GoodConv(result.conv), GoodEvents(result.events)
  PROVE  Said(toClient') /\ NodeOK(node') /\ GoodConv(conv') /\ conv' = result.conv
<1>1. Emit(n, result.events) /\ conv' = result.conv
  BY DEF Handle
<1> QED BY <1>1, EventsAreSaid

(* A message as it starts.                                                 *)
LEMMA FirstIsGood ==
  ASSUME NEW role \in Speaking
  PROVE  GoodMessage(Message(role))
<1>1. /\ IsSeq(<<>>) /\ ToSet(<<>>) = {}
      /\ \A x : IsSeq(<<x>>) /\ ToSet(<<x>>) = {x}
  BY TupleFacts
<1>2. /\ GoodPart([type |-> "text", call |-> None, size |-> Inline])
      /\ GoodPart([type |-> "image", call |-> None, size |-> 1])
  BY NormalizerAssumption DEF GoodPart, NormalizerAssumption
<1>3. IsSeq(FirstParts(role)) /\ \A p \in ToSet(FirstParts(role)) : GoodPart(p)
  BY <1>1, <1>2 DEF FirstParts, Speaking
<1> QED BY <1>3 DEF GoodMessage, Message

(* A message starts,                                                       *)
LEMMA StartsGood ==
  ASSUME WireOK, FramesInv, StartMessage
  PROVE  FramesInv'
<1> DEFINE m == Message(sdk.phase)
           result == MessageStart(conv, m, node.origin)
<1>1. /\ sdk.phase \in Speaking /\ sdk' = [sdk EXCEPT !.message = m, !.updates = 0]
      /\ Handle(node, result) /\ answering' = answering
  BY DEF StartMessage, Speaking
<1>2. GoodMessage(m)
  BY <1>1, FirstIsGood
<1> HIDE DEF m
<1>3. GoodConv(result.conv) /\ Knows(result.conv, m) /\ GoodEvents(result.events)
  BY <1>2, MessageStartIsGood DEF FramesInv
<1> HIDE DEF result
<1>4. Said(toClient') /\ NodeOK(node') /\ GoodConv(conv') /\ conv' = result.conv
  BY <1>1, <1>3, HandledIsSaid DEF FramesInv, WireOK
<1>5. DOMAIN sdk' = DOMAIN sdk /\ sdk'.message = m /\ sdk'.phase = sdk.phase
  BY <1>1 DEF FramesInv, SdkOK
<1>6. SdkOK(sdk', conv')
  BY <1>1, <1>2, <1>3, <1>4, <1>5 DEF FramesInv, SdkOK
<1> QED BY <1>1, <1>4, <1>6 DEF FramesInv

(* is updated with the same identity,                                      *)
LEMMA UpdatesGood ==
  ASSUME WireOK, FramesInv, NEW m, GoodMessage(m), Knows(conv, m),
         NEW delta, delta = None \/ delta.size = 1,
         UpdateMessage(m, delta)
  PROVE  FramesInv'
<1> DEFINE result == MessageUpdate(conv, m, delta, node.origin)
<1>1. /\ sdk.phase \in Speaking /\ sdk' = [sdk EXCEPT !.message = m, !.updates = @ + 1]
      /\ Handle(node, result) /\ answering' = answering
  BY DEF UpdateMessage, Speaking
<1>2. GoodConv(result.conv) /\ Knows(result.conv, m) /\ GoodEvents(result.events)
  BY MessageUpdateIsGood DEF FramesInv
<1> HIDE DEF result
<1>3. Said(toClient') /\ NodeOK(node') /\ GoodConv(conv') /\ conv' = result.conv
  BY <1>1, <1>2, HandledIsSaid DEF FramesInv, WireOK
<1>4. DOMAIN sdk' = DOMAIN sdk /\ sdk'.message = m /\ sdk'.phase = sdk.phase
  BY <1>1 DEF FramesInv, SdkOK
<1>5. SdkOK(sdk', conv')
  BY <1>1, <1>2, <1>3, <1>4 DEF FramesInv, SdkOK
<1> QED BY <1>1, <1>3, <1>5 DEF FramesInv

(* by a part                                                               *)
LEMMA AddsGood ==
  ASSUME WireOK, FramesInv, AddPart
  PROVE  FramesInv'
<1> DEFINE m == sdk.message
<1>1. PICK type \in {"text", "toolCall"} :
         UpdateMessage([m EXCEPT !.parts = Append(@,
             [type |-> type, call |-> IF type = "text" THEN None ELSE sdk.turns,
              size |-> IF type = "text" THEN Inline ELSE 0])], None)
  BY Zenon DEF AddPart
<1>2. GoodMessage(m) /\ Knows(conv, m)
  BY DEF AddPart, FramesInv, SdkOK
<1>3. PICK part : part = [type |-> type, call |-> IF type = "text" THEN None ELSE sdk.turns,
                          size |-> IF type = "text" THEN Inline ELSE 0]
  OBVIOUS
<1>10. GoodPart(part)
  BY <1>3, NormalizerAssumption DEF GoodPart, NormalizerAssumption
<1>4. PICK next : next = [m EXCEPT !.parts = Append(@, part)]
  OBVIOUS
<1> HIDE DEF m
<1>5. UpdateMessage(next, None)
  BY <1>1, <1>3, <1>4 DEF m
<1>6. DOMAIN next = DOMAIN m /\ next.n = m.n /\ next.parts = Append(m.parts, part)
  BY <1>2, <1>4 DEF GoodMessage
<1>7. GoodMessage(next)
  <2>1. /\ IsSeq(Append(m.parts, part))
        /\ ToSet(Append(m.parts, part)) = ToSet(m.parts) \cup {part}
    BY <1>2, AppendFacts DEF GoodMessage
  <2> QED BY <1>2, <1>6, <1>10, <2>1 DEF GoodMessage
<1>8. Knows(conv, next)
  BY <1>2, <1>6, Zenon DEF Knows, IdOf
<1> QED BY <1>5, <1>7, <1>8, UpdatesGood

(* or some text,                                                           *)
LEMMA StreamsGood ==
  ASSUME WireOK, FramesInv, Stream
  PROVE  FramesInv'
<1> DEFINE m == sdk.message
<1>1. PICK i \in DOMAIN m.parts, used \in {0, 1} :
         /\ m.parts[i].type = "text"
         /\ UpdateMessage([m EXCEPT !.parts[i].size = @ + 1, !.usage = used],
                          [part |-> i, size |-> 1])
  BY Zenon DEF Stream
<1>2. GoodMessage(m) /\ Knows(conv, m)
  BY DEF Stream, FramesInv, SdkOK
<1>3. PICK next : next = [m EXCEPT !.parts[i].size = @ + 1, !.usage = used]
  OBVIOUS
<1>4. PICK delta : delta = [part |-> i, size |-> 1]
  OBVIOUS
<1> HIDE DEF m
<1>5. UpdateMessage(next, delta)
  BY <1>1, <1>3, <1>4 DEF m
<1>6. /\ DOMAIN next = DOMAIN m /\ next.n = m.n
      /\ next.parts = [m.parts EXCEPT ![i].size = @ + 1]
  BY <1>2, <1>3 DEF GoodMessage
<1>7. GoodPart(m.parts[i])
  BY <1>1, <1>2, SeqFacts DEF GoodMessage
<1>8. PICK part : part = [m.parts[i] EXCEPT !.size = @ + 1]
  OBVIOUS
<1>9. GoodPart(part)
  <2>1. m.parts[i].size \in Nat \ {0} /\ DOMAIN part = DOMAIN m.parts[i]
        /\ part.type = m.parts[i].type /\ part.size = m.parts[i].size + 1
    BY <1>1, <1>7, <1>8 DEF GoodPart
  <2> QED BY <1>7, <2>1 DEF GoodPart
<1>10. next.parts = [m.parts EXCEPT ![i] = part]
  BY <1>6, <1>8
<1>11. GoodMessage(next)
  <2>1. Len(m.parts) \in Nat /\ DOMAIN m.parts = 1..Len(m.parts)
    BY <1>2, SeqFacts DEF GoodMessage
  <2>2. DOMAIN next.parts = 1..Len(m.parts) /\ next.parts = [j \in 1..Len(m.parts) |-> next.parts[j]]
    BY <1>10, <2>1
  <2>3. IsSeq(next.parts)
    BY <2>1, <2>2, MapFacts
  <2>4. \A p \in ToSet(next.parts) : p = part \/ p \in ToSet(m.parts)
    BY <1>10, <2>1, <2>2 DEF ToSet
  <2> QED BY <1>2, <1>6, <1>9, <2>3, <2>4 DEF GoodMessage
<1>12. Knows(conv, next)
  BY <1>2, <1>6, Zenon DEF Knows, IdOf
<1>13. delta.size = 1
  BY <1>4
<1> QED BY <1>5, <1>11, <1>12, <1>13, UpdatesGood

(* and ends, as a child of the leaf.                                       *)
LEMMA EndsGood ==
  ASSUME WireOK, FramesInv, EndMessage
  PROVE  FramesInv'
<1> DEFINE m == sdk.message
           result == MessageEnd(conv, m, node.origin)
           n == Persist(node, m)
           log == Append(node.log, [message |-> m, parent |-> node.leaf])
           N == Len(node.log)
<1>1. /\ sdk' = [sdk EXCEPT !.phase = AfterMessage, !.message = None]
      /\ Handle(n, result) /\ answering' = answering
  BY Zenon DEF EndMessage
<1>2. GoodMessage(m) /\ Knows(conv, m)
  BY DEF EndMessage, FramesInv, SdkOK
<1>3. GoodConv(result.conv) /\ GoodEvents(result.events)
  <2> HIDE DEF m
  <2> QED BY <1>2, MessageEndIsGood DEF FramesInv
<1> HIDE DEF result
<1>4. /\ DOMAIN n = DOMAIN node /\ n.log = log /\ n.leaf = N + 1
  BY DEF Persist, FramesInv, NodeOK
<1> HIDE DEF m
<1>5. /\ IsSeq(log) /\ DOMAIN log = 1..(N + 1)
      /\ \A i \in DOMAIN node.log : log[i] = node.log[i]
      /\ log[N + 1] = [message |-> m, parent |-> node.leaf]
  BY AppendFacts DEF FramesInv, NodeOK, LogOK
<1>6. N \in Nat /\ DOMAIN node.log = 1..N /\ node.leaf \in 0..N
  BY SeqFacts DEF FramesInv, NodeOK, LogOK
<1> HIDE DEF log, n
<1>7. Len(log) = N + 1
  <2>1. Len(log) \in Nat /\ DOMAIN log = 1..Len(log)
    BY <1>5, SeqFacts
  <2> QED BY <1>5, <1>6, <2>1
<1>8. ASSUME NEW i \in 1..(N + 1)
      PROVE  /\ DOMAIN log[i] = {"message", "parent"} /\ GoodMessage(log[i].message)
             /\ log[i].parent \in 0..(i - 1)
  <2>1. CASE i \in 1..N
    BY <1>5, <1>6, <2>1 DEF FramesInv, NodeOK, LogOK, Upwards
  <2>2. CASE i = N + 1
    <3>1. log[i] = [message |-> m, parent |-> node.leaf]
      BY <1>5, <2>2
    <3>2. node.leaf \in 0..(i - 1)
      BY <1>6, <2>2
    <3> QED BY <1>2, <3>1, <3>2
  <2> QED BY <1>6, <2>1, <2>2
<1>9. NodeOK(n)
  <2>1. LogOK(log)
    BY <1>5, <1>6, <1>7, <1>8 DEF LogOK, Upwards
  <2> QED BY <1>4, <1>6, <1>7, <2>1 DEF NodeOK, FramesInv
<1>10. Said(toClient') /\ NodeOK(node') /\ GoodConv(conv')
  BY <1>1, <1>3, <1>9, HandledIsSaid DEF FramesInv, WireOK
<1>11. SdkOK(sdk', conv')
  <2>1. DOMAIN sdk' = DOMAIN sdk /\ sdk'.message = None
    BY <1>1 DEF FramesInv, SdkOK
  <2> QED BY <2>1 DEF FramesInv, SdkOK
<1> QED BY <1>1, <1>10, <1>11 DEF FramesInv

(* A tool runs; no message is being streamed then.                         *)
LEMMA ToolsGood ==
  ASSUME WireOK, FramesInv, RunTool
  PROVE  FramesInv'
<1>1. PICK call, status : Handle(node, ToolActivity(conv, call, status))
  BY Zenon DEF RunTool
<1>2. /\ GoodConv(ToolActivity(conv, call, status).conv)
      /\ GoodEvents(ToolActivity(conv, call, status).events)
  BY ToolActivityIsGood DEF FramesInv
<1>3. Said(toClient') /\ NodeOK(node') /\ GoodConv(conv')
  BY <1>1, <1>2, HandledIsSaid DEF FramesInv, WireOK
<1>4. SdkOK(sdk', conv')
  BY DEF RunTool, FramesInv, SdkOK, Speaking
<1> QED BY <1>3, <1>4 DEF FramesInv, RunTool

(* The agent starts,                                                       *)
LEMMA AgentStartsGood ==
  ASSUME WireOK, FramesInv, AgentStart
  PROVE  FramesInv'
<1> DEFINE n == [node EXCEPT !.running = TRUE, !.shown = TRUE]
           events == IF node.running THEN <<>> ELSE <<Running(TRUE)>>
<1>1. Emit(n, events) /\ UNCHANGED <<conv, answering>> /\ sdk' = [sdk EXCEPT !.phase = "user"]
      /\ sdk.phase = "started"
  BY Zenon DEF AgentStart
<1>2. NodeOK(n)
  <2>1. \A r, h : NodeOK([node EXCEPT !.running = r, !.shown = h])
    BY FlagsKeep DEF FramesInv
  <2> QED BY <2>1, Zenon
<1>3. AcceptsEvent(Running(TRUE))
  BY DEF AcceptsEvent, Running
<1>4. GoodEvents(events)
  BY <1>3, OneEvent, EmptyFacts DEF GoodEvents
<1> HIDE DEF n, events
<1>5. Said(toClient') /\ NodeOK(node')
  BY <1>1, <1>2, <1>4, EventsAreSaid DEF FramesInv, WireOK
<1>6. SdkOK(sdk', conv')
  BY <1>1 DEF FramesInv, SdkOK, Speaking
<1> QED BY <1>1, <1>5, <1>6 DEF FramesInv

(* settles,                                                                *)
LEMMA AgentSettlesGood ==
  ASSUME WireOK, FramesInv, AgentSettled
  PROVE  FramesInv'
<1> DEFINE n == [node EXCEPT !.running = FALSE, !.shown = FALSE]
           events == IF node.shown THEN <<Running(FALSE)>> ELSE <<>>
<1>1. Emit(n, events) /\ UNCHANGED <<conv, answering>> /\ sdk' = [sdk EXCEPT !.phase = "settled"]
      /\ sdk.phase = "settling"
  BY Zenon DEF AgentSettled
<1>2. NodeOK(n)
  <2>1. \A r, h : NodeOK([node EXCEPT !.running = r, !.shown = h])
    BY FlagsKeep DEF FramesInv
  <2> QED BY <2>1, Zenon
<1>3. AcceptsEvent(Running(FALSE))
  BY DEF AcceptsEvent, Running
<1>4. GoodEvents(events)
  BY <1>3, OneEvent, EmptyFacts DEF GoodEvents
<1> HIDE DEF n, events
<1>5. Said(toClient') /\ NodeOK(node')
  BY <1>1, <1>2, <1>4, EventsAreSaid DEF FramesInv, WireOK
<1>6. SdkOK(sdk', conv')
  BY <1>1 DEF FramesInv, SdkOK, Speaking
<1> QED BY <1>1, <1>5, <1>6 DEF FramesInv

(* and its prompt resolves.                                                *)
LEMMA ResolvesGood ==
  ASSUME FramesInv, PromptResolves
  PROVE  FramesInv'
<1>1. UNCHANGED <<conv, answering, toClient>>
  BY DEF PromptResolves
<1>2. NodeOK(node')
  <2>1. node' = [node EXCEPT !.inFlight = FALSE, !.origin = None, !.settled = TRUE]
    BY DEF PromptResolves
  <2>2. \A f, o, s : NodeOK([node EXCEPT !.inFlight = f, !.origin = o, !.settled = s])
    BY FlagsKeep DEF FramesInv
  <2> QED BY <2>1, <2>2, Zenon
<1>3. SdkOK(sdk', conv)
  BY DEF PromptResolves, FramesInv, SdkOK, Speaking
<1> QED BY <1>1, <1>2, <1>3 DEF FramesInv

(* The Node keeps the invariant.                                           *)
LEMMA NodeGood ==
  ASSUME WireOK, FramesInv, NodeNext
  PROVE  FramesInv'
<1>1. CASE Agent
  BY <1>1, StartsGood, AddsGood, StreamsGood, EndsGood, ToolsGood, AgentStartsGood,
     AgentSettlesGood, ResolvesGood DEF Agent
<1>2. CASE Serve
  BY <1>2, ReadsGood, AnswersGood, TellsGood, SubmitsGood, MutatesGood, SettlesGood DEF Serve
<1> QED BY <1>1, <1>2 DEF NodeNext

-----------------------------------------------------------------------------
(* The messages the session was stored with: those of the shell may not be *)
(* (see HistoryRenderable).                                                *)
LogRenderable ==
    /\ IsSeq(InitialLog)
    /\ \A i \in DOMAIN InitialLog :
          /\ DOMAIN InitialLog[i] = {"message", "parent"}
          /\ GoodMessage(InitialLog[i].message)

(* The invariant holds at first,                                           *)
LEMMA FramesInvInit ==
  ASSUME LogRenderable, WorkspaceInit
  PROVE  FramesInv
<1>1. /\ node = [session |-> 1, log |-> InitialLog, leaf |-> Len(InitialLog), seq |-> 0,
                 running |-> FALSE, shown |-> FALSE, inFlight |-> FALSE, origin |-> None,
                 active |-> None, settled |-> FALSE]
      /\ conv = NewConversation(1)
      /\ sdk = [phase |-> "idle", message |-> None, turns |-> 0, updates |-> 0]
      /\ answering = NoAnswer /\ toClient = <<>>
  BY DEF WorkspaceInit, NodeInit
<1>2. Len(InitialLog) \in Nat /\ DOMAIN InitialLog = 1..Len(InitialLog)
  BY SeqFacts DEF LogRenderable
<1>3. LogOK(InitialLog)
  BY <1>2, SessionAssumption DEF LogOK, LogRenderable, Upwards, SessionAssumption
<1>4. NodeOK(node)
  BY <1>1, <1>2, <1>3 DEF NodeOK
<1>5. SdkOK(sdk, conv)
  BY <1>1 DEF SdkOK
<1>6. Said(toClient)
  BY <1>1, EmptyFacts DEF Said
<1> QED BY <1>1, <1>4, <1>5, <1>6, NewIsGood, NoAnswerIsSaid DEF FramesInv

(* is kept by every step,                                                  *)
LEMMA FramesInvNext ==
  ASSUME WireOK, FramesInv, [WorkspaceNext]_workspaceVars
  PROVE  FramesInv'
<1>1. CASE UNCHANGED workspaceVars
  BY <1>1 DEF workspaceVars, nodeVars, FramesInv
<1>2. CASE NodeNext
  BY <1>2, NodeGood
<1>3. CASE Receive \/ Ui
  BY <1>3, ViewAsks, AskSays
<1> QED BY <1>1, <1>2, <1>3 DEF WorkspaceNext

(* and says what the properties do.                                        *)
LEMMA FramesInvSuffices ==
  ASSUME WireOK, FramesInv
  PROVE  FramesAccepted /\ HistoryRenderable
<1>1. ASSUME toClient # <<>>
      PROVE  AcceptsFrame(Head(toClient))
  <2>1. Head(toClient) \in ToSet(toClient)
    BY <1>1, ArrivalFacts
  <2>2. FrameOK(Head(toClient))
    BY <2>1 DEF FramesInv, Said
  <2> QED BY <2>2 DEF FrameOK, AcceptsFrame
<1>2. AcceptsTree(TreeSnapshot)
  BY TreeIsAccepted DEF FramesInv
<1>3. HistoryRenderable
  BY DEF FramesInv, FrameOK, HistoryRenderable, AcceptsFrame
<1> QED BY <1>1, <1>2, <1>3 DEF FramesAccepted

(* Whatever the agent streams, however often the branch changes, and       *)
(* whichever pages are read: the codec accepts every page, every event and *)
(* the tree, if it accepts the messages the session was stored with.       *)
(* #sendSessionEvent, sendOperation, validateTransportFrame                *)
THEOREM FramesAreAccepted ==
  ASSUME LogRenderable
  PROVE  WorkspaceSpec => [](FramesAccepted /\ HistoryRenderable)
<1>1. WorkspaceInit => AwaitInv /\ FramesInv
  BY AwaitInvInit, FramesInvInit
<1>2. AwaitInv /\ FramesInv /\ [WorkspaceNext]_workspaceVars => AwaitInv' /\ FramesInv'
  BY AwaitInvNext, FramesInvNext DEF AwaitInv
<1>3. AwaitInv /\ FramesInv => FramesAccepted /\ HistoryRenderable
  BY FramesInvSuffices DEF AwaitInv
<1> QED BY <1>1, <1>2, <1>3, PTL DEF WorkspaceSpec
=============================================================================
