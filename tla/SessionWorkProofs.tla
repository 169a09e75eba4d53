-------------------------- MODULE SessionWorkProofs --------------------------
(***************************************************************************)
(* Theorems about SessionRegistry, for every value of its constants: that  *)
(* administration, tree mutations and trust approvals have a session for   *)
(* themselves; what becomes of a prompt command; and what a trust approval *)
(* closes.                                                                 *)
(***************************************************************************)
EXTENDS SessionRegistryProofs

(* The functions on the executor, as a set.  Those of the kinds that are   *)
(* matched by a mark elsewhere are queued once.                            *)
Pending == {queue[n] : n \in DOMAIN queue}

OnceKinds == {"admin", "unlock", "mutate", "prompt"}
Once == \A m, n \in DOMAIN queue : queue[m] = queue[n] /\ queue[m].kind \in OnceKinds => m = n

(* The function that is on the executor for an administration request.     *)
Asks(op, x) == op.arg = x /\ op.cwd = admin[x].cwd /\ op.id = admin[x].id

Requests ==
    /\ \A op \in Pending : op.kind = "admin" =>
           admin[op.arg].phase = "locking" /\ Asks(op, op.arg)
    /\ \A op \in Pending : op.kind = "unlock" =>
           op.arg \in Admins /\ admin[op.arg].phase = "unlocking" /\ Asks(op, op.arg)
    /\ slot.phase = "administering" =>
           /\ admin[slot.op.arg].phase = "locking" /\ Asks(slot.op, slot.op.arg)
           /\ slot.op \notin Pending /\ slot.dying = {slot.op.id}
    /\ \A x \in Admins : admin[x].phase # "idle" =>
           admin[x].cwd \in Projects /\ admin[x].id \in used

(* A request between its two executor functions owns its key.              *)
HoldsKey(x) ==
    \/ admin[x].phase \in {"operating", "unlocking"}
    \/ slot.phase = "administering" /\ slot.op.arg = x
Key(x) == <<admin[x].cwd, admin[x].id>>

KeysHeld ==
    /\ \A x \in Admins : HoldsKey(x) => Key(x) \in locked
    /\ \A x, y \in Admins : HoldsKey(x) /\ HoldsKey(y) /\ Key(x) = Key(y) => x = y

(* The file of the session a request works on is not open, nor will it be. *)
FilesFree ==
    /\ \A x \in Admins : admin[x].phase = "operating" /\ ProjectOf[admin[x].id] = admin[x].cwd =>
           admin[x].id \notin sessions \cup slot.dying
    /\ slot.phase \in {"evicting", "opening"} /\ slot.op.kind = "load" =>
           ~KeyLocked(slot.op.cwd, slot.op.id)
    /\ slot.phase = "discarding" => slot.op.kind \in {"create", "load", "mutate"}
    /\ deleted \subseteq used /\ DeletedStaysGone

LockInv == Once /\ Requests /\ KeysHeld /\ FilesFree

(* A mutation mark is there for a function that is queued or running.      *)
Marked ==
    /\ \A op \in Pending : op.kind = "mutate" => op.id \in mutating
    /\ \A o, op \in Pending : o.kind = "mutate" /\ op.kind = "mutate" /\ o.id = op.id => o = op
    /\ slot.op.kind = "mutate" =>
           /\ slot.op.id \in mutating
           /\ \A op \in Pending : op.kind = "mutate" => op.id # slot.op.id

Mutable ==
    slot.phase = "mutating" =>
        /\ slot.op.id \in sessions /\ ProjectOf[slot.op.id] = slot.op.cwd
        /\ IdleEntry(slot.op.id) /\ ~KeyLocked(slot.op.cwd, slot.op.id)

(* An approval has yet to close every session of its project.              *)
Approval ==
    slot.phase = "draining" /\ slot.op.kind = "approve" =>
        \A i \in sessions : ProjectOf[i] = slot.op.cwd => i \in slot.rest

(* A prompt waits on the executor once, before its command has an answer;  *)
(* a settlement comes after it.                                            *)
Sent ==
    /\ \A op \in Pending : op.kind = "prompt" => command[op.arg] = "queued"
    /\ \A o, op \in Pending : o.kind = "prompt" /\ op.kind = "prompt" /\ o.arg = op.arg => o = op
    /\ slot.phase = "admitting" =>
           /\ command[slot.op.arg] = "queued"
           /\ \A op \in Pending : op.kind = "prompt" => op.arg # slot.op.arg
    /\ \A op \in Pending : op.kind = "settle" => command[op.arg] \notin {"unsent", "queued"}
    /\ \A c \in Cmds : promise[c] # None => command[c] \notin {"unsent", "queued"}

Alone == LockInv /\ Marked /\ Mutable /\ Approval /\ Sent

-----------------------------------------------------------------------------
(* The queue as a set.                                                     *)

LEMMA PendingType == TypeOK => Pending \subseteq Op
BY DEF TypeOK, Pending

LEMMA TakeTokens ==
    ASSUME TypeOK, Once, queue # <<>>, Take
    PROVE  /\ Once' /\ Head(queue) \in Pending
           /\ Pending' \subseteq Pending
           /\ \A op \in Pending : op = Head(queue) \/ op \in Pending'
           /\ Head(queue).kind \in OnceKinds => Head(queue) \notin Pending'
<1>1. /\ Len(queue) \in Nat \ {0} /\ DOMAIN queue = 1..Len(queue) /\ Head(queue) = queue[1]
      /\ DOMAIN queue' = 1..(Len(queue) - 1)
      /\ \A n \in DOMAIN queue' : queue'[n] = queue[n + 1] /\ n + 1 \in DOMAIN queue
  BY DEF TypeOK, Take
<1>2. Once'
  <2>1. ASSUME NEW m \in DOMAIN queue', NEW n \in DOMAIN queue', queue'[m] = queue'[n],
               queue'[m].kind \in OnceKinds
        PROVE  m = n
    <3>1. m + 1 = n + 1
      BY <1>1, <2>1 DEF Once
    <3>2. QED
      BY <1>1, <3>1
  <2>2. QED
    BY <2>1 DEF Once
<1>3. Head(queue) \in Pending
  BY <1>1 DEF Pending
<1>4. Pending' \subseteq Pending
  BY <1>1 DEF Pending
<1>5. ASSUME NEW n \in DOMAIN queue  PROVE queue[n] = Head(queue) \/ queue[n] \in Pending'
  <2>1. CASE n = 1
    BY <1>1, <2>1
  <2>2. CASE n # 1
    <3>1. n - 1 \in DOMAIN queue' /\ queue'[n - 1] = queue[n]
      BY <1>1, <2>2
    <3>2. QED
      BY <3>1 DEF Pending
  <2>3. QED
    BY <2>1, <2>2
<1>6. ASSUME Head(queue).kind \in OnceKinds, Head(queue) \in Pending'  PROVE FALSE
  <2>1. PICK n \in DOMAIN queue' : queue'[n] = Head(queue)
    BY <1>6 DEF Pending
  <2>2. n + 1 = 1
    BY <1>1, <1>6, <2>1 DEF Once
  <2>3. QED
    BY <1>1, <2>2
<1>7. QED
  BY <1>2, <1>3, <1>4, <1>5, <1>6 DEF Pending

LEMMA AppendTokens ==
    ASSUME NEW s \in Seq(Op), NEW op \in Op,
           queue' = Append(s, op),
           \A m, n \in DOMAIN s : s[m] = s[n] /\ s[m].kind \in OnceKinds => m = n,
           op.kind \in OnceKinds => op \notin {s[n] : n \in DOMAIN s}
    PROVE  Once' /\ Pending' = {s[n] : n \in DOMAIN s} \cup {op}
<1>1. /\ Len(s) \in Nat /\ DOMAIN s = 1..Len(s) /\ DOMAIN queue' = 1..(Len(s) + 1)
      /\ queue'[Len(s) + 1] = op /\ \A n \in DOMAIN s : queue'[n] = s[n]
  OBVIOUS
<1>2. ASSUME NEW n \in DOMAIN queue'  PROVE n \in DOMAIN s \/ n = Len(s) + 1
  BY <1>1
<1>3. Pending' = {s[n] : n \in DOMAIN s} \cup {op}
  <2>1. ASSUME NEW n \in DOMAIN queue'  PROVE queue'[n] \in {s[k] : k \in DOMAIN s} \cup {op}
    BY <1>1, <1>2
  <2>2. ASSUME NEW n \in DOMAIN s  PROVE s[n] \in Pending'
    BY <1>1 DEF Pending
  <2>3. op \in Pending'
    BY <1>1 DEF Pending
  <2>4. QED
    BY <2>1, <2>2, <2>3 DEF Pending
<1>4. ASSUME NEW m \in DOMAIN queue', NEW n \in DOMAIN queue', queue'[m] = queue'[n],
             queue'[m].kind \in OnceKinds
      PROVE  m = n
  <2>1. CASE m \in DOMAIN s /\ n \in DOMAIN s
    BY <1>1, <1>4, <2>1
  <2>2. CASE m \in DOMAIN s /\ n = Len(s) + 1
    BY <1>1, <1>4, <2>2
  <2>3. CASE m = Len(s) + 1 /\ n \in DOMAIN s
    BY <1>1, <1>4, <2>3
  <2>4. QED
    BY <1>2, <2>1, <2>2, <2>3
<1>5. QED
  BY <1>3, <1>4 DEF Once

LEMMA EnqueueTokens ==
    ASSUME TypeOK, Once, NEW op \in Op, Enqueue(op), op.kind \in OnceKinds => op \notin Pending
    PROVE  Once' /\ Pending' = Pending \cup {op}
BY AppendTokens DEF TypeOK, Enqueue, Once, Pending

LEMMA SameTokens == Once /\ queue' = queue => Once' /\ Pending' = Pending
BY DEF Once, Pending
-----------------------------------------------------------------------------
(* Steps that leave the requests, the marks and the commands as they are,  *)
(* or end one of them.                                                     *)

LEMMA OpFields ==
    /\ \A op \in Op : /\ op.kind \in Kinds
                      /\ op.kind \in {"admin", "mutate"} => op.cwd \in Projects
                      /\ op.kind \in {"load", "prompt", "mutate", "admin", "settle"} => op.id \in Ids
                      /\ op.kind \in {"prompt", "settle"} => op.arg \in Cmds
                      /\ op.kind = "admin" => op.arg \in Admins
    /\ Idle.phase = "idle" /\ Idle.op.kind = "dispose" /\ Idle.dying = {} /\ Idle.holding = {}
<1>1. NoOp.kind = "dispose" /\ Idle.op = NoOp
  BY DEF Idle, Busy, NoOp, Operation
<1>2. QED
  BY <1>1, IdleType DEF Op

LEMMA LocksKept ==
    ASSUME TypeOK, TypeOK', Held, LockInv, Once',
           \A x \in Admins : admin'[x] = admin[x] \/ admin'[x].phase = "idle",
           \A op \in Pending' : op.kind \in {"admin", "unlock"} =>
               op \in Pending /\ admin'[op.arg] = admin[op.arg],
           \/ slot' = slot /\ (slot.phase = "administering" =>
                                  admin'[slot.op.arg] = admin[slot.op.arg])
           \/ slot'.phase # "administering",
           \A x \in Admins : HoldsKey(x) /\ HoldsKey(x)' => Key(x) \in locked',
           used \subseteq used', deleted' = deleted,
           \A i \in sessions' \cup slot'.dying :
               \/ i \in sessions \cup slot.dying
               \/ i \notin used
               \/ i \notin deleted /\ ~KeyLocked(ProjectOf[i], i),
           slot'.phase \in {"evicting", "opening"} /\ slot'.op.kind = "load" =>
               <<slot'.op.cwd, slot'.op.id>> \notin locked',
           slot'.phase = "discarding" => slot'.op.kind \in {"create", "load", "mutate"}
    PROVE  LockInv'
<1> USE DEF LockInv
<1>0. slot.phase = "administering" => slot.op \in Op /\ slot.op.kind = "admin" /\ slot.op.arg \in Admins
  BY OpFields DEF TypeOK, Slot, Held, SlotShape
<1>1. Requests'
  BY <1>0 DEF Requests, Asks
<1>2. ASSUME NEW x \in Admins, HoldsKey(x)'  PROVE HoldsKey(x) /\ admin'[x] = admin[x]
  BY <1>0, <1>2 DEF HoldsKey
<1>3. KeysHeld'
  BY <1>2 DEF KeysHeld, Key
<1>4. FilesFree'
  <2>1. ASSUME NEW x \in Admins, admin'[x].phase = "operating",
               ProjectOf[admin'[x].id] = admin'[x].cwd
        PROVE  admin'[x].id \notin sessions' \cup slot'.dying
    <3>1. admin'[x] = admin[x] /\ HoldsKey(x)
      BY <1>2, <2>1 DEF HoldsKey
    <3>2. Key(x) \in locked /\ admin[x].id \in used
      BY <3>1, <2>1 DEF KeysHeld, Requests
    <3>3. QED
      BY <2>1, <3>1, <3>2 DEF FilesFree, KeyLocked, Key
  <2>2. deleted' \subseteq used' /\ DeletedStaysGone'
    BY DEF FilesFree, DeletedStaysGone
  <2>3. QED
    BY <2>1, <2>2 DEF FilesFree, KeyLocked
<1>5. QED
  BY <1>1, <1>3, <1>4

LEMMA MarksKept ==
    ASSUME TypeOK, TypeOK', Held, Marked, Mutable,
           \A op \in Pending' : op.kind = "mutate" => op \in Pending /\ op.id \in mutating',
           slot'.op.kind = "mutate" => slot'.op = slot.op /\ slot.op.id \in mutating',
           slot'.phase = "mutating" =>
               /\ slot' = slot /\ sessions' = sessions /\ locked' = locked
               /\ entry'[slot.op.id].active = entry[slot.op.id].active
               /\ entry'[slot.op.id].running = entry[slot.op.id].running
               /\ entry'[slot.op.id].promptInFlight \in {None, entry[slot.op.id].promptInFlight}
               /\ entry'[slot.op.id].agentRunning = entry[slot.op.id].agentRunning
    PROVE  Marked' /\ Mutable'
<1>1. Marked'
  BY DEF Marked
<1>2. Mutable'
  BY DEF Mutable, IdleEntry, BackendRunning, KeyLocked
<1>3. QED
  BY <1>1, <1>2

LEMMA SentKept ==
    ASSUME TypeOK, TypeOK', Held, Sent,
           \A op \in Pending' : op.kind = "prompt" => op \in Pending /\ command'[op.arg] = "queued",
           \A op \in Pending' : op.kind = "settle" => op \in Pending \/ promise[op.arg] # None,
           \A c \in Cmds : command[c] \notin {"unsent", "queued"} =>
               command'[c] \notin {"unsent", "queued"},
           slot'.phase = "admitting" =>
               slot' = slot /\ command'[slot.op.arg] = command[slot.op.arg],
           \A c \in Cmds : promise'[c] # None =>
               promise[c] # None \/ command'[c] \notin {"unsent", "queued"}
    PROVE  Sent'
<1>1. Pending' \subseteq Op
  BY PendingType DEF TypeOK, Pending
<1>2. QED
  BY <1>1, OpFields DEF Sent
-----------------------------------------------------------------------------
(* Calls.                                                                  *)

LEMMA CallsAlone == TypeOK /\ TypeOK' /\ Held /\ Alone /\ Calls => Alone'
<1> SUFFICES ASSUME TypeOK, TypeOK', Held, Alone, Calls PROVE Alone'
  OBVIOUS
<1> USE DEF registryVars, lockVars, commandVars, outsideVars
<1>1. UNCHANGED <<slot, sessions, entry, locked, deleted, used, promise>>
  BY DEF Calls, Call, CallPrompt, CallMutation, CallAdministration, CallDispose
<1>2. Approval'
  BY <1>1 DEF Alone, Approval
<1>3. Once
  BY DEF Alone, LockInv
<1>4. FilesFree'
  <2>1. \A x \in Admins : admin'[x].phase = "operating" => admin'[x] = admin[x]
    BY DEF Calls, Call, CallPrompt, CallMutation, CallAdministration, CallDispose, TypeOK
  <2>2. QED
    BY <1>1, <2>1 DEF Alone, LockInv, FilesFree, KeyLocked, DeletedStaysGone
<1>a. slot.phase = "administering" => slot.op.kind = "admin"
  BY DEF Held, SlotShape
<1>b. ASSUME UNCHANGED admin, NEW op, Pending' = Pending \cup {op}, op.kind \notin {"admin", "unlock"}
      PROVE  Requests' /\ KeysHeld'
  <2>1. Requests'
    BY <1>1, <1>a, <1>b DEF Alone, LockInv, Requests, Asks
  <2>2. KeysHeld'
    BY <1>1, <1>b DEF Alone, LockInv, KeysHeld, HoldsKey, Key
  <2>3. QED
    BY <2>1, <2>2
<1>c. ASSUME UNCHANGED mutating, NEW op, Pending' = Pending \cup {op}, op.kind # "mutate"
      PROVE  Marked' /\ Mutable'
  BY <1>1, <1>c DEF Alone, Marked, Mutable, IdleEntry, BackendRunning, KeyLocked
<1>5. CASE Call \/ CallDispose
  <2>1. PICK op \in Op : Enqueue(op) /\ op.kind \notin OnceKinds \cup {"settle"}
    <3>1. \A op \in ClientCalls : op \in Op /\ op.kind \notin OnceKinds \cup {"settle"}
      BY DEF ClientCalls, Operation, Op, Kinds, OnceKinds, TypeOK
    <3>2. /\ Operation("dispose", None, None, None) \in Op
          /\ Operation("dispose", None, None, None).kind = "dispose"
      BY DEF Operation, Op, Kinds
    <3>3. QED
      BY <1>5, <3>1, <3>2 DEF Call, CallDispose, OnceKinds
  <2>2. Once' /\ Pending' = Pending \cup {op}
    BY <1>3, <2>1, EnqueueTokens
  <2>3. UNCHANGED <<admin, mutating, command>>
    BY <1>5 DEF Call, CallDispose
  <2>4. Requests' /\ KeysHeld'
    BY <1>b, <2>1, <2>2, <2>3 DEF OnceKinds
  <2>5. Marked' /\ Mutable'
    BY <1>c, <2>1, <2>2, <2>3 DEF OnceKinds
  <2>6. Sent'
    BY <1>1, <2>1, <2>2, <2>3, SentKept DEF Alone, Sent, OnceKinds
  <2>7. QED
    BY <1>2, <1>4, <2>2, <2>4, <2>5, <2>6 DEF Alone, LockInv
<1>6. ASSUME NEW c \in Cmds, NEW i \in Ids, CallPrompt(c, i)  PROVE Alone'
  <2> DEFINE op == Operation("prompt", None, i, c)
  <2>1. op \in Op /\ op.kind = "prompt" /\ op.arg = c
    BY DEF Operation, Op, Kinds
  <2> HIDE DEF op
  <2>2. /\ Enqueue(op) /\ command[c] = "unsent" /\ UNCHANGED <<admin, mutating>>
        /\ command' = [command EXCEPT ![c] = "queued"]
    BY <1>6 DEF CallPrompt, op
  <2>3. op \notin Pending
    BY <2>1, <2>2 DEF Alone, Sent
  <2>4. Once' /\ Pending' = Pending \cup {op}
    BY <1>3, <2>1, <2>2, <2>3, EnqueueTokens
  <2>5. Requests' /\ KeysHeld'
    BY <1>b, <2>1, <2>2, <2>4
  <2>6. Marked' /\ Mutable'
    BY <1>c, <2>1, <2>2, <2>4
  <2>7. Sent'
    <3>1. command'[c] = "queued" /\ \A d \in Cmds \ {c} : command'[d] = command[d]
      BY <2>2 DEF TypeOK
    <3>2. \A o \in Pending : o.kind \in {"prompt", "settle"} => o.arg \in Cmds \ {c}
      BY <2>2, PendingType, OpFields DEF Alone, Sent
    <3>3. slot.phase = "admitting" => slot.op.arg \in Cmds \ {c}
      BY <2>2, OpFields DEF Alone, Sent, Held, SlotShape, TypeOK, Slot
    <3>4. QED
      BY <1>1, <2>1, <2>2, <2>4, <3>1, <3>2, <3>3 DEF Alone, Sent
  <2>8. QED
    BY <1>2, <1>4, <2>4, <2>5, <2>6, <2>7 DEF Alone, LockInv
<1>7. ASSUME NEW p \in Projects, NEW i \in Ids, CallMutation(p, i)  PROVE Alone'
  <2> DEFINE op == Operation("mutate", p, i, None)
  <2>1. op \in Op /\ op.kind = "mutate" /\ op.id = i
    BY DEF Operation, Op, Kinds
  <2> HIDE DEF op
  <2>2. /\ Enqueue(op) /\ i \notin mutating /\ mutating' = mutating \cup {i}
        /\ UNCHANGED <<admin, command>>
    BY <1>7 DEF CallMutation, op
  <2>3. op \notin Pending
    BY <2>1, <2>2 DEF Alone, Marked
  <2>4. Once' /\ Pending' = Pending \cup {op}
    BY <1>3, <2>1, <2>2, <2>3, EnqueueTokens
  <2>5. Requests' /\ KeysHeld'
    BY <1>b, <2>1, <2>2, <2>4
  <2>6. Marked' /\ Mutable'
    BY <1>1, <2>1, <2>2, <2>4 DEF Alone, Marked, Mutable, IdleEntry, BackendRunning, KeyLocked
  <2>7. Sent'
    BY <1>1, <2>1, <2>2, <2>4, SentKept DEF Alone, Sent
  <2>8. QED
    BY <1>2, <1>4, <2>4, <2>5, <2>6, <2>7 DEF Alone, LockInv
<1>8. ASSUME NEW x \in Admins, NEW a \in Aliases, NEW p \in Projects, NEW i \in Ids,
             NEW d \in BOOLEAN, CallAdministration(x, a, p, i, d)
      PROVE  Alone'
  <2> DEFINE op == Operation("admin", p, i, x)
  <2>1. op \in Op /\ op.kind = "admin" /\ op.arg = x /\ op.cwd = p /\ op.id = i
    BY DEF Operation, Op, Kinds
  <2> HIDE DEF op
  <2>2. /\ Enqueue(op) /\ admin[x].phase = "idle" /\ i \in used
        /\ UNCHANGED <<mutating, command>>
        /\ admin'[x].phase = "locking" /\ admin'[x].cwd = p /\ admin'[x].id = i
        /\ \A y \in Admins \ {x} : admin'[y] = admin[y]
    BY <1>8 DEF CallAdministration, op, TypeOK
  <2>3. op \notin Pending
    BY <2>1, <2>2 DEF Alone, LockInv, Requests
  <2>4. Once' /\ Pending' = Pending \cup {op}
    BY <1>3, <2>1, <2>2, <2>3, EnqueueTokens
  <2>5. \A o \in Pending : o.kind \in {"admin", "unlock"} => o.arg \in Admins \ {x}
    BY <2>2, PendingType, OpFields DEF Alone, LockInv, Requests
  <2>6. slot.phase = "administering" => slot.op.arg \in Admins \ {x}
    BY <2>2, OpFields DEF Alone, LockInv, Requests, Held, SlotShape, TypeOK, Slot
  <2>7. Requests'
    BY <1>1, <2>1, <2>2, <2>4, <2>5, <2>6 DEF Alone, LockInv, Requests, Asks
  <2>8. KeysHeld'
    BY <1>1, <2>2, <2>6 DEF Alone, LockInv, KeysHeld, HoldsKey, Key
  <2>9. Marked' /\ Mutable'
    BY <1>c, <2>1, <2>2, <2>4
  <2>10. Sent'
    BY <1>1, <2>1, <2>2, <2>4, SentKept DEF Alone, Sent
  <2>11. QED
    BY <1>2, <1>4, <2>4, <2>7, <2>8, <2>9, <2>10 DEF Alone, LockInv
<1>9. QED
  BY <1>5, <1>6, <1>7, <1>8 DEF Calls
-----------------------------------------------------------------------------
(* The executor takes its next function.                                   *)

LEMMA IdleShape ==
    TypeOK /\ Held /\ slot.phase = "idle" => slot = Idle /\ slot.dying = {} /\ slot.op.kind = "dispose"
BY OpFields DEF Held, SlotShape

(* It leaves requests, marks and prompts alone. *)
LEMMA TurnAlone ==
    ASSUME TypeOK, TypeOK', Held, Alone, slot.phase = "idle", queue # <<>>, Take,
           UNCHANGED <<admin, mutating, locked, deleted, used, promise>>,
           Head(queue).kind \notin OnceKinds,
           \A c \in Cmds : command[c] = "queued" => command'[c] = "queued",
           \A c \in Cmds : command[c] \notin {"unsent", "queued"} =>
               command'[c] \notin {"unsent", "queued"},
           sessions' \cup slot'.dying \subseteq sessions,
           slot'.phase \notin {"administering", "mutating", "admitting", "discarding"},
           slot'.op.kind # "mutate",
           slot'.phase \in {"evicting", "opening"} /\ slot'.op.kind = "load" =>
               ~KeyLocked(slot'.op.cwd, slot'.op.id),
           slot'.phase = "draining" /\ slot'.op.kind = "approve" =>
               \A i \in sessions' : ProjectOf[i] = slot'.op.cwd => i \in slot'.rest
    PROVE  Alone'
<1>1. Once' /\ Pending' \subseteq Pending /\ Head(queue) \in Pending
  BY TakeTokens DEF Alone, LockInv
<1>2. LockInv'
  <2>1. \A x \in Admins : HoldsKey(x) => Key(x) \in locked
    BY DEF Alone, LockInv, KeysHeld
  <2>2. QED
    BY <1>1, <2>1, LocksKept DEF Alone, KeyLocked
<1>3. Marked' /\ Mutable'
  BY <1>1, MarksKept DEF Alone, Marked
<1>4. Sent'
  BY <1>1, SentKept, PendingType, OpFields DEF Alone, Sent
<1>5. Approval'
  BY DEF Approval
<1>6. QED
  BY <1>2, <1>3, <1>4, <1>5 DEF Alone

(* It is refused, and its caller's finally block follows. *)
LEMMA FinallyAlone ==
    ASSUME TypeOK, TypeOK', Held, Alone, slot.phase = "idle", queue # <<>>, Take,
           Finally(Head(queue)), UNCHANGED <<slot, sessions, entry, locked, deleted, used, promise>>
    PROVE  Alone'
<1> DEFINE op == Head(queue)
<1>1. /\ Once' /\ Pending' \subseteq Pending /\ op \in Pending
      /\ op.kind \in OnceKinds => op \notin Pending'
  BY TakeTokens DEF Alone, LockInv
<1>2. op \in Op
  BY <1>1, PendingType
<1> HIDE DEF op
<1>a. /\ mutating' = IF op.kind = "mutate" THEN mutating \ {op.id} ELSE mutating
      /\ admin' = IF op.kind = "admin" THEN [admin EXCEPT ![op.arg] = NoAdmin] ELSE admin
      /\ command' = IF op.kind = "prompt" THEN [command EXCEPT ![op.arg] = "error"] ELSE command
  BY DEF Finally, op
<1>3. LockInv'
  <2>1. \A x \in Admins : admin'[x] = admin[x] \/ admin'[x].phase = "idle"
    BY <1>a DEF TypeOK, NoAdmin
  <2>2. ASSUME NEW o \in Pending', o.kind \in {"admin", "unlock"}
        PROVE  o \in Pending /\ admin'[o.arg] = admin[o.arg]
    <3>1. CASE op.kind = "admin"
      <4>1. o.arg # op.arg
        <5>1. CASE o.kind = "unlock"
          BY <1>1, <2>2, <3>1, <5>1 DEF Alone, LockInv, Requests
        <5>2. CASE o.kind = "admin"
          <6>1. o \in Op /\ (o.arg = op.arg => o.cwd = op.cwd /\ o.id = op.id)
            BY <1>1, <2>2, <3>1, <5>2, PendingType DEF Alone, LockInv, Requests, Asks
          <6>2. o # op
            BY <1>1, <2>2, <3>1 DEF OnceKinds
          <6>3. QED
            BY <1>2, <3>1, <5>2, <6>1, <6>2 DEF Op
        <5>3. QED
          BY <2>2, <5>1, <5>2
      <4>2. QED
        BY <1>1, <1>a, <2>2, <3>1, <4>1
    <3>2. CASE op.kind # "admin"
      BY <1>1, <1>a, <2>2, <3>2
    <3>3. QED
      BY <3>1, <3>2
  <2>3. \A x \in Admins : HoldsKey(x) => Key(x) \in locked
    BY DEF Alone, LockInv, KeysHeld
  <2>4. QED
    BY <1>1, <2>1, <2>2, <2>3, LocksKept DEF Alone
<1>4. Marked' /\ Mutable'
  <2>1. \A o \in Pending' : o.kind = "mutate" => o \in Pending /\ o.id \in mutating'
    BY <1>1, <1>a DEF Alone, Marked, OnceKinds
  <2>2. slot.op.kind # "mutate" /\ slot.phase # "mutating"
    BY IdleShape
  <2>3. QED
    BY <2>1, <2>2, MarksKept DEF Alone
<1>5. Sent'
  <2>1. \A o \in Pending' : o.kind = "prompt" => o \in Pending /\ command'[o.arg] = "queued"
    BY <1>1, <1>2, <1>a, PendingType, OpFields DEF Alone, Sent, OnceKinds, TypeOK
  <2>2. \A c \in Cmds : command[c] \notin {"unsent", "queued"} => command'[c] \notin {"unsent", "queued"}
    BY <1>a DEF TypeOK
  <2>3. \A o \in Pending' : o.kind = "settle" => o \in Pending
    BY <1>1
  <2>4. QED
    BY <2>1, <2>2, <2>3, SentKept DEF Alone
<1>6. Approval'
  BY DEF Alone, Approval
<1>7. QED
  BY <1>3, <1>4, <1>5, <1>6 DEF Alone

(* A prompt is rejected, or its admission begins. *)
LEMMA StartAlone == TypeOK /\ TypeOK' /\ Held /\ Alone /\ StartPrompt => Alone'
<1> SUFFICES ASSUME TypeOK, TypeOK', Held, Alone, StartPrompt PROVE Alone'
  OBVIOUS
<1> DEFINE op == Head(queue)
<1> USE DEF registryVars, lockVars, commandVars, outsideVars
<1>1. /\ slot.phase = "idle" /\ queue # <<>> /\ Take /\ op.kind = "prompt"
      /\ UNCHANGED <<locked, promise, deleted, used>>
  BY DEF StartPrompt, Ready
<1>2. /\ Once' /\ Pending' \subseteq Pending /\ op \in Pending /\ op \notin Pending'
  BY <1>1, TakeTokens DEF Alone, LockInv, OnceKinds
<1>3. op \in Op /\ op.arg \in Cmds
  BY <1>1, <1>2, PendingType, OpFields
<1>a. \A o \in Pending' : o.kind = "prompt" => o.arg # op.arg
  BY <1>1, <1>2 DEF Alone, Sent
<1> HIDE DEF op
<1>4. CASE Finally(op) /\ UNCHANGED <<slot, registryVars>>
  BY <1>1, <1>4, FinallyAlone DEF op
<1>5. CASE /\ UNCHANGED <<sessions, mutating, admin>>
           /\ \/ slot' = slot /\ command' = [command EXCEPT ![op.arg] = "rejected"]
              \/ slot' = Busy("admitting", op) /\ command' = command
  <2>0. slot = Idle /\ slot.dying = {} /\ slot.op.kind = "dispose"
    BY <1>1, IdleShape
  <2>1. /\ slot'.phase \in {"idle", "admitting"} /\ slot'.dying = {} /\ slot'.op.kind # "mutate"
        /\ slot'.phase = "admitting" => slot'.op = op /\ command' = command
    BY <1>1, <1>3, <1>5, <2>0, BusyType DEF Phases
  <2>2. LockInv'
    <3>1. \A x \in Admins : HoldsKey(x) => Key(x) \in locked
      BY DEF Alone, LockInv, KeysHeld
    <3>2. QED
      BY <1>1, <1>2, <1>5, <2>1, <3>1, LocksKept DEF Alone
  <2>3. Marked' /\ Mutable'
    BY <1>1, <1>2, <1>5, <2>1, MarksKept DEF Alone, Marked
  <2>4. Sent'
    <3>1. \A c \in Cmds \ {op.arg} : command'[c] = command[c]
      BY <1>5 DEF TypeOK
    <3>2. command'[op.arg] \in {"queued", "rejected"} /\ command[op.arg] = "queued"
      BY <1>1, <1>2, <1>3, <1>5 DEF Alone, Sent, TypeOK
    <3>3. \A o \in Pending' : o.kind \in {"prompt", "settle"} => o.arg \in Cmds \ {op.arg}
      BY <1>2, <1>a, <3>2, PendingType, OpFields DEF Alone, Sent
    <3>4. \A c \in Cmds : promise[c] # None => c # op.arg
      BY <3>2 DEF Alone, Sent
    <3>5. QED
      BY <1>1, <1>2, <2>1, <3>1, <3>2, <3>3, <3>4 DEF Alone, Sent
  <2>5. Approval'
    BY <2>1 DEF Approval
  <2>6. QED
    BY <2>2, <2>3, <2>4, <2>5 DEF Alone
<1>6. QED
  BY <1>4, <1>5 DEF StartPrompt, op
(* A mutation begins, or is refused. *)
LEMMA BeginMutationAlone == TypeOK /\ TypeOK' /\ Held /\ Alone /\ BeginMutation => Alone'
<1> SUFFICES ASSUME TypeOK, TypeOK', Held, Alone, BeginMutation PROVE Alone'
  OBVIOUS
<1> DEFINE op == Head(queue)
<1> USE DEF registryVars, lockVars, commandVars, outsideVars
<1>1. /\ slot.phase = "idle" /\ queue # <<>> /\ Take /\ op.kind = "mutate"
      /\ UNCHANGED <<sessions, entry, locked, promise, deleted, used>>
  BY DEF BeginMutation, Ready
<1>2. /\ Once' /\ Pending' \subseteq Pending /\ op \in Pending /\ op \notin Pending'
  BY <1>1, TakeTokens DEF Alone, LockInv, OnceKinds
<1>3. op \in Op
  BY <1>2, PendingType
<1> HIDE DEF op
<1>4. CASE Finally(op) /\ UNCHANGED slot
  BY <1>1, <1>4, FinallyAlone DEF op
<1>5. CASE MayMutate(op) /\ slot' = Busy("mutating", op) /\ UNCHANGED <<mutating, admin, command>>
  <2>1. slot'.phase = "mutating" /\ slot'.op = op /\ slot'.dying = {}
    BY <1>3, <1>5, BusyType DEF Phases
  <2>2. LockInv'
    <3>1. \A x \in Admins : HoldsKey(x) => Key(x) \in locked
      BY DEF Alone, LockInv, KeysHeld
    <3>2. QED
      BY <1>1, <1>2, <1>5, <2>1, <3>1, LocksKept DEF Alone
  <2>3. Marked'
    BY <1>1, <1>2, <1>5, <2>1 DEF Alone, Marked
  <2>4. Mutable'
    BY <1>1, <1>5, <2>1 DEF Mutable, MayMutate, IdleEntry, BackendRunning, KeyLocked
  <2>5. Sent'
    BY <1>1, <1>2, <1>5, <2>1, SentKept, PendingType, OpFields DEF Alone, Sent
  <2>6. Approval'
    BY <2>1 DEF Approval
  <2>7. QED
    BY <2>2, <2>3, <2>4, <2>5, <2>6 DEF Alone
<1>6. QED
  BY <1>4, <1>5 DEF BeginMutation, op

(* A request gets its key, or is refused. *)
LEMMA BeginAdministrationAlone ==
    TypeOK /\ TypeOK' /\ Held /\ Alone /\ BeginAdministration => Alone'
<1> SUFFICES ASSUME TypeOK, TypeOK', Held, Alone, BeginAdministration PROVE Alone'
  OBVIOUS
<1>0. PICK op \in Op : op = Head(queue)
  BY HeadType DEF BeginAdministration, Ready
<1> DEFINE x == op.arg
<1> USE DEF registryVars, lockVars, commandVars, outsideVars
<1>1. /\ slot.phase = "idle" /\ queue # <<>> /\ op.kind = "admin" /\ op \in Op
      /\ UNCHANGED <<promise, deleted, used>>
  BY <1>0 DEF BeginAdministration, Ready
<1>2. /\ op.id \in Ids /\ op.cwd \in Projects /\ x \in Admins /\ op \in Pending
  <2>1. queue[1] = Head(queue) /\ 1 \in DOMAIN queue
    BY <1>1 DEF TypeOK
  <2>2. QED
    BY <1>0, <1>1, <2>1, OpFields DEF Pending
<1>3. /\ admin[x].phase = "locking" /\ admin[x].cwd = op.cwd /\ admin[x].id = op.id
      /\ op.id \in used
  BY <1>1, <1>2 DEF Alone, LockInv, Requests, Asks
<1>4. slot = Idle /\ slot.dying = {} /\ slot.op.kind = "dispose"
  BY <1>1, IdleShape
<1>5. CASE Take /\ Finally(op) /\ UNCHANGED <<slot, registryVars, locked>>
  BY <1>1, <1>5, <1>0, FinallyAlone
<1>6. ASSUME ~KeyLocked(op.cwd, op.id), locked' = locked \cup {<<op.cwd, op.id>>},
             UNCHANGED <<mutating, command>>, Once',
             sessions' \cup slot'.dying \subseteq sessions,
             \A y \in Admins \ {x} : admin'[y] = admin[y],
             admin'[x].cwd = op.cwd /\ admin'[x].id = op.id,
             \A o \in Pending' : o \in Pending \/ o.kind = "unlock",
             \A o \in Pending' : o.kind = "admin" => o.arg # x,
             \A o \in Pending' : o.kind = "unlock" =>
                 \/ o \in Pending /\ o.arg # x
                 \/ o.arg = x /\ o.cwd = op.cwd /\ o.id = op.id /\ admin'[x].phase = "unlocking",
             \/ slot' = slot /\ admin'[x].phase = "operating" /\ op.id \notin sessions
             \/ slot' = slot /\ admin'[x].phase = "unlocking"
             \/ /\ slot'.phase = "administering" /\ slot'.op = op /\ admin' = admin
                /\ slot'.dying = {op.id}
      PROVE  Alone'
  <2>1. \A y \in Admins : HoldsKey(y) => y # x /\ Key(y) # <<op.cwd, op.id>> /\ Key(y) \in locked
    BY <1>1, <1>3, <1>6 DEF Alone, LockInv, KeysHeld, HoldsKey, KeyLocked
  <2>2. Requests'
    <3>1. ASSUME NEW o \in Pending', o.kind = "admin"
          PROVE  admin'[o.arg].phase = "locking" /\ Asks(o, o.arg)'
      <4>1. o \in Pending /\ o.arg \in Admins \ {x}
        BY <1>6, <3>1, PendingType, OpFields
      <4>2. QED
        BY <1>6, <3>1, <4>1 DEF Alone, LockInv, Requests, Asks
    <3>2. ASSUME NEW o \in Pending', o.kind = "unlock"
          PROVE  o.arg \in Admins /\ admin'[o.arg].phase = "unlocking" /\ Asks(o, o.arg)'
      <4>1. CASE o \in Pending /\ o.arg # x
        BY <1>6, <3>2, <4>1 DEF Alone, LockInv, Requests, Asks
      <4>2. CASE ~(o \in Pending /\ o.arg # x)
        BY <1>2, <1>6, <3>2, <4>2 DEF Asks
      <4>3. QED
        BY <4>1, <4>2
    <3>3. slot'.phase = "administering" =>
             /\ admin'[slot'.op.arg].phase = "locking" /\ Asks(slot.op, slot.op.arg)'
             /\ slot'.op \notin Pending' /\ slot'.dying = {slot'.op.id}
      BY <1>1, <1>3, <1>6 DEF Asks
    <3>4. \A y \in Admins : admin'[y].phase # "idle" =>
             admin'[y].cwd \in Projects /\ admin'[y].id \in used'
      BY <1>1, <1>2, <1>3, <1>6 DEF Alone, LockInv, Requests
    <3>5. QED
      BY <3>1, <3>2, <3>3, <3>4 DEF Requests
  <2>3. \A y \in Admins \ {x} : /\ HoldsKey(y)' => HoldsKey(y)
                                /\ Key(y)' = Key(y)
    BY <1>1, <1>6 DEF HoldsKey, Key
  <2>a. Key(x)' = <<op.cwd, op.id>>
    BY <1>6 DEF Key
  <2>4. KeysHeld'
    <3>1. \A y \in Admins : HoldsKey(y)' => Key(y)' \in locked'
      BY <1>6, <2>1, <2>3, <2>a
    <3>2. ASSUME NEW y \in Admins, NEW z \in Admins, HoldsKey(y)', HoldsKey(z)', Key(y)' = Key(z)'
          PROVE  y = z
      BY <2>1, <2>3, <2>a, <3>2 DEF Alone, LockInv, KeysHeld
    <3>3. QED
      BY <3>1, <3>2 DEF KeysHeld
  <2>5. FilesFree'
    BY <1>1, <1>2, <1>4, <1>6 DEF Alone, LockInv, FilesFree, DeletedStaysGone, KeyLocked
  <2>6. Marked' /\ Mutable'
    BY <1>1, <1>4, <1>6, MarksKept DEF Alone, Marked
  <2>7. Sent'
    BY <1>1, <1>4, <1>6, SentKept, PendingType, OpFields DEF Alone, Sent
  <2>8. Approval'
    BY <1>1, <1>6 DEF Approval
  <2>9. QED
    BY <1>6, <2>2, <2>4, <2>5, <2>6, <2>7, <2>8 DEF Alone, LockInv
<1>a. ASSUME NEW o \in Pending, o.kind \in {"admin", "unlock"}, o.arg = x  PROVE o = op
  <2>1. o.kind = "admin" /\ o.cwd = op.cwd /\ o.id = op.id
    BY <1>a, <1>3 DEF Alone, LockInv, Requests, Asks
  <2>2. o \in Op
    BY PendingType
  <2>3. QED
    BY <1>1, <1>a, <2>1, <2>2 DEF Op
<1>b. ASSUME Take
      PROVE  /\ Once' /\ Pending' \subseteq Pending /\ op \notin Pending'
             /\ \A o \in Pending' : o.kind \in {"admin", "unlock"} => o.arg # x
  BY <1>1, <1>a, <1>b, <1>0, TakeTokens DEF Alone, LockInv, OnceKinds
<1>7. CASE /\ ~KeyLocked(op.cwd, op.id) /\ locked' = locked \cup {<<op.cwd, op.id>>}
           /\ op.id \in sessions /\ Take
           /\ BeginDispose(op.id, "administering", op, {})
           /\ UNCHANGED <<mutating, admin, command>>
  <2>1. /\ sessions' = sessions \ {op.id} /\ slot'.phase = "administering" /\ slot'.op = op
        /\ slot'.dying = {op.id}
    BY <1>1, <1>2, <1>7, DisposeType DEF Phases
  <2>2. QED
    BY <1>3, <1>6, <1>7, <1>b, <2>1
<1>8. CASE /\ ~KeyLocked(op.cwd, op.id) /\ locked' = locked \cup {<<op.cwd, op.id>>}
           /\ op.id \notin sessions /\ Take
           /\ admin' = [admin EXCEPT ![x].phase = "operating"]
           /\ UNCHANGED <<slot, registryVars, mutating, command>>
  <2>1. /\ \A y \in Admins \ {x} : admin'[y] = admin[y]
        /\ admin'[x].phase = "operating" /\ admin'[x].cwd = op.cwd /\ admin'[x].id = op.id
    BY <1>2, <1>3, <1>8 DEF TypeOK
  <2>2. QED
    BY <1>4, <1>6, <1>8, <1>b, <2>1
<1>9. CASE /\ ~KeyLocked(op.cwd, op.id) /\ locked' = locked \cup {<<op.cwd, op.id>>}
           /\ queue' = Append(Tail(queue), Operation("unlock", op.cwd, op.id, x))
           /\ admin' = [admin EXCEPT ![x].phase = "unlocking"]
           /\ UNCHANGED <<slot, registryVars, mutating, command>>
  <2> DEFINE u == Operation("unlock", op.cwd, op.id, x)
             rest == {Tail(queue)[n] : n \in DOMAIN Tail(queue)}
  <2>1. /\ \A y \in Admins \ {x} : admin'[y] = admin[y]
        /\ admin'[x].phase = "unlocking" /\ admin'[x].cwd = op.cwd /\ admin'[x].id = op.id
    BY <1>2, <1>3, <1>9 DEF TypeOK
  <2>2. u \in Op /\ u.kind = "unlock" /\ u.arg = x /\ u.cwd = op.cwd /\ u.id = op.id
    BY <1>2 DEF Operation, Op, Kinds
  <2> HIDE DEF u
  <2>3. /\ Tail(queue) \in Seq(Op)
        /\ DOMAIN Tail(queue) = 1..(Len(queue) - 1) /\ Len(queue) \in Nat \ {0}
        /\ \A n \in DOMAIN Tail(queue) : Tail(queue)[n] = queue[n + 1] /\ n + 1 \in DOMAIN queue
        /\ op = queue[1] /\ 1 \in DOMAIN queue
    BY <1>0, <1>1 DEF TypeOK
  <2>4. \A m, n \in DOMAIN Tail(queue) :
           Tail(queue)[m] = Tail(queue)[n] /\ Tail(queue)[m].kind \in OnceKinds => m = n
    <3>1. ASSUME NEW m \in DOMAIN Tail(queue), NEW n \in DOMAIN Tail(queue),
                 Tail(queue)[m] = Tail(queue)[n], Tail(queue)[m].kind \in OnceKinds
          PROVE  m = n
      <4>1. m + 1 = n + 1
        BY <2>3, <3>1 DEF Alone, LockInv, Once
      <4>2. QED
        BY <2>3, <4>1
    <3>2. QED
      BY <3>1
  <2>5. rest \subseteq Pending /\ op \notin rest
    <3>1. rest \subseteq Pending
      BY <2>3 DEF Pending
    <3>2. ASSUME NEW n \in DOMAIN Tail(queue), Tail(queue)[n] = op  PROVE FALSE
      <4>1. n + 1 = 1
        BY <1>1, <2>3, <3>2 DEF Alone, LockInv, Once, OnceKinds
      <4>2. QED
        BY <2>3, <4>1
    <3>3. QED
      BY <3>1, <3>2
  <2>6. \A o \in rest : o.kind \in {"admin", "unlock"} => o.arg # x
    BY <1>a, <2>5
  <2>7. Once' /\ Pending' = rest \cup {u}
    BY <1>9, <2>2, <2>3, <2>4, <2>6, AppendTokens DEF u
  <2>8. QED
    BY <1>4, <1>6, <1>9, <2>1, <2>2, <2>5, <2>6, <2>7
<1>10. QED
  BY <1>0, <1>5, <1>7, <1>8, <1>9 DEF BeginAdministration

(* A request gives its key back. *)
LEMMA UnlockAlone == TypeOK /\ TypeOK' /\ Held /\ Alone /\ UnlockKey => Alone'
<1> SUFFICES ASSUME TypeOK, TypeOK', Held, Alone, UnlockKey PROVE Alone'
  OBVIOUS
<1> DEFINE op == Head(queue)
           x == op.arg
<1> USE DEF registryVars, lockVars, commandVars, outsideVars
<1>1. /\ slot.phase = "idle" /\ queue # <<>> /\ Take /\ op.kind = "unlock"
      /\ locked' = locked \ {<<op.cwd, op.id>>} /\ admin' = [admin EXCEPT ![x] = NoAdmin]
      /\ UNCHANGED <<slot, sessions, entry, mutating, command, promise, deleted, used>>
  BY DEF UnlockKey, Ready
<1>2. /\ Once' /\ Pending' \subseteq Pending /\ op \in Pending /\ op \notin Pending'
  BY <1>1, TakeTokens DEF Alone, LockInv, OnceKinds
<1>3. op \in Op /\ slot.op.kind = "dispose" /\ slot.dying = {}
  BY <1>1, <1>2, PendingType, IdleShape
<1> HIDE DEF op
<1>4. x \in Admins /\ admin[x].phase = "unlocking" /\ Key(x) = <<op.cwd, op.id>>
  BY <1>1, <1>2 DEF Alone, LockInv, Requests, Asks, Key
<1>5. ASSUME NEW o \in Pending', o.kind \in {"admin", "unlock"}  PROVE o.arg # x
  <2>1. o.arg = x => o.kind = "unlock" /\ o.cwd = op.cwd /\ o.id = op.id
    BY <1>1, <1>2, <1>4, <1>5 DEF Alone, LockInv, Requests, Asks
  <2>2. o \in Op /\ o # op
    BY <1>2, PendingType
  <2>3. QED
    BY <1>1, <1>3, <2>1, <2>2 DEF Op
<1>6. LockInv'
  <2>1. /\ \A y \in Admins \ {x} : admin'[y] = admin[y]
        /\ admin'[x].phase = "idle"
    BY <1>1, <1>4 DEF TypeOK, NoAdmin
  <2>2. \A y \in Admins : HoldsKey(y) /\ HoldsKey(y)' => Key(y) \in locked'
    BY <1>1, <1>4, <2>1 DEF HoldsKey, Alone, LockInv, KeysHeld
  <2>3. \A o \in Pending' : o.kind \in {"admin", "unlock"} => admin'[o.arg] = admin[o.arg]
    BY <1>1, <1>5
  <2>4. slot'.phase \notin {"evicting", "opening", "discarding", "administering"}
    BY <1>1
  <2>5. QED
    BY <1>1, <1>2, <2>1, <2>2, <2>3, <2>4, LocksKept DEF Alone
<1>7. Marked' /\ Mutable'
  BY <1>1, <1>2, <1>3, MarksKept DEF Alone, Marked
<1>8. Sent'
  BY <1>1, <1>2, SentKept, PendingType, OpFields DEF Alone, Sent
<1>9. Approval'
  BY <1>1 DEF Approval
<1>10. QED
  BY <1>6, <1>7, <1>8, <1>9 DEF Alone
LEMMA CapacityAlone ==
    ASSUME TypeOK, TypeOK', Held, Alone, slot.phase = "idle", queue # <<>>, Take,
           EnsureCapacity(Head(queue)), Head(queue).kind \in {"create", "load"},
           Head(queue).kind = "load" => Loadable(Head(queue)),
           UNCHANGED <<admin, mutating, locked, deleted, used, promise, command>>
    PROVE  Alone'
<1> DEFINE op == Head(queue)
<1>1. op \in Op
  BY HeadType
<1>2. slot = Idle /\ slot.dying = {} /\ slot.op.kind = "dispose"
  BY IdleShape
<1>3. /\ sessions' \cup slot'.dying \subseteq sessions
      /\ \/ slot'.phase = "idle" /\ slot'.op.kind = "dispose"
         \/ slot'.phase \in {"opening", "evicting"} /\ slot'.op = op
  <2>1. CASE slot' = Busy("opening", op) /\ UNCHANGED registryVars
    BY <1>1, <2>1, BusyType DEF Phases, registryVars
  <2>2. CASE \E i \in LeastRecent : BeginDispose(i, "evicting", op, {})
    <3>1. PICK i \in sessions : i \in Ids /\ BeginDispose(i, "evicting", op, {})
      BY <2>2 DEF LeastRecent, Evictable, TypeOK
    <3>2. sessions' = sessions \ {i} /\ slot'.phase = "evicting" /\ slot'.op = op /\ slot'.dying = {i}
      BY <1>1, <3>1, DisposeType DEF Phases
    <3>3. QED
      BY <3>2
  <2>3. CASE UNCHANGED <<slot, registryVars>>
    BY <1>2, <2>3, IdleType DEF registryVars
  <2>4. QED
    BY <2>1, <2>2, <2>3 DEF EnsureCapacity
<1>4. QED
  BY <1>3, TurnAlone DEF Loadable, OnceKinds

LEMMA ExecuteAlone == TypeOK /\ TypeOK' /\ Held /\ Alone /\ Execute => Alone'
<1> SUFFICES ASSUME TypeOK, TypeOK', Held, Alone, Execute PROVE Alone'
  OBVIOUS
<1> DEFINE op == Head(queue)
<1> USE DEF registryVars, lockVars, commandVars, outsideVars
<1>1. queue # <<>> /\ op \in Op /\ slot.phase = "idle"
  BY HeadType DEF Execute, Refuse, CreateSession, LoadSession, ReadSession, CloseSession,
     StartPrompt, SettleCommand, AbortRun, BeginMutation, BeginAdministration, UnlockKey,
     ApproveTrust, Dispose, Ready
<1>2. slot = Idle /\ slot.dying = {} /\ slot.op.kind = "dispose" /\ slot.phase = "idle"
  BY <1>1, IdleShape
<1>a. ASSUME Take, slot' = slot, UNCHANGED <<admin, mutating, locked, deleted, used, promise, command,
                                            sessions>>, op.kind \notin OnceKinds
      PROVE  Alone'
  BY <1>1, <1>2, <1>a, TurnAlone
<1>3. CASE Refuse
  BY <1>1, <1>3, FinallyAlone DEF Refuse
<1>4. CASE CreateSession
  BY <1>1, <1>4, CapacityAlone DEF CreateSession, Ready
<1>5. CASE LoadSession
  <2>1. CASE UNCHANGED slot /\ UNCHANGED sessions
    BY <1>5, <1>a, <2>1 DEF LoadSession, Ready, OnceKinds
  <2>2. CASE Loadable(op) /\ EnsureCapacity(op)
    BY <1>1, <1>5, <2>2, CapacityAlone DEF LoadSession, Ready
  <2>3. QED
    BY <1>5, <2>1, <2>2 DEF LoadSession
<1>6. CASE ReadSession
  BY <1>6, <1>a DEF ReadSession, Ready, OnceKinds
<1>7. CASE CloseSession
  <2>1. CASE op.id \in sessions /\ BeginDispose(op.id, "closing", op, {})
    <3>1. op.id \in Ids /\ op.kind = "close" /\ Take
      BY <1>1, <1>7, <2>1 DEF CloseSession, Ready, TypeOK
    <3>2. sessions' = sessions \ {op.id} /\ slot'.phase = "closing" /\ slot'.op = op
          /\ slot'.dying = {op.id}
      BY <1>1, <2>1, <3>1, DisposeType DEF Phases
    <3>3. QED
      BY <1>1, <1>7, <2>1, <3>1, <3>2, TurnAlone DEF CloseSession, OnceKinds
  <2>2. QED
    BY <1>7, <1>a, <2>1 DEF CloseSession, Ready, OnceKinds
<1>8. CASE StartPrompt
  BY <1>8, StartAlone
<1>9. CASE SettleCommand
  <2>1. op.kind = "settle" /\ op.arg \in Cmds /\ op \in Pending /\ Take
    BY <1>1, <1>9, TakeTokens, OpFields DEF SettleCommand, Ready, Alone, LockInv
  <2>2. command[op.arg] \notin {"unsent", "queued"}
    BY <2>1 DEF Alone, Sent
  <2>3. \A completion \in Completions, r \in BOOLEAN :
           Outcome(completion, r) \in {"succeeded", "failed", "aborted"}
    BY DEF Completions, Outcome
  <2>4. \/ command' = command
        \/ \E answer \in {"succeeded", "failed", "aborted"} :
              command' = [command EXCEPT ![op.arg] = answer]
    BY <1>9, <2>3 DEF SettleCommand, Outcome, Completions
  <2>5. \A c \in Cmds : /\ command[c] = "queued" => command'[c] = "queued"
                        /\ command[c] \notin {"unsent", "queued"} =>
                               command'[c] \notin {"unsent", "queued"}
    BY <2>1, <2>2, <2>4 DEF TypeOK
  <2>6. UNCHANGED <<slot, sessions, admin, mutating, locked, deleted, used, promise>>
    BY <1>9 DEF SettleCommand
  <2>7. QED
    BY <1>1, <1>2, <2>1, <2>5, <2>6, TurnAlone DEF OnceKinds
<1>10. CASE AbortRun
  <2>1. CASE slot' = Busy("aborting", op)
    <3>1. slot'.phase = "aborting" /\ slot'.op = op /\ slot'.dying = {}
      BY <1>1, <2>1, BusyType DEF Phases
    <3>2. QED
      BY <1>1, <1>10, <3>1, TurnAlone DEF AbortRun, Ready, OnceKinds
  <2>2. QED
    BY <1>10, <1>a, <2>1 DEF AbortRun, Ready, OnceKinds
<1>11. CASE BeginMutation
  BY <1>11, BeginMutationAlone
<1>12. CASE BeginAdministration
  BY <1>12, BeginAdministrationAlone
<1>13. CASE UnlockKey
  BY <1>13, UnlockAlone
<1>14. CASE ApproveTrust \/ Dispose
  <2>1. CASE \E rest \in SUBSET Ids :
                /\ slot' = [Busy("draining", op) EXCEPT !.rest = rest]
                /\ op.kind = "approve" => rest = SessionsOf(op.cwd)
    <3>1. PICK rest \in SUBSET Ids : /\ slot' = [Busy("draining", op) EXCEPT !.rest = rest]
                                     /\ op.kind = "approve" => rest = SessionsOf(op.cwd)
      BY <2>1
    <3>2. /\ slot'.phase = "draining" /\ slot'.op = op /\ slot'.dying = {} /\ slot'.rest = rest
      BY <3>1 DEF Busy
    <3>3. op.kind = "approve" => \A i \in sessions : ProjectOf[i] = op.cwd => i \in rest
      BY <3>1 DEF SessionsOf
    <3>4. /\ Take /\ op.kind \in {"approve", "dispose"}
          /\ UNCHANGED <<admin, mutating, locked, deleted, used, promise, command, sessions>>
      BY <1>14 DEF ApproveTrust, Dispose, Ready
    <3>5. QED
      BY <1>1, <3>2, <3>3, <3>4, TurnAlone DEF OnceKinds
  <2>2. CASE UNCHANGED slot
    BY <1>14, <1>a, <2>2 DEF ApproveTrust, Dispose, Ready, OnceKinds
  <2>3. SessionsOf(op.cwd) \in SUBSET Ids /\ sessions \in SUBSET Ids
    BY DEF SessionsOf, TypeOK
  <2>4. QED
    BY <1>14, <2>1, <2>2, <2>3 DEF ApproveTrust, Dispose, Ready
<1>15. QED
  BY <1>3, <1>4, <1>5, <1>6, <1>7, <1>8, <1>9, <1>10, <1>11, <1>12, <1>13, <1>14 DEF Execute
-----------------------------------------------------------------------------
(* What the running function awaits returns.                               *)

LEMMA ReturnAlone ==
    ASSUME TypeOK, TypeOK', Held, Alone,
           UNCHANGED <<queue, admin, locked, deleted, promise, command>>,
           used \subseteq used',
           \/ mutating' = mutating
           \/ /\ slot.op.kind = "mutate" /\ mutating' = mutating \ {slot.op.id}
              /\ slot'.op.kind # "mutate",
           slot'.phase \notin {"administering", "mutating", "admitting"},
           slot'.op.kind = "mutate" => slot'.op = slot.op,
           \A i \in sessions' \cup slot'.dying :
               \/ i \in sessions \cup slot.dying
               \/ i \notin used
               \/ i \notin deleted /\ ~KeyLocked(ProjectOf[i], i),
           slot'.phase \in {"evicting", "opening"} /\ slot'.op.kind = "load" =>
               ~KeyLocked(slot'.op.cwd, slot'.op.id),
           slot'.phase = "discarding" => slot'.op.kind \in {"create", "load", "mutate"},
           slot'.phase = "draining" /\ slot'.op.kind = "approve" =>
               \A i \in sessions' : ProjectOf[i] = slot'.op.cwd => i \in slot'.rest
    PROVE  Alone'
<1>1. Once' /\ Pending' = Pending
  BY SameTokens DEF Alone, LockInv
<1>2. LockInv'
  <2>1. \A x \in Admins : HoldsKey(x) => Key(x) \in locked
    BY DEF Alone, LockInv, KeysHeld
  <2>2. QED
    BY <1>1, <2>1, LocksKept DEF Alone, KeyLocked
<1>3. Marked' /\ Mutable'
  BY <1>1, MarksKept DEF Alone, Marked
<1>4. Sent'
  BY <1>1, SentKept, PendingType, OpFields DEF Alone, Sent
<1>5. Approval'
  BY DEF Approval
<1>6. QED
  BY <1>2, <1>3, <1>4, <1>5 DEF Alone

(* An administered session is disposed: the file operation begins, or, if  *)
(* dispose() threw, the key is given back.                                 *)
LEMMA AdministrationDisposedAlone ==
    TypeOK /\ TypeOK' /\ Held /\ Alone /\ AdministrationDisposed => Alone'
<1> SUFFICES ASSUME TypeOK, TypeOK', Held, Alone, AdministrationDisposed PROVE Alone'
  OBVIOUS
<1>0. PICK x \in Admins : x = slot.op.arg
  BY OpFields DEF AdministrationDisposed, Held, SlotShape, TypeOK, Slot
<1> USE DEF registryVars, lockVars, commandVars, outsideVars
<1>1. /\ slot.phase = "administering" /\ slot' = Idle /\ slot.op.kind = "admin" /\ slot.op \in Op
      /\ UNCHANGED <<sessions, entry, locked, mutating, command, promise, deleted, used>>
  BY DEF AdministrationDisposed, Held, SlotShape, TypeOK, Slot
<1>2. /\ slot'.phase = "idle" /\ slot'.op.kind = "dispose" /\ slot'.dying = {}
  BY <1>1, OpFields
<1>3. /\ admin[x].phase = "locking" /\ admin[x].cwd = slot.op.cwd /\ admin[x].id = slot.op.id
      /\ slot.op \notin Pending /\ slot.dying = {slot.op.id} /\ HoldsKey(x)
  BY <1>0, <1>1 DEF Alone, LockInv, Requests, Asks, HoldsKey
<1>4. admin[x].id \notin sessions
  BY <1>1, <1>3 DEF Held, LeaseMatchesRegistry, SlotShape, Disposing
<1>5. ASSUME NEW o \in Pending, o.kind \in {"admin", "unlock"}  PROVE o.arg # x
  <2>1. o.arg = x => o.kind = "admin" /\ o.cwd = slot.op.cwd /\ o.id = slot.op.id
    BY <1>3, <1>5 DEF Alone, LockInv, Requests, Asks
  <2>2. o \in Op /\ o # slot.op
    BY <1>3, PendingType
  <2>3. QED
    BY <1>0, <1>1, <2>1, <2>2 DEF Op
<1>6. ASSUME NEW phase \in {"operating", "unlocking"}, admin' = [admin EXCEPT ![x].phase = phase],
             Once',
             \A o \in Pending' : o \in Pending \/ o.kind = "unlock",
             \A o \in Pending' : o.kind = "unlock" =>
                 \/ o \in Pending
                 \/ o.arg = x /\ o.cwd = admin[x].cwd /\ o.id = admin[x].id /\ phase = "unlocking"
      PROVE  Alone'
  <2>1. /\ \A y \in Admins \ {x} : admin'[y] = admin[y]
        /\ admin'[x].phase = phase /\ admin'[x].cwd = admin[x].cwd /\ admin'[x].id = admin[x].id
    BY <1>6 DEF TypeOK
  <2>2. Requests'
    <3>1. ASSUME NEW o \in Pending', o.kind = "admin"
          PROVE  admin'[o.arg].phase = "locking" /\ Asks(o, o.arg)'
      <4>1. o \in Pending /\ o.arg \in Admins \ {x}
        BY <1>5, <1>6, <3>1, PendingType, OpFields
      <4>2. QED
        BY <2>1, <3>1, <4>1 DEF Alone, LockInv, Requests, Asks
    <3>2. ASSUME NEW o \in Pending', o.kind = "unlock"
          PROVE  o.arg \in Admins /\ admin'[o.arg].phase = "unlocking" /\ Asks(o, o.arg)'
      <4>1. CASE o \in Pending
        BY <1>5, <2>1, <3>2, <4>1 DEF Alone, LockInv, Requests, Asks
      <4>2. CASE o \notin Pending
        BY <1>6, <2>1, <3>2, <4>2 DEF Asks
      <4>3. QED
        BY <4>1, <4>2
    <3>3. \A y \in Admins : admin'[y].phase # "idle" =>
             admin'[y].cwd \in Projects /\ admin'[y].id \in used'
      BY <1>1, <1>3, <2>1 DEF Alone, LockInv, Requests
    <3>4. QED
      BY <1>2, <3>1, <3>2, <3>3 DEF Requests
  <2>3. KeysHeld'
    <3>1. \A y \in Admins : (HoldsKey(y)' => HoldsKey(y)) /\ Key(y)' = Key(y)
      BY <1>2, <1>3, <2>1 DEF HoldsKey, Key
    <3>2. QED
      BY <1>1, <3>1 DEF Alone, LockInv, KeysHeld
  <2>4. FilesFree'
    BY <1>1, <1>2, <1>4, <2>1 DEF Alone, LockInv, FilesFree, DeletedStaysGone, KeyLocked
  <2>5. Marked' /\ Mutable'
    BY <1>1, <1>2, <1>6, MarksKept DEF Alone, Marked
  <2>6. Sent'
    BY <1>1, <1>2, <1>6, SentKept, PendingType, OpFields DEF Alone, Sent
  <2>7. Approval'
    BY <1>2 DEF Approval
  <2>8. QED
    BY <1>6, <2>2, <2>3, <2>4, <2>5, <2>6, <2>7 DEF Alone, LockInv
<1>7. Once
  BY DEF Alone, LockInv
<1>8. CASE admin' = [admin EXCEPT ![x].phase = "operating"] /\ UNCHANGED queue
  BY <1>6, <1>7, <1>8, SameTokens
<1>9. CASE admin' = [admin EXCEPT ![x].phase = "unlocking"] /\ Unlock(x)
  <2> DEFINE u == Operation("unlock", admin[x].cwd, admin[x].id, x)
  <2>1. /\ u \in Op /\ u.kind = "unlock" /\ u.arg = x /\ u.cwd = admin[x].cwd /\ u.id = admin[x].id
    BY DEF Operation, Op, Kinds, TypeOK
  <2> HIDE DEF u
  <2>2. u \notin Pending
    BY <1>5, <2>1
  <2>3. Once' /\ Pending' = Pending \cup {u}
    BY <1>7, <1>9, <2>1, <2>2, EnqueueTokens DEF Unlock, u
  <2>4. QED
    BY <1>6, <1>9, <2>1, <2>3
<1>10. QED
  BY <1>0, <1>8, <1>9 DEF AdministrationDisposed

(* A prompt is admitted, or its admission fails. *)
LEMMA AdmissionAlone == TypeOK /\ TypeOK' /\ Held /\ Alone /\ AdmissionReturns => Alone'
<1> SUFFICES ASSUME TypeOK, TypeOK', Held, Alone, AdmissionReturns PROVE Alone'
  OBVIOUS
<1>0. PICK c \in Cmds : c = slot.op.arg
  BY OpFields DEF AdmissionReturns, Held, SlotShape, TypeOK, Slot
<1> USE DEF registryVars, lockVars, commandVars, outsideVars
<1>1. /\ slot.phase = "admitting" /\ slot' = Idle
      /\ UNCHANGED <<queue, sessions, admin, locked, mutating, deleted, used>>
  BY DEF AdmissionReturns
<1>2. slot'.phase = "idle" /\ slot'.op.kind = "dispose" /\ slot'.dying = {}
  BY <1>1, OpFields
<1>3. Once' /\ Pending' = Pending
  BY <1>1, SameTokens DEF Alone, LockInv
<1>4. LockInv'
  <2>1. \A x \in Admins : HoldsKey(x) => Key(x) \in locked
    BY DEF Alone, LockInv, KeysHeld
  <2>2. QED
    BY <1>1, <1>2, <1>3, <2>1, LocksKept DEF Alone
<1>5. Marked' /\ Mutable'
  BY <1>1, <1>2, <1>3, MarksKept DEF Alone, Marked
<1>6. Sent'
  <2>1. /\ command'[c] \notin {"unsent", "queued"}
        /\ \A d \in Cmds \ {c} : command'[d] = command[d] /\ promise'[d] = promise[d]
    BY <1>0 DEF AdmissionReturns, TypeOK
  <2>2. \A o \in Pending : o.kind = "prompt" => o.arg \in Cmds \ {c}
    BY <1>0, <1>1, PendingType, OpFields DEF Alone, Sent
  <2>3. \A o \in Pending : o.kind = "settle" => o.arg \in Cmds
    BY PendingType, OpFields
  <2>4. QED
    BY <1>2, <1>3, <2>1, <2>2, <2>3 DEF Alone, Sent
<1>7. Approval'
  BY <1>2 DEF Approval
<1>8. QED
  BY <1>4, <1>5, <1>6, <1>7 DEF Alone
LEMMA ResumeAlone == TypeOK /\ TypeOK' /\ Held /\ Alone /\ Resume => Alone'
<1> SUFFICES ASSUME TypeOK, TypeOK', Held, Alone, Resume PROVE Alone'
  OBVIOUS
<1> USE DEF registryVars, lockVars, commandVars, outsideVars
<1>1. slot.op \in Op
  BY DEF TypeOK, Slot
<1>2. Idle.phase = "idle" /\ Idle.op.kind = "dispose" /\ Idle.dying = {}
  BY OpFields
<1>a. ASSUME Finally(slot.op), slot.op.kind \in {"create", "load", "mutate"}
      PROVE  /\ UNCHANGED <<admin, command>>
             /\ \/ mutating' = mutating
                \/ slot.op.kind = "mutate" /\ mutating' = mutating \ {slot.op.id}
  BY <1>a DEF Finally
<1>3. CASE EvictionReturns
  <2>1. CASE slot' = Idle
    BY <1>2, <1>3, <2>1, ReturnAlone DEF EvictionReturns
  <2>2. CASE slot' = Busy("opening", slot.op)
    <3>1. slot'.phase = "opening" /\ slot'.op = slot.op /\ slot'.dying = {}
      BY <1>1, <2>2, BusyType DEF Phases
    <3>2. /\ slot.op.kind \in {"create", "load"}
          /\ slot.op.kind = "load" => ~KeyLocked(slot.op.cwd, slot.op.id)
      BY <1>3 DEF EvictionReturns, Held, SlotShape, Alone, LockInv, FilesFree
    <3>3. QED
      BY <1>3, <3>1, <3>2, ReturnAlone DEF EvictionReturns
  <2>3. QED
    BY <1>3, <2>1, <2>2 DEF EvictionReturns
<1>4. CASE OpenReturns
  <2>1. PICK i \in Ids : /\ ProjectOf[i] = slot.op.cwd /\ Register(i)
                         /\ IF slot.op.kind = "create" THEN i \notin used
                                                       ELSE i = slot.op.id /\ i \notin deleted
    BY <1>4 DEF OpenReturns
  <2>2. slot.op.kind \in {"create", "load"} /\ slot.phase = "opening"
    BY <1>4 DEF OpenReturns, Held, SlotShape
  <2>3. i \in used => i \notin deleted /\ ~KeyLocked(ProjectOf[i], i)
    BY <2>1, <2>2 DEF Alone, LockInv, FilesFree
  <2>4. /\ slot'.phase \in {"idle", "discarding"} /\ slot'.op.kind \in {"create", "load", "dispose"}
        /\ slot'.phase = "discarding" => slot'.op.kind \in {"create", "load"}
        /\ sessions' \cup slot'.dying \subseteq sessions \cup {i}
    <3>1. CASE slot' = [Busy("discarding", slot.op) EXCEPT !.dying = {i}] /\ UNCHANGED registryVars
      <4>1. slot'.phase = "discarding" /\ slot'.op = slot.op /\ slot'.dying = {i}
        BY <3>1 DEF Busy
      <4>2. QED
        BY <2>2, <3>1, <4>1
    <3>2. CASE slot' = Idle /\ sessions' = sessions \cup {i}
      BY <1>2, <3>2
    <3>3. QED
      BY <2>1, <3>1, <3>2 DEF Register
  <2>5. /\ UNCHANGED <<queue, admin, locked, deleted, promise, command, mutating>>
        /\ used \subseteq used'
    BY <1>4 DEF OpenReturns
  <2>6. QED
    BY <2>3, <2>4, <2>5, ReturnAlone
<1>5. CASE OpenFails \/ CloseReturns \/ AbortReturns
  BY <1>2, <1>5, ReturnAlone DEF OpenFails, CloseReturns, AbortReturns
<1>6. CASE DiscardReturns
  <2>1. slot.op.kind \in {"create", "load", "mutate"}
    BY <1>6 DEF DiscardReturns, Alone, LockInv, FilesFree
  <2>2. QED
    BY <1>2, <1>6, <1>a, <2>1, ReturnAlone DEF DiscardReturns
<1>7. CASE AdmissionReturns
  BY <1>7, AdmissionAlone
<1>8. CASE MutationThrows \/ NavigationReturns
  <2>1. slot.op.kind = "mutate" /\ slot' = Idle /\ Finally(slot.op)
    BY <1>8 DEF MutationThrows, NavigationReturns, Held, SlotShape
  <2>2. QED
    BY <1>2, <1>8, <1>a, <2>1, ReturnAlone DEF MutationThrows, NavigationReturns
<1>9. CASE ReplacementReturns
  <2>1. slot.op.kind = "mutate"
    BY <1>9 DEF ReplacementReturns, Held, SlotShape
  <2>2. PICK j \in Ids \ used :
           \/ /\ sessions' = (sessions \ {slot.op.id}) \cup {j} /\ Finally(slot.op) /\ slot' = Idle
           \/ /\ sessions' = sessions \ {slot.op.id}
              /\ slot' = [Busy("discarding", slot.op) EXCEPT !.holding = {slot.op.id}, !.dying = {j}]
              /\ UNCHANGED <<mutating, admin, command>>
    BY <1>9 DEF ReplacementReturns
  <2>3. UNCHANGED <<queue, locked, promise, deleted>> /\ used \subseteq used'
    BY <1>9 DEF ReplacementReturns
  <2>4. CASE slot' = Idle /\ Finally(slot.op) /\ sessions' = (sessions \ {slot.op.id}) \cup {j}
    BY <1>2, <1>a, <2>1, <2>3, <2>4, ReturnAlone
  <2>5. CASE /\ sessions' = sessions \ {slot.op.id}
             /\ slot' = [Busy("discarding", slot.op) EXCEPT !.holding = {slot.op.id}, !.dying = {j}]
             /\ UNCHANGED <<mutating, admin, command>>
    <3>1. slot'.phase = "discarding" /\ slot'.op = slot.op /\ slot'.dying = {j}
      BY <2>5 DEF Busy
    <3>2. QED
      BY <2>1, <2>3, <2>5, <3>1, ReturnAlone
  <2>6. QED
    BY <2>2, <2>4, <2>5
<1>10. CASE AdministrationDisposed
  BY <1>10, AdministrationDisposedAlone
<1>11. CASE DrainNext
  <2>1. PICK i \in slot.rest : BeginDispose(i, "draining", slot.op, slot.rest \ {i})
    BY <1>11 DEF DrainNext
  <2>2. /\ slot.phase = "draining" /\ slot.rest \subseteq sessions
        /\ slot.op.kind \in {"approve", "dispose"} /\ i \in Ids /\ slot.rest \in SUBSET Ids
    BY <1>11 DEF DrainNext, Held, SlotShape, TypeOK
  <2>3. /\ sessions' = sessions \ {i} /\ slot'.phase = "draining" /\ slot'.op = slot.op
        /\ slot'.dying = {i} /\ slot'.rest = slot.rest \ {i}
    BY <1>1, <2>1, <2>2, DisposeType DEF Phases
  <2>4. slot.op.kind = "approve" =>
           \A k \in sessions : ProjectOf[k] = slot.op.cwd => k \in slot.rest
    BY <2>2 DEF Alone, Approval
  <2>5. QED
    BY <1>11, <2>2, <2>3, <2>4, ReturnAlone DEF DrainNext
<1>12. CASE DrainReturns
  <2>1. slot.phase = "draining" /\ slot.op.kind \in {"approve", "dispose"}
    BY <1>12 DEF DrainReturns, Held, SlotShape
  <2>2. CASE slot' = Idle
    BY <1>2, <1>12, <2>2, ReturnAlone DEF DrainReturns
  <2>3. CASE slot' = [slot EXCEPT !.holding = {}, !.dying = {}]
    <3>1. /\ slot'.phase = "draining" /\ slot'.op = slot.op /\ slot'.dying = {}
          /\ slot'.rest = slot.rest
      BY <2>1, <2>3 DEF TypeOK, Slot
    <3>2. slot.op.kind = "approve" =>
             \A k \in sessions : ProjectOf[k] = slot.op.cwd => k \in slot.rest
      BY <2>1 DEF Alone, Approval
    <3>3. QED
      BY <1>12, <2>1, <3>1, <3>2, ReturnAlone DEF DrainReturns
  <2>4. QED
    BY <1>12, <2>2, <2>3 DEF DrainReturns
<1>13. CASE DrainEnds
  BY <1>2, <1>13, ReturnAlone DEF DrainEnds
<1>14. QED
  BY <1>3, <1>4, <1>5, <1>6, <1>7, <1>8, <1>9, <1>10, <1>11, <1>12, <1>13 DEF Resume

-----------------------------------------------------------------------------
(* Between the awaits.                                                     *)

LEMMA AroundAlone ==
    ASSUME TypeOK, TypeOK', Held, Alone,
           UNCHANGED <<queue, slot, sessions, admin, locked, mutating, deleted, used, promise,
                       command>>,
           \A i \in Ids : /\ entry'[i].active = entry[i].active
                          /\ entry'[i].promptInFlight = entry[i].promptInFlight
                          /\ IdleEntry(i) => /\ entry'[i].running = entry[i].running
                                             /\ entry'[i].agentRunning = entry[i].agentRunning
    PROVE  Alone'
<1>1. Once' /\ Pending' = Pending
  BY SameTokens DEF Alone, LockInv
<1>2. LockInv'
  <2>1. Requests'
    BY <1>1 DEF Alone, LockInv, Requests, Asks
  <2>2. KeysHeld'
    BY DEF Alone, LockInv, KeysHeld, HoldsKey, Key
  <2>3. FilesFree'
    BY DEF Alone, LockInv, FilesFree, KeyLocked, DeletedStaysGone
  <2>4. QED
    BY <1>1, <2>1, <2>2, <2>3 DEF LockInv
<1>3. slot.phase = "mutating" => slot.op.id \in Ids /\ IdleEntry(slot.op.id)
  BY DEF Alone, Mutable, TypeOK
<1>4. Marked' /\ Mutable'
  <2>1. slot.phase = "mutating" =>
           /\ entry'[slot.op.id].active = entry[slot.op.id].active
           /\ entry'[slot.op.id].running = entry[slot.op.id].running
           /\ entry'[slot.op.id].promptInFlight = entry[slot.op.id].promptInFlight
           /\ entry'[slot.op.id].agentRunning = entry[slot.op.id].agentRunning
    BY <1>3
  <2>2. Mutable'
    BY <2>1 DEF Alone, Mutable, IdleEntry, BackendRunning, KeyLocked
  <2>3. Marked'
    BY <1>1 DEF Alone, Marked
  <2>4. QED
    BY <2>2, <2>3
<1>5. Sent'
  BY <1>1 DEF Alone, Sent
<1>6. Approval'
  BY DEF Alone, Approval
<1>7. QED
  BY <1>2, <1>4, <1>5, <1>6 DEF Alone

LEMMA SurroundingsAlone == TypeOK /\ TypeOK' /\ Held /\ Alone /\ Surroundings => Alone'
<1> SUFFICES ASSUME TypeOK, TypeOK', Held, Alone, Surroundings PROVE Alone'
  OBVIOUS
<1> USE DEF registryVars, lockVars, commandVars, outsideVars
<1>1. ASSUME NEW w \in Watchers, NEW i \in Ids, Observe(w, i) \/ Unsubscribe(w, i)
      PROVE  Alone'
  <2>a. PICK l : entry' = [entry EXCEPT ![i].listeners = l]
    BY <1>1 DEF Observe, Unsubscribe
  <2>1. \A j \in Ids : /\ entry'[j].active = entry[j].active
                       /\ entry'[j].promptInFlight = entry[j].promptInFlight
                       /\ entry'[j].running = entry[j].running
                       /\ entry'[j].agentRunning = entry[j].agentRunning
    BY <2>a DEF TypeOK, Entry
  <2>2. QED
    BY <1>1, <2>1, AroundAlone DEF Observe, Unsubscribe
<1>2. ASSUME NEW i \in Ids, BackendEvent(i)  PROVE Alone'
  <2>1. \/ UNCHANGED entry
        \/ /\ ~IdleEntry(i)
           /\ \/ entry' = [entry EXCEPT ![i].agentRunning = TRUE, ![i].running = TRUE]
              \/ entry' = [entry EXCEPT ![i].agentRunning = FALSE, ![i].running = FALSE]
    BY <1>2, Zenon DEF BackendEvent, IdleEntry, BackendRunning
  <2>2. \A j \in Ids : /\ entry'[j].active = entry[j].active
                       /\ entry'[j].promptInFlight = entry[j].promptInFlight
                       /\ IdleEntry(j) => /\ entry'[j].running = entry[j].running
                                          /\ entry'[j].agentRunning = entry[j].agentRunning
    BY <2>1 DEF TypeOK, Entry
  <2>3. QED
    BY <1>2, <2>2, AroundAlone DEF BackendEvent
<1>3. ASSUME NEW i \in Ids, OtherService(i)  PROVE Alone'
  BY <1>3, AroundAlone DEF OtherService
<1>4. ASSUME NEW p \in Projects, ResourcesAppear(p)  PROVE Alone'
  BY <1>4, AroundAlone DEF ResourcesAppear
<1>5. QED
  BY <1>1, <1>2, <1>3, <1>4 DEF Surroundings

(* The SDK's promise settles, and its settlement is queued. *)
LEMMA PromptAlone ==
    ASSUME TypeOK, TypeOK', Held, Alone, NEW c \in Cmds, PromptReturns(c)
    PROVE  Alone'
<1> USE DEF registryVars, lockVars, commandVars, outsideVars
<1> DEFINE op == Operation("settle", None, promise[c], c)
<1>1. op \in Op /\ op.kind = "settle" /\ op.arg = c
  BY DEF PromptReturns, Operation, Op, Kinds, TypeOK
<1> HIDE DEF op
<1>2. /\ promise[c] # None /\ Enqueue(op) /\ promise' = [promise EXCEPT ![c] = None]
      /\ UNCHANGED <<slot, sessions, admin, locked, mutating, deleted, used, command>>
  BY DEF PromptReturns, QueueSettlement, op
<1>3. Once' /\ Pending' = Pending \cup {op}
  BY <1>1, <1>2, EnqueueTokens DEF Alone, LockInv, OnceKinds
<1>4. LockInv'
  <2>0. slot.phase = "administering" => slot.op.kind = "admin"
    BY DEF Held, SlotShape
  <2>1. Requests'
    BY <1>1, <1>2, <1>3, <2>0 DEF Alone, LockInv, Requests, Asks
  <2>2. KeysHeld'
    BY <1>2 DEF Alone, LockInv, KeysHeld, HoldsKey, Key
  <2>3. FilesFree'
    BY <1>2 DEF Alone, LockInv, FilesFree, KeyLocked, DeletedStaysGone
  <2>4. QED
    BY <1>3, <2>1, <2>2, <2>3 DEF LockInv
<1>5. Marked' /\ Mutable'
  <2>1. slot.phase = "mutating" => slot.op.id \in Ids
    BY DEF Alone, Mutable, TypeOK
  <2>2. \A i \in Ids : /\ entry'[i].active = entry[i].active
                       /\ entry'[i].running = entry[i].running
                       /\ entry'[i].promptInFlight \in {None, entry[i].promptInFlight}
                       /\ entry'[i].agentRunning = entry[i].agentRunning
    BY DEF PromptReturns, TypeOK, Entry
  <2>3. QED
    BY <1>1, <1>2, <1>3, <2>1, <2>2, MarksKept DEF Alone, Marked
<1>6. Sent'
  <2>1. \A d \in Cmds : promise'[d] # None => promise[d] # None
    BY <1>2 DEF TypeOK
  <2>2. QED
    BY <1>1, <1>2, <1>3, <2>1, SentKept DEF Alone, Sent
<1>7. Approval'
  BY <1>2 DEF Alone, Approval
<1>8. QED
  BY <1>4, <1>5, <1>6, <1>7 DEF Alone

(* The file operation of a request is over. *)
LEMMA FileOperationAlone ==
    ASSUME TypeOK, TypeOK', Held, Alone, NEW x \in Admins, AdministrationReturns(x)
    PROVE  Alone'
<1> USE DEF registryVars, lockVars, commandVars, outsideVars
<1> DEFINE u == Operation("unlock", admin[x].cwd, admin[x].id, x)
<1>1. /\ u \in Op /\ u.kind = "unlock" /\ u.arg = x /\ u.cwd = admin[x].cwd /\ u.id = admin[x].id
  BY DEF Operation, Op, Kinds, TypeOK
<1> HIDE DEF u
<1>2. /\ admin[x].phase = "operating" /\ Enqueue(u)
      /\ admin' = [admin EXCEPT ![x].phase = "unlocking"]
      /\ UNCHANGED <<slot, sessions, entry, locked, mutating, used, command, promise>>
  BY DEF AdministrationReturns, Unlock, u
<1>3. \A o \in Pending : o.kind \in {"admin", "unlock"} => o.arg # x
  BY <1>2 DEF Alone, LockInv, Requests
<1>4. Once' /\ Pending' = Pending \cup {u}
  BY <1>1, <1>2, <1>3, EnqueueTokens DEF Alone, LockInv
<1>5. /\ \A y \in Admins \ {x} : admin'[y] = admin[y]
      /\ admin'[x].phase = "unlocking" /\ admin'[x].cwd = admin[x].cwd /\ admin'[x].id = admin[x].id
  BY <1>2 DEF TypeOK
<1>6. slot.phase = "administering" => slot.op.arg \in Admins \ {x} /\ slot.op.kind = "admin"
  BY <1>2, OpFields DEF Alone, LockInv, Requests, Held, SlotShape, TypeOK, Slot
<1>7. Requests'
  <2>1. ASSUME NEW o \in Pending', o.kind = "admin"
        PROVE  admin'[o.arg].phase = "locking" /\ Asks(o, o.arg)'
    <3>1. o \in Pending /\ o.arg \in Admins \ {x}
      BY <1>1, <1>3, <1>4, <2>1, PendingType, OpFields
    <3>2. QED
      BY <1>5, <2>1, <3>1 DEF Alone, LockInv, Requests, Asks
  <2>2. ASSUME NEW o \in Pending', o.kind = "unlock"
        PROVE  o.arg \in Admins /\ admin'[o.arg].phase = "unlocking" /\ Asks(o, o.arg)'
    BY <1>1, <1>3, <1>4, <1>5, <2>2 DEF Alone, LockInv, Requests, Asks
  <2>3. slot.phase = "administering" =>
           /\ admin'[slot.op.arg].phase = "locking" /\ admin'[slot.op.arg] = admin[slot.op.arg]
           /\ slot.op \notin Pending'
    BY <1>1, <1>4, <1>5, <1>6 DEF Alone, LockInv, Requests
  <2>4. \A y \in Admins : admin'[y].phase # "idle" =>
           admin'[y].cwd \in Projects /\ admin'[y].id \in used'
    BY <1>2, <1>5 DEF Alone, LockInv, Requests
  <2>5. QED
    BY <1>2, <2>1, <2>2, <2>3, <2>4 DEF Alone, LockInv, Requests, Asks
<1>8. KeysHeld'
  <2>1. \A y \in Admins : (HoldsKey(y)' => HoldsKey(y)) /\ Key(y)' = Key(y)
    BY <1>2, <1>5 DEF HoldsKey, Key
  <2>2. QED
    BY <1>2, <2>1 DEF Alone, LockInv, KeysHeld
<1>9. FilesFree'
  <2>1. \/ deleted' = deleted
        \/ /\ deleted' = deleted \cup {admin[x].id} /\ admin[x].id \in used
           /\ ProjectOf[admin[x].id] = admin[x].cwd
    BY DEF AdministrationReturns
  <2>2. deleted' \subseteq used' /\ DeletedStaysGone'
    BY <1>2, <2>1 DEF Alone, LockInv, FilesFree, DeletedStaysGone
  <2>3. \A y \in Admins : admin'[y].phase = "operating" => admin'[y] = admin[y]
    BY <1>5
  <2>4. QED
    BY <1>2, <2>2, <2>3 DEF Alone, LockInv, FilesFree, KeyLocked
<1>10. Marked' /\ Mutable'
  BY <1>1, <1>2, <1>4, MarksKept DEF Alone, Marked
<1>11. Sent'
  BY <1>1, <1>2, <1>4, SentKept DEF Alone, Sent
<1>12. Approval'
  BY <1>2 DEF Alone, Approval
<1>13. QED
  BY <1>4, <1>7, <1>8, <1>9, <1>10, <1>11, <1>12 DEF Alone, LockInv

-----------------------------------------------------------------------------
LEMMA InitAlone == Init => Alone
<1> SUFFICES ASSUME Init PROVE Alone
  OBVIOUS
<1>1. Pending = {} /\ Once
  BY DEF Init, Pending, Once
<1>2. slot.phase = "idle" /\ slot.op.kind = "dispose" /\ slot.dying = {}
  BY OpFields DEF Init
<1>3. \A x \in Admins : admin[x].phase = "idle"
  BY DEF Init, NoAdmin
<1>4. LockInv
  BY <1>1, <1>2, <1>3 DEF Init, LockInv, Requests, KeysHeld, HoldsKey, FilesFree, DeletedStaysGone
<1>5. Marked /\ Mutable /\ Approval /\ Sent
  BY <1>1, <1>2 DEF Init, Marked, Mutable, Approval, Sent
<1>6. QED
  BY <1>4, <1>5 DEF Alone

LEMMA NextAlone == TypeOK /\ TypeOK' /\ Held /\ Alone /\ [Next]_vars => Alone'
<1>1. TypeOK /\ TypeOK' /\ Held /\ Alone /\ UNCHANGED vars => Alone'
  BY AroundAlone DEF vars
<1>2. QED
  BY <1>1, CallsAlone, ExecuteAlone, ResumeAlone, PromptAlone, FileOperationAlone,
     SurroundingsAlone DEF Next

LEMMA AloneAlways == Spec => [](TypeOK /\ Held /\ Alone)
<1>1. Init => Alone
  BY InitAlone
<1>2. (TypeOK /\ Held) /\ (TypeOK /\ Held)' /\ Alone /\ [Next]_vars => Alone'
  BY NextAlone
<1>3. QED
  BY <1>1, <1>2, InductiveInvariant, PTL DEF Spec

-----------------------------------------------------------------------------
(* The theorems.                                                           *)

(* While a session is navigated, forked or cloned it stays loaded, idle    *)
(* and free of administration, whoever asks for what meanwhile.            *)
(* #runSessionMutation, #handleBackendEvent                                *)
THEOREM MutationsAlone == Spec => []MutationAlone
<1>1. TypeOK /\ Held /\ Alone => MutationAlone
  <2> SUFFICES ASSUME TypeOK, Held, Alone, slot.phase = "mutating"
               PROVE  /\ slot.op.id \in sessions /\ IdleEntry(slot.op.id) /\ slot.op.id \in mutating
                      /\ \A x \in Admins : admin[x].phase = "operating" =>
                             <<admin[x].cwd, admin[x].id>> # <<slot.op.cwd, slot.op.id>>
    BY DEF MutationAlone
  <2>1. slot.op.kind = "mutate"
    BY DEF Held, SlotShape
  <2>2. \A x \in Admins : admin[x].phase = "operating" => Key(x) \in locked
    BY DEF Alone, LockInv, KeysHeld, HoldsKey
  <2>3. QED
    BY <2>1, <2>2 DEF Alone, Marked, Mutable, KeyLocked, Key
<1>2. QED
  BY <1>1, AloneAlways, PTL

(* While a session file is renamed or deleted no runtime of the service    *)
(* has it open and no second request works on it, under any spelling of    *)
(* its directory; a deleted session never has a runtime again.             *)
(* #runSessionAdministration, loadSession, #registerBackend                *)
THEOREM AdministrationsAlone == Spec => []AdministrationAlone
<1>1. TypeOK /\ Held /\ Alone => AdministrationAlone
  <2> SUFFICES ASSUME TypeOK, Held, Alone  PROVE AdministrationAlone
    OBVIOUS
  <2>1. \A x \in Admins : admin[x].phase = "operating" => HoldsKey(x)
    BY DEF HoldsKey
  <2>2. ASSUME NEW x \in Admins, admin[x].phase = "operating"
        PROVE  /\ ProjectOf[admin[x].id] = admin[x].cwd => ~InUse(admin[x].id)
               /\ \A y \in Admins \ {x} : admin[y].phase = "operating" =>
                      <<admin[y].cwd, admin[y].id>> # <<admin[x].cwd, admin[x].id>>
    <3>1. Key(x) \in locked
      BY <2>1, <2>2 DEF Alone, LockInv, KeysHeld
    <3>2. ASSUME ProjectOf[admin[x].id] = admin[x].cwd  PROVE ~InUse(admin[x].id)
      BY <2>2, <3>1, <3>2 DEF Alone, LockInv, FilesFree, InUse, KeyLocked, Key
    <3>3. QED
      BY <2>1, <2>2, <3>2 DEF Alone, LockInv, KeysHeld, Key
  <2>3. DeletedStaysGone
    BY DEF Alone, LockInv, FilesFree
  <2>4. QED
    BY <2>2, <2>3 DEF AdministrationAlone
<1>2. QED
  BY <1>1, AloneAlways, PTL

-----------------------------------------------------------------------------
(* Commands, and the trust a session was opened with.                      *)

(* Whom a busy session waits for, as in ActiveWillSettle.                  *)
Settlement(i, c) == Operation("settle", None, i, c)
Admits(i, c) == slot.phase = "admitting" /\ slot.op.id = i /\ slot.op.arg = c

Owed ==
    \A i \in sessions : entry[i].active # None =>
        LET c == entry[i].active IN
        Admits(i, c) \/ promise[c] = i \/ Settlement(i, c) \in Pending

(* A command is active in one session, and has no final answer there.      *)
Unfinished ==
    /\ \A i \in sessions : entry[i].active # None =>
           LET c == entry[i].active IN
           \/ command[c] \in {"accepted", "uncertain"}
           \/ command[c] = "queued" /\ Admits(i, c)
    /\ \A i, j \in sessions : entry[i].active = entry[j].active /\ entry[i].active # None => i = j
    /\ slot.phase = "admitting" =>
           slot.op.id \in sessions /\ entry[slot.op.id].active = slot.op.arg

(* An abort request stands for the command that is active.                 *)
Requested ==
    \A i \in sessions : entry[i].active # None /\ entry[i].abortRequested =>
        entry[i].active \in aborted

Commands == Owed /\ Unfinished /\ Requested /\ TrustedNotRestricted

Answering ==
    \A c \in Cmds :
        /\ command[c] \in Answered => command'[c] = command[c]
        /\ command[c] \in {"accepted", "uncertain"} => command'[c] \notin {"rejected", "error"}
        /\ \A i \in sessions \cap sessions' :
              entry[i].active = c /\ entry'[i].active # c => command'[c] \in Answered

-----------------------------------------------------------------------------
(* Steps that neither admit nor settle a command.                          *)

SameEntry(i) ==
    /\ i \in sessions
    /\ entry'[i].active = entry[i].active /\ entry'[i].resources = entry[i].resources
    /\ entry'[i].abortRequested => entry[i].abortRequested \/ entry[i].active \in aborted'

Newcomer(i) ==
    /\ i \notin sessions /\ entry'[i].active = None
    /\ trust'[ProjectOf[i]] = "trusted" => entry'[i].resources

Registry ==
    /\ \A i \in sessions' : SameEntry(i) \/ Newcomer(i)
    /\ \A i \in sessions \cap sessions' :
           trust'[ProjectOf[i]] = "trusted" => trust[ProjectOf[i]] = "trusted"
    /\ aborted \subseteq aborted'

CommandsMove ==
    \A c \in Cmds : \/ command'[c] = command[c]
                    \/ command[c] = "unsent"
                    \/ command[c] = "queued" /\ slot.phase # "admitting"

SettlementsStay == \A op \in Pending : op.kind = "settle" => op \in Pending'

Turn ==
    \/ slot' = slot /\ sessions' = sessions
    \/ slot.phase # "admitting" /\ slot'.phase # "admitting"

LEMMA SettlementFields ==
    \A i, c : /\ Settlement(i, c).kind = "settle"
              /\ Settlement(i, c).id = i /\ Settlement(i, c).arg = c
BY DEF Settlement, Operation

LEMMA Kept ==
    ASSUME TypeOK, TypeOK', Commands, Registry, CommandsMove, SettlementsStay, Turn,
           UNCHANGED promise
    PROVE  Commands' /\ Answering
<1> USE DEF Commands
<1>0. \A i \in sessions' : entry'[i].active # None =>
         /\ i \in sessions /\ SameEntry(i) /\ entry[i].active = entry'[i].active
         /\ entry[i].active \in Cmds
  BY DEF Registry, Newcomer, SameEntry, TypeOK, Entry
<1>1. \A i \in sessions' : entry'[i].active # None =>
         command'[entry[i].active] = command[entry[i].active]
  BY <1>0 DEF Unfinished, CommandsMove, Admits
<1>2. Owed'
  BY <1>0, SettlementFields DEF Owed, Admits, Turn, SettlementsStay
<1>3. Unfinished'
  <2>1. \A i \in sessions' : entry'[i].active # None =>
           \/ command'[entry'[i].active] \in {"accepted", "uncertain"}
           \/ command'[entry'[i].active] = "queued" /\ Admits(i, entry[i].active)'
    BY <1>0, <1>1 DEF Unfinished, Admits, Turn
  <2>2. \A i, j \in sessions' : entry'[i].active = entry'[j].active /\ entry'[i].active # None => i = j
    BY <1>0 DEF Unfinished
  <2>3. slot'.phase = "admitting" =>
           slot'.op.id \in sessions' /\ entry'[slot'.op.id].active = slot'.op.arg
    BY DEF Unfinished, Turn, Registry, SameEntry, Newcomer
  <2>4. QED
    BY <2>1, <2>2, <2>3 DEF Unfinished
<1>4. Requested'
  BY <1>0 DEF Requested, SameEntry, Registry
<1>5. TrustedNotRestricted'
  BY DEF TrustedNotRestricted, Registry, SameEntry, Newcomer
<1>6. Answering
  <2>1. \A c \in Cmds : command[c] \notin {"unsent", "queued"} => command'[c] = command[c]
    BY DEF CommandsMove
  <2>2. \A i \in sessions \cap sessions' : entry'[i].active = entry[i].active
    BY DEF Registry, SameEntry, Newcomer
  <2>3. QED
    BY <2>1, <2>2 DEF Answering, Answered
<1>7. QED
  BY <1>2, <1>3, <1>4, <1>5, <1>6

(* How a step may touch the entries.                                       *)
LEMMA SameRegistry ==
    ASSUME UNCHANGED <<sessions, entry, trust, aborted>>
    PROVE  Registry
BY DEF Registry, SameEntry

LEMMA DisposeRegistry ==
    ASSUME TypeOK, NEW i \in Ids, NEW phase, NEW op, NEW rest, BeginDispose(i, phase, op, rest),
           UNCHANGED <<trust, aborted>>
    PROVE  Registry
<1>1. \A j \in sessions' : j \in sessions /\ entry'[j] = entry[j]
  BY DEF BeginDispose, TypeOK
<1>2. QED
  BY <1>1 DEF Registry, SameEntry

(* The head of the queue, and what taking it leaves.                       *)
LEMMA HeadPending ==
    ASSUME TypeOK, Alone, queue # <<>>
    PROVE  /\ Head(queue) \in Pending /\ Head(queue) \in Op
           /\ Take => \A op \in Pending : op = Head(queue) \/ op \in Pending'
<1>1. Head(queue) = queue[1] /\ 1 \in DOMAIN queue
  BY DEF TypeOK
<1>2. QED
  BY <1>1, TakeTokens, HeadType DEF Pending, Alone, LockInv

LEMMA FinallyMoves ==
    ASSUME TypeOK, Alone, slot.phase # "admitting", NEW op \in Op,
           op.kind = "prompt" => op \in Pending, Finally(op)
    PROVE  CommandsMove
<1>1. op.kind = "prompt" => op.arg \in Cmds /\ command[op.arg] = "queued"
  BY OpFields DEF Alone, Sent
<1>2. QED
  BY <1>1 DEF Finally, CommandsMove, TypeOK

-----------------------------------------------------------------------------
(* The executor.                                                           *)

(* Putting a function on the executor loses none that is there.            *)
LEMMA EnqueueStay == ASSUME TypeOK, NEW op \in Op, Enqueue(op) PROVE SettlementsStay
<1>1. \A n \in DOMAIN queue : n \in DOMAIN queue' /\ queue'[n] = queue[n]
  BY DEF TypeOK, Enqueue
<1>2. QED
  BY <1>1 DEF SettlementsStay, Pending

LEMMA TakeStay ==
    ASSUME TypeOK, Alone, queue # <<>>, Take, Head(queue).kind # "settle"
    PROVE  SettlementsStay
BY HeadPending DEF SettlementsStay

LEMMA SameMoves == UNCHANGED command => CommandsMove
BY DEF CommandsMove

LEMMA CapacityRegistry ==
    ASSUME TypeOK, TypeOK', slot.phase = "idle", NEW op \in Op, EnsureCapacity(op),
           UNCHANGED <<trust, aborted>>
    PROVE  Registry /\ Turn
<1> USE DEF registryVars
<1>1. CASE slot' = Busy("opening", op) /\ UNCHANGED registryVars
  BY <1>1, SameRegistry, BusyType DEF Turn, Phases
<1>2. CASE \E i \in LeastRecent : BeginDispose(i, "evicting", op, {})
  <2>1. PICK i \in Ids : BeginDispose(i, "evicting", op, {})
    BY <1>2 DEF LeastRecent, Evictable, TypeOK
  <2>2. slot'.phase = "evicting"
    BY <2>1, DisposeType DEF Phases
  <2>3. QED
    BY <2>1, <2>2, DisposeRegistry DEF Turn
<1>3. CASE UNCHANGED <<slot, registryVars>>
  BY <1>3, SameRegistry DEF Turn
<1>4. QED
  BY <1>1, <1>2, <1>3 DEF EnsureCapacity

(* An admitted prompt makes its session busy with a command of its own.    *)
LEMMA AdmitCommands ==
    ASSUME TypeOK, TypeOK', Held, Alone, Commands, StartPrompt,
           Head(queue).id \in sessions, IdleEntry(Head(queue).id),
           entry' = [entry EXCEPT ![Head(queue).id] = Admitted(@, Head(queue).arg)],
           slot' = Busy("admitting", Head(queue)), UNCHANGED <<sessions, command>>
    PROVE  Commands' /\ Answering
<1>0. PICK op \in Op : op = Head(queue)
  BY HeadType DEF StartPrompt, Ready
<1>1. /\ queue # <<>> /\ op.kind = "prompt" /\ op.id \in Ids /\ op.arg \in Cmds
      /\ slot.phase = "idle" /\ Take /\ UNCHANGED <<promise, aborted, trust>>
  BY <1>0, OpFields DEF StartPrompt, Ready, outsideVars
<1>2. op \in Pending /\ command[op.arg] = "queued"
  BY <1>0, <1>1, HeadPending DEF Alone, Sent
<1>3. \A i \in sessions : entry[i].active # op.arg
  BY <1>1, <1>2, AssumptionType DEF Commands, Unfinished, Admits
<1>4. slot'.phase = "admitting" /\ slot'.op = op
  BY <1>0, BusyType DEF Phases
<1>5. /\ entry'[op.id].active = op.arg /\ ~entry'[op.id].abortRequested
      /\ entry'[op.id].resources = entry[op.id].resources
      /\ \A i \in Ids \ {op.id} : entry'[i] = entry[i]
  BY <1>0, <1>1 DEF TypeOK, Admitted, Entry
<1>6. entry[op.id].active = None /\ op.id \in sessions
  BY <1>0 DEF IdleEntry
<1>7. Owed'
  <2>1. SettlementsStay
    BY <1>0, <1>1, TakeStay
  <2>2. ASSUME NEW i \in sessions', entry'[i].active # None
        PROVE  Admits(i, entry[i].active)' \/ promise'[entry'[i].active] = i
               \/ Settlement(i, entry'[i].active) \in Pending'
    <3>1. CASE i = op.id
      BY <1>4, <1>5, <3>1 DEF Admits
    <3>2. CASE i # op.id
      <4>1. i \in sessions /\ entry'[i].active = entry[i].active
        BY <1>5, <3>2 DEF TypeOK
      <4>2. QED
        BY <1>1, <2>1, <2>2, <4>1, SettlementFields DEF Commands, Owed, Admits, SettlementsStay
    <3>3. QED
      BY <3>1, <3>2
  <2>3. QED
    BY <2>2 DEF Owed
<1>8. Unfinished'
  <2>1. \A i \in sessions' : entry'[i].active # None =>
           \/ command'[entry'[i].active] \in {"accepted", "uncertain"}
           \/ command'[entry'[i].active] = "queued" /\ Admits(i, entry[i].active)'
    BY <1>1, <1>2, <1>4, <1>5 DEF Commands, Unfinished, Admits, TypeOK
  <2>2. \A i, j \in sessions' :
           entry'[i].active = entry'[j].active /\ entry'[i].active # None => i = j
    BY <1>3, <1>5, <1>6 DEF Commands, Unfinished, TypeOK
  <2>3. slot'.op.id \in sessions' /\ entry'[slot'.op.id].active = slot'.op.arg
    BY <1>4, <1>5, <1>6
  <2>4. QED
    BY <2>1, <2>2, <2>3 DEF Unfinished
<1>9. Requested'
  BY <1>1, <1>5 DEF Commands, Requested, TypeOK
<1>10. TrustedNotRestricted'
  BY <1>1, <1>5 DEF Commands, TrustedNotRestricted, TypeOK
<1>11. Answering
  BY <1>5, <1>6, AssumptionType DEF Answering, Answered, TypeOK
<1>12. QED
  BY <1>7, <1>8, <1>9, <1>10, <1>11 DEF Commands

LEMMA StartCommands ==
    TypeOK /\ TypeOK' /\ Held /\ Alone /\ Commands /\ StartPrompt => Commands' /\ Answering
<1> SUFFICES ASSUME TypeOK, TypeOK', Held, Alone, Commands, StartPrompt
             PROVE  Commands' /\ Answering
  OBVIOUS
<1> USE DEF registryVars, outsideVars
<1>0. PICK op \in Op : op = Head(queue)
  BY HeadType DEF StartPrompt, Ready
<1>1. /\ queue # <<>> /\ op.kind = "prompt" /\ op.arg \in Cmds /\ slot.phase = "idle" /\ Take
      /\ UNCHANGED <<promise, aborted, trust>>
  BY <1>0, OpFields DEF StartPrompt, Ready
<1>2. op \in Pending /\ command[op.arg] = "queued"
  BY <1>0, <1>1, HeadPending DEF Alone, Sent
<1>3. SettlementsStay
  BY <1>0, <1>1, TakeStay
<1>4. CASE Finally(op) /\ UNCHANGED <<slot, registryVars>>
  <2>1. CommandsMove
    BY <1>1, <1>2, <1>4, FinallyMoves
  <2>2. Registry /\ Turn
    BY <1>1, <1>4, SameRegistry DEF Turn
  <2>3. QED
    BY <1>1, <1>3, <2>1, <2>2, Kept
<1>5. CASE /\ command' = [command EXCEPT ![op.arg] = "rejected"]
           /\ UNCHANGED <<slot, sessions, entry>>
  <2>1. CommandsMove
    BY <1>1, <1>2, <1>5 DEF CommandsMove, TypeOK
  <2>2. Registry /\ Turn
    BY <1>1, <1>5, SameRegistry DEF Turn
  <2>3. QED
    BY <1>1, <1>3, <2>1, <2>2, Kept
<1>6. CASE /\ op.id \in sessions /\ IdleEntry(op.id)
           /\ entry' = [entry EXCEPT ![op.id] = Admitted(@, op.arg)]
           /\ slot' = Busy("admitting", op) /\ UNCHANGED <<sessions, command>>
  BY <1>0, <1>6, AdmitCommands
<1>7. QED
  BY <1>0, <1>4, <1>5, <1>6 DEF StartPrompt

(* A settlement answers the command it names, if that is still the active  *)
(* one of the session it names.                                            *)
LEMMA SettleCommands ==
    TypeOK /\ TypeOK' /\ Held /\ Alone /\ Commands /\ SettleCommand => Commands' /\ Answering
<1> SUFFICES ASSUME TypeOK, TypeOK', Held, Alone, Commands, SettleCommand
             PROVE  Commands' /\ Answering
  OBVIOUS
<1>0. PICK op \in Op : op = Head(queue)
  BY HeadType DEF SettleCommand, Ready
<1>1. /\ queue # <<>> /\ op.kind = "settle" /\ op.arg \in Cmds /\ op.id \in Ids
      /\ slot.phase = "idle" /\ Take
      /\ UNCHANGED <<slot, sessions, promise, aborted, trust>>
  BY <1>0, OpFields DEF SettleCommand, Ready, outsideVars
<1>2. \A o \in Pending : o = op \/ o \in Pending'
  BY <1>0, <1>1, HeadPending
<1>3. \A i, c : Settlement(i, c) = op => i = op.id /\ c = op.arg
  BY SettlementFields
<1>4. CASE ~Settles(op.id, op.arg)
  <2>1. UNCHANGED <<entry, command>>
    BY <1>0, <1>4 DEF SettleCommand
  <2>2. Owed'
    BY <1>1, <1>2, <1>3, <1>4, <2>1 DEF Commands, Owed, Admits, Settles
  <2>3. QED
    BY <1>1, <2>1, <2>2 DEF Commands, Unfinished, Admits, Requested, TrustedNotRestricted,
       Answering
<1>5. CASE Settles(op.id, op.arg)
  <2>1. /\ op.id \in sessions /\ entry[op.id].active = op.arg
        /\ command[op.arg] \in {"accepted", "uncertain"}
    BY <1>1, <1>5, AssumptionType DEF Settles, Commands, Unfinished, Admits
  <2>2. PICK completion \in Completions :
           command' = [command EXCEPT ![op.arg] =
                          Outcome(completion, entry[op.id].abortRequested)]
    BY <1>0, <1>5 DEF SettleCommand
  <2>3. /\ command'[op.arg] \in {"succeeded", "failed", "aborted"}
        /\ \A c \in Cmds \ {op.arg} : command'[c] = command[c]
    BY <1>1, <2>1, <2>2, AssumptionType DEF Completions, Outcome, TypeOK
  <2>4. /\ entry'[op.id].active = None /\ entry'[op.id].resources = entry[op.id].resources
        /\ \A i \in Ids \ {op.id} : entry'[i] = entry[i]
    <3>1. entry' = [entry EXCEPT ![op.id].active = None, ![op.id].running = FALSE]
      BY <1>0, <1>5 DEF SettleCommand
    <3>2. QED
      BY <1>1, <3>1 DEF TypeOK, Entry
  <2>5. \A i \in sessions' : entry'[i].active # None =>
           /\ i \in sessions /\ i # op.id /\ entry'[i] = entry[i] /\ entry[i].active # op.arg
           /\ entry[i].active \in Cmds
    BY <1>1, <2>1, <2>4 DEF Commands, Unfinished, TypeOK, Entry
  <2>6. Owed'
    BY <1>1, <1>2, <1>3, <2>5 DEF Commands, Owed, Admits
  <2>7. Unfinished'
    <3>1. \A i \in sessions' : entry'[i].active # None =>
             \/ command'[entry'[i].active] \in {"accepted", "uncertain"}
             \/ command'[entry'[i].active] = "queued" /\ Admits(i, entry[i].active)'
      BY <1>1, <2>3, <2>5 DEF Commands, Unfinished, Admits
    <3>2. \A i, j \in sessions' :
             entry'[i].active = entry'[j].active /\ entry'[i].active # None => i = j
      BY <2>5 DEF Commands, Unfinished
    <3>3. QED
      BY <1>1, <3>1, <3>2 DEF Unfinished
  <2>8. Requested'
    BY <1>1, <2>3, <2>5 DEF Commands, Requested
  <2>9. TrustedNotRestricted'
    BY <1>1, <2>4 DEF Commands, TrustedNotRestricted, TypeOK
  <2>10. Answering
    <3>1. command'[op.arg] \in Answered /\ command[op.arg] \notin Answered
      BY <2>1, <2>3 DEF Answered
    <3>2. command'[op.arg] \notin {"rejected", "error"}
      BY <2>3
    <3>3. \A i \in sessions \cap sessions' :
             entry'[i].active # entry[i].active => entry[i].active = op.arg
      BY <1>1, <2>1, <2>4 DEF TypeOK
    <3>4. QED
      BY <2>3, <3>1, <3>2, <3>3 DEF Answering
  <2>11. QED
    BY <2>6, <2>7, <2>8, <2>9, <2>10 DEF Commands
<1>6. QED
  BY <1>4, <1>5

LEMMA ExecuteCommands ==
    TypeOK /\ TypeOK' /\ Held /\ Alone /\ Commands /\ Execute => Commands' /\ Answering
<1> SUFFICES ASSUME TypeOK, TypeOK', Held, Alone, Commands, Execute
             PROVE  Commands' /\ Answering
  OBVIOUS
<1> USE DEF registryVars, lockVars, commandVars, outsideVars
<1>0. queue # <<>> /\ slot.phase = "idle"
  BY DEF Execute, Refuse, CreateSession, LoadSession, ReadSession, CloseSession, StartPrompt,
     SettleCommand, AbortRun, BeginMutation, BeginAdministration, UnlockKey, ApproveTrust,
     Dispose, Ready
<1>a. PICK op \in Op : op = Head(queue)
  BY <1>0, HeadType
<1>b. op \in Pending
  BY <1>0, <1>a, HeadPending
<1>c. ASSUME Registry, Turn, CommandsMove, Take, op.kind # "settle", UNCHANGED promise
      PROVE  Commands' /\ Answering
  BY <1>0, <1>a, <1>c, TakeStay, Kept
<1>1. CASE Refuse
  <2>1. CommandsMove
    BY <1>0, <1>1, <1>a, <1>b, FinallyMoves DEF Refuse
  <2>2. Registry /\ Turn
    BY <1>1, SameRegistry DEF Refuse, Turn
  <2>3. QED
    BY <1>1, <1>a, <1>c, <2>1, <2>2 DEF Refuse
<1>2. CASE CreateSession \/ LoadSession
  <2>1. CASE EnsureCapacity(op)
    <3>1. Registry /\ Turn
      BY <1>0, <1>2, <2>1, CapacityRegistry DEF CreateSession, LoadSession
    <3>2. QED
      BY <1>2, <1>a, <1>c, <3>1, SameMoves DEF CreateSession, LoadSession, Ready
  <2>2. CASE UNCHANGED <<slot, sessions, entry>>
    BY <1>2, <1>a, <1>c, <2>2, SameMoves, SameRegistry DEF CreateSession, LoadSession, Ready, Turn
  <2>3. QED
    BY <1>2, <1>a, <2>1, <2>2 DEF CreateSession, LoadSession
<1>3. CASE ReadSession
  BY <1>3, <1>a, <1>c, SameMoves, SameRegistry DEF ReadSession, Ready, Turn
<1>4. CASE CloseSession
  <2>1. CASE BeginDispose(op.id, "closing", op, {})
    <3>1. op.id \in Ids /\ slot'.phase = "closing"
      BY <1>4, <1>a, <2>1, DisposeType DEF Phases, CloseSession, Ready, Op
    <3>2. Registry /\ Turn
      BY <1>0, <1>4, <2>1, <3>1, DisposeRegistry DEF Turn, CloseSession
    <3>3. QED
      BY <1>4, <1>a, <1>c, <3>2, SameMoves DEF CloseSession, Ready
  <2>2. CASE UNCHANGED <<slot, registryVars>>
    BY <1>4, <1>a, <1>c, <2>2, SameMoves, SameRegistry DEF CloseSession, Ready, Turn
  <2>3. QED
    BY <1>4, <1>a, <2>1, <2>2 DEF CloseSession
<1>5. CASE StartPrompt
  BY <1>5, StartCommands
<1>6. CASE SettleCommand
  BY <1>6, SettleCommands
<1>7. CASE AbortRun
  <2>1. Registry
    <3>1. CASE UNCHANGED <<entry, aborted>>
      BY <1>7, <3>1, SameRegistry DEF AbortRun
    <3>2. CASE /\ entry' = [entry EXCEPT ![op.id].abortRequested = AbortMark(op.id)]
               /\ op.id \in sessions
               /\ aborted' = aborted \cup ({entry[op.id].active} \ {None})
      <4>1. \A i \in sessions : SameEntry(i)
        BY <3>2 DEF SameEntry, AbortMark, TypeOK, Entry
      <4>2. QED
        BY <1>7, <3>2, <4>1 DEF Registry, AbortRun
    <3>3. QED
      BY <1>7, <1>a, <3>1, <3>2 DEF AbortRun
  <2>2. Turn
    BY <1>0, <1>7, <1>a, BusyType DEF AbortRun, Turn, Phases
  <2>3. QED
    BY <1>7, <1>a, <1>c, <2>1, <2>2, SameMoves DEF AbortRun, Ready
<1>8. CASE BeginMutation
  <2>1. CommandsMove
    BY <1>0, <1>8, <1>a, <1>b, FinallyMoves, SameMoves DEF BeginMutation
  <2>2. Registry /\ Turn
    BY <1>0, <1>8, <1>a, SameRegistry, BusyType DEF BeginMutation, Turn, Phases
  <2>3. QED
    BY <1>8, <1>a, <1>c, <2>1, <2>2 DEF BeginMutation, Ready
<1>9. CASE BeginAdministration
  <2>1. op.kind = "admin" /\ op.id \in Ids /\ UNCHANGED <<promise, aborted, trust>>
    BY <1>9, <1>a DEF BeginAdministration, Ready, Op
  <2>2. CASE Take /\ Finally(op) /\ UNCHANGED <<slot, registryVars>>
    <3>1. CommandsMove
      BY <1>0, <1>b, <2>2, FinallyMoves
    <3>2. QED
      BY <1>c, <2>1, <2>2, <3>1, SameRegistry DEF Turn
  <2>3. CASE Take /\ BeginDispose(op.id, "administering", op, {}) /\ UNCHANGED command
    <3>1. slot'.phase = "administering"
      BY <2>1, <2>3, DisposeType DEF Phases
    <3>2. Registry /\ Turn
      BY <1>0, <2>1, <2>3, <3>1, DisposeRegistry DEF Turn
    <3>3. QED
      BY <1>c, <2>1, <2>3, <3>2, SameMoves
  <2>4. CASE Take /\ UNCHANGED <<slot, registryVars, command>>
    BY <1>c, <2>1, <2>4, SameRegistry, SameMoves DEF Turn
  <2>5. CASE /\ \E u : queue' = Append(Tail(queue), u)
             /\ UNCHANGED <<slot, registryVars, command>>
    <3>1. \A n \in DOMAIN queue : n # 1 => n - 1 \in DOMAIN queue' /\ queue'[n - 1] = queue[n]
      BY <1>0, <2>5 DEF TypeOK
    <3>2. queue[1] = op
      BY <1>0, <1>a DEF TypeOK
    <3>3. SettlementsStay
      BY <2>1, <3>1, <3>2 DEF SettlementsStay, Pending
    <3>4. QED
      BY <2>1, <2>5, <3>3, SameRegistry, SameMoves, Kept DEF Turn
  <2>6. QED
    BY <1>9, <1>a, <2>2, <2>3, <2>4, <2>5 DEF BeginAdministration
<1>10. CASE UnlockKey
  BY <1>10, <1>a, <1>c, SameMoves, SameRegistry DEF UnlockKey, Ready, Turn
<1>11. CASE ApproveTrust \/ Dispose
  <2>1. slot'.phase \in {"idle", "draining"}
    <3>1. \A r \in SUBSET Ids : [Busy("draining", op) EXCEPT !.rest = r].phase = "draining"
      BY DEF Busy
    <3>2. sessions \in SUBSET Ids /\ SessionsOf(op.cwd) \in SUBSET Ids
      BY DEF TypeOK, SessionsOf
    <3>3. QED
      BY <1>0, <1>11, <1>a, <3>1, <3>2 DEF ApproveTrust, Dispose
  <2>2. Registry /\ Turn
    BY <1>0, <1>11, <2>1, SameRegistry DEF ApproveTrust, Dispose, Turn
  <2>3. QED
    BY <1>11, <1>a, <1>c, <2>2, SameMoves DEF ApproveTrust, Dispose, Ready
<1>12. QED
  BY <1>1, <1>2, <1>3, <1>4, <1>5, <1>6, <1>7, <1>8, <1>9, <1>10, <1>11 DEF Execute

-----------------------------------------------------------------------------
(* What the running function awaits returns.                               *)

(* startPrompt answers: the command is accepted, with a promise that is    *)
(* going to settle it, or it is rejected and the session is free again.    *)
LEMMA AdmissionCommands ==
    TypeOK /\ TypeOK' /\ Held /\ Alone /\ Commands /\ AdmissionReturns => Commands' /\ Answering
<1> SUFFICES ASSUME TypeOK, TypeOK', Held, Alone, Commands, AdmissionReturns
             PROVE  Commands' /\ Answering
  OBVIOUS
<1> USE DEF registryVars, outsideVars
<1> DEFINE i == slot.op.id
           c == slot.op.arg
<1>1. /\ i \in Ids /\ c \in Cmds /\ command[c] = "queued" /\ i \in sessions
      /\ entry[i].active = c /\ c # None
  <2>1. slot.op.kind = "prompt" /\ slot.op \in Op
    BY DEF AdmissionReturns, Held, SlotShape, TypeOK, Slot
  <2>2. QED
    BY <2>1, OpFields, AssumptionType DEF AdmissionReturns, Alone, Sent, Commands, Unfinished
<1>2. /\ slot.phase = "admitting" /\ slot'.phase = "idle"
      /\ UNCHANGED <<queue, sessions, aborted, trust>>
  BY IdleType DEF AdmissionReturns
<1>3. Pending' = Pending
  BY <1>2 DEF Pending
<1>4. \A j \in sessions : entry[j].active # None /\ j # i =>
         entry[j].active \in Cmds \ {c} /\ ~Admits(j, entry[j].active)
  BY <1>1 DEF Commands, Unfinished, Admits, TypeOK, Entry
<1>5. CASE /\ command' \in {[command EXCEPT ![c] = a] : a \in {"accepted", "uncertain"}}
           /\ promise' = [promise EXCEPT ![c] = i] /\ UNCHANGED entry
  <2>1. /\ command'[c] \in {"accepted", "uncertain"} /\ promise'[c] = i
        /\ \A d \in Cmds \ {c} : command'[d] = command[d] /\ promise'[d] = promise[d]
    BY <1>1, <1>5 DEF TypeOK
  <2>2. Owed'
    BY <1>1, <1>2, <1>3, <1>4, <1>5, <2>1 DEF Commands, Owed
  <2>3. Unfinished'
    BY <1>1, <1>2, <1>4, <1>5, <2>1 DEF Commands, Unfinished
  <2>4. Requested' /\ TrustedNotRestricted'
    BY <1>2, <1>5, <2>1 DEF Commands, Requested, TrustedNotRestricted
  <2>5. Answering
    BY <1>1, <1>5, <2>1 DEF Answering, Answered
  <2>6. QED
    BY <2>2, <2>3, <2>4, <2>5 DEF Commands
<1>6. CASE /\ command' = [command EXCEPT ![c] = "rejected"]
           /\ entry' = [entry EXCEPT ![i].active = None, ![i].promptInFlight = None]
           /\ UNCHANGED promise
  <2>1. /\ command'[c] = "rejected" /\ \A d \in Cmds \ {c} : command'[d] = command[d]
    BY <1>1, <1>6 DEF TypeOK
  <2>2. /\ entry'[i].active = None /\ entry'[i].resources = entry[i].resources
        /\ \A j \in Ids \ {i} : entry'[j] = entry[j]
    <3>1. entry \in [Ids -> Entry] /\ entry[i] \in Entry
      BY <1>1 DEF TypeOK
    <3>2. /\ entry'[i] = [entry[i] EXCEPT !.active = None, !.promptInFlight = None]
          /\ \A j \in Ids \ {i} : entry'[j] = entry[j]
      BY <1>1, <1>6, <3>1
    <3>3. QED
      BY <3>1, <3>2 DEF Entry
  <2>3. \A j \in sessions' : entry'[j].active # None =>
           j \in sessions /\ j # i /\ entry'[j] = entry[j]
    BY <1>2, <2>2 DEF TypeOK
  <2>4. Owed'
    <3>1. ASSUME NEW j \in sessions', entry'[j].active # None
          PROVE  \/ promise'[entry'[j].active] = j
                 \/ Settlement(j, entry'[j].active) \in Pending'
      <4>1. j \in sessions /\ j # i /\ entry'[j].active = entry[j].active
        BY <2>3, <3>1
      <4>2. promise[entry[j].active] = j \/ Settlement(j, entry[j].active) \in Pending
        BY <1>4, <3>1, <4>1 DEF Commands, Owed
      <4>3. QED
        BY <1>3, <1>6, <4>1, <4>2
    <3>2. QED
      BY <3>1 DEF Owed
  <2>5. Unfinished'
    <3>1. \A j \in sessions' : entry'[j].active # None =>
             command'[entry'[j].active] \in {"accepted", "uncertain"}
      BY <1>4, <2>1, <2>3 DEF Commands, Unfinished
    <3>2. \A j, k \in sessions' :
             entry'[j].active = entry'[k].active /\ entry'[j].active # None => j = k
      BY <2>3 DEF Commands, Unfinished
    <3>3. QED
      BY <1>2, <3>1, <3>2 DEF Unfinished
  <2>6. Requested'
    BY <1>2, <2>1, <2>3 DEF Commands, Requested
  <2>7. TrustedNotRestricted'
    BY <1>2, <2>2 DEF Commands, TrustedNotRestricted, TypeOK
  <2>8. Answering
    <3>1. \A j \in sessions \cap sessions' :
             entry'[j].active # entry[j].active => entry[j].active = c
      BY <1>1, <2>2 DEF TypeOK
    <3>2. QED
      BY <1>1, <2>1, <3>1 DEF Answering, Answered
  <2>9. QED
    BY <2>4, <2>5, <2>6, <2>7, <2>8 DEF Commands
<1>7. QED
  BY <1>5, <1>6 DEF AdmissionReturns

(* The session a tree mutation leaves behind.                              *)
LEMMA MutatedRegistry ==
    ASSUME TypeOK, Held, Alone, slot.phase = "mutating", NEW j \in Ids,
           NEW gone, slot.op.id \in gone \cup {j},
           ProjectOf[j] = slot.op.cwd, j = slot.op.id \/ j \notin sessions,
           entry' = [entry EXCEPT ![j] = MutatedEntry(slot.op.id)]
               \/ entry' = [entry EXCEPT ![j] = MutatedEntry(slot.op.id), ![slot.op.id] = NoEntry],
           entry' = [entry EXCEPT ![j] = MutatedEntry(slot.op.id)] \/ j # slot.op.id,
           sessions' = (sessions \ gone) \cup {j}, UNCHANGED <<trust, aborted>>,
           Commands
    PROVE  Registry
<1> DEFINE i == slot.op.id
<1>1. i \in sessions /\ i \in Ids /\ ProjectOf[i] = slot.op.cwd /\ entry[i].active = None
  BY DEF Alone, Mutable, IdleEntry, TypeOK
<1>2. /\ MutatedEntry(i).active = None /\ MutatedEntry(i).resources = entry[i].resources
      /\ MutatedEntry(i).abortRequested = entry[i].abortRequested
  BY <1>1 DEF MutatedEntry, TypeOK, Entry
<1>3. entry'[j] = MutatedEntry(i) /\ \A k \in sessions' : k # j => k \in sessions
  BY <1>1 DEF TypeOK
<1>4. \A k \in sessions' : k # j => entry'[k] = entry[k]
  BY <1>1 DEF TypeOK
<1>5. trust[ProjectOf[i]] = "trusted" => entry[i].resources
  BY <1>1 DEF Commands, TrustedNotRestricted
<1>6. SameEntry(j) \/ Newcomer(j)
  BY <1>1, <1>2, <1>3, <1>5 DEF SameEntry, Newcomer
<1>7. QED
  BY <1>3, <1>4, <1>6 DEF Registry, SameEntry

LEMMA ResumeCommands ==
    TypeOK /\ TypeOK' /\ Held /\ Alone /\ Commands /\ Resume => Commands' /\ Answering
<1> SUFFICES ASSUME TypeOK, TypeOK', Held, Alone, Commands, Resume
             PROVE  Commands' /\ Answering
  OBVIOUS
<1> USE DEF registryVars, lockVars, commandVars, outsideVars
<1>0. slot.op \in Op /\ Idle.phase = "idle"
  BY IdleType DEF TypeOK, Slot
<1>a. UNCHANGED queue => SettlementsStay
  BY DEF SettlementsStay, Pending
<1>b. ASSUME slot.op.kind # "prompt", Finally(slot.op)  PROVE UNCHANGED command
  BY <1>b DEF Finally
<1>c. ASSUME UNCHANGED <<queue, promise, command>>, Registry, slot.phase # "admitting",
             slot'.phase # "admitting"
      PROVE  Commands' /\ Answering
  BY <1>a, <1>c, SameMoves, Kept DEF Turn
<1>1. CASE EvictionReturns \/ OpenFails \/ CloseReturns \/ AbortReturns
  <2>1. slot'.phase \in {"idle", "opening"}
    BY <1>0, <1>1, BusyType DEF EvictionReturns, OpenFails, CloseReturns, AbortReturns, Phases
  <2>2. QED
    BY <1>1, <1>c, <2>1, SameRegistry DEF EvictionReturns, OpenFails, CloseReturns, AbortReturns
<1>2. CASE OpenReturns
  <2>1. PICK i \in Ids : Register(i)
    BY <1>2 DEF OpenReturns
  <2>2. CASE /\ slot' = [Busy("discarding", slot.op) EXCEPT !.dying = {i}]
             /\ UNCHANGED registryVars
    <3>1. slot'.phase = "discarding"
      BY <2>2 DEF Busy
    <3>2. QED
      BY <1>2, <1>c, <2>2, <3>1, SameRegistry DEF OpenReturns
  <2>3. CASE /\ i \notin sessions /\ sessions' = sessions \cup {i} /\ slot' = Idle
             /\ entry' = [entry EXCEPT ![i] = NewEntry(trust[ProjectOf[i]] = "trusted")]
    <3>1. /\ entry'[i].active = None /\ (trust[ProjectOf[i]] = "trusted" => entry'[i].resources)
          /\ \A j \in sessions : entry'[j] = entry[j]
      BY <2>3 DEF TypeOK, NewEntry
    <3>2. Registry
      BY <1>2, <2>3, <3>1 DEF OpenReturns, Registry, SameEntry, Newcomer
    <3>3. QED
      BY <1>0, <1>2, <1>c, <2>3, <3>2 DEF OpenReturns
  <2>4. QED
    BY <2>1, <2>2, <2>3 DEF Register
<1>3. CASE DiscardReturns
  <2>1. slot.op.kind # "prompt"
    BY <1>3 DEF DiscardReturns, Alone, LockInv, FilesFree
  <2>2. QED
    BY <1>0, <1>3, <1>b, <1>c, <2>1, SameRegistry DEF DiscardReturns
<1>4. CASE AdmissionReturns
  BY <1>4, AdmissionCommands
<1>5. CASE MutationThrows \/ NavigationReturns \/ ReplacementReturns
  <2>1. slot.phase = "mutating" /\ slot.op.kind = "mutate" /\ UNCHANGED <<queue, promise>>
    BY <1>5 DEF MutationThrows, NavigationReturns, ReplacementReturns, Held, SlotShape
  <2>2. slot.op.id \in sessions /\ slot.op.id \in Ids /\ ProjectOf[slot.op.id] = slot.op.cwd
    BY <2>1 DEF Alone, Mutable, TypeOK
  <2>3. CASE MutationThrows
    BY <1>0, <1>b, <1>c, <2>1, <2>3, SameRegistry DEF MutationThrows
  <2>4. CASE NavigationReturns
    <3>1. sessions' = (sessions \ {}) \cup {slot.op.id}
      BY <2>2, <2>4 DEF NavigationReturns
    <3>2. Registry
      BY <2>1, <2>2, <2>4, <3>1, MutatedRegistry DEF NavigationReturns
    <3>3. QED
      BY <1>0, <1>b, <1>c, <2>1, <2>4, <3>2 DEF NavigationReturns
  <2>5. CASE ReplacementReturns
    <3>1. PICK j \in Ids :
             /\ ProjectOf[j] = slot.op.cwd
             /\ \/ /\ j \notin sessions /\ sessions' = (sessions \ {slot.op.id}) \cup {j}
                   /\ entry' = [entry EXCEPT ![j] = MutatedEntry(slot.op.id),
                                             ![slot.op.id] = NoEntry]
                   /\ Finally(slot.op) /\ slot' = Idle
                \/ /\ sessions' = sessions \ {slot.op.id}
                   /\ entry' = [entry EXCEPT ![slot.op.id] = NoEntry]
                   /\ slot' = [Busy("discarding", slot.op) EXCEPT !.holding = {slot.op.id},
                                                                  !.dying = {j}]
                   /\ UNCHANGED command
      BY <2>5 DEF ReplacementReturns
    <3>2. CASE /\ j \notin sessions /\ sessions' = (sessions \ {slot.op.id}) \cup {j}
               /\ entry' = [entry EXCEPT ![j] = MutatedEntry(slot.op.id), ![slot.op.id] = NoEntry]
               /\ Finally(slot.op) /\ slot' = Idle
      <4>1. Registry
        BY <2>1, <2>2, <2>5, <3>1, <3>2, MutatedRegistry DEF ReplacementReturns
      <4>2. QED
        BY <1>0, <1>b, <1>c, <2>1, <3>2, <4>1
    <3>3. CASE /\ sessions' = sessions \ {slot.op.id}
               /\ entry' = [entry EXCEPT ![slot.op.id] = NoEntry]
               /\ slot' = [Busy("discarding", slot.op) EXCEPT !.holding = {slot.op.id},
                                                              !.dying = {j}]
               /\ UNCHANGED command
      <4>1. \A k \in sessions' : k \in sessions /\ entry'[k] = entry[k]
        BY <3>3 DEF TypeOK
      <4>2. Registry
        BY <2>5, <3>3, <4>1 DEF ReplacementReturns, Registry, SameEntry
      <4>3. slot'.phase = "discarding"
        BY <3>3 DEF Busy
      <4>4. QED
        BY <1>c, <2>1, <3>3, <4>2, <4>3
    <3>4. QED
      BY <3>1, <3>2, <3>3
  <2>6. QED
    BY <1>5, <2>3, <2>4, <2>5
<1>6. CASE AdministrationDisposed
  <2>1. slot.phase = "administering" /\ slot'.phase = "idle"
    BY <1>0, <1>6 DEF AdministrationDisposed
  <2>2. SettlementsStay
    <3>1. CASE UNCHANGED queue
      BY <1>a, <3>1
    <3>2. CASE Unlock(slot.op.arg)
      <4>1. Operation("unlock", admin[slot.op.arg].cwd, admin[slot.op.arg].id, slot.op.arg) \in Op
        <5>1. slot.op.arg \in Admins
          BY <1>0, <2>1, OpFields DEF Held, SlotShape
        <5>2. QED
          BY <5>1 DEF Operation, Op, Kinds, TypeOK
      <4>2. QED
        BY <3>2, <4>1, EnqueueStay DEF Unlock
    <3>3. QED
      BY <1>6, <3>1, <3>2 DEF AdministrationDisposed
  <2>3. QED
    BY <1>6, <2>1, <2>2, SameRegistry, SameMoves, Kept DEF AdministrationDisposed, Turn
<1>7. CASE DrainNext
  <2>1. PICK i \in Ids : BeginDispose(i, "draining", slot.op, slot.rest \ {i})
    BY <1>7 DEF DrainNext, TypeOK, Slot
  <2>2. slot'.phase = "draining"
    <3>1. (slot.rest \ {i}) \in SUBSET Ids
      BY DEF TypeOK, Slot
    <3>2. QED
      BY <1>0, <2>1, <3>1, DisposeType DEF Phases
  <2>3. QED
    BY <1>7, <1>c, <2>1, <2>2, DisposeRegistry DEF DrainNext
<1>8. CASE DrainReturns
  <2>1. slot'.phase \in {"idle", "draining"}
    BY <1>0, <1>8 DEF DrainReturns, TypeOK, Slot
  <2>2. QED
    BY <1>8, <1>c, <2>1, SameRegistry DEF DrainReturns
<1>9. CASE DrainEnds
  <2>1. \A i \in sessions : trust'[ProjectOf[i]] = "trusted" => trust[ProjectOf[i]] = "trusted"
    <3>1. CASE trust' = trust
      BY <3>1
    <3>2. CASE slot.op.kind = "approve" /\ trust' = [trust EXCEPT ![slot.op.cwd] = "trusted"]
      <4>1. \A i \in sessions : ProjectOf[i] # slot.op.cwd
        BY <1>9, <3>2 DEF DrainEnds, Alone, Approval
      <4>2. QED
        BY <3>2, <4>1, AssumptionType DEF TypeOK
    <3>3. QED
      BY <1>9, <3>1, <3>2 DEF DrainEnds
  <2>2. Registry
    BY <1>9, <2>1 DEF DrainEnds, Registry, SameEntry
  <2>3. QED
    BY <1>0, <1>9, <1>c, <2>2 DEF DrainEnds
<1>10. QED
  BY <1>1, <1>2, <1>3, <1>4, <1>5, <1>6, <1>7, <1>8, <1>9 DEF Resume

-----------------------------------------------------------------------------
(* Calls, and what happens between the awaits.                             *)

LEMMA CallsCommands ==
    TypeOK /\ TypeOK' /\ Held /\ Alone /\ Commands /\ Calls => Commands' /\ Answering
<1> SUFFICES ASSUME TypeOK, TypeOK', Held, Alone, Commands, Calls
             PROVE  Commands' /\ Answering
  OBVIOUS
<1> USE DEF registryVars, lockVars, commandVars, outsideVars
<1>1. UNCHANGED <<slot, sessions, entry, trust, aborted, promise>>
  BY DEF Calls, Call, CallPrompt, CallMutation, CallAdministration, CallDispose
<1>2. CommandsMove
  BY DEF Calls, Call, CallPrompt, CallMutation, CallAdministration, CallDispose, CommandsMove,
     TypeOK
<1>3. SettlementsStay
  <2>1. \E op : queue' = Append(queue, op)
    BY DEF Calls, Call, CallPrompt, CallMutation, CallAdministration, CallDispose, Enqueue
  <2>2. \A n \in DOMAIN queue : n \in DOMAIN queue' /\ queue'[n] = queue[n]
    BY <2>1 DEF TypeOK
  <2>3. QED
    BY <2>2 DEF SettlementsStay, Pending
<1>4. QED
  BY <1>1, <1>2, <1>3, SameRegistry, Kept DEF Turn

(* The SDK's promise settles: its settlement is queued instead.            *)
LEMMA PromptCommands ==
    ASSUME TypeOK, TypeOK', Held, Alone, Commands, NEW c \in Cmds, PromptReturns(c)
    PROVE  Commands' /\ Answering
<1> DEFINE op == Settlement(promise[c], c)
<1>1. /\ op \in Op /\ Enqueue(op) /\ promise' = [promise EXCEPT ![c] = None]
      /\ UNCHANGED <<slot, sessions, command, aborted, trust>>
  BY DEF PromptReturns, QueueSettlement, Settlement, Operation, Op, Kinds, TypeOK, outsideVars
<1>2. Pending' = Pending \cup {op}
  BY <1>1, EnqueueTokens, SettlementFields DEF Alone, LockInv, OnceKinds
<1>3. \A i \in Ids : /\ entry'[i].active = entry[i].active
                     /\ entry'[i].resources = entry[i].resources
                     /\ entry'[i].abortRequested = entry[i].abortRequested
  BY DEF PromptReturns, TypeOK, Entry
<1>4. \A i \in sessions : entry'[i].active = entry[i].active
  BY <1>3 DEF TypeOK
<1>5. Owed'
  <2>1. ASSUME NEW i \in sessions', entry'[i].active # None
        PROVE  \/ Admits(i, entry[i].active)' \/ promise'[entry'[i].active] = i
               \/ Settlement(i, entry'[i].active) \in Pending'
    <3>1. i \in sessions /\ entry'[i].active = entry[i].active
      BY <1>1, <1>4
    <3>2. \/ Admits(i, entry[i].active) \/ promise[entry[i].active] = i
          \/ Settlement(i, entry[i].active) \in Pending
      BY <2>1, <3>1 DEF Commands, Owed
    <3>3. promise[entry[i].active] = i =>
             \/ promise'[entry[i].active] = i
             \/ Settlement(i, entry[i].active) \in Pending'
      BY <1>1, <1>2 DEF TypeOK
    <3>4. QED
      BY <1>1, <1>2, <3>1, <3>2, <3>3 DEF Admits
  <2>2. QED
    BY <2>1 DEF Owed
<1>6. Unfinished'
  <2>1. \A i \in sessions' : entry'[i].active # None =>
           \/ command'[entry'[i].active] \in {"accepted", "uncertain"}
           \/ command'[entry'[i].active] = "queued" /\ Admits(i, entry[i].active)'
    BY <1>1, <1>4 DEF Commands, Unfinished, Admits
  <2>2. \A i, j \in sessions' :
           entry'[i].active = entry'[j].active /\ entry'[i].active # None => i = j
    BY <1>1, <1>4 DEF Commands, Unfinished
  <2>3. slot'.phase = "admitting" =>
           slot'.op.id \in sessions' /\ entry'[slot'.op.id].active = slot'.op.arg
    BY <1>1, <1>4 DEF Commands, Unfinished
  <2>4. QED
    BY <2>1, <2>2, <2>3 DEF Unfinished
<1>7. Requested' /\ TrustedNotRestricted'
  BY <1>1, <1>3 DEF Commands, Requested, TrustedNotRestricted, TypeOK
<1>8. Answering
  BY <1>1, <1>4 DEF Answering, Answered
<1>9. QED
  BY <1>5, <1>6, <1>7, <1>8 DEF Commands

LEMMA OutsideCommands ==
    ASSUME TypeOK, TypeOK', Held, Alone, Commands,
           Surroundings \/ (\E x \in Admins : AdministrationReturns(x)) \/ UNCHANGED vars
    PROVE  Commands' /\ Answering
<1> USE DEF registryVars, lockVars, commandVars, outsideVars, vars
<1>1. UNCHANGED <<slot, sessions, command, promise, aborted>>
  BY DEF Surroundings, Observe, Unsubscribe, BackendEvent, OtherService, ResourcesAppear,
     AdministrationReturns
<1>2. \A i \in Ids : /\ entry'[i].active = entry[i].active
                     /\ entry'[i].resources = entry[i].resources
                     /\ entry'[i].abortRequested = entry[i].abortRequested
  <2>1. \/ UNCHANGED entry
        \/ \E i \in Ids : \/ \E l : entry' = [entry EXCEPT ![i].listeners = l]
                          \/ entry' = [entry EXCEPT ![i].agentRunning = TRUE, ![i].running = TRUE]
                          \/ entry' = [entry EXCEPT ![i].agentRunning = FALSE, ![i].running = FALSE]
    BY DEF Surroundings, Observe, Unsubscribe, BackendEvent, OtherService, ResourcesAppear,
       AdministrationReturns
  <2>2. ASSUME NEW i \in Ids, NEW l, entry' = [entry EXCEPT ![i].listeners = l], NEW k \in Ids
        PROVE  /\ entry'[k].active = entry[k].active
               /\ entry'[k].resources = entry[k].resources
               /\ entry'[k].abortRequested = entry[k].abortRequested
    BY <2>2 DEF TypeOK, Entry
  <2>3. ASSUME NEW i \in Ids, NEW b, entry' = [entry EXCEPT ![i].agentRunning = b, ![i].running = b],
               NEW k \in Ids
        PROVE  /\ entry'[k].active = entry[k].active
               /\ entry'[k].resources = entry[k].resources
               /\ entry'[k].abortRequested = entry[k].abortRequested
    BY <2>3 DEF TypeOK, Entry
  <2>4. QED
    BY <2>1, <2>2, <2>3
<1>3. \A i \in sessions : trust'[ProjectOf[i]] = "trusted" => trust[ProjectOf[i]] = "trusted"
  <2>1. UNCHANGED trust \/ \E p \in Projects : trust' = [trust EXCEPT ![p] = "undecided"]
    BY DEF Surroundings, Observe, Unsubscribe, BackendEvent, OtherService, ResourcesAppear,
       AdministrationReturns
  <2>2. QED
    BY <2>1, AssumptionType DEF TypeOK
<1>4. Registry
  BY <1>1, <1>2, <1>3 DEF Registry, SameEntry, TypeOK
<1>5. SettlementsStay
  <2>1. UNCHANGED queue \/ \E op : queue' = Append(queue, op)
    BY DEF Surroundings, Observe, Unsubscribe, BackendEvent, OtherService, ResourcesAppear,
       AdministrationReturns, Unlock, Enqueue
  <2>2. \A n \in DOMAIN queue : n \in DOMAIN queue' /\ queue'[n] = queue[n]
    BY <2>1 DEF TypeOK
  <2>3. QED
    BY <2>2 DEF SettlementsStay, Pending
<1>6. QED
  BY <1>1, <1>4, <1>5, SameMoves, Kept DEF Turn

LEMMA InitCommands == Init => Commands
BY DEF Init, Idle, Busy, Commands, Owed, Unfinished, Requested,
   TrustedNotRestricted

LEMMA NextCommands ==
    TypeOK /\ TypeOK' /\ Held /\ Alone /\ Commands /\ [Next]_vars => Commands' /\ Answering
BY CallsCommands, ExecuteCommands, ResumeCommands, PromptCommands, OutsideCommands DEF Next

LEMMA CommandsAlways == Spec => [](TypeOK /\ Held /\ Alone /\ Commands)
<1>1. Init => Commands
  BY InitCommands
<1>2. (TypeOK /\ Held /\ Alone) /\ (TypeOK /\ Held /\ Alone)' /\ Commands /\ [Next]_vars
          => Commands'
  BY NextCommands
<1>3. QED
  BY <1>1, <1>2, AloneAlways, PTL DEF Spec

-----------------------------------------------------------------------------
(* The theorems.                                                           *)

(* A session that counts as busy always has an admission, a promise or a   *)
(* queued settlement that will free it.                                    *)
(* submitPrompt, startPrompt, #settleCommand                               *)
THEOREM ActiveSettles == Spec => []ActiveWillSettle
<1>1. TypeOK /\ Commands => ActiveWillSettle
  BY DEF Commands, Owed, ActiveWillSettle, Admits, Settlement, SettleQueued, Pending
<1>2. QED
  BY <1>1, CommandsAlways, PTL

(* Once a project is trusted none of its loaded runtimes was opened        *)
(* without its resources.  approveProjectTrust, #registerBackend           *)
THEOREM TrustedComplete == Spec => []TrustedNotRestricted
<1>1. Commands => TrustedNotRestricted
  BY DEF Commands
<1>2. QED
  BY <1>1, CommandsAlways, PTL

(* A command is answered once and frees its session with its own answer    *)
(* only, and an abort marks the command it found active, never a later one *)
(* of the same session.                                                    *)
(* #settleCommand, #rejectCommand, abortActiveRun                          *)
THEOREM CommandsAnsweredOnce == Spec => AnsweredOnce
<1> DEFINE Step ==
        \A c \in Cmds :
            /\ command[c] \in Answered => command'[c] = command[c]
            /\ command[c] \in {"accepted", "uncertain"} => command'[c] \notin {"rejected", "error"}
            /\ \A i \in sessions' :
                  entry'[i].active = c /\ entry'[i].abortRequested => c \in aborted'
            /\ \A i \in sessions \cap sessions' :
                  entry[i].active = c /\ entry'[i].active # c => command'[c] \in Answered
<1>1. TypeOK /\ TypeOK' /\ Held /\ Alone /\ Commands /\ [Next]_vars => Step
  <2> SUFFICES ASSUME Answering, Requested'  PROVE Step
    BY NextCommands DEF Commands
  <2>1. QED
    BY AssumptionType DEF Answering, Requested
<1>2. QED
  BY <1>1, CommandsAlways, PTL DEF Spec, AnsweredOnce
=============================================================================
