----------------------------- MODULE SessionTree -----------------------------
(***************************************************************************)
(* The tree of a session, from the entries stored for it: their parents    *)
(* may be unknown, or form a cycle, in a file that was edited.             *)
(*   node/src/pi-sdk-domain-session.ts      (sessionManagerToTreeSnapshot) *)
(*   protocol/src/frame_codec.ts                     (validateSessionTree) *)
(*                                                                         *)
(* Entries are numbered in the order they were stored, each is             *)
(* [parent, user]; 0 is no parent and no leaf.                             *)
(*                                                                         *)
(* An operator Faulty* is no part of the specification: it is the operator *)
(* below it with a plausible mistake, which a property must refute.        *)
(***************************************************************************)
EXTENDS Naturals, SequencesExt

-----------------------------------------------------------------------------
(* sessionManagerToTreeSnapshot *)

Parent(entries, i) == entries[i].parent

(* A parent that is unknown, or the entry itself, makes it a root. *)
FaultyIsRoot(entries, i) == Parent(entries, i) \in {0, i}
IsRoot(entries, i) == Parent(entries, i) \notin DOMAIN entries \ {i}

Children(entries, i) == {j \in DOMAIN entries : Parent(entries, j) = i /\ ~IsRoot(entries, j)}

(* The queue, level by level: entries in a cycle are in none. *)
Levels(entries) ==
    LET level[d \in Nat] ==
            IF d = 0 THEN {i \in DOMAIN entries : IsRoot(entries, i)}
            ELSE UNION {Children(entries, i) : i \in level[d - 1]}
    IN  [d \in 0..Len(entries) |-> level[d]]

Depth(levels, i) ==
    IF \E d \in DOMAIN levels : i \in levels[d]
    THEN CHOOSE d \in DOMAIN levels : i \in levels[d] ELSE 0

(* Entries can be forked or cloned while the file of the session is there. *)
Tree(entries, path, leaf, filed) ==
    LET levels == Levels(entries)
        active == ToSet(path)
    IN  [nodes |-> [i \in DOMAIN entries |->
                       [parent |-> Parent(entries, i), user |-> entries[i].user,
                        depth |-> Depth(levels, i), onPath |-> i \in active,
                        hasChildren |-> Children(entries, i) # {},
                        canEdit |-> entries[i].user,
                        canFork |-> entries[i].user /\ (Parent(entries, i) = 0 \/ filed)]],
         path |-> path, leaf |-> leaf,
         canClone |-> filed /\ leaf # 0 /\ \E i \in active : entries[i].user]

-----------------------------------------------------------------------------
(* validateSessionTree *)

NotItsOwnParent(tree) == \A i \in DOMAIN tree.nodes : tree.nodes[i].parent # i

AcceptsNodes(tree) ==
    \A i \in DOMAIN tree.nodes :
        LET node == tree.nodes[i]
        IN  /\ node.canEdit \/ node.canFork => node.user
            /\ node.onPath = (i \in ToSet(tree.path))

AcceptsPath(tree) ==
    LET path == tree.path
    IN  /\ IsInjective(path) /\ ToSet(path) \subseteq DOMAIN tree.nodes
        /\ \A k \in DOMAIN path :
              IF k = 1 THEN tree.nodes[path[k]].parent \notin DOMAIN tree.nodes
              ELSE tree.nodes[path[k]].parent = path[k - 1]

AcceptsLeaf(tree) ==
    IF tree.path = <<>> THEN tree.leaf = 0 /\ ~tree.canClone
    ELSE /\ tree.leaf = Last(tree.path)
         /\ tree.canClone => \E i \in ToSet(tree.path) : tree.nodes[i].user

AcceptsTree(tree) ==
    NotItsOwnParent(tree) /\ AcceptsNodes(tree) /\ AcceptsPath(tree) /\ AcceptsLeaf(tree)

-----------------------------------------------------------------------------
(* The way up from an entry. *)
Up(entries, i) ==
    LET up[n \in 0..Len(entries)] ==
            IF n = 0 THEN i
            ELSE IF up[n - 1] \in DOMAIN entries THEN Parent(entries, up[n - 1]) ELSE 0
    IN  up

(* SessionManager.getBranch: up from the leaf until a parent is unknown.  A*)
(* leaf in a cycle has no branch.                                          *)
BranchOf(entries, leaf) ==
    LET way == [n \in 1..Len(entries) |-> Up(entries, leaf)[n - 1]]
    IN  Reverse(SelectSeq(way, LAMBDA i : i \in DOMAIN entries))

(* Where the way up ends: nowhere for an entry in or below a cycle. *)
Height(entries, i) ==
    {n \in 0..Len(entries) :
        LET at == Up(entries, i)[n]
        IN  at \in DOMAIN entries /\ Parent(entries, at) \notin DOMAIN entries \ {at}}

(***************************************************************************)
(* Whatever is stored for a session, its tree can be read: an entry is as  *)
(* deep as the way up from it is long, one whose parent is unknown being a *)
(* root and one that never gets there being shown as one; and the codec    *)
(* accepts the tree unless an entry is its own parent.                     *)
(***************************************************************************)
TreeServed(entries, leaf, filed) ==
    leaf = 0 \/ Height(entries, leaf) # {} =>
        LET tree == Tree(entries, BranchOf(entries, leaf), leaf, filed)
        IN  /\ \A i \in DOMAIN entries :
                  LET height == Height(entries, i)
                  IN  \/ height = {} /\ tree.nodes[i].depth = 0
                      \/ tree.nodes[i].depth \in height
                         /\ \A n \in height : tree.nodes[i].depth <= n
            /\ \A i \in DOMAIN entries :
                  Parent(entries, i) \in DOMAIN entries \ {i} =>
                      tree.nodes[Parent(entries, i)].hasChildren
            /\ NotItsOwnParent(tree) => AcceptsTree(tree)
=============================================================================
