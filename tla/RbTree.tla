------------------------------- MODULE RbTree -------------------------------
(***************************************************************************)
(* The red-black tree of util/rbtree.c, pointer by pointer: nodes with a   *)
(* color, two children and a parent, and one sentinel that stands for      *)
(* every missing child and is shared by all trees of the program.  The     *)
(* loops that restore the balance are steps of their own, one for each     *)
(* iteration, during which nothing else happens to the tree.  Code that    *)
(* exists twice, mirrored, is one definition with a side as a parameter.   *)
(***************************************************************************)
EXTENDS Integers, FiniteSets, Sequences

CONSTANTS
  Key,        (* what the comparator compares; the rest of a node's data   *)
              (* travels with it                                           *)
  Node,       (* memory for nodes                                          *)
  RBNIL,      (* the sentinel                                              *)
  NULL

ASSUME RbTreeAssumption ==
  /\ Key \subseteq Int
  /\ RBNIL \notin Node /\ NULL \notin Node \cup Key \cup {RBNIL}

VARIABLES
  rb,         (* RBTree with the fields of all allocated nodes             *)
  op,         (* the insertion or deletion whose loop is running           *)
  walk        (* the iterator of the caller, RBIterator                    *)

vars == <<rb, op, walk>>

RBBLACK == "black"
RBRED == "red"
Side == {"left", "right"}
Opposite(s) == IF s = "left" THEN "right" ELSE "left"
Addr == Node \cup {RBNIL}

Put(f, x, v) == [n \in DOMAIN f \cup {x} |-> IF n = x THEN v ELSE f[n]]
Drop(f, x) == [n \in DOMAIN f \ {x} |-> f[n]]

Idle == [name |-> "none", x |-> NULL, y |-> NULL]
NoWalk == [kind |-> "none", last |-> NULL, over |-> TRUE, next |-> "none"]
InOrderWalks == {"left_right", "right_left"}
Walks == InOrderWalks \cup {"direct", "inverted"}

(* rb_create, and the static initialiser of the sentinel.                  *)
EmptyTree ==
  [root   |-> RBNIL,
   color  |-> [n \in {RBNIL} |-> RBBLACK],
   child  |-> [n \in {RBNIL} |-> [s \in Side |-> RBNIL]],
   parent |-> [n \in {RBNIL} |-> NULL],
   data   |-> [n \in {RBNIL} |-> NULL]]

Init == rb = EmptyTree /\ op = Idle /\ walk = NoWalk

Allocated(t) == DOMAIN t.color \ {RBNIL}

-----------------------------------------------------------------------------
(* Searches.                                                               *)

Toward(t, n, k) == IF k < t.data[n] THEN "left" ELSE "right"

(* In a tree that is not empty, the node that has a key, or the one below  *)
(* which it belongs.                                                       *)
Place(t, k) ==
  LET down[n \in Allocated(t)] ==
        LET c == t.child[n][Toward(t, n, k)]
        IN IF t.data[n] = k \/ c = RBNIL THEN n ELSE down[c]
  IN down[t.root]

Find(t, k) ==
  IF t.root = RBNIL THEN NULL
  ELSE LET n == Place(t, k) IN IF t.data[n] = k THEN n ELSE NULL

(* The node that is farthest to one side, at or below n.                   *)
Extreme(t, n, s) ==
  LET down[m \in Allocated(t)] == IF t.child[m][s] = RBNIL THEN m ELSE down[t.child[m][s]]
  IN down[n]

Below(t, n) ==
  LET below[m \in Allocated(t)] ==
        {m} \cup UNION {below[c] : c \in {t.child[m][s] : s \in Side} \ {RBNIL}}
  IN IF n = RBNIL THEN {} ELSE below[n]

-----------------------------------------------------------------------------
(* Insertion.                                                              *)

(* The side of its parent on which x hangs.                                *)
SideOf(t, x) == IF t.child[t.parent[x]]["left"] = x THEN "left" ELSE "right"

(* Mutant: the subtree that changes sides keeps its old parent.            *)
RotateHalfLinked(t, x, s) ==
  LET y == t.child[x][Opposite(s)]
      p == t.parent[x]
      NewChild(n, side) ==
        CASE n = x /\ side = Opposite(s) -> t.child[y][s]
          [] n = y /\ side = s -> x
          [] n = p /\ side = SideOf(t, x) -> y
          [] OTHER -> t.child[n][side]
  IN [t EXCEPT !.root = IF p = NULL THEN y ELSE @,
               !.child = [n \in DOMAIN @ |-> [side \in Side |-> NewChild(n, side)]],
               !.parent = [@ EXCEPT ![x] = y, ![y] = p]]

(* The links after x is rotated to side s: its child y on the other side   *)
(* takes its place.                                                        *)
RotatedChildren(t, x, s) ==
  LET y == t.child[x][Opposite(s)]
      NewChild(n, side) ==
        CASE n = x /\ side = Opposite(s) -> t.child[y][s]
          [] n = y /\ side = s -> x
          [] n = t.parent[x] /\ side = SideOf(t, x) -> y
          [] OTHER -> t.child[n][side]
  IN [n \in DOMAIN t.child |-> [side \in Side |-> NewChild(n, side)]]

RotatedParents(t, x, s) ==
  LET y == t.child[x][Opposite(s)]
      moved == t.child[y][s]
  IN [n \in DOMAIN t.parent |->
        CASE n = x -> y
          [] n = y /\ y # RBNIL -> t.parent[x]
          [] n = moved /\ moved # RBNIL -> x
          [] OTHER -> t.parent[n]]

Rotate(t, x, s) ==
  [t EXCEPT !.root = IF t.parent[x] = NULL THEN t.child[x][Opposite(s)] ELSE @,
            !.child = RotatedChildren(t, x, s),
            !.parent = RotatedParents(t, x, s)]

Paint(t, ns, c) == [t EXCEPT !.color = [n \in DOMAIN @ |-> IF n \in ns THEN c ELSE @[n]]]

(* The walks in key order tolerate insertions; the others do not.          *)
WalkAfterInsert == walk' = IF walk.kind \in InOrderWalks THEN walk ELSE NoWalk

(* A red leaf.                                                             *)
Attach(t, x, k) ==
  LET p == IF t.root = RBNIL THEN NULL ELSE Place(t, k)
  IN [root   |-> IF p = NULL THEN x ELSE t.root,
      color  |-> Put(t.color, x, RBRED),
      child  |-> Put(IF p = NULL THEN t.child ELSE [t.child EXCEPT ![p][Toward(t, p, k)] = x],
                     x, [s \in Side |-> RBNIL]),
      parent |-> Put(t.parent, x, p),
      data   |-> Put(t.data, x, k)]

(* rb_insert of a key that is not in the tree.  For one that is, the       *)
(* caller's combiner merges the data and the tree stays as it is; and so   *)
(* it does when allocfunc finds no memory.                                 *)
Insert(k) ==
  /\ op = Idle /\ Find(rb, k) = NULL
  /\ \E x \in Node \ Allocated(rb) :
       /\ rb' = Attach(rb, x, k)
       /\ op' = [Idle EXCEPT !.name = "insert", !.x = x]
  /\ WalkAfterInsert

(* Mutant: the mirror image rotates the grandparent the same way.          *)
InsertFixupStepUnmirrored(t, x) ==
  LET p == t.parent[x]
      g == t.parent[p]
      s == SideOf(t, p)
      uncle == t.child[g][Opposite(s)]
      inner == x = t.child[p][Opposite(s)]
      top == IF inner THEN x ELSE p
      bent == IF inner THEN Rotate(t, p, s) ELSE t
  IN IF t.color[uncle] = RBRED
     THEN [tree |-> Paint(Paint(t, {p, uncle}, RBBLACK), {g}, RBRED), x |-> g]
     ELSE [tree |-> Rotate(Paint(Paint(bent, {top}, RBBLACK), {g}, RBRED), g, "right"),
           x |-> IF inner THEN p ELSE x]

(* One iteration of rb_insert_fixup: x and its parent are red, and the     *)
(* uncle decides.                                                          *)
InsertFixupStep(t, x) ==
  LET p == t.parent[x]
      g == t.parent[p]
      s == SideOf(t, p)
      uncle == t.child[g][Opposite(s)]
      inner == x = t.child[p][Opposite(s)]
      top == IF inner THEN x ELSE p
      bent == IF inner THEN Rotate(t, p, s) ELSE t
  IN IF t.color[uncle] = RBRED
     THEN [tree |-> Paint(Paint(t, {p, uncle}, RBBLACK), {g}, RBRED), x |-> g]
     ELSE [tree |-> Rotate(Paint(Paint(bent, {top}, RBBLACK), {g}, RBRED), g, Opposite(s)),
           x |-> IF inner THEN p ELSE x]

RedAboveRed(t, x) == x # t.root /\ t.color[t.parent[x]] = RBRED

(* Mutant: the loop has no branch for a parent that is a right child.      *)
InsertFixupOneSided ==
  /\ op.name = "insert" /\ RedAboveRed(rb, op.x)
  /\ SideOf(rb, rb.parent[op.x]) = "left"
  /\ LET r == InsertFixupStep(rb, op.x)
     IN rb' = r.tree /\ op' = [op EXCEPT !.x = r.x]
  /\ UNCHANGED walk

InsertFixup ==
  /\ op.name = "insert" /\ RedAboveRed(rb, op.x)
  /\ LET r == InsertFixupStep(rb, op.x)
     IN rb' = r.tree /\ op' = [op EXCEPT !.x = r.x]
  /\ UNCHANGED walk

InsertReturns ==
  /\ op.name = "insert" /\ ~RedAboveRed(rb, op.x)
  /\ rb' = Paint(rb, {rb.root}, RBBLACK)
  /\ op' = Idle
  /\ UNCHANGED walk

-----------------------------------------------------------------------------
(* Deletion.                                                               *)

(* Mutant: the predecessor goes instead of the successor.                  *)
RemovedBefore(t, z) ==
  IF RBNIL \in {t.child[z][s] : s \in Side} THEN z
  ELSE Extreme(t, t.child[z]["left"], "right")

(* The node that goes: z, or its successor if z has two children.          *)
Removed(t, z) ==
  IF RBNIL \in {t.child[z][s] : s \in Side} THEN z
  ELSE Extreme(t, t.child[z]["right"], "left")

OnlyChild(t, y) ==
  IF t.child[y]["left"] # RBNIL THEN t.child[y]["left"] ELSE t.child[y]["right"]

(* Mutant: the child does not learn of its new parent.                     *)
DetachHalfLinked(t, z, y) ==
  LET x == OnlyChild(t, y)
      p == t.parent[y]
  IN [t EXCEPT !.root = IF p = NULL THEN x ELSE @,
               !.child = IF p = NULL THEN @ ELSE [@ EXCEPT ![p][SideOf(t, y)] = x],
               !.data = [@ EXCEPT ![z] = t.data[y]]]

(* Unlink y, which may leave a parent in the sentinel, and save its data   *)
(* in z.                                                                   *)
Detach(t, z, y) ==
  LET x == OnlyChild(t, y)
      p == t.parent[y]
  IN [t EXCEPT !.root = IF p = NULL THEN x ELSE @,
               !.child = IF p = NULL THEN @ ELSE [@ EXCEPT ![p][SideOf(t, y)] = x],
               !.parent = [@ EXCEPT ![x] = p],
               !.data = [@ EXCEPT ![z] = t.data[y]]]

Free(t, y) ==
  [t EXCEPT !.color = Drop(@, y), !.child = Drop(@, y), !.parent = Drop(@, y),
            !.data = Drop(@, y)]

(* Mutant: the color of the entry decides, not of the node that goes.      *)
DeleteByEntry(z) ==
  /\ op = Idle
  /\ LET y == Removed(rb, z)
         t == Detach(rb, z, y)
     IN IF rb.color[z] = RBBLACK
        THEN /\ rb' = t
             /\ op' = [name |-> "delete", x |-> OnlyChild(rb, y), y |-> y]
        ELSE rb' = Free(t, y) /\ UNCHANGED op
  /\ walk' = NoWalk

(* rb_delete.  The caller's iterators do not survive it: the node they     *)
(* stand on may be the one that is freed, or may receive another entry.    *)
Delete(z) ==
  /\ op = Idle
  /\ LET y == Removed(rb, z)
         t == Detach(rb, z, y)
     IN IF rb.color[y] = RBBLACK
        THEN /\ rb' = t
             /\ op' = [name |-> "delete", x |-> OnlyChild(rb, y), y |-> y]
        ELSE rb' = Free(t, y) /\ UNCHANGED op
  /\ walk' = NoWalk

(* In the loop of rb_delete_fixup, a black node is missing below x, on     *)
(* side s of its parent.  A red sibling is rotated away.                   *)
RotateRedSibling(t, x, s) ==
  LET p == t.parent[x]
      w == t.child[p][Opposite(s)]
  IN IF t.color[w] = RBRED THEN Rotate(Paint(Paint(t, {w}, RBBLACK), {p}, RBRED), p, s) ELSE t

(* If the far child of the sibling is black, the near one is red and       *)
(* becomes the sibling.                                                    *)
RotateNearNephew(t, x, s) ==
  LET w == t.child[t.parent[x]][Opposite(s)]
  IN IF t.color[t.child[w][Opposite(s)]] = RBBLACK
     THEN Rotate(Paint(Paint(t, {t.child[w][s]}, RBBLACK), {w}, RBRED), w, Opposite(s))
     ELSE t

(* The sibling takes the place of the parent, which comes to x's side.     *)
SupplyBlack(t, x, s) ==
  LET p == t.parent[x]
      w == t.child[p][Opposite(s)]
  IN Rotate(Paint(Paint(t, {w}, t.color[p]), {p, t.child[w][Opposite(s)]}, RBBLACK), p, s)

(* One iteration: x moves up, or rotations supply the black node and the   *)
(* loop ends.                                                              *)
DeleteFixupStep(t, x) ==
  LET s == SideOf(t, x)
      t1 == RotateRedSibling(t, x, s)
      w == t1.child[t1.parent[x]][Opposite(s)]
      supplied == SupplyBlack(RotateNearNephew(t1, x, s), x, s)
  IN IF \A side \in Side : t1.color[t1.child[w][side]] = RBBLACK
     THEN [tree |-> Paint(t1, {w}, RBRED), x |-> t1.parent[x]]
     ELSE [tree |-> supplied, x |-> supplied.root]

BlackBelowRoot(t, x) == x # t.root /\ t.color[x] = RBBLACK

DeleteFixup ==
  /\ op.name = "delete" /\ BlackBelowRoot(rb, op.x)
  /\ LET r == DeleteFixupStep(rb, op.x)
     IN rb' = r.tree /\ op' = [op EXCEPT !.x = r.x]
  /\ UNCHANGED walk

DeleteReturns ==
  /\ op.name = "delete" /\ ~BlackBelowRoot(rb, op.x)
  /\ rb' = Free(Paint(rb, {op.x}, RBBLACK), op.y)
  /\ op' = Idle
  /\ UNCHANGED walk

(* rb_clear: _freeNode frees what is below the root.                       *)
Clear ==
  /\ op = Idle /\ rb.root # RBNIL
  /\ LET Rest(f) == [n \in DOMAIN f \ Below(rb, rb.root) |-> f[n]]
     IN rb' = [root |-> RBNIL, color |-> Rest(rb.color), child |-> Rest(rb.child),
               parent |-> Rest(rb.parent), data |-> Rest(rb.data)]
  /\ walk' = NoWalk
  /\ UNCHANGED op

-----------------------------------------------------------------------------
(* Walks.  Each gives the node a call returns, NULL at the end.            *)

(* Mutant: the way up is one step, whatever side it came from.             *)
NextInOrderOneUp(t, last, s) ==
  IF last = NULL THEN Extreme(t, t.root, s)
  ELSE IF t.child[last][Opposite(s)] # RBNIL
       THEN Extreme(t, t.child[last][Opposite(s)], s)
       ELSE t.parent[last]

(* Left-right (s = "left") and right-left.                                 *)
NextInOrder(t, last, s) ==
  LET up[m \in Allocated(t)] ==
        LET p == t.parent[m]
        IN IF p = NULL \/ t.child[p][s] = m THEN p ELSE up[p]
  IN IF last = NULL THEN Extreme(t, t.root, s)
     ELSE IF t.child[last][Opposite(s)] # RBNIL
          THEN Extreme(t, t.child[last][Opposite(s)], s)
          ELSE up[last]

(* Mutant: a missing right child is visited on the way up.                 *)
NextDirectSentinel(t, last) ==
  LET Right(n) == t.child[n]["right"]
      up[m \in Allocated(t)] ==
        LET p == t.parent[m]
        IN IF p = NULL THEN NULL ELSE IF Right(p) # m THEN Right(p) ELSE up[p]
  IN IF last = NULL THEN t.root
     ELSE IF t.child[last]["left"] # RBNIL THEN t.child[last]["left"]
     ELSE IF Right(last) # RBNIL THEN Right(last) ELSE up[last]

(* Direct, or pre-order.                                                   *)
NextDirect(t, last) ==
  LET Right(n) == t.child[n]["right"]
      up[m \in Allocated(t)] ==
        LET p == t.parent[m]
        IN IF p = NULL THEN NULL
           ELSE IF Right(p) \notin {m, RBNIL} THEN Right(p) ELSE up[p]
  IN IF last = NULL THEN t.root
     ELSE IF t.child[last]["left"] # RBNIL THEN t.child[last]["left"]
     ELSE IF Right(last) # RBNIL THEN Right(last) ELSE up[last]

(* The node at or below n from which an inverted, or post-order, walk goes *)
(* up.                                                                     *)
FirstInverted(t, n) ==
  LET down[m \in Allocated(t)] ==
        LET l == Extreme(t, m, "left")
        IN IF t.child[l]["right"] = RBNIL THEN l ELSE down[t.child[l]["right"]]
  IN down[n]

(* With its next_step, which is NextStepUp from the first call on.         *)
NextInverted(t, last, next) ==
  LET p == t.parent[last]
  IN IF last = NULL THEN FirstInverted(t, t.root)
     ELSE CASE next = "up" ->
            IF p # NULL /\ t.child[p]["right"] \notin {last, RBNIL}
            THEN FirstInverted(t, t.child[p]["right"]) ELSE p

BeginWalk(kind) ==
  /\ op = Idle
  /\ walk' = [kind |-> kind, last |-> NULL, over |-> rb.root = RBNIL, next |-> "none"]
  /\ UNCHANGED <<rb, op>>

NextOf(w) ==
  CASE w.kind = "left_right" -> NextInOrder(rb, w.last, "left")
    [] w.kind = "right_left" -> NextInOrder(rb, w.last, "right")
    [] w.kind = "direct"     -> NextDirect(rb, w.last)
    [] w.kind = "inverted"   -> NextInverted(rb, w.last, w.next)

WalkNext ==
  /\ op = Idle /\ ~walk.over
  /\ LET n == NextOf(walk)
     IN walk' = [walk EXCEPT !.last = n, !.over = n = NULL,
                             !.next = IF walk.kind = "inverted" THEN "up" ELSE @]
  /\ UNCHANGED <<rb, op>>

Next ==
  \/ \E k \in Key : Insert(k)
  \/ InsertFixup
  \/ InsertReturns
  \/ \E z \in Allocated(rb) : Delete(z)
  \/ DeleteFixup
  \/ DeleteReturns
  \/ Clear
  \/ \E kind \in Walks : BeginWalk(kind)
  \/ WalkNext

(* A call that has started runs on the caller's thread until it returns.   *)
Fairness == WF_vars(InsertFixup \/ InsertReturns \/ DeleteFixup \/ DeleteReturns)

Spec == Init /\ [][Next]_vars /\ Fairness

-----------------------------------------------------------------------------
TypeOK ==
  /\ Allocated(rb) \subseteq Node
  /\ LET Live == Allocated(rb) \cup {RBNIL}
     IN /\ rb.root \in Live
        /\ rb.color \in [Live -> {RBBLACK, RBRED}]
        /\ rb.child \in [Live -> [Side -> Live]]
        /\ DOMAIN rb.parent = Live /\ rb.parent[RBNIL] \in Node \cup {NULL}
        /\ \A n \in Allocated(rb) : rb.parent[n] \in Allocated(rb) \cup {NULL}
        /\ DOMAIN rb.data = Live /\ \A n \in Live : rb.data[n] \in Key \/ rb.data[n] = NULL
        /\ op \in [name : {"none", "insert", "delete"}, x : Live \cup {NULL}, y : Live \cup {NULL}]
        /\ walk \in [kind : Walks \cup {"none"}, last : Live \cup {NULL}, over : BOOLEAN,
                      next : {"none", "up"}]

Linked == Below(rb, rb.root)

(* The order in which each kind of walk is to visit the nodes: where n     *)
(* comes among those below it.                                             *)
Visit(kind, left, n, right) ==
  CASE kind = "left_right" -> left \o <<n>> \o right
    [] kind = "right_left" -> right \o <<n>> \o left
    [] kind = "direct"     -> <<n>> \o left \o right
    [] kind = "inverted"   -> left \o right \o <<n>>

Order(t, kind) ==
  LET go[m \in DOMAIN t.color] ==
        IF m = RBNIL THEN << >>
        ELSE Visit(kind, go[t.child[m]["left"]], m, go[t.child[m]["right"]])
  IN go[t.root]

(* At every moment, inside the loops too, the tree consists of exactly the *)
(* allocated nodes (but the one about to be freed), each node is the       *)
(* parent of its children, and the keys are in order: rotations and        *)
(* deletions neither lose nodes nor links (rb_rotate_left,                 *)
(* rb_rotate_right, rb_delete_node).                                       *)
LinksAgree ==
  /\ Linked = Allocated(rb) \ {op.y}
  /\ rb.root # RBNIL => rb.parent[rb.root] = NULL \/ op.name = "delete"
  /\ \A n \in Allocated(rb) \ {op.y}, s \in Side :
       rb.child[n][s] # RBNIL => rb.parent[rb.child[n][s]] = n
  /\ \A n \in Linked : /\ \A m \in Below(rb, rb.child[n]["left"]) : rb.data[m] < rb.data[n]
                       /\ \A m \in Below(rb, rb.child[n]["right"]) : rb.data[n] < rb.data[m]

(* The numbers of black nodes on the ways down from the root.  During a    *)
(* deletion, op.x counts one more.                                         *)
BlackHeights(t) ==
  LET Black(m) == IF t.color[m] = RBBLACK THEN 1 ELSE 0
      Extra(m, q) == IF op.name = "delete" /\ m = op.x /\ q = t.parent[m] THEN 1 ELSE 0
      down[m \in Below(t, t.root)] ==
        LET Through(c) == {h + Black(m) + Extra(c, m) : h \in IF c = RBNIL THEN {Black(c)} ELSE down[c]}
        IN Through(t.child[m]["left"]) \cup Through(t.child[m]["right"])
  IN IF t.root = RBNIL THEN {Black(RBNIL)} ELSE down[t.root]

(* The loop invariant of rb_insert_fixup and rb_delete_fixup: all ways     *)
(* down have the same black height, and where two red nodes meet, or the   *)
(* root is red, it is at the node the loop is at.  Outside of the loops    *)
(* the tree is a red-black tree.                                           *)
Balanced ==
  /\ Cardinality(BlackHeights(rb)) = 1
  /\ rb.color[rb.root] = RBRED => op.x = rb.root
  /\ \A n \in Allocated(rb) \ {op.y}, s \in Side :
       rb.color[n] = RBRED /\ rb.color[rb.child[n][s]] = RBRED =>
         op.x = rb.child[n][s] \/ (op.name = "delete" /\ op.x = n)

(* The sentinel, which all trees of the program share, stays a black leaf: *)
(* no rotation or recoloring in whatever tree takes it for a node          *)
(* (RBNIL, the guards of rb_rotate_left and rb_rotate_right).              *)
SentinelIsIntact ==
  /\ rb.color[RBNIL] = RBBLACK
  /\ \A s \in Side : rb.child[RBNIL][s] = RBNIL

(* A pointer a caller keeps to a node, or an iterator, goes on denoting    *)
(* the same entry through all insertions, and through a deletion unless it *)
(* is the deleted entry or the one that follows it: "some other physical   *)
(* node may be the one actually freed" (rb_delete).  The entry a deletion  *)
(* removes is the one it was asked to.                                     *)
Entries == [n \in Linked |-> rb.data[n]]
KeysOf(entries) == {entries[n] : n \in DOMAIN entries}
After(entries, n) ==
  LET later == {m \in DOMAIN entries : entries[m] > entries[n]}
  IN {m \in later : \A i \in later : entries[i] >= entries[m]}
PointersSurvive ==
  [][LET old == Entries
         new == Entries'
         Kept(ns) == \A n \in ns : n \in DOMAIN new /\ new[n] = old[n]
     IN rb' # rb =>
          /\ \A z \in DOMAIN old :
               Delete(z) => /\ Kept(DOMAIN old \ ({z} \cup After(old, z)))
                            /\ KeysOf(new) = KeysOf(old) \ {old[z]}
          /\ op = Idle /\ op'.name = "insert" => Kept(DOMAIN old)
          /\ op # Idle => new = old]_rb

(* A walk visits every node once, in the order of its kind, and then is    *)
(* over (rb_left_right_walk, rb_right_left_walk, rb_direct_walk,           *)
(* rb_inverted_walk).                                                      *)
CallReturns == ~walk.over /\ walk' # walk /\ walk'.kind = walk.kind /\ (walk'.over \/ walk'.last # NULL)
WalksFollowTheOrder ==
  [][ CallReturns =>
        LET o == Order(rb, walk.kind)
        IN IF walk.last = NULL THEN walk'.last = o[1]
           ELSE \E i \in 1..Len(o) :
                  o[i] = walk.last /\ walk'.last = IF i = Len(o) THEN NULL ELSE o[i + 1] ]_walk

(* The tree is a sorted set: what rb_find gives for each key, in the       *)
(* middle of an insertion or deletion as well, and what the walks in key   *)
(* order give, with insertions between their calls (rb_insert, rb_delete,  *)
(* rb_clear, rb_left_right_walk, rb_right_left_walk).                      *)
Held == {k \in {rb.data[n] : n \in Allocated(rb)} : Find(rb, k) # NULL}
Scan ==
  LET inOrder == walk.kind \in InOrderWalks
  IN [up   |-> walk.kind = "left_right",
      last |-> IF inOrder /\ walk.last # NULL THEN rb.data[walk.last] ELSE NULL,
      over |-> inOrder => walk.over]
Set == INSTANCE SortedSet WITH held <- Held, scan <- Scan
ImplementsSortedSet == Set!Spec

(* The loops end.                                                          *)
EveryCallReturns == op # Idle ~> op = Idle

=============================================================================
