---------------------------- MODULE RbTreeLemmas ----------------------------
(* What RbTreeFixup and RbTreeProofs rest on: loops over nodes, trees,      *)
(* rotations, colors and black heights, for any keys and nodes.             *)
EXTENDS RbTree, TLAPS, FiniteSetTheorems, WellFoundedInduction

-----------------------------------------------------------------------------
(***************************************************************************)
(* Loops that go from node to node.                                        *)
(***************************************************************************)

(* A nonempty set of natural numbers has a least element.                  *)
LEMMA LeastNumber ==
  ASSUME NEW S, S \subseteq Nat, S # {}
  PROVE  \E m \in S : \A n \in S : m =< n
<1>1. PICK m \in S : \A k \in S : ~ (<<k, m>> \in OpToRel(<, Nat))
  BY WFMin, NatLessThanWellFounded
<1>2. ASSUME NEW k \in S PROVE m =< k
  <2>1. <<k, m>> \notin {ss \in Nat \X Nat : ss[1] < ss[2]}
    BY <1>1 DEF OpToRel
  <2> QED  BY <2>1
<1> QED  BY <1>1, <1>2

(* What a loop returns that goes from m to next[m] until it stops: there   *)
(* is such a function.                                                     *)
Loop(D, stop, val, next, f) ==
  f = [m \in D |-> IF m \in stop THEN val[m] ELSE f[next[m]]]

LEMMA LoopExists ==
  ASSUME NEW D, NEW stop, NEW val, NEW next, \A m \in D \ stop : next[m] \in D
  PROVE  \E f : Loop(D, stop, val, next, f)
<1> DEFINE Closed(C) == \A m \in C \ stop : next[m] \in C
           Passed(m) == {x \in D : \A C \in SUBSET D : Closed(C) /\ m \in C => x \in C}
           Ends(m) == Passed(m) \cap stop
           End(m) == CHOOSE x : x \in Ends(m)
           f == [m \in D |-> val[End(m)]]
<1>1. ASSUME NEW m \in D \cap stop
      PROVE  Ends(m) = {m}
  <2>1. Closed({m}) /\ {m} \in SUBSET D
    BY <1>1
  <2>2. \A x \in Passed(m) : x \in {m}
    BY <2>1
  <2>3. m \in Passed(m)
    OBVIOUS
  <2> QED  BY <1>1, <2>2, <2>3
<1>2. ASSUME NEW m \in D \ stop
      PROVE  Ends(m) = Ends(next[m])
  <2>1. ASSUME NEW x \in Ends(m)
        PROVE  x \in Ends(next[m])
    <3> SUFFICES ASSUME NEW C \in SUBSET D, Closed(C), next[m] \in C
                 PROVE  x \in C
      OBVIOUS
    <3>1. Closed(C \cup {m}) /\ C \cup {m} \in SUBSET D
      OBVIOUS
    <3>2. x \in C \cup {m}
      BY <2>1, <3>1
    <3> QED  BY <3>2, <2>1
  <2>2. ASSUME NEW x \in Ends(next[m])
        PROVE  x \in Ends(m)
    <3> SUFFICES ASSUME NEW C \in SUBSET D, Closed(C), m \in C
                 PROVE  x \in C
      OBVIOUS
    <3>1. next[m] \in C
      OBVIOUS
    <3> QED  BY <2>2, <3>1
  <2> QED  BY <2>1, <2>2
<1> HIDE DEF Ends
<1>3. \A m \in D : f[m] = IF m \in stop THEN val[m] ELSE f[next[m]]
  <2> SUFFICES ASSUME NEW m \in D  PROVE f[m] = IF m \in stop THEN val[m] ELSE f[next[m]]
    OBVIOUS
  <2>1. CASE m \in stop
    <3>1. Ends(m) = {m}
      BY <1>1, <2>1
    <3>2. End(m) = m
      BY <3>1
    <3>3. f[m] = val[End(m)]
      OBVIOUS
    <3> HIDE DEF f, End
    <3> QED  BY <3>2, <3>3, <2>1
  <2>2. CASE m \notin stop
    <3>1. Ends(m) = Ends(next[m])
      BY <1>2, <2>2
    <3>2. End(m) = End(next[m])
      BY <3>1
    <3>3. f[m] = val[End(m)] /\ f[next[m]] = val[End(next[m])]
      BY <2>2
    <3> QED  BY <3>2, <3>3, <2>2
  <2> QED  BY <2>1, <2>2
<1> HIDE DEF f
<1>4. f = [m \in D |-> IF m \in stop THEN val[m] ELSE f[next[m]]]
  <2>1. f = [m \in D |-> f[m]]
    BY DEF f
  <2> QED  BY <1>3, <2>1
<1> QED  BY <1>4 DEF Loop

(* A loop that stays in C and gets nearer to an end returns what belongs   *)
(* to a place in C.                                                        *)
LEMMA LoopEnds ==
  ASSUME NEW D, NEW stop, NEW val, NEW next, NEW f, Loop(D, stop, val, next, f),
         NEW C, C \subseteq D, NEW rank, \A m \in C : rank[m] \in Nat,
         \A m \in C \ stop : next[m] \in C /\ rank[next[m]] < rank[m]
  PROVE  \A m \in C : \E x \in C \cap stop : f[m] = val[x]
<1> DEFINE Good(m) == \E x \in C \cap stop : f[m] = val[x]
           bad == {rank[m] : m \in {x \in C : ~Good(x)}}
<1> SUFFICES ASSUME bad # {}  PROVE FALSE
  OBVIOUS
<1>1. bad \subseteq Nat
  OBVIOUS
<1>2. PICK r \in bad : \A k \in bad : r =< k
  BY <1>1, LeastNumber
<1>3. PICK m \in C : r = rank[m] /\ ~Good(m)
  BY <1>2
<1>4. f[m] = IF m \in stop THEN val[m] ELSE f[next[m]]
  BY <1>3 DEF Loop
<1>5. CASE m \in stop
  BY <1>3, <1>4, <1>5
<1>6. CASE m \notin stop
  <2>1. next[m] \in C /\ rank[next[m]] < rank[m] /\ f[m] = f[next[m]]
    BY <1>4, <1>6
  <2>2. ~Good(next[m])
    BY <1>3, <2>1
  <2>3. rank[next[m]] \in bad
    BY <2>1, <2>2
  <2>4. rank[next[m]] \in Nat /\ rank[m] \in Nat
    BY <2>1
  <2>5. r =< rank[next[m]]
    BY <1>2, <2>3
  <2> QED  BY ONLY <1>3, <2>1, <2>4, <2>5
<1> QED  BY <1>5, <1>6

-----------------------------------------------------------------------------
(***************************************************************************)
(* Trees.  L are the nodes that are linked, and sub[n] the nodes at or     *)
(* below n.                                                                *)
(***************************************************************************)

Branch(t, L, sub, n, s) ==
  LET c == t.child[n][s]
      d == t.child[n][Opposite(s)]
  IN /\ c \in L \cup {RBNIL}
     /\ sub[n] = {n} \cup sub[c] \cup sub[d]
     /\ n \notin sub[c] /\ sub[c] \cap sub[d] = {}
     /\ c # RBNIL => t.parent[c] = n

Shape(t, L, sub) ==
  /\ IsFiniteSet(L) /\ L \subseteq Node
  /\ sub \in [L \cup {RBNIL} -> SUBSET L] /\ sub[RBNIL] = {}
  /\ t.root \in L \cup {RBNIL} /\ sub[t.root] = L
  /\ t.root # RBNIL => t.parent[t.root] = NULL
  /\ \A n \in L, s \in Side : Branch(t, L, sub, n, s)

LEMMA Sides ==
  \A s \in Side : /\ Opposite(s) \in Side /\ Opposite(s) # s /\ Opposite(Opposite(s)) = s
                  /\ Side = {s, Opposite(s)}
BY DEF Side, Opposite

LEMMA NotNodes ==
  ASSUME NEW L, L \subseteq Node
  PROVE  RBNIL \notin L /\ NULL \notin L /\ NULL # RBNIL
BY RbTreeAssumption

LEMMA BelowNode ==
  ASSUME NEW t, NEW L, NEW sub, Shape(t, L, sub), NEW n \in L
  PROVE  n \in sub[n] /\ sub[n] \subseteq L /\ IsFiniteSet(sub[n])
<1>1. "left" \in Side
  BY DEF Side
<1>2. Branch(t, L, sub, n, "left") /\ sub[n] \in SUBSET L
  BY <1>1 DEF Shape
<1>3. IsFiniteSet(L)
  BY DEF Shape
<1> QED  BY <1>2, <1>3, FS_Subset DEF Branch

LEMMA BelowChild ==
  ASSUME NEW t, NEW L, NEW sub, Shape(t, L, sub), NEW n \in L, NEW s \in Side,
         NEW c, c = t.child[n][s]
  PROVE  /\ c \in L \cup {RBNIL}
         /\ sub[c] \subseteq sub[n] /\ n \notin sub[c]
         /\ c # RBNIL => /\ c \in L /\ t.parent[c] = n /\ c \in sub[c]
                         /\ Cardinality(sub[c]) \in Nat /\ Cardinality(sub[n]) \in Nat
                         /\ Cardinality(sub[c]) < Cardinality(sub[n])
<1>1. Branch(t, L, sub, n, s)
  BY DEF Shape
<1>2. c \in L \cup {RBNIL} /\ sub[c] \subseteq sub[n] /\ n \notin sub[c] /\ (c # RBNIL => t.parent[c] = n)
  BY <1>1 DEF Branch
<1>3. ASSUME c # RBNIL
      PROVE  /\ c \in L /\ c \in sub[c]
             /\ Cardinality(sub[c]) \in Nat /\ Cardinality(sub[n]) \in Nat
             /\ Cardinality(sub[c]) < Cardinality(sub[n])
  <2>1. c \in L
    BY <1>2, <1>3
  <2>2. n \in sub[n] /\ IsFiniteSet(sub[n])
    BY BelowNode
  <2>3. c \in sub[c] /\ IsFiniteSet(sub[c])
    BY <2>1, BelowNode
  <2>4. sub[c] # sub[n]
    BY <1>2, <2>2
  <2>5. /\ Cardinality(sub[c]) <= Cardinality(sub[n])
        /\ Cardinality(sub[n]) = Cardinality(sub[c]) => sub[n] = sub[c]
    BY <1>2, <2>2, FS_Subset
  <2>6. Cardinality(sub[c]) \in Nat /\ Cardinality(sub[n]) \in Nat
    BY <2>2, <2>3, FS_CardinalityType
  <2> QED  BY <2>1, <2>3, <2>4, <2>5, <2>6
<1> QED  BY <1>2, <1>3

(* Induction over a tree.                                                  *)
LEMMA TreeInduction ==
  ASSUME NEW t, NEW L, NEW sub, Shape(t, L, sub), NEW good,
         \A n \in L : (\A s \in Side : t.child[n][s] \in L => t.child[n][s] \in good) => n \in good
  PROVE  L \subseteq good
<1> DEFINE bad == {Cardinality(sub[n]) : n \in L \ good}
<1> SUFFICES ASSUME bad # {}  PROVE FALSE
  OBVIOUS
<1>1. bad \subseteq Nat
  <2> SUFFICES ASSUME NEW n \in L  PROVE Cardinality(sub[n]) \in Nat
    OBVIOUS
  <2> QED  BY BelowNode, FS_CardinalityType
<1>2. PICK r \in bad : \A k \in bad : r =< k
  BY <1>1, LeastNumber
<1>3. PICK n \in L \ good : r = Cardinality(sub[n])
  BY <1>2
<1>4. PICK s \in Side : t.child[n][s] \in L /\ t.child[n][s] \notin good
  BY <1>3
<1>5. PICK c : c = t.child[n][s]
  OBVIOUS
<1>6. c # RBNIL
  BY <1>4, <1>5, NotNodes DEF Shape
<1>7. /\ Cardinality(sub[c]) \in Nat /\ Cardinality(sub[n]) \in Nat
      /\ Cardinality(sub[c]) < Cardinality(sub[n])
  BY <1>3, <1>5, <1>6, BelowChild
<1>8. Cardinality(sub[c]) \in bad
  BY <1>4, <1>5
<1>9. r =< Cardinality(sub[c])
  BY <1>2, <1>8
<1> QED  BY ONLY <1>3, <1>7, <1>9

LEMMA BelowBelow ==
  ASSUME NEW t, NEW L, NEW sub, Shape(t, L, sub)
  PROVE  \A a \in L : \A b \in sub[a] : b \in L /\ sub[b] \subseteq sub[a]
<1> DEFINE good == {a \in L : \A b \in sub[a] : sub[b] \subseteq sub[a]}
<1>1. ASSUME NEW a \in L, \A s \in Side : t.child[a][s] \in L => t.child[a][s] \in good
      PROVE  a \in good
  <2> SUFFICES ASSUME NEW b \in sub[a], b # a  PROVE sub[b] \subseteq sub[a]
    OBVIOUS
  <2>1. PICK s \in Side : b \in sub[t.child[a][s]]
    <3>1. "left" \in Side /\ Opposite("left") \in Side
      BY DEF Side, Opposite
    <3>2. Branch(t, L, sub, a, "left")
      BY <3>1 DEF Shape
    <3> QED  BY <3>1, <3>2 DEF Branch
  <2>2. PICK c : c = t.child[a][s]
    OBVIOUS
  <2>3. c \in L \cup {RBNIL} /\ sub[c] \subseteq sub[a]
    BY <2>2, BelowChild
  <2>4. c \in L
    BY <2>1, <2>2, <2>3 DEF Shape
  <2>5. sub[b] \subseteq sub[c]
    BY <2>1, <2>2, <2>4, <1>1
  <2> QED  BY <2>3, <2>5
<1>2. L \subseteq good
  <2> HIDE DEF good
  <2> QED  BY <1>1, TreeInduction
<1>3. \A a \in L : sub[a] \subseteq L
  BY BelowNode
<1> QED  BY <1>2, <1>3

(* Every node below another hangs on one of these.                         *)
LEMMA ParentBelow ==
  ASSUME NEW t, NEW L, NEW sub, Shape(t, L, sub)
  PROVE  \A a \in L : \A b \in sub[a] \ {a} :
           \E q \in sub[a], s \in Side : q \in L /\ t.child[q][s] = b /\ t.parent[b] = q
<1> DEFINE Hangs(a, b) == \E q \in sub[a], s \in Side : q \in L /\ t.child[q][s] = b /\ t.parent[b] = q
           good == {a \in L : \A b \in sub[a] \ {a} : Hangs(a, b)}
<1>1. ASSUME NEW a \in L, \A s \in Side : t.child[a][s] \in L => t.child[a][s] \in good
      PROVE  a \in good
  <2> SUFFICES ASSUME NEW b \in sub[a], b # a  PROVE Hangs(a, b)
    OBVIOUS
  <2>1. PICK s \in Side : b \in sub[t.child[a][s]]
    <3>1. "left" \in Side /\ Opposite("left") \in Side
      BY DEF Side, Opposite
    <3>2. Branch(t, L, sub, a, "left")
      BY <3>1 DEF Shape
    <3> QED  BY <3>1, <3>2 DEF Branch
  <2>2. PICK c : c = t.child[a][s]
    OBVIOUS
  <2>3. c \in L \cup {RBNIL} /\ sub[c] \subseteq sub[a] /\ (c # RBNIL => t.parent[c] = a)
    BY <2>2, BelowChild
  <2>4. c \in L /\ c # RBNIL
    BY <2>1, <2>2, <2>3, NotNodes DEF Shape
  <2>5. CASE b = c
    <3>1. a \in sub[a]
      BY BelowNode
    <3> QED  BY <2>2, <2>3, <2>4, <2>5, <3>1
  <2>6. CASE b # c
    <3>1. Hangs(c, b)
      BY <2>1, <2>2, <2>4, <2>6, <1>1
    <3> QED  BY <2>3, <3>1
  <2> QED  BY <2>5, <2>6
<1>2. L \subseteq good
  <2> HIDE DEF good
  <2> QED  BY <1>1, TreeInduction
<1> QED  BY <1>2

(* The parent of a node, and the side on which the node hangs.             *)
LEMMA ParentOf ==
  ASSUME NEW t, NEW L, NEW sub, Shape(t, L, sub), NEW n \in L
  PROVE  /\ n = t.root => t.parent[n] = NULL
         /\ n # t.root => /\ t.parent[n] \in L /\ t.parent[n] # NULL /\ t.parent[n] # n
                          /\ t.parent[n] \notin sub[n] /\ n \in sub[t.parent[n]]
                          /\ SideOf(t, n) \in Side
                          /\ t.child[t.parent[n]][SideOf(t, n)] = n
                          /\ t.child[t.parent[n]][Opposite(SideOf(t, n))] # n
<1>1. RBNIL \notin L /\ NULL \notin L
  BY NotNodes DEF Shape
<1>2. CASE n = t.root
  BY <1>1, <1>2 DEF Shape
<1>3. CASE n # t.root
  <2>1. t.root \in L /\ n \in sub[t.root] \ {t.root}
    BY <1>3 DEF Shape
  <2>2. PICK q \in sub[t.root], s \in Side : q \in L /\ t.child[q][s] = n /\ t.parent[n] = q
    BY <2>1, ParentBelow
  <2>3. Branch(t, L, sub, q, s) /\ Branch(t, L, sub, q, Opposite(s)) /\ n \in sub[n]
    BY <2>2, Sides, BelowNode DEF Shape
  <2>4. q \notin sub[n] /\ n \in sub[q]
    BY <2>2, <2>3 DEF Branch
  <2>5. t.child[q][Opposite(s)] # n
    BY <2>2, <2>3 DEF Branch
  <2>6. SideOf(t, n) = s
    BY <2>2, <2>5 DEF SideOf, Side, Opposite
  <2> QED  BY <1>1, <2>2, <2>3, <2>4, <2>5, <2>6
<1> QED  BY <1>2, <1>3, <1>1

-----------------------------------------------------------------------------
(***************************************************************************)
(* Rotation.                                                               *)
(***************************************************************************)

(* The allocated nodes and the sentinel.                                   *)
Memory(t, D) ==
  /\ D \subseteq Addr /\ RBNIL \in D
  /\ DOMAIN t = {"root", "color", "child", "parent", "data"}
  /\ t.root \in D /\ t.color \in [D -> {RBBLACK, RBRED}] /\ t.child \in [D -> [Side -> D]]
  /\ t.parent \in [D -> Node \cup {NULL}] /\ t.data \in [D -> Key \cup {NULL}]
  /\ \A n \in D \ {RBNIL} : t.parent[n] \in (D \ {RBNIL}) \cup {NULL}

(* What a rotation of x to side s changes.                                 *)
Rotated(t, u, D, x, s) ==
  LET y == t.child[x][Opposite(s)]
      b == t.child[y][s]
      p == t.parent[x]
  IN /\ u.root = (IF p = NULL THEN y ELSE t.root) /\ u.color = t.color /\ u.data = t.data
     /\ u.child[x][Opposite(s)] = b /\ u.child[x][s] = t.child[x][s]
     /\ u.child[y][s] = x /\ u.child[y][Opposite(s)] = t.child[y][Opposite(s)]
     /\ p # NULL => /\ u.child[p][SideOf(t, x)] = y
                    /\ u.child[p][Opposite(SideOf(t, x))] = t.child[p][Opposite(SideOf(t, x))]
     /\ \A n \in D \ {x, y, p}, r \in Side : u.child[n][r] = t.child[n][r]
     /\ u.parent[x] = y /\ u.parent[y] = p
     /\ b # RBNIL => u.parent[b] = x
     /\ \A n \in D \ {x, y} : n # b \/ b = RBNIL => u.parent[n] = t.parent[n]

(* The nodes that a rotation is about.                                     *)
RotationIn(t, L, sub, x, y, a, b, c, p) ==
  /\ y \in L /\ x # y /\ x # RBNIL /\ p # x /\ p # y /\ p # RBNIL /\ b # x /\ b # y /\ (b # p \/ b = RBNIL)
  /\ p # NULL => p \in L /\ x # t.root
  /\ p = NULL => x = t.root
  /\ {a, b, c} \subseteq L \cup {RBNIL}
  /\ sub[x] = {x, y} \cup sub[a] \cup sub[b] \cup sub[c]
  /\ sub[y] = {y} \cup sub[b] \cup sub[c]
  /\ x \notin sub[a] \cup sub[b] \cup sub[c] /\ y \notin sub[a] \cup sub[b] \cup sub[c]
  /\ sub[a] \cap sub[b] = {} /\ sub[a] \cap sub[c] = {} /\ sub[b] \cap sub[c] = {}
  /\ t.parent[y] = x
  /\ a # RBNIL => t.parent[a] = x
  /\ b # RBNIL => t.parent[b] = y
  /\ c # RBNIL => t.parent[c] = y

LEMMA RotationNodes ==
  ASSUME NEW t, NEW L, NEW sub, Shape(t, L, sub), NEW x \in L, NEW s \in Side,
         NEW y, y = t.child[x][Opposite(s)], y # RBNIL,
         NEW a, a = t.child[x][s], NEW b, b = t.child[y][s], NEW c, c = t.child[y][Opposite(s)],
         NEW p, p = t.parent[x]
  PROVE  RotationIn(t, L, sub, x, y, a, b, c, p)
<1>1. Opposite(s) \in Side /\ Opposite(Opposite(s)) = s
  BY Sides
<1>2. Branch(t, L, sub, x, s) /\ Branch(t, L, sub, x, Opposite(s))
  BY <1>1 DEF Shape
<1>3. y \in L
  BY <1>2 DEF Branch
<1>4. Branch(t, L, sub, y, s) /\ Branch(t, L, sub, y, Opposite(s))
  BY <1>1, <1>3 DEF Shape
<1>5. x \in sub[x] /\ y \in sub[y] /\ \A n \in L : n \in sub[n]
  BY <1>3, BelowNode
<1>6. RBNIL \notin L /\ NULL \notin L /\ NULL # RBNIL /\ sub[RBNIL] = {}
  BY NotNodes DEF Shape
<1>7. /\ {a, b, c} \subseteq L \cup {RBNIL}
      /\ sub[x] = {x} \cup sub[a] \cup sub[y] /\ sub[y] = {y} \cup sub[b] \cup sub[c]
      /\ x \notin sub[a] /\ x \notin sub[y] /\ y \notin sub[b] /\ y \notin sub[c]
      /\ sub[a] \cap sub[y] = {} /\ sub[b] \cap sub[c] = {}
      /\ t.parent[y] = x /\ (a # RBNIL => t.parent[a] = x)
      /\ b # RBNIL => t.parent[b] = y
      /\ c # RBNIL => t.parent[c] = y
  <2>1. /\ a \in L \cup {RBNIL} /\ sub[x] = {x} \cup sub[a] \cup sub[y]
        /\ x \notin sub[a] /\ sub[a] \cap sub[y] = {} /\ (a # RBNIL => t.parent[a] = x)
    BY ONLY <1>2, a = t.child[x][s], y = t.child[x][Opposite(s)] DEF Branch
  <2>2. x \notin sub[y] /\ t.parent[y] = x
    BY ONLY <1>1, <1>2, y = t.child[x][Opposite(s)], y # RBNIL DEF Branch
  <2>3. /\ b \in L \cup {RBNIL} /\ sub[y] = {y} \cup sub[b] \cup sub[c]
        /\ y \notin sub[b] /\ sub[b] \cap sub[c] = {} /\ (b # RBNIL => t.parent[b] = y)
    BY ONLY <1>4, b = t.child[y][s], c = t.child[y][Opposite(s)] DEF Branch
  <2>4. c \in L \cup {RBNIL} /\ y \notin sub[c] /\ (c # RBNIL => t.parent[c] = y)
    BY ONLY <1>4, c = t.child[y][Opposite(s)] DEF Branch
  <2> QED  BY ONLY <2>1, <2>2, <2>3, <2>4
<1>8. p = NULL => x = t.root
  BY ParentOf, ZenonT(30)
<1>9. p # NULL => p \in L /\ x # t.root /\ p \notin sub[x] /\ p # x
  BY ParentOf
<1>10. p # x /\ p # y /\ p # RBNIL /\ x # y
  <2>1. x # y /\ y \in sub[x]
    BY <1>3, <1>5, <1>7
  <2>2. CASE p = NULL
    BY <2>1, <2>2, <1>3, <1>6
  <2>3. CASE p # NULL
    BY <2>1, <2>3, <1>6, <1>9
  <2> QED  BY <2>1, <2>2, <2>3
<1>11. b # x /\ b # y /\ (b # p \/ b = RBNIL)
  <2>1. CASE b = RBNIL
    BY <2>1, <1>3, <1>6
  <2>2. CASE b # RBNIL
    <3>1. b \in L /\ b \in sub[b] /\ b \in sub[x]
      BY <2>2, <1>5, <1>7
    <3> QED  BY ONLY <3>1, <1>6, <1>7, <1>9
  <2> QED  BY <2>1, <2>2
<1> QED  BY ONLY <1>3, <1>6, <1>7, <1>8, <1>9, <1>10, <1>11 DEF RotationIn

LEMMA RotateLinks ==
  ASSUME NEW t, NEW D, Memory(t, D), NEW L, L \cup {RBNIL} \subseteq D,
         NEW sub, Shape(t, L, sub), NEW x \in L, NEW s \in Side, t.child[x][Opposite(s)] # RBNIL
  PROVE  Rotated(t, Rotate(t, x, s), D, x, s) /\ Memory(Rotate(t, x, s), D)
<1>1. PICK y, b, p, q : y = t.child[x][Opposite(s)] /\ b = t.child[y][s] /\ p = t.parent[x] /\ q = SideOf(t, x)
  OBVIOUS
<1>2. PICK u : u = Rotate(t, x, s)
  OBVIOUS
<1>3. /\ DOMAIN t = {"root", "color", "child", "parent", "data"}
      /\ DOMAIN t.child = D /\ DOMAIN t.parent = D
      /\ D \subseteq Addr /\ RBNIL \in D /\ t.root \in D
      /\ t.color \in [D -> {RBBLACK, RBRED}] /\ t.child \in [D -> [Side -> D]]
      /\ t.parent \in [D -> Node \cup {NULL}] /\ t.data \in [D -> Key \cup {NULL}]
  BY DEF Memory
<1>4. /\ DOMAIN u = {"root", "color", "child", "parent", "data"}
      /\ u.root = (IF t.parent[x] = NULL THEN t.child[x][Opposite(s)] ELSE t.root)
      /\ u.child = RotatedChildren(t, x, s) /\ u.parent = RotatedParents(t, x, s)
      /\ u.color = t.color /\ u.data = t.data
  BY ONLY <1>2, <1>3 DEF Rotate
<1>5. /\ y \in L /\ x # y /\ x # RBNIL /\ p # x /\ p # y /\ p # RBNIL /\ b # x /\ b # y
      /\ (b # p \/ b = RBNIL) /\ y # RBNIL
      /\ p # NULL => p \in L
      /\ b \in L \cup {RBNIL}
  <2>1. PICK a, c : a = t.child[x][s] /\ c = t.child[y][Opposite(s)]
    OBVIOUS
  <2>2. RotationIn(t, L, sub, x, y, a, b, c, p)
    BY <1>1, <2>1, RotationNodes
  <2> QED  BY <1>1, <2>2 DEF RotationIn
<1>6. q \in Side /\ Opposite(s) \in Side /\ Opposite(s) # s /\ Opposite(q) \in Side /\ Opposite(q) # q
  BY <1>1, Sides DEF SideOf, Side
<1>7. x \in D /\ y \in D /\ b \in D /\ NULL \notin D /\ (p # NULL => p \in D) /\ {x, y} \subseteq Node
  BY <1>3, <1>5, RbTreeAssumption DEF Addr, Shape
<1>8. \A n \in D, r \in Side :
        u.child[n][r] = CASE n = x /\ r = Opposite(s) -> b
                          [] n = y /\ r = s -> x
                          [] n = p /\ r = q -> y
                          [] OTHER -> t.child[n][r]
  BY ONLY <1>1, <1>3, <1>4 DEF RotatedChildren
<1>9. \A n \in D : /\ n = x => u.parent[n] = y
                   /\ n # x /\ n = y => u.parent[n] = p
                   /\ n \notin {x, y} /\ n = b /\ b # RBNIL => u.parent[n] = x
                   /\ n \notin {x, y} /\ (n # b \/ b = RBNIL) => u.parent[n] = t.parent[n]
  <2> SUFFICES ASSUME NEW n \in D
               PROVE  /\ n = x => u.parent[n] = y
                      /\ n # x /\ n = y => u.parent[n] = p
                      /\ n \notin {x, y} /\ n = b /\ b # RBNIL => u.parent[n] = x
                      /\ n \notin {x, y} /\ (n # b \/ b = RBNIL) => u.parent[n] = t.parent[n]
    OBVIOUS
  <2> QED  BY ONLY <1>1, <1>3, <1>4, <1>5, n \in D DEF RotatedParents
<1>10. u.child \in [D -> [Side -> D]]
  <2>1. u.child = [n \in D |-> [r \in Side |-> u.child[n][r]]]
    BY ONLY <1>1, <1>3, <1>4 DEF RotatedChildren
  <2>2. \A n \in D, r \in Side : u.child[n][r] \in D
    <3>1. \A n \in D, r \in Side : t.child[n][r] \in D
      BY <1>3
    <3> QED  BY ONLY <3>1, <1>7, <1>8
  <2> QED  BY ONLY <2>1, <2>2
<1>11. u.parent \in [D -> Node \cup {NULL}]
  <2>1. u.parent = [n \in D |-> u.parent[n]]
    BY ONLY <1>1, <1>3, <1>4 DEF RotatedParents
  <2>2. \A n \in D : u.parent[n] \in Node \cup {NULL}
    BY ONLY <1>1, <1>3, <1>7, <1>9
  <2> QED  BY ONLY <2>1, <2>2
<1>12. Memory(u, D)
  <2>1. \A n \in D \ {RBNIL} : t.parent[n] \in (D \ {RBNIL}) \cup {NULL}
    BY DEF Memory
  <2>2. \A n \in D \ {RBNIL} : u.parent[n] \in (D \ {RBNIL}) \cup {NULL}
    BY ONLY <2>1, <1>5, <1>7, <1>9
  <2>3. u.root \in D
    BY <1>1, <1>3, <1>4, <1>7
  <2> QED  BY ONLY <2>2, <2>3, <1>3, <1>4, <1>10, <1>11 DEF Memory
<1>13. /\ u.child[x][Opposite(s)] = b /\ u.child[x][s] = t.child[x][s]
       /\ u.child[y][s] = x /\ u.child[y][Opposite(s)] = t.child[y][Opposite(s)]
       /\ p # NULL => u.child[p][q] = y /\ u.child[p][Opposite(q)] = t.child[p][Opposite(q)]
       /\ \A n \in D \ {x, y, p}, r \in Side : u.child[n][r] = t.child[n][r]
  BY ONLY <1>5, <1>6, <1>7, <1>8, s \in Side
<1>14. /\ u.parent[x] = y /\ u.parent[y] = p /\ (b # RBNIL => u.parent[b] = x)
       /\ \A n \in D \ {x, y} : n # b \/ b = RBNIL => u.parent[n] = t.parent[n]
  BY ONLY <1>5, <1>7, <1>9
<1>15. Rotated(t, u, D, x, s)
  BY <1>1, <1>4, <1>13, <1>14, ZenonT(30) DEF Rotated
<1> QED  BY ONLY <1>2, <1>12, <1>15

(* What is below the nodes after a rotation.                               *)
TurnedSub(t, sub, x, s) ==
  LET y == t.child[x][Opposite(s)]
  IN [sub EXCEPT ![y] = sub[x], ![x] = {x} \cup sub[t.child[x][s]] \cup sub[t.child[y][s]]]

TurnedIn(L, sub, x, y, a, b, v) ==
  /\ DOMAIN v = L \cup {RBNIL}
  /\ v[x] = {x} \cup sub[a] \cup sub[b] /\ v[y] = sub[x]
  /\ \A n \in (L \cup {RBNIL}) \ {x, y} : v[n] = sub[n]

LEMMA TurnedSubIs ==
  ASSUME NEW t, NEW L, NEW sub, Shape(t, L, sub), NEW x \in L, NEW s \in Side,
         NEW y, y = t.child[x][Opposite(s)], y # RBNIL,
         NEW a, a = t.child[x][s], NEW b, b = t.child[y][s], NEW v, v = TurnedSub(t, sub, x, s)
  PROVE  TurnedIn(L, sub, x, y, a, b, v)
<1>1. DOMAIN sub = L \cup {RBNIL}
  BY DEF Shape
<1>2. PICK c, p : c = t.child[y][Opposite(s)] /\ p = t.parent[x]
  OBVIOUS
<1>3. RotationIn(t, L, sub, x, y, a, b, c, p)
  BY <1>2, RotationNodes
<1>4. y \in L /\ x # y
  BY <1>3 DEF RotationIn
<1> QED  BY <1>1, <1>4 DEF TurnedSub, TurnedIn

LEMMA RotateShape ==
  ASSUME NEW t, NEW u, NEW D, NEW L, L \cup {RBNIL} \subseteq D, NEW sub, Shape(t, L, sub),
         NEW x \in L, NEW s \in Side, t.child[x][Opposite(s)] # RBNIL, Rotated(t, u, D, x, s),
         NEW v, v = TurnedSub(t, sub, x, s)
  PROVE  Shape(u, L, v)
<1>1. PICK y, a, b, c, p : /\ y = t.child[x][Opposite(s)] /\ a = t.child[x][s] /\ b = t.child[y][s]
                           /\ c = t.child[y][Opposite(s)] /\ p = t.parent[x]
  OBVIOUS
<1>2. /\ y \in L /\ x # y /\ x # RBNIL /\ p # x /\ p # y /\ p # RBNIL /\ b # x /\ b # y /\ (b # p \/ b = RBNIL)
      /\ p # NULL => p \in L /\ x # t.root
      /\ p = NULL => x = t.root
      /\ {a, b, c} \subseteq L \cup {RBNIL}
      /\ sub[x] = {x, y} \cup sub[a] \cup sub[b] \cup sub[c]
      /\ sub[y] = {y} \cup sub[b] \cup sub[c]
      /\ x \notin sub[a] \cup sub[b] \cup sub[c] /\ y \notin sub[a] \cup sub[b] \cup sub[c]
      /\ sub[a] \cap sub[b] = {} /\ sub[a] \cap sub[c] = {} /\ sub[b] \cap sub[c] = {}
      /\ t.parent[y] = x
      /\ a # RBNIL => t.parent[a] = x
      /\ b # RBNIL => t.parent[b] = y
      /\ c # RBNIL => t.parent[c] = y
  <2>1. RotationIn(t, L, sub, x, y, a, b, c, p)
    BY <1>1, RotationNodes
  <2> QED  BY <2>1 DEF RotationIn
<1>3. /\ DOMAIN v = L \cup {RBNIL}
      /\ v[x] = {x} \cup sub[a] \cup sub[b] /\ v[y] = sub[x]
      /\ \A n \in (L \cup {RBNIL}) \ {x, y} : v[n] = sub[n]
  <2>1. TurnedIn(L, sub, x, y, a, b, v)
    BY <1>1, TurnedSubIs
  <2> QED  BY <2>1 DEF TurnedIn
<1>4. /\ IsFiniteSet(L) /\ L \subseteq Node /\ RBNIL \notin L /\ NULL \notin L /\ NULL # RBNIL
      /\ sub \in [L \cup {RBNIL} -> SUBSET L] /\ sub[RBNIL] = {}
      /\ t.root \in L \cup {RBNIL} /\ sub[t.root] = L
      /\ t.root # RBNIL => t.parent[t.root] = NULL
  BY NotNodes DEF Shape
<1>5. /\ u.root = (IF p = NULL THEN y ELSE t.root)
      /\ u.child[x][Opposite(s)] = b /\ u.child[x][s] = a
      /\ u.child[y][s] = x /\ u.child[y][Opposite(s)] = c
      /\ p # NULL => /\ u.child[p][SideOf(t, x)] = y
                     /\ u.child[p][Opposite(SideOf(t, x))] = t.child[p][Opposite(SideOf(t, x))]
      /\ \A n \in D \ {x, y, p}, r \in Side : u.child[n][r] = t.child[n][r]
      /\ u.parent[x] = y /\ u.parent[y] = p
      /\ b # RBNIL => u.parent[b] = x
      /\ \A n \in D \ {x, y} : n # b \/ b = RBNIL => u.parent[n] = t.parent[n]
  BY <1>1 DEF Rotated
<1>6. t.parent[y] = x
  BY <1>2
<1>7. v \in [L \cup {RBNIL} -> SUBSET L] /\ v[RBNIL] = {}
  <2>1. v[RBNIL] = {}
    BY <1>2, <1>3, <1>4
  <2>2. \A n \in L \cup {RBNIL} : v[n] \in SUBSET L
    BY <1>2, <1>3, <1>4
  <2>3. v = [n \in L \cup {RBNIL} |-> v[n]]
    <3>1. v = TurnedSub(t, sub, x, s)
      OBVIOUS
    <3> QED  BY <3>1, <1>3, <1>4 DEF TurnedSub
  <2> QED  BY ONLY <2>1, <2>2, <2>3
<1>8. u.root \in L \cup {RBNIL} /\ v[u.root] = L /\ (u.root # RBNIL => u.parent[u.root] = NULL)
  <2>1. CASE p = NULL
    BY <2>1, <1>2, <1>3, <1>4, <1>5
  <2>2. CASE p # NULL
    <3>1. t.root # x /\ t.root # y /\ u.root = t.root
      BY <2>2, <1>2, <1>4, <1>5, <1>6
    <3>2. t.root # b \/ b = RBNIL
      BY <1>2, <1>4
    <3>3. u.parent[t.root] = t.parent[t.root]
      BY <3>1, <3>2, <1>4, <1>5
    <3> QED  BY <3>1, <3>3, <1>3, <1>4
  <2> QED  BY <2>1, <2>2
<1>9. ASSUME NEW n \in L, NEW r \in Side
      PROVE  Branch(u, L, v, n, r)
  <2>1. r = s \/ r = Opposite(s)
    BY Sides
  <2>2. Opposite(Opposite(s)) = s /\ Opposite(s) \in Side /\ Opposite(r) \in Side
    BY Sides
  <2>3. CASE n = x
    <3>1. v[a] = sub[a] /\ v[b] = sub[b]
      BY <1>2, <1>3, <1>4
    <3>2. a # RBNIL => u.parent[a] = x
      <4>1. a # RBNIL => a # x /\ a # y /\ a # b /\ a \in D
        BY <1>2, <1>4
      <4> QED  BY <4>1, <1>2, <1>5
    <3>3. b # RBNIL => u.parent[b] = x
      BY <1>5
    <3> QED  BY <2>1, <2>2, <2>3, <3>1, <3>2, <3>3, <1>2, <1>3, <1>5 DEF Branch
  <2>4. CASE n = y
    <3>1. v[c] = sub[c]
      BY <1>2, <1>3, <1>4
    <3>2. c # RBNIL => u.parent[c] = y
      <4>1. c # RBNIL => c # x /\ c # y /\ c \in D
        BY <1>2, <1>4, BelowNode
      <4>2. c # RBNIL => c # b
        BY <1>2, BelowNode
      <4> QED  BY <4>1, <4>2, <1>2, <1>5
    <3>3. v[y] = {y} \cup v[x] \cup v[c]
      BY <3>1, <1>2, <1>3
    <3>4. y \notin v[x] /\ y \notin v[c] /\ v[x] \cap v[c] = {}
      BY <3>1, <1>2, <1>3
    <3> QED  BY <2>1, <2>2, <2>4, <3>2, <3>3, <3>4, <1>2, <1>5 DEF Branch
  <2>5. CASE n = p
    <3>1. p # NULL /\ p \in L /\ x # t.root
      BY <2>5, <1>2, <1>4
    <3>2. PICK q : q = SideOf(t, x)
      OBVIOUS
    <3>3. PICK d : d = t.child[p][Opposite(q)]
      OBVIOUS
    <3>4. q \in Side /\ t.child[p][q] = x /\ (r = q \/ r = Opposite(q)) /\ Opposite(Opposite(q)) = q /\ Opposite(q) \in Side
      BY <3>1, <3>2, <1>1, ParentOf, Sides
    <3>5. Branch(t, L, sub, p, q) /\ Branch(t, L, sub, p, Opposite(q))
      BY <3>1, <3>4 DEF Shape
    <3>6. /\ d \in L \cup {RBNIL} /\ sub[p] = {p} \cup sub[x] \cup sub[d]
          /\ p \notin sub[x] /\ p \notin sub[d] /\ sub[x] \cap sub[d] = {} /\ (d # RBNIL => t.parent[d] = p)
      BY <3>3, <3>4, <3>5 DEF Branch
    <3>7. d # x /\ d # y
      BY <3>6, <1>2, <1>4, <1>6, BelowNode
    <3>8. d # RBNIL => u.parent[d] = p
      <4>1. d # RBNIL => d # b
        BY <1>2, <3>6
      <4> QED  BY <3>6, <3>7, <4>1, <1>5
    <3>9. v[p] = sub[p] /\ v[d] = sub[d] /\ v[y] = sub[x]
      BY <3>1, <3>6, <3>7, <1>2, <1>3
    <3>10. u.child[p][q] = y /\ u.child[p][Opposite(q)] = d
      BY <3>1, <3>2, <3>3, <1>5
    <3> QED  BY <2>5, <3>4, <3>6, <3>8, <3>9, <3>10, <1>2, <1>5 DEF Branch
  <2>6. CASE n \notin {x, y, p}
    <3>1. PICK d, e : d = t.child[n][r] /\ e = t.child[n][Opposite(r)]
      OBVIOUS
    <3>2. Branch(t, L, sub, n, r) /\ Branch(t, L, sub, n, Opposite(r)) /\ Opposite(Opposite(r)) = r
      BY <2>2, Sides DEF Shape
    <3>3. /\ {d, e} \subseteq L \cup {RBNIL} /\ sub[n] = {n} \cup sub[d] \cup sub[e]
          /\ n \notin sub[d] /\ sub[d] \cap sub[e] = {} /\ (d # RBNIL => t.parent[d] = n)
          /\ (e # RBNIL => t.parent[e] = n)
      BY <3>1, <3>2 DEF Branch
    <3>4. d \notin {x, y} /\ e \notin {x, y}
      <4>1. x # RBNIL /\ y # RBNIL /\ t.parent[x] = p /\ t.parent[y] = x
        BY <1>1, <1>2, <1>4
      <4> QED  BY ONLY <4>1, <2>6, <3>3
    <3>5. d # RBNIL => u.parent[d] = n
      <4>1. d # RBNIL => d # b
        BY <1>2, <2>6, <3>3
      <4> QED  BY <3>3, <3>4, <4>1, <1>5
    <3>6. v[n] = sub[n] /\ v[d] = sub[d] /\ v[e] = sub[e]
      BY <2>6, <3>3, <3>4, <1>3
    <3>7. u.child[n][r] = d /\ u.child[n][Opposite(r)] = e
      BY <2>2, <2>6, <3>1, <1>5
    <3> QED  BY <3>3, <3>5, <3>6, <3>7 DEF Branch
  <2> QED  BY <2>3, <2>4, <2>5, <2>6
<1> QED  BY <1>4, <1>7, <1>8, <1>9 DEF Shape
-----------------------------------------------------------------------------
(***************************************************************************)
(* The tree with its keys and the sentinel.                                *)
(***************************************************************************)

Before(s, i, j) == IF s = "left" THEN i < j ELSE j < i

(* On each side of a node are the keys that belong there.                  *)
Sorted(t, L, sub) ==
  \A n \in L : /\ t.data[n] \in Key
               /\ \A s \in Side : \A m \in sub[t.child[n][s]] : Before(s, t.data[m], t.data[n])

Sentinel(t) == t.color[RBNIL] = RBBLACK /\ \A s \in Side : t.child[RBNIL][s] = RBNIL

Tree(t, D, L, sub) ==
  /\ Memory(t, D) /\ L \cup {RBNIL} \subseteq D
  /\ Shape(t, L, sub) /\ Sorted(t, L, sub) /\ Sentinel(t)

LEMMA BeforeOpposite ==
  \A s \in Side : \A i, j \in Key : Before(Opposite(s), i, j) <=> Before(s, j, i)
BY RbTreeAssumption DEF Side, Opposite, Before

LEMMA BeforeTransitive ==
  \A s \in Side : \A i, j, k \in Key : Before(s, i, j) /\ Before(s, j, k) => Before(s, i, k)
BY RbTreeAssumption DEF Side, Before

LEMMA RotateSorted ==
  ASSUME NEW t, NEW u, NEW D, NEW L, L \cup {RBNIL} \subseteq D, NEW sub, Shape(t, L, sub), Sorted(t, L, sub),
         NEW x \in L, NEW s \in Side, t.child[x][Opposite(s)] # RBNIL, Rotated(t, u, D, x, s),
         NEW v, v = TurnedSub(t, sub, x, s)
  PROVE  Sorted(u, L, v)
<1>1. PICK y, a, b, c, p : /\ y = t.child[x][Opposite(s)] /\ a = t.child[x][s] /\ b = t.child[y][s]
                           /\ c = t.child[y][Opposite(s)] /\ p = t.parent[x]
  OBVIOUS
<1>2. /\ y \in L /\ x # y /\ p # x /\ p # y
      /\ p # NULL => p \in L
      /\ {a, b, c} \subseteq L \cup {RBNIL}
      /\ sub[x] = {x, y} \cup sub[a] \cup sub[b] \cup sub[c]
      /\ sub[y] = {y} \cup sub[b] \cup sub[c]
      /\ x \notin sub[a] \cup sub[b] \cup sub[c] /\ y \notin sub[a] \cup sub[b] \cup sub[c]
      /\ t.parent[y] = x
  <2>1. RotationIn(t, L, sub, x, y, a, b, c, p)
    BY <1>1, RotationNodes
  <2> QED  BY <2>1 DEF RotationIn
<1>3. /\ v[x] = {x} \cup sub[a] \cup sub[b] /\ v[y] = sub[x]
      /\ \A n \in (L \cup {RBNIL}) \ {x, y} : v[n] = sub[n]
  <2>1. TurnedIn(L, sub, x, y, a, b, v)
    BY <1>1, TurnedSubIs
  <2> QED  BY <2>1 DEF TurnedIn
<1>4. /\ u.data = t.data
      /\ u.child[x][Opposite(s)] = b /\ u.child[x][s] = a
      /\ u.child[y][s] = x /\ u.child[y][Opposite(s)] = c
      /\ p # NULL => /\ u.child[p][SideOf(t, x)] = y
                     /\ u.child[p][Opposite(SideOf(t, x))] = t.child[p][Opposite(SideOf(t, x))]
      /\ \A n \in D \ {x, y, p}, r \in Side : u.child[n][r] = t.child[n][r]
  BY <1>1 DEF Rotated
<1>5. Opposite(s) \in Side /\ \A r \in Side : r = s \/ r = Opposite(s)
  BY Sides
<1>6. RBNIL \notin L /\ NULL \notin L /\ \A n \in L : sub[n] \subseteq L
  BY NotNodes DEF Shape
<1>7. /\ \A n \in L : t.data[n] \in Key
      /\ \A m \in sub[a] : Before(s, t.data[m], t.data[x])
      /\ \A m \in sub[y] : Before(Opposite(s), t.data[m], t.data[x])
      /\ \A m \in sub[b] : Before(s, t.data[m], t.data[y])
      /\ \A m \in sub[c] : Before(Opposite(s), t.data[m], t.data[y])
  BY <1>1, <1>2, <1>5 DEF Sorted
<1>8. v[a] = sub[a] /\ v[b] = sub[b] /\ v[c] = sub[c]
  <2>1. \A n \in {a, b, c} : n \in (L \cup {RBNIL}) \ {x, y}
    BY <1>2, <1>6, BelowNode
  <2> QED  BY <1>3, <2>1
<1>9. ASSUME NEW n \in L, NEW r \in Side, NEW m \in v[u.child[n][r]]
      PROVE  Before(r, t.data[m], t.data[n])
  <2>1. CASE n = x
    BY <2>1, <1>2, <1>4, <1>5, <1>7, <1>8
  <2>2. CASE n = y /\ r = s
    <3>1. m \in {x} \cup sub[a] \cup sub[b]
      BY <2>2, <1>3, <1>4
    <3>2. Before(s, t.data[x], t.data[y])
      BY <1>2, <1>7, BeforeOpposite
    <3>3. ASSUME m \in sub[a]  PROVE Before(s, t.data[m], t.data[y])
      <4>1. m \in L
        BY <3>3, <1>2, <1>6
      <4> QED  BY <3>2, <3>3, <4>1, <1>2, <1>7, BeforeTransitive
    <3> QED  BY <2>2, <3>1, <3>2, <3>3, <1>7
  <2>3. CASE n = y /\ r = Opposite(s)
    BY <2>3, <1>4, <1>7, <1>8
  <2>4. CASE n = p
    <3>1. p # NULL /\ p \in L /\ x # t.root
      <4>1. x = t.root => p = NULL
        BY <1>1, ParentOf
      <4> QED  BY <2>4, <4>1, <1>6
    <3>2. PICK q : q = SideOf(t, x)
      OBVIOUS
    <3>3. PICK d : d = t.child[p][Opposite(q)]
      OBVIOUS
    <3>4. q \in Side /\ t.child[p][q] = x /\ (r = q \/ r = Opposite(q)) /\ Opposite(q) \in Side
      BY <3>1, <3>2, <1>1, ParentOf, Sides
    <3>5. d \in L \cup {RBNIL} /\ d # x /\ d # y
      <4>1. Branch(t, L, sub, p, q) /\ Opposite(Opposite(q)) = q /\ Branch(t, L, sub, p, Opposite(q))
        BY <3>1, <3>4, Sides DEF Shape
      <4>2. d \in L \cup {RBNIL} /\ sub[x] \cap sub[d] = {} /\ (d # RBNIL => t.parent[d] = p)
        BY <3>3, <3>4, <4>1 DEF Branch
      <4> QED  BY <4>2, <1>2, <1>6, BelowNode
    <3>6. v[d] = sub[d] /\ v[y] = sub[x]
      BY <3>5, <1>3
    <3>7. \A i \in sub[x] : Before(q, t.data[i], t.data[p])
      BY <3>1, <3>4 DEF Sorted
    <3>8. \A i \in sub[d] : Before(Opposite(q), t.data[i], t.data[p])
      BY <3>1, <3>3, <3>4 DEF Sorted
    <3>9. u.child[p][q] = y /\ u.child[p][Opposite(q)] = d
      BY <3>1, <3>2, <3>3, <1>4
    <3> QED  BY <2>4, <3>4, <3>6, <3>7, <3>8, <3>9
  <2>5. CASE n \notin {x, y, p}
    <3>1. PICK d : d = t.child[n][r]
      OBVIOUS
    <3>2. Branch(t, L, sub, n, r)
      BY DEF Shape
    <3>3. d \in L \cup {RBNIL} /\ (d # RBNIL => t.parent[d] = n)
      BY <3>1, <3>2 DEF Branch
    <3>4. d \notin {x, y}
      BY <2>5, <3>3, <1>1, <1>2, <1>6
    <3>5. v[d] = sub[d] /\ u.child[n][r] = d
      BY <2>5, <3>1, <3>3, <3>4, <1>3, <1>4
    <3> QED  BY <3>1, <3>5 DEF Sorted
  <2> QED  BY <2>1, <2>2, <2>3, <2>4, <2>5, <1>5
<1> QED  BY <1>4, <1>7, <1>9 DEF Sorted

LEMMA RotateTree ==
  ASSUME NEW t, NEW D, NEW L, NEW sub, Tree(t, D, L, sub), NEW x \in L, NEW s \in Side,
         t.child[x][Opposite(s)] # RBNIL
  PROVE  /\ Tree(Rotate(t, x, s), D, L, TurnedSub(t, sub, x, s))
         /\ Rotated(t, Rotate(t, x, s), D, x, s)
<1>1. PICK u, v : u = Rotate(t, x, s) /\ v = TurnedSub(t, sub, x, s)
  OBVIOUS
<1>2. /\ Memory(t, D) /\ L \cup {RBNIL} \subseteq D
      /\ Shape(t, L, sub) /\ Sorted(t, L, sub) /\ Sentinel(t)
  BY DEF Tree
<1>3. Rotated(t, u, D, x, s) /\ Memory(u, D)
  BY <1>1, <1>2, RotateLinks
<1>4. Shape(u, L, v)
  BY <1>1, <1>2, <1>3, RotateShape
<1>5. Sorted(u, L, v)
  BY <1>1, <1>2, <1>3, RotateSorted
<1>6. Sentinel(u)
  <2>1. PICK y, a, b, c, p : /\ y = t.child[x][Opposite(s)] /\ a = t.child[x][s] /\ b = t.child[y][s]
                             /\ c = t.child[y][Opposite(s)] /\ p = t.parent[x]
    OBVIOUS
  <2>2. RotationIn(t, L, sub, x, y, a, b, c, p)
    BY <1>2, <2>1, RotationNodes
  <2>3. RBNIL \in D \ {x, y, p}
    BY <1>2, <2>1, <2>2 DEF RotationIn
  <2>4. u.color = t.color /\ \A r \in Side : u.child[RBNIL][r] = t.child[RBNIL][r]
    BY <1>3, <2>1, <2>3 DEF Rotated
  <2> QED  BY <1>2, <2>4 DEF Sentinel
<1> QED  BY <1>1, <1>2, <1>3, <1>4, <1>5, <1>6 DEF Tree

(* Painting changes nothing but the color of these nodes.                  *)
Painted(t, u, D, ns, c) ==
  /\ u.root = t.root /\ u.child = t.child /\ u.parent = t.parent /\ u.data = t.data
  /\ \A n \in D : u.color[n] = IF n \in ns THEN c ELSE t.color[n]

LEMMA PaintTree ==
  ASSUME NEW t, NEW D, NEW L, NEW sub, Tree(t, D, L, sub), NEW ns,
         NEW c \in {RBBLACK, RBRED}, RBNIL \notin ns \/ c = RBBLACK
  PROVE  Tree(Paint(t, ns, c), D, L, sub) /\ Painted(t, Paint(t, ns, c), D, ns, c)
<1>1. PICK u : u = Paint(t, ns, c)
  OBVIOUS
<1>2. /\ DOMAIN t = {"root", "color", "child", "parent", "data"}
      /\ t.color \in [D -> {RBBLACK, RBRED}] /\ RBNIL \in D
  BY DEF Tree, Memory
<1>3. /\ DOMAIN u = {"root", "color", "child", "parent", "data"}
      /\ u.root = t.root /\ u.child = t.child /\ u.parent = t.parent /\ u.data = t.data
      /\ u.color = [n \in D |-> IF n \in ns THEN c ELSE t.color[n]]
  BY ONLY <1>1, <1>2 DEF Paint
<1>4. u.color \in [D -> {RBBLACK, RBRED}]
  BY ONLY <1>2, <1>3, c \in {RBBLACK, RBRED}
<1>5. Painted(t, u, D, ns, c)
  BY <1>3 DEF Painted
<1>6. Memory(u, D)
  BY <1>3, <1>4 DEF Memory, Tree
<1>7. Sentinel(u)
  BY <1>2, <1>3 DEF Sentinel, Tree
<1>8. Shape(u, L, sub)
  BY <1>3 DEF Shape, Branch, Tree
<1>9. Sorted(u, L, sub)
  BY <1>3 DEF Sorted, Tree
<1> QED  BY <1>1, <1>5, <1>6, <1>7, <1>8, <1>9 DEF Tree

-----------------------------------------------------------------------------
(***************************************************************************)
(* Colors and black heights.  h[n] is the number of black nodes on every   *)
(* way down from n.  A link in ex counts one black node more.              *)
(***************************************************************************)

Weight(t, n) == IF t.color[n] = RBBLACK THEN 1 ELSE 0
Extra(ex, n, r) == IF <<n, r>> \in ex THEN 1 ELSE 0
Level(t, h, ex, n) == \A r \in Side : h[n] = h[t.child[n][r]] + Extra(ex, n, r) + Weight(t, n)
Heights(L) == [L \cup {RBNIL} -> Nat \ {0}]
Levels(t, L, h, ex) == h \in Heights(L) /\ h[RBNIL] = 1 /\ \A n \in L : Level(t, h, ex, n)

(* Two red nodes meet, or the root is red, only at these nodes.            *)
RedPair(t, n, r) == t.color[n] = RBRED /\ t.color[t.child[n][r]] = RBRED
RedsOnly(t, L, above, at) ==
  /\ \A n \in L, r \in Side : RedPair(t, n, r) => n \in above \/ t.child[n][r] \in at
  /\ t.color[t.root] = RBRED => t.root \in at

(* All links after a rotation.                                             *)
LinksAfter(t, u, L, s, x, y, a, b, c, p) ==
  \A n \in L, r \in Side :
    \/ n = x /\ r = s /\ u.child[n][r] = a
    \/ n = x /\ r = Opposite(s) /\ u.child[n][r] = b
    \/ n = y /\ r = s /\ u.child[n][r] = x
    \/ n = y /\ r = Opposite(s) /\ u.child[n][r] = c
    \/ n = p /\ n \notin {x, y} /\ t.child[n][r] = x /\ u.child[n][r] = y
    \/ n \notin {x, y} /\ u.child[n][r] = t.child[n][r] /\ t.child[n][r] \notin {x, y}

LEMMA RotateAllLinks ==
  ASSUME NEW t, NEW u, NEW D, NEW L, NEW sub, Tree(t, D, L, sub),
         NEW x \in L, NEW s \in Side, Rotated(t, u, D, x, s),
         NEW y, y = t.child[x][Opposite(s)], y # RBNIL,
         NEW a, a = t.child[x][s], NEW b, b = t.child[y][s], NEW c, c = t.child[y][Opposite(s)],
         NEW p, p = t.parent[x]
  PROVE  LinksAfter(t, u, L, s, x, y, a, b, c, p)
<1>1. /\ y \in L /\ x # y /\ p # x /\ p # y
      /\ t.parent[y] = x
  <2>1. RotationIn(t, L, sub, x, y, a, b, c, p)
    BY RotationNodes DEF Tree
  <2> QED  BY <2>1 DEF RotationIn
<1>2. /\ u.child[x][Opposite(s)] = b /\ u.child[x][s] = a
      /\ u.child[y][s] = x /\ u.child[y][Opposite(s)] = c
      /\ p # NULL => /\ u.child[p][SideOf(t, x)] = y
                     /\ u.child[p][Opposite(SideOf(t, x))] = t.child[p][Opposite(SideOf(t, x))]
      /\ \A n \in D \ {x, y, p}, r \in Side : u.child[n][r] = t.child[n][r]
  BY DEF Rotated
<1>3. RBNIL \notin L /\ NULL \notin L /\ L \subseteq D
  BY NotNodes DEF Shape, Tree
<1> SUFFICES ASSUME NEW n \in L, NEW r \in Side
             PROVE  \/ n = x /\ r = s /\ u.child[n][r] = a
                    \/ n = x /\ r = Opposite(s) /\ u.child[n][r] = b
                    \/ n = y /\ r = s /\ u.child[n][r] = x
                    \/ n = y /\ r = Opposite(s) /\ u.child[n][r] = c
                    \/ n = p /\ n \notin {x, y} /\ t.child[n][r] = x /\ u.child[n][r] = y
                    \/ n \notin {x, y} /\ u.child[n][r] = t.child[n][r] /\ t.child[n][r] \notin {x, y}
  BY DEF LinksAfter
<1>4. r = s \/ r = Opposite(s)
  BY Sides
<1>5. CASE n = x
  BY <1>2, <1>4, <1>5
<1>6. CASE n = y
  BY <1>2, <1>4, <1>6
<1>7. CASE n = p
  <2>1. p # NULL /\ p \in L
    BY <1>3, <1>7
  <2>2. x # t.root
    BY <2>1, ParentOf DEF Tree
  <2>3. PICK q : q = SideOf(t, x)
    OBVIOUS
  <2>4. PICK d : d = t.child[p][Opposite(q)]
    OBVIOUS
  <2>5. q \in Side /\ t.child[p][q] = x /\ (r = q \/ r = Opposite(q)) /\ Opposite(q) \in Side
    BY <2>1, <2>2, <2>3, ParentOf, Sides DEF Tree
  <2>6. d # x /\ d # y
    <3>1. d # x
      BY <2>2, <2>3, <2>4, ParentOf DEF Tree
    <3>2. d # RBNIL => t.parent[d] = p
      BY <2>1, <2>4, <2>5, BelowChild DEF Tree
    <3> QED  BY <3>1, <3>2, <1>1, <1>3
  <2> QED  BY <1>1, <1>2, <1>7, <2>1, <2>3, <2>4, <2>5, <2>6
<1>8. CASE n \notin {x, y, p}
  <2>1. PICK d : d = t.child[n][r]
    OBVIOUS
  <2>2. d # RBNIL => t.parent[d] = n
    BY <2>1, BelowChild DEF Tree
  <2>3. d \notin {x, y}
    BY <2>2, <1>1, <1>3, <1>8
  <2> QED  BY <1>2, <1>3, <1>8, <2>1, <2>3
<1> QED  BY <1>5, <1>6, <1>7, <1>8

(* The heights g, and the counts ez, fit the tree after a rotation if h    *)
(* and ex fit it before, but at the nodes that are rotated.                *)
Refitted(t, L, s, x, y, a, b, c, h, ex, g, ez) ==
  /\ \A n \in L \ {x, y} : Level(t, h, ex, n)
  /\ \A n \in (L \cup {RBNIL}) \ {x, y} : g[n] = h[n]
  /\ \A n \in L \ {x, y}, r \in Side : Extra(ez, n, r) = Extra(ex, n, r)
  /\ g[y] = h[x]
  /\ g[x] = g[a] + Extra(ez, x, s) + Weight(t, x)
  /\ g[x] = g[b] + Extra(ez, x, Opposite(s)) + Weight(t, x)
  /\ g[y] = g[x] + Extra(ez, y, s) + Weight(t, y)
  /\ g[y] = g[c] + Extra(ez, y, Opposite(s)) + Weight(t, y)

LEMMA RotateLevels ==
  ASSUME NEW t, NEW u, NEW L, NEW s \in Side, NEW x, NEW y, NEW a, NEW b, NEW c, NEW p,
         LinksAfter(t, u, L, s, x, y, a, b, c, p), u.color = t.color,
         \A n \in L, r \in Side : t.child[n][r] \in L \cup {RBNIL},
         NEW h, NEW ex, NEW g, NEW ez, Refitted(t, L, s, x, y, a, b, c, h, ex, g, ez)
  PROVE  \A n \in L : Level(u, g, ez, n)
<1> SUFFICES ASSUME NEW n \in L, NEW r \in Side
             PROVE  g[n] = g[u.child[n][r]] + Extra(ez, n, r) + Weight(u, n)
  BY DEF Level
<1>1. Weight(u, n) = Weight(t, n)
  BY DEF Weight
<1>2. \/ n = x /\ r = s /\ u.child[n][r] = a
      \/ n = x /\ r = Opposite(s) /\ u.child[n][r] = b
      \/ n = y /\ r = s /\ u.child[n][r] = x
      \/ n = y /\ r = Opposite(s) /\ u.child[n][r] = c
      \/ n = p /\ n \notin {x, y} /\ t.child[n][r] = x /\ u.child[n][r] = y
      \/ n \notin {x, y} /\ u.child[n][r] = t.child[n][r] /\ t.child[n][r] \notin {x, y}
  BY DEF LinksAfter
<1>3. CASE n \in {x, y}
  BY <1>1, <1>2, <1>3 DEF Refitted
<1>4. CASE n \notin {x, y}
  <2>1. h[n] = h[t.child[n][r]] + Extra(ex, n, r) + Weight(t, n)
    BY <1>4 DEF Level, Refitted
  <2>2. g[n] = h[n] /\ Extra(ez, n, r) = Extra(ex, n, r)
    BY <1>4 DEF Refitted
  <2>3. g[u.child[n][r]] = h[t.child[n][r]]
    BY <1>2, <1>4 DEF Refitted
  <2> QED  BY <1>1, <2>1, <2>2, <2>3
<1> QED  BY <1>3, <1>4

==============================================================================
