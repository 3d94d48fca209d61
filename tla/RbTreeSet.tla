------------------------------ MODULE RbTreeSet ------------------------------
(* Theorems about what clients of RbTree see: pointers to entries, the tree *)
(* as a sorted set, and the order of the walks.                             *)
EXTENDS RbTreeProofs, SequenceTheorems

-----------------------------------------------------------------------------
(***************************************************************************)
(* The order of the keys.                                                  *)
(***************************************************************************)

(* Where the ways from the root to two nodes part.                         *)
PartAt(t, sub, m, p, a, r) ==
  \/ p = a /\ m \in sub[t.child[a][r]]
  \/ m = a /\ p \in sub[t.child[a][r]]
  \/ m \in sub[t.child[a][r]] /\ p \in sub[t.child[a][Opposite(r)]]

Part(t, L, sub, m, p) == \E a \in L, r \in Side : PartAt(t, sub, m, p, a, r)

LEMMA WaysPart ==
  ASSUME NEW t, NEW L, NEW sub, Shape(t, L, sub), NEW m \in L, NEW p \in L, m # p
  PROVE  Part(t, L, sub, m, p)
<1> DEFINE good == {a \in L : m \in sub[a] /\ p \in sub[a] => Part(t, L, sub, m, p)}
<1>1. ASSUME NEW a \in L, \A s \in Side : t.child[a][s] \in L => t.child[a][s] \in good
      PROVE  a \in good
  <2> SUFFICES ASSUME m \in sub[a], p \in sub[a]  PROVE Part(t, L, sub, m, p)
    OBVIOUS
  <2>1. PICK r, o : r = "left" /\ o = Opposite(r) /\ r \in Side /\ o \in Side /\ Opposite(o) = r
    BY DEF Side, Opposite
  <2>2. Branch(t, L, sub, a, r) /\ Branch(t, L, sub, a, o)
    BY <2>1 DEF Shape
  <2>3. PICK c, d : c = t.child[a][r] /\ d = t.child[a][o]
    OBVIOUS
  <2>4. sub[a] = {a} \cup sub[c] \cup sub[d] /\ c \in L \cup {RBNIL} /\ d \in L \cup {RBNIL}
    BY <2>1, <2>2, <2>3 DEF Branch
  <2>5. sub[RBNIL] = {}
    BY DEF Shape
  <2>6. CASE m \in sub[c] /\ p \in sub[c]
    BY <2>1, <2>3, <2>4, <2>5, <2>6, <1>1
  <2>7. CASE m \in sub[d] /\ p \in sub[d]
    BY <2>1, <2>3, <2>4, <2>5, <2>7, <1>1
  <2>8. CASE (m \in sub[c] /\ p \in sub[d]) \/ (p = a /\ m \in sub[c]) \/ (m = a /\ p \in sub[c])
    <3>1. PartAt(t, sub, m, p, a, r)
      BY <2>1, <2>3, <2>8 DEF PartAt
    <3> QED  BY <3>1, <2>1 DEF Part
  <2>9. CASE (m \in sub[d] /\ p \in sub[c]) \/ (p = a /\ m \in sub[d]) \/ (m = a /\ p \in sub[d])
    <3>1. PartAt(t, sub, m, p, a, o)
      BY <2>1, <2>3, <2>9 DEF PartAt
    <3> QED  BY <3>1, <2>1 DEF Part
  <2> QED  BY <2>4, <2>6, <2>7, <2>8, <2>9
<1>2. L \subseteq good
  <2> HIDE DEF good
  <2> QED  BY <1>1, TreeInduction
<1>3. t.root \in L /\ sub[t.root] = L
  <2>1. sub[t.root] = L /\ t.root \in L \cup {RBNIL} /\ sub[RBNIL] = {}
    BY DEF Shape
  <2> QED  BY <2>1
<1> QED  BY <1>2, <1>3

(* What a node's place says of its key.                                    *)
LEMMA OnItsSide ==
  ASSUME NEW t, NEW D, NEW L, NEW sub, Tree(t, D, L, sub)
  PROVE  /\ \A n \in L : t.data[n] \in Key /\ t.data[n] \in Int
         /\ \A a \in L, r \in Side : \A m \in sub[t.child[a][r]] :
              /\ m \in L /\ Before(r, t.data[m], t.data[a])
              /\ sub[m] \subseteq sub[t.child[a][r]]
<1>1. Shape(t, L, sub) /\ Sorted(t, L, sub)
  BY DEF Tree
<1>2. \A n \in L : t.data[n] \in Key /\ t.data[n] \in Int
  BY <1>1, RbTreeAssumption DEF Sorted
<1>3. ASSUME NEW a \in L, NEW r \in Side, NEW m \in sub[t.child[a][r]]
      PROVE  m \in L /\ Before(r, t.data[m], t.data[a]) /\ sub[m] \subseteq sub[t.child[a][r]]
  <2>1. PICK c : c = t.child[a][r]
    OBVIOUS
  <2>2. c \in L \cup {RBNIL} /\ sub[RBNIL] = {}
    BY <2>1, Colors, <1>1 DEF Shape
  <2>3. c \in L /\ m \in sub[c]
    BY <2>1, <2>2
  <2>4. m \in L /\ sub[m] \subseteq sub[c]
    BY <1>1, <2>3, BelowBelow
  <2> QED  BY <2>1, <2>4, <1>1 DEF Sorted
<1> QED  BY <1>2, <1>3

LEMMA KeysDiffer ==
  ASSUME NEW t, NEW D, NEW L, NEW sub, Tree(t, D, L, sub), NEW m \in L, NEW p \in L, m # p
  PROVE  t.data[m] # t.data[p]
<1>1. PICK a \in L, r \in Side : PartAt(t, sub, m, p, a, r)
  BY WaysPart DEF Tree, Part
<1>2. PICK o \in Side : o = Opposite(r) /\ o # r
  BY Sides
<1>3. \A i \in sub[t.child[a][r]] : Before(r, t.data[i], t.data[a])
  BY OnItsSide
<1>4. \A i \in sub[t.child[a][o]] : Before(o, t.data[i], t.data[a])
  BY OnItsSide
<1>5. t.data[m] \in Int /\ t.data[p] \in Int /\ t.data[a] \in Int
  BY OnItsSide
<1>6. (r = "left" /\ o = "right") \/ (r = "right" /\ o = "left")
  BY <1>2 DEF Opposite, Side
<1> QED  BY ONLY <1>1, <1>2, <1>3, <1>4, <1>5, <1>6 DEF PartAt, Before

(* A node that is not below another is before or after all that are.       *)
LEMMA Outside ==
  ASSUME NEW t, NEW D, NEW L, NEW sub, Tree(t, D, L, sub), NEW n \in L, NEW i \in L \ sub[n],
         NEW m \in sub[n], NEW s \in Side
  PROVE  Before(s, t.data[i], t.data[n]) <=> Before(s, t.data[i], t.data[m])
<1>1. Shape(t, L, sub) /\ n \in sub[n]
  BY BelowNode DEF Tree
<1>2. PICK a \in L, r \in Side : PartAt(t, sub, i, n, a, r)
  BY <1>1, WaysPart DEF Part
<1>3. PICK o \in Side : o = Opposite(r) /\ o # r
  BY Sides
<1>4. PICK c, d : c = t.child[a][r] /\ d = t.child[a][o]
  OBVIOUS
<1>5. \A j \in sub[c] : Before(r, t.data[j], t.data[a]) /\ sub[j] \subseteq sub[c]
  BY <1>4, OnItsSide
<1>6. \A j \in sub[d] : Before(o, t.data[j], t.data[a]) /\ sub[j] \subseteq sub[d]
  BY <1>4, OnItsSide
<1>7. m \in L
  BY <1>1, BelowNode
<1>8. t.data[m] \in Int /\ t.data[n] \in Int /\ t.data[a] \in Int /\ t.data[i] \in Int
  BY <1>7, OnItsSide
<1>9. (r = "left" /\ o = "right") \/ (r = "right" /\ o = "left")
  BY <1>3 DEF Opposite, Side
<1>10. s = "left" \/ s = "right"
  BY DEF Side
<1>11. \/ n = a /\ i \in sub[c]
       \/ i = a /\ n \in sub[c]
       \/ i \in sub[c] /\ n \in sub[d]
  BY <1>2, <1>3, <1>4 DEF PartAt
<1>12. CASE n = a /\ i \in sub[c]
  <2>1. sub[c] \subseteq sub[a]
    BY <1>1, <1>4, BelowChild
  <2> QED  BY <2>1, <1>12
<1>13. CASE i = a /\ n \in sub[c]
  <2>1. Before(r, t.data[n], t.data[i]) /\ Before(r, t.data[m], t.data[i])
    BY <1>13, <1>5
  <2> QED  BY ONLY <2>1, <1>8, <1>9, <1>10 DEF Before
<1>14. CASE i \in sub[c] /\ n \in sub[d]
  <2>1. Before(r, t.data[i], t.data[a]) /\ Before(o, t.data[n], t.data[a]) /\ Before(o, t.data[m], t.data[a])
    BY <1>14, <1>5, <1>6
  <2> QED  BY ONLY <2>1, <1>8, <1>9, <1>10 DEF Before
<1> QED  BY <1>11, <1>12, <1>13, <1>14

(* rb_find finds what is there and nothing else.                           *)
LEMMA FindIs ==
  ASSUME NEW t, NEW D, NEW L, NEW sub, Tree(t, D, L, sub), NEW k \in Key
  PROVE  Find(t, k) # NULL <=> \E n \in L : t.data[n] = k
<1>1. /\ Shape(t, L, sub) /\ RBNIL \notin L /\ NULL \notin L
      /\ t.root \in L \cup {RBNIL} /\ sub[t.root] = L /\ sub[RBNIL] = {}
  BY NotNodes DEF Tree, Shape
<1>2. CASE t.root = RBNIL
  BY <1>1, <1>2 DEF Find
<1>3. CASE t.root # RBNIL
  <2>1. PICK p : p = Place(t, k)
    OBVIOUS
  <2>2. PlaceFor(t, L, sub, k, p)
    BY <1>3, <2>1, PlaceIs
  <2>3. p \in L
    BY <2>2 DEF PlaceFor
  <2>4. Find(t, k) = IF t.data[p] = k THEN p ELSE NULL
    BY <1>3, <2>1 DEF Find
  <2>5. ASSUME NEW m \in L, t.data[m] = k  PROVE t.data[p] = k
    <3> SUFFICES ASSUME t.data[p] # k  PROVE FALSE
      OBVIOUS
    <3>1. PICK a \in L, r \in Side : PartAt(t, sub, m, p, a, r)
      BY <1>1, <2>3, <2>5, WaysPart DEF Part
    <3>2. PICK o \in Side : o = Opposite(r) /\ o # r
      BY Sides
    <3>3. /\ \A j \in sub[t.child[a][r]] : Before(r, t.data[j], t.data[a])
          /\ \A j \in sub[t.child[a][o]] : Before(o, t.data[j], t.data[a])
      BY OnItsSide
    <3>4. k \in Int /\ t.data[a] \in Int
      BY OnItsSide, RbTreeAssumption
    <3>5. (r = "left" /\ o = "right") \/ (r = "right" /\ o = "left")
      BY <3>2 DEF Opposite, Side
    <3>6. m \in sub[t.child[a][r]] => Toward(t, a, k) = r
      BY ONLY <2>5, <3>3, <3>4, <3>5 DEF Toward, Before
    <3>7. /\ p \in sub[t.child[a][r]] => t.data[a] # k
          /\ p \in sub[t.child[a][o]] => o = Toward(t, a, k)
      BY <2>2 DEF PlaceFor
    <3>8. p = a => sub[t.child[a][Toward(t, a, k)]] = {}
      BY <2>2, <1>1 DEF PlaceFor
    <3> QED  BY <3>1, <3>2, <3>6, <3>7, <3>8, <2>5 DEF PartAt
  <2> QED  BY <2>3, <2>4, <2>5, <1>1
<1> QED  BY <1>2, <1>3

(* What a walk in the order of s is to give after last.                    *)
Ahead(t, L, last, s) == {i \in L : last = NULL \/ Before(s, t.data[last], t.data[i])}
FirstOf(t, S, s, z) ==
  IF S = {} THEN z = NULL
  ELSE z \in S /\ \A i \in S \ {z} : Before(s, t.data[z], t.data[i])

(* The nodes in whose subtree last comes at the end.                       *)
LastBelow(t, L, sub, last, s) ==
  {m \in L : last \in sub[m] /\ \A i \in sub[m] \ {last} : Before(s, t.data[i], t.data[last])}

LEMMA DownIsNext ==
  ASSUME NEW t, NEW D, NEW L, NEW sub, Tree(t, D, L, sub), NEW s \in Side, NEW last \in L,
         NEW c, c = t.child[last][Opposite(s)], c # RBNIL, NEW z, z = Extreme(t, c, s)
  PROVE  FirstOf(t, Ahead(t, L, last, s), s, z)
<1>1. Shape(t, L, sub) /\ last \in sub[last] /\ last \notin sub[c] /\ sub[c] \subseteq L
  BY BelowNode, BelowChild, Sides DEF Tree
<1>2. PICK o \in Side : o = Opposite(s) /\ Opposite(o) = s
  BY Sides
<1>3. c \in L
  BY <1>2, Colors
<1>4. ExtremeIn(t, L, sub, c, s, z)
  BY <1>3, ExtremeIs
<1>5. z \in sub[c] /\ z \in L /\ \A e \in sub[c] \ {z} : Before(s, t.data[z], t.data[e])
  BY <1>4 DEF ExtremeIn
<1>6. \A n \in L : t.data[n] \in Key
  BY OnItsSide
<1>7. \A m \in sub[c] : Before(s, t.data[last], t.data[m])
  <2> SUFFICES ASSUME NEW m \in sub[c]  PROVE Before(s, t.data[last], t.data[m])
    OBVIOUS
  <2>1. Before(o, t.data[m], t.data[last])
    BY <1>2, OnItsSide
  <2> QED  BY ONLY <2>1, <1>1, <1>2, <1>6, BeforeOpposite
<1>8. z \in Ahead(t, L, last, s)
  BY <1>5, <1>7 DEF Ahead
<1>9. ASSUME NEW i \in Ahead(t, L, last, s), i # z
      PROVE  Before(s, t.data[z], t.data[i])
  <2>1. i \in L /\ Before(s, t.data[last], t.data[i])
    BY <1>9, NotNodes, <1>1 DEF Ahead, Shape
  <2>2. CASE i \in sub[c]
    BY <2>2, <1>5, <1>9
  <2>3. CASE i \in sub[last] /\ i \notin sub[c]
    <3>1. Branch(t, L, sub, last, s)
      BY <1>1 DEF Shape
    <3>2. sub[last] = {last} \cup sub[t.child[last][s]] \cup sub[c]
      BY <3>1 DEF Branch
    <3>3. i = last \/ Before(s, t.data[i], t.data[last])
      BY <3>2, <2>3, OnItsSide
    <3>4. s = "left" \/ s = "right"
      BY DEF Side
    <3>5. t.data[i] \in Int /\ t.data[last] \in Int
      BY <2>1, OnItsSide
    <3> QED  BY ONLY <2>1, <3>3, <3>4, <3>5 DEF Before
  <2>4. CASE i \notin sub[last]
    <3>1. z \in sub[last]
      BY <1>1, <1>2, <1>5, BelowChild
    <3>2. Before(o, t.data[i], t.data[last]) <=> Before(o, t.data[i], t.data[z])
      BY <2>1, <2>4, <3>1, <1>2, Outside
    <3>3. t.data[i] \in Key /\ t.data[last] \in Key /\ t.data[z] \in Key
      BY <2>1, <1>5, <1>6
    <3>4. \A j, k \in Key : Before(o, j, k) <=> Before(s, k, j)
      BY <1>2, BeforeOpposite
    <3> QED  BY ONLY <2>1, <3>2, <3>3, <3>4
  <2> QED  BY <2>2, <2>3, <2>4
<1> QED  BY <1>8, <1>9 DEF FirstOf

(* The end of the way up.                                                  *)
LEMMA UpIsNext ==
  ASSUME NEW t, NEW D, NEW L, NEW sub, Tree(t, D, L, sub), NEW s \in Side, NEW last \in L,
         NEW m \in LastBelow(t, L, sub, last, s), NEW z, z = t.parent[m],
         z = NULL \/ t.child[z][s] = m
  PROVE  FirstOf(t, Ahead(t, L, last, s), s, z)
<1>1. /\ Shape(t, L, sub) /\ NULL \notin L /\ m \in L
      /\ last \in sub[m] /\ \A i \in sub[m] \ {last} : Before(s, t.data[i], t.data[last])
  BY NotNodes DEF Tree, Shape, LastBelow
<1>2. s = "left" \/ s = "right"
  BY DEF Side
<1>3. \A i \in sub[m] : i \notin Ahead(t, L, last, s)
  <2> SUFFICES ASSUME NEW i \in sub[m], i \in Ahead(t, L, last, s)  PROVE FALSE
    OBVIOUS
  <2>1. i \in L /\ Before(s, t.data[last], t.data[i])
    BY <1>1 DEF Ahead
  <2>2. i = last \/ Before(s, t.data[i], t.data[last])
    BY <1>1
  <2>3. t.data[i] \in Int /\ t.data[last] \in Int
    BY <2>1, OnItsSide
  <2> QED  BY ONLY <2>1, <2>2, <2>3, <1>2 DEF Before
<1>4. CASE z = NULL
  <2>1. m = t.root
    <3>1. m # t.root => t.parent[m] # NULL
      BY <1>1, ParentOf
    <3> QED  BY ONLY <3>1, <1>4, z = t.parent[m]
  <2>2. sub[m] = L
    BY <1>1, <2>1 DEF Shape
  <2>3. Ahead(t, L, last, s) = {}
    BY <2>2, <1>3 DEF Ahead
  <2> QED  BY <2>3, <1>4 DEF FirstOf
<1>5. CASE z # NULL
  <2>1. z \in L /\ t.child[z][s] = m
    BY <1>1, <1>5, ParentOf
  <2>2. last \in sub[z] /\ z \in sub[z]
    BY <2>1, <1>1, BelowNode, BelowChild
  <2>3. Before(s, t.data[last], t.data[z])
    BY <2>1, <1>1, OnItsSide
  <2>4. z \in Ahead(t, L, last, s)
    BY <2>1, <2>3 DEF Ahead
  <2>5. ASSUME NEW i \in Ahead(t, L, last, s), i # z
        PROVE  Before(s, t.data[z], t.data[i])
    <3>1. i \in L /\ Before(s, t.data[last], t.data[i]) /\ i \notin sub[m]
      BY <2>5, <1>1, <1>3 DEF Ahead
    <3>2. PICK o \in Side : o = Opposite(s)
      BY Sides
    <3>3. \A j, k \in Key : Before(o, j, k) <=> Before(s, k, j)
      BY <3>2, BeforeOpposite
    <3>4. t.data[i] \in Key /\ t.data[last] \in Key /\ t.data[z] \in Key
      BY <3>1, <2>1, OnItsSide
    <3>5. CASE i \in sub[z]
      <4>1. Branch(t, L, sub, z, s)
        BY <2>1, <1>1 DEF Shape
      <4>2. i \in sub[t.child[z][o]]
        BY <4>1, <2>1, <2>5, <3>1, <3>2, <3>5 DEF Branch
      <4>3. Before(o, t.data[i], t.data[z])
        BY <4>2, <2>1, OnItsSide
      <4> QED  BY ONLY <4>3, <3>3, <3>4
    <3>6. CASE i \notin sub[z]
      <4>1. Before(o, t.data[i], t.data[z]) <=> Before(o, t.data[i], t.data[last])
        BY <3>1, <3>6, <2>1, <2>2, Outside
      <4> QED  BY ONLY <4>1, <3>1, <3>3, <3>4
    <3> QED  BY <3>5, <3>6
  <2> QED  BY <2>4, <2>5 DEF FirstOf
<1> QED  BY <1>4, <1>5

(* One step of the way up.                                                 *)
LEMMA UpKeepsLast ==
  ASSUME NEW t, NEW D, NEW L, NEW sub, Tree(t, D, L, sub), NEW s \in Side, NEW last \in L,
         NEW m \in LastBelow(t, L, sub, last, s), NEW p, p = t.parent[m], p # NULL, t.child[p][s] # m
  PROVE  p \in LastBelow(t, L, sub, last, s)
<1>1. /\ Shape(t, L, sub) /\ NULL \notin L /\ m \in L
      /\ last \in sub[m] /\ \A i \in sub[m] \ {last} : Before(s, t.data[i], t.data[last])
  BY NotNodes DEF Tree, Shape, LastBelow
<1>2. PICK o \in Side : o = Opposite(s) /\ Side = {s, o}
  BY Sides
<1>3. p \in L /\ t.child[p][o] = m
  BY <1>1, <1>2, ParentOf
<1>4. Branch(t, L, sub, p, s)
  BY <1>1, <1>3 DEF Shape
<1>5. sub[p] = {p} \cup sub[t.child[p][s]] \cup sub[m]
  BY <1>2, <1>3, <1>4 DEF Branch
<1>6. Before(o, t.data[last], t.data[p])
  BY <1>1, <1>3, OnItsSide
<1>7. \A n \in L : t.data[n] \in Key
  BY OnItsSide
<1>8. Before(s, t.data[p], t.data[last])
  BY ONLY <1>2, <1>3, <1>6, <1>7, last \in L, s \in Side, BeforeOpposite
<1>9. ASSUME NEW i \in sub[t.child[p][s]]
      PROVE  Before(s, t.data[i], t.data[last])
  <2>1. i \in L /\ Before(s, t.data[i], t.data[p])
    BY <1>3, OnItsSide
  <2> QED  BY ONLY <2>1, <1>3, <1>7, <1>8, last \in L, s \in Side, BeforeTransitive
<1>10. last \in sub[p] /\ \A i \in sub[p] \ {last} : Before(s, t.data[i], t.data[last])
  BY <1>1, <1>5, <1>8, <1>9
<1> QED  BY <1>3, <1>10 DEF LastBelow

(* The walks in key order give the next key.                               *)
LEMMA NextInOrderIs ==
  ASSUME NEW t, NEW D, NEW L, NEW sub, Tree(t, D, L, sub), NEW last \in L \cup {NULL}, NEW s \in Side,
         last = NULL => L # {}
  PROVE  FirstOf(t, Ahead(t, L, last, s), s, NextInOrder(t, last, s))
<1> DEFINE A == Allocated(t)
           stop == {m \in A : t.parent[m] = NULL \/ t.child[t.parent[m]][s] = m}
           val == [m \in A |-> t.parent[m]]
           g == CHOOSE f : f = [m \in A |-> IF t.parent[m] = NULL \/ t.child[t.parent[m]][s] = m
                                            THEN t.parent[m] ELSE f[t.parent[m]]]
           rank == [m \in L |-> Cardinality(L) - Cardinality(sub[m])]
<1>1. /\ Shape(t, L, sub) /\ L \subseteq A /\ A = D \ {RBNIL} /\ NULL \notin L /\ RBNIL \notin L
      /\ \A m \in A : t.parent[m] \in A \cup {NULL}
  <2>1. /\ Shape(t, L, sub) /\ NULL \notin L /\ RBNIL \notin L
        /\ \A m \in D \ {RBNIL} : t.parent[m] \in (D \ {RBNIL}) \cup {NULL}
    BY NotNodes DEF Tree, Shape, Memory
  <2> QED  BY <2>1, AllocatedIs
<1>2. \A m \in A \ stop : val[m] \in A
  BY <1>1
<1>3. PICK f0 : Loop(A, stop, val, val, f0)
  BY ONLY <1>2, LoopExists
<1>4. f0 = [m \in A |-> IF t.parent[m] = NULL \/ t.child[t.parent[m]][s] = m
                        THEN t.parent[m] ELSE f0[t.parent[m]]]
  BY ONLY <1>3 DEF Loop
<1>5. g = [m \in A |-> IF t.parent[m] = NULL \/ t.child[t.parent[m]][s] = m
                       THEN t.parent[m] ELSE g[t.parent[m]]]
  BY ONLY <1>4
<1>6. Loop(A, stop, val, val, g)
  <2> HIDE DEF g
  <2> QED  BY ONLY <1>5 DEF Loop
<1>7. NextInOrder(t, last, s) = IF last = NULL THEN Extreme(t, t.root, s)
                                ELSE IF t.child[last][Opposite(s)] # RBNIL
                                     THEN Extreme(t, t.child[last][Opposite(s)], s)
                                     ELSE g[last]
  BY ONLY Zenon DEF NextInOrder
<1> HIDE DEF g
<1>8. \A m \in L : /\ rank[m] \in Nat
                   /\ t.parent[m] # NULL => t.parent[m] \in L /\ rank[t.parent[m]] < rank[m]
  BY UpIsNearer
<1>9. CASE last = NULL
  <2>1. t.root \in L /\ sub[t.root] = L
    BY <1>1, <1>9 DEF Shape
  <2>2. PICK z : z = Extreme(t, t.root, s)
    OBVIOUS
  <2>3. ExtremeIn(t, L, sub, t.root, s, z)
    BY <2>1, <2>2, ExtremeIs
  <2>4. Ahead(t, L, last, s) = L
    BY <1>9 DEF Ahead
  <2>5. FirstOf(t, L, s, z)
    BY <2>1, <2>3 DEF FirstOf, ExtremeIn
  <2> QED  BY <2>2, <2>4, <2>5, <1>7, <1>9
<1>10. CASE last # NULL /\ t.child[last][Opposite(s)] # RBNIL
  <2>1. last \in L
    BY <1>10
  <2>2. NextInOrder(t, last, s) = Extreme(t, t.child[last][Opposite(s)], s)
    BY ONLY <1>7, <1>10
  <2> QED  BY <2>1, <2>2, <1>10, DownIsNext
<1>11. CASE last # NULL /\ t.child[last][Opposite(s)] = RBNIL
  <2>1. last \in L /\ NextInOrder(t, last, s) = g[last]
    BY <1>7, <1>11
  <2>2. PICK C : C = LastBelow(t, L, sub, last, s)
    OBVIOUS
  <2>3. last \in C
    <3>1. Branch(t, L, sub, last, s) /\ last \in sub[last] /\ sub[RBNIL] = {}
      BY <1>1, <2>1, BelowNode DEF Shape
    <3>2. sub[last] = {last} \cup sub[t.child[last][s]]
      BY <3>1, <1>11 DEF Branch
    <3>3. \A i \in sub[t.child[last][s]] : Before(s, t.data[i], t.data[last])
      BY <2>1, OnItsSide
    <3> QED  BY <2>1, <2>2, <3>1, <3>2, <3>3 DEF LastBelow
  <2>4. C \subseteq L /\ C \subseteq A
    BY <2>2, <1>1 DEF LastBelow
  <2>5. \A m \in C : rank[m] \in Nat
    BY <2>4, <1>8
  <2>6. \A m \in C \ stop : val[m] \in C /\ rank[val[m]] < rank[m]
    <3> SUFFICES ASSUME NEW m \in C \ stop  PROVE val[m] \in C /\ rank[val[m]] < rank[m]
      OBVIOUS
    <3>1. val[m] = t.parent[m] /\ t.parent[m] # NULL /\ t.child[t.parent[m]][s] # m
      BY <2>4
    <3>2. t.parent[m] \in C
      BY <2>1, <2>2, <3>1, UpKeepsLast
    <3> QED  BY <2>4, <3>1, <3>2, <1>8
  <2>7. \A m \in C : \E e \in C \cap stop : g[m] = val[e]
    <3> HIDE DEF A, stop, val, rank, g
    <3> QED  BY ONLY <2>4, <2>5, <2>6, <1>6, LoopEnds
  <2>8. PICK e \in C \cap stop : g[last] = val[e]
    BY <2>3, <2>7
  <2>9. val[e] = t.parent[e] /\ (t.parent[e] = NULL \/ t.child[t.parent[e]][s] = e)
    BY <2>4
  <2> QED  BY <2>1, <2>2, <2>8, <2>9, UpIsNext
<1> QED  BY <1>9, <1>10, <1>11

-----------------------------------------------------------------------------
(***************************************************************************)
(* The entries of a state.                                                 *)
(***************************************************************************)

LEMMA StateTree ==
  ASSUME NEW t, NEW o, NEW L, NEW sub, NEW h, StateIn(t, o, L, sub, h)
  PROVE  \E D, y : Tree(t, D, L, sub) /\ D \subseteq L \cup {RBNIL, y}
<1>1. CASE o = Idle /\ RedBlack(t, L \cup {RBNIL}, L, sub, h)
  <2>1. Tree(t, L \cup {RBNIL}, L, sub) /\ L \cup {RBNIL} \subseteq L \cup {RBNIL, RBNIL}
    BY <1>1 DEF RedBlack
  <2> QED  BY <2>1
<1>2. CASE o = [name |-> "insert", x |-> o.x, y |-> NULL] /\ Inserting(t, L \cup {RBNIL}, L, sub, h, o.x)
  <2>1. Tree(t, L \cup {RBNIL}, L, sub) /\ L \cup {RBNIL} \subseteq L \cup {RBNIL, RBNIL}
    BY <1>2 DEF Inserting
  <2> QED  BY <2>1
<1>3. CASE Deleting(t, L \cup {RBNIL, o.y}, L, sub, h, o.x)
  BY <1>3 DEF Deleting
<1> QED  BY <1>1, <1>2, <1>3 DEF StateIn

(* Each entry has its own key.                                             *)
LEMMA StateKeys ==
  ASSUME NEW t, NEW o, NEW L, NEW sub, NEW h, StateIn(t, o, L, sub, h)
  PROVE  /\ \A n \in L : t.data[n] \in Key /\ t.data[n] \in Int
         /\ \A m, n \in L : m # n => t.data[m] # t.data[n]
<1>1. PICK D : Tree(t, D, L, sub)
  BY StateTree
<1> QED  BY <1>1, OnItsSide, KeysDiffer

LEMMA StateLinked ==
  ASSUME NEW t, NEW o, NEW L, NEW sub, NEW h, StateIn(t, o, L, sub, h)
  PROVE  Below(t, t.root) = L
<1>1. PICK D, y : Tree(t, D, L, sub) /\ D \subseteq L \cup {RBNIL, y}
  BY StateTree
<1>2. t.root \in L \cup {RBNIL} /\ sub[t.root] = L
  BY <1>1 DEF Tree, Shape
<1> QED  BY <1>1, <1>2, BelowIs

(* rb_find gives the keys of the nodes that are linked.                    *)
Holds(t) == {k \in {t.data[n] : n \in Allocated(t)} : Find(t, k) # NULL}

LEMMA StateHolds ==
  ASSUME NEW t, NEW o, NEW L, NEW sub, NEW h, StateIn(t, o, L, sub, h)
  PROVE  Holds(t) = {t.data[n] : n \in L}
<1>1. PICK D : Tree(t, D, L, sub)
  BY StateTree
<1>2. L \subseteq Allocated(t)
  BY <1>1, AllocatedIs
<1>3. ASSUME NEW n \in L  PROVE t.data[n] \in Holds(t)
  <2>1. PICK k : k = t.data[n]
    OBVIOUS
  <2>2. k \in Key
    BY <2>1, StateKeys
  <2>3. Find(t, k) # NULL
    BY <2>1, <2>2, <1>1, FindIs
  <2> QED  BY <2>1, <2>3, <1>2 DEF Holds
<1>4. ASSUME NEW k \in Holds(t)  PROVE \E n \in L : k = t.data[n]
  <2>1. Find(t, k) # NULL
    BY DEF Holds
  <2>2. t.root # RBNIL /\ t.data[Place(t, k)] = k
    BY <2>1 DEF Find
  <2>3. PlaceFor(t, L, sub, k, Place(t, k))
    BY <2>2, <1>1, PlaceIs
  <2> QED  BY <2>2, <2>3 DEF PlaceFor
<1> QED  BY <1>3, <1>4

-----------------------------------------------------------------------------
(***************************************************************************)
(* Pointers.                                                               *)
(***************************************************************************)

LEMMA EntriesNow ==
  ASSUME NEW L, NEW sub, NEW h, StateIn(rb, op, L, sub, h)
  PROVE  Entries = [n \in L |-> rb.data[n]]
<1>1. Below(rb, rb.root) = L
  BY StateLinked
<1> QED  BY <1>1 DEF Entries, Linked

LEMMA EntriesThen ==
  ASSUME NEW L, NEW sub, NEW h, StateIn(rb', op', L, sub, h)
  PROVE  Entries' = [n \in L |-> rb'.data[n]]
<1>1. Below(rb', rb'.root) = L
  BY StateLinked
<1> QED  BY <1>1 DEF Entries, Linked

(* The node a deletion frees is the one it was asked to delete or the      *)
(* next one.                                                               *)
LEMMA FreedIsNext ==
  ASSUME NEW t, NEW D, NEW L, NEW sub, Tree(t, D, L, sub), NEW z \in L, NEW y, y = Removed(t, z),
         y # z, NEW entries, entries = [n \in L |-> t.data[n]]
  PROVE  y \in After(entries, z)
<1>1. PICK x : x = OnlyChild(t, y)
  OBVIOUS
<1>2. Goes(t, L, sub, z, y, x)
  BY <1>1, RemovedIs
<1>3. PICK c : c = t.child[z]["right"]
  OBVIOUS
<1>4. y \in L /\ y \in sub[c] /\ \A e \in sub[c] \ {y} : Before("left", t.data[y], t.data[e])
  BY <1>2, <1>3 DEF Goes
<1>5. "left" \in Side /\ "right" \in Side /\ Opposite("left") = "right" /\ Opposite("right") = "left"
  BY DEF Side, Opposite
<1>6. Before("right", t.data[y], t.data[z])
  BY <1>3, <1>4, <1>5, OnItsSide
<1>7. \A n \in L : t.data[n] \in Int
  BY OnItsSide
<1>8. ASSUME NEW i \in L, t.data[z] < t.data[i]
      PROVE  t.data[y] =< t.data[i]
  <2>1. CASE i \in sub[c]
    BY <2>1, <1>4, <1>7 DEF Before
  <2>2. CASE i \in sub[z] /\ i \notin sub[c]
    <3>1. Branch(t, L, sub, z, "right")
      BY <1>5 DEF Tree, Shape
    <3>2. i = z \/ i \in sub[t.child[z]["left"]]
      BY <3>1, <2>2, <1>3, <1>5 DEF Branch
    <3>3. i = z \/ Before("left", t.data[i], t.data[z])
      BY <3>2, <1>5, OnItsSide
    <3>4. t.data[i] \in Int /\ t.data[z] \in Int
      BY <1>7
    <3> QED  BY ONLY <3>3, <3>4, <1>8 DEF Before
  <2>3. CASE i \notin sub[z]
    <3>1. y \in sub[z]
      <4>1. sub[c] \subseteq sub[z]
        BY <1>3, <1>5, BelowChild DEF Tree
      <4> QED  BY <4>1, <1>4
    <3>2. Before("left", t.data[i], t.data[z]) <=> Before("left", t.data[i], t.data[y])
      BY <2>3, <3>1, <1>5, Outside
    <3>3. t.data[i] \in Int /\ t.data[z] \in Int /\ t.data[y] \in Int
      BY <1>4, <1>7
    <3> QED  BY ONLY <3>2, <3>3, <1>8 DEF Before
  <2> QED  BY <2>1, <2>2, <2>3
<1>9. DOMAIN entries = L /\ \A n \in L : entries[n] = t.data[n]
  OBVIOUS
<1>10. entries[y] > entries[z]
  <2>1. t.data[y] \in Int /\ t.data[z] \in Int
    BY <1>4, <1>7
  <2> QED  BY <2>1, <1>4, <1>6, <1>9 DEF Before
<1>11. \A i \in L : entries[i] > entries[z] => entries[i] >= entries[y]
  <2> SUFFICES ASSUME NEW i \in L, entries[i] > entries[z]  PROVE entries[i] >= entries[y]
    OBVIOUS
  <2>1. t.data[i] \in Int /\ t.data[z] \in Int /\ t.data[y] \in Int
    BY <1>4, <1>7
  <2>2. t.data[z] < t.data[i]
    BY <2>1, <1>9
  <2>3. t.data[y] =< t.data[i]
    BY <2>2, <1>8
  <2> QED  BY <2>1, <2>3, <1>4, <1>9
<1> QED  BY <1>4, <1>9, <1>10, <1>11 DEF After

SameAt(old, new, ns) == \A n \in ns : n \in DOMAIN new /\ new[n] = old[n]

LEMMA DeletePointers ==
  ASSUME IInv, NEW z \in DOMAIN Entries, Delete(z)
  PROVE  /\ SameAt(Entries, Entries', DOMAIN Entries \ ({z} \cup After(Entries, z)))
         /\ KeysOf(Entries') = KeysOf(Entries) \ {Entries[z]}
<1>1. PICK L, sub, h : StateIn(rb, op, L, sub, h)
  BY DEF IInv
<1>2. Entries = [n \in L |-> rb.data[n]] /\ z \in L
  BY <1>1, EntriesNow
<1>3. PICK y \in L : /\ y = Removed(rb, z) /\ \E v, g : StateIn(rb', op', L \ {y}, v, g)
                     /\ \A n \in L \ {y} : rb'.data[n] = rb.data[IF n = z THEN y ELSE n]
  BY <1>1, <1>2, DeleteGoes, ZenonT(30)
<1>4. Entries' = [n \in L \ {y} |-> rb'.data[n]]
  BY <1>3, EntriesThen
<1>5. PICK old, new, next : old = Entries /\ new = Entries' /\ next = After(Entries, z)
  OBVIOUS
<1>6. /\ old = [n \in L |-> rb.data[n]]
      /\ new = [n \in L \ {y} |-> rb.data[IF n = z THEN y ELSE n]]
  BY <1>2, <1>3, <1>4, <1>5
<1>7. y = z \/ y \in next
  <2>1. PICK D : Tree(rb, D, L, sub)
    BY <1>1, StateTree
  <2> QED  BY <2>1, <1>2, <1>3, <1>5, FreedIsNext
<1>8. SameAt(old, new, DOMAIN old \ ({z} \cup next))
  BY <1>6, <1>7 DEF SameAt
<1>9. \A m, n \in L : m # n => rb.data[m] # rb.data[n]
  BY <1>1, StateKeys
<1>10. KeysOf(new) = KeysOf(old) \ {old[z]}
  <2>1. KeysOf(old) = {rb.data[n] : n \in L} /\ old[z] = rb.data[z]
    BY <1>2, <1>6 DEF KeysOf
  <2>2. KeysOf(new) = {rb.data[IF n = z THEN y ELSE n] : n \in L \ {y}}
    BY <1>6 DEF KeysOf
  <2>3. ASSUME NEW n \in L \ {y}
        PROVE  rb.data[IF n = z THEN y ELSE n] \in {rb.data[m] : m \in L} \ {rb.data[z]}
    BY <1>2, <1>9
  <2>4. ASSUME NEW m \in L, rb.data[m] # rb.data[z]
        PROVE  \E n \in L \ {y} : rb.data[m] = rb.data[IF n = z THEN y ELSE n]
    <3>1. CASE m = y
      BY <3>1, <2>4, <1>2
    <3>2. CASE m # y
      BY <3>2, <2>4
    <3> QED  BY <3>1, <3>2
  <2> QED  BY ONLY <2>1, <2>2, <2>3, <2>4
<1> QED  BY <1>5, <1>8, <1>10

LEMMA InsertPointers ==
  ASSUME IInv, NEW k \in Key, Insert(k)
  PROVE  SameAt(Entries, Entries', DOMAIN Entries)
<1>1. PICK L, sub, h : StateIn(rb, op, L, sub, h)
  BY DEF IInv
<1>2. PICK x \in Node \ L : (\E v, g : StateIn(rb', op', L \cup {x}, v, g)) /\ SameData(rb, rb', L)
  BY <1>1, InsertGoes
<1>3. Entries = [n \in L |-> rb.data[n]]
  BY <1>1, EntriesNow
<1>4. Entries' = [n \in L \cup {x} |-> rb'.data[n]]
  BY <1>2, EntriesThen
<1> QED  BY <1>2, <1>3, <1>4 DEF SameAt, SameData

LEMMA FixupPointers ==
  ASSUME IInv, Fixup
  PROVE  Entries' = Entries
<1>1. PICK L, sub, h : StateIn(rb, op, L, sub, h)
  BY DEF IInv
<1>2. (\E v, g : StateIn(rb', op', L, v, g)) /\ SameData(rb, rb', L)
  BY <1>1, FixupGoes
<1>3. Entries = [n \in L |-> rb.data[n]]
  BY <1>1, EntriesNow
<1>4. Entries' = [n \in L |-> rb'.data[n]]
  BY <1>2, EntriesThen
<1> QED  BY <1>2, <1>3, <1>4 DEF SameData

LEMMA OnlyInsertStarts ==
  ASSUME Next, op = Idle, op'.name = "insert"
  PROVE  \E k \in Key : Insert(k)
<1>1. ~Fixup
  BY DEF Fixup, InsertFixup, InsertReturns, DeleteFixup, DeleteReturns, Idle
<1>2. ASSUME NEW z \in Allocated(rb), Delete(z)  PROVE FALSE
  BY <1>2 DEF Delete, Idle
<1>3. ~Clear /\ ~WalkNext /\ \A kind \in Walks : ~BeginWalk(kind)
  BY DEF Clear, WalkNext, BeginWalk, Idle
<1> QED  BY <1>1, <1>2, <1>3 DEF Next, Fixup

LEMMA OnlyFixupGoesOn ==
  ASSUME Next, op # Idle
  PROVE  Fixup
BY DEF Next, Fixup, Insert, Delete, Clear, BeginWalk, WalkNext

(* An entry stays at its node, and so a pointer to the node at the entry,  *)
(* through insertions and the steps of the loops, and through a deletion   *)
(* unless it is the deleted one or the next one; what is deleted is the    *)
(* entry of the node that was given (rb_insert, rb_delete_node).           *)
THEOREM PointersKept ==
  Spec => PointersSurvive
<1>1. IInv /\ [Next]_vars =>
        [LET old == Entries
             new == Entries'
             Kept(ns) == \A n \in ns : n \in DOMAIN new /\ new[n] = old[n]
         IN rb' # rb =>
              /\ \A z \in DOMAIN old :
                   Delete(z) => /\ Kept(DOMAIN old \ ({z} \cup After(old, z)))
                                /\ KeysOf(new) = KeysOf(old) \ {old[z]}
              /\ op = Idle /\ op'.name = "insert" => Kept(DOMAIN old)
              /\ op # Idle => new = old]_rb
  <2> SUFFICES ASSUME IInv, [Next]_vars, rb' # rb
               PROVE  /\ \A z \in DOMAIN Entries :
                           Delete(z) => /\ SameAt(Entries, Entries', DOMAIN Entries \ ({z} \cup After(Entries, z)))
                                        /\ KeysOf(Entries') = KeysOf(Entries) \ {Entries[z]}
                      /\ op = Idle /\ op'.name = "insert" => SameAt(Entries, Entries', DOMAIN Entries)
                      /\ op # Idle => Entries' = Entries
    BY DEF SameAt
  <2>1. Next
    BY DEF vars
  <2> QED  BY <2>1, DeletePointers, InsertPointers, FixupPointers, OnlyInsertStarts, OnlyFixupGoesOn
<1> QED  BY <1>1, Invariant, PTL DEF Spec, PointersSurvive

-----------------------------------------------------------------------------
(***************************************************************************)
(* The sorted set.                                                         *)
(***************************************************************************)

ScanOf(t, w) ==
  LET inOrder == w.kind \in InOrderWalks
  IN [up   |-> w.kind = "left_right",
      last |-> IF inOrder /\ w.last # NULL THEN t.data[w.last] ELSE NULL,
      over |-> inOrder => w.over]

LEMMA Mapped ==
  /\ Held = Holds(rb) /\ Held' = Holds(rb')
  /\ Scan = ScanOf(rb, walk) /\ Scan' = ScanOf(rb', walk')
BY DEF Held, Holds, Scan, ScanOf

LEMMA NobodyScans ==
  ASSUME NEW t, NEW w, w.kind \notin InOrderWalks
  PROVE  ScanOf(t, w) = Set!NoScan
<1>1. w.kind # "left_right"
  BY DEF InOrderWalks
<1> QED  BY <1>1 DEF ScanOf, Set!NoScan

LEMMA NoWalkScans ==
  \A t : ScanOf(t, NoWalk) = Set!NoScan
<1>1. NoWalk.kind \notin InOrderWalks
  BY DEF NoWalk, InOrderWalks
<1> QED  BY <1>1, NobodyScans

LEMMA ScanStays ==
  ASSUME NEW t, NEW u, NEW L, NEW w, WalkIn(w, L), SameData(t, u, L)
  PROVE  ScanOf(u, w) = ScanOf(t, w)
<1>1. w.last \in L \cup {NULL}
  BY DEF WalkIn
<1> QED  BY <1>1 DEF ScanOf, SameData

LEMMA InsertAdds ==
  ASSUME IInv, NEW k \in Key, Insert(k)
  PROVE  Set!Next
<1>1. PICK L, sub, h : StateIn(rb, op, L, sub, h) /\ WalkIn(walk, L)
  BY DEF IInv
<1>2. PICK x \in Node \ L : /\ \E v, g : StateIn(rb', op', L \cup {x}, v, g)
                            /\ rb'.data[x] = k /\ SameData(rb, rb', L)
  BY <1>1, InsertGoes
<1>3. Held = {rb.data[n] : n \in L}
  BY <1>1, StateHolds, Mapped
<1>4. Held' = {rb'.data[n] : n \in L \cup {x}}
  BY <1>2, StateHolds, Mapped
<1>5. Held' = Held \cup {k}
  BY ONLY <1>2, <1>3, <1>4 DEF SameData
<1>6. k \notin Held
  BY DEF Insert, Held
<1>7. Scan' = Scan
  <2>1. CASE walk.kind \in InOrderWalks /\ walk' = walk
    <3>1. ScanOf(rb', walk) = ScanOf(rb, walk)
      BY <1>1, <1>2, ScanStays
    <3> QED  BY <3>1, <2>1, Mapped
  <2>2. CASE walk.kind \notin InOrderWalks /\ walk' = NoWalk
    BY <2>2, NobodyScans, NoWalkScans, Mapped
  <2> QED  BY <2>1, <2>2 DEF Insert, WalkAfterInsert
<1>8. Set!Add(k)
  BY <1>5, <1>7 DEF Set!Add
<1> QED  BY <1>5, <1>6, <1>8 DEF Set!Next

LEMMA FixupStutters ==
  ASSUME IInv, Fixup
  PROVE  Held' = Held /\ Scan' = Scan
<1>1. PICK L, sub, h : StateIn(rb, op, L, sub, h) /\ WalkIn(walk, L)
  BY DEF IInv
<1>2. (\E v, g : StateIn(rb', op', L, v, g)) /\ SameData(rb, rb', L) /\ walk' = walk
  BY <1>1, FixupGoes
<1>3. Held = {rb.data[n] : n \in L}
  BY <1>1, StateHolds, Mapped
<1>4. Held' = {rb'.data[n] : n \in L}
  BY <1>2, StateHolds, Mapped
<1>5. Held' = Held
  BY ONLY <1>2, <1>3, <1>4 DEF SameData
<1>6. ScanOf(rb', walk) = ScanOf(rb, walk)
  BY <1>1, <1>2, ScanStays
<1> QED  BY <1>2, <1>5, <1>6, Mapped

LEMMA DeleteRemoves ==
  ASSUME IInv, NEW z \in Allocated(rb), Delete(z)
  PROVE  Set!Next
<1>1. PICK L, sub, h : StateIn(rb, op, L, sub, h)
  BY DEF IInv
<1>2. op = Idle /\ walk' = NoWalk
  BY DEF Delete
<1>3. z \in L
  BY <1>1, <1>2, IdleIs
<1>4. PICK y \in L : \E v, g : StateIn(rb', op', L \ {y}, v, g)
  BY <1>1, <1>3, DeleteGoes
<1>5. Entries = [n \in L |-> rb.data[n]] /\ Entries' = [n \in L \ {y} |-> rb'.data[n]]
  BY <1>1, <1>4, EntriesNow, EntriesThen
<1>6. KeysOf(Entries') = KeysOf(Entries) \ {Entries[z]}
  BY <1>3, <1>5, DeletePointers
<1>7. Held = {rb.data[n] : n \in L}
  BY <1>1, StateHolds, Mapped
<1>8. Held' = {rb'.data[n] : n \in L \ {y}}
  BY <1>4, StateHolds, Mapped
<1>9. KeysOf(Entries) = Held /\ KeysOf(Entries') = Held' /\ Entries[z] \in Held
  BY <1>3, <1>5, <1>7, <1>8 DEF KeysOf
<1>10. Held' = Held \ {Entries[z]} /\ Entries[z] \in Held \ Held'
  BY <1>6, <1>9
<1>11. Scan' = Set!NoScan
  BY <1>2, NoWalkScans, Mapped
<1>12. Set!Remove(Entries[z])
  BY <1>10, <1>11 DEF Set!Remove
<1> QED  BY <1>10, <1>12 DEF Set!Next

LEMMA ClearClears ==
  ASSUME IInv, Clear
  PROVE  Set!Next
<1>1. PICK L, sub, h : StateIn(rb, op, L, sub, h)
  BY DEF IInv
<1>2. \E v, g : StateIn(rb', op', {}, v, g)
  BY <1>1, ClearGoes
<1>3. Held' = {rb'.data[n] : n \in {}}
  BY <1>2, StateHolds, Mapped
<1>4. Scan' = Set!NoScan
  BY NoWalkScans, Mapped DEF Clear
<1> QED  BY <1>3, <1>4 DEF Set!Next, Set!Clear

LEMMA BeginWalkStarts ==
  ASSUME IInv, NEW kind \in Walks, BeginWalk(kind)
  PROVE  Set!Next
<1>1. PICK L, sub, h : StateIn(rb, op, L, sub, h)
  BY DEF IInv
<1>2. /\ op = Idle /\ rb' = rb
      /\ walk' = [kind |-> kind, last |-> NULL, over |-> rb.root = RBNIL, next |-> "none"]
  BY DEF BeginWalk
<1>3. Held' = Held
  BY <1>2, Mapped
<1>4. walk'.kind = kind /\ walk'.last = NULL /\ (walk'.over <=> rb.root = RBNIL)
  BY ONLY <1>2
<1>5. CASE kind \notin InOrderWalks
  <2>1. Scan' = Set!NoScan
    BY <1>4, <1>5, NobodyScans, Mapped
  <2> QED  BY <1>3, <2>1 DEF Set!Next, Set!Stop
<1>6. CASE kind \in InOrderWalks
  <2>1. Held = {rb.data[n] : n \in L}
    BY <1>1, StateHolds, Mapped
  <2>2. rb.root = RBNIL <=> L = {}
    <3>1. Shape(rb, L, sub) /\ RBNIL \notin L
      BY <1>1, <1>2, IdleIs DEF RedBlack, Tree
    <3> QED  BY <3>1 DEF Shape
  <2>3. rb.root = RBNIL <=> Held = {}
    BY <2>1, <2>2
  <2>4. Scan' = [up |-> kind = "left_right", last |-> NULL, over |-> Held = {}]
    <3>1. walk'.over = (Held = {})
      BY <1>2, <2>3
    <3>2. Scan' = [up |-> kind = "left_right", last |-> NULL, over |-> walk'.over]
      BY <1>2, <1>4, <1>6, Mapped DEF ScanOf
    <3> QED  BY <3>1, <3>2
  <2>5. Set!Start(kind = "left_right")
    BY <1>3, <2>4 DEF Set!Start
  <2> QED  BY <2>5 DEF Set!Next
<1> QED  BY <1>5, <1>6

(* A walk in key order goes on to the next key.                            *)
LEMMA WalkNextAdvances ==
  ASSUME IInv, WalkNext
  PROVE  Set!Next \/ (Held' = Held /\ Scan' = Scan)
<1>1. PICK L, sub, h : StateIn(rb, op, L, sub, h) /\ WalkIn(walk, L)
  BY DEF IInv
<1>2. PICK z : z = NextOf(walk)
  OBVIOUS
<1>3. /\ op = Idle /\ ~walk.over /\ rb' = rb
      /\ walk' = [walk EXCEPT !.last = z, !.over = z = NULL,
                              !.next = IF walk.kind = "inverted" THEN "up" ELSE @]
  BY <1>2 DEF WalkNext
<1>4. /\ walk \in [kind : Walks \cup {"none"}, last : L \cup {NULL}, over : BOOLEAN, next : {"none", "up"}]
      /\ L # {}
  BY <1>1, <1>3 DEF WalkIn
<1>5. walk'.kind = walk.kind /\ walk'.last = z /\ walk'.over = (z = NULL)
  BY ONLY <1>3, <1>4
<1>6. Held' = Held
  BY <1>3, Mapped
<1>7. CASE walk.kind \notin InOrderWalks
  BY <1>5, <1>6, <1>7, NobodyScans, Mapped
<1>8. CASE walk.kind \in InOrderWalks
  <2>1. PICK s : s = IF walk.kind = "left_right" THEN "left" ELSE "right"
    OBVIOUS
  <2>2. s \in Side /\ (walk.kind = "left_right" <=> s = "left")
    BY <2>1 DEF Side
  <2>3. z = NextInOrder(rb, walk.last, s)
    BY <1>2, <1>8, <2>1 DEF NextOf, InOrderWalks
  <2>4. Tree(rb, L \cup {RBNIL}, L, sub) /\ NULL \notin L
    BY <1>1, <1>3, IdleIs DEF RedBlack
  <2>5. PICK S : S = Ahead(rb, L, walk.last, s)
    OBVIOUS
  <2>6. FirstOf(rb, S, s, z)
    BY <2>2, <2>3, <2>4, <2>5, <1>4, NextInOrderIs
  <2>7. Held = {rb.data[n] : n \in L} /\ \A n \in L : rb.data[n] \in Key
    BY <1>1, StateHolds, StateKeys, Mapped
  <2>8. PICK up, last : up = (s = "left") /\ last = IF walk.last = NULL THEN NULL ELSE rb.data[walk.last]
    OBVIOUS
  <2>9. Scan = [up |-> up, last |-> last, over |-> FALSE]
    <3>1. (walk.kind \in InOrderWalks => walk.over) = FALSE
      BY <1>3, <1>8
    <3>2. last = IF walk.kind \in InOrderWalks /\ walk.last # NULL THEN rb.data[walk.last] ELSE NULL
      BY <1>8, <2>8
    <3> QED  BY <2>2, <2>8, <3>1, <3>2, Mapped DEF ScanOf
  <2>10. /\ z = NULL => Scan' = [up |-> up, last |-> NULL, over |-> TRUE]
         /\ z # NULL => Scan' = [up |-> up, last |-> rb.data[z], over |-> FALSE]
    <3>1. PICK w : w = walk'
      OBVIOUS
    <3>2. w.kind = walk.kind /\ w.last = z /\ w.kind \in InOrderWalks
      BY <1>5, <1>8, <3>1
    <3>3. Scan' = ScanOf(rb, w)
      BY <1>3, <3>1, Mapped
    <3>4. up = (w.kind = "left_right")
      BY <2>2, <2>8, <3>2
    <3>5. CASE z = NULL
      <4>1. (w.kind \in InOrderWalks => w.over) = TRUE
        BY <1>5, <3>1, <3>5
      <4>2. (IF w.kind \in InOrderWalks /\ w.last # NULL THEN rb.data[w.last] ELSE NULL) = NULL
        BY <3>2, <3>5
      <4>3. ScanOf(rb, w) = [up |-> up, last |-> NULL, over |-> TRUE]
        BY ONLY <3>4, <4>1, <4>2 DEF ScanOf
      <4> QED  BY <4>3, <3>3, <3>5
    <3>6. CASE z # NULL
      <4>1. (w.kind \in InOrderWalks => w.over) = FALSE
        BY <1>5, <3>1, <3>2, <3>6
      <4>2. (IF w.kind \in InOrderWalks /\ w.last # NULL THEN rb.data[w.last] ELSE NULL) = rb.data[z]
        BY <3>2, <3>6
      <4>3. ScanOf(rb, w) = [up |-> up, last |-> rb.data[z], over |-> FALSE]
        BY ONLY <3>4, <4>1, <4>2 DEF ScanOf
      <4> QED  BY <4>3, <3>3, <3>6
    <3> QED  BY <3>5, <3>6
  <2>11. PICK left : left = Set!Left(up, last)
    OBVIOUS
  <2>12. left = {rb.data[i] : i \in S}
    <3>1. last = NULL <=> walk.last = NULL
      BY <1>4, <2>7, <2>8, RbTreeAssumption
    <3>2. ASSUME NEW i \in L
          PROVE  i \in S <=> last = NULL \/ IF up THEN last < rb.data[i] ELSE rb.data[i] < last
      BY <2>5, <2>8, <3>1 DEF Ahead, Before
    <3>3. S \subseteq L
      BY <2>5 DEF Ahead
    <3> QED  BY <2>7, <2>11, <3>2, <3>3 DEF Set!Left
  <2>13. CASE S = {}
    <3>1. z = NULL /\ left = {}
      BY <2>6, <2>12, <2>13 DEF FirstOf
    <3>2. Scan' = [up |-> Scan.up, last |-> NULL, over |-> TRUE]
      <4>1. Scan.up = up
        BY ONLY <2>9
      <4> QED  BY <4>1, <3>1, <2>10
    <3>3. Set!Left(Scan.up, Scan.last) = {} /\ ~Scan.over
      BY <3>1, <2>9, <2>11
    <3>4. Set!Advance
      BY <3>2, <3>3, <1>6 DEF Set!Advance
    <3> QED  BY <3>4 DEF Set!Next
  <2>14. CASE S # {}
    <3>1. z \in S /\ \A i \in S \ {z} : Before(s, rb.data[z], rb.data[i])
      BY <2>6, <2>14 DEF FirstOf
    <3>2. z # NULL
      BY <3>1, <2>4, <2>5 DEF Ahead
    <3>3. PICK k : k = rb.data[z]
      OBVIOUS
    <3>4. k \in left /\ left # {}
      BY <3>1, <3>3, <2>12
    <3>5. \A j \in left : j = k \/ (IF up THEN k < j ELSE j < k)
      BY <3>1, <3>3, <2>8, <2>12 DEF Before
    <3>6. Scan' = [up |-> Scan.up, last |-> k, over |-> FALSE]
      <4>1. Scan.up = up
        BY ONLY <2>9
      <4> QED  BY <4>1, <3>2, <3>3, <2>10
    <3>7. left = Set!Left(Scan.up, Scan.last) /\ Scan.up = up /\ ~Scan.over
      BY <2>9, <2>11
    <3>8. Set!Advance
      BY <3>4, <3>5, <3>6, <3>7, <1>6 DEF Set!Advance
    <3> QED  BY <3>8 DEF Set!Next
  <2> QED  BY <2>13, <2>14
<1> QED  BY <1>7, <1>8

LEMMA StepRefines ==
  IInv /\ [Next]_vars => [Set!Next]_<<Held, Scan>>
<1> SUFFICES ASSUME IInv, [Next]_vars  PROVE Set!Next \/ (Held' = Held /\ Scan' = Scan)
  OBVIOUS
<1>1. CASE UNCHANGED vars
  <2>1. rb' = rb /\ walk' = walk
    BY <1>1 DEF vars
  <2> QED  BY <2>1, Mapped
<1>2. CASE Next
  BY <1>2, InsertAdds, FixupStutters, DeleteRemoves, ClearClears, BeginWalkStarts, WalkNextAdvances
     DEF Next, Fixup
<1> QED  BY <1>1, <1>2

(* rb_find finds the keys that were inserted and not deleted since, and    *)
(* the walks in key order give them in order, whatever is inserted between *)
(* their calls (rb_insert, rb_delete, rb_clear, rb_left_right_walk,        *)
(* rb_right_left_walk).                                                    *)
THEOREM SortedSetRefined ==
  Spec => ImplementsSortedSet
<1>1. Init => Set!Init
  <2> SUFFICES ASSUME Init  PROVE Set!Init
    OBVIOUS
  <2>1. Holds(rb) = {}
    BY DEF Init, Holds, Allocated, EmptyTree
  <2>2. ScanOf(rb, walk) = Set!NoScan
    BY NoWalkScans DEF Init
  <2> QED  BY <2>1, <2>2, Mapped DEF Set!Init
<1> QED  BY <1>1, StepRefines, Invariant, PTL DEF Spec, ImplementsSortedSet, Set!Spec

-----------------------------------------------------------------------------
(***************************************************************************)
(* The walks.                                                              *)
(***************************************************************************)

(* The sequence gives the elements of S one after the other, as next does  *)
(* from a on, until z.                                                     *)
Chain(seq, S, next, a, z) ==
  /\ seq \in Seq(S)
  /\ \A e \in S : \E i \in 1..Len(seq) : seq[i] = e
  /\ a = IF Len(seq) = 0 THEN z ELSE seq[1]
  /\ \A i \in 1..Len(seq) : next[seq[i]] = IF i = Len(seq) THEN z ELSE seq[i + 1]

LEMMA ChainNone ==
  ASSUME NEW next, NEW z
  PROVE  Chain(<< >>, {}, next, z, z)
BY EmptySeq DEF Chain

LEMMA ChainOne ==
  ASSUME NEW next, NEW n
  PROVE  Chain(<<n>>, {n}, next, n, next[n])
<1>1. <<n>> \in Seq({n}) /\ Len(<<n>>) = 1 /\ <<n>>[1] = n
  OBVIOUS
<1>2. 1..1 = {1}
  OBVIOUS
<1> QED  BY <1>1, <1>2 DEF Chain

LEMMA ChainJoin ==
  ASSUME NEW s1, NEW s2, NEW S1, NEW S2, NEW next, NEW a, NEW b, NEW z,
         Chain(s1, S1, next, a, b), Chain(s2, S2, next, b, z)
  PROVE  Chain(s1 \o s2, S1 \cup S2, next, a, z)
<1>1. PICK S : S = S1 \cup S2
  OBVIOUS
<1>2. s1 \in Seq(S) /\ s2 \in Seq(S)
  <2>1. s1 \in Seq(S1) /\ s2 \in Seq(S2)
    BY DEF Chain
  <2> QED  BY <1>1, <2>1, SeqMonotonic
<1>3. PICK seq : seq = s1 \o s2
  OBVIOUS
<1>4. PICK k, l \in Nat : k = Len(s1) /\ l = Len(s2)
  BY <1>2, LenProperties
<1>5. /\ seq \in Seq(S) /\ Len(seq) = k + l
      /\ \A i \in 1..k + l : seq[i] = IF i <= k THEN s1[i] ELSE s2[i - k]
  BY <1>2, <1>3, <1>4, ConcatProperties
<1>6. /\ \A e \in S1 : \E i \in 1..k : s1[i] = e
      /\ a = IF k = 0 THEN b ELSE s1[1]
      /\ \A i \in 1..k : next[s1[i]] = IF i = k THEN b ELSE s1[i + 1]
  BY <1>4 DEF Chain
<1>7. /\ \A e \in S2 : \E i \in 1..l : s2[i] = e
      /\ b = IF l = 0 THEN z ELSE s2[1]
      /\ \A i \in 1..l : next[s2[i]] = IF i = l THEN z ELSE s2[i + 1]
  BY <1>4 DEF Chain
<1>8. /\ \A i \in 1..k : i \in 1..k + l /\ seq[i] = s1[i]
      /\ \A i \in 1..l : i + k \in 1..k + l /\ seq[i + k] = s2[i]
  <2>1. ASSUME NEW i \in 1..k  PROVE i \in 1..k + l /\ seq[i] = s1[i]
    BY ONLY <2>1, <1>4, <1>5
  <2>2. ASSUME NEW i \in 1..l  PROVE i + k \in 1..k + l /\ seq[i + k] = s2[i]
    <3>1. i + k \in 1..k + l /\ ~(i + k <= k) /\ (i + k) - k = i
      BY ONLY <2>2, <1>4
    <3> QED  BY ONLY <3>1, <1>5
  <2> QED  BY ONLY <2>1, <2>2
<1>9. ASSUME NEW e \in S  PROVE \E i \in 1..Len(seq) : seq[i] = e
  <2>1. CASE e \in S1
    <3>1. PICK i \in 1..k : s1[i] = e
      BY <1>6, <2>1
    <3>2. i \in 1..k + l /\ seq[i] = e
      BY ONLY <3>1, <1>8
    <3> QED  BY ONLY <3>2, <1>5
  <2>2. CASE e \in S2
    <3>1. PICK i \in 1..l : s2[i] = e
      BY <1>7, <2>2
    <3>2. i + k \in 1..k + l /\ seq[i + k] = e
      BY ONLY <3>1, <1>8
    <3> QED  BY ONLY <3>2, <1>5
  <2> QED  BY <1>1, <2>1, <2>2
<1>10. a = IF Len(seq) = 0 THEN z ELSE seq[1]
  <2>1. CASE k = 0
    <3>1. l # 0 => seq[1] = s2[1]
      BY ONLY <2>1, <1>4, <1>5
    <3> QED  BY ONLY <2>1, <3>1, <1>4, <1>5, <1>6, <1>7
  <2>2. CASE k # 0
    <3>1. seq[1] = s1[1] /\ Len(seq) # 0
      BY ONLY <2>2, <1>4, <1>5
    <3> QED  BY ONLY <2>2, <3>1, <1>6
  <2> QED  BY <2>1, <2>2
<1>11. ASSUME NEW i \in 1..Len(seq)
       PROVE  next[seq[i]] = IF i = Len(seq) THEN z ELSE seq[i + 1]
  <2>1. i \in Nat /\ i \in 1..k + l
    BY ONLY <1>4, <1>5, <1>11
  <2>2. CASE i < k
    <3>1. i \in 1..k /\ i + 1 \in 1..k /\ i # k /\ i # k + l
      BY ONLY <2>1, <2>2, <1>4
    <3>2. seq[i] = s1[i] /\ seq[i + 1] = s1[i + 1]
      BY ONLY <3>1, <1>8
    <3> QED  BY ONLY <3>1, <3>2, <1>5, <1>6
  <2>3. CASE i = k
    <3>1. i \in 1..k /\ next[s1[i]] = b /\ seq[i] = s1[i]
      BY ONLY <2>1, <2>3, <1>4, <1>6, <1>8
    <3>2. CASE l = 0
      BY ONLY <2>3, <3>1, <3>2, <1>4, <1>5, <1>7
    <3>3. CASE l # 0
      <4>1. 1 \in 1..l /\ i # k + l /\ 1 + k = i + 1
        BY ONLY <2>3, <3>3, <1>4
      <4>2. seq[i + 1] = s2[1]
        BY ONLY <4>1, <1>8
      <4> QED  BY ONLY <3>1, <3>3, <4>1, <4>2, <1>5, <1>7
    <3> QED  BY ONLY <3>2, <3>3
  <2>4. CASE i > k
    <3>1. PICK j \in 1..l : i = j + k
      <4>1. i - k \in 1..l /\ i = (i - k) + k
        BY ONLY <2>1, <2>4, <1>4
      <4> QED  BY ONLY <4>1
    <3>2. seq[i] = s2[j] /\ next[s2[j]] = IF j = l THEN z ELSE s2[j + 1]
      BY ONLY <3>1, <1>7, <1>8
    <3>3. (i = k + l) <=> (j = l)
      BY ONLY <3>1, <1>4
    <3>4. j # l => j + 1 \in 1..l /\ (j + 1) + k = i + 1
      BY ONLY <3>1, <1>4
    <3>5. j # l => seq[i + 1] = s2[j + 1]
      BY ONLY <3>4, <1>8
    <3> QED  BY ONLY <3>2, <3>3, <3>5, <1>5
  <2> QED  BY ONLY <2>1, <2>2, <2>3, <2>4, <1>4
<1> QED  BY <1>1, <1>3, <1>5, <1>9, <1>10, <1>11 DEF Chain

-----------------------------------------------------------------------------
(* The function by which Order is defined, on A.                           *)
Strung(t, kind, A, f) ==
  f = [m \in A |-> IF m = RBNIL THEN << >>
                   ELSE Visit(kind, f[t.child[m]["left"]], m, f[t.child[m]["right"]])]

LEMMA StrungExists ==
  ASSUME NEW t, NEW L, NEW sub, Shape(t, L, sub), NEW kind
  PROVE  \E f : Strung(t, kind, L \cup {RBNIL}, f)
<1> DEFINE good == {n \in L : \E f : Strung(t, kind, sub[n] \cup {RBNIL}, f)}
<1>1. "left" \in Side /\ "right" \in Side /\ RBNIL \notin L /\ sub[RBNIL] = {}
  BY NotNodes DEF Side, Shape
<1>2. \E f : Strung(t, kind, {RBNIL}, f)
  <2>1. PICK f : f = [m \in {RBNIL} |-> << >>]
    OBVIOUS
  <2>2. Strung(t, kind, {RBNIL}, f)
    BY ONLY <2>1 DEF Strung
  <2> QED  BY <2>2
<1>3. ASSUME NEW n \in L, \A s \in Side : t.child[n][s] \in L => t.child[n][s] \in good
      PROVE  n \in good
  <2>1. PICK l, r : l = t.child[n]["left"] /\ r = t.child[n]["right"]
    OBVIOUS
  <2>2. /\ l \in L \cup {RBNIL} /\ r \in L \cup {RBNIL}
        /\ sub[n] = {n} \cup sub[l] \cup sub[r] /\ n \notin sub[l] /\ n \notin sub[r]
        /\ sub[l] \cap sub[r] = {} /\ sub[n] \subseteq L
    <3>1. Branch(t, L, sub, n, "left") /\ Branch(t, L, sub, n, "right")
      BY <1>1 DEF Shape
    <3>2. sub[n] \subseteq L
      BY BelowNode
    <3> QED  BY ONLY <2>1, <3>1, <3>2 DEF Branch, Opposite
  <2>3. ASSUME NEW c \in {l, r}  PROVE \E f : Strung(t, kind, sub[c] \cup {RBNIL}, f)
    <3>1. CASE c = RBNIL
      <4>1. sub[c] \cup {RBNIL} = {RBNIL}
        BY ONLY <1>1, <3>1
      <4> QED  BY ONLY <4>1, <1>2
    <3>2. CASE c \in L
      <4>1. c \in good
        BY ONLY <3>2, <1>1, <1>3, <2>1, <2>3
      <4> QED  BY ONLY <4>1
    <3> QED  BY <3>1, <3>2, <2>2
  <2>4. PICK f, g : Strung(t, kind, sub[l] \cup {RBNIL}, f) /\ Strung(t, kind, sub[r] \cup {RBNIL}, g)
    <3> HIDE DEF good
    <3> QED  BY ONLY <2>3
  <2>5. \A c \in L \cup {RBNIL} : \A m \in sub[c], s \in Side :
          t.child[m][s] \in sub[c] \cup {RBNIL} /\ m # RBNIL
    <3> SUFFICES ASSUME NEW c \in L \cup {RBNIL}, NEW m \in sub[c], NEW s \in Side
                 PROVE  t.child[m][s] \in sub[c] \cup {RBNIL} /\ m # RBNIL
      OBVIOUS
    <3>1. c \in L
      BY <1>1
    <3>2. m \in L /\ sub[m] \subseteq sub[c]
      BY <3>1, BelowBelow
    <3>3. PICK d : d = t.child[m][s]
      OBVIOUS
    <3>4. d # RBNIL => d \in sub[d] /\ sub[d] \subseteq sub[m]
      BY <3>2, <3>3, BelowChild
    <3> QED  BY <3>2, <3>3, <3>4, <1>1
  <2>6. PICK B : B = sub[n] \cup {RBNIL}
    OBVIOUS
  <2>7. PICK u : u = [m \in B |-> IF m = RBNIL THEN << >>
                                  ELSE IF m = n THEN Visit(kind, f[l], n, g[r])
                                  ELSE IF m \in sub[l] THEN f[m] ELSE g[m]]
    OBVIOUS
  <2>8. f[RBNIL] = << >> /\ g[RBNIL] = << >> /\ u[RBNIL] = << >>
    BY ONLY <2>4, <2>6, <2>7 DEF Strung
  <2>9. /\ \A m \in sub[l] \cup {RBNIL} : u[m] = f[m]
        /\ \A m \in sub[r] \cup {RBNIL} : u[m] = g[m]
    BY ONLY <1>1, <2>2, <2>6, <2>7, <2>8
  <2>10. ASSUME NEW m \in B
         PROVE  u[m] = IF m = RBNIL THEN << >>
                       ELSE Visit(kind, u[t.child[m]["left"]], m, u[t.child[m]["right"]])
    <3>1. CASE m = RBNIL
      BY <3>1, <2>8
    <3>2. CASE m = n
      <4>1. l \in sub[l] \cup {RBNIL} /\ r \in sub[r] \cup {RBNIL}
        BY <2>2, BelowNode
      <4>2. u[l] = f[l] /\ u[r] = g[r] /\ n # RBNIL
        BY <4>1, <2>9, <1>1
      <4>3. u[n] = Visit(kind, f[l], n, g[r])
        BY ONLY <4>2, <3>2, <2>7, <2>10
      <4> QED  BY ONLY <4>2, <4>3, <3>2, <2>1
    <3>3. CASE m \in sub[l]
      <4>1. m # RBNIL /\ \A s \in Side : t.child[m][s] \in sub[l] \cup {RBNIL}
        BY ONLY <2>2, <2>5, <3>3, <1>1
      <4>2. f[m] = Visit(kind, f[t.child[m]["left"]], m, f[t.child[m]["right"]])
        BY ONLY <4>1, <3>3, <2>4 DEF Strung
      <4> QED  BY ONLY <4>1, <4>2, <2>9, <3>3, <1>1
    <3>4. CASE m \in sub[r]
      <4>1. m # RBNIL /\ \A s \in Side : t.child[m][s] \in sub[r] \cup {RBNIL}
        BY ONLY <2>2, <2>5, <3>4, <1>1
      <4>2. g[m] = Visit(kind, g[t.child[m]["left"]], m, g[t.child[m]["right"]])
        BY ONLY <4>1, <3>4, <2>4 DEF Strung
      <4> QED  BY ONLY <4>1, <4>2, <2>9, <3>4, <1>1
    <3> QED  BY <2>2, <2>6, <2>10, <3>1, <3>2, <3>3, <3>4
  <2>11. u = [m \in B |-> u[m]]
    BY ONLY <2>7
  <2>12. Strung(t, kind, B, u)
    BY ONLY <2>10, <2>11 DEF Strung
  <2> QED  BY <2>6, <2>12
<1>4. L \subseteq good
  <2> HIDE DEF good
  <2> QED  BY <1>3, TreeInduction
<1>5. t.root \in L \cup {RBNIL} /\ sub[t.root] = L
  BY DEF Shape
<1>6. CASE t.root = RBNIL
  BY <1>1, <1>2, <1>5, <1>6
<1>7. CASE t.root \in L
  BY <1>4, <1>5, <1>7
<1> QED  BY <1>5, <1>6, <1>7

LEMMA OrderIs ==
  ASSUME NEW t, NEW L, NEW sub, Tree(t, L \cup {RBNIL}, L, sub), NEW kind
  PROVE  \E f : Strung(t, kind, L \cup {RBNIL}, f) /\ Order(t, kind) = f[t.root]
<1> DEFINE g == CHOOSE f : f = [m \in DOMAIN t.color |->
                                  IF m = RBNIL THEN << >>
                                  ELSE Visit(kind, f[t.child[m]["left"]], m, f[t.child[m]["right"]])]
<1>1. Shape(t, L, sub) /\ DOMAIN t.color = L \cup {RBNIL}
  BY DEF Tree, Memory
<1>2. PICK f0 : Strung(t, kind, DOMAIN t.color, f0)
  <2> HIDE DEF g
  <2>1. \E f : Strung(t, kind, L \cup {RBNIL}, f)
    BY ONLY <1>1, StrungExists
  <2> QED  BY ONLY <2>1, <1>1
<1>3. f0 = [m \in DOMAIN t.color |-> IF m = RBNIL THEN << >>
              ELSE Visit(kind, f0[t.child[m]["left"]], m, f0[t.child[m]["right"]])]
  BY ONLY <1>2 DEF Strung
<1>4. g = [m \in DOMAIN t.color |-> IF m = RBNIL THEN << >>
             ELSE Visit(kind, g[t.child[m]["left"]], m, g[t.child[m]["right"]])]
  BY ONLY <1>3
<1>5. Order(t, kind) = g[t.root]
  BY ONLY Zenon DEF Order
<1> HIDE DEF g
<1>6. Strung(t, kind, L \cup {RBNIL}, g)
  BY ONLY <1>1, <1>4 DEF Strung
<1> QED  BY <1>5, <1>6

-----------------------------------------------------------------------------
(* A walk goes into the subtree of n at in[n] and leaves it for out[n].    *)
Enter(in, c, z) == IF c = RBNIL THEN z ELSE in[c]
Leave(out, c, z) == c # RBNIL => out[c] = z

ThreadedAt(kind, next, in, out, l, n, r) ==
  CASE kind = "left_right" -> /\ in[n] = Enter(in, l, n) /\ Leave(out, l, n)
                              /\ next[n] = Enter(in, r, out[n]) /\ Leave(out, r, out[n])
    [] kind = "right_left" -> /\ in[n] = Enter(in, r, n) /\ Leave(out, r, n)
                              /\ next[n] = Enter(in, l, out[n]) /\ Leave(out, l, out[n])
    [] kind = "direct"     -> /\ in[n] = n /\ next[n] = Enter(in, l, Enter(in, r, out[n]))
                              /\ Leave(out, l, Enter(in, r, out[n])) /\ Leave(out, r, out[n])
    [] kind = "inverted"   -> /\ in[n] = Enter(in, l, Enter(in, r, n)) /\ next[n] = out[n]
                              /\ Leave(out, l, Enter(in, r, n)) /\ Leave(out, r, n)

Threaded(t, L, kind, next, in, out) ==
  \A n \in L : ThreadedAt(kind, next, in, out, t.child[n]["left"], n, t.child[n]["right"])

LEMMA ThreadIsChain ==
  ASSUME NEW t, NEW L, NEW sub, Shape(t, L, sub), NEW kind \in Walks, NEW f,
         Strung(t, kind, L \cup {RBNIL}, f), NEW next, NEW in, NEW out, Threaded(t, L, kind, next, in, out)
  PROVE  \A n \in L : Chain(f[n], sub[n], next, in[n], out[n])
<1> DEFINE good == {n \in L : Chain(f[n], sub[n], next, in[n], out[n])}
<1>1. "left" \in Side /\ "right" \in Side /\ RBNIL \notin L /\ sub[RBNIL] = {}
  BY NotNodes DEF Side, Shape
<1>2. f[RBNIL] = << >>
  BY DEF Strung
<1>3. ASSUME NEW n \in L, \A s \in Side : t.child[n][s] \in L => t.child[n][s] \in good
      PROVE  n \in good
  <2>1. PICK l, r : l = t.child[n]["left"] /\ r = t.child[n]["right"]
    OBVIOUS
  <2>2. l \in L \cup {RBNIL} /\ r \in L \cup {RBNIL} /\ sub[n] = {n} \cup sub[l] \cup sub[r]
    <3>1. Branch(t, L, sub, n, "left") /\ Branch(t, L, sub, n, "right")
      BY <1>1 DEF Shape
    <3> QED  BY ONLY <2>1, <3>1 DEF Branch, Opposite
  <2>3. f[n] = Visit(kind, f[l], n, f[r])
    BY <1>1, <2>1 DEF Strung
  <2>4. ThreadedAt(kind, next, in, out, l, n, r)
    BY <2>1 DEF Threaded
  <2>5. ASSUME NEW c \in {l, r}, NEW z, Leave(out, c, z)
        PROVE  Chain(f[c], sub[c], next, Enter(in, c, z), z)
    <3>1. CASE c = RBNIL
      <4>1. f[c] = << >> /\ sub[c] = {} /\ Enter(in, c, z) = z
        BY ONLY <3>1, <1>1, <1>2 DEF Enter
      <4> QED  BY ONLY <4>1, ChainNone
    <3>2. CASE c \in L
      <4>1. c \in good
        BY ONLY <3>2, <1>1, <1>3, <2>1, <2>5
      <4>2. Chain(f[c], sub[c], next, in[c], out[c])
        BY ONLY <4>1
      <4>3. Enter(in, c, z) = in[c] /\ z = out[c]
        BY ONLY <1>1, <2>5, <3>2 DEF Enter, Leave
      <4> QED  BY ONLY <4>2, <4>3
    <3> QED  BY <3>1, <3>2, <2>2
  <2>6. Chain(<<n>>, {n}, next, n, next[n])
    BY ChainOne
  <2> HIDE DEF good
  <2>7. CASE kind = "left_right"
    <3>1. /\ in[n] = Enter(in, l, n) /\ Leave(out, l, n)
          /\ next[n] = Enter(in, r, out[n]) /\ Leave(out, r, out[n])
      BY ONLY <2>4, <2>7 DEF ThreadedAt
    <3>2. Chain(f[l], sub[l], next, in[n], n) /\ Chain(f[r], sub[r], next, next[n], out[n])
      BY ONLY <3>1, <2>5
    <3>3. Chain(f[l] \o <<n>>, sub[l] \cup {n}, next, in[n], next[n])
      BY ONLY <3>2, <2>6, ChainJoin
    <3>4. Chain((f[l] \o <<n>>) \o f[r], (sub[l] \cup {n}) \cup sub[r], next, in[n], out[n])
      BY ONLY <3>2, <3>3, ChainJoin
    <3>5. f[n] = (f[l] \o <<n>>) \o f[r]
      BY ONLY <2>3, <2>7 DEF Visit
    <3>6. sub[n] = (sub[l] \cup {n}) \cup sub[r]
      BY ONLY <2>2
    <3> QED  BY ONLY <3>4, <3>5, <3>6, n \in L DEF good
  <2>8. CASE kind = "right_left"
    <3>1. /\ in[n] = Enter(in, r, n) /\ Leave(out, r, n)
          /\ next[n] = Enter(in, l, out[n]) /\ Leave(out, l, out[n])
      BY ONLY <2>4, <2>8 DEF ThreadedAt
    <3>2. Chain(f[r], sub[r], next, in[n], n) /\ Chain(f[l], sub[l], next, next[n], out[n])
      BY ONLY <3>1, <2>5
    <3>3. Chain(f[r] \o <<n>>, sub[r] \cup {n}, next, in[n], next[n])
      BY ONLY <3>2, <2>6, ChainJoin
    <3>4. Chain((f[r] \o <<n>>) \o f[l], (sub[r] \cup {n}) \cup sub[l], next, in[n], out[n])
      BY ONLY <3>2, <3>3, ChainJoin
    <3>5. f[n] = (f[r] \o <<n>>) \o f[l]
      BY ONLY <2>3, <2>8 DEF Visit
    <3>6. sub[n] = (sub[r] \cup {n}) \cup sub[l]
      BY ONLY <2>2
    <3> QED  BY ONLY <3>4, <3>5, <3>6, n \in L DEF good
  <2>9. CASE kind = "direct"
    <3>1. PICK z : z = Enter(in, r, out[n])
      OBVIOUS
    <3>2. /\ in[n] = n /\ next[n] = Enter(in, l, z) /\ Leave(out, l, z) /\ Leave(out, r, out[n])
      BY ONLY <2>4, <2>9, <3>1 DEF ThreadedAt
    <3>3. Chain(f[l], sub[l], next, next[n], z) /\ Chain(f[r], sub[r], next, z, out[n])
      BY ONLY <3>1, <3>2, <2>5
    <3>4. Chain(<<n>> \o f[l], {n} \cup sub[l], next, n, z)
      BY ONLY <3>3, <2>6, ChainJoin
    <3>5. Chain((<<n>> \o f[l]) \o f[r], ({n} \cup sub[l]) \cup sub[r], next, n, out[n])
      BY ONLY <3>3, <3>4, ChainJoin
    <3>6. f[n] = (<<n>> \o f[l]) \o f[r]
      BY ONLY <2>3, <2>9 DEF Visit
    <3>7. sub[n] = ({n} \cup sub[l]) \cup sub[r]
      BY ONLY <2>2
    <3> QED  BY ONLY <3>2, <3>5, <3>6, <3>7, n \in L DEF good
  <2>10. CASE kind = "inverted"
    <3>1. PICK z : z = Enter(in, r, n)
      OBVIOUS
    <3>2. /\ in[n] = Enter(in, l, z) /\ next[n] = out[n] /\ Leave(out, l, z) /\ Leave(out, r, n)
      BY ONLY <2>4, <2>10, <3>1 DEF ThreadedAt
    <3>3. Chain(f[l], sub[l], next, in[n], z) /\ Chain(f[r], sub[r], next, z, n)
      BY ONLY <3>1, <3>2, <2>5
    <3>4. Chain(f[l] \o f[r], sub[l] \cup sub[r], next, in[n], n)
      BY ONLY <3>3, ChainJoin
    <3>5. Chain((f[l] \o f[r]) \o <<n>>, (sub[l] \cup sub[r]) \cup {n}, next, in[n], next[n])
      BY ONLY <3>4, <2>6, ChainJoin
    <3>6. f[n] = (f[l] \o f[r]) \o <<n>>
      BY ONLY <2>3, <2>10 DEF Visit
    <3>7. sub[n] = (sub[l] \cup sub[r]) \cup {n}
      BY ONLY <2>2
    <3> QED  BY ONLY <3>2, <3>5, <3>6, <3>7, n \in L DEF good
  <2> QED  BY ONLY <2>7, <2>8, <2>9, <2>10, kind \in Walks DEF Walks, InOrderWalks
<1>4. L \subseteq good
  <2> HIDE DEF good
  <2> QED  BY <1>3, TreeInduction
<1> QED  BY <1>4

(* What a walk that is so threaded gives is Order.                         *)
LEMMA ThreadIsOrder ==
  ASSUME NEW t, NEW L, NEW sub, Tree(t, L \cup {RBNIL}, L, sub), L # {}, NEW kind \in Walks,
         NEW next, NEW in, NEW out, Threaded(t, L, kind, next, in, out), out[t.root] = NULL
  PROVE  Chain(Order(t, kind), L, next, in[t.root], NULL)
<1>1. Shape(t, L, sub)
  BY DEF Tree
<1>2. t.root \in L /\ sub[t.root] = L
  BY <1>1 DEF Shape
<1>3. PICK f : Strung(t, kind, L \cup {RBNIL}, f) /\ Order(t, kind) = f[t.root]
  BY OrderIs
<1>4. Chain(f[t.root], sub[t.root], next, in[t.root], out[t.root])
  BY <1>1, <1>2, <1>3, ThreadIsChain
<1> QED  BY ONLY <1>2, <1>3, <1>4, out[t.root] = NULL

-----------------------------------------------------------------------------
(* The loops of the walks, unfolded.                                       *)
LEMMA ExtremeUnfolds ==
  ASSUME NEW t, NEW D, NEW L, NEW sub, Tree(t, D, L, sub), NEW s \in Side, NEW n \in L
  PROVE  Extreme(t, n, s) = IF t.child[n][s] = RBNIL THEN n ELSE Extreme(t, t.child[n][s], s)
<1> DEFINE A == Allocated(t)
           stop == {m \in A : t.child[m][s] = RBNIL}
           val == [m \in A |-> m]
           nxt == [m \in A |-> t.child[m][s]]
           g == CHOOSE f : f = [m \in A |-> IF t.child[m][s] = RBNIL THEN m ELSE f[t.child[m][s]]]
<1>1. L \subseteq A /\ \A m \in A \ stop : nxt[m] \in A
  BY AllocatedIs
<1>2. PICK f0 : Loop(A, stop, val, nxt, f0)
  BY ONLY <1>1, LoopExists
<1>3. f0 = [m \in A |-> IF t.child[m][s] = RBNIL THEN m ELSE f0[t.child[m][s]]]
  BY ONLY <1>2 DEF Loop
<1>4. g = [m \in A |-> IF t.child[m][s] = RBNIL THEN m ELSE g[t.child[m][s]]]
  BY ONLY <1>3
<1>5. \A m : Extreme(t, m, s) = g[m]
  <2> SUFFICES ASSUME NEW m  PROVE Extreme(t, m, s) = g[m]
    OBVIOUS
  <2> QED  BY ONLY Zenon DEF Extreme
<1> HIDE DEF g
<1>6. g[n] = IF t.child[n][s] = RBNIL THEN n ELSE g[t.child[n][s]]
  BY ONLY <1>1, <1>4, n \in L
<1> QED  BY ONLY <1>5, <1>6

LEMMA FirstInvertedUnfolds ==
  ASSUME NEW t, NEW L, NEW sub, Tree(t, L \cup {RBNIL}, L, sub), NEW n \in L,
         NEW e, e = Extreme(t, n, "left"), NEW c, c = t.child[e]["right"]
  PROVE  e \in L /\ c \in L \cup {RBNIL} /\ FirstInverted(t, n) = IF c = RBNIL THEN e ELSE FirstInverted(t, c)
<1> DEFINE A == Allocated(t)
           End(m) == Extreme(t, m, "left")
           stop == {m \in A : t.child[End(m)]["right"] = RBNIL}
           val == [m \in A |-> End(m)]
           nxt == [m \in A |-> t.child[End(m)]["right"]]
           g == CHOOSE f : f = [m \in A |-> IF t.child[End(m)]["right"] = RBNIL THEN End(m)
                                            ELSE f[t.child[End(m)]["right"]]]
<1>1. /\ Shape(t, L, sub) /\ A = L /\ RBNIL \notin L
      /\ "left" \in Side /\ "right" \in Side
  <2>1. Shape(t, L, sub) /\ RBNIL \notin L
    BY NotNodes DEF Tree, Shape
  <2>2. A = (L \cup {RBNIL}) \ {RBNIL}
    BY AllocatedIs
  <2> HIDE DEF A
  <2> QED  BY ONLY <2>1, <2>2 DEF Side
<1>2. ASSUME NEW m \in L
      PROVE  End(m) \in L /\ t.child[End(m)]["right"] \in L \cup {RBNIL}
  <2>1. ExtremeIn(t, L, sub, m, "left", End(m))
    BY <1>1, ExtremeIs
  <2> HIDE DEF End
  <2>2. End(m) \in L
    BY <2>1 DEF ExtremeIn
  <2> QED  BY <2>2, <1>1, Colors
<1>3. \A m \in A \ stop : nxt[m] \in A
  BY <1>1, <1>2
<1>4. PICK f0 : Loop(A, stop, val, nxt, f0)
  BY ONLY <1>3, LoopExists
<1>5. f0 = [m \in A |-> IF t.child[End(m)]["right"] = RBNIL THEN End(m) ELSE f0[t.child[End(m)]["right"]]]
  BY ONLY <1>4 DEF Loop
<1>6. g = [m \in A |-> IF t.child[End(m)]["right"] = RBNIL THEN End(m) ELSE g[t.child[End(m)]["right"]]]
  BY ONLY <1>5
<1>7. \A m : FirstInverted(t, m) = g[m]
  <2> SUFFICES ASSUME NEW m  PROVE FirstInverted(t, m) = g[m]
    OBVIOUS
  <2> QED  BY ONLY Zenon DEF FirstInverted
<1> HIDE DEF g
<1>8. e \in L /\ c \in L \cup {RBNIL} /\ End(n) = e
  BY <1>2
<1> HIDE DEF End
<1>9. g[n] = IF c = RBNIL THEN e ELSE g[c]
  BY ONLY <1>1, <1>6, <1>8, n \in L, c = t.child[e]["right"]
<1> QED  BY ONLY <1>7, <1>8, <1>9

(* The way up of the walks in key order.                                   *)
InOrderUp(t, L, s, up) ==
  /\ \A m \in L : up[m] = IF t.parent[m] = NULL \/ t.child[t.parent[m]][s] = m
                          THEN t.parent[m] ELSE up[t.parent[m]]
  /\ \A m \in L : NextInOrder(t, m, s) = IF t.child[m][Opposite(s)] # RBNIL
                                         THEN Extreme(t, t.child[m][Opposite(s)], s)
                                         ELSE up[m]

LEMMA InOrderUpExists ==
  ASSUME NEW t, NEW D, NEW L, NEW sub, Tree(t, D, L, sub), NEW s \in Side
  PROVE  \E up : InOrderUp(t, L, s, up)
<1> DEFINE A == Allocated(t)
           stop == {m \in A : t.parent[m] = NULL \/ t.child[t.parent[m]][s] = m}
           val == [m \in A |-> t.parent[m]]
           g == CHOOSE f : f = [m \in A |-> IF t.parent[m] = NULL \/ t.child[t.parent[m]][s] = m
                                            THEN t.parent[m] ELSE f[t.parent[m]]]
<1>1. L \subseteq A /\ NULL \notin L /\ \A m \in A \ stop : val[m] \in A
  <2>1. NULL \notin L /\ \A m \in D \ {RBNIL} : t.parent[m] \in (D \ {RBNIL}) \cup {NULL}
    BY NotNodes DEF Tree, Shape, Memory
  <2>2. L \subseteq A /\ A = D \ {RBNIL}
    BY AllocatedIs
  <2> HIDE DEF A
  <2> QED  BY ONLY <2>1, <2>2
<1>2. PICK f0 : Loop(A, stop, val, val, f0)
  BY ONLY <1>1, LoopExists
<1>3. f0 = [m \in A |-> IF t.parent[m] = NULL \/ t.child[t.parent[m]][s] = m
                        THEN t.parent[m] ELSE f0[t.parent[m]]]
  BY ONLY <1>2 DEF Loop
<1>4. g = [m \in A |-> IF t.parent[m] = NULL \/ t.child[t.parent[m]][s] = m
                       THEN t.parent[m] ELSE g[t.parent[m]]]
  BY ONLY <1>3
<1>5. \A m : NextInOrder(t, m, s) = IF m = NULL THEN Extreme(t, t.root, s)
                                    ELSE IF t.child[m][Opposite(s)] # RBNIL
                                         THEN Extreme(t, t.child[m][Opposite(s)], s)
                                         ELSE g[m]
  <2> SUFFICES ASSUME NEW m
               PROVE  NextInOrder(t, m, s) = IF m = NULL THEN Extreme(t, t.root, s)
                                             ELSE IF t.child[m][Opposite(s)] # RBNIL
                                                  THEN Extreme(t, t.child[m][Opposite(s)], s)
                                                  ELSE g[m]
    OBVIOUS
  <2> QED  BY ONLY Zenon DEF NextInOrder
<1> HIDE DEF g
<1>6. \A m \in L : g[m] = IF t.parent[m] = NULL \/ t.child[t.parent[m]][s] = m
                          THEN t.parent[m] ELSE g[t.parent[m]]
  BY ONLY <1>1, <1>4
<1>7. \A m \in L : NextInOrder(t, m, s) = IF t.child[m][Opposite(s)] # RBNIL
                                          THEN Extreme(t, t.child[m][Opposite(s)], s)
                                          ELSE g[m]
  BY ONLY <1>1, <1>5
<1>8. InOrderUp(t, L, s, g)
  BY ONLY <1>6, <1>7 DEF InOrderUp
<1> QED  BY ONLY <1>8

(* The way up of the direct walk.                                          *)
DirectUp(t, L, up) ==
  /\ \A m \in L : up[m] = IF t.parent[m] = NULL THEN NULL
                          ELSE IF t.child[t.parent[m]]["right"] \notin {m, RBNIL}
                               THEN t.child[t.parent[m]]["right"]
                               ELSE up[t.parent[m]]
  /\ \A m \in L : NextDirect(t, m) = IF t.child[m]["left"] # RBNIL THEN t.child[m]["left"]
                                     ELSE IF t.child[m]["right"] # RBNIL THEN t.child[m]["right"]
                                     ELSE up[m]

LEMMA DirectUpExists ==
  ASSUME NEW t, NEW D, NEW L, NEW sub, Tree(t, D, L, sub)
  PROVE  \E up : DirectUp(t, L, up)
<1> DEFINE A == Allocated(t)
           R(n) == t.child[n]["right"]
           stop == {m \in A : t.parent[m] = NULL \/ R(t.parent[m]) \notin {m, RBNIL}}
           val == [m \in A |-> IF t.parent[m] = NULL THEN NULL ELSE R(t.parent[m])]
           nxt == [m \in A |-> t.parent[m]]
           g == CHOOSE f : f = [m \in A |-> IF t.parent[m] = NULL THEN NULL
                                            ELSE IF R(t.parent[m]) \notin {m, RBNIL} THEN R(t.parent[m])
                                            ELSE f[t.parent[m]]]
<1>1. L \subseteq A /\ NULL \notin L /\ \A m \in A \ stop : nxt[m] \in A
  <2>1. NULL \notin L /\ \A m \in D \ {RBNIL} : t.parent[m] \in (D \ {RBNIL}) \cup {NULL}
    BY NotNodes DEF Tree, Shape, Memory
  <2>2. L \subseteq A /\ A = D \ {RBNIL}
    BY AllocatedIs
  <2> HIDE DEF A
  <2> QED  BY ONLY <2>1, <2>2
<1>2. PICK f0 : Loop(A, stop, val, nxt, f0)
  BY ONLY <1>1, LoopExists
<1>3. f0 = [m \in A |-> IF t.parent[m] = NULL THEN NULL
                        ELSE IF R(t.parent[m]) \notin {m, RBNIL} THEN R(t.parent[m])
                        ELSE f0[t.parent[m]]]
  BY ONLY <1>2 DEF Loop
<1>4. g = [m \in A |-> IF t.parent[m] = NULL THEN NULL
                       ELSE IF R(t.parent[m]) \notin {m, RBNIL} THEN R(t.parent[m])
                       ELSE g[t.parent[m]]]
  BY ONLY <1>3
<1>5. \A m : NextDirect(t, m) = IF m = NULL THEN t.root
                                ELSE IF t.child[m]["left"] # RBNIL THEN t.child[m]["left"]
                                ELSE IF R(m) # RBNIL THEN R(m) ELSE g[m]
  <2> SUFFICES ASSUME NEW m
               PROVE  NextDirect(t, m) = IF m = NULL THEN t.root
                                         ELSE IF t.child[m]["left"] # RBNIL THEN t.child[m]["left"]
                                         ELSE IF R(m) # RBNIL THEN R(m) ELSE g[m]
    OBVIOUS
  <2> QED  BY ONLY Zenon DEF NextDirect
<1> HIDE DEF g
<1>6. \A m \in L : g[m] = IF t.parent[m] = NULL THEN NULL
                          ELSE IF R(t.parent[m]) \notin {m, RBNIL} THEN R(t.parent[m])
                          ELSE g[t.parent[m]]
  BY ONLY <1>1, <1>4
<1>7. \A m \in L : NextDirect(t, m) = IF t.child[m]["left"] # RBNIL THEN t.child[m]["left"]
                                      ELSE IF R(m) # RBNIL THEN R(m) ELSE g[m]
  BY ONLY <1>1, <1>5
<1>8. DirectUp(t, L, g)
  BY ONLY <1>6, <1>7 DEF DirectUp
<1> QED  BY ONLY <1>8

-----------------------------------------------------------------------------
(* The four walks are threaded.                                            *)
LEMMA ChildIs ==
  ASSUME NEW t, NEW D, NEW L, NEW sub, Tree(t, D, L, sub), NEW n \in L, NEW s \in Side,
         NEW d, d = t.child[n][s]
  PROVE  /\ d \in L \cup {RBNIL} /\ RBNIL \notin L /\ n # NULL
         /\ d # RBNIL => d \in L /\ t.parent[d] = n /\ t.child[n][Opposite(s)] # d
<1>1. Shape(t, L, sub) /\ RBNIL \notin L /\ NULL \notin L /\ sub[RBNIL] = {}
  BY NotNodes DEF Tree, Shape
<1>2. d \in L \cup {RBNIL} /\ (d # RBNIL => d \in L /\ t.parent[d] = n /\ d \in sub[d])
  BY <1>1, BelowChild
<1>3. Branch(t, L, sub, n, s)
  BY <1>1 DEF Shape
<1>4. sub[d] \cap sub[t.child[n][Opposite(s)]] = {}
  BY <1>3 DEF Branch
<1> QED  BY ONLY <1>1, <1>2, <1>4, n \in L

LEMMA InOrderThreaded ==
  ASSUME NEW t, NEW L, NEW sub, Tree(t, L \cup {RBNIL}, L, sub), L # {}, NEW s \in Side, NEW kind,
         kind = IF s = "left" THEN "left_right" ELSE "right_left",
         NEW next, next = [n \in L |-> NextInOrder(t, n, s)]
  PROVE  Chain(Order(t, kind), L, next, NextInOrder(t, NULL, s), NULL)
<1>1. PICK up : InOrderUp(t, L, s, up)
  BY InOrderUpExists
<1>2. PICK in : in = [n \in L |-> Extreme(t, n, s)]
  OBVIOUS
<1>3. PICK o \in Side : o = Opposite(s) /\ Opposite(o) = s
  BY Sides
<1>4. ASSUME NEW n \in L, NEW c, c = t.child[n][s], NEW d, d = t.child[n][o]
      PROVE  /\ in[n] = Enter(in, c, n) /\ Leave(up, c, n)
             /\ next[n] = Enter(in, d, up[n]) /\ Leave(up, d, up[n])
  <2>1. /\ c \in L \cup {RBNIL} /\ d \in L \cup {RBNIL} /\ RBNIL \notin L /\ n # NULL
        /\ c # RBNIL => c \in L /\ t.parent[c] = n
        /\ d # RBNIL => d \in L /\ t.parent[d] = n /\ c # d
    BY <1>3, <1>4, ChildIs
  <2>2. Extreme(t, n, s) = IF c = RBNIL THEN n ELSE Extreme(t, c, s)
    BY <1>4, ExtremeUnfolds
  <2>3. in[n] = Enter(in, c, n)
    BY ONLY <1>2, <2>1, <2>2, n \in L DEF Enter
  <2>4. Leave(up, c, n)
    BY ONLY <1>1, <1>4, <2>1 DEF Leave, InOrderUp
  <2>5. NextInOrder(t, n, s) = IF d # RBNIL THEN Extreme(t, d, s) ELSE up[n]
    BY ONLY <1>1, <1>3, <1>4 DEF InOrderUp
  <2>6. next[n] = Enter(in, d, up[n])
    BY ONLY <1>2, <2>1, <2>5, n \in L, next = [i \in L |-> NextInOrder(t, i, s)] DEF Enter
  <2>7. Leave(up, d, up[n])
    <3> SUFFICES ASSUME d # RBNIL  PROVE up[d] = up[n]
      BY DEF Leave
    <3>1. d \in L /\ t.parent[d] = n /\ t.child[n][s] # d
      BY ONLY <1>4, <2>1, d # RBNIL
    <3> QED  BY ONLY <1>1, <2>1, <3>1 DEF InOrderUp
  <2> QED  BY ONLY <2>3, <2>4, <2>6, <2>7
<1>5. (s = "left" /\ o = "right" /\ kind = "left_right") \/ (s = "right" /\ o = "left" /\ kind = "right_left")
  BY <1>3 DEF Opposite, Side
<1>6. ASSUME NEW n \in L
      PROVE  ThreadedAt(kind, next, in, up, t.child[n]["left"], n, t.child[n]["right"])
  <2>1. PICK c, d : c = t.child[n][s] /\ d = t.child[n][o]
    OBVIOUS
  <2>2. /\ in[n] = Enter(in, c, n) /\ Leave(up, c, n)
        /\ next[n] = Enter(in, d, up[n]) /\ Leave(up, d, up[n])
    BY <1>4, <2>1
  <2>3. CASE s = "left"
    <3>1. c = t.child[n]["left"] /\ d = t.child[n]["right"] /\ kind = "left_right"
      BY ONLY <1>5, <2>1, <2>3
    <3> QED  BY ONLY <3>1, <2>2 DEF ThreadedAt
  <2>4. CASE s = "right"
    <3>1. d = t.child[n]["left"] /\ c = t.child[n]["right"] /\ kind = "right_left"
      BY ONLY <1>5, <2>1, <2>4
    <3> QED  BY ONLY <3>1, <2>2 DEF ThreadedAt
  <2> QED  BY ONLY <1>5, <2>3, <2>4
<1>7. Threaded(t, L, kind, next, in, up)
  BY ONLY <1>6 DEF Threaded
<1>8. t.root \in L /\ t.parent[t.root] = NULL
  <2>1. Shape(t, L, sub) /\ RBNIL \notin L
    BY NotNodes DEF Tree, Shape
  <2> QED  BY <2>1 DEF Shape
<1>9. up[t.root] = NULL
  BY ONLY <1>1, <1>8 DEF InOrderUp
<1>10. in[t.root] = NextInOrder(t, NULL, s)
  <2>1. NextInOrder(t, NULL, s) = Extreme(t, t.root, s)
    BY DEF NextInOrder
  <2> QED  BY ONLY <2>1, <1>2, <1>8
<1>11. kind \in Walks
  BY ONLY <1>5 DEF Walks, InOrderWalks
<1>12. Chain(Order(t, kind), L, next, in[t.root], NULL)
  BY <1>7, <1>9, <1>11, ThreadIsOrder
<1> QED  BY ONLY <1>10, <1>12

LEMMA DirectThreaded ==
  ASSUME NEW t, NEW L, NEW sub, Tree(t, L \cup {RBNIL}, L, sub), L # {},
         NEW next, next = [n \in L |-> NextDirect(t, n)]
  PROVE  Chain(Order(t, "direct"), L, next, NextDirect(t, NULL), NULL)
<1>1. PICK up : DirectUp(t, L, up)
  BY DirectUpExists
<1>2. PICK in : in = [n \in L |-> n]
  OBVIOUS
<1>3. "left" \in Side /\ "right" \in Side /\ Opposite("right") = "left"
  BY DEF Side, Opposite
<1>4. ASSUME NEW n \in L
      PROVE  ThreadedAt("direct", next, in, up, t.child[n]["left"], n, t.child[n]["right"])
  <2>1. PICK l, r : l = t.child[n]["left"] /\ r = t.child[n]["right"]
    OBVIOUS
  <2>2. /\ l \in L \cup {RBNIL} /\ r \in L \cup {RBNIL} /\ RBNIL \notin L /\ n # NULL
        /\ l # RBNIL => l \in L /\ t.parent[l] = n
        /\ r # RBNIL => r \in L /\ t.parent[r] = n /\ l # r
    BY <1>3, <2>1, ChildIs
  <2>3. PICK z : z = Enter(in, r, up[n])
    OBVIOUS
  <2>4. z = IF r = RBNIL THEN up[n] ELSE r
    BY ONLY <1>2, <2>2, <2>3 DEF Enter
  <2>5. next[n] = IF l # RBNIL THEN l ELSE IF r # RBNIL THEN r ELSE up[n]
    <3>1. next[n] = NextDirect(t, n)
      BY ONLY n \in L, next = [i \in L |-> NextDirect(t, i)]
    <3> QED  BY ONLY <3>1, <1>1, <2>1, n \in L DEF DirectUp
  <2>6. next[n] = Enter(in, l, z)
    BY ONLY <1>2, <2>2, <2>4, <2>5 DEF Enter
  <2>7. Leave(up, l, z)
    <3> SUFFICES ASSUME l # RBNIL  PROVE up[l] = z
      BY DEF Leave
    <3>1. l \in L /\ t.parent[l] = n /\ n # NULL
      BY ONLY <2>2, l # RBNIL
    <3>2. up[l] = IF r \notin {l, RBNIL} THEN r ELSE up[n]
      BY ONLY <1>1, <2>1, <3>1 DEF DirectUp
    <3> QED  BY ONLY <2>2, <2>4, <3>2
  <2>8. Leave(up, r, up[n])
    <3> SUFFICES ASSUME r # RBNIL  PROVE up[r] = up[n]
      BY DEF Leave
    <3>1. r \in L /\ t.parent[r] = n /\ n # NULL
      BY ONLY <2>2, r # RBNIL
    <3> QED  BY ONLY <1>1, <2>1, <3>1 DEF DirectUp
  <2>9. in[n] = n
    BY ONLY <1>2, n \in L
  <2> QED  BY ONLY <2>1, <2>3, <2>6, <2>7, <2>8, <2>9 DEF ThreadedAt
<1>5. Threaded(t, L, "direct", next, in, up)
  BY ONLY <1>4 DEF Threaded
<1>6. t.root \in L /\ t.parent[t.root] = NULL
  <2>1. Shape(t, L, sub) /\ RBNIL \notin L
    BY NotNodes DEF Tree, Shape
  <2> QED  BY <2>1 DEF Shape
<1>7. up[t.root] = NULL
  BY ONLY <1>1, <1>6 DEF DirectUp
<1>8. in[t.root] = NextDirect(t, NULL)
  <2>1. NextDirect(t, NULL) = t.root
    BY DEF NextDirect
  <2> QED  BY ONLY <2>1, <1>2, <1>6
<1>9. "direct" \in Walks
  BY DEF Walks
<1>10. Chain(Order(t, "direct"), L, next, in[t.root], NULL)
  BY <1>5, <1>7, <1>9, ThreadIsOrder
<1> QED  BY ONLY <1>8, <1>10

LEMMA InvertedThreaded ==
  ASSUME NEW t, NEW L, NEW sub, Tree(t, L \cup {RBNIL}, L, sub), L # {},
         NEW next, next = [n \in L |-> NextInverted(t, n, "up")], NEW step
  PROVE  Chain(Order(t, "inverted"), L, next, NextInverted(t, NULL, step), NULL)
<1>1. PICK in : in = [n \in L |-> FirstInverted(t, n)]
  OBVIOUS
<1>2. "left" \in Side /\ "right" \in Side /\ Opposite("right") = "left" /\ Opposite("left") = "right"
  BY DEF Side, Opposite
<1>3. ASSUME NEW n \in L
      PROVE  /\ n # NULL
             /\ \A p : p = t.parent[n] =>
                  next[n] = IF p # NULL /\ t.child[p]["right"] \notin {n, RBNIL}
                            THEN FirstInverted(t, t.child[p]["right"]) ELSE p
  <2>1. n # NULL
    BY NotNodes DEF Tree, Shape
  <2>2. next[n] = NextInverted(t, n, "up")
    BY ONLY n \in L, next = [i \in L |-> NextInverted(t, i, "up")]
  <2> QED  BY ONLY <2>1, <2>2 DEF NextInverted
<1>4. ASSUME NEW n \in L
      PROVE  ThreadedAt("inverted", next, in, next, t.child[n]["left"], n, t.child[n]["right"])
  <2>1. PICK l, r : l = t.child[n]["left"] /\ r = t.child[n]["right"]
    OBVIOUS
  <2>2. /\ l \in L \cup {RBNIL} /\ r \in L \cup {RBNIL} /\ RBNIL \notin L /\ n # NULL
        /\ l # RBNIL => l \in L /\ t.parent[l] = n
        /\ r # RBNIL => r \in L /\ t.parent[r] = n /\ l # r
    BY <1>2, <2>1, ChildIs
  <2>3. PICK z : z = Enter(in, r, n)
    OBVIOUS
  <2>4. z = IF r = RBNIL THEN n ELSE FirstInverted(t, r)
    BY ONLY <1>1, <2>2, <2>3 DEF Enter
  <2>5. in[n] = Enter(in, l, z)
    <3>1. PICK e, c : e = Extreme(t, n, "left") /\ c = t.child[e]["right"]
      OBVIOUS
    <3>2. \A m \in L : e = Extreme(t, m, "left") =>
            FirstInverted(t, m) = IF c = RBNIL THEN e ELSE FirstInverted(t, c)
      BY <3>1, FirstInvertedUnfolds
    <3>3. e = IF l = RBNIL THEN n ELSE Extreme(t, l, "left")
      BY <1>2, <2>1, <3>1, ExtremeUnfolds
    <3>4. CASE l = RBNIL
      <4>1. e = n /\ c = r
        BY ONLY <3>1, <3>3, <3>4, <2>1
      <4>2. FirstInverted(t, n) = z
        BY ONLY <4>1, <3>1, <3>2, <2>4, n \in L
      <4> QED  BY ONLY <4>2, <3>4, <1>1, n \in L DEF Enter
    <3>5. CASE l # RBNIL
      <4>1. l \in L /\ e = Extreme(t, l, "left")
        BY ONLY <2>2, <3>3, <3>5
      <4>2. FirstInverted(t, l) = IF c = RBNIL THEN e ELSE FirstInverted(t, c)
        BY ONLY <4>1, <3>2
      <4>3. FirstInverted(t, n) = FirstInverted(t, l)
        BY ONLY <3>1, <3>2, <4>2, n \in L
      <4> QED  BY ONLY <4>1, <4>3, <3>5, <1>1, n \in L DEF Enter
    <3> QED  BY ONLY <3>4, <3>5
  <2>6. Leave(next, l, z)
    <3> SUFFICES ASSUME l # RBNIL  PROVE next[l] = z
      BY DEF Leave
    <3>1. l \in L /\ t.parent[l] = n /\ n # NULL
      BY ONLY <2>2, l # RBNIL
    <3>2. next[l] = IF r \notin {l, RBNIL} THEN FirstInverted(t, r) ELSE n
      BY ONLY <1>3, <2>1, <3>1
    <3> QED  BY ONLY <2>2, <2>4, <3>2
  <2>7. Leave(next, r, n)
    <3> SUFFICES ASSUME r # RBNIL  PROVE next[r] = n
      BY DEF Leave
    <3>1. r \in L /\ t.parent[r] = n /\ n # NULL
      BY ONLY <2>2, r # RBNIL
    <3> QED  BY ONLY <1>3, <2>1, <3>1
  <2> QED  BY ONLY <2>1, <2>3, <2>5, <2>6, <2>7 DEF ThreadedAt
<1>5. Threaded(t, L, "inverted", next, in, next)
  BY ONLY <1>4 DEF Threaded
<1>6. t.root \in L /\ t.parent[t.root] = NULL
  <2>1. Shape(t, L, sub) /\ RBNIL \notin L
    BY NotNodes DEF Tree, Shape
  <2> QED  BY <2>1 DEF Shape
<1>7. next[t.root] = NULL
  BY ONLY <1>3, <1>6
<1>8. in[t.root] = NextInverted(t, NULL, step)
  <2>1. NextInverted(t, NULL, step) = FirstInverted(t, t.root)
    BY DEF NextInverted
  <2> QED  BY ONLY <2>1, <1>1, <1>6
<1>9. "inverted" \in Walks
  BY DEF Walks
<1>10. Chain(Order(t, "inverted"), L, next, in[t.root], NULL)
  BY <1>5, <1>7, <1>9, ThreadIsOrder
<1> QED  BY ONLY <1>8, <1>10

-----------------------------------------------------------------------------
(* A call of a walk gives the node that Order names.                       *)
LEMMA NextIsChained ==
  ASSUME NEW L, NEW sub, Tree(rb, L \cup {RBNIL}, L, sub), L # {}, WalkIn(walk, L), ~walk.over
  PROVE  \E next, first : /\ Chain(Order(rb, walk.kind), L, next, first, NULL)
                          /\ NextOf(walk) = IF walk.last = NULL THEN first ELSE next[walk.last]
<1>1. walk.kind \in Walks /\ walk.last \in L \cup {NULL} /\ (walk.kind = "inverted" /\ walk.last # NULL => walk.next = "up")
  BY DEF WalkIn
<1>2. "left" \in Side /\ "right" \in Side
  BY DEF Side
<1>3. CASE walk.kind = "left_right"
  <2>1. PICK next : next = [n \in L |-> NextInOrder(rb, n, "left")]
    OBVIOUS
  <2>2. Chain(Order(rb, walk.kind), L, next, NextInOrder(rb, NULL, "left"), NULL)
    BY <1>2, <1>3, <2>1, InOrderThreaded
  <2>3. NextOf(walk) = NextInOrder(rb, walk.last, "left")
    BY ONLY <1>3 DEF NextOf
  <2>4. walk.last # NULL => next[walk.last] = NextInOrder(rb, walk.last, "left")
    BY ONLY <1>1, <2>1
  <2> QED  BY <2>2, <2>3, <2>4
<1>4. CASE walk.kind = "right_left"
  <2>1. PICK next : next = [n \in L |-> NextInOrder(rb, n, "right")]
    OBVIOUS
  <2>2. Chain(Order(rb, walk.kind), L, next, NextInOrder(rb, NULL, "right"), NULL)
    BY <1>2, <1>4, <2>1, InOrderThreaded
  <2>3. NextOf(walk) = NextInOrder(rb, walk.last, "right")
    BY ONLY <1>4 DEF NextOf
  <2>4. walk.last # NULL => next[walk.last] = NextInOrder(rb, walk.last, "right")
    BY ONLY <1>1, <2>1
  <2> QED  BY <2>2, <2>3, <2>4
<1>5. CASE walk.kind = "direct"
  <2>1. PICK next : next = [n \in L |-> NextDirect(rb, n)]
    OBVIOUS
  <2>2. Chain(Order(rb, walk.kind), L, next, NextDirect(rb, NULL), NULL)
    BY <1>5, <2>1, DirectThreaded
  <2>3. NextOf(walk) = NextDirect(rb, walk.last)
    BY ONLY <1>5 DEF NextOf
  <2>4. walk.last # NULL => next[walk.last] = NextDirect(rb, walk.last)
    BY ONLY <1>1, <2>1
  <2> QED  BY <2>2, <2>3, <2>4
<1>6. CASE walk.kind = "inverted"
  <2>1. PICK next : next = [n \in L |-> NextInverted(rb, n, "up")]
    OBVIOUS
  <2>2. Chain(Order(rb, walk.kind), L, next, NextInverted(rb, NULL, walk.next), NULL)
    BY <1>6, <2>1, InvertedThreaded
  <2>3. NextOf(walk) = NextInverted(rb, walk.last, walk.next)
    BY ONLY <1>6 DEF NextOf
  <2>4. walk.last # NULL => next[walk.last] = NextInverted(rb, walk.last, walk.next)
    BY ONLY <1>1, <1>6, <2>1
  <2> QED  BY <2>2, <2>3, <2>4
<1> QED  BY ONLY <1>1, <1>3, <1>4, <1>5, <1>6 DEF Walks, InOrderWalks

Follows ==
  CallReturns =>
    LET o == Order(rb, walk.kind)
    IN IF walk.last = NULL THEN walk'.last = o[1]
       ELSE \E i \in 1..Len(o) :
              o[i] = walk.last /\ walk'.last = IF i = Len(o) THEN NULL ELSE o[i + 1]

LEMMA WalkNextFollows ==
  ASSUME IInv, WalkNext
  PROVE  Follows
<1>1. PICK L, sub, h : StateIn(rb, op, L, sub, h) /\ WalkIn(walk, L)
  BY DEF IInv
<1>2. PICK z : z = NextOf(walk)
  OBVIOUS
<1>3. /\ op = Idle /\ ~walk.over
      /\ walk' = [walk EXCEPT !.last = z, !.over = z = NULL,
                              !.next = IF walk.kind = "inverted" THEN "up" ELSE @]
  BY <1>2 DEF WalkNext
<1>4. Tree(rb, L \cup {RBNIL}, L, sub)
  BY <1>1, <1>3, IdleIs DEF RedBlack
<1>5. /\ walk \in [kind : Walks \cup {"none"}, last : L \cup {NULL}, over : BOOLEAN, next : {"none", "up"}]
      /\ L # {}
  BY <1>1, <1>3 DEF WalkIn
<1>6. walk'.last = z
  BY ONLY <1>3, <1>5
<1>7. PICK o : o = Order(rb, walk.kind)
  OBVIOUS
<1>8. PICK next, first : /\ Chain(o, L, next, first, NULL)
                         /\ z = IF walk.last = NULL THEN first ELSE next[walk.last]
  BY <1>1, <1>2, <1>3, <1>4, <1>5, <1>7, NextIsChained
<1>9. CASE walk.last = NULL
  <2>1. Len(o) # 0
    <3>1. PICK e \in L : TRUE
      BY <1>5
    <3>2. PICK i \in 1..Len(o) : o[i] = e
      BY ONLY <1>8, <3>1 DEF Chain
    <3>3. Len(o) \in Nat
      BY ONLY <1>8, LenProperties DEF Chain
    <3> QED  BY ONLY <3>2, <3>3
  <2>2. z = o[1]
    BY ONLY <2>1, <1>8, <1>9 DEF Chain
  <2> QED  BY ONLY <2>2, <1>6, <1>7, <1>9 DEF Follows
<1>10. CASE walk.last # NULL
  <2>1. walk.last \in L
    BY ONLY <1>5, <1>10
  <2>2. PICK i \in 1..Len(o) : o[i] = walk.last
    BY ONLY <1>8, <2>1 DEF Chain
  <2>3. next[o[i]] = IF i = Len(o) THEN NULL ELSE o[i + 1]
    BY ONLY <1>8, <2>2 DEF Chain
  <2>4. walk'.last = IF i = Len(o) THEN NULL ELSE o[i + 1]
    BY ONLY <1>6, <1>8, <1>10, <2>2, <2>3
  <2> QED  BY ONLY <2>2, <2>4, <1>7, <1>10 DEF Follows
<1> QED  BY <1>9, <1>10

(* No other step is a call that returns.                                   *)
LEMMA OthersDoNotReturn ==
  ASSUME IInv, Next, ~WalkNext
  PROVE  Follows
<1> SUFFICES ASSUME CallReturns  PROVE FALSE
  BY DEF Follows
<1>1. PICK L, sub, h : StateIn(rb, op, L, sub, h) /\ WalkIn(walk, L)
  BY DEF IInv
<1>2. ~walk.over /\ walk' # walk /\ walk'.kind = walk.kind /\ (walk'.over \/ walk'.last # NULL)
  BY DEF CallReturns
<1>3. walk.kind \in Walks /\ L # {}
  BY <1>1, <1>2 DEF WalkIn
<1>4. walk' # NoWalk
  <2>1. NoWalk.kind \notin Walks
    BY DEF NoWalk, Walks, InOrderWalks
  <2> QED  BY ONLY <2>1, <1>2, <1>3
<1>5. \A k \in Key : ~Insert(k)
  BY ONLY <1>2, <1>4 DEF Insert, WalkAfterInsert
<1>6. ~InsertFixup /\ ~InsertReturns /\ ~DeleteFixup /\ ~DeleteReturns
  BY ONLY <1>2 DEF InsertFixup, InsertReturns, DeleteFixup, DeleteReturns
<1>7. ~Clear /\ \A n \in Allocated(rb) : ~Delete(n)
  BY ONLY <1>4 DEF Clear, Delete
<1>8. ASSUME NEW kind \in Walks, BeginWalk(kind)  PROVE FALSE
  <2>1. op = Idle /\ walk' = [kind |-> kind, last |-> NULL, over |-> rb.root = RBNIL, next |-> "none"]
    BY ONLY <1>8 DEF BeginWalk
  <2>2. Shape(rb, L, sub) /\ sub[RBNIL] = {}
    BY <1>1, <2>1, IdleIs DEF RedBlack, Tree, Shape
  <2>3. rb.root # RBNIL
    BY ONLY <1>3, <2>2 DEF Shape
  <2> QED  BY ONLY <1>2, <2>1, <2>3
<1> QED  BY ONLY Next, ~WalkNext, <1>5, <1>6, <1>7, <1>8 DEF Next

(* Each walk visits every node once, in the order of its kind, whatever    *)
(* the tree (rb_left_right_walk, rb_right_left_walk, rb_direct_walk,       *)
(* rb_inverted_walk).                                                      *)
THEOREM WalksInOrder ==
  Spec => WalksFollowTheOrder
<1>1. IInv /\ [Next]_vars => [Follows]_walk
  <2> SUFFICES ASSUME IInv, [Next]_vars, walk' # walk  PROVE Follows
    OBVIOUS
  <2>1. Next
    BY DEF vars
  <2> QED  BY <2>1, WalkNextFollows, OthersDoNotReturn
<1> QED  BY <1>1, Invariant, PTL DEF Spec, WalksFollowTheOrder, Follows

==============================================================================
