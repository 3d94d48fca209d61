---------------------------- MODULE RbTreeProofs ----------------------------
(* Theorems about RbTree, for any keys and nodes.                           *)
EXTENDS RbTreeFixup

-----------------------------------------------------------------------------
(***************************************************************************)
(* rb_insert.                                                              *)
(***************************************************************************)

LEMMA AllocatedIs ==
  ASSUME NEW t, NEW D, NEW L, NEW sub, Tree(t, D, L, sub)
  PROVE  /\ Allocated(t) = D \ {RBNIL} /\ L \subseteq Allocated(t)
         /\ \A n \in Allocated(t), r \in Side : t.child[n][r] # RBNIL => t.child[n][r] \in Allocated(t)
BY NotNodes DEF Tree, Memory, Allocated, Shape

(* p is where k is, or where the way down to it ends.                      *)
PlaceFor(t, L, sub, k, p) ==
  /\ p \in L /\ (t.data[p] = k \/ t.child[p][Toward(t, p, k)] = RBNIL)
  /\ \A q \in L, r \in Side : p \in sub[t.child[q][r]] => r = Toward(t, q, k) /\ t.data[q] # k

LEMMA RootIsAbove ==
  ASSUME NEW t, NEW D, NEW L, NEW sub, Tree(t, D, L, sub), t.root # RBNIL
  PROVE  \A q \in L, r \in Side : t.root \notin sub[t.child[q][r]]
<1> SUFFICES ASSUME NEW q \in L, NEW r \in Side, t.root \in sub[t.child[q][r]]  PROVE FALSE
  OBVIOUS
<1>1. Shape(t, L, sub) /\ sub[t.root] = L /\ sub[RBNIL] = {}
  BY DEF Tree, Shape
<1>2. PICK c : c = t.child[q][r]
  OBVIOUS
<1>3. c \in L \cup {RBNIL} /\ q \notin sub[c]
  BY ONLY <1>1, <1>2, BelowChild
<1>4. c \in L
  BY <1>1, <1>2, <1>3
<1>5. sub[t.root] \subseteq sub[c]
  BY <1>1, <1>2, <1>4, BelowBelow
<1> QED  BY <1>1, <1>3, <1>5

LEMMA PlaceIs ==
  ASSUME NEW t, NEW D, NEW L, NEW sub, Tree(t, D, L, sub), t.root # RBNIL, NEW k
  PROVE  PlaceFor(t, L, sub, k, Place(t, k))
<1> DEFINE A == Allocated(t)
           stop == {n \in A : t.data[n] = k \/ t.child[n][Toward(t, n, k)] = RBNIL}
           val == [n \in A |-> n]
           nxt == [n \in A |-> t.child[n][Toward(t, n, k)]]
           g == CHOOSE f : f = [n \in A |-> IF t.data[n] = k \/ t.child[n][Toward(t, n, k)] = RBNIL
                                            THEN n ELSE f[t.child[n][Toward(t, n, k)]]]
           C == {m \in L : \A q \in L, r \in Side :
                             m \in sub[t.child[q][r]] => r = Toward(t, q, k) /\ t.data[q] # k}
           rank == [m \in L |-> Cardinality(sub[m])]
<1>1. \A n : Toward(t, n, k) \in Side
  BY DEF Toward, Side
<1>2. \A m \in A \ stop : nxt[m] \in A
  BY <1>1, AllocatedIs
<1>3. PICK f0 : Loop(A, stop, val, nxt, f0)
  BY ONLY <1>2, LoopExists
<1>4. f0 = [n \in A |-> IF t.data[n] = k \/ t.child[n][Toward(t, n, k)] = RBNIL
                        THEN n ELSE f0[t.child[n][Toward(t, n, k)]]]
  BY ONLY <1>3 DEF Loop
<1>5. g = [n \in A |-> IF t.data[n] = k \/ t.child[n][Toward(t, n, k)] = RBNIL
                       THEN n ELSE g[t.child[n][Toward(t, n, k)]]]
  BY ONLY <1>4
<1>6. Loop(A, stop, val, nxt, g)
  <2> HIDE DEF g
  <2> QED  BY ONLY <1>5 DEF Loop
<1>7. Place(t, k) = g[t.root]
  BY ONLY Zenon DEF Place
<1> HIDE DEF g
<1>8. Shape(t, L, sub) /\ t.root \in L /\ L \subseteq A /\ C \subseteq A
  BY AllocatedIs DEF Tree, Shape
<1>9. \A m \in C : rank[m] \in Nat
  BY <1>8, BelowNode, FS_CardinalityType
<1>10. \A m \in C \ stop : nxt[m] \in C /\ rank[nxt[m]] < rank[m]
  <2> SUFFICES ASSUME NEW m \in C \ stop  PROVE nxt[m] \in C /\ rank[nxt[m]] < rank[m]
    OBVIOUS
  <2>1. PICK s, c : s = Toward(t, m, k) /\ c = t.child[m][s]
    OBVIOUS
  <2>2. m \in L /\ c # RBNIL /\ t.data[m] # k /\ nxt[m] = c /\ s \in Side
    BY <1>1, <1>8, <2>1
  <2>3. c \in L /\ t.parent[c] = m /\ Cardinality(sub[c]) < Cardinality(sub[m])
    BY <1>8, <2>1, <2>2, BelowChild
  <2>4. ASSUME NEW q \in L, NEW r \in Side, c \in sub[t.child[q][r]]
        PROVE  r = Toward(t, q, k) /\ t.data[q] # k
    <3>1. PICK e : e = t.child[q][r]
      OBVIOUS
    <3>2. e \in L \cup {RBNIL} /\ sub[RBNIL] = {} /\ (e # RBNIL => t.parent[e] = q)
      BY <3>1, <1>8, BelowChild DEF Shape
    <3>3. e \in L
      BY <2>4, <3>1, <3>2
    <3>4. CASE c = e
      <4>1. q = m
        BY <2>2, <2>3, <3>2, <3>4
      <4>2. r = s
        <5>1. t.child[m][r] = c /\ t.child[m][s] = c
          BY <4>1, <3>1, <3>4, <2>1
        <5>2. t.child[m][s] # t.child[m][Opposite(s)]
          BY <5>1, <2>2, ChildOf
        <5>3. r = s \/ r = Opposite(s)
          BY <2>2, Sides
        <5> QED  BY ONLY <5>1, <5>2, <5>3
      <4> QED  BY <4>1, <4>2, <2>1, <2>2
    <3>5. CASE c # e
      <4>1. m \in sub[e]
        BY <3>1, <3>3, <3>5, <2>3, <2>4, <1>8, ParentBelow
      <4> QED  BY <4>1, <3>1
    <3> QED  BY <3>4, <3>5
  <2> QED  BY <2>2, <2>3, <2>4
<1>11. t.root \in C
  BY <1>8, RootIsAbove
<1>12. \A m \in C : \E e \in C \cap stop : g[m] = val[e]
  <2> HIDE DEF A, stop, val, nxt, C, rank, g
  <2> QED  BY ONLY <1>6, <1>8, <1>9, <1>10, LoopEnds
<1>13. PICK e \in C \cap stop : g[t.root] = e
  BY <1>11, <1>12
<1> QED  BY <1>7, <1>13 DEF PlaceFor

(* What Attach changes.  s is the side of p on which x hangs.              *)
Attached(t, u, D, x, p, s, k) ==
  /\ u.root = (IF p = NULL THEN x ELSE t.root)
  /\ u.color[x] = RBRED /\ u.parent[x] = p /\ u.data[x] = k
  /\ \A r \in Side : u.child[x][r] = RBNIL
  /\ \A n \in D : u.color[n] = t.color[n] /\ u.parent[n] = t.parent[n] /\ u.data[n] = t.data[n]
  /\ \A n \in D, r \in Side : u.child[n][r] = IF n = p /\ r = s THEN x ELSE t.child[n][r]

LEMMA AttachLinks ==
  ASSUME NEW t, NEW D, Memory(t, D), NEW x \in Node \ D, NEW k \in Key,
         NEW p, p = IF t.root = RBNIL THEN NULL ELSE Place(t, k), p \in (D \ {RBNIL}) \cup {NULL},
         NEW s, s = Toward(t, p, k), NEW u, u = Attach(t, x, k)
  PROVE  Attached(t, u, D, x, p, s, k) /\ Memory(u, D \cup {x})
<1>1. /\ t.root \in D /\ t.color \in [D -> {RBBLACK, RBRED}] /\ t.child \in [D -> [Side -> D]]
      /\ t.parent \in [D -> Node \cup {NULL}] /\ t.data \in [D -> Key \cup {NULL}]
      /\ D \subseteq Addr /\ RBNIL \in D
  BY DEF Memory
<1>2. s \in Side /\ NULL \notin D /\ x # NULL
  BY <1>1, RbTreeAssumption DEF Toward, Side, Addr
<1>3. PICK ch : ch = IF p = NULL THEN t.child ELSE [t.child EXCEPT ![p][s] = x]
  OBVIOUS
<1>4. u = [root   |-> IF p = NULL THEN x ELSE t.root,
           color  |-> Put(t.color, x, RBRED),
           child  |-> Put(ch, x, [r \in Side |-> RBNIL]),
           parent |-> Put(t.parent, x, p),
           data   |-> Put(t.data, x, k)]
  BY ONLY <1>3, u = Attach(t, x, k), s = Toward(t, p, k), p = IF t.root = RBNIL THEN NULL ELSE Place(t, k) DEF Attach
<1>5. /\ DOMAIN u = {"root", "color", "child", "parent", "data"}
      /\ u.root = (IF p = NULL THEN x ELSE t.root) /\ u.color = Put(t.color, x, RBRED)
      /\ u.child = Put(ch, x, [r \in Side |-> RBNIL]) /\ u.parent = Put(t.parent, x, p)
      /\ u.data = Put(t.data, x, k)
  BY ONLY <1>4
<1>6. /\ DOMAIN ch = D
      /\ \A n \in D : /\ ch[n] \in [Side -> D \cup {x}]
                      /\ \A r \in Side : ch[n][r] = IF n = p /\ r = s THEN x ELSE t.child[n][r]
  <2>1. CASE p = NULL
    BY ONLY <2>1, <1>1, <1>2, <1>3
  <2>2. CASE p # NULL
    <3>1. p \in D /\ ch = [t.child EXCEPT ![p][s] = x]
      BY <2>2, <1>3
    <3> QED  BY ONLY <3>1, <1>1, <1>2
  <2> QED  BY <2>1, <2>2
<1>7. /\ u.color \in [D \cup {x} -> {RBBLACK, RBRED}] /\ u.color[x] = RBRED
      /\ \A n \in D : u.color[n] = t.color[n]
  BY <1>1, <1>5 DEF Put
<1>8. /\ u.parent \in [D \cup {x} -> Node \cup {NULL}] /\ u.parent[x] = p
      /\ \A n \in D : u.parent[n] = t.parent[n]
  BY <1>1, <1>5 DEF Put, Addr
<1>9. /\ u.data \in [D \cup {x} -> Key \cup {NULL}] /\ u.data[x] = k
      /\ \A n \in D : u.data[n] = t.data[n]
  BY <1>1, <1>5 DEF Put
<1>10. /\ u.child \in [D \cup {x} -> [Side -> D \cup {x}]] /\ \A r \in Side : u.child[x][r] = RBNIL
       /\ \A n \in D : u.child[n] = ch[n]
  <2>1. [r \in Side |-> RBNIL] \in [Side -> D \cup {x}]
    BY <1>1
  <2>2. /\ DOMAIN u.child = D \cup {x} /\ u.child[x] = [r \in Side |-> RBNIL]
        /\ \A n \in D : u.child[n] = ch[n]
    BY <1>5, <1>6 DEF Put
  <2>3. u.child = [n \in D \cup {x} |-> u.child[n]]
    BY <1>5, <1>6 DEF Put
  <2> QED  BY <2>1, <2>2, <2>3, <1>6
<1>11. u.root \in D \cup {x} /\ D \cup {x} \subseteq Addr
  BY <1>1, <1>5 DEF Addr
<1>12. Attached(t, u, D, x, p, s, k)
  BY ONLY <1>5, <1>6, <1>7, <1>8, <1>9, <1>10 DEF Attached
<1>13. Memory(u, D \cup {x})
  <2>1. \A n \in D \ {RBNIL} : t.parent[n] \in (D \ {RBNIL}) \cup {NULL}
    BY DEF Memory
  <2>2. \A n \in (D \cup {x}) \ {RBNIL} : u.parent[n] \in ((D \cup {x}) \ {RBNIL}) \cup {NULL}
    BY <2>1, <1>8
  <2> QED  BY ONLY <2>2, <1>1, <1>5, <1>7, <1>8, <1>9, <1>10, <1>11 DEF Memory
<1> QED  BY <1>12, <1>13

AttachedSub(L, sub, x, p) ==
  [n \in L \cup {x, RBNIL} |->
     IF n = x THEN {x} ELSE IF p # NULL /\ p \in sub[n] THEN sub[n] \cup {x} ELSE sub[n]]

AttachedLink(u, L, sub, v, x, p, s, n, r, c, e) ==
  /\ v[e] = sub[c] \cup (IF (n = p /\ r = s) \/ p \in sub[c] THEN {x} ELSE {})
  /\ e \in (L \cup {x}) \cup {RBNIL}
  /\ e # RBNIL => u.parent[e] = n
  /\ x \notin sub[c] /\ n \notin sub[c]

LEMMA AttachShape ==
  ASSUME NEW t, NEW u, NEW D, NEW L, L \cup {RBNIL} \subseteq D, NEW sub, Shape(t, L, sub), Memory(t, D),
         NEW x \in Node \ D, NEW p, NEW s \in Side, NEW k, Attached(t, u, D, x, p, s, k),
         t.root = RBNIL => p = NULL,
         t.root # RBNIL => p \in L /\ t.child[p][s] = RBNIL,
         NEW v, v = AttachedSub(L, sub, x, p)
  PROVE  Shape(u, L \cup {x}, v)
<1>1. /\ IsFiniteSet(L) /\ L \subseteq Node
      /\ sub \in [L \cup {RBNIL} -> SUBSET L] /\ sub[RBNIL] = {}
      /\ t.root \in L \cup {RBNIL} /\ sub[t.root] = L
      /\ t.root # RBNIL => t.parent[t.root] = NULL
      /\ \A n \in L, r \in Side : Branch(t, L, sub, n, r)
  BY DEF Shape
<1>2. RBNIL \notin L /\ NULL \notin L /\ x \notin L /\ x # RBNIL /\ x # NULL /\ NULL # RBNIL /\ L \subseteq D
  BY <1>1, RbTreeAssumption
<1>3. /\ DOMAIN v = L \cup {x, RBNIL} /\ v[x] = {x} /\ v[RBNIL] = {}
      /\ \A n \in L : v[n] = sub[n] \cup (IF p \in sub[n] THEN {x} ELSE {})
  <2>1. \A n \in L : p \in sub[n] => p # NULL
    BY <1>1, <1>2
  <2> QED  BY ONLY <2>1, <1>1, <1>2, v = AttachedSub(L, sub, x, p) DEF AttachedSub
<1>4. v \in [(L \cup {x}) \cup {RBNIL} -> SUBSET (L \cup {x})]
  <2>1. \A n \in L \cup {x, RBNIL} : v[n] \in SUBSET (L \cup {x})
    BY <1>1, <1>3
  <2>2. v = [n \in L \cup {x, RBNIL} |-> v[n]]
    BY ONLY v = AttachedSub(L, sub, x, p) DEF AttachedSub
  <2> QED  BY ONLY <2>1, <2>2
<1>5. /\ u.root \in (L \cup {x}) \cup {RBNIL} /\ v[u.root] = L \cup {x}
      /\ u.root # RBNIL => u.parent[u.root] = NULL
  <2>1. CASE t.root = RBNIL
    BY <2>1, <1>1, <1>2, <1>3 DEF Attached
  <2>2. CASE t.root # RBNIL
    <3>1. t.root \in L /\ p \in L /\ p # NULL /\ u.root = t.root /\ u.parent[t.root] = t.parent[t.root]
      BY <2>2, <1>1, <1>2 DEF Attached
    <3> QED  BY <3>1, <1>1, <1>2, <1>3
  <2> QED  BY <2>1, <2>2
<1>6. ASSUME NEW n \in L, NEW r \in Side
      PROVE  AttachedLink(u, L, sub, v, x, p, s, n, r, t.child[n][r], u.child[n][r])
  <2>0. PICK c, e : c = t.child[n][r] /\ e = u.child[n][r]
    OBVIOUS
  <2>1. c \in L \cup {RBNIL} /\ (c # RBNIL => t.parent[c] = n) /\ n \notin sub[c]
    BY <2>0, BelowChild
  <2>2. sub[c] \subseteq L /\ x \notin sub[c]
    BY <2>1, <1>1, <1>2
  <2>3. CASE n = p /\ r = s
    <3>1. e = x /\ c = RBNIL /\ u.parent[x] = p
      BY <2>0, <2>3, <1>1, <1>2 DEF Attached
    <3> QED  BY ONLY <3>1, <2>0, <2>1, <2>2, <2>3, <1>1, <1>3 DEF AttachedLink
  <2>4. CASE ~(n = p /\ r = s)
    <3>1. e = c /\ n \in D
      BY <2>0, <2>4, <1>2 DEF Attached
    <3>2. c # RBNIL => c \in D /\ u.parent[c] = n
      BY <2>1, <1>2 DEF Attached
    <3>3. v[c] = sub[c] \cup (IF p \in sub[c] THEN {x} ELSE {})
      BY <2>1, <1>1, <1>3
    <3> QED  BY ONLY <3>1, <3>2, <3>3, <2>0, <2>1, <2>2, <2>4 DEF AttachedLink
  <2> QED  BY <2>3, <2>4
<1>7. ASSUME NEW n \in L, NEW r \in Side  PROVE Branch(u, L \cup {x}, v, n, r)
  <2>1. PICK o : o = Opposite(r)
    OBVIOUS
  <2>2. PICK c, d, e, f : c = t.child[n][r] /\ d = t.child[n][o] /\ e = u.child[n][r] /\ f = u.child[n][o]
    OBVIOUS
  <2>3. o \in Side /\ o # r /\ (s = r \/ s = o)
    BY <2>1, Sides
  <2>4. sub[n] = {n} \cup sub[c] \cup sub[d] /\ sub[c] \cap sub[d] = {}
    BY <1>1, <2>1, <2>2 DEF Branch
  <2>5. AttachedLink(u, L, sub, v, x, p, s, n, r, c, e)
    BY <1>6, <2>2
  <2>6. AttachedLink(u, L, sub, v, x, p, s, n, o, d, f)
    BY <1>6, <2>2, <2>3
  <2>7. v[n] = sub[n] \cup (IF p \in sub[n] THEN {x} ELSE {}) /\ n # x
    BY <1>2, <1>3
  <2>8. v[n] = {n} \cup v[e] \cup v[f]
    BY ONLY <2>3, <2>4, <2>5, <2>6, <2>7 DEF AttachedLink
  <2>9. n \notin v[e] /\ v[e] \cap v[f] = {}
    BY ONLY <2>3, <2>4, <2>5, <2>6, <2>7 DEF AttachedLink
  <2> QED  BY <2>1, <2>2, <2>5, <2>8, <2>9 DEF Branch, AttachedLink
<1>8. ASSUME NEW r \in Side  PROVE Branch(u, L \cup {x}, v, x, r)
  <2>1. u.child[x][r] = RBNIL /\ u.child[x][Opposite(r)] = RBNIL
    BY Sides DEF Attached
  <2> QED  BY <2>1, <1>3 DEF Branch
<1>9. IsFiniteSet(L \cup {x}) /\ L \cup {x} \subseteq Node
  BY <1>1, FS_AddElement
<1>10. \A n \in L \cup {x}, r \in Side : Branch(u, L \cup {x}, v, n, r)
  BY <1>7, <1>8
<1> QED  BY ONLY <1>3, <1>4, <1>5, <1>9, <1>10 DEF Shape

LEMMA AttachSorted ==
  ASSUME NEW t, NEW u, NEW D, NEW L, NEW sub, Tree(t, D, L, sub),
         NEW x \in Node \ D, NEW p, NEW k \in Key, NEW s, s = Toward(t, p, k),
         Attached(t, u, D, x, p, s, k),
         t.root = RBNIL => p = NULL,
         t.root # RBNIL => PlaceFor(t, L, sub, k, p) /\ t.data[p] # k,
         NEW v, v = AttachedSub(L, sub, x, p)
  PROVE  Sorted(u, L \cup {x}, v)
<1>1. /\ Shape(t, L, sub) /\ L \cup {RBNIL} \subseteq D /\ RBNIL \notin L /\ NULL \notin L
      /\ sub \in [L \cup {RBNIL} -> SUBSET L] /\ sub[RBNIL] = {} /\ Sorted(t, L, sub)
      /\ x \notin D /\ x # RBNIL /\ x # NULL /\ sub[t.root] = L
  BY NotNodes, RbTreeAssumption DEF Tree, Shape
<1>2. /\ v[x] = {x} /\ v[RBNIL] = {}
      /\ \A n \in L : v[n] = sub[n] \cup (IF p \in sub[n] THEN {x} ELSE {})
  BY <1>1 DEF AttachedSub
<1>3. u.data[x] = k /\ \A n \in L : u.data[n] = t.data[n] /\ t.data[n] \in Key
  BY <1>1 DEF Attached, Sorted
<1>4. \A n \in L, r \in Side : t.data[n] # k /\ r = Toward(t, n, k) => Before(r, k, t.data[n])
  <2> SUFFICES ASSUME NEW n \in L, NEW r \in Side, t.data[n] # k, r = Toward(t, n, k)
               PROVE  Before(r, k, t.data[n])
    OBVIOUS
  <2>1. PICK i : i = t.data[n]
    OBVIOUS
  <2>2. i \in Int /\ k \in Int /\ i # k
    BY <2>1, <1>3, RbTreeAssumption
  <2>3. r = IF k < i THEN "left" ELSE "right"
    BY <2>1 DEF Toward
  <2>4. Before(r, k, i)
    BY ONLY <2>2, <2>3 DEF Before
  <2> QED  BY <2>1, <2>4
<1>5. ASSUME NEW n \in L, NEW r \in Side, NEW m \in v[u.child[n][r]]
      PROVE  Before(r, u.data[m], u.data[n])
  <2>1. PICK c, e : c = t.child[n][r] /\ e = u.child[n][r]
    OBVIOUS
  <2>2. t.root # RBNIL /\ PlaceFor(t, L, sub, k, p) /\ t.data[p] # k
    BY <1>1
  <2>3. c \in L \cup {RBNIL} /\ sub[c] \subseteq L /\ x \notin L
    BY <2>1, <1>1, BelowChild
  <2>4. e = IF n = p /\ r = s THEN x ELSE c
    BY <2>1, <1>1 DEF Attached
  <2>5. CASE m = x
    <3>1. (n = p /\ r = s) \/ p \in sub[c]
      BY ONLY <2>1, <2>3, <2>4, <2>5, <1>1, <1>2, <1>5
    <3>2. r = Toward(t, n, k) /\ t.data[n] # k
      BY <3>1, <2>1, <2>2 DEF PlaceFor
    <3> QED  BY <3>2, <2>5, <1>3, <1>4
  <2>6. CASE m # x
    <3>1. m \in sub[c]
      BY ONLY <2>1, <2>3, <2>4, <2>6, <1>1, <1>2, <1>5
    <3>2. Before(r, t.data[m], t.data[n]) /\ m \in L
      BY <3>1, <2>1, <2>3, <1>1 DEF Sorted
    <3> QED  BY <3>2, <1>3
  <2> QED  BY <2>5, <2>6
<1>6. \A r \in Side : v[u.child[x][r]] = {}
  BY <1>2 DEF Attached
<1> QED  BY <1>3, <1>5, <1>6 DEF Sorted

(* rb_insert hangs a red leaf where the key belongs.                       *)
LEMMA AttachStarts ==
  ASSUME NEW t, NEW D, NEW L, NEW sub, NEW h, RedBlack(t, D, L, sub, h),
         NEW k \in Key, Find(t, k) = NULL, NEW x \in Node \ D, NEW u, u = Attach(t, x, k)
  PROVE  /\ \E v, g : Inserting(u, D \cup {x}, L \cup {x}, v, g, x)
         /\ u.data[x] = k /\ \A n \in L : u.data[n] = t.data[n]
<1>1. PICK p, s : p = (IF t.root = RBNIL THEN NULL ELSE Place(t, k)) /\ s = Toward(t, p, k)
  OBVIOUS
<1>2. /\ Tree(t, D, L, sub) /\ Levels(t, L, h, {}) /\ RedsOnly(t, L, {}, {})
      /\ Memory(t, D) /\ Shape(t, L, sub) /\ L \cup {RBNIL} \subseteq D /\ RBNIL \notin L /\ NULL \notin L
      /\ Sentinel(t) /\ sub[t.root] = L /\ sub[RBNIL] = {} /\ t.root \in L \cup {RBNIL}
  BY NotNodes DEF RedBlack, Tree, Shape
<1>3. t.root = RBNIL => p = NULL
  BY <1>1
<1>4. t.root # RBNIL => PlaceFor(t, L, sub, k, p) /\ t.data[p] # k
  <2> SUFFICES ASSUME t.root # RBNIL  PROVE PlaceFor(t, L, sub, k, p) /\ t.data[p] # k
    OBVIOUS
  <2>1. p = Place(t, k)
    BY <1>1
  <2>2. PlaceFor(t, L, sub, k, p)
    BY <2>1, <1>2, PlaceIs
  <2>3. p # NULL
    BY <2>2, <1>2 DEF PlaceFor
  <2> QED  BY <2>1, <2>2, <2>3 DEF Find
<1>5. p \in (D \ {RBNIL}) \cup {NULL} /\ (t.root # RBNIL => p \in L /\ t.child[p][s] = RBNIL)
  BY <1>1, <1>2, <1>3, <1>4 DEF PlaceFor
<1>6. s \in Side
  BY <1>1 DEF Toward, Side
<1>7. Attached(t, u, D, x, p, s, k) /\ Memory(u, D \cup {x})
  BY ONLY <1>1, <1>2, <1>5, AttachLinks, x \in Node \ D, k \in Key, u = Attach(t, x, k)
<1>8. PICK v : v = AttachedSub(L, sub, x, p)
  OBVIOUS
<1>9. Shape(u, L \cup {x}, v)
  BY <1>2, <1>3, <1>5, <1>6, <1>7, <1>8, AttachShape
<1>10. Sorted(u, L \cup {x}, v)
  BY <1>1, <1>2, <1>3, <1>4, <1>7, <1>8, AttachSorted
<1>11. x \notin L /\ x # RBNIL /\ RBRED # RBBLACK /\ x # NULL
  BY <1>2, RbTreeAssumption DEF RBRED, RBBLACK
<1>12. /\ u.color[x] = RBRED /\ \A r \in Side : u.child[x][r] = RBNIL
       /\ \A n \in D : u.color[n] = t.color[n]
       /\ \A n \in D, r \in Side : u.child[n][r] = IF n = p /\ r = s THEN x ELSE t.child[n][r]
       /\ u.root = (IF p = NULL THEN x ELSE t.root)
  BY <1>7 DEF Attached
<1>13. Sentinel(u)
  <2>1. RBNIL \in D /\ RBNIL # p
    BY <1>2, <1>5, NotNodes, RbTreeAssumption
  <2> QED  BY <2>1, <1>2, <1>12 DEF Sentinel
<1>14. Tree(u, D \cup {x}, L \cup {x}, v)
  BY <1>2, <1>7, <1>9, <1>10, <1>13 DEF Tree
<1>15. PICK g : g = [n \in L \cup {x, RBNIL} |-> IF n = x THEN 1 ELSE h[n]]
  OBVIOUS
<1>16. Levels(u, L \cup {x}, g, {})
  <2>1. h[RBNIL] = 1 /\ (\A n \in L \cup {RBNIL} : h[n] \in Nat \ {0}) /\ \A n \in L : Level(t, h, {}, n)
    BY <1>2, HeightOf DEF Levels
  <2>2. g[x] = 1 /\ g[RBNIL] = 1 /\ \A n \in L \cup {RBNIL} : g[n] = h[n]
    BY <1>11, <1>15, <2>1
  <2>3. g \in Heights(L \cup {x})
    BY <1>15, <2>1 DEF Heights
  <2>4. ASSUME NEW n \in L  PROVE Level(u, g, {}, n)
    <3> SUFFICES ASSUME NEW r \in Side
                 PROVE  g[n] = g[u.child[n][r]] + Extra({}, n, r) + Weight(u, n)
      BY DEF Level
    <3>1. h[n] = h[t.child[n][r]] + Extra({}, n, r) + Weight(t, n)
      BY <2>1 DEF Level
    <3>2. Weight(u, n) = Weight(t, n) /\ n \in D
      BY <1>2, <1>12 DEF Weight
    <3>3. g[u.child[n][r]] = h[t.child[n][r]]
      <4>1. CASE n = p /\ r = s
        <5>1. t.child[n][r] = RBNIL /\ u.child[n][r] = x
          BY <4>1, <3>2, <1>2, <1>3, <1>5, <1>12
        <5> QED  BY <5>1, <2>1, <2>2
      <4>2. CASE ~(n = p /\ r = s)
        BY <4>2, <3>2, <2>2, <1>2, <1>12, Colors
      <4> QED  BY <4>1, <4>2
    <3> QED  BY ONLY <3>1, <3>2, <3>3, <2>2, n \in L
  <2>5. Level(u, g, {}, x)
    BY <1>11, <1>12, <2>2 DEF Level, Extra, Weight
  <2> QED  BY <2>2, <2>3, <2>4, <2>5 DEF Levels
<1>17. RedsOnly(u, L \cup {x}, {}, {x})
  <2>1. t.color[RBNIL] # RBRED /\ u.color[RBNIL] # RBRED
    BY <1>2, <1>11, <1>12 DEF Sentinel
  <2>2. ASSUME NEW n \in L, NEW r \in Side, RedPair(u, n, r), u.child[n][r] # x  PROVE FALSE
    <3>1. u.child[n][r] = t.child[n][r] /\ n \in D /\ t.child[n][r] \in D
      BY <2>2, <1>2, <1>12, Colors
    <3> QED  BY <3>1, <2>2, <1>2, <1>12 DEF RedsOnly, RedPair
  <2>3. \A r \in Side : ~RedPair(u, x, r)
    BY <2>1, <1>12 DEF RedPair
  <2>4. u.color[u.root] = RBRED => u.root = x
    <3>1. t.root \in D /\ t.color[t.root] # RBRED
      BY <1>2 DEF RedsOnly
    <3> QED  BY <3>1, <1>12
  <2> QED  BY <2>2, <2>3, <2>4 DEF RedsOnly
<1>18. Inserting(u, D \cup {x}, L \cup {x}, v, g, x)
  BY <1>12, <1>14, <1>16, <1>17 DEF Inserting
<1>19. u.data[x] = k /\ \A n \in L : u.data[n] = t.data[n]
  BY <1>2, <1>7 DEF Attached
<1> QED  BY <1>18, <1>19

-----------------------------------------------------------------------------
(***************************************************************************)
(* rb_delete.                                                              *)
(***************************************************************************)

(* z is the farthest of the nodes below n to side s.                       *)
ExtremeIn(t, L, sub, n, s, z) ==
  /\ z \in L /\ z \in sub[n] /\ t.child[z][s] = RBNIL
  /\ \A e \in sub[n] \ {z} : Before(s, t.data[z], t.data[e])

LEMMA ExtremeIs ==
  ASSUME NEW t, NEW D, NEW L, NEW sub, Tree(t, D, L, sub), NEW n \in L, NEW s \in Side
  PROVE  ExtremeIn(t, L, sub, n, s, Extreme(t, n, s))
<1> DEFINE A == Allocated(t)
           stop == {m \in A : t.child[m][s] = RBNIL}
           val == [m \in A |-> m]
           nxt == [m \in A |-> t.child[m][s]]
           g == CHOOSE f : f = [m \in A |-> IF t.child[m][s] = RBNIL THEN m ELSE f[t.child[m][s]]]
           C == {m \in sub[n] : \A e \in sub[n] \ sub[m], d \in sub[m] : Before(s, t.data[d], t.data[e])}
           rank == [m \in L |-> Cardinality(sub[m])]
<1>1. \A m \in A \ stop : nxt[m] \in A
  BY AllocatedIs
<1>2. PICK f0 : Loop(A, stop, val, nxt, f0)
  BY ONLY <1>1, LoopExists
<1>3. f0 = [m \in A |-> IF t.child[m][s] = RBNIL THEN m ELSE f0[t.child[m][s]]]
  BY ONLY <1>2 DEF Loop
<1>4. g = [m \in A |-> IF t.child[m][s] = RBNIL THEN m ELSE g[t.child[m][s]]]
  BY ONLY <1>3
<1>5. Loop(A, stop, val, nxt, g)
  <2> HIDE DEF g
  <2> QED  BY ONLY <1>4 DEF Loop
<1>6. Extreme(t, n, s) = g[n]
  BY ONLY Zenon DEF Extreme
<1> HIDE DEF g
<1>7. /\ Shape(t, L, sub) /\ L \subseteq A /\ sub[n] \subseteq L /\ n \in sub[n] /\ C \subseteq A
      /\ sub[RBNIL] = {} /\ RBNIL \notin L /\ Sorted(t, L, sub)
      /\ Opposite(s) \in Side
  BY AllocatedIs, BelowNode, NotNodes, Sides DEF Tree, Shape
<1>8. \A m \in C : rank[m] \in Nat
  BY <1>7, BelowNode, FS_CardinalityType
<1>9. \A m \in L : t.data[m] \in Key
  BY <1>7 DEF Sorted
<1>10. ASSUME NEW m \in L, NEW e \in sub[t.child[m][Opposite(s)]]
       PROVE  e \in L /\ Before(s, t.data[m], t.data[e])
  <2>1. e \in L
    <3>1. PICK o \in Side : o = Opposite(s)
      BY <1>7
    <3>2. t.child[m][o] \in L \cup {RBNIL} /\ sub[t.child[m][o]] \subseteq sub[m] /\ sub[m] \subseteq L
      BY <1>7, BelowChild, BelowNode
    <3> QED  BY <3>1, <3>2, <1>10
  <2>2. Before(Opposite(s), t.data[e], t.data[m])
    BY <1>7, <1>10 DEF Sorted
  <2> QED  BY <2>1, <2>2, <1>9, BeforeOpposite
<1>11. \A m \in C \ stop : nxt[m] \in C /\ rank[nxt[m]] < rank[m]
  <2> SUFFICES ASSUME NEW m \in C \ stop  PROVE nxt[m] \in C /\ rank[nxt[m]] < rank[m]
    OBVIOUS
  <2>1. PICK c, o : c = t.child[m][s] /\ o = t.child[m][Opposite(s)]
    OBVIOUS
  <2>2. m \in L /\ c # RBNIL /\ nxt[m] = c /\ m \in sub[n]
    BY <1>7, <2>1
  <2>3. c \in L /\ c \in sub[c] /\ sub[c] \subseteq sub[m] /\ Cardinality(sub[c]) < Cardinality(sub[m])
    BY <1>7, <2>1, <2>2, BelowChild
  <2>4. sub[m] \subseteq sub[n] /\ sub[c] \subseteq L /\ sub[m] \subseteq L
    BY <1>7, <2>2, <2>3, BelowBelow, BelowNode
  <2>5. sub[m] = {m} \cup sub[c] \cup sub[o]
    BY <1>7, <2>1, <2>2 DEF Shape, Branch
  <2>6. ASSUME NEW e \in sub[n] \ sub[c], NEW d \in sub[c]  PROVE Before(s, t.data[d], t.data[e])
    <3>1. Before(s, t.data[d], t.data[m]) /\ d \in L /\ d \in sub[m]
      BY <1>7, <2>1, <2>2, <2>3, <2>4 DEF Sorted
    <3>2. CASE e \notin sub[m]
      BY <3>1, <3>2
    <3>3. CASE e = m
      BY <3>1, <3>3
    <3>4. CASE e \in sub[o]
      <4>1. e \in L /\ Before(s, t.data[m], t.data[e])
        BY <3>4, <1>10, <2>1, <2>2
      <4> QED  BY <4>1, <3>1, <2>2, <1>9, BeforeTransitive
    <3> QED  BY <2>5, <3>2, <3>3, <3>4
  <2> QED  BY <2>2, <2>3, <2>4, <2>6
<1>12. n \in C
  BY <1>7
<1>13. \A m \in C : \E e \in C \cap stop : g[m] = val[e]
  <2> HIDE DEF A, stop, val, nxt, C, rank, g
  <2> QED  BY ONLY <1>5, <1>7, <1>8, <1>11, LoopEnds
<1>14. PICK z \in C \cap stop : g[n] = z
  BY <1>12, <1>13
<1>15. z \in L /\ z \in sub[n] /\ t.child[z][s] = RBNIL /\ z \in sub[z]
  BY <1>7, <1>14, BelowNode
<1>16. ASSUME NEW e \in sub[n] \ {z}  PROVE Before(s, t.data[z], t.data[e])
  <2>1. CASE e \notin sub[z]
    BY <2>1, <1>14, <1>15
  <2>2. CASE e \in sub[z]
    <3>1. sub[z] = {z} \cup sub[t.child[z][s]] \cup sub[t.child[z][Opposite(s)]]
      BY <1>7, <1>15 DEF Shape, Branch
    <3>2. e \in sub[t.child[z][Opposite(s)]]
      BY <3>1, <2>2, <1>7, <1>15, <1>16
    <3> QED  BY <3>2, <1>10, <1>15
  <2> QED  BY <2>1, <2>2
<1> QED  BY <1>6, <1>14, <1>15, <1>16 DEF ExtremeIn

(* y is z, or the node that follows z in key order; and it has a child at  *)
(* most.                                                                   *)
Goes(t, L, sub, z, y, x) ==
  /\ y \in L /\ (\E r \in Side : t.child[y][r] = RBNIL /\ t.child[y][Opposite(r)] = x)
  /\ y # z => /\ y \in sub[t.child[z]["right"]]
              /\ \A e \in sub[t.child[z]["right"]] \ {y} : Before("left", t.data[y], t.data[e])

LEMMA RemovedIs ==
  ASSUME NEW t, NEW D, NEW L, NEW sub, Tree(t, D, L, sub), NEW z \in L,
         NEW y, y = Removed(t, z), NEW x, x = OnlyChild(t, y)
  PROVE  Goes(t, L, sub, z, y, x)
<1>1. "left" \in Side /\ "right" \in Side /\ Opposite("left") = "right" /\ Opposite("right") = "left"
  BY DEF Side, Opposite
<1>2. CASE RBNIL \in {t.child[z][r] : r \in Side}
  <2>1. y = z
    BY ONLY <1>2, y = Removed(t, z) DEF Removed
  <2>2. t.child[z]["left"] = RBNIL \/ t.child[z]["right"] = RBNIL
    BY ONLY <1>2 DEF Side
  <2>3. \E r \in Side : t.child[y][r] = RBNIL /\ t.child[y][Opposite(r)] = x
    BY <1>1, <2>1, <2>2 DEF OnlyChild
  <2> QED  BY <2>1, <2>3 DEF Goes
<1>3. CASE RBNIL \notin {t.child[z][r] : r \in Side}
  <2>1. PICK c : c = t.child[z]["right"]
    OBVIOUS
  <2>2. y = Extreme(t, c, "left") /\ c # RBNIL
    BY <1>1, <1>3, <2>1 DEF Removed
  <2>3. c \in L
    BY <1>1, <2>1, <2>2, Colors
  <2>4. ExtremeIn(t, L, sub, c, "left", y)
    BY <1>1, <2>2, <2>3, ExtremeIs
  <2>5. t.child[y]["left"] = RBNIL /\ t.child[y]["right"] = x
    BY <2>4 DEF ExtremeIn, OnlyChild
  <2>6. \E r \in Side : t.child[y][r] = RBNIL /\ t.child[y][Opposite(r)] = x
    BY ONLY <2>5, <1>1
  <2> QED  BY <2>1, <2>4, <2>6 DEF Goes, ExtremeIn
<1> QED  BY <1>2, <1>3

(* What Detach changes.                                                    *)
Detached(t, u, D, z, y, x, p, s) ==
  /\ u.root = (IF p = NULL THEN x ELSE t.root) /\ u.color = t.color
  /\ u.parent[x] = p /\ \A n \in D \ {x} : u.parent[n] = t.parent[n]
  /\ u.data[z] = t.data[y] /\ \A n \in D \ {z} : u.data[n] = t.data[n]
  /\ \A n \in D, r \in Side : u.child[n][r] = IF n = p /\ r = s THEN x ELSE t.child[n][r]

LEMMA DetachLinks ==
  ASSUME NEW t, NEW D, Memory(t, D), NEW y \in D \ {RBNIL}, NEW z \in D,
         NEW x, x = OnlyChild(t, y), NEW p, p = t.parent[y], NEW s, s = SideOf(t, y),
         NEW u, u = Detach(t, z, y)
  PROVE  Detached(t, u, D, z, y, x, p, s) /\ Memory(u, D)
<1>1. /\ DOMAIN t = {"root", "color", "child", "parent", "data"}
      /\ t.root \in D /\ t.color \in [D -> {RBBLACK, RBRED}] /\ t.child \in [D -> [Side -> D]]
      /\ t.parent \in [D -> Node \cup {NULL}] /\ t.data \in [D -> Key \cup {NULL}]
      /\ D \subseteq Addr /\ RBNIL \in D
      /\ \A n \in D \ {RBNIL} : t.parent[n] \in (D \ {RBNIL}) \cup {NULL}
  BY DEF Memory
<1>2. s \in Side /\ x \in D /\ p \in (D \ {RBNIL}) \cup {NULL} /\ NULL \notin D
  BY <1>1, RbTreeAssumption DEF SideOf, Side, OnlyChild, Addr
<1>3. PICK ch : ch = IF p = NULL THEN t.child ELSE [t.child EXCEPT ![p][s] = x]
  OBVIOUS
<1>4. u = [t EXCEPT !.root = IF p = NULL THEN x ELSE @,
                    !.child = ch,
                    !.parent = [@ EXCEPT ![x] = p],
                    !.data = [@ EXCEPT ![z] = t.data[y]]]
  BY ONLY <1>3, u = Detach(t, z, y), s = SideOf(t, y), p = t.parent[y], x = OnlyChild(t, y) DEF Detach
<1>5. /\ DOMAIN u = {"root", "color", "child", "parent", "data"}
      /\ u.root = (IF p = NULL THEN x ELSE t.root) /\ u.color = t.color
      /\ u.child = ch /\ u.parent = [t.parent EXCEPT ![x] = p]
      /\ u.data = [t.data EXCEPT ![z] = t.data[y]]
  BY ONLY <1>1, <1>4
<1>6. /\ ch \in [D -> [Side -> D]]
      /\ \A n \in D, r \in Side : ch[n][r] = IF n = p /\ r = s THEN x ELSE t.child[n][r]
  <2>1. CASE p = NULL
    BY ONLY <2>1, <1>1, <1>2, <1>3
  <2>2. CASE p # NULL
    <3>1. p \in D /\ ch = [t.child EXCEPT ![p][s] = x]
      BY <2>2, <1>2, <1>3
    <3> QED  BY ONLY <3>1, <1>1, <1>2
  <2> QED  BY <2>1, <2>2
<1>7. /\ u.parent \in [D -> Node \cup {NULL}] /\ u.parent[x] = p
      /\ \A n \in D \ {x} : u.parent[n] = t.parent[n]
  <2>1. p \in Node \cup {NULL}
    BY <1>1, <1>2
  <2> QED  BY ONLY <2>1, <1>1, <1>2, <1>5
<1>8. /\ u.data \in [D -> Key \cup {NULL}] /\ u.data[z] = t.data[y]
      /\ \A n \in D \ {z} : u.data[n] = t.data[n]
  BY ONLY <1>1, <1>5, z \in D, y \in D \ {RBNIL}
<1>9. \A n \in D \ {RBNIL} : u.parent[n] \in (D \ {RBNIL}) \cup {NULL}
  BY ONLY <1>1, <1>2, <1>7
<1>10. u.root \in D
  BY ONLY <1>1, <1>2, <1>5
<1>11. Memory(u, D)
  BY ONLY <1>1, <1>5, <1>6, <1>7, <1>8, <1>9, <1>10 DEF Memory
<1>12. Detached(t, u, D, z, y, x, p, s)
  BY ONLY <1>5, <1>6, <1>7, <1>8 DEF Detached
<1> QED  BY <1>11, <1>12

DetachedSub(L, sub, y) == [n \in (L \ {y}) \cup {RBNIL} |-> sub[n] \ {y}]

(* The links around the node that goes.                                    *)
Around(t, L, sub, y, x, p, s) ==
  /\ x \in L \cup {RBNIL} /\ x # y /\ y \notin sub[x] /\ sub[y] = {y} \cup sub[x]
  /\ x # RBNIL => t.parent[x] = y /\ x # t.root
  /\ p = NULL => y = t.root
  /\ p # NULL => p \in L /\ p # y /\ y # t.root /\ s \in Side /\ t.child[p][s] = y
  /\ \A n \in L, r \in Side : t.child[n][r] = y => n = p /\ r = s

LEMMA AroundIs ==
  ASSUME NEW t, NEW D, NEW L, NEW sub, Tree(t, D, L, sub), NEW z, NEW y, NEW x, Goes(t, L, sub, z, y, x),
         NEW p, p = t.parent[y], NEW s, s = SideOf(t, y)
  PROVE  Around(t, L, sub, y, x, p, s)
<1>1. y \in L
  BY DEF Goes
<1>2. PICK r \in Side : t.child[y][r] = RBNIL /\ t.child[y][Opposite(r)] = x
  BY DEF Goes
<1>3. PICK o \in Side : o = Opposite(r)
  BY Sides
<1>4. /\ Shape(t, L, sub) /\ sub[RBNIL] = {} /\ RBNIL \notin L /\ NULL \notin L /\ sub[t.root] = L
      /\ t.root \in L \cup {RBNIL} /\ (t.root \in L => t.parent[t.root] = NULL)
  BY NotNodes DEF Tree, Shape
<1>5. x \in L \cup {RBNIL} /\ (x # RBNIL => t.parent[x] = y) /\ x # y /\ y \notin sub[x]
  <2>1. x \in L \cup {RBNIL} /\ (x # RBNIL => t.parent[x] = y)
    BY <1>1, <1>2, <1>3, ChildOf
  <2>2. y \notin sub[x]
    BY <1>1, <1>2, <1>3, <1>4, BelowChild
  <2> QED  BY <2>1, <2>2, <1>1, <1>4, BelowNode
<1>6. sub[y] = {y} \cup sub[x]
  BY <1>1, <1>2, <1>4 DEF Shape, Branch
<1>7. (y = t.root => p = NULL) /\ (y # t.root => /\ p \in L /\ p # NULL /\ p # y /\ s \in Side /\ t.child[p][s] = y
                                               /\ t.child[p][Opposite(s)] # y)
  BY <1>1, <1>4, ParentOf
<1>8. \A n \in L, i \in Side : t.child[n][i] = y => n = p /\ i = s
  <2> SUFFICES ASSUME NEW n \in L, NEW i \in Side, t.child[n][i] = y  PROVE n = p /\ i = s
    OBVIOUS
  <2>1. n = p
    BY <1>1, <1>4, ChildOf
  <2>2. y # t.root
    BY <2>1, <1>4, <1>7
  <2>3. s \in Side /\ t.child[p][s] = y /\ t.child[p][Opposite(s)] # y
    BY <2>2, <1>7
  <2>4. i = s \/ i = Opposite(s)
    BY <2>3, Sides
  <2> QED  BY <2>1, <2>3, <2>4
<1>9. x # RBNIL => x # t.root
  BY <1>1, <1>4, <1>5
<1> QED  BY <1>5, <1>6, <1>7, <1>8, <1>9 DEF Around

LEMMA DetachShape ==
  ASSUME NEW t, NEW u, NEW D, NEW L, NEW sub, Tree(t, D, L, sub), NEW z, NEW y \in L, NEW x, NEW p, NEW s,
         Around(t, L, sub, y, x, p, s), Detached(t, u, D, z, y, x, p, s),
         NEW v, v = DetachedSub(L, sub, y)
  PROVE  Shape(u, L \ {y}, v)
<1>1. /\ Shape(t, L, sub) /\ IsFiniteSet(L) /\ L \subseteq Node /\ L \cup {RBNIL} \subseteq D
      /\ sub \in [L \cup {RBNIL} -> SUBSET L] /\ sub[RBNIL] = {}
      /\ t.root \in L \cup {RBNIL} /\ sub[t.root] = L
      /\ t.root # RBNIL => t.parent[t.root] = NULL
      /\ \A n \in L, r \in Side : Branch(t, L, sub, n, r)
      /\ RBNIL \notin L /\ NULL \notin L
  BY NotNodes DEF Tree, Shape
<1>2. /\ x \in L \cup {RBNIL} /\ x # y /\ y \notin sub[x] /\ sub[y] = {y} \cup sub[x]
      /\ x # RBNIL => t.parent[x] = y /\ x # t.root
      /\ p = NULL => y = t.root
      /\ p # NULL => p \in L /\ p # y /\ y # t.root /\ s \in Side /\ t.child[p][s] = y
      /\ \A n \in L, r \in Side : t.child[n][r] = y => n = p /\ r = s
  BY DEF Around
<1>3. DOMAIN v = (L \ {y}) \cup {RBNIL} /\ \A n \in (L \ {y}) \cup {RBNIL} : v[n] = sub[n] \ {y}
  BY <1>1 DEF DetachedSub
<1>4. v \in [(L \ {y}) \cup {RBNIL} -> SUBSET (L \ {y})]
  <2>1. \A n \in (L \ {y}) \cup {RBNIL} : sub[n] \ {y} \in SUBSET (L \ {y})
    BY <1>1
  <2> QED  BY <2>1 DEF DetachedSub
<1>5. /\ u.root \in (L \ {y}) \cup {RBNIL} /\ v[u.root] = L \ {y}
      /\ u.root # RBNIL => u.parent[u.root] = NULL
  <2>1. CASE p = NULL
    BY <2>1, <1>1, <1>2, <1>3 DEF Detached
  <2>2. CASE p # NULL
    <3>1. u.root = t.root /\ (t.root # x \/ t.root = RBNIL)
      BY <2>2, <1>1, <1>2 DEF Detached
    <3>2. u.root = t.root
      BY <2>2 DEF Detached
    <3>3. t.root # RBNIL => t.root \in D \ {x}
      BY <3>1, <1>1
    <3> QED  BY <2>2, <3>2, <3>3, <1>1, <1>2, <1>3 DEF Detached
  <2> QED  BY <2>1, <2>2
<1>6. ASSUME NEW n \in L \ {y}, NEW r \in Side
      PROVE  /\ v[u.child[n][r]] = sub[t.child[n][r]] \ {y}
             /\ u.child[n][r] \in (L \ {y}) \cup {RBNIL}
             /\ u.child[n][r] # RBNIL => u.parent[u.child[n][r]] = n
  <2>1. PICK c, e : c = t.child[n][r] /\ e = u.child[n][r]
    OBVIOUS
  <2>2. c \in L \cup {RBNIL} /\ (c # RBNIL => t.parent[c] = n)
    BY <2>1, <1>1, ChildOf
  <2>3. e = IF n = p /\ r = s THEN x ELSE c
    BY <2>1, <1>1 DEF Detached
  <2>4. CASE n = p /\ r = s
    <3>1. e = x /\ c = y /\ u.parent[x] = p
      BY <2>1, <2>3, <2>4, <1>1, <1>2 DEF Detached
    <3>2. x \in (L \ {y}) \cup {RBNIL}
      BY <1>2
    <3>3. v[x] = sub[x] \ {y} /\ sub[x] \ {y} = sub[y] \ {y}
      BY <3>2, <1>2, <1>3
    <3> QED  BY <3>1, <3>2, <3>3, <2>1, <2>4
  <2>5. CASE ~(n = p /\ r = s)
    <3>1. e = c /\ c # y
      BY <2>1, <2>3, <2>5, <1>2
    <3>2. c # RBNIL => c # x /\ c \in D
      BY <2>2, <1>1, <1>2
    <3>3. c # RBNIL => u.parent[c] = n
      BY <3>2, <2>2 DEF Detached
    <3> QED  BY <3>1, <3>3, <2>1, <2>2, <1>3
  <2> QED  BY <2>4, <2>5
<1>7. ASSUME NEW n \in L \ {y}, NEW r \in Side  PROVE Branch(u, L \ {y}, v, n, r)
  <2>1. PICK o \in Side : o = Opposite(r)
    BY Sides
  <2>2. PICK c, d, e, f : c = t.child[n][r] /\ d = t.child[n][o] /\ e = u.child[n][r] /\ f = u.child[n][o]
    OBVIOUS
  <2>3. sub[n] = {n} \cup sub[c] \cup sub[d] /\ sub[c] \cap sub[d] = {} /\ n \notin sub[c]
    BY <1>1, <2>1, <2>2 DEF Branch
  <2>4. /\ v[e] = sub[c] \ {y} /\ e \in (L \ {y}) \cup {RBNIL} /\ (e # RBNIL => u.parent[e] = n)
        /\ v[f] = sub[d] \ {y}
    BY <1>6, <2>2
  <2>5. v[n] = sub[n] \ {y} /\ n # y
    BY <1>3
  <2>6. v[n] = {n} \cup v[e] \cup v[f] /\ n \notin v[e] /\ v[e] \cap v[f] = {}
    BY ONLY <2>3, <2>4, <2>5
  <2> QED  BY <2>1, <2>2, <2>4, <2>6 DEF Branch
<1>8. IsFiniteSet(L \ {y}) /\ L \ {y} \subseteq Node
  BY <1>1, FS_RemoveElement
<1>9. v[RBNIL] = {}
  BY <1>1, <1>3
<1> QED  BY ONLY <1>4, <1>5, <1>7, <1>8, <1>9 DEF Shape

LEMMA DetachSorted ==
  ASSUME NEW t, NEW u, NEW D, NEW L, NEW sub, Tree(t, D, L, sub), NEW z \in L, NEW y, NEW x, NEW p, NEW s,
         Goes(t, L, sub, z, y, x), Around(t, L, sub, y, x, p, s), Detached(t, u, D, z, y, x, p, s),
         Shape(u, L \ {y}, DetachedSub(L, sub, y)), NEW v, v = DetachedSub(L, sub, y)
  PROVE  Sorted(u, L \ {y}, v)
<1>1. /\ Shape(t, L, sub) /\ L \cup {RBNIL} \subseteq D /\ sub[RBNIL] = {} /\ RBNIL \notin L
      /\ Sorted(t, L, sub) /\ y \in L
  BY NotNodes DEF Tree, Shape, Goes
<1>2. \A n \in L : t.data[n] \in Key
  BY <1>1 DEF Sorted
<1>3. u.data[z] = t.data[y] /\ \A n \in L \ {z} : u.data[n] = t.data[n]
  BY <1>1 DEF Detached
<1>4. "left" \in Side /\ "right" \in Side
      /\ \A r \in Side : r = "left" \/ r = "right"
  BY DEF Side
<1>5. /\ x \in L \cup {RBNIL} /\ sub[y] = {y} \cup sub[x]
      /\ p # NULL => p \in L /\ s \in Side /\ t.child[p][s] = y
  BY DEF Around
<1>6. ASSUME NEW n \in L \ {y}, NEW r \in Side, NEW m \in v[u.child[n][r]]
      PROVE  m \in sub[t.child[n][r]] /\ m # y /\ m \in L
  <2>1. PICK c, e : c = t.child[n][r] /\ e = u.child[n][r]
    OBVIOUS
  <2>2. e \in (L \ {y}) \cup {RBNIL}
    BY <2>1 DEF Shape, Branch
  <2>3. v[e] = sub[e] \ {y}
    BY <2>2 DEF DetachedSub
  <2>4. e = IF n = p /\ r = s THEN x ELSE c
    BY <2>1, <1>1 DEF Detached
  <2>5. c \in L \cup {RBNIL} /\ sub[c] \subseteq L
    BY ONLY <2>1, <1>1, BelowChild DEF Shape
  <2>6. n = p /\ r = s => sub[e] \subseteq sub[c]
    <3>1. n = p /\ r = s => c = y /\ e = x
      BY <2>1, <2>4, <1>1, <1>5, NotNodes DEF Shape
    <3> QED  BY <3>1, <1>5
  <2> QED  BY <2>1, <2>3, <2>4, <2>5, <2>6, <1>6
<1>7. y # z => /\ y \in sub[t.child[z]["right"]] /\ Before("right", t.data[y], t.data[z])
               /\ \A e \in sub[t.child[z]["right"]] \ {y} : Before("left", t.data[y], t.data[e])
  BY <1>1, <1>4 DEF Goes, Sorted
<1>8. ASSUME NEW n \in L \ {y}, NEW r \in Side, NEW m \in v[u.child[n][r]]
      PROVE  Before(r, u.data[m], u.data[n])
  <2>1. m \in sub[t.child[n][r]] /\ m # y /\ m \in L /\ Before(r, t.data[m], t.data[n])
    BY <1>1, <1>6, <1>8 DEF Sorted
  <2>2. m # n
    <3>1. n \notin sub[t.child[n][r]]
      BY <1>1, BelowChild
    <3> QED  BY <3>1, <2>1
  <2>3. CASE y = z
    BY <2>1, <2>3, <1>3
  <2>4. CASE y # z /\ n # z /\ m # z
    BY <2>1, <2>4, <1>3
  <2>5. CASE y # z /\ n = z
    <3>1. u.data[n] = t.data[y] /\ u.data[m] = t.data[m]
      BY <2>1, <2>2, <2>5, <1>3
    <3>2. CASE r = "right"
      <4>1. Before("left", t.data[y], t.data[m])
        BY <3>2, <2>1, <2>5, <1>7
      <4>2. Before("right", t.data[m], t.data[y])
        BY ONLY <4>1 DEF Before
      <4> QED  BY <4>2, <3>1, <3>2
    <3>3. CASE r = "left"
      <4>1. Before("right", t.data[y], t.data[z])
        BY <2>5, <1>7
      <4>2. Before("left", t.data[z], t.data[y])
        BY ONLY <4>1 DEF Before
      <4>3. Before("left", t.data[m], t.data[y])
        BY <4>2, <3>3, <2>1, <2>5, <1>1, <1>2, <1>4, BeforeTransitive
      <4> QED  BY <4>3, <3>1, <3>3
    <3> QED  BY <3>2, <3>3, <1>4
  <2>6. CASE y # z /\ m = z
    <3>1. PICK c : c = t.child[n][r]
      OBVIOUS
    <3>2. c \in L
      <4>1. c \in L \cup {RBNIL}
        BY <3>1, <1>1, BelowChild
      <4> QED  BY <4>1, <3>1, <2>1, <1>1
    <3>3. sub[z] \subseteq sub[c]
      BY <3>1, <3>2, <2>1, <2>6, <1>1, BelowBelow
    <3>4. sub[t.child[z]["right"]] \subseteq sub[z]
      BY <1>1, <1>4, BelowChild
    <3>5. y \in sub[t.child[n][r]]
      BY <3>1, <3>3, <3>4, <2>6, <1>7
    <3>6. Before(r, t.data[y], t.data[n])
      BY <3>5, <1>1 DEF Sorted
    <3> QED  BY <3>6, <2>2, <2>6, <1>3
  <2> QED  BY <2>3, <2>4, <2>5, <2>6
<1>9. \A n \in L \ {y} : u.data[n] \in Key
  BY <1>1, <1>2, <1>3
<1> QED  BY <1>8, <1>9 DEF Sorted

(* rb_delete unlinks y.  If y is black, a black node is missing then.      *)
LEMMA DetachStarts ==
  ASSUME NEW t, NEW D, NEW L, NEW sub, NEW h, RedBlack(t, D, L, sub, h), NEW z \in L,
         NEW y, y = Removed(t, z), NEW x, x = OnlyChild(t, y), NEW u, u = Detach(t, z, y)
  PROVE  /\ y \in L
         /\ t.color[y] = RBBLACK => \E v, g : Deleting(u, D, L \ {y}, v, g, x)
         /\ t.color[y] # RBBLACK => \E v, g : RedBlack(u, D, L \ {y}, v, g)
<1>1. PICK p, s, v : p = t.parent[y] /\ s = SideOf(t, y) /\ v = DetachedSub(L, sub, y)
  OBVIOUS
<1>2. /\ Tree(t, D, L, sub) /\ Levels(t, L, h, {}) /\ RedsOnly(t, L, {}, {})
      /\ Memory(t, D) /\ Shape(t, L, sub) /\ L \cup {RBNIL} \subseteq D /\ RBNIL \notin L /\ NULL \notin L
      /\ Sentinel(t) /\ t.root \in L \cup {RBNIL}
  BY NotNodes DEF RedBlack, Tree, Shape
<1>3. Goes(t, L, sub, z, y, x)
  BY <1>2, RemovedIs
<1>4. y \in L
  BY <1>3 DEF Goes
<1>5. Around(t, L, sub, y, x, p, s)
  BY <1>1, <1>2, <1>3, AroundIs
<1>6. Detached(t, u, D, z, y, x, p, s) /\ Memory(u, D)
  <2>1. y \in D \ {RBNIL} /\ z \in D
    BY <1>2, <1>4
  <2> QED  BY ONLY <2>1, <1>1, <1>2, DetachLinks, x = OnlyChild(t, y), u = Detach(t, z, y)
<1>7. Shape(u, L \ {y}, v)
  BY <1>1, <1>2, <1>4, <1>5, <1>6, DetachShape
<1>8. Sorted(u, L \ {y}, v)
  BY <1>1, <1>2, <1>3, <1>5, <1>6, <1>7, DetachSorted
<1>9. /\ u.root = (IF p = NULL THEN x ELSE t.root) /\ u.color = t.color /\ u.parent[x] = p
      /\ \A n \in D, r \in Side : u.child[n][r] = IF n = p /\ r = s THEN x ELSE t.child[n][r]
  BY <1>6 DEF Detached
<1>10. /\ x \in L \cup {RBNIL} /\ x # y
       /\ x # RBNIL => t.parent[x] = y /\ x # t.root
       /\ p = NULL => y = t.root
       /\ p # NULL => p \in L /\ p # y /\ y # t.root /\ s \in Side /\ t.child[p][s] = y
       /\ \A n \in L, r \in Side : t.child[n][r] = y => n = p /\ r = s
  BY <1>5 DEF Around
<1>11. Sentinel(u)
  <2>1. RBNIL \in D /\ RBNIL # p
    BY <1>2, <1>10, NotNodes, RbTreeAssumption
  <2> QED  BY <2>1, <1>2, <1>9 DEF Sentinel
<1>12. Tree(u, D, L \ {y}, v)
  BY <1>2, <1>6, <1>7, <1>8, <1>11 DEF Tree
<1>13. PICK g : g = [n \in (L \ {y}) \cup {RBNIL} |-> h[n]]
  OBVIOUS
<1>14. PICK i \in Side : t.child[y][i] = RBNIL /\ t.child[y][Opposite(i)] = x
  BY <1>3 DEF Goes
<1>15. /\ h[RBNIL] = 1 /\ \A n \in L \cup {RBNIL} : h[n] \in Nat \ {0}
       /\ \A n \in L, r \in Side : h[n] = h[t.child[n][r]] + Weight(t, n)
  <2>1. ASSUME NEW n \in L, NEW r \in Side  PROVE h[n] = h[t.child[n][r]] + Weight(t, n)
    <3>1. h[n] = h[t.child[n][r]] + Extra({}, n, r) + Weight(t, n)
      BY <1>2 DEF Levels, Level
    <3>2. Extra({}, n, r) = 0 /\ h[t.child[n][r]] \in Nat
      BY <1>2, HeightOf, Colors DEF Extra
    <3> QED  BY ONLY <3>1, <3>2
  <2> QED  BY <2>1, <1>2, HeightOf DEF Levels
<1>16. h[y] = h[x] + Weight(t, y) /\ h[x] = 1
  <2>1. PICK o \in Side : o = Opposite(i)
    BY Sides
  <2>2. h[y] = h[x] + Weight(t, y) /\ h[y] = h[RBNIL] + Weight(t, y)
    BY <2>1, <1>4, <1>14, <1>15
  <2>3. h[x] \in Nat /\ Weight(t, y) \in Nat
    BY <1>10, <1>15 DEF Weight
  <2> QED  BY ONLY <2>2, <2>3, <1>15
<1>17. g \in Heights(L \ {y}) /\ g[RBNIL] = 1 /\ \A n \in (L \ {y}) \cup {RBNIL} : g[n] = h[n]
  BY <1>2, <1>13, <1>15 DEF Heights
<1>18. ASSUME NEW ex, \A n \in L \ {y}, r \in Side :
                        Extra(ex, n, r) = IF n = p /\ r = s THEN Weight(t, y) ELSE 0
       PROVE  Levels(u, L \ {y}, g, ex)
  <2> SUFFICES ASSUME NEW n \in L \ {y}, NEW r \in Side
               PROVE  g[n] = g[u.child[n][r]] + Extra(ex, n, r) + Weight(u, n)
    BY <1>17 DEF Levels, Level
  <2>1. PICK c, e : c = t.child[n][r] /\ e = u.child[n][r]
    OBVIOUS
  <2>2. e = IF n = p /\ r = s THEN x ELSE c
    BY <2>1, <1>2, <1>9
  <2>3. e \in (L \ {y}) \cup {RBNIL} /\ c \in L \cup {RBNIL}
    BY <2>1, <1>2, <1>7, Colors DEF Shape, Branch
  <2>4. g[n] = h[n] /\ g[e] = h[e] /\ Weight(u, n) = Weight(t, n) /\ h[n] = h[c] + Weight(t, n)
    BY <2>1, <2>3, <1>9, <1>15, <1>17 DEF Weight
  <2>5. h[c] \in Nat /\ h[x] \in Nat /\ Weight(t, n) \in Nat /\ Weight(t, y) \in Nat
    BY <2>3, <1>10, <1>15 DEF Weight
  <2>6. h[c] = h[e] + Extra(ex, n, r)
    <3>1. Extra(ex, n, r) = IF n = p /\ r = s THEN Weight(t, y) ELSE 0
      BY <1>18
    <3>2. CASE n = p /\ r = s
      <4>1. c = y
        BY <3>2, <2>1, <1>2, <1>10
      <4> QED  BY ONLY <4>1, <3>1, <3>2, <2>2, <1>16
    <3>3. CASE ~(n = p /\ r = s)
      BY ONLY <3>1, <3>3, <2>2, <2>5
    <3> QED  BY <3>2, <3>3
  <2>7. h[e] \in Nat /\ Extra(ex, n, r) \in Nat
    BY <2>3, <1>15 DEF Extra
  <2> QED  BY ONLY <2>1, <2>4, <2>5, <2>6, <2>7
<1>19. ASSUME NEW n \in L \ {y}, NEW r \in Side, RedPair(u, n, r)
       PROVE  n = p /\ u.child[n][r] = x /\ t.color[x] = RBRED /\ t.color[n] = RBRED
  <2>1. n = p /\ r = s
    <3> SUFFICES ASSUME ~(n = p /\ r = s)  PROVE FALSE
      OBVIOUS
    <3>1. u.child[n][r] = t.child[n][r]
      BY <1>2, <1>9
    <3> QED  BY <3>1, <1>2, <1>9, <1>19 DEF RedsOnly, RedPair
  <2>2. u.child[n][r] = x
    BY <2>1, <1>2, <1>9
  <2> QED  BY <2>1, <2>2, <1>9, <1>19 DEF RedPair
<1>20. p # NULL => u.root = t.root /\ t.color[t.root] # RBRED
  BY <1>2, <1>9 DEF RedsOnly
<1>21. ASSUME t.color[y] = RBBLACK  PROVE Deleting(u, D, L \ {y}, v, g, x)
  <2>1. Weight(t, y) = 1 /\ h[y] = 2
    <3>1. Weight(t, y) = 1
      BY <1>21 DEF Weight
    <3> QED  BY ONLY <3>1, <1>16
  <2>2. x = u.root <=> p = NULL
    <3>1. ASSUME p # NULL, x = t.root  PROVE FALSE
      <4>1. x = RBNIL
        BY <3>1, <1>10
      <4>2. L = {}
        BY <4>1, <3>1, <1>2 DEF Shape
      <4> QED  BY <4>2, <1>4
    <3> QED  BY <3>1, <1>9
  <2>3. p # NULL => SideOf(u, x) = s /\ u.child[p][s] = x
    <3> SUFFICES ASSUME p # NULL  PROVE SideOf(u, x) = s /\ u.child[p][s] = x
      OBVIOUS
    <3>1. p \in L /\ p \in D /\ s \in Side /\ u.child[p][s] = x
      BY <1>2, <1>9, <1>10
    <3>2. CASE s = "left"
      BY <3>1, <3>2, <1>9 DEF SideOf
    <3>3. CASE s = "right"
      <4>1. "left" \in Side /\ s # "left"
        BY <3>3 DEF Side
      <4>2. PICK w : w = t.child[p]["left"]
        OBVIOUS
      <4>3. u.child[p]["left"] = w
        BY <4>1, <4>2, <3>1, <1>9
      <4>4. w # x
        <5>1. CASE x = RBNIL
          <6>1. h[p] = h[w] + Weight(t, p) /\ h[p] = h[y] + Weight(t, p)
            BY <4>1, <4>2, <3>1, <1>10, <1>15
          <6>2. w \in L \cup {RBNIL}
            BY <4>1, <4>2, <3>1, <1>2, Colors
          <6>3. h[w] \in Nat /\ h[y] \in Nat /\ Weight(t, p) \in Nat
            BY <6>2, <1>4, <1>15 DEF Weight
          <6>4. h[w] = 2
            BY ONLY <6>1, <6>3, <2>1
          <6> QED  BY <6>4, <5>1, <1>15
        <5>2. CASE x # RBNIL
          <6>1. t.parent[x] = y /\ p # y
            BY <5>2, <3>1, <1>10
          <6>2. w # RBNIL => t.parent[w] = p
            BY <4>1, <4>2, <3>1, <1>2, ChildOf
          <6> QED  BY <6>1, <6>2, <5>2
        <5> QED  BY <5>1, <5>2
      <4> QED  BY <4>3, <4>4, <3>1, <3>3, <1>9 DEF SideOf
    <3> QED  BY <3>1, <3>2, <3>3 DEF Side
  <2>4. Missing(u, x) = IF p = NULL THEN {} ELSE {<<p, s>>}
    BY <2>2, <2>3, <1>9 DEF Missing
  <2>5. Levels(u, L \ {y}, g, Missing(u, x))
    <3>1. \A n \in L \ {y}, r \in Side :
            Extra(Missing(u, x), n, r) = IF n = p /\ r = s THEN Weight(t, y) ELSE 0
      BY <2>1, <2>4, <1>2 DEF Extra
    <3> QED  BY <3>1, <1>18
  <2>6. RedsOnly(u, L \ {y}, {x}, {x})
    <3>1. u.color[u.root] = RBRED => u.root = x
      BY <1>9, <1>20
    <3> QED  BY <3>1, <1>19 DEF RedsOnly
  <2>7. x # u.root => u.parent[x] \in L \ {y} /\ u.child[u.parent[x]][SideOf(u, x)] = x
    BY <2>2, <2>3, <1>9, <1>10
  <2>8. x \in (L \ {y}) \cup {RBNIL}
    BY <1>10
  <2> QED  BY <2>5, <2>6, <2>7, <2>8, <1>12 DEF Deleting
<1>22. ASSUME t.color[y] # RBBLACK  PROVE RedBlack(u, D, L \ {y}, v, g)
  <2>1. t.color[y] = RBRED /\ Weight(t, y) = 0
    BY <1>2, <1>4, <1>22, Colors DEF Weight
  <2>2. t.color[x] # RBRED
    <3>1. PICK o \in Side : o = Opposite(i)
      BY Sides
    <3>2. t.child[y][o] = x /\ ~RedPair(t, y, o)
      BY <3>1, <1>2, <1>4, <1>14 DEF RedsOnly
    <3> QED  BY <3>2, <2>1 DEF RedPair
  <2>3. p # NULL
    BY <2>1, <1>2, <1>10 DEF RedsOnly
  <2>4. Levels(u, L \ {y}, g, {})
    <3>1. \A n \in L \ {y}, r \in Side :
            Extra({}, n, r) = IF n = p /\ r = s THEN Weight(t, y) ELSE 0
      BY <2>1 DEF Extra
    <3> QED  BY <3>1, <1>18
  <2>5. RedsOnly(u, L \ {y}, {}, {})
    BY <2>2, <2>3, <1>9, <1>19, <1>20 DEF RedsOnly
  <2> QED  BY <2>4, <2>5, <1>12 DEF RedBlack
<1> QED  BY <1>4, <1>21, <1>22

(* Trees that agree on their nodes and the sentinel.                       *)
Agree(t, u, L) ==
  /\ u.root = t.root
  /\ \A n \in L \cup {RBNIL} :
       /\ u.color[n] = t.color[n] /\ u.data[n] = t.data[n] /\ u.parent[n] = t.parent[n]
       /\ \A r \in Side : u.child[n][r] = t.child[n][r]

LEMMA AgreeRedBlack ==
  ASSUME NEW t, NEW u, NEW D, NEW C, NEW L, NEW sub, NEW h, RedBlack(t, D, L, sub, h), Agree(t, u, L),
         Memory(u, C), L \cup {RBNIL} \subseteq C
  PROVE  RedBlack(u, C, L, sub, h)
<1>1. /\ Shape(t, L, sub) /\ Sorted(t, L, sub) /\ Sentinel(t) /\ Levels(t, L, h, {}) /\ RedsOnly(t, L, {}, {})
      /\ t.root \in L \cup {RBNIL} /\ sub[RBNIL] = {} /\ sub \in [L \cup {RBNIL} -> SUBSET L]
      /\ \A n \in L, r \in Side : t.child[n][r] \in L \cup {RBNIL} /\ sub[t.child[n][r]] \subseteq L
  BY Colors DEF RedBlack, Tree, Shape
<1>2. Shape(u, L, sub)
  <2>1. ASSUME NEW n \in L, NEW r \in Side  PROVE Branch(u, L, sub, n, r)
    <3>1. PICK o \in Side : o = Opposite(r)
      BY Sides
    <3>2. Branch(t, L, sub, n, r)
      BY <1>1 DEF Shape
    <3>3. /\ u.child[n][r] = t.child[n][r] /\ u.child[n][o] = t.child[n][o]
          /\ u.parent[t.child[n][r]] = t.parent[t.child[n][r]]
      BY <1>1 DEF Agree
    <3> QED  BY <3>1, <3>2, <3>3 DEF Branch
  <2>2. u.root = t.root /\ u.parent[u.root] = t.parent[t.root]
    BY <1>1 DEF Agree
  <2> QED  BY <2>1, <2>2, <1>1 DEF Shape
<1>3. Sorted(u, L, sub)
  BY <1>1 DEF Sorted, Agree
<1>4. Sentinel(u)
  BY <1>1 DEF Sentinel, Agree
<1>5. Levels(u, L, h, {})
  BY <1>1 DEF Levels, Level, Weight, Agree
<1>6. RedsOnly(u, L, {}, {})
  BY <1>1 DEF RedsOnly, RedPair, Agree
<1> QED  BY <1>2, <1>3, <1>4, <1>5, <1>6 DEF RedBlack, Tree

LEMMA FreeIs ==
  ASSUME NEW t, NEW D, NEW L, NEW sub, NEW h, RedBlack(t, D, L, sub, h),
         NEW y \in Node \ L, D = L \cup {RBNIL, y}, NEW u, u = Free(t, y)
  PROVE  RedBlack(u, L \cup {RBNIL}, L, sub, h) /\ Agree(t, u, L)
<1>1. PICK C : C = L \cup {RBNIL}
  OBVIOUS
<1>2. y # RBNIL /\ C = D \ {y} /\ RBNIL \notin L /\ L \subseteq D /\ RBNIL \in D /\ NULL \notin L
  BY <1>1, RbTreeAssumption, Colors DEF RedBlack
<1>3. /\ DOMAIN t = {"root", "color", "child", "parent", "data"}
      /\ t.color \in [D -> {RBBLACK, RBRED}] /\ t.child \in [D -> [Side -> D]]
      /\ t.parent \in [D -> Node \cup {NULL}] /\ t.data \in [D -> Key \cup {NULL}]
      /\ D \subseteq Addr
  BY DEF RedBlack, Tree, Memory
<1>4. /\ DOMAIN u = {"root", "color", "child", "parent", "data"} /\ u.root = t.root
      /\ u.color = Drop(t.color, y) /\ u.child = Drop(t.child, y) /\ u.parent = Drop(t.parent, y)
      /\ u.data = Drop(t.data, y)
  BY ONLY <1>3, u = Free(t, y) DEF Free
<1>5. /\ t.root \in C /\ \A n \in C, r \in Side : t.child[n][r] \in C
      /\ \A n \in L : t.parent[n] \in L \cup {NULL}
  <2>1. t.root \in C /\ \A r \in Side : t.child[RBNIL][r] = RBNIL
    BY <1>1 DEF RedBlack, Tree, Shape, Sentinel
  <2>2. \A n \in L, r \in Side : t.child[n][r] \in C
    BY <1>1, Colors DEF RedBlack
  <2>3. \A n \in L : t.parent[n] \in L \cup {NULL}
    BY ParentOf DEF RedBlack, Tree
  <2> QED  BY <2>1, <2>2, <2>3, <1>1
<1>6. /\ u.color \in [C -> {RBBLACK, RBRED}] /\ u.parent \in [C -> Node \cup {NULL}]
      /\ u.data \in [C -> Key \cup {NULL}]
      /\ \A n \in C : u.color[n] = t.color[n] /\ u.parent[n] = t.parent[n] /\ u.data[n] = t.data[n]
                      /\ u.child[n] = t.child[n]
  BY ONLY <1>2, <1>3, <1>4 DEF Drop
<1>7. u.child \in [C -> [Side -> C]]
  <2>1. u.child = [n \in C |-> t.child[n]]
    BY ONLY <1>2, <1>3, <1>4 DEF Drop
  <2>2. \A n \in C : t.child[n] \in [Side -> C]
    BY ONLY <1>2, <1>3, <1>5
  <2> QED  BY ONLY <2>1, <2>2
<1>8. Memory(u, C)
  BY <1>1, <1>2, <1>3, <1>4, <1>5, <1>6, <1>7 DEF Memory
<1>9. Agree(t, u, L)
  BY <1>1, <1>4, <1>6 DEF Agree
<1> QED  BY <1>1, <1>8, <1>9, AgreeRedBlack

-----------------------------------------------------------------------------
(***************************************************************************)
(* What is below a node.                                                   *)
(***************************************************************************)

LEMMA BelowIs ==
  ASSUME NEW t, NEW D, NEW L, NEW sub, Tree(t, D, L, sub), NEW y, D \subseteq L \cup {RBNIL, y}
  PROVE  \A n \in L \cup {RBNIL} : Below(t, n) = sub[n]
<1> DEFINE A == Allocated(t)
           Kids(m) == {t.child[m][s] : s \in Side} \ {RBNIL}
           g == CHOOSE f : f = [m \in A |-> {m} \cup UNION {f[c] : c \in {t.child[m][s] : s \in Side} \ {RBNIL}}]
           w == [m \in A |-> IF m \in L THEN sub[m]
                             ELSE {m} \cup UNION {sub[c] : c \in Kids(m) \ {m}}]
<1>1. /\ Shape(t, L, sub) /\ sub[RBNIL] = {} /\ RBNIL \notin L /\ L \subseteq A /\ A \subseteq L \cup {y}
      /\ \A m \in A : Kids(m) \subseteq A
  <2>1. Shape(t, L, sub) /\ sub[RBNIL] = {} /\ RBNIL \notin L
    BY NotNodes DEF Tree, Shape
  <2>2. /\ A = D \ {RBNIL} /\ L \subseteq A
        /\ \A m \in A, s \in Side : t.child[m][s] # RBNIL => t.child[m][s] \in A
    BY AllocatedIs
  <2> HIDE DEF A
  <2>3. \A m \in A : Kids(m) \subseteq A
    BY ONLY <2>2
  <2> QED  BY <2>1, <2>2, <2>3
<1>2. \A m \in L : Kids(m) \subseteq L /\ sub[m] = {m} \cup UNION {sub[c] : c \in Kids(m)}
  <2> SUFFICES ASSUME NEW m \in L
               PROVE  Kids(m) \subseteq L /\ sub[m] = {m} \cup UNION {sub[c] : c \in Kids(m)}
    OBVIOUS
  <2>1. PICK l, r : l = t.child[m]["left"] /\ r = t.child[m]["right"]
    OBVIOUS
  <2>2. Kids(m) = {l, r} \ {RBNIL}
    BY <2>1 DEF Side
  <2>3. {l, r} \subseteq L \cup {RBNIL} /\ sub[m] = {m} \cup sub[l] \cup sub[r]
    BY <1>1, <2>1 DEF Shape, Branch, Side, Opposite
  <2>4. UNION {sub[c] : c \in {l, r} \ {RBNIL}} = sub[l] \cup sub[r]
    BY <1>1
  <2> HIDE DEF Kids
  <2> QED  BY <2>2, <2>3, <2>4
<1>3. w = [m \in A |-> {m} \cup UNION {w[c] : c \in Kids(m)}]
  <2> HIDE DEF Kids, A
  <2>1. /\ \A m \in L : w[m] = sub[m]
        /\ \A m \in A \ L : w[m] = {m} \cup UNION {sub[c] : c \in Kids(m) \ {m}}
        /\ w = [m \in A |-> w[m]]
    BY <1>1
  <2> HIDE DEF w
  <2>2. ASSUME NEW m \in A  PROVE w[m] = {m} \cup UNION {w[c] : c \in Kids(m)}
    <3>1. CASE m \in L
      <4>1. \A c \in Kids(m) : w[c] = sub[c]
        BY <3>1, <1>2, <2>1
      <4>2. UNION {w[c] : c \in Kids(m)} = UNION {sub[c] : c \in Kids(m)}
        BY <4>1
      <4> QED  BY <4>2, <3>1, <1>2, <2>1
    <3>2. CASE m \notin L
      <4>1. \A c \in Kids(m) \ {m} : w[c] = sub[c]
        BY <3>2, <1>1, <2>1
      <4>2. UNION {w[c] : c \in Kids(m) \ {m}} = UNION {sub[c] : c \in Kids(m) \ {m}}
        BY ONLY <4>1
      <4>3. w[m] = {m} \cup UNION {w[c] : c \in Kids(m) \ {m}}
        BY <4>2, <3>2, <2>1
      <4>4. \A i : i \in w[m] <=> i = m \/ \E c \in Kids(m) \ {m} : i \in w[c]
        BY ONLY <4>3
      <4>5. \A i : i \in w[m] <=> i = m \/ \E c \in Kids(m) : i \in w[c]
        BY ONLY <4>4
      <4> QED  BY ONLY <4>5
    <3> QED  BY <3>1, <3>2
  <2> QED  BY ONLY <2>1, <2>2
<1>4. g = [m \in A |-> {m} \cup UNION {g[c] : c \in Kids(m)}]
  <2> HIDE DEF w
  <2> QED  BY ONLY <1>3
<1> HIDE DEF g, w, A
<1>5. PICK good : good = {n \in L : g[n] = sub[n]}
  OBVIOUS
<1>6. ASSUME NEW n \in L, \A s \in Side : t.child[n][s] \in L => t.child[n][s] \in good
      PROVE  n \in good
  <2>1. \A c \in Kids(n) : c \in good
    BY <1>2, <1>6
  <2> HIDE DEF Kids
  <2>2. \A c \in Kids(n) : g[c] = sub[c]
    BY <2>1, <1>5
  <2>3. UNION {g[c] : c \in Kids(n)} = UNION {sub[c] : c \in Kids(n)}
    BY <2>2
  <2>4. n \in A
    BY <1>1
  <2>5. g[n] = {n} \cup UNION {g[c] : c \in Kids(n)}
    BY <2>4, <1>4
  <2>6. g[n] = sub[n]
    BY <2>3, <2>5, <1>2
  <2> QED  BY <2>6, <1>5
<1>7. L \subseteq good
  BY ONLY <1>1, <1>6, TreeInduction
<1>8. \A n \in L \cup {RBNIL} : Below(t, n) = IF n = RBNIL THEN {} ELSE g[n]
  <2> SUFFICES ASSUME NEW n \in L \cup {RBNIL}  PROVE Below(t, n) = IF n = RBNIL THEN {} ELSE g[n]
    OBVIOUS
  <2> USE DEF g, A
  <2> QED  BY ONLY Zenon DEF Below
<1> QED  BY <1>1, <1>5, <1>7, <1>8

(* The extra black node of BlackHeights.                                   *)
Owed(t, m, q) == IF op.name = "delete" /\ m = op.x /\ q = t.parent[m] THEN 1 ELSE 0

LEMMA HeightsAre ==
  ASSUME NEW t, NEW D, NEW L, NEW sub, Tree(t, D, L, sub), NEW y, D \subseteq L \cup {RBNIL, y},
         NEW h, NEW ex, Levels(t, L, h, ex),
         \A n \in L, r \in Side : Extra(ex, n, r) = Owed(t, t.child[n][r], n)
  PROVE  BlackHeights(t) = {h[t.root]}
<1> DEFINE S == Below(t, t.root)
           Ways(f, m, r) == {i + Weight(t, m) + Owed(t, t.child[m][r], m) :
                               i \in IF t.child[m][r] = RBNIL THEN {Weight(t, t.child[m][r])} ELSE f[t.child[m][r]]}
           g == CHOOSE f : f = [m \in S |-> Ways(f, m, "left") \cup Ways(f, m, "right")]
           w == [m \in S |-> {h[m]}]
<1>1. /\ Shape(t, L, sub) /\ sub[t.root] = L /\ t.root \in L \cup {RBNIL} /\ RBNIL \notin L
      /\ t.color[RBNIL] = RBBLACK
      /\ \A n \in L, r \in Side : t.child[n][r] \in L \cup {RBNIL}
      /\ "left" \in Side /\ "right" \in Side
  BY Colors DEF Tree, Shape, Side
<1>2. S = L
  BY <1>1, BelowIs
<1>3. /\ h[RBNIL] = 1 /\ \A n \in L \cup {RBNIL} : h[n] \in Nat
      /\ \A n \in L, r \in Side : h[n] = h[t.child[n][r]] + Owed(t, t.child[n][r], n) + Weight(t, n)
  <2>1. /\ h[RBNIL] = 1 /\ \A n \in L \cup {RBNIL} : h[n] \in Nat
    BY HeightOf DEF Levels
  <2>2. ASSUME NEW n \in L, NEW r \in Side
        PROVE  h[n] = h[t.child[n][r]] + Owed(t, t.child[n][r], n) + Weight(t, n)
    <3>1. h[n] = h[t.child[n][r]] + Extra(ex, n, r) + Weight(t, n)
      BY DEF Levels, Level
    <3> QED  BY <3>1
  <2> QED  BY <2>1, <2>2
<1>4. \A m, q : Owed(t, m, q) \in Nat /\ Weight(t, m) \in Nat
  BY DEF Owed, Weight
<1>5. BlackHeights(t) = IF t.root = RBNIL THEN {Weight(t, RBNIL)} ELSE g[t.root]
  BY ONLY Zenon DEF BlackHeights, Owed, Weight
<1>6. ASSUME NEW f, NEW m \in L, NEW r \in Side, t.child[m][r] # RBNIL => f[t.child[m][r]] = {h[t.child[m][r]]}
      PROVE  Ways(f, m, r) = {h[m]}
  <2>1. PICK c : c = t.child[m][r]
    OBVIOUS
  <2>2. (IF c = RBNIL THEN {Weight(t, c)} ELSE f[c]) = {h[c]}
    BY <2>1, <1>1, <1>3, <1>6 DEF Weight
  <2>3. Ways(f, m, r) = {i + Weight(t, m) + Owed(t, c, m) : i \in {h[c]}}
    BY <2>1, <2>2
  <2>4. h[c] + Weight(t, m) + Owed(t, c, m) = h[m]
    <3>1. h[m] = h[c] + Owed(t, c, m) + Weight(t, m)
      BY <2>1, <1>3
    <3>2. h[c] \in Nat
      BY <2>1, <1>1, <1>3
    <3>3. Owed(t, c, m) \in Nat /\ Weight(t, m) \in Nat
      BY <1>4
    <3> QED  BY ONLY <3>1, <3>2, <3>3
  <2>5. {i + Weight(t, m) + Owed(t, c, m) : i \in {h[c]}} = {h[c] + Weight(t, m) + Owed(t, c, m)}
    OBVIOUS
  <2> QED  BY ONLY <2>1, <2>3, <2>4, <2>5
<1> HIDE DEF Ways, S
<1>7. w = [m \in S |-> Ways(w, m, "left") \cup Ways(w, m, "right")]
  <2>1. \A m \in S : w[m] = {h[m]}
    OBVIOUS
  <2>2. w = [m \in S |-> w[m]]
    OBVIOUS
  <2> HIDE DEF w
  <2>3. ASSUME NEW m \in S
        PROVE  w[m] = Ways(w, m, "left") \cup Ways(w, m, "right")
    <3>1. \A r \in Side : t.child[m][r] # RBNIL => w[t.child[m][r]] = {h[t.child[m][r]]}
      BY <1>1, <1>2, <2>1
    <3>2. \A r \in Side : Ways(w, m, r) = {h[m]}
      <4>1. m \in L
        BY <1>2
      <4> QED  BY ONLY <4>1, <3>1, <1>6
    <3> QED  BY <3>2, <2>1, <1>1
  <2> QED  BY ONLY <2>2, <2>3
<1>8. g = [m \in S |-> Ways(g, m, "left") \cup Ways(g, m, "right")]
  <2> HIDE DEF w
  <2> QED  BY ONLY <1>7
<1> HIDE DEF g
<1>9. PICK good : good = {n \in L : g[n] = {h[n]}}
  OBVIOUS
<1>10. ASSUME NEW n \in L, \A s \in Side : t.child[n][s] \in L => t.child[n][s] \in good
       PROVE  n \in good
  <2>1. \A r \in Side : t.child[n][r] # RBNIL => g[t.child[n][r]] = {h[t.child[n][r]]}
    BY <1>1, <1>9, <1>10
  <2>2. \A r \in Side : Ways(g, n, r) = {h[n]}
    BY ONLY <2>1, <1>6, n \in L
  <2>3. g[n] = {h[n]}
    BY <2>2, <1>1, <1>2, <1>8
  <2> QED  BY <2>3, <1>9
<1>11. L \subseteq good
  BY ONLY <1>1, <1>10, TreeInduction
<1>12. CASE t.root = RBNIL
  BY <1>12, <1>1, <1>3, <1>5 DEF Weight
<1>13. CASE t.root # RBNIL
  BY <1>13, <1>1, <1>5, <1>9, <1>11
<1> QED  BY <1>12, <1>13

LEMMA OwedIs ==
  ASSUME NEW t, NEW D, NEW L, NEW sub, NEW h, NEW x, Deleting(t, D, L, sub, h, x),
         op.name = "delete", op.x = x
  PROVE  \A n \in L, r \in Side : Extra(Missing(t, x), n, r) = Owed(t, t.child[n][r], n)
<1> SUFFICES ASSUME NEW n \in L, NEW r \in Side
             PROVE  Extra(Missing(t, x), n, r) = Owed(t, t.child[n][r], n)
  OBVIOUS
<1>1. /\ Tree(t, D, L, sub) /\ x \in L \cup {RBNIL}
      /\ x # t.root => t.parent[x] \in L /\ t.child[t.parent[x]][SideOf(t, x)] = x
      /\ Levels(t, L, h, Missing(t, x))
  BY DEF Deleting
<1>2. PICK c, p, s : c = t.child[n][r] /\ p = t.parent[x] /\ s = SideOf(t, x)
  OBVIOUS
<1>3. s \in Side
  BY <1>2, SideOfSide
<1>4. <<n, r>> \in Missing(t, x) <=> c = x /\ n = p
  <2>1. ASSUME <<n, r>> \in Missing(t, x)  PROVE c = x /\ n = p
    <3>1. x # t.root /\ n = p /\ r = s
      BY <2>1, <1>2 DEF Missing
    <3> QED  BY <3>1, <1>1, <1>2
  <2>2. ASSUME c = x, n = p  PROVE <<n, r>> \in Missing(t, x)
    <3>1. x # t.root
      <4>1. c # RBNIL => t.parent[c] = n /\ n # NULL
        BY <1>1, <1>2, ChildOf, Colors
      <4>2. t.root \in L => t.parent[t.root] = NULL
        BY <1>1, RootOf
      <4>3. t.root # RBNIL /\ t.root \in L \cup {RBNIL}
        BY <1>1 DEF Tree, Shape
      <4> QED  BY <4>1, <4>2, <4>3, <2>2
    <3>2. r = s
      <4> SUFFICES ASSUME r # s  PROVE FALSE
        OBVIOUS
      <4>1. t.child[n][s] = x /\ t.child[n][r] = x /\ s = Opposite(r)
        <5>1. s = r \/ s = Opposite(r)
          BY <1>3, Sides
        <5> QED  BY <5>1, <3>1, <2>2, <1>1, <1>2
      <4>2. x = RBNIL
        BY <4>1, <1>1, ChildOf
      <4>3. Missing(t, x) = {<<n, s>>}
        BY <3>1, <2>2, <1>2 DEF Missing
      <4>4. Extra(Missing(t, x), n, s) = 1 /\ Extra(Missing(t, x), n, r) = 0
        BY <4>3 DEF Extra
      <4>5. /\ h[n] = h[x] + Extra(Missing(t, x), n, s) + Weight(t, n)
            /\ h[n] = h[x] + Extra(Missing(t, x), n, r) + Weight(t, n)
        BY <4>1, <1>1, <1>3 DEF Levels, Level
      <4>6. h[x] \in Nat /\ Weight(t, n) \in Nat
        BY <1>1, HeightOf DEF Weight
      <4> QED  BY ONLY <4>4, <4>5, <4>6
    <3> QED  BY <3>1, <3>2, <2>2, <1>2 DEF Missing
  <2> QED  BY <2>1, <2>2
<1>5. Owed(t, c, n) = IF c = x /\ n = p THEN 1 ELSE 0
  BY <1>2 DEF Owed
<1> QED  BY ONLY <1>2, <1>4, <1>5 DEF Extra

-----------------------------------------------------------------------------
(***************************************************************************)
(* The walks give nodes of the tree.                                       *)
(***************************************************************************)

(* Upwards, the loops of the walks come nearer to the root.                *)
LEMMA UpIsNearer ==
  ASSUME NEW t, NEW D, NEW L, NEW sub, Tree(t, D, L, sub),
         NEW rank, rank = [m \in L |-> Cardinality(L) - Cardinality(sub[m])]
  PROVE  \A m \in L : /\ rank[m] \in Nat
                      /\ t.parent[m] # NULL => t.parent[m] \in L /\ rank[t.parent[m]] < rank[m]
<1> SUFFICES ASSUME NEW m \in L
             PROVE  /\ rank[m] \in Nat
                    /\ t.parent[m] # NULL => t.parent[m] \in L /\ rank[t.parent[m]] < rank[m]
  OBVIOUS
<1>1. Shape(t, L, sub) /\ IsFiniteSet(L) /\ RBNIL \notin L
  BY NotNodes DEF Tree, Shape
<1>2. \A n \in L : /\ Cardinality(sub[n]) \in Nat /\ Cardinality(L) \in Nat
                   /\ Cardinality(sub[n]) =< Cardinality(L)
  BY <1>1, BelowNode, FS_Subset, FS_CardinalityType
<1>3. rank[m] \in Nat
  BY <1>2
<1>4. ASSUME t.parent[m] # NULL
      PROVE  t.parent[m] \in L /\ rank[t.parent[m]] < rank[m]
  <2>1. PICK p, s : p = t.parent[m] /\ s = SideOf(t, m)
    OBVIOUS
  <2>2. p \in L /\ s \in Side /\ t.child[p][s] = m
    BY <2>1, <1>1, <1>4, ParentOf
  <2>3. Cardinality(sub[m]) < Cardinality(sub[p])
    <3>1. m # RBNIL /\ m = t.child[p][s]
      BY <2>2, <1>1
    <3> QED  BY ONLY <3>1, <2>2, <1>1, BelowChild
  <2>4. rank[p] = Cardinality(L) - Cardinality(sub[p]) /\ rank[m] = Cardinality(L) - Cardinality(sub[m])
    BY <2>2
  <2> QED  BY <2>1, <2>2, <2>3, <2>4, <1>2
<1> QED  BY <1>3, <1>4

LEMMA InOrderIn ==
  ASSUME NEW t, NEW D, NEW L, NEW sub, Tree(t, D, L, sub), NEW last \in L \cup {NULL}, NEW s \in Side,
         last = NULL => L # {}
  PROVE  NextInOrder(t, last, s) \in L \cup {NULL}
<1> DEFINE A == Allocated(t)
           stop == {m \in A : t.parent[m] = NULL \/ t.child[t.parent[m]][s] = m}
           val == [m \in A |-> t.parent[m]]
           g == CHOOSE f : f = [m \in A |-> IF t.parent[m] = NULL \/ t.child[t.parent[m]][s] = m
                                            THEN t.parent[m] ELSE f[t.parent[m]]]
           rank == [m \in L |-> Cardinality(L) - Cardinality(sub[m])]
<1>1. /\ Shape(t, L, sub) /\ L \subseteq A /\ A = D \ {RBNIL} /\ NULL \notin L
      /\ \A m \in A : t.parent[m] \in A \cup {NULL}
  <2>1. Shape(t, L, sub) /\ NULL \notin L /\ \A m \in D \ {RBNIL} : t.parent[m] \in (D \ {RBNIL}) \cup {NULL}
    BY NotNodes DEF Tree, Shape, Memory
  <2> QED  BY <2>1, AllocatedIs
<1>2. \A m \in A \ stop : val[m] \in A
  BY <1>1
<1>3. PICK f0 : Loop(A, stop, val, val, f0)
  BY ONLY <1>2, LoopExists
<1>4. f0 = [m \in A |-> IF t.parent[m] = NULL \/ t.child[t.parent[m]][s] = m
                        THEN t.parent[m] ELSE f0[t.parent[m]]]
  BY ONLY <1>3 DEF Loop
<1>5. g = [m \in A |-> IF t.parent[m] = NULL \/ t.child[t.parent[m]][s] = m
                       THEN t.parent[m] ELSE g[t.parent[m]]]
  BY ONLY <1>4
<1>6. Loop(A, stop, val, val, g)
  <2> HIDE DEF g
  <2> QED  BY ONLY <1>5 DEF Loop
<1>7. NextInOrder(t, last, s) = IF last = NULL THEN Extreme(t, t.root, s)
                                ELSE IF t.child[last][Opposite(s)] # RBNIL
                                     THEN Extreme(t, t.child[last][Opposite(s)], s)
                                     ELSE g[last]
  BY ONLY Zenon DEF NextInOrder
<1> HIDE DEF g
<1>8. \A m \in L : /\ rank[m] \in Nat
                   /\ t.parent[m] # NULL => t.parent[m] \in L /\ rank[t.parent[m]] < rank[m]
  BY UpIsNearer
<1>9. \A m \in L \ stop : val[m] \in L /\ rank[val[m]] < rank[m]
  BY <1>1, <1>8
<1>10. \A m \in L : \E e \in L \cap stop : g[m] = val[e]
  <2>1. \A m \in L : rank[m] \in Nat
    BY <1>8
  <2> HIDE DEF A, stop, val, rank, g
  <2> QED  BY ONLY <1>1, <1>6, <1>9, <2>1, LoopEnds
<1>11. \A m \in L : g[m] \in L \cup {NULL}
  <2> SUFFICES ASSUME NEW m \in L  PROVE g[m] \in L \cup {NULL}
    OBVIOUS
  <2>1. PICK e \in L : g[m] = val[e]
    BY <1>10
  <2> QED  BY <2>1, <1>1, <1>8
<1>12. \A n \in L : Extreme(t, n, s) \in L
  BY ExtremeIs DEF ExtremeIn
<1>13. PICK o \in Side : o = Opposite(s)
  BY Sides
<1>14. last \in L => t.child[last][o] \in L \cup {RBNIL}
  BY Colors
<1>15. last = NULL => t.root \in L
  BY <1>1 DEF Shape
<1> QED  BY <1>7, <1>11, <1>12, <1>13, <1>14, <1>15

LEMMA DirectIn ==
  ASSUME NEW t, NEW D, NEW L, NEW sub, Tree(t, D, L, sub), NEW last \in L \cup {NULL},
         last = NULL => L # {}
  PROVE  NextDirect(t, last) \in L \cup {NULL}
<1> DEFINE A == Allocated(t)
           R(n) == t.child[n]["right"]
           stop == {m \in A : t.parent[m] = NULL \/ R(t.parent[m]) \notin {m, RBNIL}}
           val == [m \in A |-> IF t.parent[m] = NULL THEN NULL ELSE R(t.parent[m])]
           nxt == [m \in A |-> t.parent[m]]
           g == CHOOSE f : f = [m \in A |-> IF t.parent[m] = NULL THEN NULL
                                            ELSE IF R(t.parent[m]) \notin {m, RBNIL} THEN R(t.parent[m])
                                            ELSE f[t.parent[m]]]
           rank == [m \in L |-> Cardinality(L) - Cardinality(sub[m])]
<1>1. /\ Shape(t, L, sub) /\ L \subseteq A /\ A = D \ {RBNIL} /\ NULL \notin L
      /\ \A m \in A : t.parent[m] \in A \cup {NULL}
      /\ "left" \in Side /\ "right" \in Side
  <2>1. Shape(t, L, sub) /\ NULL \notin L /\ \A m \in D \ {RBNIL} : t.parent[m] \in (D \ {RBNIL}) \cup {NULL}
    BY NotNodes DEF Tree, Shape, Memory
  <2> QED  BY <2>1, AllocatedIs DEF Side
<1>2. \A m \in A \ stop : nxt[m] \in A
  BY <1>1
<1>3. PICK f0 : Loop(A, stop, val, nxt, f0)
  BY ONLY <1>2, LoopExists
<1>4. f0 = [m \in A |-> IF t.parent[m] = NULL THEN NULL
                        ELSE IF R(t.parent[m]) \notin {m, RBNIL} THEN R(t.parent[m])
                        ELSE f0[t.parent[m]]]
  BY ONLY <1>3 DEF Loop
<1>5. g = [m \in A |-> IF t.parent[m] = NULL THEN NULL
                       ELSE IF R(t.parent[m]) \notin {m, RBNIL} THEN R(t.parent[m])
                       ELSE g[t.parent[m]]]
  BY ONLY <1>4
<1>6. Loop(A, stop, val, nxt, g)
  <2> HIDE DEF g
  <2> QED  BY ONLY <1>5 DEF Loop
<1>7. NextDirect(t, last) = IF last = NULL THEN t.root
                            ELSE IF t.child[last]["left"] # RBNIL THEN t.child[last]["left"]
                            ELSE IF R(last) # RBNIL THEN R(last) ELSE g[last]
  BY ONLY Zenon DEF NextDirect
<1> HIDE DEF g
<1>8. \A m \in L : /\ rank[m] \in Nat
                   /\ t.parent[m] # NULL => t.parent[m] \in L /\ rank[t.parent[m]] < rank[m]
  BY UpIsNearer
<1>9. \A m \in L \ stop : nxt[m] \in L /\ rank[nxt[m]] < rank[m]
  BY <1>1, <1>8
<1>10. \A m \in L : \E e \in L \cap stop : g[m] = val[e]
  <2>1. \A m \in L : rank[m] \in Nat
    BY <1>8
  <2> HIDE DEF A, stop, val, nxt, rank, g
  <2> QED  BY ONLY <1>1, <1>6, <1>9, <2>1, LoopEnds
<1>11. \A n \in L : R(n) \in L \cup {RBNIL} /\ t.child[n]["left"] \in L \cup {RBNIL}
  BY <1>1, Colors
<1>12. \A m \in L : g[m] \in L \cup {NULL}
  <2> SUFFICES ASSUME NEW m \in L  PROVE g[m] \in L \cup {NULL}
    OBVIOUS
  <2>1. PICK e \in L \cap stop : g[m] = val[e]
    BY <1>10
  <2>2. CASE t.parent[e] = NULL
    BY <2>1, <2>2, <1>1
  <2>3. CASE t.parent[e] # NULL
    <3>1. R(t.parent[e]) # RBNIL /\ t.parent[e] \in L
      BY <2>1, <2>3, <1>8
    <3>2. g[m] = R(t.parent[e])
      BY <2>1, <2>3, <1>1
    <3> HIDE DEF R
    <3> QED  BY <3>1, <3>2, <1>11
  <2> QED  BY <2>2, <2>3
<1>13. last = NULL => t.root \in L
  BY <1>1 DEF Shape
<1> QED  BY <1>7, <1>11, <1>12, <1>13

LEMMA FirstInvertedIn ==
  ASSUME NEW t, NEW D, NEW L, NEW sub, Tree(t, D, L, sub), D = L \cup {RBNIL}, NEW n \in L
  PROVE  FirstInverted(t, n) \in L
<1> DEFINE A == Allocated(t)
           Last(m) == Extreme(t, m, "left")
           stop == {m \in A : t.child[Last(m)]["right"] = RBNIL}
           val == [m \in A |-> Last(m)]
           nxt == [m \in A |-> t.child[Last(m)]["right"]]
           g == CHOOSE f : f = [m \in A |-> IF t.child[Last(m)]["right"] = RBNIL THEN Last(m)
                                            ELSE f[t.child[Last(m)]["right"]]]
           rank == [m \in L |-> Cardinality(sub[m])]
<1>1. /\ Shape(t, L, sub) /\ A = L /\ RBNIL \notin L
      /\ "left" \in Side /\ "right" \in Side
  BY AllocatedIs, NotNodes DEF Tree, Shape, Side
<1>2. ASSUME NEW m \in L
      PROVE  Last(m) \in L /\ sub[Last(m)] \subseteq sub[m] /\ t.child[Last(m)]["right"] \in L \cup {RBNIL}
  <2>1. ExtremeIn(t, L, sub, m, "left", Last(m))
    BY <1>1, ExtremeIs
  <2> HIDE DEF Last
  <2>2. Last(m) \in L /\ Last(m) \in sub[m]
    BY <2>1 DEF ExtremeIn
  <2> QED  BY <2>2, <1>1, BelowBelow, Colors
<1>3. \A m \in A \ stop : nxt[m] \in A
  BY <1>1, <1>2
<1>4. PICK f0 : Loop(A, stop, val, nxt, f0)
  BY ONLY <1>3, LoopExists
<1>5. f0 = [m \in A |-> IF t.child[Last(m)]["right"] = RBNIL THEN Last(m) ELSE f0[t.child[Last(m)]["right"]]]
  BY ONLY <1>4 DEF Loop
<1>6. g = [m \in A |-> IF t.child[Last(m)]["right"] = RBNIL THEN Last(m) ELSE g[t.child[Last(m)]["right"]]]
  BY ONLY <1>5
<1>7. Loop(A, stop, val, nxt, g)
  <2> HIDE DEF g
  <2> QED  BY ONLY <1>6 DEF Loop
<1>8. FirstInverted(t, n) = g[n]
  BY ONLY Zenon DEF FirstInverted
<1> HIDE DEF g, Last
<1>9. \A m \in L : rank[m] \in Nat
  BY <1>1, BelowNode, FS_CardinalityType
<1>10. \A m \in L \ stop : nxt[m] \in L /\ rank[nxt[m]] < rank[m]
  <2> SUFFICES ASSUME NEW m \in L \ stop  PROVE nxt[m] \in L /\ rank[nxt[m]] < rank[m]
    OBVIOUS
  <2>1. PICK l, c : l = Last(m) /\ c = t.child[l]["right"]
    OBVIOUS
  <2>2. l \in L /\ sub[l] \subseteq sub[m] /\ c \in L /\ nxt[m] = c
    BY <2>1, <1>1, <1>2
  <2>3. Cardinality(sub[c]) < Cardinality(sub[l]) /\ Cardinality(sub[c]) \in Nat /\ Cardinality(sub[l]) \in Nat
    BY <2>1, <2>2, <1>1, BelowChild
  <2>4. Cardinality(sub[l]) =< Cardinality(sub[m]) /\ Cardinality(sub[m]) \in Nat
    BY <2>2, <1>1, BelowNode, FS_Subset, FS_CardinalityType
  <2>5. Cardinality(sub[c]) < Cardinality(sub[m])
    BY ONLY <2>3, <2>4
  <2> QED  BY <2>2, <2>5
<1>11. \A m \in L : \E e \in L \cap stop : g[m] = val[e]
  <2> HIDE DEF A, stop, val, nxt, rank, g
  <2> QED  BY ONLY <1>1, <1>7, <1>9, <1>10, LoopEnds
<1>12. PICK e \in L : g[n] = val[e]
  BY <1>11
<1> QED  BY <1>1, <1>2, <1>8, <1>12

LEMMA InvertedIn ==
  ASSUME NEW t, NEW D, NEW L, NEW sub, Tree(t, D, L, sub), D = L \cup {RBNIL}, NEW last \in L \cup {NULL},
         last = NULL => L # {}, NEW next, last # NULL => next = "up"
  PROVE  NextInverted(t, last, next) \in L \cup {NULL}
<1>1. Shape(t, L, sub) /\ "right" \in Side /\ NULL \notin L
  BY NotNodes DEF Tree, Shape, Side
<1>2. CASE last = NULL
  <2>1. NextInverted(t, last, next) = FirstInverted(t, t.root)
    BY ONLY <1>2 DEF NextInverted
  <2>2. t.root \in L
    BY <1>1, <1>2 DEF Shape
  <2> QED  BY <2>1, <2>2, FirstInvertedIn
<1>3. CASE last # NULL
  <2>1. PICK p : p = t.parent[last]
    OBVIOUS
  <2>2. p \in L \cup {NULL}
    BY <2>1, <1>1, <1>3, ParentOf
  <2>3. PICK c : c = t.child[p]["right"]
    OBVIOUS
  <2>4. next = "up"
    BY <1>3
  <2>5. NextInverted(t, last, next) = IF p # NULL /\ c \notin {last, RBNIL} THEN FirstInverted(t, c) ELSE p
    BY ONLY <2>1, <2>3, <2>4, <1>3 DEF NextInverted
  <2>6. p # NULL => c \in L \cup {RBNIL}
    BY <1>1, <2>2, <2>3, Colors
  <2>7. p # NULL /\ c \notin {last, RBNIL} => FirstInverted(t, c) \in L
    BY <2>6, FirstInvertedIn
  <2> QED  BY ONLY <2>2, <2>5, <2>7
<1> QED  BY <1>2, <1>3

-----------------------------------------------------------------------------
(***************************************************************************)
(* The inductive invariant.  L are the linked nodes, all that are          *)
(* allocated but the one about to be freed.                                *)
(***************************************************************************)

StateIn(t, o, L, sub, h) ==
  \/ o = Idle /\ RedBlack(t, L \cup {RBNIL}, L, sub, h)
  \/ /\ o = [name |-> "insert", x |-> o.x, y |-> NULL]
     /\ Inserting(t, L \cup {RBNIL}, L, sub, h, o.x)
  \/ /\ o = [name |-> "delete", x |-> o.x, y |-> o.y] /\ o.y \in Node \ L
     /\ Deleting(t, L \cup {RBNIL, o.y}, L, sub, h, o.x)

WalkIn(w, L) ==
  /\ w \in [kind : Walks \cup {"none"}, last : L \cup {NULL}, over : BOOLEAN, next : {"none", "up"}]
  /\ ~w.over => L # {} /\ w.kind \in Walks
  /\ w.kind = "inverted" /\ w.last # NULL => w.next = "up"

IInv == \E L, sub, h : StateIn(rb, op, L, sub, h) /\ WalkIn(walk, L)

LEMMA NoWalkIn ==
  \A L : WalkIn(NoWalk, L)
BY DEF WalkIn, NoWalk

LEMMA WalkStays ==
  ASSUME NEW w, NEW L, WalkIn(w, L), NEW C, L \subseteq C
  PROVE  WalkIn(w, C)
BY DEF WalkIn

LEMMA EmptyTreeIs ==
  RedBlack(EmptyTree, {RBNIL}, {}, [n \in {RBNIL} |-> {}], [n \in {RBNIL} |-> 1])
<1>1. PICK t, sub, h : t = EmptyTree /\ sub = [n \in {RBNIL} |-> {}] /\ h = [n \in {RBNIL} |-> 1]
  OBVIOUS
<1>2. /\ DOMAIN t = {"root", "color", "child", "parent", "data"} /\ t.root = RBNIL
      /\ t.color = [n \in {RBNIL} |-> RBBLACK]
      /\ t.child = [n \in {RBNIL} |-> [s \in Side |-> RBNIL]]
      /\ t.parent = [n \in {RBNIL} |-> NULL] /\ t.data = [n \in {RBNIL} |-> NULL]
  BY ONLY <1>1 DEF EmptyTree
<1>3. Memory(t, {RBNIL})
  BY <1>2 DEF Memory, Addr
<1>4. Shape(t, {}, sub)
  BY <1>1, <1>2, FS_EmptySet DEF Shape
<1>5. Sorted(t, {}, sub) /\ Sentinel(t)
  BY <1>2 DEF Sorted, Sentinel
<1>6. RBRED # RBBLACK
  BY DEF RBRED, RBBLACK
<1>7. Levels(t, {}, h, {}) /\ RedsOnly(t, {}, {}, {})
  BY <1>1, <1>2, <1>6 DEF Levels, Heights, RedsOnly
<1> QED  BY <1>1, <1>3, <1>4, <1>5, <1>7 DEF RedBlack, Tree

LEMMA Starts ==
  Init => IInv
<1> SUFFICES ASSUME Init  PROVE IInv
  OBVIOUS
<1>1. {} \cup {RBNIL} = {RBNIL}
  OBVIOUS
<1>2. StateIn(rb, op, {}, [n \in {RBNIL} |-> {}], [n \in {RBNIL} |-> 1])
  BY EmptyTreeIs, <1>1 DEF StateIn, Init
<1>3. WalkIn(walk, {})
  BY NoWalkIn DEF Init
<1> QED  BY <1>2, <1>3 DEF IInv

(* Rotations and colors do not touch the data.                             *)
SameData(t, u, L) == \A n \in L : u.data[n] = t.data[n]
Fields == {"root", "color", "child", "parent", "data"}

LEMMA RotateData ==
  \A t, x, s : DOMAIN t = Fields => DOMAIN Rotate(t, x, s) = Fields /\ Rotate(t, x, s).data = t.data
BY DEF Rotate, Fields

LEMMA PaintData ==
  \A t, ns, c : DOMAIN t = Fields => DOMAIN Paint(t, ns, c) = Fields /\ Paint(t, ns, c).data = t.data
BY DEF Paint, Fields

LEMMA InsertFixupData ==
  ASSUME NEW t, NEW x, DOMAIN t = Fields
  PROVE  InsertFixupStep(t, x).tree.data = t.data
<1>1. PICK p, g, s, uncle, inner, top, bent :
        /\ p = t.parent[x] /\ g = t.parent[p] /\ s = SideOf(t, p) /\ uncle = t.child[g][Opposite(s)]
        /\ inner = (x = t.child[p][Opposite(s)]) /\ top = (IF inner THEN x ELSE p)
        /\ bent = IF inner THEN Rotate(t, p, s) ELSE t
  OBVIOUS
<1>2. PICK painted, w : /\ painted = Paint(Paint(t, {p, uncle}, RBBLACK), {g}, RBRED)
                        /\ w = Paint(Paint(bent, {top}, RBBLACK), {g}, RBRED)
  OBVIOUS
<1>3. InsertFixupStep(t, x).tree = painted \/ InsertFixupStep(t, x).tree = Rotate(w, g, Opposite(s))
  BY ONLY <1>1, <1>2 DEF InsertFixupStep
<1>4. DOMAIN bent = Fields /\ bent.data = t.data
  BY ONLY <1>1, DOMAIN t = Fields, RotateData
<1>5. \A u, ns, ms : DOMAIN u = Fields => LET v == Paint(Paint(u, ns, RBBLACK), ms, RBRED)
                                         IN DOMAIN v = Fields /\ v.data = u.data
  BY ONLY PaintData
<1>6. painted.data = t.data
  BY ONLY <1>2, <1>5, DOMAIN t = Fields
<1>7. DOMAIN w = Fields /\ w.data = t.data
  BY ONLY <1>2, <1>4, <1>5
<1> QED  BY ONLY <1>3, <1>6, <1>7, RotateData

LEMMA DeleteFixupData ==
  ASSUME NEW t, NEW x, DOMAIN t = Fields
  PROVE  DeleteFixupStep(t, x).tree.data = t.data
<1>1. \A u, e, s : DOMAIN u = Fields => /\ DOMAIN RotateRedSibling(u, e, s) = Fields
                                       /\ RotateRedSibling(u, e, s).data = u.data
  BY RotateData, PaintData DEF RotateRedSibling
<1>2. ASSUME NEW u, NEW e, NEW s, DOMAIN u = Fields
      PROVE  DOMAIN RotateNearNephew(u, e, s) = Fields /\ RotateNearNephew(u, e, s).data = u.data
  <2>1. PICK w, v : w = u.child[u.parent[e]][Opposite(s)]
                    /\ v = Paint(Paint(u, {u.child[w][s]}, RBBLACK), {w}, RBRED)
    OBVIOUS
  <2>2. RotateNearNephew(u, e, s) = u \/ RotateNearNephew(u, e, s) = Rotate(v, w, Opposite(s))
    BY <2>1 DEF RotateNearNephew
  <2>3. PICK i : i = Paint(u, {u.child[w][s]}, RBBLACK)
    OBVIOUS
  <2>4. DOMAIN i = Fields /\ i.data = u.data
    BY ONLY <1>2, <2>3, PaintData
  <2>5. v = Paint(i, {w}, RBRED)
    BY ONLY <2>1, <2>3
  <2>6. DOMAIN v = Fields /\ v.data = u.data
    BY ONLY <2>4, <2>5, PaintData
  <2> QED  BY <1>2, <2>2, <2>6, RotateData
<1>3. ASSUME NEW u, NEW e, NEW s, DOMAIN u = Fields
      PROVE  SupplyBlack(u, e, s).data = u.data
  <2>1. PICK p, w : p = u.parent[e] /\ w = u.child[p][Opposite(s)]
    OBVIOUS
  <2>2. PICK i, v : i = Paint(u, {w}, u.color[p]) /\ v = Paint(i, {p, u.child[w][Opposite(s)]}, RBBLACK)
    OBVIOUS
  <2>3. SupplyBlack(u, e, s) = Rotate(v, p, s)
    BY ONLY <2>1, <2>2 DEF SupplyBlack
  <2>4. DOMAIN i = Fields /\ i.data = u.data
    BY ONLY <1>3, <2>2, PaintData
  <2>5. DOMAIN v = Fields /\ v.data = u.data
    BY ONLY <2>2, <2>4, PaintData
  <2> QED  BY ONLY <2>3, <2>5, RotateData
<1>4. PICK s, u, w : s = SideOf(t, x) /\ u = RotateRedSibling(t, x, s)
                     /\ w = u.child[u.parent[x]][Opposite(s)]
  OBVIOUS
<1>5. \/ DeleteFixupStep(t, x).tree = Paint(u, {w}, RBRED)
      \/ DeleteFixupStep(t, x).tree = SupplyBlack(RotateNearNephew(u, x, s), x, s)
  BY <1>4 DEF DeleteFixupStep
<1>6. DOMAIN u = Fields /\ u.data = t.data
  BY <1>1, <1>4
<1>7. DOMAIN RotateNearNephew(u, x, s) = Fields /\ RotateNearNephew(u, x, s).data = t.data
  BY <1>2, <1>6
<1>8. SupplyBlack(RotateNearNephew(u, x, s), x, s).data = t.data
  BY <1>3, <1>7
<1> QED  BY <1>5, <1>6, <1>8, PaintData

(* One lemma for each action.                                              *)
LEMMA IdleIs ==
  ASSUME NEW L, NEW sub, NEW h, StateIn(rb, op, L, sub, h), op = Idle
  PROVE  RedBlack(rb, L \cup {RBNIL}, L, sub, h) /\ RBNIL \notin L /\ NULL \notin L /\ L \subseteq Node
         /\ Allocated(rb) = L
<1>1. RedBlack(rb, L \cup {RBNIL}, L, sub, h)
  BY DEF StateIn, Idle
<1>2. L \subseteq Node
  BY <1>1 DEF RedBlack, Tree, Shape
<1>3. RBNIL \notin L /\ NULL \notin L
  BY <1>2, NotNodes
<1>4. Allocated(rb) = (L \cup {RBNIL}) \ {RBNIL}
  BY <1>1, AllocatedIs DEF RedBlack
<1> QED  BY <1>1, <1>2, <1>3, <1>4

LEMMA InsertGoes ==
  ASSUME NEW L, NEW sub, NEW h, StateIn(rb, op, L, sub, h), NEW k \in Key, Insert(k)
  PROVE  \E x \in Node \ L : /\ \E v, g : StateIn(rb', op', L \cup {x}, v, g)
                              /\ rb'.data[x] = k /\ SameData(rb, rb', L)
<1>2. op = Idle /\ Find(rb, k) = NULL
  BY DEF Insert
<1>3. PICK x \in Node \ Allocated(rb) :
        rb' = Attach(rb, x, k) /\ op' = [Idle EXCEPT !.name = "insert", !.x = x]
  BY DEF Insert
<1>4. RedBlack(rb, L \cup {RBNIL}, L, sub, h) /\ Allocated(rb) = L
  BY <1>2, IdleIs
<1>5. x \in Node \ (L \cup {RBNIL})
  BY <1>3, <1>4, RbTreeAssumption
<1>6. /\ \E v, g : Inserting(rb', (L \cup {RBNIL}) \cup {x}, L \cup {x}, v, g, x)
      /\ rb'.data[x] = k /\ \A n \in L : rb'.data[n] = rb.data[n]
  <2>1. PICK u : u = Attach(rb, x, k)
    OBVIOUS
  <2>2. /\ \E v, g : Inserting(u, (L \cup {RBNIL}) \cup {x}, L \cup {x}, v, g, x)
        /\ u.data[x] = k /\ \A n \in L : u.data[n] = rb.data[n]
    BY ONLY <2>1, <1>2, <1>4, <1>5, k \in Key, AttachStarts
  <2>3. u = rb'
    BY <2>1, <1>3
  <2> QED  BY <2>2, <2>3
<1>7. op' = [name |-> "insert", x |-> x, y |-> NULL]
  BY <1>3 DEF Idle
<1>8. (L \cup {RBNIL}) \cup {x} = (L \cup {x}) \cup {RBNIL}
  OBVIOUS
<1>9. \E v, g : StateIn(rb', op', L \cup {x}, v, g)
  BY <1>6, <1>7, <1>8 DEF StateIn
<1> QED  BY <1>5, <1>6, <1>9 DEF SameData

LEMMA InsertKeeps ==
  ASSUME IInv, NEW k \in Key, Insert(k)
  PROVE  IInv'
<1>1. PICK L, sub, h : StateIn(rb, op, L, sub, h) /\ WalkIn(walk, L)
  BY DEF IInv
<1>2. PICK x \in Node \ L : \E v, g : StateIn(rb', op', L \cup {x}, v, g)
  BY <1>1, InsertGoes
<1>3. WalkIn(walk', L \cup {x})
  <2>1. walk' = walk \/ walk' = NoWalk
    BY DEF Insert, WalkAfterInsert
  <2> QED  BY <2>1, <1>1, NoWalkIn, WalkStays
<1> QED  BY <1>2, <1>3 DEF IInv

LEMMA InsertFixupGoes ==
  ASSUME NEW L, NEW sub, NEW h, StateIn(rb, op, L, sub, h), InsertFixup
  PROVE  (\E v, g : StateIn(rb', op', L, v, g)) /\ SameData(rb, rb', L)
<1>1. StateIn(rb, op, L, sub, h)
  OBVIOUS
<1>2. op.name = "insert" /\ RedAboveRed(rb, op.x)
  BY DEF InsertFixup
<1>3. rb' = InsertFixupStep(rb, op.x).tree /\ op' = [op EXCEPT !.x = InsertFixupStep(rb, op.x).x]
      /\ walk' = walk
  BY DEF InsertFixup
<1>4. /\ op = [name |-> "insert", x |-> op.x, y |-> NULL]
      /\ Inserting(rb, L \cup {RBNIL}, L, sub, h, op.x)
  BY <1>1, <1>2 DEF StateIn, Idle
<1>5. PICK v, g : Inserting(InsertFixupStep(rb, op.x).tree, L \cup {RBNIL}, L, v, g, InsertFixupStep(rb, op.x).x)
  BY <1>2, <1>4, InsertStep
<1>6. op' = [name |-> "insert", x |-> InsertFixupStep(rb, op.x).x, y |-> NULL]
  BY ONLY <1>3, <1>4
<1>7. op' = [name |-> "insert", x |-> op'.x, y |-> NULL] /\ op'.x = InsertFixupStep(rb, op.x).x
  BY ONLY <1>6
<1>8. StateIn(rb', op', L, v, g)
  BY <1>3, <1>5, <1>7 DEF StateIn
<1>9. SameData(rb, rb', L)
  BY <1>3, <1>4, InsertFixupData DEF Inserting, Tree, Memory, SameData, Fields
<1> QED  BY <1>8, <1>9

LEMMA InsertReturnsGoes ==
  ASSUME NEW L, NEW sub, NEW h, StateIn(rb, op, L, sub, h), InsertReturns
  PROVE  (\E v, g : StateIn(rb', op', L, v, g)) /\ SameData(rb, rb', L)
<1>1. StateIn(rb, op, L, sub, h)
  OBVIOUS
<1>2. /\ op.name = "insert" /\ ~RedAboveRed(rb, op.x)
      /\ rb' = Paint(rb, {rb.root}, RBBLACK) /\ op' = Idle /\ walk' = walk
  BY DEF InsertReturns
<1>3. Inserting(rb, L \cup {RBNIL}, L, sub, h, op.x)
  BY <1>1, <1>2 DEF StateIn, Idle
<1>4. PICK k : RedBlack(rb', L \cup {RBNIL}, L, sub, k)
  BY <1>2, <1>3, InsertEnds
<1>5. StateIn(rb', op', L, sub, k)
  BY <1>2, <1>4 DEF StateIn
<1>6. SameData(rb, rb', L)
  BY <1>2, <1>3, PaintData DEF Inserting, Tree, Memory, SameData, Fields
<1> QED  BY <1>5, <1>6

LEMMA DeleteGoes ==
  ASSUME NEW L, NEW sub, NEW h, StateIn(rb, op, L, sub, h), NEW z \in L, Delete(z)
  PROVE  \E y \in L :
           /\ y = Removed(rb, z) /\ \E v, g : StateIn(rb', op', L \ {y}, v, g)
           /\ \A n \in L \ {y} : rb'.data[n] = rb.data[IF n = z THEN y ELSE n]
<1>1. StateIn(rb, op, L, sub, h)
  OBVIOUS
<1>2. op = Idle
  BY DEF Delete
<1>3. PICK y, x, t : y = Removed(rb, z) /\ x = OnlyChild(rb, y) /\ t = Detach(rb, z, y)
  OBVIOUS
<1>4. IF rb.color[y] = RBBLACK
      THEN rb' = t /\ op' = [name |-> "delete", x |-> x, y |-> y]
      ELSE rb' = Free(t, y) /\ op' = op
  BY <1>3 DEF Delete
<1>5. RedBlack(rb, L \cup {RBNIL}, L, sub, h) /\ z \in L /\ L \subseteq Node
  BY <1>1, <1>2, IdleIs
<1>6. /\ y \in L
      /\ rb.color[y] = RBBLACK => \E v, g : Deleting(t, L \cup {RBNIL}, L \ {y}, v, g, x)
      /\ rb.color[y] # RBBLACK => \E v, g : RedBlack(t, L \cup {RBNIL}, L \ {y}, v, g)
  BY <1>3, <1>5, DetachStarts
<1>7. y \in Node \ (L \ {y}) /\ L \cup {RBNIL} = (L \ {y}) \cup {RBNIL, y}
  BY <1>5, <1>6
<1>8. \A n \in L : t.data[n] = rb.data[IF n = z THEN y ELSE n]
  <2>1. Memory(rb, L \cup {RBNIL}) /\ y \in (L \cup {RBNIL}) \ {RBNIL} /\ z \in L \cup {RBNIL}
    BY <1>5, <1>6, RbTreeAssumption DEF RedBlack, Tree
  <2>2. PICK p, s : p = rb.parent[y] /\ s = SideOf(rb, y)
    OBVIOUS
  <2>3. Detached(rb, t, L \cup {RBNIL}, z, y, x, p, s)
    BY <2>1, <2>2, <1>3, DetachLinks
  <2> QED  BY <2>3 DEF Detached
<1>9. CASE rb.color[y] = RBBLACK
  <2>1. PICK v, g : Deleting(t, (L \ {y}) \cup {RBNIL, y}, L \ {y}, v, g, x)
    BY <1>6, <1>7, <1>9
  <2>2. rb' = t /\ op' = [name |-> "delete", x |-> x, y |-> y]
    BY ONLY <1>4, <1>9
  <2>3. op' = [name |-> "delete", x |-> op'.x, y |-> op'.y] /\ op'.x = x /\ op'.y = y
    BY ONLY <2>2
  <2>4. StateIn(rb', op', L \ {y}, v, g)
    BY <2>1, <2>2, <2>3, <1>7 DEF StateIn
  <2> QED  BY <2>2, <2>4, <1>3, <1>6, <1>8
<1>10. CASE rb.color[y] # RBBLACK
  <2>1. PICK v, g : RedBlack(t, L \cup {RBNIL}, L \ {y}, v, g)
    BY <1>6, <1>10
  <2>2. rb' = Free(t, y) /\ op' = Idle
    BY ONLY <1>2, <1>4, <1>10
  <2>3. RedBlack(rb', (L \ {y}) \cup {RBNIL}, L \ {y}, v, g) /\ Agree(t, rb', L \ {y})
    BY <2>1, <2>2, <1>7, FreeIs
  <2>4. StateIn(rb', op', L \ {y}, v, g)
    BY <2>2, <2>3 DEF StateIn
  <2>5. \A n \in L \ {y} : rb'.data[n] = t.data[n]
    BY <2>3 DEF Agree
  <2>6. \A n \in L \ {y} : rb'.data[n] = rb.data[IF n = z THEN y ELSE n]
    BY ONLY <2>5, <1>8
  <2>7. y \in L /\ y = Removed(rb, z) /\ \E w, i : StateIn(rb', op', L \ {y}, w, i)
    BY ONLY <2>4, <1>3, <1>6
  <2> QED  BY ONLY <2>6, <2>7
<1> QED  BY <1>9, <1>10

LEMMA DeleteKeeps ==
  ASSUME IInv, NEW z \in Allocated(rb), Delete(z)
  PROVE  IInv'
<1>1. PICK L, sub, h : StateIn(rb, op, L, sub, h)
  BY DEF IInv
<1>2. op = Idle /\ walk' = NoWalk
  BY DEF Delete
<1>3. z \in L
  BY <1>1, <1>2, IdleIs
<1>4. PICK y \in L : \E v, g : StateIn(rb', op', L \ {y}, v, g)
  BY <1>1, <1>3, DeleteGoes
<1> QED  BY <1>2, <1>4, NoWalkIn DEF IInv

LEMMA DeleteFixupGoes ==
  ASSUME NEW L, NEW sub, NEW h, StateIn(rb, op, L, sub, h), DeleteFixup
  PROVE  (\E v, g : StateIn(rb', op', L, v, g)) /\ SameData(rb, rb', L)
<1>1. StateIn(rb, op, L, sub, h)
  OBVIOUS
<1>2. op.name = "delete" /\ BlackBelowRoot(rb, op.x)
  BY DEF DeleteFixup
<1>3. rb' = DeleteFixupStep(rb, op.x).tree /\ op' = [op EXCEPT !.x = DeleteFixupStep(rb, op.x).x]
      /\ walk' = walk
  BY DEF DeleteFixup
<1>4. /\ op = [name |-> "delete", x |-> op.x, y |-> op.y] /\ op.y \in Node \ L
      /\ Deleting(rb, L \cup {RBNIL, op.y}, L, sub, h, op.x)
  BY <1>1, <1>2 DEF StateIn, Idle
<1>5. PICK v, g : Deleting(DeleteFixupStep(rb, op.x).tree, L \cup {RBNIL, op.y}, L, v, g,
                           DeleteFixupStep(rb, op.x).x)
  BY <1>2, <1>4, DeleteStep
<1>6. op' = [name |-> "delete", x |-> DeleteFixupStep(rb, op.x).x, y |-> op.y]
  BY ONLY <1>3, <1>4
<1>7. /\ op' = [name |-> "delete", x |-> op'.x, y |-> op'.y]
      /\ op'.x = DeleteFixupStep(rb, op.x).x /\ op'.y = op.y
  BY ONLY <1>6
<1>8. StateIn(rb', op', L, v, g)
  BY <1>3, <1>4, <1>5, <1>7 DEF StateIn
<1>9. SameData(rb, rb', L)
  BY <1>3, <1>4, DeleteFixupData DEF Deleting, Tree, Memory, SameData, Fields
<1> QED  BY <1>8, <1>9

LEMMA DeleteReturnsGoes ==
  ASSUME NEW L, NEW sub, NEW h, StateIn(rb, op, L, sub, h), DeleteReturns
  PROVE  (\E v, g : StateIn(rb', op', L, v, g)) /\ SameData(rb, rb', L)
<1>1. StateIn(rb, op, L, sub, h)
  OBVIOUS
<1>2. /\ op.name = "delete" /\ ~BlackBelowRoot(rb, op.x)
      /\ rb' = Free(Paint(rb, {op.x}, RBBLACK), op.y) /\ op' = Idle /\ walk' = walk
  BY DEF DeleteReturns
<1>3. op.y \in Node \ L /\ Deleting(rb, L \cup {RBNIL, op.y}, L, sub, h, op.x)
  BY <1>1, <1>2 DEF StateIn, Idle
<1>4. PICK k : RedBlack(Paint(rb, {op.x}, RBBLACK), L \cup {RBNIL, op.y}, L, sub, k)
  BY <1>2, <1>3, DeleteEnds
<1>5. RedBlack(rb', L \cup {RBNIL}, L, sub, k) /\ Agree(Paint(rb, {op.x}, RBBLACK), rb', L)
  BY <1>2, <1>3, <1>4, FreeIs
<1>6. StateIn(rb', op', L, sub, k)
  BY <1>2, <1>5 DEF StateIn
<1>7. Paint(rb, {op.x}, RBBLACK).data = rb.data
  BY <1>3, PaintData DEF Deleting, Tree, Memory, Fields
<1>8. SameData(rb, rb', L)
  BY <1>5, <1>7 DEF Agree, SameData
<1> QED  BY <1>6, <1>8

(* No step of a running call touches the entries.                          *)
Fixup == InsertFixup \/ InsertReturns \/ DeleteFixup \/ DeleteReturns

LEMMA FixupGoes ==
  ASSUME NEW L, NEW sub, NEW h, StateIn(rb, op, L, sub, h), Fixup
  PROVE  (\E v, g : StateIn(rb', op', L, v, g)) /\ SameData(rb, rb', L) /\ walk' = walk
<1>1. walk' = walk
  BY DEF Fixup, InsertFixup, InsertReturns, DeleteFixup, DeleteReturns
<1> QED  BY <1>1, InsertFixupGoes, InsertReturnsGoes, DeleteFixupGoes, DeleteReturnsGoes DEF Fixup

LEMMA FixupKeeps ==
  ASSUME IInv, Fixup
  PROVE  IInv'
<1>1. PICK L, sub, h : StateIn(rb, op, L, sub, h) /\ WalkIn(walk, L)
  BY DEF IInv
<1>2. (\E v, g : StateIn(rb', op', L, v, g)) /\ walk' = walk
  BY <1>1, FixupGoes
<1> QED  BY <1>1, <1>2 DEF IInv

LEMMA ClearGoes ==
  ASSUME NEW L, NEW sub, NEW h, StateIn(rb, op, L, sub, h), Clear
  PROVE  \E v, g : StateIn(rb', op', {}, v, g)
<1>1. StateIn(rb, op, L, sub, h)
  OBVIOUS
<1>2. op = Idle /\ op' = op
  BY DEF Clear
<1>3. RedBlack(rb, L \cup {RBNIL}, L, sub, h) /\ RBNIL \notin L
  BY <1>1, <1>2, IdleIs
<1>4. Tree(rb, L \cup {RBNIL}, L, sub)
  BY <1>3 DEF RedBlack
<1>5. Below(rb, rb.root) = L
  <2>1. rb.root \in L \cup {RBNIL} /\ sub[rb.root] = L
    BY <1>4 DEF Tree, Shape
  <2>2. \A n \in L \cup {RBNIL} : Below(rb, n) = sub[n]
    BY <1>4, BelowIs
  <2> QED  BY <2>1, <2>2
<1>6. PICK t, Rest : t = rb' /\ Rest = {RBNIL}
  OBVIOUS
<1>7. /\ rb.color \in [L \cup {RBNIL} -> {RBBLACK, RBRED}] /\ rb.child \in [L \cup {RBNIL} -> [Side -> L \cup {RBNIL}]]
      /\ rb.parent \in [L \cup {RBNIL} -> Node \cup {NULL}] /\ rb.data \in [L \cup {RBNIL} -> Key \cup {NULL}]
  BY <1>4 DEF Tree, Memory
<1>8. (L \cup {RBNIL}) \ L = {RBNIL}
  BY <1>3
<1>9. t = [root |-> RBNIL,
           color |-> [n \in DOMAIN rb.color \ Below(rb, rb.root) |-> rb.color[n]],
           child |-> [n \in DOMAIN rb.child \ Below(rb, rb.root) |-> rb.child[n]],
           parent |-> [n \in DOMAIN rb.parent \ Below(rb, rb.root) |-> rb.parent[n]],
           data |-> [n \in DOMAIN rb.data \ Below(rb, rb.root) |-> rb.data[n]]]
  BY <1>6 DEF Clear
<1>10. /\ DOMAIN rb.color \ Below(rb, rb.root) = {RBNIL} /\ DOMAIN rb.child \ Below(rb, rb.root) = {RBNIL}
       /\ DOMAIN rb.parent \ Below(rb, rb.root) = {RBNIL} /\ DOMAIN rb.data \ Below(rb, rb.root) = {RBNIL}
  BY ONLY <1>5, <1>7, <1>8
<1>11. t = [root |-> RBNIL, color |-> [n \in {RBNIL} |-> rb.color[n]],
            child |-> [n \in {RBNIL} |-> rb.child[n]],
            parent |-> [n \in {RBNIL} |-> rb.parent[n]], data |-> [n \in {RBNIL} |-> rb.data[n]]]
  BY ONLY <1>9, <1>10
<1>12. /\ DOMAIN t = {"root", "color", "child", "parent", "data"} /\ t.root = RBNIL
       /\ t.color = [n \in {RBNIL} |-> rb.color[n]] /\ t.child = [n \in {RBNIL} |-> rb.child[n]]
       /\ t.parent = [n \in {RBNIL} |-> rb.parent[n]] /\ t.data = [n \in {RBNIL} |-> rb.data[n]]
  BY ONLY <1>11
<1>13. Sentinel(rb)
  BY <1>4 DEF Tree
<1>14. Sentinel(t)
  BY <1>12, <1>13 DEF Sentinel
<1>15. Memory(t, {RBNIL})
  <2>1. rb.child[RBNIL] \in [Side -> {RBNIL}]
    BY <1>7, <1>13 DEF Sentinel
  <2>2. rb.color[RBNIL] \in {RBBLACK, RBRED} /\ rb.parent[RBNIL] \in Node \cup {NULL}
        /\ rb.data[RBNIL] \in Key \cup {NULL}
    BY <1>7
  <2> QED  BY <2>1, <2>2, <1>12 DEF Memory, Addr
<1>16. PICK v, g : v = [n \in {RBNIL} |-> {}] /\ g = [n \in {RBNIL} |-> 1]
  OBVIOUS
<1>17. RedBlack(EmptyTree, {RBNIL}, {}, v, g)
  BY <1>16, EmptyTreeIs
<1>18. Shape(t, {}, v)
  BY <1>12, <1>16, FS_EmptySet DEF Shape
<1>19. Levels(t, {}, g, {})
  BY <1>17 DEF RedBlack, Levels
<1>20. RedsOnly(t, {}, {}, {})
  BY <1>12, <1>14 DEF RedsOnly, Sentinel, RBBLACK, RBRED
<1>21. Sorted(t, {}, v)
  BY DEF Sorted
<1>22. RedBlack(t, {} \cup {RBNIL}, {}, v, g)
  BY <1>14, <1>15, <1>18, <1>19, <1>20, <1>21 DEF RedBlack, Tree
<1> QED  BY <1>2, <1>6, <1>22 DEF StateIn

LEMMA ClearKeeps ==
  ASSUME IInv, Clear
  PROVE  IInv'
<1>1. PICK L, sub, h : StateIn(rb, op, L, sub, h)
  BY DEF IInv
<1>2. \E v, g : StateIn(rb', op', {}, v, g)
  BY <1>1, ClearGoes
<1> QED  BY <1>2, NoWalkIn DEF Clear, IInv

LEMMA BeginWalkKeeps ==
  ASSUME IInv, NEW kind \in Walks, BeginWalk(kind)
  PROVE  IInv'
<1>1. PICK L, sub, h : StateIn(rb, op, L, sub, h) /\ WalkIn(walk, L)
  BY DEF IInv
<1>2. /\ op = Idle /\ rb' = rb /\ op' = op
      /\ walk' = [kind |-> kind, last |-> NULL, over |-> rb.root = RBNIL, next |-> "none"]
  BY DEF BeginWalk
<1>3. Shape(rb, L, sub)
  BY <1>1, <1>2, IdleIs DEF RedBlack, Tree
<1>4. rb.root # RBNIL => L # {}
  BY <1>3 DEF Shape
<1>5. WalkIn(walk', L)
  BY <1>2, <1>4 DEF WalkIn
<1> QED  BY <1>1, <1>2, <1>5 DEF IInv

LEMMA WalkNextKeeps ==
  ASSUME IInv, WalkNext
  PROVE  IInv'
<1>1. PICK L, sub, h : StateIn(rb, op, L, sub, h) /\ WalkIn(walk, L)
  BY DEF IInv
<1>2. PICK n : n = NextOf(walk)
  OBVIOUS
<1>3. /\ op = Idle /\ ~walk.over /\ rb' = rb /\ op' = op
      /\ walk' = [walk EXCEPT !.last = n, !.over = n = NULL,
                              !.next = IF walk.kind = "inverted" THEN "up" ELSE @]
  BY <1>2 DEF WalkNext
<1>4. Tree(rb, L \cup {RBNIL}, L, sub)
  BY <1>1, <1>3, IdleIs DEF RedBlack
<1>5. /\ walk \in [kind : Walks \cup {"none"}, last : L \cup {NULL}, over : BOOLEAN, next : {"none", "up"}]
      /\ L # {} /\ walk.kind \in Walks
      /\ walk.kind = "inverted" /\ walk.last # NULL => walk.next = "up"
  BY <1>1, <1>3 DEF WalkIn
<1>6. n \in L \cup {NULL}
  <2>1. walk.last \in L \cup {NULL} /\ "left" \in Side /\ "right" \in Side
    BY <1>5 DEF Side
  <2>2. CASE walk.kind = "left_right"
    <3>1. n = NextInOrder(rb, walk.last, "left")
      BY <1>2, <2>2 DEF NextOf
    <3> QED  BY <3>1, <2>1, <1>4, <1>5, InOrderIn
  <2>3. CASE walk.kind = "right_left"
    <3>1. n = NextInOrder(rb, walk.last, "right")
      BY <1>2, <2>3 DEF NextOf
    <3> QED  BY <3>1, <2>1, <1>4, <1>5, InOrderIn
  <2>4. CASE walk.kind = "direct"
    <3>1. n = NextDirect(rb, walk.last)
      BY <1>2, <2>4 DEF NextOf
    <3> QED  BY <3>1, <2>1, <1>4, <1>5, DirectIn
  <2>5. CASE walk.kind = "inverted"
    <3>1. n = NextInverted(rb, walk.last, walk.next)
      BY <1>2, <2>5 DEF NextOf
    <3> QED  BY <3>1, <2>1, <2>5, <1>4, <1>5, InvertedIn
  <2> QED  BY <2>2, <2>3, <2>4, <2>5, <1>5 DEF Walks, InOrderWalks
<1>7. WalkIn(walk', L)
  BY <1>3, <1>5, <1>6 DEF WalkIn
<1> QED  BY <1>1, <1>3, <1>7 DEF IInv

LEMMA StepKeeps ==
  IInv /\ [Next]_vars => IInv'
<1> SUFFICES ASSUME IInv, [Next]_vars  PROVE IInv'
  OBVIOUS
<1>1. CASE UNCHANGED vars
  <2>1. rb' = rb /\ op' = op /\ walk' = walk
    BY <1>1 DEF vars
  <2> QED  BY ONLY IInv, <2>1 DEF IInv
<1>2. CASE Next
  BY <1>2, InsertKeeps, FixupKeeps, DeleteKeeps, ClearKeeps, BeginWalkKeeps, WalkNextKeeps
     DEF Next, Fixup
<1> QED  BY <1>1, <1>2

(* The states of the program satisfy the inductive invariant.              *)
THEOREM Invariant ==
  Spec => []IInv
<1>1. Init => IInv
  BY Starts
<1>2. IInv /\ [Next]_vars => IInv'
  BY StepKeeps
<1> QED  BY <1>1, <1>2, PTL DEF Spec

-----------------------------------------------------------------------------
(* What IInv gives for the tree, whatever call is running.                 *)
TreeNow(L, sub, D) ==
  /\ Tree(rb, D, L, sub) /\ D = L \cup {RBNIL} \cup ({op.y} \ {NULL})
  /\ op.y \in (Node \ L) \cup {NULL} /\ op.x \in L \cup {RBNIL, NULL}

LEMMA TreeNowIs ==
  ASSUME NEW L, NEW sub, NEW h, StateIn(rb, op, L, sub, h)
  PROVE  /\ \E D : TreeNow(L, sub, D)
         /\ op \in [name : {"none", "insert", "delete"}, x : L \cup {RBNIL, NULL}, y : (Node \ L) \cup {NULL}]
<1>1. NULL \notin Node
  BY RbTreeAssumption
<1>2. CASE op = Idle /\ RedBlack(rb, L \cup {RBNIL}, L, sub, h)
  <2>1. op = [name |-> "none", x |-> NULL, y |-> NULL]
    BY <1>2 DEF Idle
  <2>2. TreeNow(L, sub, L \cup {RBNIL})
    BY <2>1, <1>2 DEF TreeNow, RedBlack
  <2> QED  BY <2>1, <2>2
<1>3. CASE op = [name |-> "insert", x |-> op.x, y |-> NULL] /\ Inserting(rb, L \cup {RBNIL}, L, sub, h, op.x)
  <2>1. Tree(rb, L \cup {RBNIL}, L, sub) /\ op.x \in L
    BY <1>3 DEF Inserting
  <2>2. op.name = "insert" /\ op.y = NULL
    BY ONLY <1>3
  <2>3. TreeNow(L, sub, L \cup {RBNIL})
    BY <2>1, <2>2 DEF TreeNow
  <2> QED  BY <2>1, <2>2, <2>3, <1>3
<1>4. CASE /\ op = [name |-> "delete", x |-> op.x, y |-> op.y] /\ op.y \in Node \ L
           /\ Deleting(rb, L \cup {RBNIL, op.y}, L, sub, h, op.x)
  <2>1. Tree(rb, L \cup {RBNIL, op.y}, L, sub) /\ op.x \in L \cup {RBNIL}
    BY <1>4 DEF Deleting
  <2>2. L \cup {RBNIL, op.y} = L \cup {RBNIL} \cup ({op.y} \ {NULL})
    BY <1>1, <1>4
  <2>3. TreeNow(L, sub, L \cup {RBNIL, op.y})
    BY <2>1, <2>2, <1>4 DEF TreeNow
  <2> QED  BY <2>1, <2>3, <1>4
<1> QED  BY <1>2, <1>3, <1>4 DEF StateIn

LEMMA InvariantTypes ==
  IInv => TypeOK
<1> SUFFICES ASSUME IInv  PROVE TypeOK
  OBVIOUS
<1>1. PICK L, sub, h : StateIn(rb, op, L, sub, h) /\ WalkIn(walk, L)
  BY DEF IInv
<1>2. PICK D : TreeNow(L, sub, D)
  BY <1>1, TreeNowIs
<1>3. op \in [name : {"none", "insert", "delete"}, x : L \cup {RBNIL, NULL}, y : (Node \ L) \cup {NULL}]
  BY <1>1, TreeNowIs
<1>4. Memory(rb, D) /\ L \cup {RBNIL} \subseteq D
  BY <1>2 DEF TreeNow, Tree
<1>5. Allocated(rb) = D \ {RBNIL}
  BY <1>4 DEF Memory, Allocated
<1>6. Allocated(rb) \cup {RBNIL} = D
  BY <1>4, <1>5
<1>7. op.x \in D \cup {NULL} /\ op.y \in D \cup {NULL}
  BY <1>2, <1>4 DEF TreeNow
<1>8. op \in [name : {"none", "insert", "delete"}, x : D \cup {NULL}, y : D \cup {NULL}]
  BY ONLY <1>3, <1>7
<1>9. walk \in [kind : Walks \cup {"none"}, last : D \cup {NULL}, over : BOOLEAN, next : {"none", "up"}]
  <2>1. walk \in [kind : Walks \cup {"none"}, last : L \cup {NULL}, over : BOOLEAN, next : {"none", "up"}]
    BY <1>1 DEF WalkIn
  <2> QED  BY ONLY <2>1, <1>4
<1>10. Allocated(rb) \subseteq Node
  BY <1>4, <1>5 DEF Memory, Addr
<1>11. /\ rb.root \in D /\ rb.color \in [D -> {RBBLACK, RBRED}] /\ rb.child \in [D -> [Side -> D]]
       /\ DOMAIN rb.parent = D /\ rb.parent[RBNIL] \in Node \cup {NULL}
       /\ \A n \in Allocated(rb) : rb.parent[n] \in Allocated(rb) \cup {NULL}
       /\ DOMAIN rb.data = D /\ \A n \in D : rb.data[n] \in Key \/ rb.data[n] = NULL
  BY <1>4, <1>5 DEF Memory
<1> QED  BY <1>6, <1>8, <1>9, <1>10, <1>11 DEF TypeOK

(* The types of the tree, of the running call and of the caller's walk     *)
(* (RBTree, RBIterator).                                                   *)
THEOREM TypeCorrect ==
  Spec => []TypeOK
BY Invariant, InvariantTypes, PTL

LEMMA InvariantLinks ==
  IInv => LinksAgree
<1> SUFFICES ASSUME IInv  PROVE LinksAgree
  OBVIOUS
<1>1. PICK L, sub, h : StateIn(rb, op, L, sub, h) /\ WalkIn(walk, L)
  BY DEF IInv
<1>2. PICK D : TreeNow(L, sub, D)
  BY <1>1, TreeNowIs
<1>3. Tree(rb, D, L, sub) /\ D \subseteq L \cup {RBNIL, op.y}
  BY <1>2 DEF TreeNow
<1>4. RBNIL \notin L /\ NULL \notin L /\ RBNIL # NULL /\ L \subseteq Node
  BY <1>3, NotNodes DEF Tree, Shape
<1>5. \A n \in L \cup {RBNIL} : Below(rb, n) = sub[n]
  BY <1>3, BelowIs
<1>6. Linked = L
  BY <1>3, <1>5 DEF Linked, Tree, Shape
<1>7. Allocated(rb) \ {op.y} = L
  <2>1. Allocated(rb) = D \ {RBNIL}
    BY <1>3, AllocatedIs
  <2>2. op.y \notin L
    BY <1>2, <1>4 DEF TreeNow
  <2> QED  BY <2>1, <2>2, <1>2, <1>4 DEF TreeNow
<1>8. rb.root # RBNIL => rb.parent[rb.root] = NULL
  BY <1>3 DEF Tree, Shape
<1>9. \A n \in L, s \in Side : rb.child[n][s] # RBNIL => rb.parent[rb.child[n][s]] = n
  BY <1>3, ChildOf
<1>10. ASSUME NEW n \in L
       PROVE  /\ \A m \in Below(rb, rb.child[n]["left"]) : rb.data[m] < rb.data[n]
              /\ \A m \in Below(rb, rb.child[n]["right"]) : rb.data[n] < rb.data[m]
  <2>1. "left" \in Side /\ "right" \in Side
    BY DEF Side
  <2>2. rb.child[n]["left"] \in L \cup {RBNIL} /\ rb.child[n]["right"] \in L \cup {RBNIL}
    BY <2>1, <1>3, Colors
  <2>3. Below(rb, rb.child[n]["left"]) = sub[rb.child[n]["left"]]
        /\ Below(rb, rb.child[n]["right"]) = sub[rb.child[n]["right"]]
    BY <2>2, <1>5
  <2>4. \A s \in Side : \A m \in sub[rb.child[n][s]] : Before(s, rb.data[m], rb.data[n])
    BY <1>3 DEF Tree, Sorted
  <2> QED  BY <2>1, <2>3, <2>4 DEF Before
<1> QED  BY <1>6, <1>7, <1>8, <1>9, <1>10 DEF LinksAgree

(* No rotation, insertion or deletion loses a node or a link, or brings a  *)
(* key out of order (rb_rotate_left, rb_rotate_right, rb_insert,           *)
(* rb_delete_node).                                                        *)
THEOREM AlwaysLinked ==
  Spec => []LinksAgree
BY Invariant, InvariantLinks, PTL

LEMMA InvariantSentinel ==
  IInv => SentinelIsIntact
<1> SUFFICES ASSUME IInv  PROVE SentinelIsIntact
  OBVIOUS
<1>1. PICK L, sub, h : StateIn(rb, op, L, sub, h)
  BY DEF IInv
<1>2. PICK D : TreeNow(L, sub, D)
  BY <1>1, TreeNowIs
<1> QED  BY <1>2 DEF TreeNow, Tree, Sentinel, SentinelIsIntact

(* The sentinel that all trees share stays a black leaf (RBNIL).           *)
THEOREM SentinelKept ==
  Spec => []SentinelIsIntact
BY Invariant, InvariantSentinel, PTL

LEMMA NothingOwed ==
  ASSUME op.name # "delete", NEW L
  PROVE  \A n \in L, r \in Side : Extra({}, n, r) = Owed(rb, rb.child[n][r], n)
BY DEF Extra, Owed

LEMMA InvariantBalanced ==
  IInv => Balanced
<1> SUFFICES ASSUME IInv  PROVE Balanced
  OBVIOUS
<1>1. PICK L, sub, h : StateIn(rb, op, L, sub, h)
  BY DEF IInv
<1>2. PICK D : TreeNow(L, sub, D)
  BY <1>1, TreeNowIs
<1>3. Tree(rb, D, L, sub) /\ D \subseteq L \cup {RBNIL, op.y}
  BY <1>2 DEF TreeNow
<1>4. Allocated(rb) \ {op.y} = L
  <2>1. rb.root \in L \cup {RBNIL} /\ sub[rb.root] = L
    BY <1>3 DEF Tree, Shape
  <2>2. \A n \in L \cup {RBNIL} : Below(rb, n) = sub[n]
    BY <1>3, BelowIs
  <2>3. Linked = L
    BY <2>1, <2>2 DEF Linked
  <2> QED  BY <2>3, InvariantLinks DEF LinksAgree
<1>5. PICK ex, above, at :
        /\ Levels(rb, L, h, ex) /\ RedsOnly(rb, L, above, at)
        /\ \A n \in L, r \in Side : Extra(ex, n, r) = Owed(rb, rb.child[n][r], n)
        /\ \A n \in at : op.x = n
        /\ \A n \in above : op.x = n /\ op.name = "delete"
  <2>1. CASE op = Idle /\ RedBlack(rb, L \cup {RBNIL}, L, sub, h)
    <3>1. op.name # "delete"
      BY <2>1 DEF Idle
    <3>2. \A n \in L, r \in Side : Extra({}, n, r) = Owed(rb, rb.child[n][r], n)
      BY <3>1, NothingOwed
    <3>3. Levels(rb, L, h, {}) /\ RedsOnly(rb, L, {}, {})
      BY <2>1 DEF RedBlack
    <3> QED  BY <3>2, <3>3
  <2>2. CASE op = [name |-> "insert", x |-> op.x, y |-> NULL] /\ Inserting(rb, L \cup {RBNIL}, L, sub, h, op.x)
    <3>1. op.name # "delete"
      <4>1. op.name = "insert"
        BY ONLY <2>2
      <4> QED  BY <4>1
    <3>2. \A n \in L, r \in Side : Extra({}, n, r) = Owed(rb, rb.child[n][r], n)
      BY <3>1, NothingOwed
    <3>3. Levels(rb, L, h, {}) /\ RedsOnly(rb, L, {}, {op.x})
      BY <2>2 DEF Inserting
    <3> QED  BY <3>2, <3>3
  <2>3. CASE /\ op = [name |-> "delete", x |-> op.x, y |-> op.y] /\ op.y \in Node \ L
             /\ Deleting(rb, L \cup {RBNIL, op.y}, L, sub, h, op.x)
    <3>1. op.name = "delete"
      BY ONLY <2>3
    <3>2. \A n \in L, r \in Side : Extra(Missing(rb, op.x), n, r) = Owed(rb, rb.child[n][r], n)
      BY <3>1, <2>3, OwedIs
    <3>3. Levels(rb, L, h, Missing(rb, op.x)) /\ RedsOnly(rb, L, {op.x}, {op.x})
      BY <2>3 DEF Deleting
    <3> QED  BY <3>1, <3>2, <3>3
  <2> QED  BY <1>1, <2>1, <2>2, <2>3 DEF StateIn
<1>6. BlackHeights(rb) = {h[rb.root]}
  BY <1>3, <1>5, HeightsAre
<1>7. Cardinality(BlackHeights(rb)) = 1
  BY <1>6, FS_Singleton
<1>8. rb.color[rb.root] = RBRED => op.x = rb.root
  BY <1>5 DEF RedsOnly
<1>9. \A n \in L, s \in Side :
        rb.color[n] = RBRED /\ rb.color[rb.child[n][s]] = RBRED =>
          op.x = rb.child[n][s] \/ (op.name = "delete" /\ op.x = n)
  BY <1>5 DEF RedsOnly, RedPair
<1> QED  BY <1>4, <1>7, <1>8, <1>9 DEF Balanced

(* All ways down have the same number of black nodes and red nodes meet    *)
(* only where the loop is at work; between calls nowhere                   *)
(* (rb_insert_fixup, rb_delete_fixup).                                     *)
THEOREM AlwaysBalanced ==
  Spec => []Balanced
BY Invariant, InvariantBalanced, PTL

==============================================================================
