----------------------------- MODULE RbTreeFixup -----------------------------
(* Each iteration of the loops of rb_insert_fixup and rb_delete_fixup keeps *)
(* the loop's invariant, and the end of the loop leaves a red-black tree.   *)
EXTENDS RbTreeLemmas

-----------------------------------------------------------------------------
(***************************************************************************)
(* Insertion.                                                              *)
(***************************************************************************)

(* The tree between two iterations of the loop of rb_insert_fixup.         *)
Inserting(t, D, L, sub, h, x) ==
  /\ Tree(t, D, L, sub) /\ Levels(t, L, h, {})
  /\ x \in L /\ t.color[x] = RBRED /\ RedsOnly(t, L, {}, {x})

LEMMA Colors ==
  ASSUME NEW t, NEW D, NEW L, NEW sub, Tree(t, D, L, sub)
  PROVE  /\ RBRED # RBBLACK /\ t.color[RBNIL] = RBBLACK
         /\ \A n \in D : t.color[n] = RBRED \/ t.color[n] = RBBLACK
         /\ \A n \in L, r \in Side : t.child[n][r] \in L \cup {RBNIL}
         /\ L \subseteq D /\ RBNIL \in D /\ RBNIL \notin L /\ NULL \notin L
<1>1. RBRED # RBBLACK
  BY DEF RBRED, RBBLACK
<1>2. \A n \in L, r \in Side : t.child[n][r] \in L \cup {RBNIL}
  BY BelowChild DEF Tree
<1>3. RBNIL \notin L /\ NULL \notin L
  BY NotNodes DEF Tree, Shape
<1> QED  BY <1>1, <1>2, <1>3 DEF Tree, Memory, Sentinel

LEMMA HeightOf ==
  ASSUME NEW t, NEW D, NEW L, NEW sub, Tree(t, D, L, sub), NEW h, NEW ex, Levels(t, L, h, ex)
  PROVE  /\ \A n \in L \cup {RBNIL} : h[n] \in Nat \ {0}
         /\ \A n \in L, r \in Side :
              /\ t.color[n] = RBRED => h[n] = h[t.child[n][r]] + Extra(ex, n, r)
              /\ t.color[n] = RBBLACK => h[n] = h[t.child[n][r]] + Extra(ex, n, r) + 1
<1>1. \A n \in L \cup {RBNIL} : h[n] \in Nat \ {0}
  BY DEF Levels, Heights
<1>2. \A n \in L, r \in Side : h[n] = h[t.child[n][r]] + Extra(ex, n, r) + Weight(t, n)
  BY DEF Levels, Level
<1>3. \A n \in L, r \in Side : h[t.child[n][r]] \in Nat
  BY <1>1, Colors
<1>4. RBRED # RBBLACK
  BY Colors
<1> QED  BY <1>1, <1>2, <1>3, <1>4 DEF Weight, Extra

(* Where the loop is when it goes on.                                      *)
Climbing(t, L, x, p, g, s, w) ==
  /\ p \in L /\ g \in L /\ p # g /\ x # p /\ x # g
  /\ p # t.root /\ t.parent[x] = p /\ t.parent[p] = g
  /\ t.color[p] = RBRED /\ t.color[g] = RBBLACK
  /\ s \in Side /\ t.child[g][s] = p /\ w = t.child[g][Opposite(s)] /\ w # p /\ w # x /\ w # g
  /\ w \in L \cup {RBNIL}

LEMMA InsertingWhere ==
  ASSUME NEW t, NEW D, NEW L, NEW sub, NEW h, NEW x, Inserting(t, D, L, sub, h, x), RedAboveRed(t, x),
         NEW p, p = t.parent[x], NEW g, g = t.parent[p], NEW s, s = SideOf(t, p),
         NEW w, w = t.child[g][Opposite(s)]
  PROVE  Climbing(t, L, x, p, g, s, w) /\ t.child[p][SideOf(t, x)] = x /\ SideOf(t, x) \in Side
<1>1. Tree(t, D, L, sub) /\ Shape(t, L, sub) /\ x \in L /\ RedsOnly(t, L, {}, {x})
  BY DEF Inserting, Tree
<1>2. x # t.root /\ t.color[p] = RBRED
  BY DEF RedAboveRed
<1>3. p \in L /\ p # x /\ t.child[p][SideOf(t, x)] = x /\ SideOf(t, x) \in Side /\ x \in sub[p]
  BY <1>1, <1>2, ParentOf
<1>4. p # t.root
  BY <1>1, <1>2, <1>3 DEF RedsOnly
<1>5. g \in L /\ g # p /\ t.child[g][s] = p /\ s \in Side /\ g \notin sub[p] /\ w # p
  BY <1>1, <1>3, <1>4, ParentOf
<1>6. x # g
  BY <1>3, <1>5
<1>7. t.color[g] = RBBLACK
  <2>1. t.color[g] = RBRED => RedPair(t, g, s)
    BY <1>2, <1>5 DEF RedPair
  <2>2. ~RedPair(t, g, s)
    BY <1>1, <1>3, <1>5 DEF RedsOnly
  <2>3. g \in D
    BY <1>1, <1>5 DEF Tree
  <2> QED  BY <1>1, <2>1, <2>2, <2>3, Colors
<1>8. w \in L \cup {RBNIL} /\ (w # RBNIL => t.parent[w] = g)
  BY ONLY <1>1, <1>5, Sides, BelowChild, w = t.child[g][Opposite(s)]
<1>9. RBNIL \notin L
  BY <1>1, Colors
<1>10. w # x /\ w # g
  <2>1. w # x
    BY <1>1, <1>5, <1>8, <1>9
  <2>2. g \notin sub[w]
    BY ONLY <1>1, <1>5, Sides, BelowChild, w = t.child[g][Opposite(s)]
  <2> QED  BY ONLY <2>1, <2>2, <1>1, <1>5, <1>9, BelowNode
<1> QED  BY <1>2, <1>3, <1>4, <1>5, <1>6, <1>7, <1>8, <1>10 DEF Climbing

(* The uncle is red.                                                       *)
LEMMA InsertUncle ==
  ASSUME NEW t, NEW D, NEW L, NEW sub, NEW h, NEW x, Inserting(t, D, L, sub, h, x),
         NEW p, NEW g, NEW s, NEW w, Climbing(t, L, x, p, g, s, w), t.color[w] = RBRED,
         NEW u, u = Paint(Paint(t, {p, w}, RBBLACK), {g}, RBRED)
  PROVE  \E v, k : Inserting(u, D, L, v, k, g)
<1>1. /\ Tree(t, D, L, sub) /\ Levels(t, L, h, {}) /\ x \in L /\ RedsOnly(t, L, {}, {x})
      /\ RBRED # RBBLACK /\ RBRED \in {RBBLACK, RBRED} /\ RBBLACK \in {RBBLACK, RBRED}
  BY Colors DEF Inserting
<1>2. /\ p \in L /\ g \in L /\ p # g /\ x # p /\ x # g
      /\ p # t.root /\ t.parent[x] = p /\ t.parent[p] = g
      /\ t.color[p] = RBRED /\ t.color[g] = RBBLACK
      /\ s \in Side /\ t.child[g][s] = p /\ w = t.child[g][Opposite(s)] /\ w # p /\ w # x /\ w # g
      /\ w \in L
  BY <1>1, Colors DEF Climbing
<1>3. PICK t1 : t1 = Paint(t, {p, w}, RBBLACK)
  OBVIOUS
<1>4. Tree(t1, D, L, sub) /\ Painted(t, t1, D, {p, w}, RBBLACK)
  BY <1>1, <1>3, PaintTree
<1>5. RBNIL \notin {g}
  BY <1>1, <1>2, Colors
<1>6. Tree(u, D, L, sub) /\ Painted(t1, u, D, {g}, RBRED)
  BY <1>1, <1>3, <1>4, <1>5, PaintTree
<1>7. /\ u.root = t.root /\ u.child = t.child /\ u.parent = t.parent /\ u.data = t.data
      /\ \A n \in D : u.color[n] = IF n = g THEN RBRED ELSE IF n \in {p, w} THEN RBBLACK ELSE t.color[n]
  BY <1>4, <1>6 DEF Painted
<1>8. PICK k : k = [h EXCEPT ![p] = h[p] + 1, ![w] = h[w] + 1]
  OBVIOUS
<1>9. /\ \A n \in L \cup {RBNIL} : h[n] \in Nat \ {0}
      /\ \A n \in L, r \in Side :
              /\ t.color[n] = RBRED => h[n] = h[t.child[n][r]] + Extra({}, n, r)
              /\ t.color[n] = RBBLACK => h[n] = h[t.child[n][r]] + Extra({}, n, r) + 1
  BY <1>1, HeightOf
<1>10. /\ \A n \in L \cup {RBNIL} : k[n] = IF n \in {p, w} THEN h[n] + 1 ELSE h[n]
       /\ k \in Heights(L)
  <2>1. h \in Heights(L)
    BY <1>1 DEF Levels
  <2> QED  BY <2>1, <1>2, <1>8, <1>9 DEF Heights
<1>11. /\ L \subseteq D /\ RBNIL \in D /\ RBNIL \notin L
       /\ \A n \in L, r \in Side : t.child[n][r] \in L \cup {RBNIL}
       /\ \A n \in D : t.color[n] = RBRED \/ t.color[n] = RBBLACK
  BY <1>1, Colors
<1>12. ASSUME NEW n \in L, NEW r \in Side
       PROVE  k[n] = k[t.child[n][r]] + Extra({}, n, r) + Weight(u, n)
  <2>1. PICK e : e = t.child[n][r]
    OBVIOUS
  <2>2. e \in L \cup {RBNIL} /\ n \in D
    BY <2>1, <1>11
  <2>3. Extra({}, n, r) = 0
    BY DEF Extra
  <2>4. CASE n = g
    <3>1. e \in {p, w}
      BY <2>1, <2>4, <1>2, Sides
    <3>2. h[g] = h[e] + 1 /\ k[e] = h[e] + 1 /\ k[g] = h[g]
      BY <2>1, <2>2, <2>3, <2>4, <3>1, <1>2, <1>9, <1>10
    <3>3. Weight(u, n) = 0
      BY <2>2, <2>4, <1>1, <1>7 DEF Weight
    <3> QED  BY <3>2, <3>3, <2>1, <2>2, <2>3, <2>4, <1>9
  <2>5. CASE n \in {p, w}
    <3>1. e \notin {p, w}
      <4>1. e # RBNIL => t.parent[e] = n
        BY <2>1, <1>1, BelowChild DEF Tree
      <4>2. t.parent[p] = g /\ t.parent[w] = g
        BY <1>1, <1>2, <1>11, Sides, BelowChild DEF Tree
      <4> QED  BY <4>1, <4>2, <2>5, <1>2, <1>11
    <3>2. h[n] = h[e] /\ k[e] = h[e] /\ k[n] = h[n] + 1
      BY <2>1, <2>2, <2>3, <2>5, <3>1, <1>2, <1>9, <1>10
    <3>3. Weight(u, n) = 1
      BY <2>2, <2>5, <1>2, <1>7 DEF Weight
    <3> QED  BY <3>2, <3>3, <2>1, <2>2, <2>3, <1>9
  <2>6. CASE n \notin {g, p, w}
    <3>1. e \notin {p, w}
      <4>1. e # RBNIL => t.parent[e] = n
        BY <2>1, <1>1, BelowChild DEF Tree
      <4>2. t.parent[p] = g /\ t.parent[w] = g
        BY <1>1, <1>2, <1>11, Sides, BelowChild DEF Tree
      <4> QED  BY <4>1, <4>2, <2>6, <1>2, <1>11
    <3>2. k[e] = h[e] /\ k[n] = h[n] /\ u.color[n] = t.color[n]
      BY <2>2, <2>6, <3>1, <1>7, <1>10
    <3> QED  BY <3>2, <2>1, <2>2, <2>3, <1>1, <1>9, <1>11 DEF Weight
  <2> QED  BY <2>4, <2>5, <2>6
<1>13. Levels(u, L, k, {})
  <2>1. k[RBNIL] = 1
    BY <1>1, <1>2, <1>10, <1>11 DEF Levels
  <2> QED  BY <2>1, <1>7, <1>10, <1>12 DEF Levels, Level
<1>14. RedsOnly(u, L, {}, {g})
  <2>1. ASSUME NEW n \in L, NEW r \in Side, RedPair(u, n, r)
        PROVE  u.child[n][r] = g
    <3>1. PICK e : e = t.child[n][r]
      OBVIOUS
    <3>2. e \in L \cup {RBNIL} /\ n \in D /\ e \in D
      BY <3>1, <1>11
    <3>3. u.color[n] = RBRED /\ u.color[e] = RBRED
      BY <2>1, <3>1, <1>7 DEF RedPair
    <3> SUFFICES ASSUME e # g  PROVE FALSE
      BY <3>1, <1>7
    <3>4. t.color[e] = RBRED /\ e \notin {p, w}
      BY <3>2, <3>3, <1>1, <1>7
    <3>5. n # g
      BY <3>1, <3>4, <1>2, Sides
    <3>6. t.color[n] = RBRED /\ n \notin {p, w}
      BY <3>2, <3>3, <3>5, <1>1, <1>7
    <3>7. e = x
      BY <3>1, <3>4, <3>6, <1>1 DEF RedsOnly, RedPair
    <3>8. t.parent[x] = n
      <4>1. e # RBNIL => t.parent[e] = n
        BY <3>1, <1>1, BelowChild DEF Tree
      <4> QED  BY <4>1, <3>7, <1>1, <1>11
    <3> QED  BY <3>6, <3>8, <1>2
  <2>2. u.color[u.root] = RBRED => u.root = g
    <3>1. t.root \in D
      BY <1>1 DEF Tree, Memory
    <3>2. x # t.root
      <4>1. x = t.root => t.parent[x] = NULL
        BY <1>1, ParentOf DEF Tree
      <4> QED  BY <4>1, <1>1, <1>2, Colors
    <3> QED  BY <3>1, <3>2, <1>1, <1>7 DEF RedsOnly
  <2> QED  BY <2>1, <2>2 DEF RedsOnly
<1>15. u.color[g] = RBRED
  BY <1>2, <1>7, <1>11
<1> QED  BY <1>2, <1>6, <1>13, <1>14, <1>15 DEF Inserting

LEMMA ChildOf ==
  ASSUME NEW t, NEW D, NEW L, NEW sub, Tree(t, D, L, sub)
  PROVE  \A n \in L, r \in Side :
           /\ t.child[n][r] \in L \cup {RBNIL}
           /\ t.child[n][r] # RBNIL => t.parent[t.child[n][r]] = n
           /\ t.child[n][r] # RBNIL => t.child[n][r] # n /\ t.child[n][r] # t.child[n][Opposite(r)]
<1> SUFFICES ASSUME NEW n \in L, NEW r \in Side
             PROVE  /\ t.child[n][r] \in L \cup {RBNIL}
                    /\ t.child[n][r] # RBNIL => t.parent[t.child[n][r]] = n
                    /\ t.child[n][r] # RBNIL => t.child[n][r] # n /\ t.child[n][r] # t.child[n][Opposite(r)]
  OBVIOUS
<1>1. PICK c, d : c = t.child[n][r] /\ d = t.child[n][Opposite(r)]
  OBVIOUS
<1>2. Branch(t, L, sub, n, r) /\ n \in sub[n]
  BY BelowNode DEF Tree, Shape
<1>3. c \in L \cup {RBNIL} /\ n \notin sub[c] /\ sub[c] \cap sub[d] = {} /\ (c # RBNIL => t.parent[c] = n)
  BY <1>1, <1>2 DEF Branch
<1>4. c \in L => c \in sub[c]
  BY BelowNode DEF Tree
<1> QED  BY <1>1, <1>2, <1>3, <1>4

LEMMA RootOf ==
  ASSUME NEW t, NEW D, NEW L, NEW sub, Tree(t, D, L, sub)
  PROVE  t.root \in L \cup {RBNIL} /\ (t.root \in L => t.parent[t.root] = NULL)
BY NotNodes DEF Tree, Shape

PaintedTwice(t, u, D, ns, ms) ==
  /\ u.root = t.root /\ u.child = t.child /\ u.parent = t.parent /\ u.data = t.data
  /\ \A n \in D : u.color[n] = IF n \in ms THEN RBRED ELSE IF n \in ns THEN RBBLACK ELSE t.color[n]

LEMMA PaintTwice ==
  ASSUME NEW t, NEW D, NEW L, NEW sub, Tree(t, D, L, sub), NEW ns, NEW ms, RBNIL \notin ms,
         NEW u, u = Paint(Paint(t, ns, RBBLACK), ms, RBRED)
  PROVE  Tree(u, D, L, sub) /\ PaintedTwice(t, u, D, ns, ms)
<1>1. RBRED \in {RBBLACK, RBRED} /\ RBBLACK \in {RBBLACK, RBRED}
  OBVIOUS
<1>2. PICK t1 : t1 = Paint(t, ns, RBBLACK)
  OBVIOUS
<1>3. Tree(t1, D, L, sub) /\ Painted(t, t1, D, ns, RBBLACK)
  BY <1>1, <1>2, PaintTree
<1>4. Tree(u, D, L, sub) /\ Painted(t1, u, D, ms, RBRED)
  BY <1>1, <1>2, <1>3, PaintTree
<1> QED  BY <1>3, <1>4 DEF Painted, PaintedTwice

(* x is between its parent and its grandparent: a first rotation.          *)
LEMMA InsertBend ==
  ASSUME NEW t, NEW D, NEW L, NEW sub, NEW h, NEW x, Inserting(t, D, L, sub, h, x),
         NEW p, NEW g, NEW s, NEW w, Climbing(t, L, x, p, g, s, w), x = t.child[p][Opposite(s)],
         NEW u, u = Rotate(t, p, s)
  PROVE  (\E v : Inserting(u, D, L, v, h, p)) /\ Climbing(u, L, p, x, g, s, w) /\ u.child[x][s] = p
         /\ u.color = t.color
<1>1. /\ Tree(t, D, L, sub) /\ Levels(t, L, h, {}) /\ x \in L /\ RedsOnly(t, L, {}, {x})
      /\ t.color[x] = RBRED
  BY DEF Inserting
<1>2. /\ p \in L /\ g \in L /\ p # g /\ x # p /\ x # g
      /\ p # t.root /\ t.parent[x] = p /\ t.parent[p] = g
      /\ t.color[p] = RBRED /\ t.color[g] = RBBLACK
      /\ s \in Side /\ t.child[g][s] = p /\ w = t.child[g][Opposite(s)] /\ w # p /\ w # x /\ w # g
      /\ w \in L \cup {RBNIL}
  BY DEF Climbing
<1>3. /\ RBRED # RBBLACK /\ t.color[RBNIL] = RBBLACK
      /\ \A n \in D : t.color[n] = RBRED \/ t.color[n] = RBBLACK
      /\ \A n \in L, r \in Side : t.child[n][r] \in L \cup {RBNIL}
      /\ L \subseteq D /\ RBNIL \in D /\ RBNIL \notin L /\ NULL \notin L
  BY <1>1, Colors
<1>4. PICK a, b, c : a = t.child[p][s] /\ b = t.child[x][s] /\ c = t.child[x][Opposite(s)]
  OBVIOUS
<1>5. PICK v : v = TurnedSub(t, sub, p, s)
  OBVIOUS
<1>6. Tree(u, D, L, v) /\ Rotated(t, u, D, p, s)
  BY <1>1, <1>2, <1>3, <1>5, RotateTree
<1>7. LinksAfter(t, u, L, s, p, x, a, b, c, g)
  BY <1>1, <1>2, <1>3, <1>4, <1>6, RotateAllLinks
<1>8. /\ u.root = t.root /\ u.color = t.color /\ u.child[x][s] = p
      /\ u.parent[p] = x /\ u.parent[x] = g
      /\ u.child[g][SideOf(t, p)] = x /\ u.child[g][Opposite(SideOf(t, p))] = t.child[g][Opposite(SideOf(t, p))]
  BY <1>2, <1>3, <1>6 DEF Rotated
<1>9. SideOf(t, p) = s
  <2>1. t.child[g][SideOf(t, p)] = p /\ SideOf(t, p) \in Side /\ t.child[g][Opposite(SideOf(t, p))] # p
    BY <1>1, <1>2, ParentOf DEF Tree
  <2> QED  BY <2>1, <1>2, Sides
<1>10. RBNIL \notin {a, b, c} => {a, b, c} \subseteq L
  BY <1>2, <1>3, <1>4, <1>1, Sides
<1>11. Levels(u, L, h, {})
  <2>1. /\ \A n \in L \cup {RBNIL} : h[n] \in Nat \ {0}
        /\ \A n \in L, r \in Side :
              /\ t.color[n] = RBRED => h[n] = h[t.child[n][r]] + Extra({}, n, r)
              /\ t.color[n] = RBBLACK => h[n] = h[t.child[n][r]] + Extra({}, n, r) + 1
    BY <1>1, HeightOf
  <2>2. Opposite(s) \in Side /\ (\A n, r : Extra({}, n, r) = 0) /\ Weight(t, p) = 0 /\ Weight(t, x) = 0
    BY <1>1, <1>2, <1>3, Sides DEF Extra, Weight
  <2>3. /\ h[p] = h[a] + Extra({}, p, s) /\ h[p] = h[x] + Extra({}, p, Opposite(s))
        /\ h[x] = h[b] + Extra({}, x, s) /\ h[x] = h[c] + Extra({}, x, Opposite(s))
    BY <2>1, <2>2, <1>1, <1>2, <1>4
  <2>4. a \in L \cup {RBNIL} /\ b \in L \cup {RBNIL} /\ c \in L \cup {RBNIL}
    BY <2>2, <1>1, <1>2, <1>3, <1>4
  <2>5. /\ h[p] \in Nat /\ h[x] \in Nat /\ h[a] \in Nat /\ h[b] \in Nat /\ h[c] \in Nat
    BY <2>1, <2>4, <1>1, <1>2
  <2>6. /\ h[x] = h[p]
        /\ h[p] = h[a] + Extra({}, p, s) + Weight(t, p)
        /\ h[p] = h[b] + Extra({}, p, Opposite(s)) + Weight(t, p)
        /\ h[x] = h[p] + Extra({}, x, s) + Weight(t, x)
        /\ h[x] = h[c] + Extra({}, x, Opposite(s)) + Weight(t, x)
    BY <2>2, <2>3, <2>5
  <2>7. \A n \in L \ {p, x} : Level(t, h, {}, n)
    BY <1>1 DEF Levels
  <2>8. Refitted(t, L, s, p, x, a, b, c, h, {}, h, {})
    BY <2>6, <2>7 DEF Refitted
  <2>9. \A n \in L : Level(u, h, {}, n)
    BY <2>8, <1>2, <1>3, <1>7, <1>8, RotateLevels
  <2> QED  BY <2>9, <1>1 DEF Levels
<1>12. RedsOnly(u, L, {}, {p})
  <2>1. ASSUME NEW n \in L, NEW r \in Side, RedPair(u, n, r)
        PROVE  u.child[n][r] = p
    <3>1. PICK e : e = u.child[n][r]
      OBVIOUS
    <3>2. t.color[n] = RBRED /\ t.color[e] = RBRED
      BY <2>1, <3>1, <1>8 DEF RedPair
    <3>3. \/ n = p /\ r = s /\ e = a
          \/ n = p /\ r = Opposite(s) /\ e = b
          \/ n = x /\ r = s /\ e = p
          \/ n = x /\ r = Opposite(s) /\ e = c
          \/ n = g /\ n \notin {p, x} /\ t.child[n][r] = p /\ e = x
          \/ n \notin {p, x} /\ e = t.child[n][r] /\ t.child[n][r] \notin {p, x}
      BY <3>1, <1>7 DEF LinksAfter
    <3>4. Opposite(s) \in Side
      BY <1>2, Sides
    <3>5. \A m \in L, q \in Side : t.color[m] = RBRED /\ t.color[t.child[m][q]] = RBRED => t.child[m][q] = x
      BY <1>1 DEF RedsOnly, RedPair
    <3>6. a # x /\ b # x /\ c # x
      BY <3>4, <1>1, <1>2, <1>3, <1>4, ChildOf
    <3> QED  BY ONLY <3>1, <3>2, <3>3, <3>4, <3>5, <3>6, <1>1, <1>2, <1>3, <1>4
  <2>2. u.color[u.root] # RBRED
    <3>1. x # t.root
      <4>1. x = t.root => t.parent[x] = NULL
        BY <1>1, ParentOf DEF Tree
      <4> QED  BY <4>1, <1>2, <1>3
    <3> QED  BY <3>1, <1>1, <1>8 DEF RedsOnly
  <2> QED  BY <2>1, <2>2 DEF RedsOnly
<1>13. Inserting(u, D, L, v, h, p)
  BY <1>2, <1>6, <1>8, <1>11, <1>12 DEF Inserting
<1>14. Climbing(u, L, p, x, g, s, w)
  <2>1. x # t.root
    <3>1. x = t.root => t.parent[x] = NULL
      BY <1>1, ParentOf DEF Tree
    <3> QED  BY <3>1, <1>2, <1>3
  <2> QED  BY <2>1, <1>1, <1>2, <1>8, <1>9 DEF Climbing
<1> QED  BY <1>8, <1>13, <1>14

(* x is on the outer side of its parent: a rotation of the grandparent     *)
(* ends the loop.                                                          *)
LEMMA InsertTurn ==
  ASSUME NEW t, NEW D, NEW L, NEW sub, NEW h, NEW x, Inserting(t, D, L, sub, h, x),
         NEW p, NEW g, NEW s, NEW w, Climbing(t, L, x, p, g, s, w), x = t.child[p][s],
         t.color[w] # RBRED,
         NEW u, u = Rotate(Paint(Paint(t, {p}, RBBLACK), {g}, RBRED), g, Opposite(s))
  PROVE  \E v, k : Inserting(u, D, L, v, k, x)
<1>1. /\ Tree(t, D, L, sub) /\ Levels(t, L, h, {}) /\ x \in L /\ RedsOnly(t, L, {}, {x})
      /\ t.color[x] = RBRED
  BY DEF Inserting
<1>2. /\ p \in L /\ g \in L /\ p # g /\ x # p /\ x # g
      /\ p # t.root /\ t.parent[x] = p /\ t.parent[p] = g
      /\ t.color[p] = RBRED /\ t.color[g] = RBBLACK
      /\ s \in Side /\ t.child[g][s] = p /\ w = t.child[g][Opposite(s)] /\ w # p /\ w # x /\ w # g
      /\ w \in L \cup {RBNIL}
  BY DEF Climbing
<1>3. /\ RBRED # RBBLACK /\ t.color[RBNIL] = RBBLACK
      /\ \A n \in D : t.color[n] = RBRED \/ t.color[n] = RBBLACK
      /\ \A n \in L, r \in Side : t.child[n][r] \in L \cup {RBNIL}
      /\ L \subseteq D /\ RBNIL \in D /\ RBNIL \notin L /\ NULL \notin L
  BY <1>1, Colors
<1>4. PICK t1 : t1 = Paint(Paint(t, {p}, RBBLACK), {g}, RBRED)
  OBVIOUS
<1>5. Tree(t1, D, L, sub) /\ PaintedTwice(t, t1, D, {p}, {g})
  <2>1. RBNIL \notin {g}
    BY <1>2, <1>3
  <2> QED  BY <2>1, <1>1, <1>4, PaintTwice
<1>6. /\ t1.root = t.root /\ t1.child = t.child /\ t1.parent = t.parent
      /\ \A n \in D : t1.color[n] = IF n = g THEN RBRED ELSE IF n = p THEN RBBLACK ELSE t.color[n]
  BY <1>5 DEF PaintedTwice
<1>7. PICK b, q, f : b = t.child[p][f] /\ q = t.parent[g] /\ f = Opposite(s)
  <2>1. PICK f : f = Opposite(s)
    OBVIOUS
  <2>2. PICK b, q : b = t.child[p][f] /\ q = t.parent[g]
    OBVIOUS
  <2> QED  BY <2>1, <2>2
<1>8. f \in Side /\ Opposite(f) = s /\ u = Rotate(t1, g, f)
  BY <1>2, <1>4, <1>7, Sides
<1>9. PICK v : v = TurnedSub(t1, sub, g, f)
  OBVIOUS
<1>10. t1.child[g][Opposite(f)] = p /\ p # RBNIL /\ t1.child[g][f] = w /\ t1.child[p][f] = b /\ t1.child[p][Opposite(f)] = x
       /\ t1.parent[g] = q
  BY <1>2, <1>3, <1>6, <1>7, <1>8
<1>11. Tree(u, D, L, v) /\ Rotated(t1, u, D, g, f)
  BY <1>2, <1>5, <1>8, <1>9, <1>10, RotateTree
<1>12. LinksAfter(t1, u, L, f, g, p, w, b, x, q)
  BY <1>2, <1>5, <1>8, <1>10, <1>11, RotateAllLinks
<1>13. u.color = t1.color /\ u.root = IF q = NULL THEN p ELSE t.root
  BY <1>6, <1>10, <1>11 DEF Rotated
<1>14. b \in L \cup {RBNIL} /\ b # x /\ b # g /\ b # p
  <2>1. b \in L \cup {RBNIL} /\ b # x /\ (b # RBNIL => t.parent[b] = p /\ b # p)
    BY <1>1, <1>2, <1>3, <1>7, <1>8, ChildOf
  <2>2. g # p /\ t.parent[g] = q /\ q # p
    <3>1. RotationIn(t1, L, sub, g, p, w, b, x, q)
      BY <1>2, <1>5, <1>8, <1>10, RotationNodes DEF Tree
    <3> QED  BY <3>1, <1>7 DEF RotationIn
  <2> QED  BY <2>1, <2>2, <1>2, <1>3
<1>15. PICK k : k = [h EXCEPT ![p] = h[g], ![g] = h[p]]
  OBVIOUS
<1>16. Levels(u, L, k, {})
  <2>1. /\ \A n \in L \cup {RBNIL} : h[n] \in Nat \ {0}
        /\ \A n \in L, r \in Side :
              /\ t.color[n] = RBRED => h[n] = h[t.child[n][r]] + Extra({}, n, r)
              /\ t.color[n] = RBBLACK => h[n] = h[t.child[n][r]] + Extra({}, n, r) + 1
    BY <1>1, HeightOf
  <2>2. (\A n, r : Extra({}, n, r) = 0) /\ Weight(t1, g) = 0 /\ Weight(t1, p) = 1
    BY <1>2, <1>3, <1>6 DEF Extra, Weight
  <2>3. /\ h[p] \in Nat /\ h[g] \in Nat /\ h[b] \in Nat /\ h[x] \in Nat /\ h[w] \in Nat
    BY <2>1, <1>1, <1>2, <1>14
  <2>4. h[g] = h[p] + 1 /\ h[g] = h[w] + 1 /\ h[p] = h[b] /\ h[p] = h[x]
    BY <2>1, <2>2, <2>3, <1>2, <1>7, <1>8
  <2>5. /\ k \in Heights(L) /\ k[p] = h[g] /\ k[g] = h[p]
        /\ \A n \in (L \cup {RBNIL}) \ {g, p} : k[n] = h[n]
    <3>1. h \in Heights(L)
      BY <1>1 DEF Levels
    <3> QED  BY <3>1, <2>1, <1>2, <1>15 DEF Heights
  <2>6. k[w] = h[w] /\ k[b] = h[b] /\ k[x] = h[x]
    BY <2>5, <1>1, <1>2, <1>14
  <2>7. ASSUME NEW n \in L \ {g, p}  PROVE Level(t1, h, {}, n)
    <3>1. t1.color[n] = t.color[n]
      BY <2>7, <1>3, <1>6
    <3>2. Level(t, h, {}, n)
      BY <1>1 DEF Levels
    <3> QED  BY <3>1, <3>2, <1>6 DEF Level, Weight
  <2>8. Refitted(t1, L, f, g, p, w, b, x, h, {}, k, {})
    <3>1. /\ k[g] = k[w] + Extra({}, g, f) + Weight(t1, g)
          /\ k[g] = k[b] + Extra({}, g, Opposite(f)) + Weight(t1, g)
          /\ k[p] = k[g] + Extra({}, p, f) + Weight(t1, p)
          /\ k[p] = k[x] + Extra({}, p, Opposite(f)) + Weight(t1, p)
      <4>1. /\ k[p] = h[g] /\ k[g] = h[p] /\ k[w] = h[p] /\ k[b] = h[p] /\ k[x] = h[p] /\ h[g] = h[p] + 1
        <5>1. h[w] = h[p] /\ h[b] = h[p] /\ h[x] = h[p] /\ h[g] = h[p] + 1
          BY ONLY <2>3, <2>4
        <5>2. k[p] = h[g] /\ k[g] = h[p]
          BY <2>5
        <5> QED  BY ONLY <5>1, <5>2, <2>6
      <4>2. /\ Extra({}, g, f) = 0 /\ Extra({}, g, Opposite(f)) = 0 /\ Extra({}, p, f) = 0
            /\ Extra({}, p, Opposite(f)) = 0
        BY <2>2
      <4> QED  BY ONLY <2>2, <2>3, <4>1, <4>2
    <3> QED  BY ONLY <2>5, <2>7, <3>1 DEF Refitted
  <2>9. \A n \in L, r \in Side : t1.child[n][r] \in L \cup {RBNIL}
    BY <1>3, <1>6
  <2>10. \A n \in L : Level(u, k, {}, n)
    BY <2>8, <2>9, <1>8, <1>12, <1>13, RotateLevels
  <2>11. k[RBNIL] = 1
    BY <2>5, <1>1, <1>2, <1>3 DEF Levels
  <2> QED  BY <2>5, <2>10, <2>11 DEF Levels
<1>17. RedsOnly(u, L, {}, {x})
  <2>1. ASSUME NEW n \in L, NEW r \in Side, RedPair(u, n, r)
        PROVE  u.child[n][r] = x
    <3>1. PICK e : e = u.child[n][r]
      OBVIOUS
    <3>2. t1.color[n] = RBRED /\ t1.color[e] = RBRED
      BY <2>1, <3>1, <1>13 DEF RedPair
    <3>3. \/ n = g /\ r = f /\ e = w
          \/ n = g /\ r = Opposite(f) /\ e = b
          \/ n = p /\ r = f /\ e = g
          \/ n = p /\ r = Opposite(f) /\ e = x
          \/ n = q /\ n \notin {g, p} /\ t1.child[n][r] = g /\ e = p
          \/ n \notin {g, p} /\ e = t1.child[n][r] /\ t1.child[n][r] \notin {g, p}
      BY ONLY <3>1, <1>12 DEF LinksAfter
    <3>4. \A m \in L, i \in Side : t.color[m] = RBRED /\ t.color[t.child[m][i]] = RBRED => t.child[m][i] = x
      BY <1>1 DEF RedsOnly, RedPair
    <3>5. e \in D /\ n \in D /\ w \in D /\ b \in D
      BY <3>3, <1>1, <1>2, <1>3, <1>6, <1>14
    <3>6. n # p /\ e # p
      BY <3>2, <3>5, <1>2, <1>3, <1>6
    <3>7. CASE n = g
      <4>1. t.color[w] # RBRED /\ w # g /\ w # p
        BY <1>2
      <4>2. e # w
        BY <3>2, <3>5, <4>1, <1>6
      <4>3. e = b /\ e # g
        BY <3>3, <3>7, <4>2, <1>2, <1>14
      <4>4. t.color[b] = RBRED
        BY <3>2, <3>5, <3>6, <4>3, <1>6
      <4> QED  BY <3>4, <4>4, <1>2, <1>7, <1>8, <1>14
    <3>8. CASE n # g
      <4>1. e = t.child[n][r] /\ e # g
        BY <3>3, <3>6, <3>8, <1>6
      <4>2. t.color[n] = RBRED /\ t.color[e] = RBRED
        BY <3>2, <3>5, <3>6, <3>8, <4>1, <1>6
      <4> QED  BY <3>1, <3>4, <4>1, <4>2
    <3> QED  BY <3>7, <3>8
  <2>2. u.color[u.root] # RBRED
    <3>1. CASE q = NULL
      BY <3>1, <1>2, <1>3, <1>6, <1>13
    <3>2. CASE q # NULL
      <4>1. t.root # x /\ t.root # g /\ t.root \in D
        <5>1. x = t.root => t.parent[x] = NULL
          BY <1>1, ParentOf DEF Tree
        <5>2. g = t.root => t.parent[g] = NULL
          BY ONLY <1>1, <1>2, ParentOf DEF Tree
        <5> QED  BY <5>1, <5>2, <3>2, <1>1, <1>2, <1>3, <1>7 DEF Tree, Memory
      <4> QED  BY <3>2, <4>1, <1>1, <1>2, <1>6, <1>13 DEF RedsOnly
    <3> QED  BY <3>1, <3>2
  <2> QED  BY <2>1, <2>2 DEF RedsOnly
<1>18. u.color[x] = RBRED
  BY <1>1, <1>2, <1>3, <1>6, <1>13
<1> QED  BY <1>1, <1>11, <1>16, <1>17, <1>18 DEF Inserting

(* One iteration.                                                          *)
LEMMA InsertStep ==
  ASSUME NEW t, NEW D, NEW L, NEW sub, NEW h, NEW x, Inserting(t, D, L, sub, h, x), RedAboveRed(t, x)
  PROVE  \E v, k : Inserting(InsertFixupStep(t, x).tree, D, L, v, k, InsertFixupStep(t, x).x)
<1>1. PICK p, g, s, w : p = t.parent[x] /\ g = t.parent[p] /\ s = SideOf(t, p) /\ w = t.child[g][Opposite(s)]
  OBVIOUS
<1>2. Climbing(t, L, x, p, g, s, w) /\ t.child[p][SideOf(t, x)] = x /\ SideOf(t, x) \in Side
  BY <1>1, InsertingWhere
<1>3. CASE t.color[w] = RBRED
  <2>1. /\ InsertFixupStep(t, x).tree = Paint(Paint(t, {p, w}, RBBLACK), {g}, RBRED)
        /\ InsertFixupStep(t, x).x = g
    BY <1>1, <1>3 DEF InsertFixupStep
  <2> QED  BY <2>1, <1>2, <1>3, InsertUncle
<1>4. CASE t.color[w] # RBRED /\ x = t.child[p][Opposite(s)]
  <2>1. PICK u : u = Rotate(t, p, s)
    OBVIOUS
  <2>2. /\ InsertFixupStep(t, x).tree = Rotate(Paint(Paint(u, {x}, RBBLACK), {g}, RBRED), g, Opposite(s))
        /\ InsertFixupStep(t, x).x = p
    BY <2>1, <1>1, <1>4 DEF InsertFixupStep
  <2>3. (\E v : Inserting(u, D, L, v, h, p)) /\ Climbing(u, L, p, x, g, s, w) /\ u.child[x][s] = p
        /\ u.color = t.color
    BY <2>1, <1>2, <1>4, InsertBend
  <2> QED  BY <2>2, <2>3, <1>4, InsertTurn
<1>5. CASE t.color[w] # RBRED /\ x # t.child[p][Opposite(s)]
  <2>1. /\ InsertFixupStep(t, x).tree = Rotate(Paint(Paint(t, {p}, RBBLACK), {g}, RBRED), g, Opposite(s))
        /\ InsertFixupStep(t, x).x = x
    BY <1>1, <1>5 DEF InsertFixupStep
  <2>2. x = t.child[p][s]
    BY <1>2, <1>5, Sides DEF Climbing
  <2> QED  BY <2>1, <2>2, <1>2, <1>5, InsertTurn
<1> QED  BY <1>3, <1>4, <1>5

-----------------------------------------------------------------------------
(***************************************************************************)
(* Deletion.                                                               *)
(***************************************************************************)

(* The link below which a black node is missing.                           *)
Missing(t, x) == IF x = t.root THEN {} ELSE {<<t.parent[x], SideOf(t, x)>>}

(* The tree between two iterations of the loop of rb_delete_fixup.         *)
Deleting(t, D, L, sub, h, x) ==
  /\ Tree(t, D, L, sub) /\ x \in L \cup {RBNIL}
  /\ x # t.root => t.parent[x] \in L /\ t.child[t.parent[x]][SideOf(t, x)] = x
  /\ Levels(t, L, h, Missing(t, x)) /\ RedsOnly(t, L, {x}, {x})

(* Between calls.                                                          *)
RedBlack(t, D, L, sub, h) == Tree(t, D, L, sub) /\ Levels(t, L, h, {}) /\ RedsOnly(t, L, {}, {})

LEMMA SideOfSide ==
  \A t, x : SideOf(t, x) \in Side
BY DEF SideOf, Side

(* The end of the loop: x becomes black.                                   *)
LEMMA DeleteEnds ==
  ASSUME NEW t, NEW D, NEW L, NEW sub, NEW h, NEW x, Deleting(t, D, L, sub, h, x), ~BlackBelowRoot(t, x),
         NEW u, u = Paint(t, {x}, RBBLACK)
  PROVE  \E k : RedBlack(u, D, L, sub, k)
<1>1. /\ Tree(t, D, L, sub) /\ x \in L \cup {RBNIL}
      /\ x # t.root => t.parent[x] \in L /\ t.child[t.parent[x]][SideOf(t, x)] = x
      /\ Levels(t, L, h, Missing(t, x)) /\ RedsOnly(t, L, {x}, {x})
  BY DEF Deleting
<1>2. /\ RBRED # RBBLACK /\ t.color[RBNIL] = RBBLACK /\ RBBLACK \in {RBBLACK, RBRED}
      /\ \A n \in D : t.color[n] = RBRED \/ t.color[n] = RBBLACK
      /\ \A n \in L, r \in Side : t.child[n][r] \in L \cup {RBNIL}
      /\ L \subseteq D /\ RBNIL \in D /\ RBNIL \notin L /\ NULL \notin L
  BY <1>1, Colors
<1>3. Tree(u, D, L, sub) /\ Painted(t, u, D, {x}, RBBLACK)
  BY <1>1, <1>2, PaintTree
<1>4. /\ u.root = t.root /\ u.child = t.child
      /\ \A n \in D : u.color[n] = IF n = x THEN RBBLACK ELSE t.color[n]
  BY <1>3 DEF Painted
<1>5. x = t.root \/ t.color[x] = RBRED
  BY <1>1, <1>2 DEF BlackBelowRoot
<1>6. RedsOnly(u, L, {}, {})
  <2>1. t.root \in D /\ (t.color[t.root] = RBRED => t.root = x)
    BY <1>1 DEF RedsOnly, Tree, Memory
  <2>2. u.color[u.root] # RBRED
    BY <2>1, <1>2, <1>4
  <2>3. ASSUME NEW n \in L, NEW r \in Side, RedPair(u, n, r)
        PROVE  FALSE
    <3>1. PICK e : e = t.child[n][r]
      OBVIOUS
    <3>2. n \in D /\ e \in D
      BY <3>1, <1>2
    <3>3. u.color[n] = RBRED /\ u.color[e] = RBRED
      BY <2>3, <3>1, <1>4 DEF RedPair
    <3>4. n # x /\ e # x /\ t.color[n] = RBRED /\ t.color[e] = RBRED
      BY <3>2, <3>3, <1>2, <1>4
    <3> QED  BY <3>1, <3>4, <1>1 DEF RedsOnly, RedPair
  <2> QED  BY <2>2, <2>3 DEF RedsOnly
<1>7. /\ h \in Heights(L) /\ h[RBNIL] = 1
      /\ \A n \in L \cup {RBNIL} : h[n] \in Nat \ {0}
      /\ \A n \in L, r \in Side :
              /\ t.color[n] = RBRED => h[n] = h[t.child[n][r]] + Extra(Missing(t, x), n, r)
              /\ t.color[n] = RBBLACK => h[n] = h[t.child[n][r]] + Extra(Missing(t, x), n, r) + 1
  BY <1>1, HeightOf DEF Levels
<1>8. CASE t.color[x] = RBRED
  <2>1. x \in L
    BY <1>1, <1>2, <1>8
  <2>2. PICK k : k = [h EXCEPT ![x] = h[x] + 1]
    OBVIOUS
  <2>3. k \in Heights(L) /\ \A n \in L \cup {RBNIL} : k[n] = IF n = x THEN h[n] + 1 ELSE h[n]
    BY <2>1, <2>2, <1>7 DEF Heights
  <2>4. ASSUME NEW n \in L, NEW r \in Side
        PROVE  k[n] = k[t.child[n][r]] + Extra({}, n, r) + Weight(u, n)
    <3>1. PICK e : e = t.child[n][r]
      OBVIOUS
    <3>2. e \in L \cup {RBNIL} /\ n \in D
      BY <3>1, <1>2
    <3>3. Extra({}, n, r) = 0
      BY DEF Extra
    <3>4. CASE e = x
      <4>1. t.parent[x] = n /\ x # n
        <5>1. e # RBNIL => t.parent[e] = n /\ e # n
          BY <3>1, <1>1, ChildOf
        <5> QED  BY <5>1, <2>1, <3>4, <1>2
      <4>2. x # t.root /\ n = t.parent[x]
        <5>1. x = t.root => t.parent[x] = NULL
          BY <2>1, <1>1, ParentOf DEF Tree
        <5> QED  BY <4>1, <5>1, <1>2
      <4>3. r = SideOf(t, x)
        <5>1. t.child[n][Opposite(SideOf(t, x))] # x
          BY <2>1, <4>2, <1>1, ParentOf DEF Tree
        <5> QED  BY <5>1, <3>1, <3>4, Sides, SideOfSide
      <4>4. Extra(Missing(t, x), n, r) = 1
        BY <4>2, <4>3 DEF Extra, Missing
      <4>5. k[n] = h[n] /\ k[e] = h[e] + 1 /\ u.color[n] = t.color[n]
        BY <2>3, <3>2, <3>4, <4>1, <1>4
      <4>6. h[n] = h[e] + 1 + Weight(t, n)
        BY <4>4, <3>1, <3>2, <1>2, <1>7 DEF Weight
      <4>7. h[n] \in Nat /\ h[e] \in Nat /\ Weight(u, n) = Weight(t, n) /\ Weight(t, n) \in Nat
        BY <4>5, <3>2, <1>7 DEF Weight
      <4> QED  BY ONLY <4>5, <4>6, <4>7, <3>1, <3>3
    <3>5. CASE e # x
      <4>1. Extra(Missing(t, x), n, r) = 0
        BY <3>1, <3>5, <1>1 DEF Extra, Missing
      <4>2. k[e] = h[e] /\ h[n] \in Nat /\ h[e] \in Nat
        BY <2>3, <3>2, <3>5, <1>7
      <4>3. CASE n = x
        <5>1. k[n] = h[n] + 1 /\ h[n] = h[e] + 0 /\ Weight(u, n) = 1
          BY <2>3, <3>1, <3>2, <4>1, <4>3, <1>4, <1>7, <1>8 DEF Weight
        <5> QED  BY ONLY <5>1, <4>2, <3>1, <3>3
      <4>4. CASE n # x
        <5>1. k[n] = h[n] /\ Weight(u, n) = Weight(t, n)
          BY <2>3, <3>2, <4>4, <1>4 DEF Weight
        <5>2. h[n] = h[e] + 0 + Weight(t, n)
          BY <3>1, <4>1, <1>1 DEF Levels, Level
        <5> QED  BY ONLY <5>1, <5>2, <4>2, <3>1, <3>3
      <4> QED  BY <4>3, <4>4
    <3> QED  BY <3>4, <3>5
  <2>5. k[RBNIL] = 1
    BY <2>1, <2>3, <1>2, <1>7
  <2>6. Levels(u, L, k, {})
    BY <2>3, <2>4, <2>5, <1>4 DEF Levels, Level
  <2> QED  BY <2>6, <1>3, <1>6 DEF RedBlack
<1>9. CASE t.color[x] # RBRED
  <2>1. x = t.root /\ Missing(t, x) = {}
    BY <1>5, <1>9 DEF Missing
  <2>2. \A n \in L : u.color[n] = t.color[n]
    BY <1>2, <1>4, <1>9
  <2>3. Levels(u, L, h, {})
    <3> SUFFICES ASSUME NEW n \in L  PROVE Level(u, h, {}, n)
      BY <1>7 DEF Levels
    <3>1. Level(t, h, {}, n)
      BY <2>1, <1>1 DEF Levels
    <3> QED  BY <3>1, <2>2, <1>4 DEF Level, Weight
  <2> QED  BY <2>3, <1>3, <1>6 DEF RedBlack
<1> QED  BY <1>8, <1>9

(* rb_insert_fixup paints the root black.                                  *)
LEMMA InsertEnds ==
  ASSUME NEW t, NEW D, NEW L, NEW sub, NEW h, NEW x, Inserting(t, D, L, sub, h, x), ~RedAboveRed(t, x)
  PROVE  \E k : RedBlack(Paint(t, {t.root}, RBBLACK), D, L, sub, k)
<1>1. /\ Tree(t, D, L, sub) /\ Levels(t, L, h, {})
      /\ x \in L /\ t.color[x] = RBRED /\ RedsOnly(t, L, {}, {x})
  BY DEF Inserting
<1>2. t.root \in L \cup {RBNIL}
  BY <1>1 DEF Tree, Shape
<1>3. RedsOnly(t, L, {t.root}, {t.root})
  <2>1. CASE x = t.root
    BY <2>1, <1>1 DEF RedsOnly
  <2>2. CASE x # t.root
    <3>1. t.color[t.parent[x]] # RBRED
      BY <2>2 DEF RedAboveRed
    <3>2. ASSUME NEW n \in L, NEW r \in Side, RedPair(t, n, r)  PROVE FALSE
      <4>1. t.child[n][r] = x
        BY <3>2, <1>1 DEF RedsOnly
      <4>2. t.parent[x] = n
        BY <4>1, <1>1, ChildOf, Colors
      <4> QED  BY <3>1, <3>2, <4>2 DEF RedPair
    <3> QED  BY <3>2 DEF RedsOnly
  <2> QED  BY <2>1, <2>2
<1>4. Missing(t, t.root) = {} /\ ~BlackBelowRoot(t, t.root)
  BY DEF Missing, BlackBelowRoot
<1>5. Deleting(t, D, L, sub, h, t.root)
  BY <1>1, <1>2, <1>3, <1>4 DEF Deleting
<1> QED  BY <1>4, <1>5, DeleteEnds

(* No two red nodes meet after a rotation.                                 *)
Separated(t, L, x, y, a, b, c, p) ==
  /\ t.color[x] = RBRED => t.color[a] # RBRED /\ t.color[b] # RBRED
  /\ t.color[y] = RBRED => t.color[x] # RBRED /\ t.color[c] # RBRED /\ (p \in L => t.color[p] # RBRED)
  /\ \A n \in L \ {x, y}, r \in Side : t.child[n][r] \notin {x, y} => ~RedPair(t, n, r)

LEMMA RotateReds ==
  ASSUME NEW t, NEW u, NEW L, NEW s, NEW x, NEW y, NEW a, NEW b, NEW c, NEW p,
         LinksAfter(t, u, L, s, x, y, a, b, c, p), u.color = t.color,
         Separated(t, L, x, y, a, b, c, p)
  PROVE  \A n \in L, r \in Side : ~RedPair(u, n, r)
<1> SUFFICES ASSUME NEW n \in L, NEW r \in Side, RedPair(u, n, r)  PROVE FALSE
  OBVIOUS
<1>1. PICK e : e = u.child[n][r]
  OBVIOUS
<1>2. t.color[n] = RBRED /\ t.color[e] = RBRED
  BY <1>1 DEF RedPair
<1>3. \/ n = x /\ r = s /\ e = a
      \/ n = x /\ r = Opposite(s) /\ e = b
      \/ n = y /\ r = s /\ e = x
      \/ n = y /\ r = Opposite(s) /\ e = c
      \/ n = p /\ n \notin {x, y} /\ t.child[n][r] = x /\ e = y
      \/ n \notin {x, y} /\ e = t.child[n][r] /\ t.child[n][r] \notin {x, y}
  BY <1>1 DEF LinksAfter
<1> QED  BY <1>2, <1>3 DEF Separated, RedPair

(* The loop goes on: below p, on side s, is x, where a black node is       *)
(* missing; w is the sibling.                                              *)
Lacking(t, D, L, sub, h, x, p, s, w) ==
  /\ Tree(t, D, L, sub) /\ x \in L \cup {RBNIL} /\ p \in L /\ s \in Side
  /\ t.child[p][s] = x /\ t.parent[x] = p /\ w = t.child[p][Opposite(s)]
  /\ t.color[x] # RBRED
  /\ Levels(t, L, h, {<<p, s>>}) /\ RedsOnly(t, L, {}, {})

LEMMA DeletingWhere ==
  ASSUME NEW t, NEW D, NEW L, NEW sub, NEW h, NEW x, Deleting(t, D, L, sub, h, x), BlackBelowRoot(t, x),
         NEW p, p = t.parent[x], NEW s, s = SideOf(t, x), NEW w, w = t.child[p][Opposite(s)]
  PROVE  Lacking(t, D, L, sub, h, x, p, s, w)
<1>1. /\ Tree(t, D, L, sub) /\ x \in L \cup {RBNIL}
      /\ x # t.root => t.parent[x] \in L /\ t.child[t.parent[x]][SideOf(t, x)] = x
      /\ Levels(t, L, h, Missing(t, x)) /\ RedsOnly(t, L, {x}, {x})
  BY DEF Deleting
<1>2. x # t.root /\ t.color[x] # RBRED
  BY <1>1, Colors DEF BlackBelowRoot
<1>3. Missing(t, x) = {<<p, s>>}
  BY <1>2 DEF Missing
<1>4. RedsOnly(t, L, {}, {})
  BY <1>1, <1>2 DEF RedsOnly, RedPair
<1> QED  BY <1>1, <1>2, <1>3, <1>4, SideOfSide DEF Lacking

(* The sibling is a node, and what is around it.                           *)
Sibling(t, L, h, x, p, s, w, a, c, f) ==
  /\ f = Opposite(s) /\ s = Opposite(f) /\ f \in Side /\ f # s /\ SideOf(t, x) = s
  /\ w \in L /\ w # RBNIL /\ w # x /\ w # p /\ x # p /\ t.parent[w] = p
  /\ a = t.child[w][s] /\ c = t.child[w][f] /\ {a, c} \subseteq L \cup {RBNIL}
  /\ a # RBNIL => t.parent[a] = w /\ a # w /\ a # p /\ a # x /\ a # c
  /\ c # RBNIL => t.parent[c] = w /\ c # w /\ c # p /\ c # x
  /\ h[w] = h[x] + 1 /\ h[w] > 1
  /\ t.color[p] = RBRED => h[p] = h[w]
  /\ t.color[p] # RBRED => h[p] = h[w] + 1
  /\ t.color[w] = RBRED => h[a] = h[w] /\ h[c] = h[w]
  /\ t.color[w] # RBRED => h[a] + 1 = h[w] /\ h[c] + 1 = h[w]
  /\ h[w] \in Nat /\ h[p] \in Nat /\ h[x] \in Nat /\ h[a] \in Nat /\ h[c] \in Nat

LEMMA SiblingIs ==
  ASSUME NEW t, NEW D, NEW L, NEW sub, NEW h, NEW x, NEW p, NEW s, NEW w,
         Lacking(t, D, L, sub, h, x, p, s, w),
         NEW f, f = Opposite(s), NEW a, a = t.child[w][s], NEW c, c = t.child[w][f]
  PROVE  Sibling(t, L, h, x, p, s, w, a, c, f)
<1>1. /\ Tree(t, D, L, sub) /\ x \in L \cup {RBNIL} /\ p \in L /\ s \in Side
      /\ t.child[p][s] = x /\ t.parent[x] = p /\ w = t.child[p][f]
      /\ Levels(t, L, h, {<<p, s>>})
  BY DEF Lacking
<1>2. /\ RBRED # RBBLACK /\ t.color[RBNIL] = RBBLACK
      /\ \A n \in D : t.color[n] = RBRED \/ t.color[n] = RBBLACK
      /\ \A n \in L, r \in Side : t.child[n][r] \in L \cup {RBNIL}
      /\ L \subseteq D /\ RBNIL \in D /\ RBNIL \notin L /\ NULL \notin L
  BY <1>1, Colors
<1>3. f \in Side /\ f # s /\ s = Opposite(f) /\ ((f = "left" /\ s = "right") \/ (s = "left" /\ f = "right"))
  BY <1>1 DEF Side, Opposite
<1>4. /\ h[RBNIL] = 1
      /\ \A n \in L \cup {RBNIL} : h[n] \in Nat \ {0}
      /\ \A n \in L, r \in Side :
              /\ t.color[n] = RBRED => h[n] = h[t.child[n][r]] + Extra({<<p, s>>}, n, r)
              /\ t.color[n] = RBBLACK => h[n] = h[t.child[n][r]] + Extra({<<p, s>>}, n, r) + 1
  <2>1. h[RBNIL] = 1
    BY <1>1 DEF Levels
  <2> QED  BY <2>1, <1>1, HeightOf
<1>5. Extra({<<p, s>>}, p, s) = 1 /\ Extra({<<p, s>>}, p, f) = 0
  BY <1>3 DEF Extra
<1>6. w \in L \cup {RBNIL} /\ h[w] \in Nat /\ h[x] \in Nat \ {0} /\ h[p] \in Nat
  BY <1>1, <1>2, <1>3, <1>4
<1>7. /\ t.color[p] = RBRED => h[p] = h[x] + 1 /\ h[p] = h[w] + 0
      /\ t.color[p] = RBBLACK => h[p] = h[x] + 1 + 1 /\ h[p] = h[w] + 0 + 1
      /\ t.color[p] = RBRED \/ t.color[p] = RBBLACK
  <2>1. \A r \in Side : /\ t.color[p] = RBRED => h[p] = h[t.child[p][r]] + Extra({<<p, s>>}, p, r)
                        /\ t.color[p] = RBBLACK => h[p] = h[t.child[p][r]] + Extra({<<p, s>>}, p, r) + 1
    BY <1>1, <1>4
  <2>2. p \in D
    BY <1>1, <1>2
  <2> QED  BY <2>1, <2>2, <1>1, <1>2, <1>3, <1>5
<1>8. h[w] = h[x] + 1 /\ h[w] > 1 /\ (t.color[p] = RBRED => h[p] = h[w]) /\ (t.color[p] # RBRED => h[p] = h[w] + 1)
  BY ONLY <1>6, <1>7
<1>9. w \in L /\ w # RBNIL
  BY <1>4, <1>6, <1>8
<1>10. t.parent[w] = p /\ w # p /\ w # x
  BY <1>1, <1>3, <1>9, ChildOf
<1>11. x # p
  BY <1>1, <1>2, ChildOf
<1>12. SideOf(t, x) = s
  BY <1>1, <1>3, <1>10 DEF SideOf
<1>13. /\ a \in L \cup {RBNIL} /\ c \in L \cup {RBNIL}
       /\ a # RBNIL => t.parent[a] = w /\ a # w /\ a # c
       /\ c # RBNIL => t.parent[c] = w /\ c # w
  <2>1. Tree(t, D, L, sub) /\ w \in L /\ s \in Side /\ f \in Side /\ f = Opposite(s)
    BY ONLY <1>1, <1>3, <1>9, f = Opposite(s)
  <2>2. \A r \in Side : /\ t.child[w][r] \in L \cup {RBNIL}
                        /\ t.child[w][r] # RBNIL =>
                             /\ t.parent[t.child[w][r]] = w
                             /\ t.child[w][r] # w /\ t.child[w][r] # t.child[w][Opposite(r)]
    BY ONLY <2>1, ChildOf
  <2> QED  BY ONLY <2>1, <2>2, a = t.child[w][s], c = t.child[w][f]
<1>15. /\ a # RBNIL => a # p /\ a # x
       /\ c # RBNIL => c # p /\ c # x
  <2>1. p \notin sub[w]
    BY <1>1, <1>3, BelowChild DEF Tree
  <2>2. sub[a] \subseteq sub[w] /\ sub[c] \subseteq sub[w]
    BY <1>1, <1>3, <1>9, BelowChild DEF Tree
  <2>3. (a \in L => a \in sub[a]) /\ (c \in L => c \in sub[c])
    BY <1>1, BelowNode DEF Tree
  <2> QED  BY <2>1, <2>2, <2>3, <1>1, <1>10, <1>13
<1>16. /\ t.color[w] = RBRED => h[a] = h[w] /\ h[c] = h[w]
       /\ t.color[w] # RBRED => h[a] + 1 = h[w] /\ h[c] + 1 = h[w]
  <2>1. Extra({<<p, s>>}, w, s) = 0 /\ Extra({<<p, s>>}, w, f) = 0
    BY <1>10 DEF Extra
  <2>2. h[a] \in Nat /\ h[c] \in Nat
    BY <1>4, <1>13
  <2>3. /\ t.color[w] = RBRED => h[w] = h[a] + 0 /\ h[w] = h[c] + 0
        /\ t.color[w] = RBBLACK => h[w] = h[a] + 0 + 1 /\ h[w] = h[c] + 0 + 1
        /\ t.color[w] = RBRED \/ t.color[w] = RBBLACK
    <3>1. \A r \in Side : /\ t.color[w] = RBRED => h[w] = h[t.child[w][r]] + Extra({<<p, s>>}, w, r)
                          /\ t.color[w] = RBBLACK => h[w] = h[t.child[w][r]] + Extra({<<p, s>>}, w, r) + 1
      BY <1>4, <1>9
    <3>2. w \in D
      BY <1>2, <1>9
    <3> QED  BY <3>1, <3>2, <2>1, <1>1, <1>2, <1>3
  <2> QED  BY ONLY <2>2, <2>3, <1>6
<1>17. h[a] \in Nat /\ h[c] \in Nat
  BY <1>4, <1>13
<1> QED  BY <1>1, <1>3, <1>6, <1>8, <1>9, <1>10, <1>11, <1>12, <1>13, <1>15, <1>16, <1>17 DEF Sibling

(* Both nephews are black: the sibling becomes red, and x moves up.        *)
LEMMA DeleteUp ==
  ASSUME NEW t, NEW D, NEW L, NEW sub, NEW h, NEW x, NEW p, NEW s, NEW w,
         Lacking(t, D, L, sub, h, x, p, s, w), t.color[w] # RBRED,
         \A r \in Side : t.color[t.child[w][r]] # RBRED,
         NEW u, u = Paint(t, {w}, RBRED)
  PROVE  \E k : Deleting(u, D, L, sub, k, p)
<1>1. /\ Tree(t, D, L, sub) /\ x \in L \cup {RBNIL} /\ p \in L /\ s \in Side
      /\ t.child[p][s] = x /\ t.parent[x] = p /\ w = t.child[p][Opposite(s)]
      /\ t.color[x] # RBRED
      /\ Levels(t, L, h, {<<p, s>>}) /\ RedsOnly(t, L, {}, {})
  BY DEF Lacking
<1>2. /\ RBRED # RBBLACK /\ t.color[RBNIL] = RBBLACK /\ RBRED \in {RBBLACK, RBRED}
      /\ \A n \in D : t.color[n] = RBRED \/ t.color[n] = RBBLACK
      /\ \A n \in L, r \in Side : t.child[n][r] \in L \cup {RBNIL}
      /\ L \subseteq D /\ RBNIL \in D /\ RBNIL \notin L /\ NULL \notin L
  BY <1>1, Colors
<1>3. PICK f, a, c : f = Opposite(s) /\ a = t.child[w][s] /\ c = t.child[w][f]
  <2>1. PICK f : f = Opposite(s)
    OBVIOUS
  <2> QED  BY <2>1
<1>4. Sibling(t, L, h, x, p, s, w, a, c, f)
  BY <1>3, SiblingIs
<1>5. /\ w \in L /\ w # RBNIL /\ w # x /\ w # p /\ x # p /\ t.parent[w] = p
      /\ f = Opposite(s) /\ f # s /\ f \in Side
      /\ h[w] = h[x] + 1 /\ h[w] > 1
      /\ h[w] \in Nat /\ h[p] \in Nat
      /\ t.color[p] = RBRED => h[p] = h[w]
      /\ t.color[p] # RBRED => h[p] = h[w] + 1
  BY <1>4 DEF Sibling
<1>6. Tree(u, D, L, sub) /\ Painted(t, u, D, {w}, RBRED)
  BY <1>1, <1>2, <1>5, PaintTree
<1>7. /\ u.root = t.root /\ u.child = t.child /\ u.parent = t.parent
      /\ \A n \in D : u.color[n] = IF n = w THEN RBRED ELSE t.color[n]
  BY <1>6 DEF Painted
<1>8. PICK k : k = [h EXCEPT ![w] = h[w] - 1, ![p] = h[p] - 1]
  OBVIOUS
<1>9. /\ h \in Heights(L) /\ h[RBNIL] = 1 /\ \A n \in L \cup {RBNIL} : h[n] \in Nat \ {0}
  BY <1>1, HeightOf DEF Levels
<1>10. k \in Heights(L) /\ \A n \in L \cup {RBNIL} : k[n] = IF n \in {p, w} THEN h[n] - 1 ELSE h[n]
  <2>1. h[w] - 1 \in Nat \ {0} /\ h[p] - 1 \in Nat \ {0}
    BY <1>5
  <2> QED  BY <2>1, <1>1, <1>5, <1>8, <1>9 DEF Heights
<1>11. p # t.root => /\ t.parent[p] \in L /\ t.parent[p] # p /\ t.child[t.parent[p]][SideOf(t, p)] = p
                     /\ t.child[t.parent[p]][Opposite(SideOf(t, p))] # p
  BY ONLY <1>1, ParentOf DEF Tree
<1>12. SideOf(u, p) = SideOf(t, p) /\ Missing(u, p) = Missing(t, p)
  BY <1>7 DEF SideOf, Missing
<1>13. ASSUME NEW n \in L, NEW r \in Side
       PROVE  k[n] = k[t.child[n][r]] + Extra(Missing(t, p), n, r) + Weight(u, n)
  <2>1. PICK e : e = t.child[n][r]
    OBVIOUS
  <2>2. e \in L \cup {RBNIL} /\ n \in D /\ h[n] \in Nat /\ h[e] \in Nat
    BY <2>1, <1>2, <1>9
  <2>3. h[n] = h[e] + Extra({<<p, s>>}, n, r) + Weight(t, n)
    BY <2>1, <1>1 DEF Levels, Level
  <2>4. e # RBNIL => t.parent[e] = n /\ e # n
    BY <2>1, <1>1, ChildOf
  <2>5. r = s \/ r = f
    BY <1>1, <1>5, Sides
  <2>6. Weight(t, n) \in Nat /\ (n # w => Weight(u, n) = Weight(t, n)) /\ Weight(u, w) = 0 /\ Weight(t, w) = 1
    <3>1. w \in D /\ t.color[w] = RBBLACK
      BY <1>2, <1>5
    <3> QED  BY <3>1, <2>2, <1>2, <1>7 DEF Weight
  <2>7. CASE n = p
    <3>1. Extra(Missing(t, p), n, r) = 0
      BY <2>7, <1>11 DEF Extra, Missing
    <3>2. CASE r = s
      <4>1. e = x /\ Extra({<<p, s>>}, n, r) = 1
        BY <2>1, <2>7, <3>2, <1>1 DEF Extra
      <4>2. k[n] = h[n] - 1 /\ k[e] = h[e]
        BY <4>1, <2>2, <2>7, <1>5, <1>10
      <4> QED  BY ONLY <4>1, <4>2, <2>1, <2>2, <2>3, <2>6, <2>7, <3>1, <1>5
    <3>3. CASE r = f
      <4>1. e = w /\ Extra({<<p, s>>}, n, r) = 0
        BY <2>1, <2>7, <3>3, <1>1, <1>3, <1>5 DEF Extra
      <4>2. k[n] = h[n] - 1 /\ k[e] = h[e] - 1
        BY <4>1, <2>2, <2>7, <1>5, <1>10
      <4> QED  BY ONLY <4>1, <4>2, <2>1, <2>2, <2>3, <2>6, <2>7, <3>1, <1>5
    <3> QED  BY <2>5, <3>2, <3>3
  <2>8. CASE n # p
    <3>1. Extra({<<p, s>>}, n, r) = 0
      BY <2>8 DEF Extra
    <3>2. e # w
      BY <2>4, <2>8, <1>5
    <3>3. CASE e = p
      <4>1. n = t.parent[p]
        BY <2>4, <3>3, <1>1, <1>2
      <4>2. p # t.root
        <5>1. p = t.root => t.parent[p] = NULL
          BY <1>1, RootOf
        <5> QED  BY <4>1, <5>1, <1>2
      <4>3. r = SideOf(t, p)
        BY <2>1, <3>3, <4>1, <4>2, <1>11, Sides, SideOfSide
      <4>4. Extra(Missing(t, p), n, r) = 1
        BY <4>1, <4>2, <4>3 DEF Extra, Missing
      <4>5. n # w
        <5>1. p \notin sub[w] /\ p \in sub[p] /\ (n = w => sub[e] \subseteq sub[w])
          BY ONLY <2>1, <1>1, <1>3, <1>5, BelowChild, BelowNode DEF Tree
        <5> QED  BY <5>1, <3>3
      <4>6. k[n] = h[n] /\ k[e] = h[e] - 1
        BY <3>3, <4>5, <2>2, <2>8, <1>10
      <4> QED  BY ONLY <4>4, <4>5, <4>6, <2>1, <2>2, <2>3, <2>6, <3>1
    <3>4. CASE e # p
      <4>1. Extra(Missing(t, p), n, r) = 0
        BY <2>1, <3>4, <1>11 DEF Extra, Missing
      <4>2. k[e] = h[e]
        BY <3>2, <3>4, <2>2, <1>10
      <4>3. CASE n = w
        <5>1. k[n] = h[n] - 1
          BY <4>3, <1>5, <1>10
        <5> QED  BY ONLY <5>1, <4>1, <4>2, <4>3, <2>1, <2>2, <2>3, <2>6, <3>1
      <4>4. CASE n # w
        <5>1. k[n] = h[n]
          BY <4>4, <2>2, <2>8, <1>10
        <5> QED  BY ONLY <5>1, <4>1, <4>2, <4>4, <2>1, <2>2, <2>3, <2>6, <3>1
      <4> QED  BY <4>3, <4>4
    <3> QED  BY <3>3, <3>4
  <2> QED  BY <2>7, <2>8
<1>14. Levels(u, L, k, Missing(u, p))
  <2>1. k[RBNIL] = 1
    BY <1>1, <1>2, <1>5, <1>9, <1>10
  <2> QED  BY <2>1, <1>7, <1>10, <1>12, <1>13 DEF Levels, Level
<1>15. RedsOnly(u, L, {p}, {p})
  <2>1. ASSUME NEW n \in L, NEW r \in Side, RedPair(u, n, r), n # p
        PROVE  FALSE
    <3>1. PICK e : e = t.child[n][r]
      OBVIOUS
    <3>2. n \in D /\ e \in D /\ (e # RBNIL => t.parent[e] = n /\ e # n)
      BY ONLY <3>1, <1>1, <1>2, ChildOf
    <3>3. u.color[n] = RBRED /\ u.color[e] = RBRED
      BY <2>1, <3>1, <1>7 DEF RedPair
    <3>4. e # w
      BY <2>1, <3>2, <1>5
    <3>5. t.color[e] = RBRED
      BY <3>2, <3>3, <3>4, <1>7
    <3>6. n # w
      BY <3>1, <3>5
    <3> QED  BY ONLY <3>1, <3>2, <3>3, <3>5, <3>6, <1>1, <1>7 DEF RedsOnly, RedPair
  <2>2. u.color[u.root] # RBRED
    <3>1. w # t.root
      <4>1. w = t.root => t.parent[w] = NULL
        BY <1>1, <1>5, ParentOf DEF Tree
      <4> QED  BY <4>1, <1>1, <1>2, <1>5
    <3>2. t.root \in D
      BY <1>1 DEF Tree, Memory
    <3> QED  BY <3>1, <3>2, <1>1, <1>7 DEF RedsOnly
  <2> QED  BY <2>1, <2>2 DEF RedsOnly
<1> QED  BY <1>1, <1>6, <1>7, <1>11, <1>12, <1>14, <1>15 DEF Deleting

(* All about a rotation.                                                   *)
Turned(t, u, L, s, x, y, a, b, c, p) ==
  /\ LinksAfter(t, u, L, s, x, y, a, b, c, p) /\ u.color = t.color
  /\ u.root = (IF p = NULL THEN y ELSE t.root)
  /\ u.child[x][s] = a /\ u.child[x][Opposite(s)] = b /\ u.child[y][s] = x /\ u.child[y][Opposite(s)] = c
  /\ \A n \in (L \cup {RBNIL}) \ {x, y} : n # b \/ n = RBNIL => u.parent[n] = t.parent[n]
  /\ x # y /\ y \in L /\ x \in L /\ p # x /\ p # y
  /\ b # x /\ b # y /\ {a, b, c} \subseteq L \cup {RBNIL}
  /\ t.parent[x] = p /\ t.parent[y] = x /\ (b # RBNIL => t.parent[b] = y)
  /\ \A n \in L, r \in Side : t.child[n][r] \in L \cup {RBNIL}

LEMMA RotateTurns ==
  ASSUME NEW t, NEW D, NEW L, NEW sub, Tree(t, D, L, sub), NEW x \in L, NEW s \in Side,
         NEW y, y = t.child[x][Opposite(s)], y # RBNIL,
         NEW a, a = t.child[x][s], NEW b, b = t.child[y][s], NEW c, c = t.child[y][Opposite(s)],
         NEW p, p = t.parent[x], NEW u, u = Rotate(t, x, s)
  PROVE  (\E v : Tree(u, D, L, v)) /\ Turned(t, u, L, s, x, y, a, b, c, p)
<1>1. PICK v : v = TurnedSub(t, sub, x, s)
  OBVIOUS
<1>2. Tree(u, D, L, v) /\ Rotated(t, u, D, x, s)
  BY <1>1, RotateTree
<1>3. LinksAfter(t, u, L, s, x, y, a, b, c, p)
  BY <1>2, RotateAllLinks
<1>4. RotationIn(t, L, sub, x, y, a, b, c, p)
  BY RotationNodes DEF Tree
<1>5. L \subseteq D /\ RBNIL \in D /\ \A n \in L, r \in Side : t.child[n][r] \in L \cup {RBNIL}
  BY Colors
<1>6. /\ u.color = t.color /\ u.root = (IF p = NULL THEN y ELSE t.root)
      /\ u.child[x][s] = a /\ u.child[x][Opposite(s)] = b /\ u.child[y][s] = x /\ u.child[y][Opposite(s)] = c
      /\ \A n \in D \ {x, y} : n # b \/ b = RBNIL => u.parent[n] = t.parent[n]
  BY <1>2 DEF Rotated
<1>7. \A n \in (L \cup {RBNIL}) \ {x, y} : n # b \/ n = RBNIL => u.parent[n] = t.parent[n]
  BY <1>5, <1>6
<1>8. /\ x # y /\ y \in L /\ p # x /\ p # y
      /\ b # x /\ b # y /\ {a, b, c} \subseteq L \cup {RBNIL}
      /\ t.parent[y] = x /\ (b # RBNIL => t.parent[b] = y)
  BY <1>4 DEF RotationIn
<1> QED  BY <1>2, <1>3, <1>5, <1>6, <1>7, <1>8 DEF Turned

(* As Lacking, with a sibling that is black.                               *)
BlackSibling(t, D, L, x, p, s, w) ==
  (\E v, k : Lacking(t, D, L, v, k, x, p, s, w)) /\ t.color[w] # RBRED

(* A red sibling is rotated away.                                          *)
LEMMA DeleteRedSibling ==
  ASSUME NEW t, NEW D, NEW L, NEW sub, NEW h, NEW x, NEW p, NEW s, NEW w,
         Lacking(t, D, L, sub, h, x, p, s, w), t.color[w] = RBRED,
         NEW u, u = Rotate(Paint(Paint(t, {w}, RBBLACK), {p}, RBRED), p, s),
         NEW z, z = u.child[p][Opposite(s)]
  PROVE  BlackSibling(u, D, L, x, p, s, z)
<1>1. /\ Tree(t, D, L, sub) /\ x \in L \cup {RBNIL} /\ p \in L /\ s \in Side
      /\ t.child[p][s] = x /\ t.parent[x] = p /\ w = t.child[p][Opposite(s)]
      /\ t.color[x] # RBRED
      /\ Levels(t, L, h, {<<p, s>>}) /\ RedsOnly(t, L, {}, {})
  BY DEF Lacking
<1>2. /\ RBRED # RBBLACK /\ t.color[RBNIL] = RBBLACK
      /\ \A n \in D : t.color[n] = RBRED \/ t.color[n] = RBBLACK
      /\ L \subseteq D /\ RBNIL \in D /\ RBNIL \notin L /\ NULL \notin L
  BY <1>1, Colors
<1>3. PICK f : f = Opposite(s)
  OBVIOUS
<1>4. PICK a, c, q : a = t.child[w][s] /\ c = t.child[w][f] /\ q = t.parent[p]
  OBVIOUS
<1>5. Sibling(t, L, h, x, p, s, w, a, c, f)
  BY <1>3, <1>4, SiblingIs
<1>6. /\ f \in Side /\ f # s
      /\ w \in L /\ w # RBNIL /\ w # x /\ w # p /\ x # p /\ t.parent[w] = p
      /\ {a, c} \subseteq L \cup {RBNIL}
      /\ a # RBNIL => t.parent[a] = w /\ a # w /\ a # p /\ a # x
      /\ c # RBNIL => t.parent[c] = w /\ c # w /\ c # p /\ c # x
      /\ h[w] = h[x] + 1 /\ h[w] > 1
      /\ t.color[p] # RBRED => h[p] = h[w] + 1
      /\ h[a] = h[w] /\ h[c] = h[w]
      /\ h[w] \in Nat /\ h[p] \in Nat /\ h[x] \in Nat /\ h[a] \in Nat /\ h[c] \in Nat
  BY <1>5 DEF Sibling
<1>7. \A n \in L, r \in Side : t.color[n] = RBRED => t.color[t.child[n][r]] # RBRED
  BY <1>1 DEF RedsOnly, RedPair
<1>8. t.color[p] # RBRED /\ t.color[a] # RBRED /\ t.color[c] # RBRED
  BY <1>1, <1>3, <1>4, <1>6, <1>7
<1>9. PICK t1 : t1 = Paint(Paint(t, {w}, RBBLACK), {p}, RBRED)
  OBVIOUS
<1>10. Tree(t1, D, L, sub) /\ PaintedTwice(t, t1, D, {w}, {p})
  <2>1. RBNIL \notin {p}
    BY <1>1, <1>2
  <2> QED  BY <2>1, <1>1, <1>9, PaintTwice
<1>11. /\ t1.root = t.root /\ t1.child = t.child /\ t1.parent = t.parent
       /\ \A n \in D : t1.color[n] = IF n = p THEN RBRED ELSE IF n = w THEN RBBLACK ELSE t.color[n]
  BY <1>10 DEF PaintedTwice
<1>12. PICK v : Tree(u, D, L, v) /\ Turned(t1, u, L, s, p, w, x, a, c, q)
  <2>1. /\ w = t1.child[p][Opposite(s)] /\ x = t1.child[p][s] /\ a = t1.child[w][s]
        /\ c = t1.child[w][Opposite(s)] /\ q = t1.parent[p] /\ u = Rotate(t1, p, s)
    BY <1>1, <1>3, <1>4, <1>9, <1>11
  <2>2. (\E v : Tree(u, D, L, v)) /\ Turned(t1, u, L, s, p, w, x, a, c, q)
    <3>1. Tree(t1, D, L, sub) /\ p \in L /\ s \in Side /\ w # RBNIL
      BY <1>1, <1>6, <1>10
    <3> QED  BY ONLY <2>1, <3>1, RotateTurns
  <2> QED  BY <2>2
<1>13. /\ LinksAfter(t1, u, L, s, p, w, x, a, c, q) /\ u.color = t1.color
       /\ u.root = (IF q = NULL THEN w ELSE t1.root)
       /\ u.child[p][s] = x /\ u.child[p][f] = a
       /\ \A n \in (L \cup {RBNIL}) \ {p, w} : n # a \/ n = RBNIL => u.parent[n] = t1.parent[n]
       /\ \A n \in L, r \in Side : t1.child[n][r] \in L \cup {RBNIL}
  BY <1>3, <1>12 DEF Turned
<1>14. z = a /\ u.color[z] # RBRED
  BY <1>2, <1>3, <1>6, <1>8, <1>11, <1>13
<1>15. u.parent[x] = p
  <2>1. x \in (L \cup {RBNIL}) \ {p, w} /\ (x # a \/ x = RBNIL)
    BY <1>1, <1>6
  <2>2. u.parent[x] = t1.parent[x]
    BY <2>1, <1>13
  <2> QED  BY <2>2, <1>1, <1>11
<1>16. PICK k : k = [h EXCEPT ![p] = h[w], ![w] = h[p]]
  OBVIOUS
<1>17. Levels(u, L, k, {<<p, s>>})
  <2>1. h \in Heights(L) /\ h[RBNIL] = 1
    BY <1>1 DEF Levels
  <2>2. \A n \in L \cup {RBNIL} : h[n] \in Nat \ {0}
    BY <1>1, HeightOf
  <2>3. /\ k \in Heights(L) /\ k[p] = h[w] /\ k[w] = h[p]
        /\ \A n \in (L \cup {RBNIL}) \ {p, w} : k[n] = h[n]
    BY <2>1, <2>2, <1>1, <1>6, <1>16 DEF Heights
  <2>4. k[x] = h[x] /\ k[a] = h[a] /\ k[c] = h[c] /\ k[RBNIL] = 1
    BY <2>1, <2>3, <1>1, <1>2, <1>6
  <2>5. /\ Extra({<<p, s>>}, p, s) = 1 /\ Extra({<<p, s>>}, p, Opposite(s)) = 0
        /\ Extra({<<p, s>>}, w, s) = 0 /\ Extra({<<p, s>>}, w, Opposite(s)) = 0
        /\ Weight(t1, p) = 0 /\ Weight(t1, w) = 1
    <3>1. p \in D /\ w \in D
      BY <1>1, <1>2, <1>6
    <3> QED  BY <3>1, <1>2, <1>3, <1>6, <1>11 DEF Extra, Weight
  <2>6. h[p] = h[w] + 1
    BY <1>6, <1>8
  <2>7. ASSUME NEW n \in L \ {p, w}  PROVE Level(t1, h, {<<p, s>>}, n)
    <3>1. t1.color[n] = t.color[n]
      BY <1>2, <1>11
    <3>2. Level(t, h, {<<p, s>>}, n)
      BY <1>1 DEF Levels
    <3> QED  BY <3>1, <3>2, <1>11 DEF Level, Weight
  <2>8. /\ k[p] = k[x] + Extra({<<p, s>>}, p, s) + Weight(t1, p)
        /\ k[p] = k[a] + Extra({<<p, s>>}, p, Opposite(s)) + Weight(t1, p)
        /\ k[w] = k[p] + Extra({<<p, s>>}, w, s) + Weight(t1, w)
        /\ k[w] = k[c] + Extra({<<p, s>>}, w, Opposite(s)) + Weight(t1, w)
    <3>1. h[w] = h[x] + 1 /\ h[a] = h[w] /\ h[c] = h[w] /\ h[w] \in Nat /\ h[x] \in Nat
      BY <1>6
    <3>2. k[p] = h[w] /\ k[w] = h[p]
      BY <2>3
    <3> QED  BY ONLY <3>1, <3>2, <2>4, <2>5, <2>6
  <2>9. Refitted(t1, L, s, p, w, x, a, c, h, {<<p, s>>}, k, {<<p, s>>})
    BY ONLY <2>3, <2>7, <2>8 DEF Refitted
  <2>10. \A n \in L : Level(u, k, {<<p, s>>}, n)
    BY <2>9, <1>1, <1>13, RotateLevels
  <2> QED  BY <2>3, <2>4, <2>10 DEF Levels
<1>18. RedsOnly(u, L, {}, {})
  <2>1. /\ t1.color[w] # RBRED /\ t1.color[x] # RBRED /\ t1.color[a] # RBRED
    <3>1. w \in D /\ x \in D /\ a \in D /\ a # p /\ x # p
      BY <1>1, <1>2, <1>6
    <3> QED  BY <3>1, <1>1, <1>2, <1>6, <1>8, <1>11
  <2>2. ASSUME NEW n \in L \ {p, w}, NEW r \in Side, t1.child[n][r] \notin {p, w}
        PROVE  ~RedPair(t1, n, r)
    <3>1. t1.color[n] = t.color[n] /\ t1.color[t.child[n][r]] = t.color[t.child[n][r]]
      BY <2>2, <1>2, <1>11, <1>13
    <3> QED  BY <3>1, <1>7, <1>11 DEF RedPair
  <2>3. Separated(t1, L, p, w, x, a, c, q)
    BY <2>1, <2>2 DEF Separated
  <2>4. \A n \in L, r \in Side : ~RedPair(u, n, r)
    BY <2>3, <1>13, RotateReds
  <2>5. u.color[u.root] # RBRED
    <3>1. CASE q = NULL
      BY <3>1, <2>1, <1>13
    <3>2. CASE q # NULL
      <4>1. t.root # p /\ t.root \in D
        <5>1. p = t.root => t.parent[p] = NULL
          BY <1>1, RootOf
        <5> QED  BY <5>1, <3>2, <1>1, <1>4 DEF Tree, Memory
      <4> QED  BY <3>2, <4>1, <1>1, <1>2, <1>11, <1>13 DEF RedsOnly
    <3> QED  BY <3>1, <3>2
  <2> QED  BY <2>4, <2>5 DEF RedsOnly
<1>19. u.color[x] # RBRED
  <2>1. x \in D
    BY <1>1, <1>2
  <2> QED  BY <2>1, <1>1, <1>2, <1>6, <1>11, <1>13
<1>20. Lacking(u, D, L, v, k, x, p, s, z)
  BY <1>1, <1>12, <1>13, <1>15, <1>17, <1>18, <1>19 DEF Lacking
<1> QED  BY <1>14, <1>20 DEF BlackSibling

NearTurned(t, D, L, x, p, s, w, a, f) ==
  BlackSibling(t, D, L, x, p, s, a) /\ t.child[a][f] = w /\ t.color[w] = RBRED

(* Of the nephews only the near one is red: it becomes the sibling.        *)
LEMMA DeleteNear ==
  ASSUME NEW t, NEW D, NEW L, NEW sub, NEW h, NEW x, NEW p, NEW s, NEW w,
         Lacking(t, D, L, sub, h, x, p, s, w), t.color[w] # RBRED,
         NEW f, f = Opposite(s),
         NEW a, a = t.child[w][s], t.color[a] = RBRED,
         NEW c, c = t.child[w][f], t.color[c] # RBRED,
         NEW u, u = Rotate(Paint(Paint(t, {a}, RBBLACK), {w}, RBRED), w, f)
  PROVE  NearTurned(u, D, L, x, p, s, w, a, f)
<1>1. /\ Tree(t, D, L, sub) /\ x \in L \cup {RBNIL} /\ p \in L /\ s \in Side
      /\ t.child[p][s] = x /\ t.parent[x] = p /\ w = t.child[p][f]
      /\ t.color[x] # RBRED
      /\ Levels(t, L, h, {<<p, s>>}) /\ RedsOnly(t, L, {}, {})
  BY DEF Lacking
<1>2. /\ RBRED # RBBLACK /\ t.color[RBNIL] = RBBLACK
      /\ \A n \in D : t.color[n] = RBRED \/ t.color[n] = RBBLACK
      /\ L \subseteq D /\ RBNIL \in D /\ RBNIL \notin L /\ NULL \notin L
  BY <1>1, Colors
<1>3. Sibling(t, L, h, x, p, s, w, a, c, f)
  BY SiblingIs
<1>4. /\ f \in Side /\ f # s /\ s = Opposite(f)
      /\ w \in L /\ w # RBNIL /\ w # x /\ w # p /\ x # p /\ t.parent[w] = p
      /\ {a, c} \subseteq L \cup {RBNIL}
      /\ a # RBNIL => t.parent[a] = w /\ a # w /\ a # p /\ a # x /\ a # c
      /\ c # RBNIL => t.parent[c] = w /\ c # w /\ c # p /\ c # x
      /\ h[a] + 1 = h[w] /\ h[c] + 1 = h[w]
      /\ h[w] \in Nat /\ h[a] \in Nat /\ h[c] \in Nat
  BY <1>3 DEF Sibling
<1>5. \A n \in L, r \in Side : t.color[n] = RBRED => t.color[t.child[n][r]] # RBRED
  BY <1>1 DEF RedsOnly, RedPair
<1>6. a # RBNIL /\ a \in L
  BY <1>2, <1>4
<1>7. PICK b, d : b = t.child[a][f] /\ d = t.child[a][s]
  OBVIOUS
<1>8. t.color[b] # RBRED /\ t.color[d] # RBRED
  BY <1>1, <1>4, <1>5, <1>6, <1>7
<1>9. /\ b \in L \cup {RBNIL} /\ d \in L \cup {RBNIL}
      /\ b # RBNIL => t.parent[b] = a /\ b # a
      /\ d # RBNIL => t.parent[d] = a /\ d # a
  <2>1. Tree(t, D, L, sub) /\ a \in L /\ f \in Side /\ s \in Side
    BY <1>1, <1>4, <1>6
  <2>2. b \in L \cup {RBNIL} /\ (b # RBNIL => t.parent[b] = a /\ b # a)
    BY ONLY <2>1, <1>7, ChildOf
  <2>3. d \in L \cup {RBNIL} /\ (d # RBNIL => t.parent[d] = a /\ d # a)
    BY ONLY <2>1, <1>7, ChildOf
  <2> QED  BY <2>2, <2>3
<1>10. PICK t1 : t1 = Paint(Paint(t, {a}, RBBLACK), {w}, RBRED)
  OBVIOUS
<1>11. Tree(t1, D, L, sub) /\ PaintedTwice(t, t1, D, {a}, {w})
  <2>1. RBNIL \notin {w}
    BY <1>4
  <2> QED  BY ONLY <2>1, <1>1, <1>10, PaintTwice
<1>12. /\ t1.root = t.root /\ t1.child = t.child /\ t1.parent = t.parent
       /\ \A n \in D : t1.color[n] = IF n = w THEN RBRED ELSE IF n = a THEN RBBLACK ELSE t.color[n]
  BY <1>11 DEF PaintedTwice
<1>13. PICK v : Tree(u, D, L, v) /\ Turned(t1, u, L, f, w, a, c, b, d, p)
  <2>1. /\ a = t1.child[w][Opposite(f)] /\ c = t1.child[w][f] /\ b = t1.child[a][f]
        /\ d = t1.child[a][Opposite(f)] /\ p = t1.parent[w] /\ u = Rotate(t1, w, f)
    BY <1>4, <1>7, <1>10, <1>12
  <2>2. (\E v : Tree(u, D, L, v)) /\ Turned(t1, u, L, f, w, a, c, b, d, p)
    BY ONLY <2>1, <1>4, <1>6, <1>11, RotateTurns
  <2> QED  BY <2>2
<1>14. /\ LinksAfter(t1, u, L, f, w, a, c, b, d, p) /\ u.color = t1.color
       /\ u.root = (IF p = NULL THEN a ELSE t1.root)
       /\ u.child[a][f] = w
       /\ \A n \in (L \cup {RBNIL}) \ {w, a} : n # b \/ n = RBNIL => u.parent[n] = t1.parent[n]
       /\ \A n \in L, r \in Side : t1.child[n][r] \in L \cup {RBNIL}
       /\ b # w
  BY <1>13 DEF Turned
<1>15. u.color[a] # RBRED /\ u.color[w] = RBRED
  <2>1. a \in D /\ w \in D /\ a # w
    BY <1>2, <1>4, <1>6
  <2> QED  BY ONLY <2>1, <1>2, <1>12, <1>14
<1>16. x # a /\ (x # b \/ x = RBNIL)
  BY <1>1, <1>2, <1>4, <1>6, <1>9
<1>17. u.parent[x] = p
  <2>1. u.parent[x] = t1.parent[x]
    <3>1. x \in (L \cup {RBNIL}) \ {w, a}
      BY <1>1, <1>4, <1>16
    <3> QED  BY ONLY <3>1, <1>14, <1>16
  <2> QED  BY <2>1, <1>1, <1>12
<1>18. u.child[p][s] = x /\ u.child[p][f] = a
  <2>1. p \notin {w, a}
    BY <1>4, <1>6
  <2>2. \A r \in Side : \/ t1.child[p][r] = w /\ u.child[p][r] = a
                        \/ u.child[p][r] = t1.child[p][r] /\ t1.child[p][r] \notin {w, a}
    BY ONLY <2>1, <1>1, <1>14 DEF LinksAfter
  <2>3. t1.child = t.child /\ t.child[p][s] = x /\ x # w /\ t.child[p][f] = w /\ f \in Side /\ s \in Side
    BY <1>1, <1>4, <1>12
  <2> QED  BY ONLY <2>2, <2>3
<1>19. PICK k : k = [h EXCEPT ![w] = h[a], ![a] = h[w]]
  OBVIOUS
<1>20. Levels(u, L, k, {<<p, s>>})
  <2>1. h \in Heights(L) /\ h[RBNIL] = 1
    BY <1>1 DEF Levels
  <2>2. \A n \in L \cup {RBNIL} : h[n] \in Nat \ {0}
    BY <1>1, HeightOf
  <2>3. /\ k \in Heights(L) /\ k[w] = h[a] /\ k[a] = h[w]
        /\ \A n \in (L \cup {RBNIL}) \ {w, a} : k[n] = h[n]
    BY <2>1, <2>2, <1>4, <1>6, <1>19 DEF Heights
  <2>4. k[b] = h[b] /\ k[d] = h[d] /\ k[c] = h[c] /\ k[RBNIL] = 1
    <3>1. b \notin {w, a} /\ c \notin {w, a} /\ d \notin {w, a} /\ RBNIL \notin {w, a}
      <4>1. d # w
        BY ONLY <1>2, <1>4, <1>6, <1>9, <1>13 DEF Turned
      <4> QED  BY <4>1, <1>2, <1>4, <1>6, <1>9, <1>14
    <3> QED  BY <3>1, <2>1, <2>3, <1>4, <1>9
  <2>5. /\ Extra({<<p, s>>}, w, f) = 0 /\ Extra({<<p, s>>}, w, Opposite(f)) = 0
        /\ Extra({<<p, s>>}, a, f) = 0 /\ Extra({<<p, s>>}, a, Opposite(f)) = 0
        /\ Extra({<<p, s>>}, a, s) = 0
        /\ Weight(t1, w) = 0 /\ Weight(t1, a) = 1 /\ Weight(t, a) = 0
    <3>1. w \in D /\ a \in D
      BY <1>2, <1>4, <1>6
    <3> QED  BY <3>1, <1>2, <1>4, <1>6, <1>12 DEF Extra, Weight
  <2>6. h[b] \in Nat /\ h[d] \in Nat
    BY <2>2, <1>9
  <2>7. h[a] = h[b] /\ h[a] = h[d]
    <3>1. \A r \in Side : h[a] = h[t.child[a][r]] + Extra({<<p, s>>}, a, r) + Weight(t, a)
      BY <1>1, <1>6 DEF Levels, Level
    <3>2. h[a] = h[b] + 0 + 0 /\ h[a] = h[d] + 0 + 0
      BY ONLY <3>1, <2>5, <1>1, <1>4, <1>7
    <3> QED  BY ONLY <3>2, <2>6
  <2>8. ASSUME NEW n \in L \ {w, a}  PROVE Level(t1, h, {<<p, s>>}, n)
    <3>1. t1.color[n] = t.color[n]
      BY <1>2, <1>12
    <3>2. Level(t, h, {<<p, s>>}, n)
      BY <1>1 DEF Levels
    <3> QED  BY <3>1, <3>2, <1>12 DEF Level, Weight
  <2>9. /\ k[w] = k[c] + Extra({<<p, s>>}, w, f) + Weight(t1, w)
        /\ k[w] = k[b] + Extra({<<p, s>>}, w, Opposite(f)) + Weight(t1, w)
        /\ k[a] = k[w] + Extra({<<p, s>>}, a, f) + Weight(t1, a)
        /\ k[a] = k[d] + Extra({<<p, s>>}, a, Opposite(f)) + Weight(t1, a)
    <3>1. h[a] + 1 = h[w] /\ h[c] + 1 = h[w] /\ h[w] \in Nat /\ h[a] \in Nat /\ h[c] \in Nat
      BY <1>4
    <3>2. k[w] = h[a] /\ k[a] = h[w]
      BY <2>3
    <3> QED  BY ONLY <3>1, <3>2, <2>4, <2>5, <2>7
  <2>10. Refitted(t1, L, f, w, a, c, b, d, h, {<<p, s>>}, k, {<<p, s>>})
    BY ONLY <2>3, <2>8, <2>9 DEF Refitted
  <2>11. \A n \in L : Level(u, k, {<<p, s>>}, n)
    BY <2>10, <1>4, <1>14, RotateLevels
  <2> QED  BY <2>3, <2>4, <2>11 DEF Levels
<1>21. RedsOnly(u, L, {}, {})
  <2>1. /\ t1.color[a] # RBRED /\ t1.color[b] # RBRED /\ t1.color[c] # RBRED
    <3>1. a \in D /\ b \in D /\ c \in D /\ c # w /\ b # w /\ a # w
      BY <1>2, <1>4, <1>6, <1>9, <1>14
    <3> QED  BY <3>1, <1>2, <1>8, <1>12
  <2>2. ASSUME NEW n \in L \ {w, a}, NEW r \in Side, t1.child[n][r] \notin {w, a}
        PROVE  ~RedPair(t1, n, r)
    <3>1. t1.color[n] = t.color[n] /\ t1.color[t.child[n][r]] = t.color[t.child[n][r]]
      BY <2>2, <1>2, <1>12, <1>14
    <3> QED  BY <3>1, <1>5, <1>12 DEF RedPair
  <2>3. Separated(t1, L, w, a, c, b, d, p)
    BY <2>1, <2>2 DEF Separated
  <2>4. \A n \in L, r \in Side : ~RedPair(u, n, r)
    BY <2>3, <1>14, RotateReds
  <2>5. u.color[u.root] # RBRED
    <3>1. t.root # w /\ t.root \in D
      <4>1. w = t.root => t.parent[w] = NULL
        BY ONLY <1>1, <1>4, RootOf
      <4> QED  BY ONLY <4>1, <1>1, <1>2, <1>4 DEF Tree, Memory
    <3>2. p # NULL
      BY <1>1, <1>2
    <3>3. t.color[t.root] # RBRED
      BY <1>1 DEF RedsOnly
    <3> QED  BY ONLY <3>1, <3>2, <3>3, <1>2, <1>12, <1>14
  <2> QED  BY <2>4, <2>5 DEF RedsOnly
<1>22. u.color[x] # RBRED
  <2>1. x \in D
    BY <1>1, <1>2
  <2>2. x # w /\ t.color[x] # RBRED
    BY <1>1, <1>4
  <2> QED  BY ONLY <2>1, <2>2, <1>2, <1>12, <1>14
<1>23. Lacking(u, D, L, v, k, x, p, s, a)
  BY <1>1, <1>13, <1>17, <1>18, <1>20, <1>21, <1>22 DEF Lacking
<1> QED  BY <1>14, <1>15, <1>23 DEF NearTurned, BlackSibling

(* The far nephew is red: one rotation of the parent ends the loop.        *)
LEMMA DeleteFar ==
  ASSUME NEW t, NEW D, NEW L, NEW sub, NEW h, NEW x, NEW p, NEW s, NEW w,
         Lacking(t, D, L, sub, h, x, p, s, w), t.color[w] # RBRED,
         NEW f, f = Opposite(s),
         NEW c, c = t.child[w][f], t.color[c] = RBRED,
         NEW u, u = Rotate(Paint(Paint(t, {w}, t.color[p]), {p, c}, RBBLACK), p, s)
  PROVE  \E v, k : Deleting(u, D, L, v, k, u.root)
<1>1. /\ Tree(t, D, L, sub) /\ x \in L \cup {RBNIL} /\ p \in L /\ s \in Side
      /\ t.child[p][s] = x /\ t.parent[x] = p /\ w = t.child[p][f]
      /\ t.color[x] # RBRED
      /\ Levels(t, L, h, {<<p, s>>}) /\ RedsOnly(t, L, {}, {})
  BY DEF Lacking
<1>2. /\ RBRED # RBBLACK /\ t.color[RBNIL] = RBBLACK
      /\ \A n \in D : t.color[n] = RBRED \/ t.color[n] = RBBLACK
      /\ L \subseteq D /\ RBNIL \in D /\ RBNIL \notin L /\ NULL \notin L
  BY <1>1, Colors
<1>3. PICK a, q : a = t.child[w][s] /\ q = t.parent[p]
  OBVIOUS
<1>4. Sibling(t, L, h, x, p, s, w, a, c, f)
  BY <1>3, SiblingIs
<1>5. /\ f \in Side /\ f # s /\ s = Opposite(f)
      /\ w \in L /\ w # RBNIL /\ w # x /\ w # p /\ x # p /\ t.parent[w] = p
      /\ {a, c} \subseteq L \cup {RBNIL}
      /\ a # RBNIL => t.parent[a] = w /\ a # w /\ a # p /\ a # x /\ a # c
      /\ c # RBNIL => t.parent[c] = w /\ c # w /\ c # p /\ c # x
      /\ h[w] = h[x] + 1 /\ h[a] + 1 = h[w] /\ h[c] + 1 = h[w]
      /\ t.color[p] = RBRED => h[p] = h[w]
      /\ t.color[p] # RBRED => h[p] = h[w] + 1
      /\ h[w] \in Nat /\ h[p] \in Nat /\ h[x] \in Nat /\ h[a] \in Nat /\ h[c] \in Nat
  BY <1>4 DEF Sibling
<1>6. \A n \in L, r \in Side : t.color[n] = RBRED => t.color[t.child[n][r]] # RBRED
  BY <1>1 DEF RedsOnly, RedPair
<1>7. c # RBNIL /\ c \in L
  BY <1>2, <1>5
<1>8. PICK t1 : t1 = Paint(t, {w}, t.color[p])
  OBVIOUS
<1>9. PICK t2 : t2 = Paint(t1, {p, c}, RBBLACK)
  OBVIOUS
<1>10. Tree(t1, D, L, sub) /\ Painted(t, t1, D, {w}, t.color[p])
  <2>1. RBNIL \notin {w} /\ t.color[p] \in {RBBLACK, RBRED}
    BY <1>1, <1>2, <1>5
  <2> QED  BY ONLY <2>1, <1>1, <1>8, PaintTree
<1>11. Tree(t2, D, L, sub) /\ Painted(t1, t2, D, {p, c}, RBBLACK)
  <2>1. RBBLACK \in {RBBLACK, RBRED}
    OBVIOUS
  <2> QED  BY <2>1, <1>9, <1>10, PaintTree
<1>12. /\ t2.root = t.root /\ t2.child = t.child /\ t2.parent = t.parent
       /\ \A n \in D : t2.color[n] = IF n \in {p, c} THEN RBBLACK ELSE IF n = w THEN t.color[p] ELSE t.color[n]
  BY <1>10, <1>11 DEF Painted
<1>13. PICK v : Tree(u, D, L, v) /\ Turned(t2, u, L, s, p, w, x, a, c, q)
  <2>1. /\ w = t2.child[p][Opposite(s)] /\ x = t2.child[p][s] /\ a = t2.child[w][s]
        /\ c = t2.child[w][Opposite(s)] /\ q = t2.parent[p] /\ u = Rotate(t2, p, s)
    BY <1>1, <1>3, <1>8, <1>9, <1>12
  <2>2. Tree(t2, D, L, sub) /\ p \in L /\ s \in Side /\ w # RBNIL
    BY <1>1, <1>5, <1>11
  <2>3. (\E v : Tree(u, D, L, v)) /\ Turned(t2, u, L, s, p, w, x, a, c, q)
    BY ONLY <2>1, <2>2, RotateTurns
  <2> QED  BY <2>3
<1>14. /\ LinksAfter(t2, u, L, s, p, w, x, a, c, q) /\ u.color = t2.color
       /\ \A n \in L, r \in Side : t2.child[n][r] \in L \cup {RBNIL}
  BY <1>13 DEF Turned
<1>15. p \in D /\ w \in D /\ c \in D /\ a \in D /\ x \in D
  BY <1>1, <1>2, <1>5
<1>16. t2.color[p] = RBBLACK /\ t2.color[c] = RBBLACK /\ t2.color[w] = t.color[p]
  BY ONLY <1>5, <1>7, <1>12, <1>15
<1>17. PICK h1 : h1 = [h EXCEPT ![c] = h[w]]
  OBVIOUS
<1>18. PICK k : k = [h1 EXCEPT ![p] = h[w], ![w] = h[p]]
  OBVIOUS
<1>19. Levels(u, L, k, {})
  <2>1. h \in Heights(L) /\ h[RBNIL] = 1
    BY <1>1 DEF Levels
  <2>2. \A n \in L \cup {RBNIL} : h[n] \in Nat \ {0}
    BY <1>1, HeightOf
  <2>3. h1 \in Heights(L) /\ h1[c] = h[w] /\ \A n \in (L \cup {RBNIL}) \ {c} : h1[n] = h[n]
    BY <2>1, <2>2, <1>5, <1>7, <1>17 DEF Heights
  <2>4. /\ k \in Heights(L) /\ k[p] = h[w] /\ k[w] = h[p]
        /\ \A n \in (L \cup {RBNIL}) \ {p, w} : k[n] = h1[n]
    BY <2>2, <2>3, <1>1, <1>5, <1>18 DEF Heights
  <2>5. k[x] = h[x] /\ k[a] = h[a] /\ k[c] = h[w] /\ k[RBNIL] = 1 /\ h1[p] = h[p]
    <3>1. x \notin {p, w, c} /\ a \notin {p, w, c} /\ RBNIL \notin {p, w, c} /\ c \notin {p, w} /\ p # c
      BY ONLY <1>1, <1>2, <1>5, <1>7
    <3>0. x \in L \cup {RBNIL} /\ a \in L \cup {RBNIL} /\ c \in L \cup {RBNIL} /\ p \in L \cup {RBNIL}
      BY <1>1, <1>5, <1>7
    <3>2. \A n \in {x, a, c, RBNIL} : k[n] = h1[n]
      BY ONLY <3>0, <3>1, <2>4
    <3>3. \A n \in {x, a, p, RBNIL} : h1[n] = h[n]
      BY ONLY <3>0, <3>1, <2>3
    <3> QED  BY <3>2, <3>3, <2>1, <2>3
  <2>6. (\A n, r : Extra({}, n, r) = 0) /\ Weight(t2, p) = 1 /\ Weight(t2, c) = 1 /\ Weight(t2, w) = Weight(t, p)
    BY <1>16 DEF Extra, Weight
  <2>7. h[p] = h[w] + Weight(t, p)
    <3>1. t.color[p] = RBRED \/ t.color[p] = RBBLACK
      BY <1>2, <1>15
    <3>2. CASE t.color[p] = RBRED
      BY ONLY <3>2, <1>2, <1>5 DEF Weight
    <3>3. CASE t.color[p] = RBBLACK
      BY ONLY <3>3, <1>2, <1>5 DEF Weight
    <3> QED  BY <3>1, <3>2, <3>3
  <2>8. \A n \in L \ {p}, r \in Side : h[n] = h[t.child[n][r]] + Weight(t, n)
    <3> SUFFICES ASSUME NEW n \in L \ {p}, NEW r \in Side  PROVE h[n] = h[t.child[n][r]] + Weight(t, n)
      OBVIOUS
    <3>1. h[n] = h[t.child[n][r]] + Extra({<<p, s>>}, n, r) + Weight(t, n)
      BY <1>1 DEF Levels, Level
    <3>2. Extra({<<p, s>>}, n, r) = 0
      BY DEF Extra
    <3>3. h[t.child[n][r]] \in Nat
      BY <2>2, <1>12, <1>14
    <3> QED  BY ONLY <3>1, <3>2, <3>3
  <2>9. ASSUME NEW n \in L \ {p, w}  PROVE Level(t2, h1, {<<p, s>>}, n)
    <3> SUFFICES ASSUME NEW r \in Side
                 PROVE  h1[n] = h1[t.child[n][r]] + 0 + Weight(t2, n)
      BY <2>9, <1>12 DEF Level, Extra
    <3>1. PICK e : e = t.child[n][r]
      OBVIOUS
    <3>2. e \in L \cup {RBNIL} /\ (e # RBNIL => t.parent[e] = n)
      BY ONLY <3>1, <1>1, ChildOf
    <3>3. h1[e] = h[e]
      <4>1. e # c
        BY <2>9, <3>2, <1>5, <1>7
      <4> QED  BY <4>1, <3>2, <2>3
    <3>4. h[n] = h[e] + Weight(t, n) /\ h[e] \in Nat
      BY <3>1, <3>2, <2>2, <2>8, <2>9
    <3>5. CASE n = c
      <4>1. Weight(t, c) = 0 /\ h1[n] = h[w] /\ h[c] + 1 = h[w] /\ h[c] \in Nat
        BY <3>5, <2>3, <1>2, <1>5 DEF Weight
      <4> QED  BY ONLY <4>1, <3>1, <3>3, <3>4, <3>5, <2>6
    <3>6. CASE n # c
      <4>1. Weight(t2, n) = Weight(t, n) /\ h1[n] = h[n]
        BY <3>6, <2>3, <2>9, <1>2, <1>12 DEF Weight
      <4>2. Weight(t, n) \in Nat
        BY DEF Weight
      <4> QED  BY ONLY <4>1, <4>2, <3>1, <3>3, <3>4
    <3> QED  BY <3>5, <3>6
  <2>10. /\ k[p] = k[x] + Extra({}, p, s) + Weight(t2, p)
         /\ k[p] = k[a] + Extra({}, p, Opposite(s)) + Weight(t2, p)
         /\ k[w] = k[p] + Extra({}, w, s) + Weight(t2, w)
         /\ k[w] = k[c] + Extra({}, w, Opposite(s)) + Weight(t2, w)
    <3>1. /\ Extra({}, p, s) = 0 /\ Extra({}, p, Opposite(s)) = 0 /\ Extra({}, w, s) = 0
          /\ Extra({}, w, Opposite(s)) = 0 /\ Weight(t2, p) = 1 /\ Weight(t2, w) = Weight(t, p)
      BY <2>6
    <3>2. Weight(t, p) \in Nat
      BY DEF Weight
    <3>3. h[w] = h[x] + 1 /\ h[a] + 1 = h[w] /\ h[w] \in Nat /\ h[x] \in Nat /\ h[a] \in Nat
      BY <1>5
    <3>4. k[p] = h[w] /\ k[w] = h[p]
      BY <2>4
    <3> QED  BY ONLY <3>1, <3>2, <3>3, <3>4, <2>5, <2>7
  <2>11. \A n \in L \ {p, w}, r \in Side : Extra({}, n, r) = Extra({<<p, s>>}, n, r)
    BY DEF Extra
  <2>12. Refitted(t2, L, s, p, w, x, a, c, h1, {<<p, s>>}, k, {})
    <3>1. k[w] = h1[p]
      BY <2>4, <2>5
    <3> QED  BY ONLY <3>1, <2>4, <2>9, <2>10, <2>11 DEF Refitted
  <2>13. \A n \in L : Level(u, k, {}, n)
    BY <2>12, <1>1, <1>14, RotateLevels
  <2> QED  BY <2>4, <2>5, <2>13 DEF Levels
<1>20. RedsOnly(u, L, {u.root}, {u.root})
  <2>1. t2.color[w] = RBRED => (q \in L => t2.color[q] # RBRED)
    <3> SUFFICES ASSUME t.color[p] = RBRED, q \in L  PROVE t2.color[q] # RBRED
      BY <1>16
    <3>1. p # t.root
      <4>1. p = t.root => t.parent[p] = NULL
        BY <1>1, RootOf
      <4> QED  BY <4>1, <1>2, <1>3
    <3>2. t.child[q][SideOf(t, p)] = p /\ SideOf(t, p) \in Side /\ q # p
      BY ONLY <3>1, <1>1, <1>3, ParentOf DEF Tree
    <3>3. t.color[q] # RBRED
      BY <3>2, <1>6
    <3>4. q # w /\ q \in D
      BY <1>2, <1>13 DEF Turned
    <3> QED  BY ONLY <3>2, <3>3, <3>4, <1>2, <1>12
  <2>2. ASSUME NEW n \in L \ {p, w}, NEW r \in Side, t2.child[n][r] \notin {p, w}
        PROVE  ~RedPair(t2, n, r)
    <3>1. PICK e : e = t.child[n][r]
      OBVIOUS
    <3>2. e \notin {p, w} /\ e \in D /\ n \in D
      BY <2>2, <3>1, <1>2, <1>12, <1>14
    <3>3. (t2.color[n] = RBRED => t.color[n] = RBRED) /\ (t2.color[e] = RBRED => t.color[e] = RBRED)
      BY ONLY <2>2, <3>2, <1>2, <1>12
    <3> QED  BY <3>1, <3>3, <1>6, <1>12 DEF RedPair
  <2>3. Separated(t2, L, p, w, x, a, c, q)
    BY <2>1, <2>2, <1>2, <1>16 DEF Separated
  <2>4. \A n \in L, r \in Side : ~RedPair(u, n, r)
    BY <2>3, <1>14, RotateReds
  <2> QED  BY <2>4 DEF RedsOnly
<1>21. Missing(u, u.root) = {} /\ u.root \in L \cup {RBNIL}
  BY <1>13, RootOf DEF Missing
<1> QED  BY <1>13, <1>19, <1>20, <1>21 DEF Deleting

(* One iteration.                                                          *)
LEMMA DeleteStep ==
  ASSUME NEW t, NEW D, NEW L, NEW sub, NEW h, NEW x, Deleting(t, D, L, sub, h, x), BlackBelowRoot(t, x)
  PROVE  \E v, k : Deleting(DeleteFixupStep(t, x).tree, D, L, v, k, DeleteFixupStep(t, x).x)
<1>1. PICK p, s, f, w0 : p = t.parent[x] /\ s = SideOf(t, x) /\ f = Opposite(s) /\ w0 = t.child[p][f]
  OBVIOUS
<1>2. PICK t1 : t1 = RotateRedSibling(t, x, s)
  OBVIOUS
<1>3. PICK w : w = t1.child[p][f]
  OBVIOUS
<1>4. PICK b, g : Lacking(t1, D, L, b, g, x, p, s, w) /\ t1.color[w] # RBRED
  <2>1. Lacking(t, D, L, sub, h, x, p, s, w0)
    BY <1>1, DeletingWhere
  <2>2. CASE t.color[w0] = RBRED
    <3>1. t1 = Rotate(Paint(Paint(t, {w0}, RBBLACK), {p}, RBRED), p, s)
      BY ONLY <2>2, <1>1, <1>2 DEF RotateRedSibling
    <3>2. w = t1.child[p][Opposite(s)]
      BY <1>1, <1>3
    <3>3. BlackSibling(t1, D, L, x, p, s, w)
      BY ONLY <2>1, <2>2, <3>1, <3>2, DeleteRedSibling
    <3> QED  BY <3>3 DEF BlackSibling
  <2>3. CASE t.color[w0] # RBRED
    <3>1. t1 = t
      BY ONLY <2>3, <1>1, <1>2 DEF RotateRedSibling
    <3> QED  BY <2>1, <2>3, <3>1, <1>1, <1>3
  <2> QED  BY <2>2, <2>3
<1>5. p = t1.parent[x]
  BY <1>4 DEF Lacking
<1>6. PICK t2 : t2 = RotateNearNephew(t1, x, s)
  OBVIOUS
<1>7. PICK t3 : t3 = SupplyBlack(t2, x, s)
  OBVIOUS
<1>8. DeleteFixupStep(t, x) = IF \A side \in Side : t1.color[t1.child[w][side]] = RBBLACK
                              THEN [tree |-> Paint(t1, {w}, RBRED), x |-> p]
                              ELSE [tree |-> t3, x |-> t3.root]
  BY ONLY <1>1, <1>2, <1>3, <1>5, <1>6, <1>7 DEF DeleteFixupStep
<1>9. RBRED # RBBLACK /\ \A n \in L \cup {RBNIL} : t1.color[n] = RBRED \/ t1.color[n] = RBBLACK
  BY <1>4, Colors DEF Lacking
<1>10. CASE \A side \in Side : t1.color[t1.child[w][side]] = RBBLACK
  <2>1. DeleteFixupStep(t, x).tree = Paint(t1, {w}, RBRED) /\ DeleteFixupStep(t, x).x = p
    BY <1>8, <1>10
  <2> QED  BY <2>1, <1>4, <1>9, <1>10, DeleteUp
<1>11. CASE \E side \in Side : t1.color[t1.child[w][side]] # RBBLACK
  <2>1. DeleteFixupStep(t, x).tree = t3 /\ DeleteFixupStep(t, x).x = t3.root
    BY <1>8, <1>11
  <2>2. PICK a, c : a = t1.child[w][s] /\ c = t1.child[w][f]
    OBVIOUS
  <2>3. Sibling(t1, L, g, x, p, s, w, a, c, f)
    BY <2>2, <1>1, <1>4, SiblingIs
  <2>4. {a, c} \subseteq L \cup {RBNIL} /\ f \in Side /\ s \in Side
    BY <2>3, <1>4 DEF Sibling, Lacking
  <2>5. PICK i, j, w2, c2 : /\ Lacking(t2, D, L, i, j, x, p, s, w2) /\ t2.color[w2] # RBRED
                            /\ c2 = t2.child[w2][f] /\ t2.color[c2] = RBRED
    <3>1. CASE t1.color[c] = RBBLACK
      <4>1. t1.color[a] = RBRED
        <5>1. PICK side \in Side : t1.color[t1.child[w][side]] # RBBLACK
          BY <1>11
        <5>2. side = s \/ side = f
          BY <2>4, <1>1, Sides
        <5> QED  BY <5>1, <5>2, <3>1, <2>2, <2>4, <1>9
      <4>2. t2 = Rotate(Paint(Paint(t1, {a}, RBBLACK), {w}, RBRED), w, f)
        BY ONLY <3>1, <2>2, <1>1, <1>3, <1>5, <1>6 DEF RotateNearNephew
      <4>3. NearTurned(t2, D, L, x, p, s, w, a, f)
        <5>1. f = Opposite(s) /\ Lacking(t1, D, L, b, g, x, p, s, w) /\ t1.color[w] # RBRED
              /\ t1.color[c] # RBRED
          BY <3>1, <1>1, <1>4, <1>9
        <5> QED  BY ONLY <5>1, <4>1, <4>2, <2>2, DeleteNear
      <4> QED  BY <4>3 DEF NearTurned, BlackSibling
    <3>2. CASE t1.color[c] # RBBLACK
      <4>1. t2 = t1
        BY ONLY <3>2, <2>2, <1>1, <1>3, <1>5, <1>6 DEF RotateNearNephew
      <4>2. t1.color[c] = RBRED
        BY <3>2, <2>4, <1>9
      <4> QED  BY <4>1, <4>2, <2>2, <1>4
    <3> QED  BY <3>1, <3>2
  <2>6. p = t2.parent[x] /\ w2 = t2.child[p][f]
    BY <2>5, <1>1 DEF Lacking
  <2>7. t3 = Rotate(Paint(Paint(t2, {w2}, t2.color[p]), {p, c2}, RBBLACK), p, s)
    BY ONLY <2>5, <2>6, <1>1, <1>7 DEF SupplyBlack
  <2>8. \E v, k : Deleting(t3, D, L, v, k, t3.root)
    BY <2>5, <2>7, <1>1, DeleteFar
  <2> QED  BY <2>1, <2>8
<1> QED  BY <1>10, <1>11

==============================================================================
