--------------------------- MODULE HashTableProofs ---------------------------
(* Theorems about HashTable, for any keys, hash codes and number of         *)
(* elements, and any sizes at which the table grows.                        *)
EXTENDS HashTable, TLAPS, FiniteSetTheorems, WellFoundedInduction

-----------------------------------------------------------------------------
(***************************************************************************)
(* The inductive invariant.                                                *)
(***************************************************************************)

Entry == [count : Nat, chain : Elem \cup {NULL}]

(* The structure of a table.                                               *)
Shape(t) ==
  /\ t \in [first : Elem \cup {NULL}, count : Nat, htsize : Nat,
            ht : [0 .. t.htsize - 1 -> Entry], heap : [DOMAIN t.heap -> HashElem],
            eDictType : Types]
  /\ DOMAIN t.heap \subseteq Elem

(* The list of the table is s[1], ..., s[n].                               *)
Listed(t, s, n) ==
  /\ n \in Nat /\ s \in [1 .. n -> DOMAIN t.heap]
  /\ \A i, j \in 1 .. n : s[i] = s[j] => i = j
  /\ t.first = IF n = 0 THEN NULL ELSE s[1]
  /\ \A i \in 1 .. n : t.heap[s[i]].next = IF i = n THEN NULL ELSE s[i + 1]
  /\ \A i \in 1 .. n : t.heap[s[i]].prev = IF i = 1 THEN NULL ELSE s[i - 1]

BucketOf(t, e) == Bucket(t, TextAt(t, e))

(* The elements of bucket h are those at a, ..., a + c - 1 in the list.    *)
RunsFrom(t, s, n, h, a) ==
  /\ \A i \in 1 .. n : BucketOf(t, s[i]) = h <=> a <= i /\ i < a + t.ht[h].count
  /\ t.ht[h].count > 0 =>
       1 <= a /\ a + t.ht[h].count <= n + 1 /\ t.ht[h].chain = s[a]

Bucketed(t, s, n) == \A h \in DOMAIN t.ht : \E a \in Nat : RunsFrom(t, s, n, h, a)

(* A table of which some elements may not be linked yet.                   *)
Partial(t, s, n) == Shape(t) /\ Listed(t, s, n) /\ Bucketed(t, s, n)

(* All elements of the table are on the list.                              *)
Covers(t, s, n) == \A e \in DOMAIN t.heap : \E i \in 1 .. n : s[i] = e

(* Each key is there once, and has data that may be set for it.            *)
KeysApart(t) ==
  /\ \A e, f \in DOMAIN t.heap : TextAt(t, e) = TextAt(t, f) => e = f
  /\ \A e \in DOMAIN t.heap : t.heap[e].data \in DataFor[TextAt(t, e)]

Whole(t, s, n) ==
  /\ Partial(t, s, n)
  /\ Covers(t, s, n)
  /\ t.count = n
  /\ t.htsize = 0 \/ t.htsize >= GrowAt
  /\ KeysApart(t)

IInv ==
  /\ \E n, s : Whole(self, s, n)
  /\ released \in Seq(Data \cup Ptr)

-----------------------------------------------------------------------------
(***************************************************************************)
(* Recursive functions over the numbers.                                   *)
(***************************************************************************)

(* A set of numbers that is not empty has a least element.                 *)
LEMMA LeastNumber ==
  ASSUME NEW S, S \subseteq Nat, S # {}
  PROVE  \E m \in S : \A k \in S : m =< k
<1>1. PICK m \in S : \A k \in S : ~ (<<k, m>> \in OpToRel(<, Nat))
  BY WFMin, NatLessThanWellFounded
<1>2. ASSUME NEW k \in S PROVE m =< k
  <2>1. <<k, m>> \notin {ss \in Nat \X Nat : ss[1] < ss[2]}
    BY <1>1 DEF OpToRel
  <2> QED  BY <2>1
<1> QED  BY <1>1, <1>2

(* Following the pointers along the list gives the list: Run is s from a   *)
(* on.                                                                     *)
LEMMA RunOfList ==
  ASSUME NEW t, DOMAIN t.heap \subseteq Elem, NEW s, NEW n, Listed(t, s, n),
         NEW m \in Nat, NEW a \in Nat, NEW e,
         m > 0 => 1 <= a /\ a + m <= n + 1 /\ e = s[a]
  PROVE  Run(t, e, m) = [i \in 1 .. m |-> s[a + i - 1]]
<1> DEFINE next == [x \in Elem \cup {NULL} |-> IF x \in DOMAIN t.heap THEN t.heap[x].next ELSE NULL]
           at[i \in 1 .. m] == IF i = 1 THEN e ELSE next[at[i - 1]]
           g == [i \in 1 .. m |-> s[a + i - 1]]
<1>1. ASSUME NEW i \in 1 .. m, i # 1
      PROVE  s[a + i - 1] = next[s[a + (i - 1) - 1]]
  <2> DEFINE j == a + i - 2
  <2>1. j \in 1 .. n /\ j # n /\ j + 1 = a + i - 1
    BY <1>1 DEF Listed
  <2>2. s[j] \in DOMAIN t.heap /\ t.heap[s[j]].next = s[j + 1]
    BY <2>1 DEF Listed
  <2> QED  BY <2>1, <2>2
<1> HIDE DEF next, at
<1>2. g = [i \in 1 .. m |-> IF i = 1 THEN e ELSE next[g[i - 1]]]
  <2>1. ASSUME NEW i \in 1 .. m PROVE g[i] = IF i = 1 THEN e ELSE next[g[i - 1]]
    <3>1. CASE i = 1
      BY <3>1
    <3>2. CASE i # 1
      <4>1. i - 1 \in 1 .. m
        BY <3>2
      <4>2. g[i - 1] = s[a + (i - 1) - 1] /\ g[i] = s[a + i - 1]
        BY <4>1
      <4> QED  BY <1>1, <3>2, <4>2
    <3> QED  BY <3>1, <3>2
  <2>2. g = [i \in 1 .. m |-> g[i]]
    OBVIOUS
  <2> HIDE DEF g
  <2> QED  BY <2>1, <2>2
<1> HIDE DEF g
<1>3. at = [i \in 1 .. m |-> IF i = 1 THEN e ELSE next[at[i - 1]]]
  BY <1>2 DEF at
<1>4. \A i \in 1 .. m : at[i] = g[i]
  <2> DEFINE S == {i \in 1 .. m : at[i] # g[i]}
  <2> SUFFICES ASSUME S # {} PROVE FALSE
    OBVIOUS
  <2>0. S \subseteq 1 .. m /\ S \subseteq Nat
    OBVIOUS
  <2>1. PICK i \in S : \A k \in S : i =< k
    <3> HIDE DEF S
    <3> QED  BY <2>0, LeastNumber
  <2>2. at[i] # g[i] /\ i \in 1 .. m
    OBVIOUS
  <2>3. i # 1
    BY <1>2, <1>3, <2>2
  <2>4. i - 1 \in 1 .. m /\ i - 1 \notin S
    <3> HIDE DEF S
    <3> QED  BY <2>1, <2>2, <2>3
  <2>5. at[i - 1] = g[i - 1]
    BY <2>4
  <2>6. at[i] = next[at[i - 1]] /\ g[i] = next[g[i - 1]]
    BY <1>2, <1>3, <2>2, <2>3
  <2> QED  BY <2>2, <2>5, <2>6
<1>5. Run(t, e, m) = [i \in 1 .. m |-> at[i]]
  BY DEF Run, at, next
<1> QED  BY <1>4, <1>5 DEF g

-----------------------------------------------------------------------------
(***************************************************************************)
(* Linking an element.                                                     *)
(***************************************************************************)

(* Where an element that is to be linked goes: before the first one of its *)
(* bucket, or to the head.                                                 *)
Position(t, s, n, e, p) ==
  LET h == BucketOf(t, e)
  IN  /\ e \in DOMAIN t.heap /\ \A i \in 1 .. n : s[i] # e
      /\ t.htsize > 0 => h \in DOMAIN t.ht
      /\ p \in 1 .. n + 1
      /\ IF t.htsize > 0 /\ t.ht[h].count > 0
           THEN p <= n /\ t.ht[h].chain = s[p] ELSE p = 1

(* u is t with e linked between the elements at p - 1 and p: nothing but   *)
(* the pointers there and the bucket of e are changed.                     *)
Linked(t, s, n, e, p, u) ==
  LET h == BucketOf(t, e)
  IN  /\ Shape(u)
      /\ u.count = t.count /\ u.htsize = t.htsize /\ u.eDictType = t.eDictType
      /\ u.ht = IF t.htsize > 0
                  THEN [t.ht EXCEPT ![h] = [count |-> t.ht[h].count + 1, chain |-> e]]
                  ELSE t.ht
      /\ u.first = IF p = 1 THEN e ELSE t.first
      /\ DOMAIN u.heap = DOMAIN t.heap
      /\ \A x \in DOMAIN t.heap :
           /\ u.heap[x].key = t.heap[x].key /\ u.heap[x].data = t.heap[x].data
           /\ u.heap[x].next = IF x = e THEN (IF p = n + 1 THEN NULL ELSE s[p])
                               ELSE IF p > 1 /\ x = s[p - 1] THEN e ELSE t.heap[x].next
           /\ u.heap[x].prev = IF x = e THEN (IF p = 1 THEN NULL ELSE s[p - 1])
                               ELSE IF p <= n /\ x = s[p] THEN e ELSE t.heap[x].prev

(* That is what InsertElement does.                                        *)
LEMMA InsertFields ==
  ASSUME NEW t, Shape(t), NEW s, NEW n, Listed(t, s, n), NEW e, NEW p, Position(t, s, n, e, p)
  PROVE  Linked(t, s, n, e, p, InsertElement(t, e, TextAt(t, e)))
<1> DEFINE h      == Bucket(t, TextAt(t, e))
           inside == t.htsize > 0 /\ t.ht[h].count > 0
           head   == IF inside THEN t.ht[h].chain ELSE t.first
           before == IF inside THEN t.heap[head].prev ELSE NULL
           heap2  == IF head = NULL THEN t.heap ELSE [t.heap EXCEPT ![head].prev = e]
           heap3  == IF before = NULL THEN heap2 ELSE [heap2 EXCEPT ![before].next = e]
           heap4  == [heap3 EXCEPT ![e].next = head, ![e].prev = before]
           first2 == IF before = NULL THEN e ELSE t.first
           ht2    == IF t.htsize > 0
                       THEN [t.ht EXCEPT ![h] = [count |-> t.ht[h].count + 1, chain |-> e]] ELSE t.ht
           u      == InsertElement(t, e, TextAt(t, e))
<1>1. u = [t EXCEPT !.heap = heap4, !.first = first2, !.ht = ht2]
  BY DEF InsertElement
<1>2. /\ head = IF p = n + 1 THEN NULL ELSE s[p]
      /\ before = IF p = 1 THEN NULL ELSE s[p - 1]
  <2>1. CASE inside
    <3>1. p \in 1 .. n /\ head = s[p]
      BY <2>1 DEF Position, BucketOf
    <3>2. t.heap[s[p]].prev = IF p = 1 THEN NULL ELSE s[p - 1]
      BY <3>1 DEF Listed
    <3> QED  BY <2>1, <3>1, <3>2 DEF Listed
  <2>2. CASE ~inside
    BY <2>2 DEF Position, BucketOf, Listed
  <2> QED  BY <2>1, <2>2
<1> HIDE DEF inside, head, before
<1>3. /\ e \in Elem /\ NULL \notin Elem /\ e \in DOMAIN t.heap
      /\ head \in DOMAIN t.heap \cup {NULL} /\ before \in DOMAIN t.heap \cup {NULL}
      /\ head # e /\ before # e /\ DOMAIN t.heap \subseteq Elem
  BY <1>2, HashAssumption DEF Position, Listed, Shape
<1>4. t.heap \in [DOMAIN t.heap -> HashElem]
  BY DEF Shape
<1>5. heap2 \in [DOMAIN t.heap -> HashElem]
      /\ \A x \in DOMAIN t.heap :
           /\ heap2[x].key = t.heap[x].key /\ heap2[x].data = t.heap[x].data
           /\ heap2[x].next = t.heap[x].next
           /\ heap2[x].prev = IF x = head THEN e ELSE t.heap[x].prev
  BY <1>3, <1>4 DEF HashElem
<1> HIDE DEF heap2
<1>6. heap3 \in [DOMAIN t.heap -> HashElem]
      /\ \A x \in DOMAIN t.heap :
           /\ heap3[x].key = t.heap[x].key /\ heap3[x].data = t.heap[x].data
           /\ heap3[x].next = IF x = before THEN e ELSE t.heap[x].next
           /\ heap3[x].prev = IF x = head THEN e ELSE t.heap[x].prev
  BY <1>3, <1>5 DEF HashElem
<1> HIDE DEF heap3
<1>7. heap4 \in [DOMAIN t.heap -> HashElem]
      /\ \A x \in DOMAIN t.heap :
           /\ heap4[x].key = t.heap[x].key /\ heap4[x].data = t.heap[x].data
           /\ heap4[x].next = IF x = e THEN head ELSE IF x = before THEN e ELSE t.heap[x].next
           /\ heap4[x].prev = IF x = e THEN before ELSE IF x = head THEN e ELSE t.heap[x].prev
  BY <1>3, <1>6 DEF HashElem
<1> HIDE DEF heap4
<1>8. first2 \in Elem \cup {NULL} /\ first2 = IF p = 1 THEN e ELSE t.first
  BY <1>2, <1>3 DEF Shape, Listed, Position
<1> HIDE DEF first2
<1>9. ht2 \in [0 .. t.htsize - 1 -> Entry]
  <2>1. CASE t.htsize > 0
    <3>1. h \in 0 .. t.htsize - 1 /\ t.ht \in [0 .. t.htsize - 1 -> Entry] /\ t.ht[h].count \in Nat
      BY <2>1 DEF Position, Shape, BucketOf, Entry
    <3>2. [count |-> t.ht[h].count + 1, chain |-> e] \in Entry
      BY <3>1, <1>3 DEF Entry
    <3> QED  BY <2>1, <3>1, <3>2
  <2>2. CASE ~(t.htsize > 0)
    BY <2>2 DEF Shape
  <2> QED  BY <2>1, <2>2
<1>10. ht2 = IF t.htsize > 0
               THEN [t.ht EXCEPT ![BucketOf(t, e)] = [count |-> t.ht[BucketOf(t, e)].count + 1, chain |-> e]]
               ELSE t.ht
  BY DEF BucketOf
<1> HIDE DEF ht2, h
<1>11. /\ u.count = t.count /\ u.htsize = t.htsize /\ u.eDictType = t.eDictType
       /\ u.ht = ht2 /\ u.first = first2 /\ u.heap = heap4
  BY <1>1 DEF Shape
<1>12. Shape(u)
  <2>1. DOMAIN heap4 = DOMAIN t.heap
    BY <1>7
  <2>2. u \in [first : Elem \cup {NULL}, count : Nat, htsize : Nat,
               ht : [0 .. t.htsize - 1 -> Entry], heap : [DOMAIN t.heap -> HashElem],
               eDictType : Types]
    BY <1>1, <1>7, <1>8, <1>9 DEF Shape
  <2> QED  BY <1>11, <2>1, <2>2, <1>3 DEF Shape
<1> HIDE DEF u
<1>13. /\ DOMAIN u.heap = DOMAIN t.heap
       /\ \A x \in DOMAIN t.heap :
            /\ u.heap[x].key = t.heap[x].key /\ u.heap[x].data = t.heap[x].data
            /\ u.heap[x].next = IF x = e THEN (IF p = n + 1 THEN NULL ELSE s[p])
                                ELSE IF p > 1 /\ x = s[p - 1] THEN e ELSE t.heap[x].next
            /\ u.heap[x].prev = IF x = e THEN (IF p = 1 THEN NULL ELSE s[p - 1])
                                ELSE IF p <= n /\ x = s[p] THEN e ELSE t.heap[x].prev
  <2>1. \A x \in DOMAIN t.heap :
          /\ x = before <=> (p > 1 /\ x = s[p - 1])
          /\ x = head <=> (p <= n /\ x = s[p])
    BY <1>2, <1>3 DEF Position, Listed
  <2>2. head = IF p = n + 1 THEN NULL ELSE s[p]
    BY <1>2
  <2>3. before = IF p = 1 THEN NULL ELSE s[p - 1]
    BY <1>2
  <2>4. DOMAIN u.heap = DOMAIN t.heap
    BY <1>7, <1>11
  <2> QED  BY <1>7, <1>11, <2>1, <2>2, <2>3, <2>4
<1>14. Linked(t, s, n, e, p, u)
  BY <1>8, <1>10, <1>11, <1>12, <1>13 DEF Linked
<1> QED  BY <1>14 DEF u

(* The key of an element is a key, and its bucket is one of the table's.   *)
LEMMA BucketOfElement ==
  ASSUME NEW t, Shape(t), NEW e \in DOMAIN t.heap
  PROVE  /\ TextAt(t, e) = TextOf[t.heap[e].key] /\ TextAt(t, e) \in Key
         /\ t.htsize > 0 => BucketOf(t, e) \in DOMAIN t.ht
<1>1. t.heap[e] \in HashElem /\ t.htsize \in Nat /\ DOMAIN t.ht = 0 .. t.htsize - 1
  BY DEF Shape
<1>2. TextAt(t, e) = TextOf[t.heap[e].key] /\ TextAt(t, e) \in Key
  BY <1>1, HashAssumption DEF TextAt, HashElem
<1>3. HashCode[TextAt(t, e)] \in Nat
  BY <1>2, HashAssumption
<1>4. ASSUME t.htsize > 0 PROVE HashCode[TextAt(t, e)] % t.htsize \in 0 .. t.htsize - 1
  BY <1>1, <1>3, <1>4
<1> QED  BY <1>1, <1>2, <1>4 DEF BucketOf, Bucket

(* There is a place for every element that is not linked yet.              *)
LEMMA PositionExists ==
  ASSUME NEW t, NEW s, NEW n, Partial(t, s, n), NEW e \in DOMAIN t.heap,
         \A i \in 1 .. n : s[i] # e
  PROVE  \E p \in 1 .. n + 1 :
           /\ Position(t, s, n, e, p)
           /\ t.htsize > 0 /\ t.ht[BucketOf(t, e)].count > 0 => RunsFrom(t, s, n, BucketOf(t, e), p)
<1> DEFINE h == BucketOf(t, e)
<1>1. t.htsize > 0 => h \in DOMAIN t.ht
  BY BucketOfElement DEF Partial
<1>2. n \in Nat
  BY DEF Partial, Listed
<1>3. CASE t.htsize > 0 /\ t.ht[h].count > 0
  <2>1. PICK a \in Nat : RunsFrom(t, s, n, h, a)
    BY <1>1, <1>3 DEF Partial, Bucketed
  <2>2. t.ht[h].count \in Nat
    BY <1>1, <1>3 DEF Partial, Shape, Entry
  <2>3. 1 <= a /\ a <= n /\ t.ht[h].chain = s[a]
    BY <1>2, <1>3, <2>1, <2>2 DEF RunsFrom
  <2> HIDE DEF h
  <2>4. Position(t, s, n, e, a)
    BY <1>1, <1>2, <1>3, <2>3 DEF Position, h
  <2> QED  BY <1>2, <2>1, <2>3, <2>4 DEF h
<1>4. CASE ~(t.htsize > 0 /\ t.ht[h].count > 0)
  <2>1. Position(t, s, n, e, 1)
    BY <1>1, <1>2, <1>4 DEF Position
  <2> QED  BY <1>2, <1>4, <2>1
<1> QED  BY <1>3, <1>4

(* The elements of both tables are the same but for their links.           *)
SameElements(t, u) ==
  /\ DOMAIN u.heap = DOMAIN t.heap
  /\ \A x \in DOMAIN t.heap : u.heap[x].key = t.heap[x].key /\ u.heap[x].data = t.heap[x].data

(* In u the element e is on the list too, and the buckets are runs of it.  *)
Added(t, s, n, e, u) ==
  /\ u.count = t.count /\ u.htsize = t.htsize /\ u.eDictType = t.eDictType
  /\ SameElements(t, u)
  /\ \E r : /\ Partial(u, r, n + 1)
            /\ \A x : (\E i \in 1 .. n + 1 : r[i] = x) <=> (x = e \/ \E i \in 1 .. n : s[i] = x)

(* That is so after InsertElement.                                         *)
LEMMA InsertPartial ==
  ASSUME NEW t, NEW s, NEW n, Partial(t, s, n), NEW e \in DOMAIN t.heap,
         \A i \in 1 .. n : s[i] # e
  PROVE  Added(t, s, n, e, InsertElement(t, e, TextAt(t, e)))
<1> DEFINE v == InsertElement(t, e, TextAt(t, e))
           h == BucketOf(t, e)
<1>1. PICK p \in 1 .. n + 1 :
        /\ Position(t, s, n, e, p)
        /\ t.htsize > 0 /\ t.ht[h].count > 0 => RunsFrom(t, s, n, h, p)
  BY PositionExists
<1>2. PICK u : u = v
  OBVIOUS
<1> HIDE DEF v
<1>3. /\ Shape(u)
      /\ u.count = t.count /\ u.htsize = t.htsize /\ u.eDictType = t.eDictType
      /\ u.ht = IF t.htsize > 0
                  THEN [t.ht EXCEPT ![h] = [count |-> t.ht[h].count + 1, chain |-> e]] ELSE t.ht
      /\ u.first = IF p = 1 THEN e ELSE t.first
      /\ DOMAIN u.heap = DOMAIN t.heap
      /\ \A x \in DOMAIN t.heap :
           /\ u.heap[x].key = t.heap[x].key /\ u.heap[x].data = t.heap[x].data
           /\ u.heap[x].next = IF x = e THEN (IF p = n + 1 THEN NULL ELSE s[p])
                               ELSE IF p > 1 /\ x = s[p - 1] THEN e ELSE t.heap[x].next
           /\ u.heap[x].prev = IF x = e THEN (IF p = 1 THEN NULL ELSE s[p - 1])
                               ELSE IF p <= n /\ x = s[p] THEN e ELSE t.heap[x].prev
  <2>1. Shape(t) /\ Listed(t, s, n) /\ Position(t, s, n, e, p)
    BY <1>1 DEF Partial
  <2>2. Linked(t, s, n, e, p, u)
    BY <2>1, <1>2, InsertFields DEF v
  <2> QED  BY <2>2 DEF Linked
<1> DEFINE r == [i \in 1 .. n + 1 |-> IF i < p THEN s[i] ELSE IF i = p THEN e ELSE s[i - 1]]
<1>4. /\ n \in Nat /\ s \in [1 .. n -> DOMAIN t.heap] /\ \A i \in 1 .. n : s[i] # e
      /\ \A i, j \in 1 .. n : s[i] = s[j] => i = j
  BY DEF Partial, Listed
<1>5. \A i \in 1 .. n + 1 :
        /\ i < p => i \in 1 .. n /\ r[i] = s[i]
        /\ i = p => r[i] = e
        /\ i > p => i - 1 \in 1 .. n /\ r[i] = s[i - 1]
  BY <1>4
<1>6. r \in [1 .. n + 1 -> DOMAIN t.heap]
  BY <1>4
<1> HIDE DEF r
<1>7. \A i, j \in 1 .. n + 1 : r[i] = r[j] => i = j
  BY <1>4, <1>5
<1>8. Listed(u, r, n + 1)
  <2>1. u.first = r[1]
    BY <1>3, <1>4, <1>5 DEF Partial, Listed
  <2>2. ASSUME NEW i \in 1 .. n + 1
        PROVE  /\ u.heap[r[i]].next = IF i = n + 1 THEN NULL ELSE r[i + 1]
               /\ u.heap[r[i]].prev = IF i = 1 THEN NULL ELSE r[i - 1]
    <3>1. CASE i < p
      <4>1. i \in 1 .. n /\ r[i] = s[i] /\ s[i] # e /\ s[i] \in DOMAIN t.heap
        BY <1>4, <1>5, <3>1
      <4>2. /\ t.heap[s[i]].next = IF i = n THEN NULL ELSE s[i + 1]
            /\ t.heap[s[i]].prev = IF i = 1 THEN NULL ELSE s[i - 1]
        BY <4>1 DEF Partial, Listed
      <4>3. u.heap[s[i]].next = IF p > 1 /\ s[i] = s[p - 1] THEN e ELSE t.heap[s[i]].next
        BY <1>3, <4>1
      <4>4. u.heap[s[i]].prev = IF p <= n /\ s[i] = s[p] THEN e ELSE t.heap[s[i]].prev
        BY <1>3, <4>1
      <4>5. i = p - 1 <=> s[i] = s[p - 1]
        BY <1>4, <3>1, <4>1
      <4>6. ~(p <= n /\ s[i] = s[p])
        BY <1>4, <3>1, <4>1
      <4>7. r[i + 1] = (IF i = p - 1 THEN e ELSE s[i + 1]) /\ (i # 1 => r[i - 1] = s[i - 1])
        BY <1>4, <1>5, <3>1
      <4> QED  BY <1>4, <3>1, <4>1, <4>2, <4>3, <4>4, <4>5, <4>6, <4>7
    <3>2. CASE i = p
      <4>1. r[i] = e /\ (i # n + 1 => r[i + 1] = s[i]) /\ (i # 1 => r[i - 1] = s[i - 1])
        BY <1>4, <1>5, <3>2
      <4> QED  BY <1>3, <3>2, <4>1
    <3>3. CASE i > p
      <4>1. i - 1 \in 1 .. n /\ r[i] = s[i - 1] /\ s[i - 1] # e /\ s[i - 1] \in DOMAIN t.heap
        BY <1>4, <1>5, <3>3
      <4>2. /\ t.heap[s[i - 1]].next = IF i - 1 = n THEN NULL ELSE s[i - 1 + 1]
            /\ t.heap[s[i - 1]].prev = IF i - 1 = 1 THEN NULL ELSE s[i - 1 - 1]
        BY <4>1 DEF Partial, Listed
      <4>3. u.heap[s[i - 1]].next = IF p > 1 /\ s[i - 1] = s[p - 1] THEN e ELSE t.heap[s[i - 1]].next
        BY <1>3, <4>1
      <4>4. u.heap[s[i - 1]].prev = IF p <= n /\ s[i - 1] = s[p] THEN e ELSE t.heap[s[i - 1]].prev
        BY <1>3, <4>1
      <4>5. ~(p > 1 /\ s[i - 1] = s[p - 1])
        BY <1>4, <3>3, <4>1
      <4>6. i - 1 = p <=> (p <= n /\ s[i - 1] = s[p])
        BY <1>4, <3>3, <4>1
      <4>7. r[i - 1] = (IF i - 1 = p THEN e ELSE s[i - 1 - 1]) /\ (i # n + 1 => r[i + 1] = s[i])
        BY <1>4, <1>5, <3>3
      <4> QED  BY <1>4, <3>3, <4>1, <4>2, <4>3, <4>4, <4>5, <4>6, <4>7
    <3> QED  BY <1>4, <3>1, <3>2, <3>3
  <2> QED  BY <1>3, <1>4, <1>6, <1>7, <2>1, <2>2 DEF Listed
<1>9. \A x \in DOMAIN t.heap : BucketOf(u, x) = BucketOf(t, x)
  BY <1>3 DEF BucketOf, Bucket, TextAt
<1>10. Bucketed(u, r, n + 1)
  <2> SUFFICES ASSUME NEW g \in DOMAIN u.ht
               PROVE  \E a \in Nat : RunsFrom(u, r, n + 1, g, a)
    BY DEF Bucketed
  <2>1. g \in DOMAIN t.ht /\ t.ht[g].count \in Nat /\ t.htsize > 0
    BY <1>3 DEF Partial, Shape, Entry
  <2>2. u.ht[g] = IF g = h THEN [count |-> t.ht[h].count + 1, chain |-> e] ELSE t.ht[g]
    BY <1>3, <2>1
  <2>3. \A i \in 1 .. n + 1 :
          /\ i < p => BucketOf(u, r[i]) = BucketOf(t, s[i])
          /\ i = p => BucketOf(u, r[i]) = h
          /\ i > p => BucketOf(u, r[i]) = BucketOf(t, s[i - 1])
    BY <1>4, <1>5, <1>9
  <2>4. PICK b \in Nat : RunsFrom(t, s, n, g, b)
    BY <2>1 DEF Partial, Bucketed
  <2>5. CASE g = h
    <3>1. u.ht[g].count = t.ht[h].count + 1 /\ u.ht[g].chain = r[p]
      BY <1>5, <2>2, <2>5
    <3>2. CASE t.ht[h].count > 0
      <4>1. RunsFrom(t, s, n, h, p)
        BY <1>1, <2>1, <3>2
      <4>2. \A i \in 1 .. n + 1 : BucketOf(u, r[i]) = g <=> p <= i /\ i < p + u.ht[g].count
        <5> SUFFICES ASSUME NEW i \in 1 .. n + 1
                     PROVE  BucketOf(u, r[i]) = g <=> p <= i /\ i < p + u.ht[g].count
          OBVIOUS
        <5>1. CASE i < p
          BY <1>4, <1>5, <2>1, <2>3, <2>5, <3>1, <4>1, <5>1 DEF RunsFrom
        <5>2. CASE i = p
          BY <1>4, <2>1, <2>3, <2>5, <3>1, <5>2
        <5>3. CASE i > p
          <6>1. i - 1 \in 1 .. n /\ BucketOf(u, r[i]) = BucketOf(t, s[i - 1])
            BY <1>5, <2>3, <5>3
          <6>2. BucketOf(t, s[i - 1]) = h <=> p <= i - 1 /\ i - 1 < p + t.ht[h].count
            BY <4>1, <6>1 DEF RunsFrom
          <6> QED  BY <1>4, <2>1, <2>5, <3>1, <5>3, <6>1, <6>2
        <5> QED  BY <1>4, <5>1, <5>2, <5>3
      <4>3. 1 <= p /\ p + u.ht[g].count <= n + 2
        BY <1>4, <2>1, <2>5, <3>1, <3>2, <4>1 DEF RunsFrom
      <4> QED  BY <1>4, <3>1, <4>2, <4>3 DEF RunsFrom
    <3>3. CASE ~(t.ht[h].count > 0)
      <4>1. p = 1 /\ t.ht[h].count = 0
        BY <1>1, <2>1, <2>5, <3>3 DEF Position
      <4>2. \A i \in 1 .. n : BucketOf(t, s[i]) # h
        BY <2>1, <2>4, <2>5, <4>1 DEF RunsFrom
      <4>3. \A i \in 1 .. n + 1 : BucketOf(u, r[i]) = g <=> p <= i /\ i < p + u.ht[g].count
        BY <1>4, <1>5, <2>3, <2>5, <3>1, <4>1, <4>2
      <4>4. 1 <= p /\ p + u.ht[g].count <= n + 2
        BY <1>4, <3>1, <4>1
      <4> QED  BY <1>4, <3>1, <4>3, <4>4 DEF RunsFrom
    <3> QED  BY <3>2, <3>3
  <2>6. CASE g # h
    <3>1. u.ht[g] = t.ht[g]
      BY <2>2, <2>6
    <3>2. CASE t.ht[g].count = 0
      <4>1. \A i \in 1 .. n : BucketOf(t, s[i]) # g
        BY <2>1, <2>4, <3>2 DEF RunsFrom
      <4>2. \A i \in 1 .. n + 1 : BucketOf(u, r[i]) # g
        BY <1>4, <1>5, <2>3, <2>6, <4>1
      <4>3. RunsFrom(u, r, n + 1, g, b)
        BY <2>4, <3>1, <3>2, <4>2 DEF RunsFrom
      <4> QED  BY <4>3
    <3>3. CASE t.ht[g].count > 0
      <4>1. 1 <= b /\ b + t.ht[g].count <= n + 1 /\ t.ht[g].chain = s[b]
            /\ \A i \in 1 .. n : BucketOf(t, s[i]) = g <=> b <= i /\ i < b + t.ht[g].count
        BY <2>4, <3>3 DEF RunsFrom
      <4>2. b < p => b + t.ht[g].count <= p
        <5> SUFFICES ASSUME b < p, p < b + t.ht[g].count PROVE FALSE
          BY <1>4, <2>1
        <5>1. p \in 1 .. n /\ BucketOf(t, s[p]) = g
          BY <1>4, <2>1, <4>1
        <5>2. t.ht[h].count > 0
          BY <1>1, <1>4, <2>1, <4>1 DEF Position
        <5>3. h \in DOMAIN t.ht /\ t.ht[h].count \in Nat
          BY <1>1, <2>1 DEF Position, Partial, Shape, Entry
        <5>4. BucketOf(t, s[p]) = h
          BY <1>1, <2>1, <5>1, <5>2, <5>3 DEF RunsFrom
        <5> QED  BY <2>6, <5>1, <5>4
      <4> DEFINE a == IF b < p THEN b ELSE b + 1
      <4>3. a \in Nat /\ r[a] = s[b]
        <5>1. b \in 1 .. n
          BY <1>4, <2>1, <3>3, <4>1
        <5>2. CASE b < p
          BY <1>4, <1>5, <5>1, <5>2
        <5>3. CASE ~(b < p)
          <6>1. b + 1 \in 1 .. n + 1 /\ b + 1 > p /\ b + 1 - 1 = b
            BY <1>4, <5>1, <5>3
          <6> QED  BY <1>5, <5>3, <6>1
        <5> QED  BY <5>2, <5>3
      <4>4. \A i \in 1 .. n + 1 : BucketOf(u, r[i]) = g <=> a <= i /\ i < a + t.ht[g].count
        <5> SUFFICES ASSUME NEW i \in 1 .. n + 1
                     PROVE  BucketOf(u, r[i]) = g <=> a <= i /\ i < a + t.ht[g].count
          OBVIOUS
        <5>1. CASE i < p
          <6>1. i \in 1 .. n /\ BucketOf(u, r[i]) = BucketOf(t, s[i])
            BY <1>5, <2>3, <5>1
          <6> QED  BY <1>4, <2>1, <4>1, <4>2, <5>1, <6>1
        <5>2. CASE i = p
          BY <1>4, <2>1, <2>3, <2>6, <4>2, <5>2
        <5>3. CASE i > p
          <6>1. i - 1 \in 1 .. n /\ BucketOf(u, r[i]) = BucketOf(t, s[i - 1])
            BY <1>5, <2>3, <5>3
          <6>2. BucketOf(t, s[i - 1]) = g <=> b <= i - 1 /\ i - 1 < b + t.ht[g].count
            BY <4>1, <6>1
          <6> QED  BY <1>4, <2>1, <4>2, <5>3, <6>1, <6>2
        <5> QED  BY <1>4, <5>1, <5>2, <5>3
      <4>5. 1 <= a /\ a + t.ht[g].count <= n + 2
        BY <1>4, <2>1, <4>1
      <4> HIDE DEF a
      <4>6. RunsFrom(u, r, n + 1, g, a)
        BY <1>4, <3>1, <4>1, <4>3, <4>4, <4>5 DEF RunsFrom
      <4> QED  BY <4>3, <4>6
    <3> QED  BY <2>1, <3>2, <3>3
  <2> QED  BY <2>5, <2>6
<1>11. \A x : (\E i \in 1 .. n + 1 : r[i] = x) <=> (x = e \/ \E i \in 1 .. n : s[i] = x)
  <2>1. ASSUME NEW i \in 1 .. n PROVE \E j \in 1 .. n + 1 : r[j] = s[i]
    <3>1. CASE i < p
      BY <1>4, <1>5, <3>1
    <3>2. CASE ~(i < p)
      <4>1. i + 1 \in 1 .. n + 1 /\ r[i + 1] = s[i]
        BY <1>4, <1>5, <3>2
      <4> QED  BY <4>1
    <3> QED  BY <3>1, <3>2
  <2>2. r[p] = e
    BY <1>5
  <2>3. ASSUME NEW i \in 1 .. n + 1 PROVE r[i] = e \/ \E j \in 1 .. n : s[j] = r[i]
    <3>1. i < p \/ i = p \/ i > p
      BY <1>4
    <3> QED  BY <1>5, <3>1
  <2> QED  BY <2>1, <2>2, <2>3
<1>12. Partial(u, r, n + 1)
  BY <1>3, <1>8, <1>10 DEF Partial
<1>13. SameElements(t, u)
  BY <1>3 DEF SameElements
<1>14. \E q : /\ Partial(u, q, n + 1)
             /\ \A x : (\E i \in 1 .. n + 1 : q[i] = x) <=> (x = e \/ \E i \in 1 .. n : s[i] = x)
  BY <1>11, <1>12
<1>15. u.count = t.count /\ u.htsize = t.htsize /\ u.eDictType = t.eDictType
  BY <1>3
<1>16. Added(t, s, n, e, u)
  BY ONLY <1>13, <1>14, <1>15 DEF Added
<1> QED  BY <1>2, <1>16 DEF v

-----------------------------------------------------------------------------
(***************************************************************************)
(* Moving the elements to other buckets.                                   *)
(***************************************************************************)

(* A list on which all elements are has as many members.                   *)
LEMMA ListLength ==
  ASSUME NEW t, NEW s, NEW n, Listed(t, s, n), Covers(t, s, n)
  PROVE  IsFiniteSet(DOMAIN t.heap) /\ Cardinality(DOMAIN t.heap) = n
<1>1. n \in Nat /\ IsFiniteSet(1 .. n) /\ Cardinality(1 .. n) = n
  BY FS_Interval DEF Listed
<1>2. s \in Bijection(1 .. n, DOMAIN t.heap)
  BY DEF Bijection, Injection, Surjection, IsInjective, Listed, Covers
<1> QED  BY <1>1, <1>2, FS_Bijection DEF ExistsBijection

(* HashTable_each's way over the whole list.                               *)
LEMMA RunOfAll ==
  ASSUME NEW t, Shape(t), NEW s, NEW n, Listed(t, s, n), Covers(t, s, n)
  PROVE  /\ Run(t, t.first, Cardinality(DOMAIN t.heap)) = [i \in 1 .. n |-> s[i]]
         /\ Run(t, t.first, n) = [i \in 1 .. n |-> s[i]]
<1>1. n \in Nat /\ DOMAIN t.heap \subseteq Elem /\ (n > 0 => t.first = s[1])
  BY DEF Listed, Shape
<1>2. Run(t, t.first, n) = [i \in 1 .. n |-> s[1 + i - 1]]
  BY <1>1, RunOfList
<1>3. [i \in 1 .. n |-> s[1 + i - 1]] = [i \in 1 .. n |-> s[i]]
  BY <1>1
<1>4. Cardinality(DOMAIN t.heap) = n
  BY ListLength
<1> QED  BY <1>2, <1>3, <1>4

(* What Rehash starts from.                                                *)
Bare(t, m) ==
  [t EXCEPT !.first = NULL, !.htsize = m,
            !.ht = [h \in 0 .. m - 1 |-> [count |-> 0, chain |-> NULL]]]

(* g is the table after each of the n moves.                               *)
Moves(g, bare, t, s, n) ==
  g = [i \in 0 .. n |-> IF i = 0 THEN bare ELSE InsertElement(g[i - 1], s[i], TextAt(t, s[i]))]

(* The recursion of Rehash defines a function.                             *)
LEMMA MovedExists ==
  ASSUME NEW bare, NEW t, NEW s, NEW n \in Nat
  PROVE  \E g : Moves(g, bare, t, s, n)
<1> DEFINE Step(x, i) == InsertElement(x, s[i], TextAt(t, s[i]))
           Upto(k) == \E g : g = [i \in 0 .. k |-> IF i = 0 THEN bare ELSE Step(g[i - 1], i)]
           S == {k \in 0 .. n : ~Upto(k)}
<1> SUFFICES Upto(n)
  BY DEF Moves
<1> HIDE DEF Step
<1> SUFFICES ASSUME S # {} PROVE FALSE
  OBVIOUS
<1>1. S \subseteq 0 .. n /\ S \subseteq Nat
  OBVIOUS
<1>2. PICK k \in S : \A j \in S : k =< j
  <2> HIDE DEF S
  <2> QED  BY <1>1, LeastNumber
<1>3. k \in 0 .. n /\ ~Upto(k)
  OBVIOUS
<1>4. k # 0
  <2>1. LET g == [i \in 0 .. 0 |-> bare]
        IN  g = [i \in 0 .. 0 |-> IF i = 0 THEN bare ELSE Step(g[i - 1], i)]
    OBVIOUS
  <2>2. Upto(0)
    BY <2>1
  <2> QED  BY <1>3, <2>2
<1>5. k - 1 \in 0 .. n /\ k - 1 \notin S
  <2> HIDE DEF S
  <2> QED  BY <1>2, <1>3, <1>4
<1>6. PICK g : g = [i \in 0 .. k - 1 |-> IF i = 0 THEN bare ELSE Step(g[i - 1], i)]
  BY <1>5
<1> DEFINE f == [i \in 0 .. k |-> IF i = k THEN Step(g[k - 1], k) ELSE g[i]]
<1>7. \A i \in 0 .. k : f[i] = IF i = 0 THEN bare ELSE Step(f[i - 1], i)
  <2> SUFFICES ASSUME NEW i \in 0 .. k
               PROVE  f[i] = IF i = 0 THEN bare ELSE Step(f[i - 1], i)
    OBVIOUS
  <2>1. i # k => f[i] = g[i] /\ g[i] = IF i = 0 THEN bare ELSE Step(g[i - 1], i)
    BY <1>3, <1>6
  <2>2. i # 0 => f[i - 1] = g[i - 1]
    BY <1>3
  <2>3. i = k => f[i] = Step(g[i - 1], i)
    BY <1>3
  <2> QED  BY <1>4, <2>1, <2>2, <2>3
<1>8. f = [i \in 0 .. k |-> f[i]]
  OBVIOUS
<1> HIDE DEF f
<1>9. f = [i \in 0 .. k |-> IF i = 0 THEN bare ELSE Step(f[i - 1], i)]
  BY <1>7, <1>8
<1> QED  BY <1>3, <1>9

(* A table without links has the empty list.                               *)
LEMMA BarePartial ==
  ASSUME NEW t, Shape(t), NEW m \in Nat
  PROVE  /\ Partial(Bare(t, m), << >>, 0)
         /\ Bare(t, m).count = t.count /\ Bare(t, m).htsize = m
         /\ Bare(t, m).eDictType = t.eDictType /\ Bare(t, m).heap = t.heap
<1> DEFINE v == Bare(t, m)
           ht2 == [h \in 0 .. m - 1 |-> [count |-> 0, chain |-> NULL]]
<1>1. v = [t EXCEPT !.first = NULL, !.htsize = m, !.ht = ht2]
  BY DEF Bare
<1>2. ht2 \in [0 .. m - 1 -> Entry] /\ \A h \in 0 .. m - 1 : ht2[h].count = 0
  BY DEF Entry
<1> HIDE DEF ht2
<1>3. /\ v.count = t.count /\ v.eDictType = t.eDictType /\ v.heap = t.heap
      /\ v.htsize = m /\ v.first = NULL /\ v.ht = ht2
  BY <1>1 DEF Shape
<1>4. Shape(v)
  <2>1. v \in [first : Elem \cup {NULL}, count : Nat, htsize : Nat, ht : [0 .. m - 1 -> Entry],
               heap : [DOMAIN t.heap -> HashElem], eDictType : Types]
    BY <1>1, <1>2 DEF Shape
  <2>2. DOMAIN t.heap \subseteq Elem
    BY DEF Shape
  <2> QED  BY <1>3, <2>1, <2>2 DEF Shape
<1> HIDE DEF v
<1>5. Listed(v, << >>, 0)
  BY <1>3 DEF Listed
<1>6. Bucketed(v, << >>, 0)
  <2>1. \A h \in DOMAIN v.ht : RunsFrom(v, << >>, 0, h, 0)
    BY <1>2, <1>3 DEF RunsFrom
  <2> QED  BY <2>1 DEF Bucketed
<1> QED  BY <1>3, <1>4, <1>5, <1>6 DEF Partial, v

(* The elements that stand in the list after i moves.                      *)
Moved(t, s, m, i, u) ==
  /\ u.count = t.count /\ u.htsize = m /\ u.eDictType = t.eDictType
  /\ SameElements(t, u)
  /\ \E r : /\ Partial(u, r, i)
            /\ \A x : (\E j \in 1 .. i : r[j] = x) <=> (\E j \in 1 .. i : s[j] = x)

(* Rehash makes a table of m buckets with the same elements, all linked.   *)
LEMMA RehashWhole ==
  ASSUME NEW t, NEW s, NEW n, Partial(t, s, n), Covers(t, s, n), NEW m \in Nat
  PROVE  LET u == Rehash(t, m)
         IN  /\ u.count = t.count /\ u.htsize = m /\ u.eDictType = t.eDictType
             /\ SameElements(t, u)
             /\ \E r : Partial(u, r, n) /\ Covers(u, r, n)
<1> DEFINE bare == Bare(t, m)
           order == Run(t, t.first, Cardinality(DOMAIN t.heap))
           moved[i \in 0 .. Len(order)] ==
             IF i = 0 THEN bare ELSE InsertElement(moved[i - 1], order[i], TextAt(t, order[i]))
<1>1. Rehash(t, m) = moved[Len(order)]
  BY DEF Rehash, Bare
<1> HIDE DEF moved, order, bare
<1>2. n \in Nat /\ s \in [1 .. n -> DOMAIN t.heap] /\ \A i, j \in 1 .. n : s[i] = s[j] => i = j
  BY DEF Partial, Listed
<1>3. order = [i \in 1 .. n |-> s[i]]
  BY RunOfAll DEF Partial, order
<1>4. order \in Seq(DOMAIN t.heap) /\ Len(order) = n /\ \A i \in 1 .. n : order[i] = s[i]
  BY <1>2, <1>3
<1>5. Moves(moved, bare, t, order, n)
  <2>1. \E g : Moves(g, bare, t, order, n)
    BY <1>2, MovedExists
  <2>2. moved = CHOOSE g : Moves(g, bare, t, order, n)
    BY <1>4 DEF moved, Moves
  <2> QED  BY <2>1, <2>2
<1>6. moved[0] = bare /\ \A i \in 1 .. n : moved[i] = InsertElement(moved[i - 1], s[i], TextAt(t, s[i]))
  BY <1>2, <1>4, <1>5 DEF Moves
<1>7. \A i \in 0 .. n : Moved(t, s, m, i, moved[i])
  <2> DEFINE S == {i \in 0 .. n : ~Moved(t, s, m, i, moved[i])}
  <2> SUFFICES ASSUME S # {} PROVE FALSE
    OBVIOUS
  <2>1. S \subseteq 0 .. n /\ S \subseteq Nat
    BY <1>2
  <2>2. PICK k \in S : \A j \in S : k =< j
    <3> HIDE DEF S
    <3> QED  BY <2>1, LeastNumber
  <2>3. k \in 0 .. n /\ ~Moved(t, s, m, k, moved[k])
    OBVIOUS
  <2>4. k # 0
    <3>1. Moved(t, s, m, 0, bare)
      <4>1. /\ Partial(bare, << >>, 0) /\ bare.count = t.count /\ bare.htsize = m
            /\ bare.eDictType = t.eDictType /\ bare.heap = t.heap
        BY BarePartial DEF Partial, bare
      <4>2. \A x : (\E j \in 1 .. 0 : << >>[j] = x) <=> (\E j \in 1 .. 0 : s[j] = x)
        OBVIOUS
      <4> QED  BY <4>1, <4>2 DEF Moved, SameElements
    <3> QED  BY <1>6, <2>3, <3>1
  <2>5. k - 1 \in 0 .. n /\ k - 1 \notin S
    <3> HIDE DEF S
    <3> QED  BY <1>2, <2>2, <2>3, <2>4
  <2>6. Moved(t, s, m, k - 1, moved[k - 1])
    BY <2>5
  <2> HIDE DEF S
  <2>7. PICK u : u = moved[k - 1]
    OBVIOUS
  <2>8. PICK w : w = moved[k]
    OBVIOUS
  <2>9. PICK r : /\ Partial(u, r, k - 1)
                 /\ \A x : (\E j \in 1 .. k - 1 : r[j] = x) <=> (\E j \in 1 .. k - 1 : s[j] = x)
    BY <2>6, <2>7 DEF Moved
  <2>10. k \in 1 .. n /\ s[k] \in DOMAIN t.heap /\ k - 1 \in Nat /\ k - 1 + 1 = k
    BY <1>2, <2>3, <2>4
  <2>11. SameElements(t, u) /\ u.count = t.count /\ u.htsize = m /\ u.eDictType = t.eDictType
    BY <2>6, <2>7 DEF Moved
  <2>12. TextAt(t, s[k]) = TextAt(u, s[k]) /\ s[k] \in DOMAIN u.heap
    BY <2>10, <2>11 DEF TextAt, SameElements
  <2>13. w = InsertElement(u, s[k], TextAt(u, s[k]))
    BY <1>6, <2>7, <2>8, <2>10, <2>12
  <2>14. \A j \in 1 .. k - 1 : r[j] # s[k]
    <3> SUFFICES ASSUME NEW j \in 1 .. k - 1, r[j] = s[k] PROVE FALSE
      OBVIOUS
    <3>1. PICK l \in 1 .. k - 1 : s[l] = s[k]
      BY <2>9
    <3> QED  BY <1>2, <2>10, <3>1
  <2>15. Added(u, r, k - 1, s[k], w)
    BY <2>9, <2>12, <2>13, <2>14, InsertPartial
  <2>16. PICK q : /\ Partial(w, q, k)
                  /\ \A x : (\E j \in 1 .. k : q[j] = x)
                              <=> (x = s[k] \/ \E j \in 1 .. k - 1 : r[j] = x)
    BY <2>10, <2>15 DEF Added
  <2>17. \A x : (x = s[k] \/ \E j \in 1 .. k - 1 : s[j] = x) <=> (\E j \in 1 .. k : s[j] = x)
    BY <2>10
  <2>18. \A x : (\E j \in 1 .. k : q[j] = x) <=> (\E j \in 1 .. k : s[j] = x)
    BY <2>9, <2>16, <2>17
  <2>19. SameElements(t, w)
    BY <2>11, <2>15 DEF SameElements, Added
  <2>20. Moved(t, s, m, k, w)
    BY <2>11, <2>15, <2>16, <2>18, <2>19 DEF Moved, Added
  <2> QED  BY <2>3, <2>8, <2>20
<1>8. PICK u : u = Rehash(t, m)
  OBVIOUS
<1>9. Moved(t, s, m, n, u)
  BY <1>1, <1>2, <1>4, <1>7, <1>8
<1>10. PICK r : /\ Partial(u, r, n)
                /\ \A x : (\E j \in 1 .. n : r[j] = x) <=> (\E j \in 1 .. n : s[j] = x)
  BY <1>9 DEF Moved
<1>11. Covers(u, r, n)
  BY <1>9, <1>10 DEF Covers, Moved, SameElements
<1>12. /\ u.count = t.count /\ u.htsize = m /\ u.eDictType = t.eDictType
       /\ SameElements(t, u)
       /\ \E q : Partial(u, q, n) /\ Covers(u, q, n)
  BY <1>9, <1>10, <1>11 DEF Moved
<1> QED  BY <1>8, <1>12

-----------------------------------------------------------------------------
(***************************************************************************)
(* Taking an element out.                                                  *)
(***************************************************************************)

(* u is t without s[p]: nothing but the pointers around it and its bucket  *)
(* are changed.                                                            *)
Unlinked(t, s, n, p, u) ==
  LET h    == BucketOf(t, s[p])
      next == IF p = n THEN NULL ELSE s[p + 1]
      prev == IF p = 1 THEN NULL ELSE s[p - 1]
  IN  /\ Shape(u)
      /\ u.count = t.count - 1 /\ u.htsize = t.htsize /\ u.eDictType = t.eDictType
      /\ u.ht = IF t.htsize > 0
                  THEN [t.ht EXCEPT ![h] = [count |-> t.ht[h].count - 1,
                                            chain |-> IF t.ht[h].chain = s[p] THEN next
                                                      ELSE t.ht[h].chain]]
                  ELSE t.ht
      /\ u.first = IF p = 1 THEN next ELSE t.first
      /\ DOMAIN u.heap = DOMAIN t.heap \ {s[p]}
      /\ \A x \in DOMAIN t.heap \ {s[p]} :
           /\ u.heap[x].key = t.heap[x].key /\ u.heap[x].data = t.heap[x].data
           /\ u.heap[x].next = IF p > 1 /\ x = s[p - 1] THEN next ELSE t.heap[x].next
           /\ u.heap[x].prev = IF p < n /\ x = s[p + 1] THEN prev ELSE t.heap[x].prev

(* That is what Unlink does.                                               *)
LEMMA UnlinkFields ==
  ASSUME NEW t, NEW s, NEW n, Partial(t, s, n), NEW p \in 1 .. n, t.count > 0
  PROVE  Unlinked(t, s, n, p, Unlink(t, s[p]))
<1> DEFINE e      == s[p]
           h      == Bucket(t, TextAt(t, e))
           next   == t.heap[e].next
           prev   == t.heap[e].prev
           heap2  == IF prev = NULL THEN t.heap ELSE [t.heap EXCEPT ![prev].next = next]
           heap3  == IF next = NULL THEN heap2 ELSE [heap2 EXCEPT ![next].prev = prev]
           heap4  == [y \in DOMAIN heap3 \ {e} |-> heap3[y]]
           first2 == IF prev = NULL THEN next ELSE t.first
           ht2    == IF t.htsize = 0 THEN t.ht
                     ELSE [t.ht EXCEPT ![h] = [count |-> t.ht[h].count - 1,
                                               chain |-> IF t.ht[h].chain = e THEN next
                                                         ELSE t.ht[h].chain]]
           u      == Unlink(t, e)
<1>0. Shape(t) /\ Listed(t, s, n) /\ n \in Nat
  BY DEF Partial, Listed
<1>1. u = [t EXCEPT !.heap = heap4, !.first = first2, !.count = t.count - 1, !.ht = ht2]
  BY DEF Unlink
<1>2. /\ next = IF p = n THEN NULL ELSE s[p + 1]
      /\ prev = IF p = 1 THEN NULL ELSE s[p - 1]
  BY <1>0 DEF Listed
<1>3. /\ e \in DOMAIN t.heap /\ DOMAIN t.heap \subseteq Elem /\ NULL \notin Elem
      /\ next \in (DOMAIN t.heap \ {e}) \cup {NULL} /\ prev \in (DOMAIN t.heap \ {e}) \cup {NULL}
  <2>1. s \in [1 .. n -> DOMAIN t.heap] /\ \A i, j \in 1 .. n : s[i] = s[j] => i = j
    BY <1>0 DEF Listed
  <2>2. p # n => p + 1 \in 1 .. n /\ s[p + 1] \in DOMAIN t.heap /\ s[p + 1] # s[p]
    BY <1>0, <2>1
  <2>3. p # 1 => p - 1 \in 1 .. n /\ s[p - 1] \in DOMAIN t.heap /\ s[p - 1] # s[p]
    BY <1>0, <2>1
  <2>4. DOMAIN t.heap \subseteq Elem /\ NULL \notin Elem
    BY <1>0, HashAssumption DEF Shape
  <2> HIDE DEF next, prev
  <2> QED  BY <1>2, <2>1, <2>2, <2>3, <2>4
<1>4. t.heap \in [DOMAIN t.heap -> HashElem]
  BY <1>0 DEF Shape
<1>5. h = BucketOf(t, e) /\ (t.htsize > 0 => h \in DOMAIN t.ht)
  BY <1>0, <1>3, BucketOfElement DEF BucketOf
<1> HIDE DEF next, prev, e
<1>6. heap2 \in [DOMAIN t.heap -> HashElem]
      /\ \A x \in DOMAIN t.heap :
           /\ heap2[x].key = t.heap[x].key /\ heap2[x].data = t.heap[x].data
           /\ heap2[x].prev = t.heap[x].prev
           /\ heap2[x].next = IF x = prev THEN next ELSE t.heap[x].next
  BY <1>3, <1>4 DEF HashElem
<1> HIDE DEF heap2
<1>7. heap3 \in [DOMAIN t.heap -> HashElem]
      /\ \A x \in DOMAIN t.heap :
           /\ heap3[x].key = t.heap[x].key /\ heap3[x].data = t.heap[x].data
           /\ heap3[x].next = IF x = prev THEN next ELSE t.heap[x].next
           /\ heap3[x].prev = IF x = next THEN prev ELSE t.heap[x].prev
  BY <1>3, <1>6 DEF HashElem
<1> HIDE DEF heap3
<1>8. heap4 \in [DOMAIN t.heap \ {e} -> HashElem]
      /\ \A x \in DOMAIN t.heap \ {e} : heap4[x] = heap3[x]
  BY <1>7
<1> HIDE DEF heap4
<1>9. first2 \in Elem \cup {NULL}
  BY <1>0, <1>3 DEF Shape
<1> HIDE DEF first2, h
<1>10. t.htsize > 0 =>
         /\ h \in 0 .. t.htsize - 1 /\ t.ht \in [0 .. t.htsize - 1 -> Entry]
         /\ t.ht[h].count \in Nat \ {0} /\ t.ht[h].chain \in Elem \cup {NULL}
  <2> SUFFICES ASSUME t.htsize > 0
               PROVE  /\ h \in 0 .. t.htsize - 1 /\ t.ht \in [0 .. t.htsize - 1 -> Entry]
                      /\ t.ht[h].count \in Nat \ {0} /\ t.ht[h].chain \in Elem \cup {NULL}
    OBVIOUS
  <2>1. h \in 0 .. t.htsize - 1 /\ t.ht \in [0 .. t.htsize - 1 -> Entry]
    BY <1>0, <1>5 DEF Shape
  <2>2. t.ht[h].count \in Nat /\ t.ht[h].chain \in Elem \cup {NULL}
    BY <2>1 DEF Entry
  <2>3. PICK a \in Nat : RunsFrom(t, s, n, h, a)
    BY <2>1 DEF Partial, Bucketed
  <2>4. a <= p /\ p < a + t.ht[h].count
    BY <1>5, <2>3 DEF RunsFrom, e
  <2> QED  BY <2>1, <2>2, <2>4
<1>11. ht2 \in [0 .. t.htsize - 1 -> Entry]
  <2>1. CASE t.htsize > 0
    <3>1. [count |-> t.ht[h].count - 1,
           chain |-> IF t.ht[h].chain = e THEN next ELSE t.ht[h].chain] \in Entry
      BY <1>3, <1>10, <2>1 DEF Entry
    <3> QED  BY <1>10, <2>1, <3>1
  <2>2. CASE ~(t.htsize > 0)
    BY <1>0, <2>2 DEF Shape
  <2> QED  BY <2>1, <2>2
<1>12. /\ u.count = t.count - 1 /\ u.htsize = t.htsize /\ u.eDictType = t.eDictType
       /\ u.ht = ht2 /\ u.first = first2 /\ u.heap = heap4
  BY <1>0, <1>1 DEF Shape
<1>13. t.htsize \in Nat
  BY <1>0 DEF Shape
<1>14. ht2 = IF t.htsize > 0
               THEN [t.ht EXCEPT ![h] = [count |-> t.ht[h].count - 1,
                                         chain |-> IF t.ht[h].chain = e THEN next ELSE t.ht[h].chain]]
               ELSE t.ht
  BY <1>13
<1> HIDE DEF ht2
<1>15. Shape(u)
  <2>1. DOMAIN heap4 = DOMAIN t.heap \ {e} /\ t.count - 1 \in Nat
    BY <1>0, <1>8 DEF Shape
  <2>2. u \in [first : Elem \cup {NULL}, count : Nat, htsize : Nat,
               ht : [0 .. t.htsize - 1 -> Entry], heap : [DOMAIN t.heap \ {e} -> HashElem],
               eDictType : Types]
    BY <1>0, <1>1, <1>8, <1>9, <1>11, <2>1 DEF Shape
  <2> QED  BY <1>12, <2>1, <2>2, <1>3 DEF Shape
<1> HIDE DEF u
<1>16. u.first = IF p = 1 THEN next ELSE t.first
  <2>1. p # 1 => s[p - 1] \in DOMAIN t.heap
    BY <1>0 DEF Listed
  <2> QED  BY <1>2, <1>3, <1>12, <2>1 DEF first2
<1>17. \A x \in DOMAIN t.heap : (x = prev <=> p > 1 /\ x = s[p - 1]) /\ (x = next <=> p < n /\ x = s[p + 1])
  BY <1>0, <1>2, <1>3
<1>18. DOMAIN u.heap = DOMAIN t.heap \ {e}
  BY <1>8, <1>12
<1>19. \A x \in DOMAIN t.heap \ {e} :
         /\ u.heap[x].key = t.heap[x].key /\ u.heap[x].data = t.heap[x].data
         /\ u.heap[x].next = IF p > 1 /\ x = s[p - 1] THEN next ELSE t.heap[x].next
         /\ u.heap[x].prev = IF p < n /\ x = s[p + 1] THEN prev ELSE t.heap[x].prev
  BY <1>7, <1>8, <1>12, <1>17
<1>20. u.ht = IF t.htsize > 0
                THEN [t.ht EXCEPT ![BucketOf(t, s[p])] =
                        [count |-> t.ht[BucketOf(t, s[p])].count - 1,
                         chain |-> IF t.ht[BucketOf(t, s[p])].chain = s[p] THEN next
                                   ELSE t.ht[BucketOf(t, s[p])].chain]]
                ELSE t.ht
  BY <1>5, <1>12, <1>14 DEF e
<1>21. Unlinked(t, s, n, p, u)
  BY <1>2, <1>12, <1>15, <1>16, <1>18, <1>19, <1>20 DEF Unlinked, e
<1> QED  BY <1>21 DEF u, e

(* Unlink takes the element out of the list, and leaves a table of which   *)
(* the buckets are runs of the list.                                       *)
LEMMA UnlinkPartial ==
  ASSUME NEW t, NEW s, NEW n, Partial(t, s, n), NEW p \in 1 .. n, t.count > 0,
         NEW u, Unlinked(t, s, n, p, u)
  PROVE  \E r : /\ Partial(u, r, n - 1)
                /\ \A i \in 1 .. n : i # p => \E j \in 1 .. n - 1 : r[j] = s[i]
<1> DEFINE h == BucketOf(t, s[p])
           next == IF p = n THEN NULL ELSE s[p + 1]
           prev == IF p = 1 THEN NULL ELSE s[p - 1]
           r == [i \in 1 .. n - 1 |-> IF i < p THEN s[i] ELSE s[i + 1]]
<1>1. /\ Shape(u)
      /\ u.count = t.count - 1 /\ u.htsize = t.htsize /\ u.eDictType = t.eDictType
      /\ u.ht = IF t.htsize > 0
                  THEN [t.ht EXCEPT ![h] = [count |-> t.ht[h].count - 1,
                                            chain |-> IF t.ht[h].chain = s[p] THEN next
                                                      ELSE t.ht[h].chain]]
                  ELSE t.ht
      /\ u.first = IF p = 1 THEN next ELSE t.first
      /\ DOMAIN u.heap = DOMAIN t.heap \ {s[p]}
      /\ \A x \in DOMAIN t.heap \ {s[p]} :
           /\ u.heap[x].key = t.heap[x].key /\ u.heap[x].data = t.heap[x].data
           /\ u.heap[x].next = IF p > 1 /\ x = s[p - 1] THEN next ELSE t.heap[x].next
           /\ u.heap[x].prev = IF p < n /\ x = s[p + 1] THEN prev ELSE t.heap[x].prev
  BY DEF Unlinked
<1>2. /\ n \in Nat /\ s \in [1 .. n -> DOMAIN t.heap]
      /\ \A i, j \in 1 .. n : s[i] = s[j] => i = j
  BY DEF Partial, Listed
<1>3. \A i \in 1 .. n - 1 :
        /\ i < p => i \in 1 .. n /\ r[i] = s[i] /\ s[i] # s[p]
        /\ ~(i < p) => i + 1 \in 1 .. n /\ r[i] = s[i + 1] /\ s[i + 1] # s[p]
  BY <1>2
<1>4. r \in [1 .. n - 1 -> DOMAIN u.heap]
  <2>1. \A i \in 1 .. n - 1 : r[i] \in DOMAIN u.heap
    BY <1>1, <1>2, <1>3
  <2> QED  BY <2>1
<1> HIDE DEF r
<1>5. \A i, j \in 1 .. n - 1 : r[i] = r[j] => i = j
  BY <1>2, <1>3
<1>6. Listed(u, r, n - 1)
  <2>1. u.first = IF n - 1 = 0 THEN NULL ELSE r[1]
    <3>1. t.first = s[1]
      BY <1>2 DEF Partial, Listed
    <3>2. n - 1 # 0 => 1 \in 1 .. n - 1 /\ r[1] = IF 1 < p THEN s[1] ELSE s[2]
      BY <1>2, <1>3
    <3> QED  BY <1>1, <1>2, <3>1, <3>2
  <2>2. ASSUME NEW i \in 1 .. n - 1
        PROVE  /\ u.heap[r[i]].next = IF i = n - 1 THEN NULL ELSE r[i + 1]
               /\ u.heap[r[i]].prev = IF i = 1 THEN NULL ELSE r[i - 1]
    <3>1. CASE i < p
      <4>1. i \in 1 .. n /\ r[i] = s[i] /\ s[i] \in DOMAIN t.heap \ {s[p]}
        BY <1>2, <1>3, <3>1
      <4>2. /\ t.heap[s[i]].next = IF i = n THEN NULL ELSE s[i + 1]
            /\ t.heap[s[i]].prev = IF i = 1 THEN NULL ELSE s[i - 1]
        BY <4>1 DEF Partial, Listed
      <4>3. /\ u.heap[s[i]].next = IF p > 1 /\ s[i] = s[p - 1] THEN next ELSE t.heap[s[i]].next
            /\ u.heap[s[i]].prev = IF p < n /\ s[i] = s[p + 1] THEN prev ELSE t.heap[s[i]].prev
        BY <1>1, <4>1
      <4>4. i = p - 1 <=> s[i] = s[p - 1]
        BY <1>2, <3>1, <4>1
      <4>5. ~(p < n /\ s[i] = s[p + 1])
        BY <1>2, <3>1, <4>1
      <4>6. i # n - 1 => r[i + 1] = IF i = p - 1 THEN s[p + 1] ELSE s[i + 1]
        BY <1>2, <1>3, <3>1
      <4>7. i # 1 => r[i - 1] = s[i - 1]
        BY <1>2, <1>3, <3>1
      <4> QED  BY <1>2, <3>1, <4>1, <4>2, <4>3, <4>4, <4>5, <4>6, <4>7
    <3>2. CASE ~(i < p)
      <4>1. i + 1 \in 1 .. n /\ r[i] = s[i + 1] /\ s[i + 1] \in DOMAIN t.heap \ {s[p]}
        BY <1>2, <1>3, <3>2
      <4>2. /\ t.heap[s[i + 1]].next = IF i + 1 = n THEN NULL ELSE s[i + 1 + 1]
            /\ t.heap[s[i + 1]].prev = IF i + 1 = 1 THEN NULL ELSE s[i + 1 - 1]
        BY <4>1 DEF Partial, Listed
      <4>3. /\ u.heap[s[i + 1]].next = IF p > 1 /\ s[i + 1] = s[p - 1] THEN next ELSE t.heap[s[i + 1]].next
            /\ u.heap[s[i + 1]].prev = IF p < n /\ s[i + 1] = s[p + 1] THEN prev ELSE t.heap[s[i + 1]].prev
        BY <1>1, <4>1
      <4>4. ~(p > 1 /\ s[i + 1] = s[p - 1])
        BY <1>2, <3>2, <4>1
      <4>5. (p < n /\ s[i + 1] = s[p + 1]) <=> i = p
        BY <1>2, <3>2, <4>1
      <4>6. i # n - 1 => r[i + 1] = s[i + 1 + 1]
        BY <1>2, <1>3, <3>2
      <4>7. i # 1 => r[i - 1] = IF i = p THEN s[p - 1] ELSE s[i]
        BY <1>2, <1>3, <3>2
      <4> QED  BY <1>2, <3>2, <4>1, <4>2, <4>3, <4>4, <4>5, <4>6, <4>7
    <3> QED  BY <3>1, <3>2
  <2> QED  BY <1>2, <1>4, <1>5, <2>1, <2>2 DEF Listed
<1>7. \A x \in DOMAIN u.heap : BucketOf(u, x) = BucketOf(t, x)
  BY <1>1 DEF BucketOf, Bucket, TextAt
<1>8. Bucketed(u, r, n - 1)
  <2> SUFFICES ASSUME NEW g \in DOMAIN u.ht
               PROVE  \E a \in Nat : RunsFrom(u, r, n - 1, g, a)
    BY DEF Bucketed
  <2>1. g \in DOMAIN t.ht /\ t.ht[g].count \in Nat /\ t.htsize > 0
    <3>1. t.htsize \in Nat /\ t.ht \in [0 .. t.htsize - 1 -> Entry] /\ DOMAIN u.ht = DOMAIN t.ht
      BY <1>1 DEF Partial, Shape
    <3>2. g \in 0 .. t.htsize - 1 /\ t.ht[g] \in Entry
      BY <3>1
    <3> QED  BY <3>1, <3>2 DEF Entry
  <2>2. u.ht[g] = IF g = h THEN [count |-> t.ht[h].count - 1,
                                 chain |-> IF t.ht[h].chain = s[p] THEN next ELSE t.ht[h].chain]
                  ELSE t.ht[g]
    BY <1>1, <2>1
  <2>3. PICK b \in Nat : RunsFrom(t, s, n, g, b)
    BY <2>1 DEF Partial, Bucketed
  <2>4. \A i \in 1 .. n : BucketOf(t, s[i]) = g <=> b <= i /\ i < b + t.ht[g].count
    BY <2>3 DEF RunsFrom
  <2>5. t.ht[g].count > 0 => 1 <= b /\ b + t.ht[g].count <= n + 1 /\ t.ht[g].chain = s[b]
    BY <2>3 DEF RunsFrom
  <2>6. \A i \in 1 .. n - 1 :
          BucketOf(u, r[i]) = IF i < p THEN BucketOf(t, s[i]) ELSE BucketOf(t, s[i + 1])
    <3> SUFFICES ASSUME NEW i \in 1 .. n - 1
                 PROVE  BucketOf(u, r[i]) = IF i < p THEN BucketOf(t, s[i]) ELSE BucketOf(t, s[i + 1])
      OBVIOUS
    <3>1. BucketOf(u, r[i]) = BucketOf(t, r[i])
      BY <1>4, <1>7
    <3> QED  BY <1>3, <3>1
  <2>7. h = g <=> b <= p /\ p < b + t.ht[g].count
    BY <2>4
  <2>8. CASE g = h
    <3>1. b <= p /\ p < b + t.ht[g].count /\ t.ht[g].count > 0
      BY <2>1, <2>7, <2>8
    <3>2. u.ht[g].count = t.ht[g].count - 1
      BY <2>2, <2>8
    <3>3. \A i \in 1 .. n - 1 : BucketOf(u, r[i]) = g <=> b <= i /\ i < b + u.ht[g].count
      <4> SUFFICES ASSUME NEW i \in 1 .. n - 1
                   PROVE  BucketOf(u, r[i]) = g <=> b <= i /\ i < b + u.ht[g].count
        OBVIOUS
      <4>1. CASE i < p
        <5>1. i \in 1 .. n /\ BucketOf(u, r[i]) = BucketOf(t, s[i])
          BY <1>2, <2>6, <4>1
        <5> QED  BY <1>2, <2>1, <2>4, <3>1, <3>2, <4>1, <5>1
      <4>2. CASE ~(i < p)
        <5>1. i + 1 \in 1 .. n /\ BucketOf(u, r[i]) = BucketOf(t, s[i + 1])
          BY <1>2, <2>6, <4>2
        <5>2. BucketOf(t, s[i + 1]) = g <=> b <= i + 1 /\ i + 1 < b + t.ht[g].count
          BY <2>4, <5>1
        <5> QED  BY <1>2, <2>1, <3>1, <3>2, <4>2, <5>1, <5>2
      <4> QED  BY <4>1, <4>2
    <3>4. ASSUME u.ht[g].count > 0
          PROVE  1 <= b /\ b + u.ht[g].count <= n /\ u.ht[g].chain = r[b]
      <4>1. 1 <= b /\ b + u.ht[g].count <= n
        BY <1>2, <2>1, <2>5, <3>1, <3>2
      <4>2. b \in 1 .. n - 1
        BY <1>2, <2>1, <3>2, <3>4, <4>1
      <4>3. t.ht[g].chain = s[b] /\ (s[b] = s[p] <=> b = p)
        BY <1>2, <2>5, <3>1, <4>2
      <4>4. u.ht[g].chain = IF b = p THEN next ELSE s[b]
        BY <2>2, <2>8, <4>3
      <4>5. r[b] = IF b < p THEN s[b] ELSE s[b + 1]
        BY <1>3, <4>2
      <4> QED  BY <1>2, <3>1, <4>1, <4>2, <4>4, <4>5
    <3>5. n - 1 + 1 = n
      BY <1>2
    <3>6. RunsFrom(u, r, n - 1, g, b)
      BY <3>3, <3>4, <3>5 DEF RunsFrom
    <3> QED  BY <3>6
  <2>9. CASE g # h
    <3>1. u.ht[g] = t.ht[g]
      BY <2>2, <2>9
    <3>2. p < b \/ b + t.ht[g].count <= p
      BY <1>2, <2>1, <2>7, <2>9
    <3>3. CASE t.ht[g].count = 0
      <4>1. \A i \in 1 .. n : BucketOf(t, s[i]) # g
        BY <2>4, <3>3
      <4>2. \A i \in 1 .. n - 1 : BucketOf(u, r[i]) # g
        BY <1>2, <2>6, <4>1
      <4>3. RunsFrom(u, r, n - 1, g, b)
        BY <3>1, <3>3, <4>2 DEF RunsFrom
      <4> QED  BY <4>3
    <3>4. CASE t.ht[g].count > 0
      <4> DEFINE a == IF p < b THEN b - 1 ELSE b
      <4>1. 1 <= b /\ b + t.ht[g].count <= n + 1 /\ t.ht[g].chain = s[b] /\ b \in 1 .. n
        BY <1>2, <2>1, <2>5, <3>4
      <4>2. a \in Nat /\ 1 <= a /\ a + t.ht[g].count <= n
        BY <1>2, <2>1, <3>2, <3>4, <4>1
      <4>3. r[a] = s[b]
        <5>1. a \in 1 .. n - 1
          BY <1>2, <2>1, <3>4, <4>2
        <5>2. CASE p < b
          <6>1. a = b - 1 /\ ~(a < p) /\ a + 1 = b
            BY <1>2, <4>1, <5>2
          <6> QED  BY <1>3, <5>1, <6>1
        <5>3. CASE ~(p < b)
          <6>1. a = b /\ a < p
            BY <1>2, <2>1, <3>2, <3>4, <4>1, <5>3
          <6> QED  BY <1>3, <5>1, <6>1
        <5> QED  BY <5>2, <5>3
      <4>4. \A i \in 1 .. n - 1 : BucketOf(u, r[i]) = g <=> a <= i /\ i < a + t.ht[g].count
        <5> SUFFICES ASSUME NEW i \in 1 .. n - 1
                     PROVE  BucketOf(u, r[i]) = g <=> a <= i /\ i < a + t.ht[g].count
          OBVIOUS
        <5>1. CASE i < p
          <6>1. i \in 1 .. n /\ BucketOf(u, r[i]) = BucketOf(t, s[i])
            BY <1>2, <2>6, <5>1
          <6> QED  BY <1>2, <2>1, <2>4, <3>2, <4>1, <5>1, <6>1
        <5>2. CASE ~(i < p)
          <6>1. i + 1 \in 1 .. n /\ BucketOf(u, r[i]) = BucketOf(t, s[i + 1])
            BY <1>2, <2>6, <5>2
          <6>2. BucketOf(t, s[i + 1]) = g <=> b <= i + 1 /\ i + 1 < b + t.ht[g].count
            BY <2>4, <6>1
          <6> QED  BY <1>2, <2>1, <3>2, <4>1, <5>2, <6>1, <6>2
        <5> QED  BY <5>1, <5>2
      <4> HIDE DEF a
      <4>5. RunsFrom(u, r, n - 1, g, a)
        BY <1>2, <3>1, <4>1, <4>2, <4>3, <4>4 DEF RunsFrom
      <4> QED  BY <4>2, <4>5
    <3> QED  BY <2>1, <3>3, <3>4
  <2> QED  BY <2>8, <2>9
<1>9. \A i \in 1 .. n : i # p => \E j \in 1 .. n - 1 : r[j] = s[i]
  <2> SUFFICES ASSUME NEW i \in 1 .. n, i # p PROVE \E j \in 1 .. n - 1 : r[j] = s[i]
    OBVIOUS
  <2>1. CASE i < p
    BY <1>2, <1>3, <2>1
  <2>2. CASE ~(i < p)
    <3>1. i - 1 \in 1 .. n - 1 /\ ~(i - 1 < p) /\ i - 1 + 1 = i
      BY <1>2, <2>2
    <3> QED  BY <1>3, <3>1
  <2> QED  BY <2>1, <2>2
<1>10. Partial(u, r, n - 1)
  BY <1>1, <1>6, <1>8 DEF Partial
<1> QED  BY <1>9, <1>10

-----------------------------------------------------------------------------
(***************************************************************************)
(* Searching.                                                              *)
(***************************************************************************)

(* The run a bucket points to consists of exactly its elements.            *)
LEMMA BucketRun ==
  ASSUME NEW t, NEW s, NEW n, Partial(t, s, n), Covers(t, s, n), NEW h \in DOMAIN t.ht
  PROVE  ToSet(Run(t, t.ht[h].chain, t.ht[h].count)) = {e \in DOMAIN t.heap : BucketOf(t, e) = h}
<1>1. PICK a \in Nat : RunsFrom(t, s, n, h, a)
  BY DEF Partial, Bucketed
<1>2. PICK c : c = t.ht[h].count
  OBVIOUS
<1>3. c \in Nat
  <2>1. t.ht \in [0 .. t.htsize - 1 -> Entry] /\ DOMAIN t.ht = 0 .. t.htsize - 1
    BY DEF Partial, Shape
  <2> QED  BY <1>2, <2>1 DEF Entry
<1>4. n \in Nat /\ s \in [1 .. n -> DOMAIN t.heap]
  BY DEF Partial, Listed
<1>5. \A i \in 1 .. n : BucketOf(t, s[i]) = h <=> a <= i /\ i < a + c
  BY <1>1, <1>2 DEF RunsFrom
<1>6. c > 0 => 1 <= a /\ a + c <= n + 1 /\ t.ht[h].chain = s[a]
  BY <1>1, <1>2 DEF RunsFrom
<1>7. Run(t, t.ht[h].chain, c) = [i \in 1 .. c |-> s[a + i - 1]]
  <2>1. DOMAIN t.heap \subseteq Elem /\ Listed(t, s, n)
    BY DEF Partial, Shape
  <2> QED  BY <1>3, <1>6, <2>1, RunOfList
<1>8. ToSet(Run(t, t.ht[h].chain, c)) = {s[a + i - 1] : i \in 1 .. c}
  BY <1>7 DEF ToSet
<1>9. ASSUME NEW i \in 1 .. c
      PROVE  s[a + i - 1] \in DOMAIN t.heap /\ BucketOf(t, s[a + i - 1]) = h
  <2>1. a + i - 1 \in 1 .. n /\ a <= a + i - 1 /\ a + i - 1 < a + c
    BY <1>3, <1>4, <1>6
  <2> QED  BY <1>4, <1>5, <2>1
<1>10. ASSUME NEW e \in DOMAIN t.heap, BucketOf(t, e) = h
       PROVE  \E i \in 1 .. c : s[a + i - 1] = e
  <2>1. PICK j \in 1 .. n : s[j] = e
    BY DEF Covers
  <2>2. a <= j /\ j < a + c
    BY <1>5, <1>10, <2>1
  <2>3. j - a + 1 \in 1 .. c /\ a + (j - a + 1) - 1 = j
    BY <1>3, <1>4, <2>2
  <2> QED  BY <2>1, <2>3
<1> QED  BY <1>2, <1>8, <1>9, <1>10

(* HashTable_get looks at elements of the table, those with the key among  *)
(* them.                                                                   *)
LEMMA CandidatesAreRight ==
  ASSUME NEW t, NEW s, NEW n, Whole(t, s, n), NEW k \in Key
  PROVE  /\ ToSet(Candidates(t, k)) \subseteq DOMAIN t.heap
         /\ \A e \in DOMAIN t.heap : TextAt(t, e) = k => e \in ToSet(Candidates(t, k))
<1>1. /\ Partial(t, s, n) /\ Shape(t) /\ Listed(t, s, n) /\ Covers(t, s, n) /\ t.count = n
      /\ t.htsize \in Nat
  BY DEF Whole, Partial, Shape
<1>2. CASE t.htsize = 0
  <2>1. Candidates(t, k) = [i \in 1 .. n |-> s[i]]
    BY <1>1, <1>2, RunOfAll DEF Candidates
  <2>2. ToSet(Candidates(t, k)) = {s[i] : i \in 1 .. n}
    BY <2>1 DEF ToSet
  <2> QED  BY <1>1, <2>2 DEF Listed, Covers
<1>3. CASE t.htsize # 0
  <2> DEFINE h == Bucket(t, k)
  <2>1. h \in DOMAIN t.ht
    <3>1. HashCode[k] \in Nat /\ t.htsize \in Nat \ {0}
      BY <1>1, <1>3, HashAssumption
    <3>2. HashCode[k] % t.htsize \in 0 .. t.htsize - 1
      BY <3>1
    <3> QED  BY <1>1, <3>2 DEF Shape, Bucket
  <2>2. Candidates(t, k) = Run(t, t.ht[h].chain, t.ht[h].count)
    BY <1>3 DEF Candidates
  <2>3. ToSet(Candidates(t, k)) = {e \in DOMAIN t.heap : BucketOf(t, e) = h}
    BY <1>1, <2>1, <2>2, BucketRun
  <2> QED  BY <2>3 DEF BucketOf
<1> QED  BY <1>2, <1>3

(* The search finds the element with the key if there is one.              *)
LEMMA FindRight ==
  ASSUME NEW t, NEW s, NEW n, Whole(t, s, n), NEW k \in Key
  PROVE  /\ FindElement(t, k) # NULL =>
              FindElement(t, k) \in DOMAIN t.heap /\ TextAt(t, FindElement(t, k)) = k
         /\ FindElement(t, k) = NULL => \A e \in DOMAIN t.heap : TextAt(t, e) # k
         /\ \A e \in DOMAIN t.heap : TextAt(t, e) = k => FindElement(t, k) = e
<1> DEFINE found == {e \in ToSet(Candidates(t, k)) : TextAt(t, e) = k}
<1>1. /\ found \subseteq DOMAIN t.heap
      /\ \A e \in DOMAIN t.heap : TextAt(t, e) = k => e \in found
  BY CandidatesAreRight
<1>2. FindElement(t, k) = IF found = {} THEN NULL ELSE CHOOSE e \in found : TRUE
  BY DEF FindElement
<1>3. NULL \notin DOMAIN t.heap
  BY HashAssumption DEF Whole, Partial, Shape
<1>4. \A e \in found : TextAt(t, e) = k
  OBVIOUS
<1> HIDE DEF found
<1>5. found # {} => FindElement(t, k) \in found
  BY <1>2
<1>6. \A e, f \in DOMAIN t.heap : TextAt(t, e) = TextAt(t, f) => e = f
  BY DEF Whole, KeysApart
<1> QED  BY <1>1, <1>2, <1>3, <1>4, <1>5, <1>6

-----------------------------------------------------------------------------
(***************************************************************************)
(* The inductive invariant holds at the beginning and after every call.    *)
(***************************************************************************)

(* An empty table is whole.                                                *)
LEMMA EmptyWhole ==
  ASSUME NEW type \in Types
  PROVE  Whole(EmptyTable(type), << >>, 0)
<1> DEFINE v == EmptyTable(type)
<1>1. /\ v.first = NULL /\ v.count = 0 /\ v.htsize = 0 /\ v.eDictType = type
      /\ v.ht = [h \in 0 .. -1 |-> [count |-> 0, chain |-> NULL]] /\ v.heap = [e \in {} |-> NULL]
      /\ v = [first |-> v.first, count |-> v.count, htsize |-> v.htsize, ht |-> v.ht,
              heap |-> v.heap, eDictType |-> v.eDictType]
  BY DEF EmptyTable, NoBuckets
<1> HIDE DEF v
<1>2. Shape(v)
  <2>1. v.ht \in [0 .. v.htsize - 1 -> Entry] /\ v.heap \in [DOMAIN v.heap -> HashElem]
        /\ DOMAIN v.heap = {}
    BY <1>1
  <2>2. v.first \in Elem \cup {NULL} /\ v.count \in Nat /\ v.htsize \in Nat /\ v.eDictType \in Types
    BY <1>1
  <2> QED  BY <1>1, <2>1, <2>2 DEF Shape
<1>3. Listed(v, << >>, 0)
  BY <1>1 DEF Listed
<1>4. Bucketed(v, << >>, 0)
  BY <1>1 DEF Bucketed
<1>5. Covers(v, << >>, 0) /\ KeysApart(v)
  BY <1>1 DEF Covers, KeysApart
<1> QED  BY <1>1, <1>2, <1>3, <1>4, <1>5 DEF Whole, Partial, v

(* The invariant holds initially.                                          *)
LEMMA InitIInv == Init => IInv
<1> SUFFICES ASSUME Init PROVE IInv
  OBVIOUS
<1>1. PICK type \in Types : self = EmptyTable(type)
  BY DEF Init
<1>2. Whole(self, << >>, 0)
  BY <1>1, EmptyWhole
<1>3. released \in Seq(Data \cup Ptr)
  BY DEF Init
<1> QED  BY <1>2, <1>3 DEF IInv

(* Without one of its elements a table is whole.                           *)
LEMMA UnlinkWhole ==
  ASSUME NEW t, NEW s, NEW n, Whole(t, s, n), NEW e \in DOMAIN t.heap
  PROVE  LET u == Unlink(t, e)
         IN  /\ \E r : Whole(u, r, n - 1)
             /\ DOMAIN u.heap = DOMAIN t.heap \ {e} /\ u.eDictType = t.eDictType
             /\ \A x \in DOMAIN u.heap :
                  u.heap[x].key = t.heap[x].key /\ u.heap[x].data = t.heap[x].data
<1>1. PICK p \in 1 .. n : s[p] = e
  BY DEF Whole, Covers
<1>2. n \in Nat /\ t.count > 0 /\ t.count = n /\ Partial(t, s, n)
  <2>1. n \in Nat /\ t.count = n /\ Partial(t, s, n)
    BY DEF Whole, Partial, Listed
  <2> QED  BY <1>1, <2>1
<1>3. PICK u : u = Unlink(t, e)
  OBVIOUS
<1>4. Unlinked(t, s, n, p, u)
  BY <1>1, <1>2, <1>3, UnlinkFields
<1>5. /\ DOMAIN u.heap = DOMAIN t.heap \ {e}
      /\ u.htsize = t.htsize /\ u.count = t.count - 1 /\ u.eDictType = t.eDictType
      /\ \A x \in DOMAIN u.heap :
           u.heap[x].key = t.heap[x].key /\ u.heap[x].data = t.heap[x].data
  BY <1>1, <1>4 DEF Unlinked
<1>6. PICK r : /\ Partial(u, r, n - 1)
               /\ \A i \in 1 .. n : i # p => \E j \in 1 .. n - 1 : r[j] = s[i]
  BY <1>2, <1>4, UnlinkPartial
<1>7. Covers(u, r, n - 1)
  <2> SUFFICES ASSUME NEW x \in DOMAIN u.heap PROVE \E j \in 1 .. n - 1 : r[j] = x
    BY DEF Covers
  <2>1. PICK i \in 1 .. n : s[i] = x
    BY <1>5 DEF Whole, Covers
  <2> QED  BY <1>1, <1>5, <1>6, <2>1
<1>8. KeysApart(u)
  <2>1. \A x \in DOMAIN u.heap : TextAt(u, x) = TextAt(t, x) /\ x \in DOMAIN t.heap
    BY <1>5 DEF TextAt
  <2>2. KeysApart(t)
    BY DEF Whole
  <2> QED  BY <1>5, <2>1, <2>2 DEF KeysApart
<1>9. u.count = n - 1 /\ (u.htsize = 0 \/ u.htsize >= GrowAt)
  BY <1>2, <1>5 DEF Whole
<1>10. Whole(u, r, n - 1)
  BY <1>6, <1>7, <1>8, <1>9 DEF Whole
<1> QED  BY <1>3, <1>5, <1>10

(* The element e with another key and another datum.                       *)
Replaced(t, e, p, d) == [t EXCEPT !.heap[e].data = d, !.heap[e].key = p]

(* Nothing but the key and the datum of e is changed.                      *)
Rewritten(t, s, n, e, p, d, u) ==
  /\ Whole(u, s, n)
  /\ DOMAIN u.heap = DOMAIN t.heap /\ u.eDictType = t.eDictType
  /\ \A x \in DOMAIN t.heap :
       /\ u.heap[x].key = IF x = e THEN p ELSE t.heap[x].key
       /\ u.heap[x].data = IF x = e THEN d ELSE t.heap[x].data

(* A table is whole when a key or a datum is replaced.                     *)
LEMMA ReplaceWhole ==
  ASSUME NEW t, NEW s, NEW n, Whole(t, s, n), NEW e \in DOMAIN t.heap,
         NEW p \in Ptr, TextOf[p] = TextAt(t, e), NEW d \in DataFor[TextOf[p]], d \in Data
  PROVE  Rewritten(t, s, n, e, p, d, Replaced(t, e, p, d))
<1>0. PICK u : u = Replaced(t, e, p, d)
  OBVIOUS
<1> DEFINE heap2 == [t.heap EXCEPT ![e].data = d, ![e].key = p]
<1>1. Partial(t, s, n) /\ Shape(t) /\ Listed(t, s, n) /\ Bucketed(t, s, n) /\ Covers(t, s, n) /\ KeysApart(t)
  BY DEF Whole, Partial
<1>2. t.heap \in [DOMAIN t.heap -> HashElem]
  BY <1>1 DEF Shape
<1>3. u = [t EXCEPT !.heap = heap2]
  BY <1>0, <1>1, <1>2 DEF Shape, Replaced
<1>4. heap2 \in [DOMAIN t.heap -> HashElem]
      /\ \A x \in DOMAIN t.heap :
           /\ heap2[x].next = t.heap[x].next /\ heap2[x].prev = t.heap[x].prev
           /\ heap2[x].key = IF x = e THEN p ELSE t.heap[x].key
           /\ heap2[x].data = IF x = e THEN d ELSE t.heap[x].data
  BY <1>2 DEF HashElem
<1> HIDE DEF heap2
<1>5. /\ u.first = t.first /\ u.count = t.count /\ u.htsize = t.htsize /\ u.ht = t.ht
      /\ u.eDictType = t.eDictType /\ u.heap = heap2
  BY <1>1, <1>3 DEF Shape
<1>6. Shape(u)
  <2>1. u \in [first : Elem \cup {NULL}, count : Nat, htsize : Nat,
               ht : [0 .. t.htsize - 1 -> Entry], heap : [DOMAIN t.heap -> HashElem],
               eDictType : Types]
    BY <1>1, <1>3, <1>4 DEF Shape
  <2>2. DOMAIN heap2 = DOMAIN t.heap /\ DOMAIN t.heap \subseteq Elem
    BY <1>1, <1>4 DEF Shape
  <2> QED  BY <1>5, <2>1, <2>2 DEF Shape
<1>7. DOMAIN u.heap = DOMAIN t.heap
      /\ \A x \in DOMAIN t.heap :
           /\ u.heap[x].next = t.heap[x].next /\ u.heap[x].prev = t.heap[x].prev
           /\ u.heap[x].key = IF x = e THEN p ELSE t.heap[x].key
           /\ u.heap[x].data = IF x = e THEN d ELSE t.heap[x].data
  BY <1>4, <1>5
<1>8. Listed(u, s, n)
  <2>1. n \in Nat /\ s \in [1 .. n -> DOMAIN t.heap] /\ \A i \in 1 .. n : s[i] \in DOMAIN t.heap
    BY <1>1 DEF Listed
  <2>2. /\ \A i \in 1 .. n : u.heap[s[i]].next = t.heap[s[i]].next
        /\ \A i \in 1 .. n : u.heap[s[i]].prev = t.heap[s[i]].prev
    BY <1>7, <2>1
  <2> QED  BY ONLY <1>1, <1>5, <1>7, <2>1, <2>2 DEF Listed
<1>9. \A x \in DOMAIN t.heap : TextAt(u, x) = TextAt(t, x)
  BY <1>7 DEF TextAt
<1>10. Bucketed(u, s, n)
  <2>1. \A i \in 1 .. n : BucketOf(u, s[i]) = BucketOf(t, s[i])
    <3>1. \A i \in 1 .. n : s[i] \in DOMAIN t.heap
      BY <1>1 DEF Listed
    <3> QED  BY <1>5, <1>9, <3>1 DEF BucketOf, Bucket
  <2>2. \A h, a : RunsFrom(t, s, n, h, a) => RunsFrom(u, s, n, h, a)
    BY <1>5, <2>1 DEF RunsFrom
  <2> QED  BY <1>1, <1>5, <2>2 DEF Bucketed
<1>11. KeysApart(u)
  <2>1. \A x \in DOMAIN t.heap : u.heap[x].data \in DataFor[TextAt(t, x)]
    BY <1>1, <1>7 DEF KeysApart
  <2>2. \A x, y \in DOMAIN t.heap : TextAt(t, x) = TextAt(t, y) => x = y
    BY <1>1 DEF KeysApart
  <2> QED  BY <1>7, <1>9, <2>1, <2>2 DEF KeysApart
<1>12. Covers(u, s, n)
  BY <1>1, <1>7 DEF Covers
<1>13. Whole(u, s, n)
  BY <1>5, <1>6, <1>8, <1>10, <1>11, <1>12 DEF Whole, Partial
<1>14. Rewritten(t, s, n, e, p, d, u)
  BY <1>5, <1>7, <1>13 DEF Rewritten
<1> QED  BY <1>0, <1>14

(* Memory for one more element does not disturb the list.                  *)
LEMMA ExtendPartial ==
  ASSUME NEW t, NEW s, NEW n, Partial(t, s, n), NEW e \in Elem \ DOMAIN t.heap, NEW new \in HashElem,
         NEW v, v = [t EXCEPT !.heap = [x \in DOMAIN t.heap \cup {e} |-> IF x = e THEN new ELSE t.heap[x]]]
  PROVE  /\ Partial(v, s, n)
         /\ v.count = t.count /\ v.htsize = t.htsize /\ v.eDictType = t.eDictType
         /\ DOMAIN v.heap = DOMAIN t.heap \cup {e} /\ v.heap[e] = new
         /\ \A x \in DOMAIN t.heap : v.heap[x] = t.heap[x]
<1> DEFINE heap2 == [x \in DOMAIN t.heap \cup {e} |-> IF x = e THEN new ELSE t.heap[x]]
<1>1. Shape(t) /\ Listed(t, s, n) /\ Bucketed(t, s, n)
  BY DEF Partial
<1>2. t.heap \in [DOMAIN t.heap -> HashElem] /\ DOMAIN t.heap \subseteq Elem
  BY <1>1 DEF Shape
<1>3. /\ heap2 \in [DOMAIN t.heap \cup {e} -> HashElem] /\ DOMAIN heap2 = DOMAIN t.heap \cup {e}
      /\ heap2[e] = new /\ \A x \in DOMAIN t.heap : heap2[x] = t.heap[x]
  BY <1>2
<1>4. v = [t EXCEPT !.heap = heap2]
  OBVIOUS
<1> HIDE DEF heap2
<1>5. /\ v.first = t.first /\ v.count = t.count /\ v.htsize = t.htsize /\ v.ht = t.ht
      /\ v.eDictType = t.eDictType /\ v.heap = heap2
  BY <1>1, <1>4 DEF Shape
<1>6. Shape(v)
  <2>1. v \in [first : Elem \cup {NULL}, count : Nat, htsize : Nat,
               ht : [0 .. t.htsize - 1 -> Entry], heap : [DOMAIN t.heap \cup {e} -> HashElem],
               eDictType : Types]
    BY <1>1, <1>3, <1>4 DEF Shape
  <2> QED  BY <1>2, <1>3, <1>5, <2>1 DEF Shape
<1>7. \A i \in 1 .. n : s[i] \in DOMAIN t.heap /\ v.heap[s[i]] = t.heap[s[i]]
  BY <1>1, <1>3, <1>5 DEF Listed
<1>8. Listed(v, s, n)
  <2>1. s \in [1 .. n -> DOMAIN v.heap]
    BY <1>1, <1>3, <1>5 DEF Listed
  <2> QED  BY <1>1, <1>5, <1>7, <2>1 DEF Listed
<1>9. Bucketed(v, s, n)
  <2>1. \A i \in 1 .. n : BucketOf(v, s[i]) = BucketOf(t, s[i])
    <3>1. \A x \in DOMAIN t.heap : TextAt(v, x) = TextAt(t, x)
      BY <1>3, <1>5 DEF TextAt
    <3> QED  BY <1>5, <1>7, <3>1 DEF BucketOf, Bucket
  <2>2. \A h, a : RunsFrom(t, s, n, h, a) => RunsFrom(v, s, n, h, a)
    BY <1>5, <2>1 DEF RunsFrom
  <2> QED  BY <1>1, <1>5, <2>2 DEF Bucketed
<1> QED  BY <1>3, <1>5, <1>6, <1>8, <1>9 DEF Partial

(* The tables to which Add adds an element.                                *)
Grown(t) ==
  LET n == t.count + 1
      u == [t EXCEPT !.count = n]
  IN  IF n >= GrowAt /\ n > PerBucket * t.htsize
        THEN {u} \cup {Rehash(u, size) : size \in Room(2 * n)} ELSE {u}

(* They have the elements of t on their list, and count one more.          *)
LEMMA GrownPartial ==
  ASSUME NEW t, NEW s, NEW n, Whole(t, s, n), NEW u \in Grown(t)
  PROVE  /\ u.count = n + 1 /\ (u.htsize = 0 \/ u.htsize >= GrowAt) /\ u.eDictType = t.eDictType
         /\ SameElements(t, u)
         /\ \E r : Partial(u, r, n) /\ Covers(u, r, n)
<1> DEFINE w == [t EXCEPT !.count = t.count + 1]
<1>1. /\ Shape(t) /\ Listed(t, s, n) /\ Bucketed(t, s, n) /\ Covers(t, s, n)
      /\ t.count = n /\ n \in Nat /\ (t.htsize = 0 \/ t.htsize >= GrowAt)
  BY DEF Whole, Partial, Listed
<1>2. /\ w.first = t.first /\ w.count = n + 1 /\ w.htsize = t.htsize /\ w.ht = t.ht
      /\ w.eDictType = t.eDictType /\ w.heap = t.heap
  BY <1>1 DEF Shape
<1>3. Shape(w)
  <2>1. w \in [first : Elem \cup {NULL}, count : Nat, htsize : Nat,
               ht : [0 .. t.htsize - 1 -> Entry], heap : [DOMAIN t.heap -> HashElem],
               eDictType : Types]
    BY <1>1 DEF Shape
  <2>2. DOMAIN t.heap \subseteq Elem
    BY <1>1 DEF Shape
  <2> QED  BY <1>2, <2>1, <2>2 DEF Shape
<1>4. Grown(t) = IF n + 1 >= GrowAt /\ n + 1 > PerBucket * t.htsize
                   THEN {w} \cup {Rehash(w, size) : size \in Room(2 * (n + 1))} ELSE {w}
  BY <1>1 DEF Grown
<1> HIDE DEF w
<1>5. Listed(w, s, n) /\ Covers(w, s, n)
  BY <1>1, <1>2 DEF Listed, Covers
<1>6. Bucketed(w, s, n)
  <2>1. \A x : BucketOf(w, x) = BucketOf(t, x)
    BY <1>2 DEF BucketOf, Bucket, TextAt
  <2>2. \A h, a : RunsFrom(t, s, n, h, a) => RunsFrom(w, s, n, h, a)
    BY <1>2, <2>1 DEF RunsFrom
  <2> QED  BY <1>1, <1>2, <2>2 DEF Bucketed
<1>7. Partial(w, s, n)
  BY <1>3, <1>5, <1>6 DEF Partial
<1>8. CASE u = w
  <2>1. SameElements(t, u)
    BY <1>2, <1>8 DEF SameElements
  <2> QED  BY <1>1, <1>2, <1>5, <1>7, <1>8, <2>1
<1>9. ASSUME NEW size \in Room(2 * (n + 1)), u = Rehash(w, size), n + 1 >= GrowAt
      PROVE  /\ u.count = n + 1 /\ (u.htsize = 0 \/ u.htsize >= GrowAt) /\ u.eDictType = t.eDictType
             /\ SameElements(t, u)
             /\ \E r : Partial(u, r, n) /\ Covers(u, r, n)
  <2>1. size \in Nat /\ size >= GrowAt
    BY <1>1, <1>9, HashAssumption DEF Room
  <2>2. /\ u.count = w.count /\ u.htsize = size /\ u.eDictType = w.eDictType
        /\ SameElements(w, u)
        /\ \E r : Partial(u, r, n) /\ Covers(u, r, n)
    BY <1>5, <1>7, <1>9, <2>1, RehashWhole
  <2>3. SameElements(t, u)
    BY <1>2, <2>2 DEF SameElements
  <2> QED  BY <1>2, <2>1, <2>2, <2>3
<1> QED  BY <1>4, <1>8, <1>9

(* The table with memory for the element e.                                *)
Extended(u, e, p, d) ==
  [u EXCEPT !.heap = [x \in DOMAIN u.heap \cup {e} |->
                       IF x = e THEN [next |-> NULL, prev |-> NULL, key |-> p, data |-> d]
                       ELSE u.heap[x]]]

(* A table is whole when an element with a key it did not have is linked.  *)
LEMMA AddWhole ==
  ASSUME NEW t, NEW s, NEW n, Whole(t, s, n), NEW u \in Grown(t), NEW e \in Elem \ DOMAIN t.heap,
         NEW p \in Ptr, \A x \in DOMAIN t.heap : TextAt(t, x) # TextOf[p],
         NEW d \in DataFor[TextOf[p]], d \in Data,
         NEW w, w = InsertElement(Extended(u, e, p, d), e, TextOf[p])
  PROVE  /\ \E r : Whole(w, r, n + 1)
         /\ DOMAIN w.heap = DOMAIN t.heap \cup {e} /\ w.eDictType = t.eDictType
         /\ w.heap[e].key = p /\ w.heap[e].data = d
         /\ \A x \in DOMAIN t.heap :
              w.heap[x].key = t.heap[x].key /\ w.heap[x].data = t.heap[x].data
<1>1. /\ u.count = n + 1 /\ (u.htsize = 0 \/ u.htsize >= GrowAt) /\ u.eDictType = t.eDictType
      /\ SameElements(t, u)
  BY GrownPartial
<1>2. PICK q : Partial(u, q, n) /\ Covers(u, q, n)
  BY GrownPartial
<1>3. DOMAIN u.heap = DOMAIN t.heap /\ e \in Elem \ DOMAIN u.heap
  BY <1>1 DEF SameElements
<1>4. PICK new \in HashElem : new = [next |-> NULL, prev |-> NULL, key |-> p, data |-> d]
  BY DEF HashElem
<1>A. new.key = p /\ new.data = d
  BY <1>4
<1>B. PICK v : v = Extended(u, e, p, d)
  OBVIOUS
<1>C. v = [u EXCEPT !.heap = [x \in DOMAIN u.heap \cup {e} |-> IF x = e THEN new ELSE u.heap[x]]]
  BY <1>4, <1>B DEF Extended
<1>5. /\ Partial(v, q, n)
      /\ v.count = u.count /\ v.htsize = u.htsize /\ v.eDictType = u.eDictType
      /\ DOMAIN v.heap = DOMAIN u.heap \cup {e} /\ v.heap[e] = new
      /\ \A x \in DOMAIN u.heap : v.heap[x] = u.heap[x]
  BY <1>2, <1>3, <1>C, ExtendPartial
<1>6. e \in DOMAIN v.heap /\ TextAt(v, e) = TextOf[p]
  BY <1>A, <1>5 DEF TextAt
<1>7. \A i \in 1 .. n : q[i] # e
  <2>1. \A i \in 1 .. n : q[i] \in DOMAIN u.heap
    BY <1>2 DEF Partial, Listed
  <2> QED  BY <1>3, <2>1
<1>8. Added(v, q, n, e, w)
  <2>1. w = InsertElement(v, e, TextAt(v, e))
    BY <1>B, <1>6
  <2>2. Partial(v, q, n) /\ e \in DOMAIN v.heap
    BY <1>5, <1>6
  <2>3. Added(v, q, n, e, InsertElement(v, e, TextAt(v, e)))
    BY <1>7, <2>2, InsertPartial
  <2> QED  BY ONLY <2>1, <2>3
<1>9. PICK r : /\ Partial(w, r, n + 1)
               /\ \A x : (\E i \in 1 .. n + 1 : r[i] = x) <=> (x = e \/ \E i \in 1 .. n : q[i] = x)
  BY <1>8 DEF Added
<1>10. /\ w.count = n + 1 /\ (w.htsize = 0 \/ w.htsize >= GrowAt) /\ w.eDictType = t.eDictType
       /\ DOMAIN w.heap = DOMAIN t.heap \cup {e}
  BY <1>1, <1>3, <1>5, <1>8 DEF Added, SameElements
<1>11. w.heap[e].key = p /\ w.heap[e].data = d
  <2>1. w.heap[e].key = v.heap[e].key /\ w.heap[e].data = v.heap[e].data
    BY ONLY <1>6, <1>8 DEF Added, SameElements
  <2> QED  BY ONLY <1>A, <1>5, <2>1
<1>12. \A x \in DOMAIN t.heap :
         w.heap[x].key = t.heap[x].key /\ w.heap[x].data = t.heap[x].data
  <2> SUFFICES ASSUME NEW x \in DOMAIN t.heap
               PROVE  w.heap[x].key = t.heap[x].key /\ w.heap[x].data = t.heap[x].data
    OBVIOUS
  <2>1. x \in DOMAIN v.heap /\ v.heap[x] = u.heap[x]
    BY ONLY <1>3, <1>5, x \in DOMAIN t.heap
  <2>2. w.heap[x].key = v.heap[x].key /\ w.heap[x].data = v.heap[x].data
    BY ONLY <1>8, <2>1 DEF Added, SameElements
  <2>3. u.heap[x].key = t.heap[x].key /\ u.heap[x].data = t.heap[x].data
    BY ONLY <1>1, x \in DOMAIN t.heap DEF SameElements
  <2> QED  BY ONLY <2>1, <2>2, <2>3
<1>13. Covers(w, r, n + 1)
  BY <1>2, <1>3, <1>9, <1>10 DEF Covers
<1>14. KeysApart(w)
  <2>1. \A x \in DOMAIN t.heap : TextAt(w, x) = TextAt(t, x)
    BY <1>10, <1>12 DEF TextAt
  <2>2. TextAt(w, e) = TextOf[p]
    BY <1>10, <1>11 DEF TextAt
  <2>3. KeysApart(t)
    BY DEF Whole
  <2>4. \A x, y \in DOMAIN w.heap : TextAt(w, x) = TextAt(w, y) => x = y
    <3> SUFFICES ASSUME NEW x \in DOMAIN w.heap, NEW y \in DOMAIN w.heap,
                        TextAt(w, x) = TextAt(w, y)
                 PROVE  x = y
      OBVIOUS
    <3>1. CASE x \in DOMAIN t.heap /\ y \in DOMAIN t.heap
      BY <2>1, <2>3, <3>1 DEF KeysApart
    <3>2. CASE x = e /\ y \in DOMAIN t.heap
      BY <2>1, <2>2, <3>2
    <3>3. CASE x \in DOMAIN t.heap /\ y = e
      BY <2>1, <2>2, <3>3
    <3> QED  BY <1>10, <3>1, <3>2, <3>3
  <2>5. \A x \in DOMAIN w.heap : w.heap[x].data \in DataFor[TextAt(w, x)]
    BY <1>10, <1>11, <1>12, <2>1, <2>2, <2>3 DEF KeysApart
  <2> QED  BY <2>4, <2>5 DEF KeysApart
<1>15. Whole(w, r, n + 1)
  BY <1>9, <1>10, <1>13, <1>14 DEF Whole
<1> QED  BY <1>10, <1>11, <1>12, <1>15
(* u is t without the element e.                                           *)
Removed(t, e, u) ==
  /\ \E n, s : Whole(u, s, n)
  /\ u.eDictType = t.eDictType
  /\ DOMAIN u.heap = DOMAIN t.heap \ {e}
  /\ \A x \in DOMAIN u.heap :
       u.heap[x].key = t.heap[x].key /\ u.heap[x].data = t.heap[x].data

(* In u the element e has the key p and the datum d; the others are those  *)
(* of t.                                                                   *)
Holds(t, e, p, d, u) ==
  /\ \E n, s : Whole(u, s, n)
  /\ u.eDictType = t.eDictType
  /\ DOMAIN u.heap = DOMAIN t.heap \cup {e}
  /\ u.heap[e].key = p /\ u.heap[e].data = d
  /\ \A x \in DOMAIN t.heap \ {e} :
       u.heap[x].key = t.heap[x].key /\ u.heap[x].data = t.heap[x].data

(* What remains after RemoveElement.                                       *)
LEMMA RemoveWhole ==
  ASSUME NEW t, NEW s, NEW n, Whole(t, s, n), NEW e \in DOMAIN t.heap,
         NEW u, u = IF t.count = 1 THEN EmptyTable(t.eDictType) ELSE Unlink(t, e)
  PROVE  Removed(t, e, u)
<1>1. CASE t.count = 1
  <2>1. n = 1 /\ t.eDictType \in Types
    BY <1>1 DEF Whole, Partial, Shape
  <2>2. DOMAIN t.heap = {e}
    <3>1. \A x \in DOMAIN t.heap : \E i \in 1 .. n : s[i] = x
      BY DEF Whole, Covers
    <3> QED  BY <2>1, <3>1
  <2>3. u = EmptyTable(t.eDictType)
    BY <1>1
  <2>4. Whole(u, << >>, 0)
    BY <2>1, <2>3, EmptyWhole
  <2>5. u.eDictType = t.eDictType /\ DOMAIN u.heap = {}
    BY <2>3 DEF EmptyTable
  <2> QED  BY <2>2, <2>4, <2>5 DEF Removed
<1>2. CASE t.count # 1
  <2>1. u = Unlink(t, e)
    BY <1>2
  <2>2. /\ \E r : Whole(u, r, n - 1)
        /\ DOMAIN u.heap = DOMAIN t.heap \ {e} /\ u.eDictType = t.eDictType
        /\ \A x \in DOMAIN u.heap :
             u.heap[x].key = t.heap[x].key /\ u.heap[x].data = t.heap[x].data
    BY <2>1, UnlinkWhole
  <2> QED  BY <2>2 DEF Removed
<1> QED  BY <1>1, <1>2

(* What is there after Replace.                                            *)
LEMMA ReplaceHolds ==
  ASSUME NEW t, NEW s, NEW n, Whole(t, s, n), NEW e \in DOMAIN t.heap,
         NEW p \in Ptr, TextOf[p] = TextAt(t, e), NEW d \in DataFor[TextOf[p]]
  PROVE  Holds(t, e, p, d, Replaced(t, e, p, d))
<1>1. d \in Data
  BY HashAssumption
<1>2. PICK u : u = Replaced(t, e, p, d)
  OBVIOUS
<1>3. Rewritten(t, s, n, e, p, d, u)
  BY <1>1, <1>2, ReplaceWhole
<1>4. Holds(t, e, p, d, u)
  BY ONLY <1>3, e \in DOMAIN t.heap DEF Rewritten, Holds
<1> QED  BY <1>2, <1>4

(* What is there after Add.                                                *)
LEMMA AddHolds ==
  ASSUME NEW t, NEW s, NEW n, Whole(t, s, n), NEW e \in Elem \ DOMAIN t.heap,
         NEW p \in Ptr, \A x \in DOMAIN t.heap : TextAt(t, x) # TextOf[p],
         NEW d \in DataFor[TextOf[p]], NEW u \in Grown(t)
  PROVE  Holds(t, e, p, d, InsertElement(Extended(u, e, p, d), e, TextOf[p]))
<1>1. d \in Data
  BY HashAssumption
<1>2. PICK w : w = InsertElement(Extended(u, e, p, d), e, TextOf[p])
  OBVIOUS
<1>3. \E r : Whole(w, r, n + 1)
  BY <1>1, <1>2, AddWhole
<1>4. /\ DOMAIN w.heap = DOMAIN t.heap \cup {e} /\ w.eDictType = t.eDictType
      /\ w.heap[e].key = p /\ w.heap[e].data = d
      /\ \A x \in DOMAIN t.heap :
           w.heap[x].key = t.heap[x].key /\ w.heap[x].data = t.heap[x].data
  BY <1>1, <1>2, AddWhole
<1>5. Holds(t, e, p, d, w)
  BY ONLY <1>3, <1>4 DEF Holds
<1> QED  BY <1>2, <1>5

(* The keys that are passed are strings of callers.                        *)
LEMMA KeyArgsArePtr == KeyArgs \subseteq Ptr
<1>1. \A q \in Ptr : (CHOOSE p \in Ptr : TextOf[p] = TextOf[q]) \in Ptr
  OBVIOUS
<1> QED  BY <1>1 DEF KeyArgs
(* What HashTable_set does to a table that is whole.                       *)
LEMMA SetIsCall ==
  ASSUME NEW s, NEW n, Whole(self, s, n), NEW p \in Ptr, NEW d \in DataFor[TextOf[p]] \cup {NULL},
         Set(p, d)
  PROVE  \/ /\ self' = self /\ released' = << >>
            /\ d = NULL => FindElement(self, TextOf[p]) = NULL
         \/ /\ d = NULL /\ FindElement(self, TextOf[p]) # NULL
            /\ Removed(self, FindElement(self, TextOf[p]), self')
            /\ RemoveElement(FindElement(self, TextOf[p]))
         \/ /\ d # NULL /\ FindElement(self, TextOf[p]) # NULL
            /\ Holds(self, FindElement(self, TextOf[p]), p, d, self')
            /\ Replace(FindElement(self, TextOf[p]), p, d)
         \/ /\ d # NULL /\ FindElement(self, TextOf[p]) = NULL /\ released' = << >>
            /\ \E e \in Elem \ DOMAIN self.heap : Holds(self, e, p, d, self')
<1> DEFINE k == TextOf[p]
           e == FindElement(self, k)
<1>1. k \in Key /\ DataFor[k] \subseteq Data /\ NULL \notin DataFor[k]
  BY HashAssumption
<1>2. /\ e # NULL => e \in DOMAIN self.heap /\ TextAt(self, e) = k
      /\ e = NULL => \A x \in DOMAIN self.heap : TextAt(self, x) # k
  BY <1>1, FindRight
<1>3. CASE e # NULL /\ d = NULL /\ RemoveElement(e)
  <2>1. self' = IF self.count = 1 THEN EmptyTable(self.eDictType) ELSE Unlink(self, e)
    BY <1>3 DEF RemoveElement
  <2>2. Removed(self, e, self')
    BY <1>2, <1>3, <2>1, RemoveWhole
  <2> QED  BY <1>3, <2>2
<1>4. CASE e # NULL /\ d # NULL /\ Replace(e, p, d)
  <2>1. self' = Replaced(self, e, p, d)
    BY <1>4 DEF Replace, Replaced
  <2>2. Holds(self, e, p, d, Replaced(self, e, p, d))
    BY <1>2, <1>4, ReplaceHolds
  <2> QED  BY <1>4, <2>1, <2>2
<1>5. CASE e = NULL /\ d # NULL /\ Add(p, d)
  <2> DEFINE f == CHOOSE x \in Elem : x \notin DOMAIN self.heap
  <2>1. f \in Elem \ DOMAIN self.heap
    BY <1>5 DEF Add
  <2>2. PICK u \in Grown(self) : self' = InsertElement(Extended(u, f, p, d), f, TextOf[p])
    BY <1>5 DEF Add, Grown, Extended
  <2> HIDE DEF f
  <2>3. Holds(self, f, p, d, InsertElement(Extended(u, f, p, d), f, TextOf[p]))
    BY <1>2, <1>5, <2>1, AddHolds
  <2>4. released' = << >>
    BY <1>5 DEF Add
  <2> QED  BY <1>5, <2>1, <2>2, <2>3, <2>4
<1>6. CASE e = NULL /\ Ignore
  BY <1>6 DEF Ignore
<1> QED  BY <1>3, <1>4, <1>5, <1>6 DEF Set
(* HashTable_clear walks over the whole list and frees what is on it.      *)
LEMMA ClearFrees ==
  ASSUME NEW s, NEW n, Whole(self, s, n), Clear
  PROVE  /\ n \in Nat /\ self' = EmptyTable(self.eDictType)
         /\ self.eDictType = "DICT_STRING" =>
              released' = [i \in 1 .. 2 * n |-> IF i % 2 = 1 THEN self.heap[s[(i + 1) \div 2]].data
                                                ELSE self.heap[s[i \div 2]].key]
         /\ self.eDictType # "DICT_STRING" =>
              released' = [i \in 1 .. n |-> self.heap[s[i]].data]
<1> DEFINE walk == Run(self, self.first, Cardinality(DOMAIN self.heap))
<1>1. Shape(self) /\ Listed(self, s, n) /\ Covers(self, s, n) /\ n \in Nat
  BY DEF Whole, Partial, Listed
<1>2. walk = [i \in 1 .. n |-> s[i]]
  BY <1>1, RunOfAll
<1>3. Len(walk) = n /\ \A i \in 1 .. n : walk[i] = s[i]
  BY <1>1, <1>2
<1>4. /\ self' = EmptyTable(self.eDictType)
      /\ released' =
           IF self.eDictType = "DICT_STRING"
             THEN [i \in 1 .. 2 * Len(walk) |->
                     IF i % 2 = 1 THEN self.heap[walk[(i + 1) \div 2]].data
                                  ELSE self.heap[walk[i \div 2]].key]
             ELSE [i \in 1 .. Len(walk) |-> self.heap[walk[i]].data]
  BY DEF Clear
<1> HIDE DEF walk
<1>5. ASSUME NEW i \in 1 .. 2 * n
      PROVE  /\ i % 2 = 1 => (i + 1) \div 2 \in 1 .. n
             /\ i % 2 # 1 => i \div 2 \in 1 .. n
  BY <1>1
<1>6. [i \in 1 .. 2 * n |-> IF i % 2 = 1 THEN self.heap[walk[(i + 1) \div 2]].data
                            ELSE self.heap[walk[i \div 2]].key]
      = [i \in 1 .. 2 * n |-> IF i % 2 = 1 THEN self.heap[s[(i + 1) \div 2]].data
                              ELSE self.heap[s[i \div 2]].key]
  BY <1>3, <1>5
<1>7. [i \in 1 .. n |-> self.heap[walk[i]].data] = [i \in 1 .. n |-> self.heap[s[i]].data]
  BY <1>3
<1> QED  BY <1>1, <1>3, <1>4, <1>6, <1>7

(* The data and the keys of the elements are what callers passed.          *)
LEMMA ElementsOf ==
  ASSUME NEW t, NEW s, NEW n, Whole(t, s, n)
  PROVE  /\ t.eDictType \in Types
         /\ \A x \in DOMAIN t.heap : t.heap[x].data \in Data /\ t.heap[x].key \in Ptr
         /\ \A i \in 1 .. n : s[i] \in DOMAIN t.heap
         /\ \A i, j \in 1 .. n : s[i] = s[j] => i = j
         /\ \A x \in DOMAIN t.heap : \E i \in 1 .. n : s[i] = x
<1>1. Shape(t) /\ Listed(t, s, n) /\ Covers(t, s, n)
  BY DEF Whole, Partial
<1>2. t.heap \in [DOMAIN t.heap -> HashElem] /\ t.eDictType \in Types
  BY <1>1 DEF Shape
<1>3. \A x \in DOMAIN t.heap : t.heap[x].data \in Data /\ t.heap[x].key \in Ptr
  BY <1>2 DEF HashElem
<1> QED  BY <1>1, <1>2, <1>3 DEF Listed, Covers

(* Every call keeps the table whole.                                       *)
LEMMA NextIInv == IInv /\ [Next]_vars => IInv'
<1> SUFFICES ASSUME IInv, [Next]_vars PROVE IInv'
  OBVIOUS
<1>1. PICK n, s : Whole(self, s, n)
  BY DEF IInv
<1>2. /\ self.eDictType \in Types
      /\ \A x \in DOMAIN self.heap : self.heap[x].data \in Data /\ self.heap[x].key \in Ptr
  BY <1>1, ElementsOf
<1>3. ASSUME NEW x \in DOMAIN self.heap
      PROVE  /\ << >> \in Seq(Data \cup Ptr) /\ <<self.heap[x].data>> \in Seq(Data \cup Ptr)
             /\ FreeKey(self.heap[x].key) \in Seq(Data \cup Ptr)
  <2>1. \A a \in Data \cup Ptr : << >> \in Seq(Data \cup Ptr) /\ <<a>> \in Seq(Data \cup Ptr)
    OBVIOUS
  <2>2. self.heap[x].data \in Data \cup Ptr /\ self.heap[x].key \in Data \cup Ptr
    BY <1>2
  <2>3. FreeKey(self.heap[x].key) = <<self.heap[x].key>> \/ FreeKey(self.heap[x].key) = << >>
    BY DEF FreeKey
  <2> QED  BY ONLY <2>1, <2>2, <2>3
<1>4. CASE Clear
  <2>1. Whole(self', << >>, 0)
    BY <1>1, <1>2, <1>4, ClearFrees, EmptyWhole
  <2>2. released' \in Seq(Data \cup Ptr)
    <3>1. \A i \in 1 .. n : self.heap[s[i]].data \in Data /\ self.heap[s[i]].key \in Ptr
      BY <1>1, <1>2, ElementsOf
    <3>2. n \in Nat
      BY <1>1, <1>4, ClearFrees
    <3>3. CASE self.eDictType = "DICT_STRING"
      <4>1. released' = [i \in 1 .. 2 * n |-> IF i % 2 = 1 THEN self.heap[s[(i + 1) \div 2]].data
                                              ELSE self.heap[s[i \div 2]].key]
        BY <1>1, <1>4, <3>3, ClearFrees
      <4>2. ASSUME NEW i \in 1 .. 2 * n
            PROVE  (IF i % 2 = 1 THEN self.heap[s[(i + 1) \div 2]].data
                    ELSE self.heap[s[i \div 2]].key) \in Data \cup Ptr
        BY <3>1, <3>2
      <4>3. released' \in [1 .. 2 * n -> Data \cup Ptr] /\ 2 * n \in Nat
        BY <3>2, <4>1, <4>2
      <4> QED  BY ONLY <4>3
    <3>4. CASE self.eDictType # "DICT_STRING"
      <4>1. released' = [i \in 1 .. n |-> self.heap[s[i]].data]
        BY <1>1, <1>4, <3>4, ClearFrees
      <4>2. released' \in [1 .. n -> Data \cup Ptr]
        BY <3>1, <4>1
      <4> QED  BY ONLY <3>2, <4>2
    <3> QED  BY <3>3, <3>4
  <2> QED  BY <2>1, <2>2 DEF IInv
<1>5. ASSUME NEW p \in KeyArgs, NEW d \in DataFor[TextOf[p]] \cup {NULL}, Set(p, d)
      PROVE  IInv'
  <2> DEFINE e == FindElement(self, TextOf[p])
  <2>1. p \in Ptr /\ TextOf[p] \in Key
    BY KeyArgsArePtr, HashAssumption
  <2>2. e # NULL => e \in DOMAIN self.heap
    BY <1>1, <2>1, FindRight
  <2> HIDE DEF e
  <2>3. CASE self' = self /\ released' = << >>
    BY <1>1, <2>3 DEF IInv
  <2>4. CASE e # NULL /\ Removed(self, e, self') /\ RemoveElement(e)
    <3>1. released' \in Seq(Data \cup Ptr)
      <4>1. released' = <<self.heap[e].data>> \o FreeKey(self.heap[e].key)
        BY <2>4 DEF RemoveElement
      <4> QED  BY <1>3, <2>2, <2>4, <4>1
    <3> QED  BY <2>4, <3>1 DEF IInv, Removed
  <2>5. CASE e # NULL /\ Holds(self, e, p, d, self') /\ Replace(e, p, d)
    <3>1. released' \in Seq(Data \cup Ptr)
      <4>1. released' = (IF self.heap[e].data = d THEN <<>> ELSE <<self.heap[e].data>>)
                        \o (IF self.heap[e].key = p THEN <<>> ELSE FreeKey(self.heap[e].key))
        BY <2>5 DEF Replace
      <4>2. \A q, r \in Seq(Data \cup Ptr) : q \o r \in Seq(Data \cup Ptr)
        OBVIOUS
      <4>3. /\ << >> \in Seq(Data \cup Ptr) /\ <<self.heap[e].data>> \in Seq(Data \cup Ptr)
            /\ FreeKey(self.heap[e].key) \in Seq(Data \cup Ptr)
        BY <1>3, <2>2, <2>5
      <4> QED  BY ONLY <4>1, <4>2, <4>3
    <3> QED  BY <2>5, <3>1 DEF IInv, Holds
  <2>6. CASE released' = << >> /\ \E x \in Elem \ DOMAIN self.heap : Holds(self, x, p, d, self')
    BY <2>6 DEF IInv, Holds
  <2> QED  BY <1>1, <1>5, <2>1, <2>3, <2>4, <2>5, <2>6, SetIsCall DEF e
<1>6. CASE UNCHANGED vars
  BY <1>6 DEF IInv, vars
<1> QED  BY <1>4, <1>5, <1>6 DEF Next

-----------------------------------------------------------------------------
(***************************************************************************)
(* The theorems.                                                           *)
(***************************************************************************)

(* Whatever calls are made, the list holds exactly the elements, every     *)
(* bucket is a run of it, and no key is there twice.                       *)
THEOREM Invariant == Spec => []IInv
  BY InitIInv, NextIInv, PTL DEF Spec
(* The table is well formed, and it counts its elements.                   *)
THEOREM TypeCorrect == Spec => []TypeOK
<1>1. IInv => TypeOK
  <2> SUFFICES ASSUME IInv PROVE TypeOK
    OBVIOUS
  <2>1. PICK n, s : Whole(self, s, n)
    BY DEF IInv
  <2>2. /\ Shape(self) /\ Listed(self, s, n) /\ Covers(self, s, n) /\ self.count = n
        /\ (self.htsize = 0 \/ self.htsize >= GrowAt)
    BY <2>1 DEF Whole, Partial
  <2>3. self.count = Cardinality(DOMAIN self.heap)
    BY <2>2, ListLength
  <2>4. /\ self.eDictType \in Types /\ self.first \in Elem \cup {NULL}
        /\ DOMAIN self.heap \subseteq Elem /\ self.heap \in [DOMAIN self.heap -> HashElem]
        /\ self.htsize \in Nat /\ self.ht \in [0 .. self.htsize - 1 -> Entry]
    BY <2>2 DEF Shape
  <2>5. self.htsize \in {0} \cup {m \in Nat : m >= GrowAt}
    BY <2>2, <2>4
  <2>6. \A h \in DOMAIN self.ht : self.ht[h].count \in Nat
    BY <2>4 DEF Entry
  <2> QED  BY <2>3, <2>4, <2>5, <2>6 DEF IInv, TypeOK
<1> QED  BY <1>1, Invariant, PTL

(* HashTable_each visits every element of the table once, and finds every  *)
(* element's predecessor where prev says; no key is in the table twice.    *)
THEOREM EachVisitsAll == Spec => []ListIsWhole
<1>1. IInv => ListIsWhole
  <2> SUFFICES ASSUME IInv PROVE ListIsWhole
    OBVIOUS
  <2>1. PICK n, s : Whole(self, s, n)
    BY DEF IInv
  <2>2. /\ Shape(self) /\ Listed(self, s, n) /\ Covers(self, s, n) /\ self.count = n
        /\ KeysApart(self)
    BY <2>1 DEF Whole, Partial
  <2>3. Walk = [i \in 1 .. n |-> s[i]]
    BY <2>2, RunOfAll DEF Walk
  <2>4. n \in Nat /\ DOMAIN Walk = 1 .. n /\ \A i \in 1 .. n : Walk[i] = s[i]
    BY <2>2, <2>3 DEF Listed
  <2>5. ToSet(Walk) = DOMAIN self.heap
    <3>1. ToSet(Walk) = {s[i] : i \in 1 .. n}
      BY <2>4 DEF ToSet
    <3> QED  BY <2>2, <3>1 DEF Listed, Covers
  <2>6. \A i, j \in DOMAIN Walk : i # j => TextAt(self, Walk[i]) # TextAt(self, Walk[j])
    <3>1. \A i, j \in 1 .. n : i # j => s[i] # s[j]
      BY <2>2 DEF Listed
    <3>2. \A i \in 1 .. n : s[i] \in DOMAIN self.heap
      BY <2>2 DEF Listed
    <3>3. \A x, y \in DOMAIN self.heap : TextAt(self, x) = TextAt(self, y) => x = y
      BY <2>2 DEF KeysApart
    <3> QED  BY <2>4, <3>1, <3>2, <3>3
  <2>7. \A i \in DOMAIN Walk : self.heap[Walk[i]].prev = IF i = 1 THEN NULL ELSE Walk[i - 1]
    <3>1. \A i \in 1 .. n : self.heap[s[i]].prev = IF i = 1 THEN NULL ELSE s[i - 1]
      BY <2>2 DEF Listed
    <3>2. \A i \in 1 .. n : i = 1 \/ i - 1 \in 1 .. n
      BY <2>4
    <3> QED  BY <2>4, <3>1, <3>2
  <2> QED  BY <2>5, <2>6, <2>7 DEF ListIsWhole
<1> QED  BY <1>1, Invariant, PTL

(* Each bucket is a run of the list: the elements whose keys hash to it.   *)
THEOREM BucketsHoldTheirOwn == Spec => []BucketsAreRuns
<1>1. IInv => BucketsAreRuns
  <2> SUFFICES ASSUME IInv PROVE BucketsAreRuns
    OBVIOUS
  <2>1. PICK n, s : Whole(self, s, n)
    BY DEF IInv
  <2>2. Partial(self, s, n) /\ Covers(self, s, n)
    BY <2>1 DEF Whole
  <2>3. ASSUME NEW h \in DOMAIN self.ht
        PROVE  ToSet(Run(self, self.ht[h].chain, self.ht[h].count))
                 = {e \in DOMAIN self.heap : BucketOf(self, e) = h}
    BY <2>2, BucketRun
  <2> QED  BY <2>3 DEF BucketsAreRuns, BucketOf
<1> QED  BY <1>1, Invariant, PTL

-----------------------------------------------------------------------------
(***************************************************************************)
(* The hash table is a dictionary.                                         *)
(***************************************************************************)

(* HashTable_get returns the datum of the element with the key, and NULL   *)
(* when there is none.                                                     *)
LEMMA GetRight ==
  ASSUME NEW t, NEW s, NEW n, Whole(t, s, n), NEW k \in Key
  PROVE  /\ \A e \in DOMAIN t.heap : TextAt(t, e) = k => Get(t, k) = t.heap[e].data
         /\ (\A e \in DOMAIN t.heap : TextAt(t, e) # k) => Get(t, k) = NULL
<1>1. /\ FindElement(t, k) # NULL =>
           FindElement(t, k) \in DOMAIN t.heap /\ TextAt(t, FindElement(t, k)) = k
      /\ \A e \in DOMAIN t.heap : TextAt(t, e) = k => FindElement(t, k) = e
  BY FindRight
<1>2. NULL \notin DOMAIN t.heap
  BY HashAssumption DEF Whole, Partial, Shape
<1> QED  BY <1>1, <1>2 DEF Get, Datum

(* Without an element nothing is found under its key, and what was under   *)
(* any other.                                                              *)
LEMMA RemovedGet ==
  ASSUME NEW t, NEW s, NEW n, Whole(t, s, n), NEW e \in DOMAIN t.heap,
         NEW u, Removed(t, e, u), NEW k \in Key
  PROVE  Get(u, k) = IF k = TextAt(t, e) THEN NULL ELSE Get(t, k)
<1>1. PICK m, r : Whole(u, r, m)
  BY DEF Removed
<1>2. DOMAIN u.heap = DOMAIN t.heap \ {e}
      /\ \A x \in DOMAIN u.heap : TextAt(u, x) = TextAt(t, x) /\ u.heap[x].data = t.heap[x].data
  BY DEF Removed, TextAt
<1>3. \A x, y \in DOMAIN t.heap : TextAt(t, x) = TextAt(t, y) => x = y
  BY DEF Whole, KeysApart
<1>4. CASE k = TextAt(t, e)
  <2>1. \A x \in DOMAIN u.heap : TextAt(u, x) # k
    BY <1>2, <1>3, <1>4
  <2> QED  BY <1>1, <1>4, <2>1, GetRight
<1>5. CASE k # TextAt(t, e) /\ \A x \in DOMAIN t.heap : TextAt(t, x) # k
  <2>1. \A x \in DOMAIN u.heap : TextAt(u, x) # k
    BY <1>2, <1>5
  <2>2. Get(u, k) = NULL /\ Get(t, k) = NULL
    BY <1>1, <1>5, <2>1, GetRight
  <2> QED  BY <1>5, <2>2
<1>6. ASSUME NEW x \in DOMAIN t.heap, TextAt(t, x) = k, k # TextAt(t, e)
      PROVE  Get(u, k) = Get(t, k)
  <2>1. x \in DOMAIN u.heap /\ TextAt(u, x) = k /\ u.heap[x].data = t.heap[x].data
    BY <1>2, <1>6
  <2>2. Get(u, k) = u.heap[x].data
    BY <1>1, <2>1, GetRight
  <2>3. Get(t, k) = t.heap[x].data
    BY <1>6, GetRight
  <2> QED  BY <2>1, <2>2, <2>3
<1> QED  BY <1>4, <1>5, <1>6

(* With an element its datum is found under its key.                       *)
LEMMA HoldsGet ==
  ASSUME NEW t, NEW s, NEW n, Whole(t, s, n), NEW e, NEW p, NEW d, NEW u,
         Holds(t, e, p, d, u),
         \A x \in DOMAIN t.heap : TextAt(t, x) = TextOf[p] => x = e,
         e \in DOMAIN t.heap => TextAt(t, e) = TextOf[p], NEW k \in Key
  PROVE  Get(u, k) = IF k = TextOf[p] THEN d ELSE Get(t, k)
<1>1. PICK m, r : Whole(u, r, m)
  BY DEF Holds
<1>2. /\ DOMAIN u.heap = DOMAIN t.heap \cup {e}
      /\ TextAt(u, e) = TextOf[p] /\ u.heap[e].data = d
      /\ \A x \in DOMAIN t.heap \ {e} : TextAt(u, x) = TextAt(t, x) /\ u.heap[x].data = t.heap[x].data
  BY DEF Holds, TextAt
<1>3. CASE k = TextOf[p]
  <2>1. e \in DOMAIN u.heap /\ TextAt(u, e) = k
    BY <1>2, <1>3
  <2>2. Get(u, k) = u.heap[e].data
    BY <1>1, <2>1, GetRight
  <2> QED  BY <1>2, <1>3, <2>2
<1>4. CASE k # TextOf[p] /\ \A x \in DOMAIN t.heap : TextAt(t, x) # k
  <2>1. \A x \in DOMAIN u.heap : TextAt(u, x) # k
    BY <1>2, <1>4
  <2>2. Get(u, k) = NULL /\ Get(t, k) = NULL
    BY <1>1, <1>4, <2>1, GetRight
  <2> QED  BY <1>4, <2>2
<1>5. ASSUME NEW x \in DOMAIN t.heap, TextAt(t, x) = k, k # TextOf[p]
      PROVE  Get(u, k) = Get(t, k)
  <2>1. x # e /\ x \in DOMAIN u.heap /\ TextAt(u, x) = k /\ u.heap[x].data = t.heap[x].data
    BY <1>2, <1>5
  <2>2. Get(u, k) = u.heap[x].data
    BY <1>1, <2>1, GetRight
  <2>3. Get(t, k) = t.heap[x].data
    BY <1>5, GetRight
  <2> QED  BY <2>1, <2>2, <2>3
<1> QED  BY <1>3, <1>4, <1>5

(* Nothing is found in an empty table.                                     *)
LEMMA EmptyGet ==
  ASSUME NEW type \in Types, NEW k \in Key
  PROVE  Get(EmptyTable(type), k) = NULL
<1>1. Whole(EmptyTable(type), << >>, 0)
  BY EmptyWhole
<1>2. DOMAIN EmptyTable(type).heap = {}
  BY DEF EmptyTable
<1> QED  BY <1>1, <1>2, GetRight

(* Every call is a call of the dictionary, or changes nothing.             *)
LEMMA NextRefines == IInv /\ [Next]_vars => [Dict!Next]_([k \in Key |-> Get(self, k)])
<1> SUFFICES ASSUME IInv, [Next]_vars
             PROVE  [Dict!Next]_([k \in Key |-> Get(self, k)])
  OBVIOUS
<1>1. PICK n, s : Whole(self, s, n)
  BY DEF IInv
<1>2. CASE self' = self
  <2>1. [k \in Key |-> Get(self, k)]' = [k \in Key |-> Get(self, k)]
    BY <1>2 DEF Get, Datum, FindElement, Candidates, Run, Bucket, TextAt
  <2> QED  BY <2>1
<1>3. CASE Clear
  <2>1. self' = EmptyTable(self.eDictType) /\ self.eDictType \in Types
    BY <1>1, <1>3, ClearFrees, ElementsOf
  <2>2. \A k \in Key : Get(self', k) = NULL
    BY <2>1, EmptyGet
  <2> QED  BY <2>2 DEF Dict!Next, Dict!Clear
<1>4. ASSUME NEW p \in KeyArgs, NEW d \in DataFor[TextOf[p]] \cup {NULL}, Set(p, d), self' # self
      PROVE  Dict!Set(TextOf[p], d)
  <2> DEFINE e == FindElement(self, TextOf[p])
  <2>1. p \in Ptr /\ TextOf[p] \in Key
    BY KeyArgsArePtr, HashAssumption
  <2>2. /\ e # NULL => e \in DOMAIN self.heap /\ TextAt(self, e) = TextOf[p]
        /\ e = NULL => \A x \in DOMAIN self.heap : TextAt(self, x) # TextOf[p]
        /\ \A x \in DOMAIN self.heap : TextAt(self, x) = TextOf[p] => x = e
    BY <1>1, <2>1, FindRight
  <2> HIDE DEF e
  <2>3. CASE e # NULL /\ d = NULL /\ Removed(self, e, self')
    <3>1. \A k \in Key : Get(self', k) = IF k = TextAt(self, e) THEN NULL ELSE Get(self, k)
      BY <1>1, <2>2, <2>3, RemovedGet
    <3> QED  BY <2>1, <2>2, <2>3, <3>1 DEF Dict!Set
  <2>4. CASE e # NULL /\ Holds(self, e, p, d, self')
    <3>1. \A k \in Key : Get(self', k) = IF k = TextOf[p] THEN d ELSE Get(self, k)
      BY <1>1, <2>2, <2>4, HoldsGet
    <3> QED  BY <2>1, <3>1 DEF Dict!Set
  <2>5. ASSUME e = NULL, NEW x \in Elem \ DOMAIN self.heap, Holds(self, x, p, d, self')
        PROVE  Dict!Set(TextOf[p], d)
    <3>1. \A k \in Key : Get(self', k) = IF k = TextOf[p] THEN d ELSE Get(self, k)
      BY <1>1, <2>2, <2>5, HoldsGet
    <3> QED  BY <2>1, <3>1 DEF Dict!Set
  <2> QED  BY <1>1, <1>4, <2>1, <2>3, <2>4, <2>5, SetIsCall DEF e
<1>5. ASSUME NEW p \in KeyArgs, NEW d \in DataFor[TextOf[p]] \cup {NULL}, Set(p, d), self' # self
      PROVE  Dict!Next
  <2>1. TextOf[p] \in Key
    BY KeyArgsArePtr, HashAssumption
  <2> QED  BY <1>4, <1>5, <2>1 DEF Dict!Next
<1> QED  BY <1>2, <1>3, <1>5 DEF Next, vars

(* Whatever calls are made, HashTable_get returns under each key what      *)
(* HashTable_set put there last.                                           *)
THEOREM Refinement == Spec => ImplementsDictionary
<1>1. Init => Dict!Init
  <2> SUFFICES ASSUME Init PROVE Dict!Init
    OBVIOUS
  <2>1. PICK type \in Types : self = EmptyTable(type)
    BY DEF Init
  <2>2. \A k \in Key : Get(self, k) = NULL
    BY <2>1, EmptyGet
  <2> QED  BY <2>2 DEF Dict!Init
<1> QED  BY <1>1, NextRefines, Invariant, PTL DEF Spec, ImplementsDictionary, Dict!Spec

-----------------------------------------------------------------------------
(***************************************************************************)
(* What is freed.                                                          *)
(***************************************************************************)

(* How the callers use the table: it frees keys as its type says, memory   *)
(* for data is not used for keys, and data are not set for two keys.       *)
Contract ==
  /\ Types \subseteq {"DICT_STRING", "DICT_INT"}
  /\ Data \cap Ptr = {}
  /\ \A k, l \in Key : k # l => DataFor[k] \cap DataFor[l] = {}

(* Freeing the members of r leaves exactly what u owns of what t owned.    *)
Frees(t, u, r) == ToSet(r) = Owned(t) \ Owned(u) /\ IsInjective(r)

(* Two sequences of one element.                                           *)
LEMMA Pair ==
  ASSUME NEW a, NEW b
  PROVE  <<a>> \o <<b>> = <<a, b>>
<1>1. PICK r : r = <<a>> \o <<b>>
  OBVIOUS
<1>2. Len(r) = 2 /\ r[1] = a /\ r[2] = b
  BY <1>1
<1>3. r \in Seq({a, b})
  <2>1. <<a>> \in Seq({a, b}) /\ <<b>> \in Seq({a, b})
    OBVIOUS
  <2>2. \A S, p, q : p \in Seq(S) /\ q \in Seq(S) => p \o q \in Seq(S)
    OBVIOUS
  <2> QED  BY ONLY <1>1, <2>1, <2>2
<1>4. r = <<r[1], r[2]>>
  BY ONLY <1>2, <1>3
<1> QED  BY <1>1, <1>2, <1>4

(* Short sequences and what is in them.                                    *)
LEMMA ShortSequences ==
  /\ ToSet(<< >>) = {} /\ IsInjective(<< >>)
  /\ \A a : ToSet(<<a>>) = {a} /\ IsInjective(<<a>>)
  /\ \A a, b : a # b => ToSet(<<a, b>>) = {a, b} /\ IsInjective(<<a, b>>)
<1>1. ToSet(<< >>) = {} /\ IsInjective(<< >>)
  BY DEF ToSet, IsInjective
<1>2. ASSUME NEW a PROVE ToSet(<<a>>) = {a} /\ IsInjective(<<a>>)
  BY DEF ToSet, IsInjective
<1>3. ASSUME NEW a, NEW b, a # b
      PROVE  ToSet(<<a, b>>) = {a, b} /\ IsInjective(<<a, b>>)
  <2>1. DOMAIN <<a, b>> = {1, 2} /\ <<a, b>>[1] = a /\ <<a, b>>[2] = b
    OBVIOUS
  <2> QED  BY <1>3, <2>1 DEF ToSet, IsInjective
<1> QED  BY <1>1, <1>2, <1>3

(* No datum and no key belongs to two elements, and none is both.          *)
LEMMA OwnedApart ==
  ASSUME Contract, NEW t, NEW s, NEW n, Whole(t, s, n), NEW x \in DOMAIN t.heap, NEW y \in DOMAIN t.heap
  PROVE  /\ t.heap[x].data # t.heap[y].key
         /\ x # y => t.heap[x].data # t.heap[y].data /\ t.heap[x].key # t.heap[y].key
<1>1. \A z \in DOMAIN t.heap : /\ t.heap[z].data \in Data /\ t.heap[z].key \in Ptr
                               /\ t.heap[z].data \in DataFor[TextAt(t, z)]
                               /\ TextAt(t, z) = TextOf[t.heap[z].key] /\ TextAt(t, z) \in Key
  BY ElementsOf, BucketOfElement DEF Whole, KeysApart, Partial
<1>2. x # y => TextAt(t, x) # TextAt(t, y)
  BY DEF Whole, KeysApart
<1>3. Data \cap Ptr = {} /\ \A k, l \in Key : k # l => DataFor[k] \cap DataFor[l] = {}
  BY DEF Contract
<1>4. t.heap[x].data # t.heap[y].key
  BY <1>1, <1>3
<1>5. ASSUME x # y PROVE t.heap[x].data # t.heap[y].data
  <2>1. DataFor[TextAt(t, x)] \cap DataFor[TextAt(t, y)] = {}
    BY <1>1, <1>2, <1>3, <1>5
  <2> QED  BY <1>1, <2>1
<1>6. ASSUME x # y PROVE t.heap[x].key # t.heap[y].key
  BY <1>1, <1>2, <1>6
<1> QED  BY <1>4, <1>5, <1>6

(* Who owns what.                                                          *)
LEMMA OwnedIs ==
  ASSUME NEW t, NEW y
  PROVE  y \in Owned(t) <=> \/ \E x \in DOMAIN t.heap : y = t.heap[x].data
                            \/ /\ t.eDictType = "DICT_STRING"
                               /\ \E x \in DOMAIN t.heap : y = t.heap[x].key
  BY DEF Owned

(* An element that is removed takes its datum and its key with it.         *)
LEMMA RemovedOwned ==
  ASSUME Contract, NEW t, NEW s, NEW n, Whole(t, s, n), NEW e \in DOMAIN t.heap,
         NEW u, Removed(t, e, u)
  PROVE  Owned(t) \ Owned(u) = IF t.eDictType = "DICT_STRING"
                                 THEN {t.heap[e].data, t.heap[e].key} ELSE {t.heap[e].data}
<1>1. /\ u.eDictType = t.eDictType /\ DOMAIN u.heap = DOMAIN t.heap \ {e}
      /\ \A x \in DOMAIN t.heap \ {e} :
           u.heap[x].key = t.heap[x].key /\ u.heap[x].data = t.heap[x].data
  BY DEF Removed
<1>2. \A x, y \in DOMAIN t.heap :
        /\ t.heap[x].data # t.heap[y].key
        /\ x # y => t.heap[x].data # t.heap[y].data /\ t.heap[x].key # t.heap[y].key
  BY OwnedApart
<1>3. ASSUME NEW y
      PROVE  y \in Owned(t) \ Owned(u)
               <=> \/ y = t.heap[e].data
                   \/ t.eDictType = "DICT_STRING" /\ y = t.heap[e].key
  <2>1. y \in Owned(t) <=> \/ \E x \in DOMAIN t.heap : y = t.heap[x].data
                           \/ /\ t.eDictType = "DICT_STRING"
                              /\ \E x \in DOMAIN t.heap : y = t.heap[x].key
    BY OwnedIs
  <2>2. y \in Owned(u) <=> \/ \E x \in DOMAIN t.heap \ {e} : y = t.heap[x].data
                           \/ /\ t.eDictType = "DICT_STRING"
                              /\ \E x \in DOMAIN t.heap \ {e} : y = t.heap[x].key
    BY <1>1, OwnedIs
  <2> QED  BY <1>2, <2>1, <2>2
<1> QED  BY <1>3

(* An element that is overwritten loses the datum and the key that differ  *)
(* from the new ones.                                                      *)
LEMMA ReplacedOwned ==
  ASSUME Contract, NEW t, NEW s, NEW n, Whole(t, s, n), NEW e \in DOMAIN t.heap,
         NEW p, NEW d, NEW u, Holds(t, e, p, d, u), NEW y
  PROVE  y \in Owned(t) \ Owned(u)
           <=> \/ y = t.heap[e].data /\ y # d
               \/ t.eDictType = "DICT_STRING" /\ y = t.heap[e].key /\ y # p
<1>1. /\ u.eDictType = t.eDictType /\ DOMAIN u.heap = DOMAIN t.heap
      /\ u.heap[e].key = p /\ u.heap[e].data = d
      /\ \A x \in DOMAIN t.heap \ {e} :
           u.heap[x].key = t.heap[x].key /\ u.heap[x].data = t.heap[x].data
  BY DEF Holds
<1>2. \A x, z \in DOMAIN t.heap :
        /\ t.heap[x].data # t.heap[z].key
        /\ x # z => t.heap[x].data # t.heap[z].data /\ t.heap[x].key # t.heap[z].key
  BY OwnedApart
<1>3. d \in Data /\ p \in Ptr /\ t.heap[e].data \in Data /\ t.heap[e].key \in Ptr /\ Data \cap Ptr = {}
  <2>1. \A x \in DOMAIN u.heap : u.heap[x].data \in Data /\ u.heap[x].key \in Ptr
    BY ElementsOf DEF Holds
  <2>2. t.heap[e].data \in Data /\ t.heap[e].key \in Ptr
    BY ElementsOf
  <2> QED  BY <1>1, <2>1, <2>2 DEF Contract
<1>4. y \in Owned(t) <=> \/ \E x \in DOMAIN t.heap : y = t.heap[x].data
                         \/ /\ t.eDictType = "DICT_STRING"
                            /\ \E x \in DOMAIN t.heap : y = t.heap[x].key
  BY OwnedIs
<1>5. y \in Owned(u) <=> \/ y = d \/ \E x \in DOMAIN t.heap \ {e} : y = t.heap[x].data
                         \/ /\ t.eDictType = "DICT_STRING"
                            /\ y = p \/ \E x \in DOMAIN t.heap \ {e} : y = t.heap[x].key
  <2>1. y \in Owned(u) <=> \/ \E x \in DOMAIN u.heap : y = u.heap[x].data
                           \/ /\ u.eDictType = "DICT_STRING"
                              /\ \E x \in DOMAIN u.heap : y = u.heap[x].key
    BY OwnedIs
  <2>2. (\E x \in DOMAIN u.heap : y = u.heap[x].data)
          <=> y = d \/ \E x \in DOMAIN t.heap \ {e} : y = t.heap[x].data
    BY <1>1
  <2>3. (\E x \in DOMAIN u.heap : y = u.heap[x].key)
          <=> y = p \/ \E x \in DOMAIN t.heap \ {e} : y = t.heap[x].key
    BY <1>1
  <2> QED  BY ONLY <1>1, <2>1, <2>2, <2>3
<1> QED  BY <1>2, <1>3, <1>4, <1>5

(* A new element takes nothing from the others.                            *)
LEMMA AddedOwned ==
  ASSUME NEW t, NEW e, e \notin DOMAIN t.heap, NEW p, NEW d, NEW u, Holds(t, e, p, d, u)
  PROVE  Owned(t) \ Owned(u) = {}
<1>1. /\ u.eDictType = t.eDictType /\ DOMAIN u.heap = DOMAIN t.heap \cup {e}
      /\ \A x \in DOMAIN t.heap :
           u.heap[x].key = t.heap[x].key /\ u.heap[x].data = t.heap[x].data
  BY DEF Holds
<1>2. ASSUME NEW y \in Owned(t) PROVE y \in Owned(u)
  BY <1>1, OwnedIs
<1> QED  BY <1>2

(* HashTable_set frees what the table does not own any more.               *)
LEMMA SetFrees ==
  ASSUME Contract, NEW s, NEW n, Whole(self, s, n), NEW p \in Ptr,
         NEW d \in DataFor[TextOf[p]] \cup {NULL}, Set(p, d)
  PROVE  Frees(self, self', released')
<1> DEFINE e == FindElement(self, TextOf[p])
<1>1. TextOf[p] \in Key
  BY HashAssumption
<1>2. e # NULL => e \in DOMAIN self.heap
  BY <1>1, FindRight
<1> HIDE DEF e
<1>3. self.eDictType = "DICT_STRING" \/ self.eDictType = "DICT_INT"
  BY ElementsOf DEF Contract
<1>4. CASE self' = self /\ released' = << >>
  BY <1>4, ShortSequences DEF Frees
<1>5. CASE e # NULL /\ Removed(self, e, self') /\ RemoveElement(e)
  <2>1. released' = <<self.heap[e].data>> \o FreeKey(self.heap[e].key)
    BY <1>5 DEF RemoveElement
  <2>2. Owned(self) \ Owned(self') = IF self.eDictType = "DICT_STRING"
                                       THEN {self.heap[e].data, self.heap[e].key}
                                       ELSE {self.heap[e].data}
    BY <1>2, <1>5, RemovedOwned
  <2>3. self.heap[e].data # self.heap[e].key
    BY <1>2, <1>5, OwnedApart
  <2>4. released' = IF self.eDictType = "DICT_STRING"
                      THEN <<self.heap[e].data, self.heap[e].key>> ELSE <<self.heap[e].data>>
    BY <1>3, <2>1 DEF FreeKey
  <2> QED  BY <2>2, <2>3, <2>4, ShortSequences DEF Frees
<1>6. CASE e # NULL /\ Holds(self, e, p, d, self') /\ Replace(e, p, d)
  <2>1. PICK od, ok : od = self.heap[e].data /\ ok = self.heap[e].key
    OBVIOUS
  <2>2. released' = (IF od = d THEN <<>> ELSE <<od>>) \o (IF ok = p THEN <<>> ELSE FreeKey(ok))
    BY <1>6, <2>1 DEF Replace
  <2>3. ASSUME NEW y
        PROVE  y \in Owned(self) \ Owned(self')
                 <=> \/ y = od /\ y # d
                     \/ self.eDictType = "DICT_STRING" /\ y = ok /\ y # p
    BY <1>2, <1>6, <2>1, ReplacedOwned
  <2>4. od # ok
    BY <1>2, <1>6, <2>1, OwnedApart
  <2>5. CASE od # d /\ self.eDictType = "DICT_STRING" /\ ok # p
    <3>1. released' = <<od, ok>>
      <4>1. released' = <<od>> \o <<ok>>
        BY <2>2, <2>5 DEF FreeKey
      <4>2. <<od>> \o <<ok>> = <<od, ok>>
        BY Pair
      <4> QED  BY ONLY <4>1, <4>2
    <3>2. Owned(self) \ Owned(self') = {od, ok}
      BY <2>3, <2>5
    <3> QED  BY <2>4, <3>1, <3>2, ShortSequences DEF Frees
  <2>6. CASE od # d /\ ~(self.eDictType = "DICT_STRING" /\ ok # p)
    <3>1. released' = <<od>>
      <4>1. released' = <<od>> \o << >>
        <5>1. (IF ok = p THEN <<>> ELSE FreeKey(ok)) = << >>
          BY <1>3, <2>6 DEF FreeKey
        <5> QED  BY ONLY <2>2, <2>6, <5>1
      <4>2. \A a : <<a>> \o << >> = <<a>>
        OBVIOUS
      <4> QED  BY ONLY <4>1, <4>2
    <3>2. Owned(self) \ Owned(self') = {od}
      BY <2>3, <2>6
    <3> QED  BY <3>1, <3>2, ShortSequences DEF Frees
  <2>7. CASE od = d /\ self.eDictType = "DICT_STRING" /\ ok # p
    <3>1. released' = <<ok>>
      BY <2>2, <2>7 DEF FreeKey
    <3>2. Owned(self) \ Owned(self') = {ok}
      BY <2>3, <2>7
    <3> QED  BY <3>1, <3>2, ShortSequences DEF Frees
  <2>8. CASE od = d /\ ~(self.eDictType = "DICT_STRING" /\ ok # p)
    <3>1. released' = << >>
      BY <1>3, <2>2, <2>8 DEF FreeKey
    <3>2. Owned(self) \ Owned(self') = {}
      BY <2>3, <2>8
    <3> QED  BY <3>1, <3>2, ShortSequences DEF Frees
  <2> QED  BY <2>5, <2>6, <2>7, <2>8
<1>7. ASSUME released' = << >>, NEW x \in Elem \ DOMAIN self.heap, Holds(self, x, p, d, self')
      PROVE  Frees(self, self', released')
  <2>1. Owned(self) \ Owned(self') = {}
    BY <1>7, AddedOwned
  <2> QED  BY <1>7, <2>1, ShortSequences DEF Frees
<1> QED  BY <1>4, <1>5, <1>6, <1>7, SetIsCall DEF e

(* HashTable_clear frees everything the table owns, each of it once.       *)
LEMMA ClearFreesAll ==
  ASSUME Contract, NEW s, NEW n, Whole(self, s, n), Clear
  PROVE  Frees(self, self', released')
<1>1. /\ \A i \in 1 .. n : s[i] \in DOMAIN self.heap
      /\ \A i, j \in 1 .. n : s[i] = s[j] => i = j
      /\ \A x \in DOMAIN self.heap : \E i \in 1 .. n : s[i] = x
  BY ElementsOf
<1>2. n \in Nat /\ self' = EmptyTable(self.eDictType)
  BY ClearFrees
<1>3. Owned(self') = {}
  <2>1. DOMAIN self'.heap = {}
    BY <1>2 DEF EmptyTable
  <2>2. \A y : y \notin Owned(self')
    BY <2>1, OwnedIs
  <2> QED  BY <2>2
<1>4. \A x, y \in DOMAIN self.heap :
        /\ self.heap[x].data # self.heap[y].key
        /\ x # y => self.heap[x].data # self.heap[y].data /\ self.heap[x].key # self.heap[y].key
  BY OwnedApart
<1>5. CASE self.eDictType = "DICT_STRING"
  <2> DEFINE r == [i \in 1 .. 2 * n |-> IF i % 2 = 1 THEN self.heap[s[(i + 1) \div 2]].data
                                        ELSE self.heap[s[i \div 2]].key]
  <2>1. released' = r
    BY <1>5, ClearFrees
  <2>2. ASSUME NEW j \in 1 .. n
        PROVE  /\ 2 * j - 1 \in 1 .. 2 * n /\ (2 * j - 1) % 2 = 1 /\ ((2 * j - 1) + 1) \div 2 = j
               /\ 2 * j \in 1 .. 2 * n /\ (2 * j) % 2 # 1 /\ (2 * j) \div 2 = j
    BY <1>2
  <2>3. ASSUME NEW i \in 1 .. 2 * n
        PROVE  \E j \in 1 .. n : i = 2 * j - 1 \/ i = 2 * j
    <3>1. CASE i % 2 = 1
      <4>1. (i + 1) \div 2 \in 1 .. n /\ i = 2 * ((i + 1) \div 2) - 1
        BY <1>2, <3>1
      <4> QED  BY <4>1
    <3>2. CASE i % 2 # 1
      <4>1. i \div 2 \in 1 .. n /\ i = 2 * (i \div 2)
        BY <1>2, <3>2
      <4> QED  BY <4>1
    <3> QED  BY <3>1, <3>2
  <2>4. \A j \in 1 .. n : r[2 * j - 1] = self.heap[s[j]].data /\ r[2 * j] = self.heap[s[j]].key
    BY <2>2
  <2>5. DOMAIN r = 1 .. 2 * n
    OBVIOUS
  <2> HIDE DEF r
  <2>6. \A y : y \in ToSet(r) <=> \E i \in 1 .. 2 * n : y = r[i]
    BY <2>5 DEF ToSet
  <2>7. \A y : (\E i \in 1 .. 2 * n : y = r[i])
                 <=> \E j \in 1 .. n : y = self.heap[s[j]].data \/ y = self.heap[s[j]].key
    <3>1. ASSUME NEW y, NEW i \in 1 .. 2 * n, y = r[i]
          PROVE  \E j \in 1 .. n : y = self.heap[s[j]].data \/ y = self.heap[s[j]].key
      <4>1. PICK j \in 1 .. n : i = 2 * j - 1 \/ i = 2 * j
        BY <2>3
      <4> QED  BY <2>4, <3>1, <4>1
    <3>2. ASSUME NEW y, NEW j \in 1 .. n, y = self.heap[s[j]].data \/ y = self.heap[s[j]].key
          PROVE  \E i \in 1 .. 2 * n : y = r[i]
      BY <2>2, <2>4, <3>2
    <3> QED  BY <3>1, <3>2
  <2>8. \A y : y \in Owned(self)
                 <=> \E j \in 1 .. n : y = self.heap[s[j]].data \/ y = self.heap[s[j]].key
    BY <1>1, <1>5, OwnedIs
  <2>9. ToSet(r) = Owned(self)
    BY <2>6, <2>7, <2>8
  <2>10. IsInjective(r)
    <3> SUFFICES ASSUME NEW a \in 1 .. 2 * n, NEW b \in 1 .. 2 * n, r[a] = r[b] PROVE a = b
      BY <2>5 DEF IsInjective
    <3>1. PICK i \in 1 .. n : a = 2 * i - 1 \/ a = 2 * i
      BY <2>3
    <3>2. PICK j \in 1 .. n : b = 2 * j - 1 \/ b = 2 * j
      BY <2>3
    <3>3. s[i] \in DOMAIN self.heap /\ s[j] \in DOMAIN self.heap /\ (s[i] = s[j] => i = j)
      BY <1>1
    <3>4. CASE a = 2 * i - 1 /\ b = 2 * j - 1
      <4>1. self.heap[s[i]].data = self.heap[s[j]].data
        BY <2>4, <3>4
      <4> QED  BY <1>4, <3>3, <3>4, <4>1
    <3>5. CASE a = 2 * i /\ b = 2 * j
      <4>1. self.heap[s[i]].key = self.heap[s[j]].key
        BY <2>4, <3>5
      <4> QED  BY <1>4, <3>3, <3>5, <4>1
    <3>6. CASE a = 2 * i - 1 /\ b = 2 * j
      <4>1. self.heap[s[i]].data = self.heap[s[j]].key
        BY <2>4, <3>6
      <4> QED  BY <1>4, <3>3, <4>1
    <3>7. CASE a = 2 * i /\ b = 2 * j - 1
      <4>1. self.heap[s[j]].data = self.heap[s[i]].key
        BY <2>4, <3>7
      <4> QED  BY <1>4, <3>3, <4>1
    <3> QED  BY <3>1, <3>2, <3>4, <3>5, <3>6, <3>7
  <2> QED  BY <1>3, <2>1, <2>9, <2>10 DEF Frees
<1>6. CASE self.eDictType # "DICT_STRING"
  <2> DEFINE r == [i \in 1 .. n |-> self.heap[s[i]].data]
  <2>1. released' = r
    BY <1>6, ClearFrees
  <2>2. DOMAIN r = 1 .. n /\ \A i \in 1 .. n : r[i] = self.heap[s[i]].data
    OBVIOUS
  <2> HIDE DEF r
  <2>3. \A y : y \in ToSet(r) <=> \E i \in 1 .. n : y = self.heap[s[i]].data
    BY <2>2 DEF ToSet
  <2>4. \A y : y \in Owned(self) <=> \E i \in 1 .. n : y = self.heap[s[i]].data
    BY <1>1, <1>6, OwnedIs
  <2>5. IsInjective(r)
    BY <1>1, <1>4, <2>2 DEF IsInjective
  <2> QED  BY <1>3, <2>1, <2>3, <2>4, <2>5 DEF Frees
<1> QED  BY <1>5, <1>6

(* With callers that keep to the contract every call frees, once, exactly  *)
(* the data and the keys that are not in the table any more.               *)
THEOREM FreesExactly ==
  ASSUME Contract
  PROVE  Spec => FreesWhatItDrops
<1>1. IInv /\ [Next]_vars => [ /\ ToSet(released') = Owned(self) \ Owned(self')
                               /\ IsInjective(released') ]_vars
  <2> SUFFICES ASSUME IInv, Next PROVE Frees(self, self', released')
    BY DEF Frees
  <2>1. PICK n, s : Whole(self, s, n)
    BY DEF IInv
  <2>2. CASE Clear
    BY <2>1, <2>2, ClearFreesAll
  <2>3. ASSUME NEW p \in KeyArgs, NEW d \in DataFor[TextOf[p]] \cup {NULL}, Set(p, d)
        PROVE  Frees(self, self', released')
    BY <2>1, <2>3, KeyArgsArePtr, SetFrees
  <2> QED  BY <2>2, <2>3 DEF Next
<1> QED  BY <1>1, Invariant, PTL DEF Spec, FreesWhatItDrops
==============================================================================
