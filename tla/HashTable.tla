----------------------------- MODULE HashTable -----------------------------
(***************************************************************************)
(* The generic hash table of util/hash.c.  All elements are on one doubly  *)
(* linked list; a bucket is a pointer into that list and a length.  Small  *)
(* tables have no buckets at all.  The table disposes of the data, and,    *)
(* depending on its type, of the keys it was given.                        *)
(***************************************************************************)
EXTENDS Integers, FiniteSets, SequencesExt

CONSTANTS
  Key,        (* key texts, or integers for DICT_INT                       *)
  HashCode,   (* Key -> Nat: the hash before it is reduced to a bucket     *)
  Ptr,        (* key strings the callers allocate...                       *)
  TextOf,     (* ...and what is in them: Ptr -> Key                        *)
  Data,       (* the data of the callers...                                *)
  DataFor,    (* ...and what they may set for a key: Key -> SUBSET Data    *)
  Elem,       (* memory for elements                                       *)
  Types,      (* the DICTIONARY_TYPEs considered                           *)
  GrowAt,     (* 10 in the code: fewer elements than that have no buckets  *)
  PerBucket,  (* 2 in the code: more elements than that per bucket regrow  *)
  NULL

DictType == {"DICT_STRING", "DICT_INT", "DICT_STRING_NO_FREE"}

ASSUME HashAssumption ==
  /\ HashCode \in [Key -> Nat] /\ TextOf \in [Ptr -> Key]
  /\ DataFor \in [Key -> SUBSET Data] /\ NULL \notin Data \cup Ptr \cup Elem
  /\ Types \subseteq DictType /\ GrowAt \in Nat /\ PerBucket \in Nat

VARIABLES
  self,       (* struct Hash; its field heap holds the allocated elements  *)
  released    (* what the last call has freed, in order                    *)

vars == <<self, released>>

HashElem == [next : Elem \cup {NULL}, prev : Elem \cup {NULL}, key : Ptr, data : Data]

TypeOK ==
  /\ self.eDictType \in Types
  /\ self.first \in Elem \cup {NULL}
  /\ self.count = Cardinality(DOMAIN self.heap)
  /\ DOMAIN self.heap \subseteq Elem
  /\ \A e \in DOMAIN self.heap : self.heap[e] \in HashElem
  /\ self.htsize \in {0} \cup {n \in Nat : n >= GrowAt}
  /\ DOMAIN self.ht = 0 .. self.htsize - 1
  /\ \A h \in DOMAIN self.ht : self.ht[h].count \in Nat
  /\ released \in Seq(Data \cup Ptr)

-----------------------------------------------------------------------------
NoBuckets == [h \in 0 .. -1 |-> [count |-> 0, chain |-> NULL]]

(* HashTable_init, and the state HashTable_clear returns to.               *)
EmptyTable(type) ==
  [first |-> NULL, count |-> 0, htsize |-> 0, ht |-> NoBuckets,
   heap |-> [e \in {} |-> NULL], eDictType |-> type]

Init ==
  /\ self \in {EmptyTable(type) : type \in Types}
  /\ released = <<>>

(* n elements of the list, from e on.                                      *)
Run(t, e, n) ==
  LET next == [x \in Elem \cup {NULL} |-> IF x \in DOMAIN t.heap THEN t.heap[x].next ELSE NULL]
      at[i \in 1 .. n] == IF i = 1 THEN e ELSE next[at[i - 1]]
  IN  [i \in 1 .. n |-> at[i]]

Bucket(t, k) == HashCode[k] % t.htsize

(* Planted bug: the search stops one element early.                        *)
CandidatesShort(t, k) ==
  IF t.htsize = 0
    THEN Run(t, t.first, t.count - 1)
    ELSE Run(t, t.ht[Bucket(t, k)].chain, t.ht[Bucket(t, k)].count - 1)

(* Where a search for k looks, and the element it finds.                   *)
Candidates(t, k) ==
  IF t.htsize = 0
    THEN Run(t, t.first, t.count)
    ELSE Run(t, t.ht[Bucket(t, k)].chain, t.ht[Bucket(t, k)].count)

TextAt(t, e) == IF e \in DOMAIN t.heap THEN TextOf[t.heap[e].key] ELSE NULL

(* The first match; ListIsWhole says that there is never another.          *)
FindElement(t, k) ==
  LET found == {e \in ToSet(Candidates(t, k)) : TextAt(t, e) = k}
  IN  IF found = {} THEN NULL ELSE CHOOSE e \in found : TRUE

Datum(t, e) == IF e = NULL THEN NULL ELSE t.heap[e].data
Get(t, k) == Datum(t, FindElement(t, k))

(* Planted bug: the element before the bucket is not linked to the new one. *)
InsertHalfLinked(t, e, k) ==
  LET bucketed == t.htsize > 0
      h        == Bucket(t, k)
      head     == IF bucketed /\ t.ht[h].count > 0 THEN t.ht[h].chain ELSE t.first
      heap2    == IF head = NULL THEN t.heap ELSE [t.heap EXCEPT ![head].prev = e]
  IN  [t EXCEPT !.heap  = [heap2 EXCEPT ![e].next = head, ![e].prev = NULL],
                !.first = e,
                !.ht    = IF bucketed
                            THEN [t.ht EXCEPT ![h] = [count |-> t.ht[h].count + 1, chain |-> e]]
                            ELSE t.ht]

(* Link e before its bucket's first element, or at the head of the list.   *)
InsertElement(t, e, k) ==
  LET bucketed == t.htsize > 0
      h        == Bucket(t, k)
      inside   == bucketed /\ t.ht[h].count > 0
      head     == IF inside THEN t.ht[h].chain ELSE t.first
      before   == IF inside THEN t.heap[head].prev ELSE NULL
      heap2    == IF head = NULL THEN t.heap ELSE [t.heap EXCEPT ![head].prev = e]
      heap3    == IF before = NULL THEN heap2 ELSE [heap2 EXCEPT ![before].next = e]
  IN  [t EXCEPT !.heap  = [heap3 EXCEPT ![e].next = head, ![e].prev = before],
                !.first = IF before = NULL THEN e ELSE @,
                !.ht    = IF bucketed
                            THEN [t.ht EXCEPT ![h] = [count |-> t.ht[h].count + 1, chain |-> e]]
                            ELSE t.ht]

(* Move every element, in list order, to one of n new buckets.             *)
Rehash(t, n) ==
  LET bare == [t EXCEPT !.first = NULL, !.htsize = n,
                        !.ht = [h \in 0 .. n - 1 |-> [count |-> 0, chain |-> NULL]]]
      order == Run(t, t.first, Cardinality(DOMAIN t.heap))
      moved[i \in 0 .. Len(order)] ==
        IF i = 0 THEN bare ELSE InsertElement(moved[i - 1], order[i], TextAt(t, order[i]))
  IN  moved[Len(order)]

(* Planted bug: the bucket keeps pointing at the element.                  *)
UnlinkFromListOnly(t, e) ==
  LET x == t.heap[e]
      heap2 == IF x.prev = NULL THEN t.heap ELSE [t.heap EXCEPT ![x.prev].next = x.next]
      heap3 == IF x.next = NULL THEN heap2 ELSE [heap2 EXCEPT ![x.next].prev = x.prev]
      h == Bucket(t, TextAt(t, e))
  IN  [t EXCEPT !.heap  = [y \in DOMAIN heap3 \ {e} |-> heap3[y]],
                !.first = IF x.prev = NULL THEN x.next ELSE @,
                !.count = @ - 1,
                !.ht    = IF t.htsize = 0 THEN t.ht
                          ELSE [t.ht EXCEPT ![h].count = t.ht[h].count - 1]]

(* Take e out of the list and of its bucket, and free it.                  *)
Unlink(t, e) ==
  LET x == t.heap[e]
      heap2 == IF x.prev = NULL THEN t.heap ELSE [t.heap EXCEPT ![x.prev].next = x.next]
      heap3 == IF x.next = NULL THEN heap2 ELSE [heap2 EXCEPT ![x.next].prev = x.prev]
      h == Bucket(t, TextAt(t, e))
  IN  [t EXCEPT !.heap  = [y \in DOMAIN heap3 \ {e} |-> heap3[y]],
                !.first = IF x.prev = NULL THEN x.next ELSE @,
                !.count = @ - 1,
                !.ht    = IF t.htsize = 0 THEN t.ht
                          ELSE [t.ht EXCEPT ![h] = [count |-> t.ht[h].count - 1,
                                                    chain |-> IF t.ht[h].chain = e THEN x.next
                                                              ELSE t.ht[h].chain]]]

-----------------------------------------------------------------------------
(* A caller that passes a key of an integer dictionary passes its value.   *)
KeyArgs == IF self.eDictType = "DICT_INT"
             THEN {CHOOSE p \in Ptr : TextOf[p] = k : k \in {TextOf[q] : q \in Ptr}}
             ELSE Ptr

(* Removing or replacing frees the key for every type but DICT_INT.        *)
FreeKey(p) == IF self.eDictType # "DICT_INT" THEN <<p>> ELSE <<>>

(* Planted bug: an element that is removed is not counted off.             *)
RemoveUncounted(e) ==
  /\ self' = [Unlink(self, e) EXCEPT !.count = self.count]
  /\ released' = <<self.heap[e].data>> \o FreeKey(self.heap[e].key)

(* A table that is empty again gives its buckets back.                     *)
RemoveElement(e) ==
  /\ self' = IF self.count = 1 THEN EmptyTable(self.eDictType) ELSE Unlink(self, e)
  /\ released' = <<self.heap[e].data>> \o FreeKey(self.heap[e].key)

(* Planted bug: the datum is freed although it is set again.               *)
ReplaceAndFree(e, p, d) ==
  /\ self' = [self EXCEPT !.heap[e].data = d, !.heap[e].key = p]
  /\ released' = <<self.heap[e].data>>
                 \o (IF self.heap[e].key = p THEN <<>> ELSE FreeKey(self.heap[e].key))

Replace(e, p, d) ==
  /\ self' = [self EXCEPT !.heap[e].data = d, !.heap[e].key = p]
  /\ released' = (IF self.heap[e].data = d THEN <<>> ELSE <<self.heap[e].data>>)
                 \o (IF self.heap[e].key = p THEN <<>> ELSE FreeKey(self.heap[e].key))

(* The number of buckets malloc has room for when asked for n.             *)
Room(n) == {n, n + 1}

(* A new element, with more buckets if they are due and memory allows.     *)
Add(p, d) ==
  LET e     == CHOOSE x \in Elem : x \notin DOMAIN self.heap
      new   == [next |-> NULL, prev |-> NULL, key |-> p, data |-> d]
      n     == self.count + 1
      t     == [self EXCEPT !.count = n]
      grown == IF n >= GrowAt /\ n > PerBucket * self.htsize
                 THEN {t} \cup {Rehash(t, size) : size \in Room(2 * n)}
                 ELSE {t}
  IN  /\ Elem \ DOMAIN self.heap # {}
      /\ self' \in {InsertElement([u EXCEPT !.heap = [x \in DOMAIN @ \cup {e} |->
                                     IF x = e THEN new ELSE @[x]]], e, TextOf[p]) : u \in grown}
      /\ released' = <<>>

(* Nothing to remove, or no memory for the element.                        *)
Ignore == self' = self /\ released' = <<>>

(* HashTable_set(self, key, data).                                         *)
Set(p, d) ==
  LET e == FindElement(self, TextOf[p])
  IN  \/ e # NULL /\ d = NULL /\ RemoveElement(e)
      \/ e # NULL /\ d # NULL /\ Replace(e, p, d)
      \/ e = NULL /\ d # NULL /\ Add(p, d)
      \/ e = NULL /\ Ignore

(* HashTable_clear frees the data in list order, and for DICT_STRING each  *)
(* key after its datum.                                                    *)
Clear ==
  LET walk == Run(self, self.first, Cardinality(DOMAIN self.heap))
  IN  /\ self' = EmptyTable(self.eDictType)
      /\ released' =
           IF self.eDictType = "DICT_STRING"
             THEN [i \in 1 .. 2 * Len(walk) |->
                     IF i % 2 = 1 THEN self.heap[walk[(i + 1) \div 2]].data
                                  ELSE self.heap[walk[i \div 2]].key]
             ELSE [i \in 1 .. Len(walk) |-> self.heap[walk[i]].data]

(* HashTable_get and HashTable_each change nothing: see Get and Walk.      *)
Next ==
  \/ Clear
  \/ \E p \in KeyArgs : \E d \in DataFor[TextOf[p]] \cup {NULL} : Set(p, d)

Spec == Init /\ [][Next]_vars

-----------------------------------------------------------------------------
(***************************************************************************)
(* Properties.                                                             *)
(***************************************************************************)

(* Whatever was set, removed, and moved to other buckets in between,       *)
(* HashTable_get finds under each key what HashTable_set put there last;   *)
(* a call that runs out of memory changes nothing.                         *)
Dict == INSTANCE Dictionary WITH contents <- [k \in Key |-> Get(self, k)]
ImplementsDictionary == Dict!Spec

(* What HashTable_each visits.                                             *)
Walk == Run(self, self.first, self.count)

(* HashTable_each visits every element once, the list is linked both ways, *)
(* whatever order elements and buckets came in, and no key is there twice. *)
ListIsWhole ==
  /\ ToSet(Walk) = DOMAIN self.heap
  /\ \A i, j \in DOMAIN Walk :
       i # j => TextAt(self, Walk[i]) # TextAt(self, Walk[j])
  /\ \A i \in DOMAIN Walk :
       self.heap[Walk[i]].prev = IF i = 1 THEN NULL ELSE Walk[i - 1]

(* "The contents of the bucket are the element pointed to plus the next    *)
(* _ht.count-1 elements in the list" (hash.h): a bucket is a run of the    *)
(* list, exactly the elements whose keys hash to it.                       *)
BucketsAreRuns ==
  \A h \in DOMAIN self.ht :
    ToSet(Run(self, self.ht[h].chain, self.ht[h].count))
      = {e \in DOMAIN self.heap : Bucket(self, TextAt(self, e)) = h}

(* Every call frees, once, exactly the data and the keys that are not in   *)
(* the table any more, and that are the table's to free.                   *)
Owned(t) ==
  {t.heap[e].data : e \in DOMAIN t.heap} \cup
  IF t.eDictType = "DICT_STRING" THEN {t.heap[e].key : e \in DOMAIN t.heap} ELSE {}

FreesWhatItDrops ==
  [][/\ ToSet(released') = Owned(self) \ Owned(self')
     /\ IsInjective(released')]_vars
=============================================================================
