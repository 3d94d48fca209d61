---------------------------- MODULE StorageProofs ----------------------------
(* Theorems about Storage, for any classes, properties and bounds.          *)
EXTENDS Storage, TLAPS, FiniteSetTheorems, SequenceTheorems, WellFoundedInduction

-----------------------------------------------------------------------------
(***************************************************************************)
(* The least of a set, which the statements take first.                    *)
(***************************************************************************)

(* A nonempty set of natural numbers has a least element.                  *)
LEMMA LeastNumber ==
  ASSUME NEW S, S \subseteq Nat, S # {}
  PROVE  \E m \in S : \A k \in S : m =< k
<1>1. PICK m \in S : \A k \in S : ~ (<<k, m>> \in OpToRel(<, Nat))
  BY WFMin, NatLessThanWellFounded
<1>2. ASSUME NEW k \in S PROVE m =< k
  <2>1. <<k, m>> \notin {ss \in Nat \X Nat : ss[1] < ss[2]}
    BY <1>1 DEF OpToRel
  <2> QED  BY <2>1
<1> QED  BY <1>1, <1>2

(* The first object of a statement is one of its objects.                  *)
LEMMA MinIsMember ==
  ASSUME NEW ids, ids \subseteq ID, ids # {}
  PROVE  Min(ids) \in ids
<1>1. ids \subseteq Nat
  BY DEF ID
<1>2. PICK m \in ids : \A k \in ids : m =< k
  BY <1>1, LeastNumber
<1> QED  BY <1>2 DEF Min

(* The highest of some IDs is one of them.                                 *)
LEMMA MaxIsMember ==
  ASSUME NEW ids, ids \subseteq 0 .. MaxID, ids # {}
  PROVE  Max(ids) \in ids
<1> DEFINE turned == {MaxID - i : i \in ids}
<1>1. MaxID \in Nat
  BY StorageAssumption
<1>2. turned \subseteq Nat /\ turned # {}
  <2>1. \A i \in ids : MaxID - i \in Nat
    BY <1>1
  <2> QED  BY <2>1
<1>3. PICK m \in turned : \A k \in turned : m =< k
  BY <1>2, LeastNumber
<1>4. PICK i \in ids : m = MaxID - i
  BY <1>3
<1>5. \A j \in ids : i >= j
  <2>1. TAKE j \in ids
  <2>2. MaxID - j \in turned
    OBVIOUS
  <2>3. m =< MaxID - j
    BY <2>2, <1>3
  <2> QED  BY <2>3, <1>4, <1>1
<1> QED  BY <1>5 DEF Max

(* The first row of a statement is one of its rows.                        *)
LEMMA FirstRowIsMember ==
  ASSUME NEW rows, rows \subseteq ID \X Property, rows # {}
  PROVE  FirstRow(rows) \in rows
<1> DEFINE owners == {r[1] : r \in rows}
<1>1. owners \subseteq Nat /\ owners # {}
  BY DEF ID
<1>2. PICK a \in owners : \A k \in owners : a =< k
  BY <1>1, LeastNumber
<1> DEFINE props == {r[2] : r \in {x \in rows : x[1] = a}}
<1>3. props \subseteq Nat /\ props # {}
  BY StorageAssumption
<1>4. PICK b \in props : \A k \in props : b =< k
  BY <1>3, LeastNumber
<1>5. PICK r \in rows : r[1] = a /\ r[2] = b
  BY <1>4
<1>6. \A s \in rows : r[1] < s[1] \/ (r[1] = s[1] /\ r[2] <= s[2])
  <2>1. TAKE s \in rows
  <2>2. s[1] \in owners /\ a =< s[1] /\ s[1] \in Nat /\ a \in Nat
    BY <1>2, <1>1
  <2>3. CASE a = s[1]
    <3>1. s[2] \in props
      BY <2>3
    <3> QED  BY <3>1, <2>3, <1>4, <1>5
  <2>4. CASE a # s[1]
    BY <2>4, <2>2, <1>5
  <2> QED  BY <2>3, <2>4
<1> QED  BY <1>6 DEF FirstRow

-----------------------------------------------------------------------------
(***************************************************************************)
(* What the statements to do still list.                                   *)
(***************************************************************************)

(* A statement that has begun has rows to delete.                          *)
Full == {s \in Statement : /\ s.what = "objects" => s.ids # {}
                           /\ s.what = "values" => s.rows # {}}

(* The objects, and the rows, that a statement which has begun is to       *)
(* delete, and the objects whose rows are to be found.                     *)
ObjectsListed(todo) == UNION {todo[i].ids : i \in {j \in 1 .. Len(todo) : todo[j].what = "objects"}}
RowsListed(todo) == UNION {todo[i].rows : i \in {j \in 1 .. Len(todo) : todo[j].what = "values"}}
OwnersListed(todo) == UNION {todo[i].ids : i \in {j \in 1 .. Len(todo) : todo[j].what = "its values"}}

LEMMA ListedNone ==
  ObjectsListed(<< >>) = {} /\ RowsListed(<< >>) = {} /\ OwnersListed(<< >>) = {}
BY DEF ObjectsListed, RowsListed, OwnersListed

LEMMA ListedOne ==
  ASSUME NEW s
  PROVE  /\ ObjectsListed(<<s>>) = IF s.what = "objects" THEN s.ids ELSE {}
         /\ RowsListed(<<s>>) = IF s.what = "values" THEN s.rows ELSE {}
         /\ OwnersListed(<<s>>) = IF s.what = "its values" THEN s.ids ELSE {}
<1>1. Len(<<s>>) = 1 /\ <<s>>[1] = s /\ 1 .. 1 = {1}
  OBVIOUS
<1>2. \A x : x \in ObjectsListed(<<s>>) <=> s.what = "objects" /\ x \in s.ids
  BY <1>1 DEF ObjectsListed
<1>3. \A x : x \in RowsListed(<<s>>) <=> s.what = "values" /\ x \in s.rows
  BY <1>1 DEF RowsListed
<1>4. \A x : x \in OwnersListed(<<s>>) <=> s.what = "its values" /\ x \in s.ids
  BY <1>1 DEF OwnersListed
<1> QED  BY <1>2, <1>3, <1>4

(* Indices of a concatenation.                                             *)
LEMMA ListedBoth ==
  ASSUME NEW t \in Seq(Full), NEW u \in Seq(Full)
  PROVE  /\ ObjectsListed(t \o u) = ObjectsListed(t) \cup ObjectsListed(u)
         /\ RowsListed(t \o u) = RowsListed(t) \cup RowsListed(u)
         /\ OwnersListed(t \o u) = OwnersListed(t) \cup OwnersListed(u)
<1> DEFINE both == t \o u
<1>1. Len(t) \in Nat /\ Len(u) \in Nat /\ Len(both) = Len(t) + Len(u)
  OBVIOUS
<1>2. \A i \in 1 .. Len(both) : both[i] = IF i <= Len(t) THEN t[i] ELSE u[i - Len(t)]
  OBVIOUS
<1>3. \A i \in 1 .. Len(t) : i \in 1 .. Len(both) /\ both[i] = t[i]
  BY <1>1, <1>2
<1>4. \A i \in 1 .. Len(u) : i + Len(t) \in 1 .. Len(both) /\ both[i + Len(t)] = u[i]
  <2>1. TAKE i \in 1 .. Len(u)
  <2>2. i + Len(t) \in 1 .. Len(both) /\ ~(i + Len(t) <= Len(t)) /\ (i + Len(t)) - Len(t) = i
    BY <1>1
  <2> QED  BY <2>2, <1>2
<1>5. \A i \in 1 .. Len(both) : \/ i \in 1 .. Len(t) /\ both[i] = t[i]
                                \/ \E j \in 1 .. Len(u) : both[i] = u[j]
  <2>1. TAKE i \in 1 .. Len(both)
  <2>2. CASE i <= Len(t)
    BY <2>2, <1>1, <1>2
  <2>3. CASE ~(i <= Len(t))
    <3>1. i - Len(t) \in 1 .. Len(u)
      BY <2>3, <1>1
    <3> QED  BY <3>1, <2>3, <1>2
  <2> QED  BY <2>2, <2>3
<1> HIDE DEF both
<1>6. ObjectsListed(both) = ObjectsListed(t) \cup ObjectsListed(u)
  <2>1. ASSUME NEW x \in ObjectsListed(both) PROVE x \in ObjectsListed(t) \cup ObjectsListed(u)
    <3>1. PICK i \in 1 .. Len(both) : both[i].what = "objects" /\ x \in both[i].ids
      BY <2>1 DEF ObjectsListed
    <3>2. CASE i \in 1 .. Len(t) /\ both[i] = t[i]
      BY <3>1, <3>2 DEF ObjectsListed
    <3>3. CASE \E j \in 1 .. Len(u) : both[i] = u[j]
      BY <3>1, <3>3 DEF ObjectsListed
    <3> QED  BY <3>2, <3>3, <1>5
  <2>2. ASSUME NEW x \in ObjectsListed(t) PROVE x \in ObjectsListed(both)
    BY <2>2, <1>3 DEF ObjectsListed
  <2>3. ASSUME NEW x \in ObjectsListed(u) PROVE x \in ObjectsListed(both)
    BY <2>3, <1>4 DEF ObjectsListed
  <2> QED  BY <2>1, <2>2, <2>3
<1>7. RowsListed(both) = RowsListed(t) \cup RowsListed(u)
  <2>1. ASSUME NEW x \in RowsListed(both) PROVE x \in RowsListed(t) \cup RowsListed(u)
    <3>1. PICK i \in 1 .. Len(both) : both[i].what = "values" /\ x \in both[i].rows
      BY <2>1 DEF RowsListed
    <3>2. CASE i \in 1 .. Len(t) /\ both[i] = t[i]
      BY <3>1, <3>2 DEF RowsListed
    <3>3. CASE \E j \in 1 .. Len(u) : both[i] = u[j]
      BY <3>1, <3>3 DEF RowsListed
    <3> QED  BY <3>2, <3>3, <1>5
  <2>2. ASSUME NEW x \in RowsListed(t) PROVE x \in RowsListed(both)
    BY <2>2, <1>3 DEF RowsListed
  <2>3. ASSUME NEW x \in RowsListed(u) PROVE x \in RowsListed(both)
    BY <2>3, <1>4 DEF RowsListed
  <2> QED  BY <2>1, <2>2, <2>3
<1>8. OwnersListed(both) = OwnersListed(t) \cup OwnersListed(u)
  <2>1. ASSUME NEW x \in OwnersListed(both) PROVE x \in OwnersListed(t) \cup OwnersListed(u)
    <3>1. PICK i \in 1 .. Len(both) : both[i].what = "its values" /\ x \in both[i].ids
      BY <2>1 DEF OwnersListed
    <3>2. CASE i \in 1 .. Len(t) /\ both[i] = t[i]
      BY <3>1, <3>2 DEF OwnersListed
    <3>3. CASE \E j \in 1 .. Len(u) : both[i] = u[j]
      BY <3>1, <3>3 DEF OwnersListed
    <3> QED  BY <3>2, <3>3, <1>5
  <2>2. ASSUME NEW x \in OwnersListed(t) PROVE x \in OwnersListed(both)
    BY <2>2, <1>3 DEF OwnersListed
  <2>3. ASSUME NEW x \in OwnersListed(u) PROVE x \in OwnersListed(both)
    BY <2>3, <1>4 DEF OwnersListed
  <2> QED  BY <2>1, <2>2, <2>3
<1> QED  BY <1>6, <1>7, <1>8 DEF both

(* The first statement and the others.                                     *)
LEMMA ListedHead ==
  ASSUME NEW t \in Seq(Full), t # << >>
  PROVE  /\ Head(t) \in Full /\ Tail(t) \in Seq(Full)
         /\ ObjectsListed(t) = ObjectsListed(<<Head(t)>>) \cup ObjectsListed(Tail(t))
         /\ RowsListed(t) = RowsListed(<<Head(t)>>) \cup RowsListed(Tail(t))
         /\ OwnersListed(t) = OwnersListed(<<Head(t)>>) \cup OwnersListed(Tail(t))
<1>1. Head(t) \in Full /\ Tail(t) \in Seq(Full)
  OBVIOUS
<1>2. <<Head(t)>> \in Seq(Full)
  BY <1>1
<1>3. <<Head(t)>> \o Tail(t) = t
  OBVIOUS
<1> QED  BY <1>1, <1>2, <1>3, ListedBoth

Running == SUBSET {"objects", "values"}

LEMMA FromObjectsLists ==
  ASSUME NEW ids, ids \subseteq ID, NEW running \in Running
  PROVE  /\ FromObjects(ids, running) \in Seq(Full)
         /\ ObjectsListed(FromObjects(ids, running)) = ids
         /\ RowsListed(FromObjects(ids, running)) = {}
         /\ OwnersListed(FromObjects(ids, running)) = {}
<1>1. CASE ids = {}
  <2>1. FromObjects(ids, running) = << >>
    BY <1>1 DEF FromObjects
  <2> QED  BY <2>1, <1>1, ListedNone
<1>2. CASE ids # {}
  <2> DEFINE s == [what |-> "objects", ids |-> ids, rows |-> {}, running |-> running]
  <2>1. FromObjects(ids, running) = <<s>>
    BY <1>2 DEF FromObjects
  <2>2. s \in Full
    BY <1>2 DEF Full, Statement, Running
  <2>3. s.what = "objects" /\ s.ids = ids
    OBVIOUS
  <2> HIDE DEF s
  <2>4. <<s>> \in Seq(Full)
    BY <2>2
  <2> QED  BY <2>1, <2>3, <2>4, ListedOne
<1> QED  BY <1>1, <1>2

LEMMA FromValuesLists ==
  ASSUME NEW rows, rows \subseteq ID \X Property, NEW running \in Running
  PROVE  /\ FromValues(rows, running) \in Seq(Full)
         /\ ObjectsListed(FromValues(rows, running)) = {}
         /\ RowsListed(FromValues(rows, running)) = rows
         /\ OwnersListed(FromValues(rows, running)) = {}
<1>1. CASE rows = {}
  <2>1. FromValues(rows, running) = << >>
    BY <1>1 DEF FromValues
  <2> QED  BY <2>1, <1>1, ListedNone
<1>2. CASE rows # {}
  <2> DEFINE s == [what |-> "values", ids |-> {}, rows |-> rows, running |-> running]
  <2>1. FromValues(rows, running) = <<s>>
    BY <1>2 DEF FromValues
  <2>2. s \in Full
    BY <1>2 DEF Full, Statement, Running
  <2>3. s.what = "values" /\ s.rows = rows
    OBVIOUS
  <2> HIDE DEF s
  <2>4. <<s>> \in Seq(Full)
    BY <2>2
  <2> QED  BY <2>1, <2>3, <2>4, ListedOne
<1> QED  BY <1>1, <1>2

LEMMA Pair ==
  ASSUME NEW a, NEW b
  PROVE  <<a>> \o <<b>> = <<a, b>>
<1>1. PICK r : r = <<a>> \o <<b>>
  OBVIOUS
<1>2. Len(r) = 2 /\ r[1] = a /\ r[2] = b
  BY <1>1
<1>3. r \in Seq({a, b})
  <2>1. <<a>> \in Seq({a, b}) /\ <<b>> \in Seq({a, b})
    OBVIOUS
  <2>2. \A S, p, q : p \in Seq(S) /\ q \in Seq(S) => p \o q \in Seq(S)
    OBVIOUS
  <2> QED  BY ONLY <1>1, <2>1, <2>2
<1>4. r = <<r[1], r[2]>>
  BY ONLY <1>2, <1>3
<1> QED  BY <1>1, <1>2, <1>4

(* The statements of a trigger that have not begun.                        *)
LEMMA AboutLists ==
  ASSUME NEW o \in ID, NEW running \in Running
  PROVE  LET t == <<About("to themselves", o, running), About("its values", o, running)>>
         IN /\ t \in Seq(Full)
            /\ ObjectsListed(t) = {} /\ RowsListed(t) = {} /\ OwnersListed(t) = {o}
<1> DEFINE a == About("to themselves", o, running)
           b == About("its values", o, running)
<1>1. a \in Full /\ b \in Full
  BY DEF About, Full, Statement, Running
<1>2. a.what = "to themselves" /\ b.what = "its values" /\ b.ids = {o}
  BY DEF About
<1> HIDE DEF a, b
<1>3. <<a>> \in Seq(Full) /\ <<b>> \in Seq(Full) /\ <<a, b>> \in Seq(Full)
  BY <1>1
<1>4. /\ ObjectsListed(<<a>>) = {} /\ RowsListed(<<a>>) = {} /\ OwnersListed(<<a>>) = {}
      /\ ObjectsListed(<<b>>) = {} /\ RowsListed(<<b>>) = {} /\ OwnersListed(<<b>>) = {o}
  BY <1>2, ListedOne
<1>5. <<a, b>> = <<a>> \o <<b>>
  BY Pair
<1>6. ObjectsListed(<<a, b>>) = {} /\ RowsListed(<<a, b>>) = {} /\ OwnersListed(<<a, b>>) = {o}
  BY <1>3, <1>4, <1>5, ListedBoth
<1> QED  BY <1>3, <1>6 DEF a, b

-----------------------------------------------------------------------------
(***************************************************************************)
(* What a step does, in these terms.                                       *)
(***************************************************************************)

Typed(e) ==
  e \in [objects : SUBSET DOMAIN objects, values : SUBSET DOMAIN values, todo : Seq(Full)]

LEMMA TypedExecution ==
  ASSUME TypeOK, NEW e, Typed(e)
  PROVE  e \in Execution
<1>1. DOMAIN objects \subseteq ID /\ DOMAIN values \subseteq ID \X Property
  BY DEF TypeOK
<1>2. e.todo \in Seq(Statement)
  <2>1. e.todo \in Seq(Full)
    BY DEF Typed
  <2>2. Full \subseteq Statement
    BY DEF Full
  <2>3. Len(e.todo) \in Nat /\ e.todo \in [1 .. Len(e.todo) -> Full]
    BY <2>1
  <2>4. e.todo \in [1 .. Len(e.todo) -> Statement]
    BY <2>2, <2>3
  <2> QED  BY <2>3, <2>4, SeqDef
<1> QED  BY <1>1, <1>2 DEF Typed, Execution

(* Values that refer to something.                                         *)
LEMMA ValueTyped ==
  ASSUME TypeOK, NEW r \in DOMAIN values
  PROVE  /\ values[r].value \in ID /\ r \in ID \X Property /\ r[1] \in ID
         /\ values[r] = [value |-> values[r].value, ctlv |-> values[r].ctlv]
<1>1. values[r] \in [value : ID, ctlv : Ctlv] /\ r \in ID \X Property
  BY DEF TypeOK
<1> QED  BY <1>1

LEMMA TargetsTyped ==
  ASSUME TypeOK, NEW e, Typed(e), NEW o
  PROVE  Targets(e, o) \subseteq ID
<1>1. e.values \subseteq DOMAIN values
  BY DEF Typed
<1> QED  BY <1>1, ValueTyped DEF Targets

(* A step of an execution.                                                 *)
Stepped(e) == Step(e, Head(e.todo))

(* An object goes, or had gone.                                            *)
ObjectGoes(e, f, o) ==
  /\ Typed(f) /\ o \in ObjectsListed(e.todo)
  /\ f.objects = e.objects \ {o} /\ f.values = e.values
  /\ ObjectsListed(e.todo) \ {o} \subseteq ObjectsListed(f.todo)
  /\ ObjectsListed(f.todo) \subseteq ObjectsListed(e.todo) \cup Targets(e, o)
  /\ o \notin e.objects => ObjectsListed(f.todo) \subseteq ObjectsListed(e.todo)
  /\ RowsListed(f.todo) = RowsListed(e.todo)
  /\ OwnersListed(e.todo) \subseteq OwnersListed(f.todo)
  /\ OwnersListed(f.todo) \subseteq OwnersListed(e.todo) \cup {o}
  /\ "recursive_triggers" \in pragmas /\ o \in e.objects =>
       Targets(e, o) \subseteq ObjectsListed(f.todo) /\ o \in OwnersListed(f.todo)

(* A row goes, or had gone.                                                *)
RowGoes(e, f, r) ==
  /\ Typed(f) /\ r \in RowsListed(e.todo)
  /\ f.objects = e.objects /\ f.values = e.values \ {r}
  /\ ObjectsListed(e.todo) \subseteq ObjectsListed(f.todo)
  /\ \A o \in ObjectsListed(f.todo) \ ObjectsListed(e.todo) :
       /\ r \in e.values /\ values[r] = [value |-> o, ctlv |-> WeakReference]
       /\ objects[o].ctlo = 1
  /\ RowsListed(e.todo) \ {r} \subseteq RowsListed(f.todo)
  /\ RowsListed(f.todo) \subseteq RowsListed(e.todo)
  /\ OwnersListed(f.todo) = OwnersListed(e.todo)

(* A statement finds its rows.                                             *)
RowsFound(e, f) ==
  /\ Typed(f) /\ f.objects = e.objects /\ f.values = e.values
  /\ ObjectsListed(f.todo) = ObjectsListed(e.todo)
  /\ RowsListed(e.todo) \subseteq RowsListed(f.todo)
  /\ \A r \in RowsListed(f.todo) \ RowsListed(e.todo) :
       r \in e.values /\ (r[1] \in OwnersListed(e.todo) \/ values[r].value = r[1])
  /\ OwnersListed(f.todo) \subseteq OwnersListed(e.todo)
  /\ \A r \in e.values : r[1] \in OwnersListed(e.todo) \ OwnersListed(f.todo) =>
       r \in RowsListed(f.todo)

LEMMA ListedThree ==
  ASSUME NEW t \in Seq(Full), NEW u \in Seq(Full), NEW v \in Seq(Full)
  PROVE  /\ t \o u \o v \in Seq(Full)
         /\ ObjectsListed(t \o u \o v) = ObjectsListed(t) \cup ObjectsListed(u) \cup ObjectsListed(v)
         /\ RowsListed(t \o u \o v) = RowsListed(t) \cup RowsListed(u) \cup RowsListed(v)
         /\ OwnersListed(t \o u \o v) = OwnersListed(t) \cup OwnersListed(u) \cup OwnersListed(v)
<1>1. PICK w : w = t \o u
  OBVIOUS
<1>2. w \in Seq(Full)
  BY <1>1
<1>3. w \o v \in Seq(Full)
  BY <1>2
<1>4. /\ ObjectsListed(w) = ObjectsListed(t) \cup ObjectsListed(u)
      /\ RowsListed(w) = RowsListed(t) \cup RowsListed(u)
      /\ OwnersListed(w) = OwnersListed(t) \cup OwnersListed(u)
  BY <1>1, ListedBoth
<1>5. /\ ObjectsListed(w \o v) = ObjectsListed(w) \cup ObjectsListed(v)
      /\ RowsListed(w \o v) = RowsListed(w) \cup RowsListed(v)
      /\ OwnersListed(w \o v) = OwnersListed(w) \cup OwnersListed(v)
  BY <1>2, ListedBoth
<1> QED  BY <1>1, <1>3, <1>4, <1>5, Zenon

LEMMA ObjectTriggerLists ==
  ASSUME TypeOK, NEW e, Typed(e), NEW o \in ID, NEW running \in Running
  PROVE  LET t == trigObjectsAfterDelete(e, o, running)
         IN /\ t \in Seq(Full)
            /\ ObjectsListed(t) = Targets(e, o) /\ RowsListed(t) = {} /\ OwnersListed(t) = {o}
<1>1. PICK t : t = FromObjects(Targets(e, o), running)
  OBVIOUS
<1>2. PICK u : u = <<About("to themselves", o, running), About("its values", o, running)>>
  OBVIOUS
<1>3. /\ t \in Seq(Full)
      /\ ObjectsListed(t) = Targets(e, o) /\ RowsListed(t) = {} /\ OwnersListed(t) = {}
  BY <1>1, TargetsTyped, FromObjectsLists
<1>4. u \in Seq(Full) /\ ObjectsListed(u) = {} /\ RowsListed(u) = {} /\ OwnersListed(u) = {o}
  BY <1>2, AboutLists
<1>5. trigObjectsAfterDelete(e, o, running) = t \o u
  BY <1>1, <1>2 DEF trigObjectsAfterDelete
<1>6. t \o u \in Seq(Full)
  BY <1>3, <1>4
<1>7. /\ ObjectsListed(t \o u) = ObjectsListed(t) \cup ObjectsListed(u)
      /\ RowsListed(t \o u) = RowsListed(t) \cup RowsListed(u)
      /\ OwnersListed(t \o u) = OwnersListed(t) \cup OwnersListed(u)
  BY <1>3, <1>4, ListedBoth
<1>8. /\ ObjectsListed(t \o u) = Targets(e, o)
      /\ RowsListed(t \o u) = {} /\ OwnersListed(t \o u) = {o}
  BY ONLY <1>3, <1>4, <1>7
<1> QED  BY <1>5, <1>6, <1>8, Zenon

LEMMA ValueTriggerLists ==
  ASSUME TypeOK, NEW e, Typed(e), NEW r \in e.values, NEW running \in Running
  PROVE  LET t == trigValuesAfterDelete(e, r, running)
         IN /\ t \in Seq(Full) /\ RowsListed(t) = {} /\ OwnersListed(t) = {}
            /\ \A o \in ObjectsListed(t) :
                 values[r] = [value |-> o, ctlv |-> WeakReference] /\ objects[o].ctlo = 1
<1>1. r \in DOMAIN values
  BY DEF Typed
<1>2. /\ values[r].value \in ID
      /\ values[r] = [value |-> values[r].value, ctlv |-> values[r].ctlv]
  BY <1>1, ValueTyped
<1>3. CASE trigValuesAfterDelete(e, r, running) = << >>
  BY <1>3, ListedNone
<1>4. CASE trigValuesAfterDelete(e, r, running) # << >>
  <2>1. /\ trigValuesAfterDelete(e, r, running) = FromObjects({values[r].value}, running)
        /\ values[r].ctlv = WeakReference /\ objects[values[r].value].ctlo = 1
    BY <1>4 DEF trigValuesAfterDelete
  <2>2. {values[r].value} \subseteq ID
    BY <1>2
  <2>3. PICK t : t = FromObjects({values[r].value}, running)
    OBVIOUS
  <2>4. /\ t \in Seq(Full) /\ RowsListed(t) = {} /\ OwnersListed(t) = {}
        /\ ObjectsListed(t) = {values[r].value}
    BY <2>2, <2>3, FromObjectsLists
  <2>5. \A o \in ObjectsListed(t) : o = values[r].value
    BY <2>4
  <2>6. \A o \in ObjectsListed(t) :
          values[r] = [value |-> o, ctlv |-> WeakReference] /\ objects[o].ctlo = 1
    BY ONLY <2>5, <2>1, <1>2
  <2>7. trigValuesAfterDelete(e, r, running) = t
    BY <2>1, <2>3
  <2> QED  BY <2>4, <2>6, <2>7, Zenon
<1> QED  BY <1>3, <1>4

(* The head of the statements to do.                                       *)
LEMMA HeadTyped ==
  ASSUME NEW e, Typed(e), e.todo # << >>
  PROVE  /\ Head(e.todo) \in Full /\ Tail(e.todo) \in Seq(Full)
         /\ Head(e.todo).ids \subseteq ID /\ Head(e.todo).rows \subseteq ID \X Property
         /\ Head(e.todo).running \in Running
         /\ ObjectsListed(e.todo) = ObjectsListed(<<Head(e.todo)>>) \cup ObjectsListed(Tail(e.todo))
         /\ RowsListed(e.todo) = RowsListed(<<Head(e.todo)>>) \cup RowsListed(Tail(e.todo))
         /\ OwnersListed(e.todo) = OwnersListed(<<Head(e.todo)>>) \cup OwnersListed(Tail(e.todo))
<1>1. e.todo \in Seq(Full)
  BY DEF Typed
<1>2. Head(e.todo) \in Full
  BY <1>1, ListedHead
<1>3. Head(e.todo) \in Statement
  BY <1>2 DEF Full
<1>4. /\ Head(e.todo).ids \subseteq ID /\ Head(e.todo).rows \subseteq ID \X Property
      /\ Head(e.todo).running \in Running
  BY <1>3 DEF Statement, Running
<1> QED  BY <1>1, <1>4, ListedHead

LEMMA ObjectStep ==
  ASSUME TypeOK, NEW e, Typed(e), e.todo # << >>, Head(e.todo).what = "objects"
  PROVE  \E o : ObjectGoes(e, Stepped(e), o)
<1>1. PICK s : s = Head(e.todo)
  OBVIOUS
<1>2. PICK o : o = Min(s.ids)
  OBVIOUS
<1>3. s.what = "objects" /\ s.ids \subseteq ID /\ s.ids # {} /\ s.running \in Running
  BY <1>1, HeadTyped DEF Full
<1>4. o \in s.ids /\ o \in ID
  BY <1>2, <1>3, MinIsMember
<1>5. PICK t : t = IF o \in e.objects /\ Fires("objects", s.running)
                   THEN trigObjectsAfterDelete(e, o, s.running \cup {"objects"}) ELSE << >>
  OBVIOUS
<1>6. PICK u : u = FromObjects(s.ids \ {o}, s.running)
  OBVIOUS
<1>7. PICK v : v = Tail(e.todo)
  OBVIOUS
<1>8. /\ t \in Seq(Full) /\ RowsListed(t) = {}
      /\ ObjectsListed(t) \subseteq Targets(e, o) /\ OwnersListed(t) \subseteq {o}
      /\ o \notin e.objects => ObjectsListed(t) = {}
      /\ "recursive_triggers" \in pragmas /\ o \in e.objects =>
           ObjectsListed(t) = Targets(e, o) /\ OwnersListed(t) = {o}
  <2>1. CASE o \in e.objects /\ Fires("objects", s.running)
    <3>1. s.running \cup {"objects"} \in Running
      BY <1>3 DEF Running
    <3>2. t = trigObjectsAfterDelete(e, o, s.running \cup {"objects"})
      BY <2>1, <1>5
    <3> QED  BY <2>1, <3>1, <3>2, <1>4, ObjectTriggerLists
  <2>2. CASE ~(o \in e.objects /\ Fires("objects", s.running))
    <3>1. t = << >>
      BY <2>2, <1>5
    <3>2. ~("recursive_triggers" \in pragmas /\ o \in e.objects)
      BY <2>2 DEF Fires
    <3>3. << >> \in Seq(Full)
      OBVIOUS
    <3> QED  BY <3>1, <3>2, <3>3, ListedNone
  <2> QED  BY <2>1, <2>2
<1>9. /\ u \in Seq(Full) /\ ObjectsListed(u) = s.ids \ {o}
      /\ RowsListed(u) = {} /\ OwnersListed(u) = {}
  BY <1>3, <1>6, FromObjectsLists
<1>10. /\ v \in Seq(Full)
       /\ ObjectsListed(e.todo) = s.ids \cup ObjectsListed(v)
       /\ RowsListed(e.todo) = RowsListed(v) /\ OwnersListed(e.todo) = OwnersListed(v)
  BY <1>1, <1>3, <1>7, HeadTyped, ListedOne
<1>11. Stepped(e) = [objects |-> e.objects \ {o}, values |-> e.values, todo |-> t \o u \o v]
  BY <1>1, <1>2, <1>3, <1>5, <1>6, <1>7 DEF Stepped, Step, NextObject
<1>12. PICK f : f = Stepped(e)
  OBVIOUS
<1>13. f.objects = e.objects \ {o} /\ f.values = e.values /\ f.todo = t \o u \o v
  BY <1>11, <1>12
<1>14. /\ f.todo \in Seq(Full)
       /\ ObjectsListed(f.todo) = ObjectsListed(t) \cup (s.ids \ {o}) \cup ObjectsListed(v)
       /\ RowsListed(f.todo) = RowsListed(e.todo)
       /\ OwnersListed(f.todo) = OwnersListed(t) \cup OwnersListed(e.todo)
  <2>1. t \in Seq(Full) /\ u \in Seq(Full) /\ v \in Seq(Full)
    BY <1>8, <1>9, <1>10
  <2>2. /\ t \o u \o v \in Seq(Full)
        /\ ObjectsListed(t \o u \o v) = ObjectsListed(t) \cup ObjectsListed(u) \cup ObjectsListed(v)
        /\ RowsListed(t \o u \o v) = RowsListed(t) \cup RowsListed(u) \cup RowsListed(v)
        /\ OwnersListed(t \o u \o v) = OwnersListed(t) \cup OwnersListed(u) \cup OwnersListed(v)
    BY <2>1, ListedThree
  <2>3. f.todo = t \o u \o v
    BY <1>13
  <2> QED  BY ONLY <2>2, <2>3, <1>8, <1>9, <1>10
<1>15. Typed(f)
  BY <1>11, <1>12, <1>13, <1>14 DEF Typed
<1>16. ObjectGoes(e, f, o)
  BY <1>4, <1>8, <1>10, <1>13, <1>14, <1>15 DEF ObjectGoes
<1> QED  BY <1>12, <1>16

LEMMA RowStep ==
  ASSUME TypeOK, NEW e, Typed(e), e.todo # << >>, Head(e.todo).what = "values"
  PROVE  \E r : RowGoes(e, Stepped(e), r)
<1>1. PICK s : s = Head(e.todo)
  OBVIOUS
<1>2. PICK r : r = FirstRow(s.rows)
  OBVIOUS
<1>3. s.what = "values" /\ s.rows \subseteq ID \X Property /\ s.rows # {} /\ s.running \in Running
  BY <1>1, HeadTyped DEF Full
<1>4. r \in s.rows
  BY <1>2, <1>3, FirstRowIsMember
<1>5. PICK t : t = IF r \in e.values /\ Fires("values", s.running)
                   THEN trigValuesAfterDelete(e, r, s.running \cup {"values"}) ELSE << >>
  OBVIOUS
<1>6. PICK u : u = FromValues(s.rows \ {r}, s.running)
  OBVIOUS
<1>7. PICK v : v = Tail(e.todo)
  OBVIOUS
<1>8. /\ t \in Seq(Full) /\ RowsListed(t) = {} /\ OwnersListed(t) = {}
      /\ \A o \in ObjectsListed(t) :
           /\ r \in e.values /\ values[r] = [value |-> o, ctlv |-> WeakReference]
           /\ objects[o].ctlo = 1
  <2>1. CASE r \in e.values /\ Fires("values", s.running)
    <3>1. s.running \cup {"values"} \in Running
      BY <1>3 DEF Running
    <3>2. t = trigValuesAfterDelete(e, r, s.running \cup {"values"})
      BY <2>1, <1>5
    <3>3. /\ t \in Seq(Full) /\ RowsListed(t) = {} /\ OwnersListed(t) = {}
          /\ \A o \in ObjectsListed(t) :
               values[r] = [value |-> o, ctlv |-> WeakReference] /\ objects[o].ctlo = 1
      BY <2>1, <3>1, <3>2, ValueTriggerLists, Zenon
    <3> QED  BY <2>1, <3>3, Zenon
  <2>2. CASE ~(r \in e.values /\ Fires("values", s.running))
    <3>1. t = << >>
      BY <2>2, <1>5
    <3>2. << >> \in Seq(Full)
      OBVIOUS
    <3> QED  BY <3>1, <3>2, ListedNone
  <2> QED  BY <2>1, <2>2
<1>9. /\ u \in Seq(Full) /\ ObjectsListed(u) = {}
      /\ RowsListed(u) = s.rows \ {r} /\ OwnersListed(u) = {}
  BY <1>3, <1>6, FromValuesLists
<1>10. /\ v \in Seq(Full)
       /\ ObjectsListed(e.todo) = ObjectsListed(v)
       /\ RowsListed(e.todo) = s.rows \cup RowsListed(v) /\ OwnersListed(e.todo) = OwnersListed(v)
  BY <1>1, <1>3, <1>7, HeadTyped, ListedOne
<1>11. Stepped(e) = [objects |-> e.objects, values |-> e.values \ {r}, todo |-> t \o u \o v]
  BY <1>1, <1>2, <1>3, <1>5, <1>6, <1>7 DEF Stepped, Step, NextRow
<1>12. PICK f : f = Stepped(e)
  OBVIOUS
<1>13. f.objects = e.objects /\ f.values = e.values \ {r} /\ f.todo = t \o u \o v
  BY <1>11, <1>12
<1>14. /\ f.todo \in Seq(Full)
       /\ ObjectsListed(f.todo) = ObjectsListed(t) \cup ObjectsListed(e.todo)
       /\ RowsListed(f.todo) = (s.rows \ {r}) \cup RowsListed(v)
       /\ OwnersListed(f.todo) = OwnersListed(e.todo)
  <2>1. t \in Seq(Full) /\ u \in Seq(Full) /\ v \in Seq(Full)
    BY <1>8, <1>9, <1>10
  <2>2. /\ t \o u \o v \in Seq(Full)
        /\ ObjectsListed(t \o u \o v) = ObjectsListed(t) \cup ObjectsListed(u) \cup ObjectsListed(v)
        /\ RowsListed(t \o u \o v) = RowsListed(t) \cup RowsListed(u) \cup RowsListed(v)
        /\ OwnersListed(t \o u \o v) = OwnersListed(t) \cup OwnersListed(u) \cup OwnersListed(v)
    BY <2>1, ListedThree
  <2>3. f.todo = t \o u \o v
    BY <1>13
  <2> QED  BY ONLY <2>2, <2>3, <1>8, <1>9, <1>10
<1>15. Typed(f)
  BY <1>11, <1>12, <1>13, <1>14 DEF Typed
<1>16. RowGoes(e, f, r)
  BY <1>4, <1>8, <1>10, <1>13, <1>14, <1>15 DEF RowGoes
<1> QED  BY <1>12, <1>16

LEMMA FindStep ==
  ASSUME TypeOK, NEW e, Typed(e), e.todo # << >>,
         Head(e.todo).what \notin {"objects", "values"}
  PROVE  RowsFound(e, Stepped(e))
<1>1. PICK s : s = Head(e.todo)
  OBVIOUS
<1>2. PICK rows : rows = RowsFor(e, s)
  OBVIOUS
<1>3. s.what \notin {"objects", "values"} /\ s.running \in Running
  BY <1>1, HeadTyped
<1>4. /\ rows \subseteq e.values
      /\ s.what = "its values" => rows = {r \in e.values : r[1] \in s.ids}
      /\ s.what # "its values" => \A r \in rows : values[r].value = r[1]
  BY <1>2 DEF RowsFor
<1>5. rows \subseteq ID \X Property
  BY <1>4 DEF Typed, TypeOK
<1>6. PICK u : u = FromValues(rows, s.running)
  OBVIOUS
<1>7. PICK v : v = Tail(e.todo)
  OBVIOUS
<1>8. u \in Seq(Full) /\ ObjectsListed(u) = {} /\ RowsListed(u) = rows /\ OwnersListed(u) = {}
  BY <1>3, <1>5, <1>6, FromValuesLists
<1>9. /\ v \in Seq(Full)
      /\ ObjectsListed(e.todo) = ObjectsListed(v) /\ RowsListed(e.todo) = RowsListed(v)
      /\ OwnersListed(e.todo) = (IF s.what = "its values" THEN s.ids ELSE {}) \cup OwnersListed(v)
  BY <1>1, <1>3, <1>7, HeadTyped, ListedOne
<1>10. Stepped(e) = [e EXCEPT !.todo = u \o v]
  BY <1>1, <1>2, <1>3, <1>6, <1>7 DEF Stepped, Step, Begin
<1>11. PICK f : f = Stepped(e)
  OBVIOUS
<1>12. f = [objects |-> e.objects, values |-> e.values, todo |-> u \o v]
  BY <1>10, <1>11 DEF Typed
<1>13. f.objects = e.objects /\ f.values = e.values /\ f.todo = u \o v
  BY <1>12
<1>14. /\ f.todo \in Seq(Full)
       /\ ObjectsListed(f.todo) = ObjectsListed(e.todo)
       /\ RowsListed(f.todo) = rows \cup RowsListed(e.todo)
       /\ OwnersListed(f.todo) = OwnersListed(v)
  <2>1. u \o v \in Seq(Full)
    <3>1. u \in Seq(Full) /\ v \in Seq(Full)
      BY <1>8, <1>9
    <3> QED  BY ONLY <3>1
  <2>2. /\ ObjectsListed(u \o v) = ObjectsListed(u) \cup ObjectsListed(v)
        /\ RowsListed(u \o v) = RowsListed(u) \cup RowsListed(v)
        /\ OwnersListed(u \o v) = OwnersListed(u) \cup OwnersListed(v)
    BY <1>8, <1>9, ListedBoth
  <2>3. f.todo = u \o v
    BY <1>13
  <2> QED  BY ONLY <2>1, <2>2, <2>3, <1>8, <1>9
<1>15. Typed(f)
  BY <1>12, <1>14, <1>13 DEF Typed
<1>16. \A r \in rows : r \in e.values /\ (r[1] \in OwnersListed(e.todo) \/ values[r].value = r[1])
  BY <1>4, <1>9
<1>17. \A r \in e.values : r[1] \in OwnersListed(e.todo) \ OwnersListed(f.todo) => r \in rows
  BY <1>4, <1>9, <1>14
<1>18. RowsFound(e, f)
  BY <1>9, <1>13, <1>14, <1>15, <1>16, <1>17 DEF RowsFound
<1> QED  BY <1>11, <1>18

(* Every step is one of the three.                                         *)
LEMMA EachStep ==
  ASSUME TypeOK, NEW e, Typed(e), e.todo # << >>
  PROVE  \/ \E o : ObjectGoes(e, Stepped(e), o)
         \/ \E r : RowGoes(e, Stepped(e), r)
         \/ RowsFound(e, Stepped(e))
BY ObjectStep, RowStep, FindStep

-----------------------------------------------------------------------------
(***************************************************************************)
(* What holds throughout the execution of a statement that was to delete   *)
(* the objects ids or the rows rows.                                       *)
(***************************************************************************)

GoneFrom(e) == DOMAIN objects \ e.objects

(* Why an object goes.                                                     *)
Reason(e, ids, o) ==
  \/ o \in ids
  \/ \E g \in GoneFrom(e) \ {o} : o \in RefersTo(g, CascadeReference)
  \/ /\ objects[o].ctlo = 1
     /\ \E r \in DOMAIN values \ e.values : values[r] = [value |-> o, ctlv |-> WeakReference]

HasReasons(e, ids) ==
  \A o \in GoneFrom(e) \cup (ObjectsListed(e.todo) \cap e.objects) : Reason(e, ids, o)

(* What was asked for goes.                                                *)
AskedGo(e, ids) == ids \cap e.objects \subseteq ObjectsListed(e.todo)

(* With recursive triggers a row is left whose object has gone only where  *)
(* a statement still sees to it;                                           *)
Owned(e) ==
  \A r \in e.values :
    r[1] \in e.objects \/ r[1] \in OwnersListed(e.todo) \/ r \in RowsListed(e.todo)

(* rows go that were asked for, or whose object goes or is what they       *)
(* refer to;                                                               *)
RowsDropped(e, rows) ==
  /\ \A r \in (DOMAIN values \ e.values) \cup RowsListed(e.todo) :
       r \in rows \/ r[1] \notin e.objects \/ values[r].value = r[1]
  /\ OwnersListed(e.todo) \cap e.objects = {}

(* and so what a gone object refers to for cascade is gone, or to go.      *)
Cascaded(e, rows) ==
  \A r \in DOMAIN values \ rows :
    r[1] \in GoneFrom(e) /\ values[r].ctlv = CascadeReference =>
      values[r].value \notin e.objects \/ values[r].value \in ObjectsListed(e.todo)

Sound(e, ids, rows) ==
  /\ Typed(e) /\ HasReasons(e, ids) /\ AskedGo(e, ids)
  /\ "recursive_triggers" \in pragmas => Owned(e) /\ RowsDropped(e, rows) /\ Cascaded(e, rows)

LEMMA ReasonsStay ==
  ASSUME NEW e, NEW f, f.objects \subseteq e.objects, f.values \subseteq e.values,
         NEW ids, NEW o, Reason(e, ids, o)
  PROVE  Reason(f, ids, o)
BY DEF Reason, GoneFrom

LEMMA ObjectGoesKeeps ==
  ASSUME TypeOK, NEW e, NEW f, NEW o, ObjectGoes(e, f, o),
         NEW ids, NEW rows, Sound(e, ids, rows)
  PROVE  Sound(f, ids, rows)
<1>1. HasReasons(f, ids)
  <2>1. \A x : Reason(e, ids, x) => Reason(f, ids, x)
    BY ReasonsStay DEF ObjectGoes
  <2>2. ASSUME NEW x \in GoneFrom(f) PROVE Reason(f, ids, x)
    <3>1. x \in GoneFrom(e) \/ (x = o /\ x \in e.objects)
      BY <2>2 DEF ObjectGoes, GoneFrom
    <3>2. Reason(e, ids, x)
      BY <3>1 DEF ObjectGoes, Sound, HasReasons
    <3> QED  BY <3>2, <2>1
  <2>3. ASSUME NEW x \in ObjectsListed(f.todo) \cap f.objects PROVE Reason(f, ids, x)
    <3>1. CASE x \in ObjectsListed(e.todo)
      <4>1. x \in ObjectsListed(e.todo) \cap e.objects
        BY <3>1, <2>3 DEF ObjectGoes
      <4>2. Reason(e, ids, x)
        BY <4>1 DEF Sound, HasReasons
      <4> QED  BY <4>2, <2>1
    <3>2. CASE x \notin ObjectsListed(e.todo)
      <4>1. o \in e.objects /\ x \in Targets(e, o) /\ x # o
        BY <3>2, <2>3 DEF ObjectGoes
      <4>2. e.values \subseteq DOMAIN values /\ o \in DOMAIN objects
        BY <4>1 DEF Sound, Typed
      <4>3. x \in RefersTo(o, CascadeReference)
        BY <4>1, <4>2 DEF Targets, RefersTo
      <4>4. o \in GoneFrom(f) \ {x}
        BY <4>1, <4>2 DEF ObjectGoes, GoneFrom
      <4> QED  BY <4>3, <4>4 DEF Reason
    <3> QED  BY <3>1, <3>2
  <2> QED  BY <2>2, <2>3 DEF HasReasons
<1>2. AskedGo(f, ids)
  BY DEF AskedGo, Sound, ObjectGoes
<1>3. ASSUME "recursive_triggers" \in pragmas
      PROVE  Owned(f) /\ RowsDropped(f, rows) /\ Cascaded(f, rows)
  <2>1. Owned(f)
    BY <1>3 DEF Owned, Sound, ObjectGoes
  <2>2. RowsDropped(f, rows)
    BY <1>3 DEF RowsDropped, Sound, ObjectGoes
  <2>3. Cascaded(f, rows)
    <3>1. SUFFICES ASSUME NEW r \in DOMAIN values \ rows, r[1] \in GoneFrom(f),
                          values[r].ctlv = CascadeReference, values[r].value \in f.objects
                   PROVE  values[r].value \in ObjectsListed(f.todo)
      BY DEF Cascaded
    <3>2. values[r].value \in e.objects /\ values[r].value # o
      BY <3>1 DEF ObjectGoes
    <3>3. CASE r[1] \in GoneFrom(e)
      <4>1. values[r].value \in ObjectsListed(e.todo)
        BY <3>1, <3>2, <3>3, <1>3 DEF Sound, Cascaded
      <4> QED  BY <4>1, <3>2 DEF ObjectGoes
    <3>4. CASE r[1] \notin GoneFrom(e)
      <4>1. r[1] = o /\ o \in e.objects
        BY <3>1, <3>4 DEF ObjectGoes, GoneFrom
      <4>2. r \in e.values
        BY <3>1, <3>2, <4>1, <1>3 DEF Sound, RowsDropped
      <4>3. values[r].value \in Targets(e, o)
        BY <4>1, <4>2, <3>1 DEF Targets
      <4> QED  BY <4>1, <4>3, <1>3 DEF ObjectGoes
    <3> QED  BY <3>3, <3>4
  <2> QED  BY <2>1, <2>2, <2>3
<1>4. Typed(f)
  BY DEF ObjectGoes
<1> QED  BY <1>1, <1>2, <1>3, <1>4 DEF Sound

LEMMA RowGoesKeeps ==
  ASSUME TypeOK, NEW e, NEW f, NEW r, RowGoes(e, f, r),
         NEW ids, NEW rows, Sound(e, ids, rows)
  PROVE  Sound(f, ids, rows)
<1>1. HasReasons(f, ids)
  <2>1. \A x : Reason(e, ids, x) => Reason(f, ids, x)
    BY ReasonsStay DEF RowGoes
  <2>2. ASSUME NEW x \in GoneFrom(f) PROVE Reason(f, ids, x)
    <3>1. Reason(e, ids, x)
      BY <2>2 DEF RowGoes, GoneFrom, Sound, HasReasons
    <3> QED  BY <3>1, <2>1
  <2>3. ASSUME NEW x \in ObjectsListed(f.todo) \cap f.objects PROVE Reason(f, ids, x)
    <3>1. CASE x \in ObjectsListed(e.todo)
      <4>1. Reason(e, ids, x)
        BY <3>1, <2>3 DEF RowGoes, Sound, HasReasons
      <4> QED  BY <4>1, <2>1
    <3>2. CASE x \notin ObjectsListed(e.todo)
      <4>1. /\ r \in e.values /\ values[r] = [value |-> x, ctlv |-> WeakReference]
            /\ objects[x].ctlo = 1
        BY <3>2, <2>3 DEF RowGoes
      <4>2. r \in DOMAIN values \ f.values
        BY <4>1 DEF RowGoes, Sound, Typed
      <4> QED  BY <4>1, <4>2 DEF Reason
    <3> QED  BY <3>1, <3>2
  <2> QED  BY <2>2, <2>3 DEF HasReasons
<1>2. AskedGo(f, ids)
  BY DEF AskedGo, Sound, RowGoes
<1>3. ASSUME "recursive_triggers" \in pragmas
      PROVE  Owned(f) /\ RowsDropped(f, rows) /\ Cascaded(f, rows)
  <2>1. Owned(f)
    BY <1>3 DEF Owned, Sound, RowGoes
  <2>2. RowsDropped(f, rows)
    BY <1>3 DEF RowsDropped, Sound, RowGoes
  <2>3. Cascaded(f, rows)
    BY <1>3 DEF Cascaded, Sound, RowGoes, GoneFrom
  <2> QED  BY <2>1, <2>2, <2>3
<1>4. Typed(f)
  BY DEF RowGoes
<1> QED  BY <1>1, <1>2, <1>3, <1>4 DEF Sound

LEMMA RowsFoundKeeps ==
  ASSUME TypeOK, NEW e, NEW f, RowsFound(e, f),
         NEW ids, NEW rows, Sound(e, ids, rows)
  PROVE  Sound(f, ids, rows)
<1>1. HasReasons(f, ids)
  <2>1. \A x : Reason(e, ids, x) => Reason(f, ids, x)
    BY ReasonsStay DEF RowsFound
  <2>2. GoneFrom(f) \cup (ObjectsListed(f.todo) \cap f.objects)
          = GoneFrom(e) \cup (ObjectsListed(e.todo) \cap e.objects)
    BY DEF RowsFound, GoneFrom
  <2> QED  BY <2>1, <2>2 DEF Sound, HasReasons
<1>2. AskedGo(f, ids)
  BY DEF AskedGo, Sound, RowsFound
<1>3. ASSUME "recursive_triggers" \in pragmas
      PROVE  Owned(f) /\ RowsDropped(f, rows) /\ Cascaded(f, rows)
  <2>1. Owned(f)
    BY <1>3 DEF Owned, Sound, RowsFound
  <2>2. RowsDropped(f, rows)
    BY <1>3 DEF RowsDropped, Sound, RowsFound
  <2>3. Cascaded(f, rows)
    BY <1>3 DEF Cascaded, Sound, RowsFound, GoneFrom
  <2> QED  BY <2>1, <2>2, <2>3
<1>4. Typed(f)
  BY DEF RowsFound
<1> QED  BY <1>1, <1>2, <1>3, <1>4 DEF Sound

LEMMA StepKeeps ==
  ASSUME TypeOK, NEW e, e.todo # << >>, NEW ids, NEW rows, Sound(e, ids, rows)
  PROVE  Sound(Stepped(e), ids, rows)
<1>1. Typed(e)
  BY DEF Sound
<1> QED  BY <1>1, EachStep, ObjectGoesKeeps, RowGoesKeeps, RowsFoundKeeps

(***************************************************************************)
(* Executions to their end.                                                *)
(***************************************************************************)

(* What After is for n, given what it is for n - 1.                        *)
Level(f, n) ==
  [e \in Execution |-> IF n = 0 \/ e.todo = << >> THEN e ELSE f[n - 1][Stepped(e)]]

Follows(f, last) == f = [n \in 0 .. last |-> Level(f, n)]

LEMMA LongerFollows ==
  ASSUME NEW last \in Nat, NEW g, Follows(g, last)
  PROVE  \E f : Follows(f, last + 1)
<1> DEFINE f == [n \in 0 .. last + 1 |-> Level(g, n)]
<1>1. \A n \in 0 .. last : g[n] = Level(g, n) /\ f[n] = g[n]
  BY DEF Follows
<1>2. ASSUME NEW n \in 0 .. last + 1 PROVE Level(f, n) = Level(g, n)
  <2>1. CASE n = 0
    BY <2>1 DEF Level
  <2>2. CASE n # 0
    <3>1. n - 1 \in 0 .. last
      BY <2>2
    <3>2. f[n - 1] = g[n - 1]
      BY <3>1, <1>1
    <3> HIDE DEF f
    <3> QED  BY <3>2 DEF Level
  <2> QED  BY <2>1, <2>2
<1>3. f = [n \in 0 .. last + 1 |-> Level(f, n)]
  BY <1>2
<1> QED  BY <1>3 DEF Follows

LEMMA SomeFollows ==
  ASSUME NEW last \in Nat
  PROVE  \E f : Follows(f, last)
<1> DEFINE Without == {k \in Nat : ~ \E f : Follows(f, k)}
<1>1. SUFFICES Without = {}
  OBVIOUS
<1>2. SUFFICES ASSUME Without # {} PROVE FALSE
  OBVIOUS
<1>3. PICK k \in Without : \A j \in Without : k =< j
  <2>1. Without \subseteq Nat
    OBVIOUS
  <2> QED  BY <2>1, <1>2, LeastNumber
<1>4. CASE k = 0
  <2> DEFINE f == [n \in 0 .. 0 |-> Level(<< >>, n)]
  <2>1. \A n \in 0 .. 0 : Level(f, n) = Level(<< >>, n)
    BY DEF Level
  <2>2. f = [n \in 0 .. 0 |-> Level(f, n)]
    BY <2>1
  <2>3. \E g : Follows(g, 0)
    BY <2>2 DEF Follows
  <2> QED  BY <2>3, <1>3, <1>4
<1>5. CASE k # 0
  <2>1. k - 1 \in Nat /\ k - 1 \notin Without /\ (k - 1) + 1 = k
    BY <1>3, <1>5
  <2>2. \E f : Follows(f, k - 1)
    BY <2>1
  <2>3. \E f : Follows(f, (k - 1) + 1)
    BY <2>1, <2>2, LongerFollows
  <2> QED  BY <2>1, <2>3, <1>3
<1> QED  BY <1>4, <1>5

LEMMA AfterIs ==
  After = [n \in 0 .. MaxSteps |-> Level(After, n)]
<1>1. After = CHOOSE f : Follows(f, MaxSteps)
  BY DEF After, Follows, Level, Stepped
<1>2. MaxSteps \in Nat
  BY StorageAssumption
<1>3. \E f : Follows(f, MaxSteps)
  BY <1>2, SomeFollows
<1>4. Follows(After, MaxSteps)
  BY <1>1, <1>3
<1> QED  BY <1>4 DEF Follows

LEMMA AfterKeeps ==
  ASSUME TypeOK, NEW ids, NEW rows, NEW n \in 0 .. MaxSteps, NEW e, Sound(e, ids, rows)
  PROVE  Sound(After[n][e], ids, rows)
<1> DEFINE Bad == {k \in 0 .. MaxSteps :
                     \E x : Sound(x, ids, rows) /\ ~ Sound(After[k][x], ids, rows)}
<1>0. MaxSteps \in Nat
  BY StorageAssumption
<1>1. SUFFICES Bad = {}
  OBVIOUS
<1>2. SUFFICES ASSUME Bad # {} PROVE FALSE
  OBVIOUS
<1>3. PICK k \in Bad : \A j \in Bad : k =< j
  <2>1. Bad \subseteq Nat
    BY <1>0
  <2> QED  BY <2>1, <1>2, LeastNumber
<1>4. k \in 0 .. MaxSteps
  OBVIOUS
<1>5. PICK x : Sound(x, ids, rows) /\ ~ Sound(After[k][x], ids, rows)
  BY <1>3
<1>6. x \in Execution
  BY <1>5, TypedExecution DEF Sound
<1>7. After[k][x] = IF k = 0 \/ x.todo = << >> THEN x ELSE After[k - 1][Stepped(x)]
  <2>1. After[k] = Level(After, k)
    BY <1>4, AfterIs
  <2> QED  BY <2>1, <1>6 DEF Level
<1>8. k # 0 /\ x.todo # << >>
  BY <1>5, <1>7
<1>9. Sound(Stepped(x), ids, rows)
  BY <1>5, <1>8, StepKeeps
<1>10. k - 1 \in 0 .. MaxSteps /\ k - 1 \notin Bad
  BY <1>0, <1>3, <1>4, <1>8
<1>11. Sound(After[k - 1][Stepped(x)], ids, rows)
  BY <1>9, <1>10
<1> QED  BY <1>5, <1>7, <1>8, <1>11

-----------------------------------------------------------------------------
(***************************************************************************)
(* Statements of the application.                                          *)
(***************************************************************************)

(* What a statement that was to delete the objects ids or the rows rows    *)
(* leaves.                                                                 *)
Outcome(ids, rows) ==
  /\ DOMAIN objects' \subseteq DOMAIN objects /\ DOMAIN values' \subseteq DOMAIN values
  /\ \A o \in DOMAIN objects' : objects'[o] = objects[o]
  /\ \A r \in DOMAIN values' : values'[r] = values[r]
  /\ ids \cap DOMAIN objects' = {}
  /\ \A o \in Gone :
       \/ o \in ids
       \/ \E g \in Gone \ {o} : o \in RefersTo(g, CascadeReference)
       \/ /\ objects[o].ctlo = 1
          /\ \E r \in DOMAIN values \ DOMAIN values' :
               values[r] = [value |-> o, ctlv |-> WeakReference]
  /\ "recursive_triggers" \in pragmas =>
       /\ \A r \in DOMAIN values' : r[1] \in DOMAIN objects'
       /\ \A r \in DOMAIN values \ rows :
            r[1] \in Gone /\ values[r].ctlv = CascadeReference =>
              values[r].value \notin DOMAIN objects'

Start(todo) == [objects |-> DOMAIN objects, values |-> DOMAIN values, todo |-> todo]

LEMMA RunOutcome ==
  ASSUME TypeOK, NEW todo, NEW ids, NEW rows, Sound(Start(todo), ids, rows), Run(todo)
  PROVE  Outcome(ids, rows)
<1>1. MaxSteps \in 0 .. MaxSteps
  BY StorageAssumption
<1>2. PICK e : /\ e = After[MaxSteps][Start(todo)] /\ e.todo = << >>
               /\ objects' = Restrict(objects, e.objects)
               /\ values' = Restrict(values, e.values)
  BY DEF Run, Start
<1>3. Sound(e, ids, rows)
  BY <1>1, <1>2, AfterKeeps
<1>4. /\ DOMAIN objects' = e.objects /\ \A o \in e.objects : objects'[o] = objects[o]
      /\ DOMAIN values' = e.values /\ \A r \in e.values : values'[r] = values[r]
  BY <1>2 DEF Restrict
<1>5. e.objects \subseteq DOMAIN objects /\ e.values \subseteq DOMAIN values
  BY <1>3 DEF Sound, Typed
<1>6. /\ ObjectsListed(e.todo) = {} /\ RowsListed(e.todo) = {} /\ OwnersListed(e.todo) = {}
  BY <1>2, ListedNone
<1>7. GoneFrom(e) = Gone
  BY <1>4 DEF GoneFrom, Gone
<1>8. ids \cap DOMAIN objects' = {}
  BY <1>3, <1>4, <1>6 DEF Sound, AskedGo
<1>9. \A o \in Gone : Reason(e, ids, o)
  BY <1>3, <1>7 DEF Sound, HasReasons
<1>10. ASSUME "recursive_triggers" \in pragmas
       PROVE  /\ \A r \in DOMAIN values' : r[1] \in DOMAIN objects'
              /\ \A r \in DOMAIN values \ rows :
                   r[1] \in Gone /\ values[r].ctlv = CascadeReference =>
                     values[r].value \notin DOMAIN objects'
  BY <1>10, <1>3, <1>4, <1>6, <1>7 DEF Sound, Owned, Cascaded
<1> QED  BY <1>4, <1>5, <1>7, <1>8, <1>9, <1>10 DEF Outcome, Reason

(* A DELETE of objects.                                                    *)
LEMMA ObjectsOutcome ==
  ASSUME TypeOK, ValuesHaveOwners, NEW ids, ids \subseteq ID, Run(FromObjects(ids, {}))
  PROVE  Outcome(ids, {})
<1>1. PICK todo : todo = FromObjects(ids, {})
  OBVIOUS
<1>2. /\ todo \in Seq(Full) /\ ObjectsListed(todo) = ids
      /\ RowsListed(todo) = {} /\ OwnersListed(todo) = {}
  <2>1. {} \in Running
    BY DEF Running
  <2> QED  BY <1>1, <2>1, FromObjectsLists
<1>3. PICK e : e = Start(todo)
  OBVIOUS
<1>4. e.objects = DOMAIN objects /\ e.values = DOMAIN values /\ e.todo = todo
  BY <1>3 DEF Start
<1>5. Typed(e)
  BY <1>2, <1>3 DEF Start, Typed
<1>6. HasReasons(e, ids)
  BY <1>2, <1>4 DEF HasReasons, GoneFrom, Reason
<1>7. AskedGo(e, ids)
  BY <1>2, <1>4 DEF AskedGo
<1>8. "recursive_triggers" \in pragmas => Owned(e) /\ RowsDropped(e, {}) /\ Cascaded(e, {})
  BY <1>2, <1>4 DEF Owned, RowsDropped, Cascaded, GoneFrom, ValuesHaveOwners
<1>9. Sound(e, ids, {})
  BY <1>5, <1>6, <1>7, <1>8 DEF Sound
<1> QED  BY <1>1, <1>3, <1>9, RunOutcome

(* A DELETE of rows.                                                       *)
LEMMA ValuesOutcome ==
  ASSUME TypeOK, ValuesHaveOwners, NEW rows, rows \subseteq DOMAIN values, Run(FromValues(rows, {}))
  PROVE  Outcome({}, rows)
<1>1. PICK todo : todo = FromValues(rows, {})
  OBVIOUS
<1>2. /\ todo \in Seq(Full) /\ ObjectsListed(todo) = {}
      /\ RowsListed(todo) = rows /\ OwnersListed(todo) = {}
  <2>1. {} \in Running
    BY DEF Running
  <2>2. rows \subseteq ID \X Property
    BY DEF TypeOK
  <2> QED  BY <1>1, <2>1, <2>2, FromValuesLists
<1>3. PICK e : e = Start(todo)
  OBVIOUS
<1>4. e.objects = DOMAIN objects /\ e.values = DOMAIN values /\ e.todo = todo
  BY <1>3 DEF Start
<1>5. Typed(e)
  BY <1>2, <1>3 DEF Start, Typed
<1>6. HasReasons(e, {})
  BY <1>2, <1>4 DEF HasReasons, GoneFrom
<1>7. AskedGo(e, {})
  BY DEF AskedGo
<1>8. "recursive_triggers" \in pragmas => Owned(e) /\ RowsDropped(e, rows) /\ Cascaded(e, rows)
  BY <1>2, <1>4 DEF Owned, RowsDropped, Cascaded, GoneFrom, ValuesHaveOwners
<1>9. Sound(e, {}, rows)
  BY <1>5, <1>6, <1>7, <1>8 DEF Sound
<1> QED  BY <1>1, <1>3, <1>9, RunOutcome

(* A row that is no weak reference goes alone.                             *)
LEMMA PlainRowGoesAlone ==
  ASSUME TypeOK, NEW r \in DOMAIN values, values[r].ctlv # WeakReference,
         Run(FromValues({r}, {}))
  PROVE  DOMAIN objects' = DOMAIN objects
<1> DEFINE s == [what |-> "values", ids |-> {}, rows |-> {r}, running |-> {}]
<1>1. PICK e : e = Start(<<s>>)
  OBVIOUS
<1>2. FromValues({r}, {}) = <<s>>
  BY DEF FromValues
<1>3. s.what = "values" /\ s.rows = {r} /\ s.running = {}
  OBVIOUS
<1>4. <<s>> \in Seq(Full)
  <2>1. r \in ID \X Property
    BY ValueTyped
  <2>2. s \in Full
    BY <2>1 DEF Full, Statement
  <2> HIDE DEF s
  <2> QED  BY <2>2
<1> HIDE DEF s
<1>5. Typed(e) /\ e.todo = <<s>> /\ e.objects = DOMAIN objects /\ e.todo # << >>
  BY <1>1, <1>4 DEF Start, Typed
<1>6. Head(e.todo) = s /\ Tail(e.todo) = << >>
  BY <1>5
<1>7. FirstRow({r}) = r
  <2>1. {r} \subseteq ID \X Property
    BY ValueTyped
  <2> QED  BY <2>1, FirstRowIsMember
<1>8. Stepped(e) = NextRow(e, s, r)
  BY <1>3, <1>6, <1>7 DEF Stepped, Step
<1>9. trigValuesAfterDelete(e, r, s.running \cup {"values"}) = << >>
  BY DEF trigValuesAfterDelete
<1>10. FromValues(s.rows \ {r}, s.running) = << >>
  BY <1>3 DEF FromValues
<1>11. << >> \o << >> \o << >> = << >>
  OBVIOUS
<1>12. PICK f : f = Stepped(e)
  OBVIOUS
<1>13. f = [objects |-> e.objects, values |-> e.values \ {r}, todo |-> << >>]
  BY <1>6, <1>8, <1>9, <1>10, <1>11, <1>12 DEF NextRow
<1>14. f.objects = DOMAIN objects /\ f.todo = << >> /\ Typed(f)
  BY <1>5, <1>13 DEF Typed
<1>15. e \in Execution /\ f \in Execution
  BY <1>5, <1>14, TypedExecution
<1>16. \A n \in 0 .. MaxSteps : After[n] = Level(After, n)
  BY AfterIs
<1>17. PICK g : /\ g = After[MaxSteps][e] /\ g.todo = << >>
                /\ objects' = Restrict(objects, g.objects)
  BY <1>1, <1>2 DEF Run, Start
<1>18. MaxSteps \in Nat
  BY StorageAssumption
<1>19. MaxSteps # 0 /\ g = After[MaxSteps - 1][f]
  <2>1. After[MaxSteps] = Level(After, MaxSteps)
    BY <1>16, <1>18
  <2>2. Level(After, MaxSteps)[e]
          = IF MaxSteps = 0 \/ e.todo = << >> THEN e ELSE After[MaxSteps - 1][Stepped(e)]
    BY <1>15 DEF Level
  <2>3. g = IF MaxSteps = 0 THEN e ELSE After[MaxSteps - 1][f]
    BY <2>1, <2>2, <1>5, <1>12, <1>17
  <2> QED  BY <2>3, <1>5, <1>17
<1>20. g = f
  <2>1. MaxSteps - 1 \in 0 .. MaxSteps
    BY <1>18, <1>19
  <2>2. After[MaxSteps - 1][f] = f
    BY <2>1, <1>14, <1>15, <1>16 DEF Level
  <2> QED  BY <2>2, <1>19
<1> QED  BY <1>14, <1>17, <1>20 DEF Restrict

-----------------------------------------------------------------------------
(***************************************************************************)
(* Changed IDs.                                                            *)
(***************************************************************************)

(* Where a row goes, and what it becomes, when an object changes its ID.   *)
Moved(r, old, new) == <<IF r[1] = old THEN new ELSE r[1], r[2]>>
Becomes(row, old, new) ==
  IF row.value = old /\ row.ctlv \in {Plain, CascadeReference} THEN [row EXCEPT !.value = new] ELSE row

(* No row of the new ID is in the way.                                     *)
RoomFor(old, new) == \A p \in Property : ~(<<old, p>> \in DOMAIN values /\ <<new, p>> \in DOMAIN values)

LEMMA MovedApart ==
  ASSUME TypeOK, NEW old, NEW new, RoomFor(old, new),
         NEW r \in DOMAIN values, NEW s \in DOMAIN values, Moved(r, old, new) = Moved(s, old, new)
  PROVE  r = s
<1>1. r \in ID \X Property /\ s \in ID \X Property
  BY ValueTyped
<1>2. r = <<r[1], r[2]>> /\ s = <<s[1], s[2]>> /\ r[2] \in Property
  BY <1>1
<1>3. r[2] = s[2] /\ (IF r[1] = old THEN new ELSE r[1]) = (IF s[1] = old THEN new ELSE s[1])
  BY DEF Moved
<1>4. CASE r[1] = s[1]
  BY <1>2, <1>3, <1>4
<1>5. CASE r[1] # s[1]
  <2>1. (r[1] = old /\ s[1] = new) \/ (r[1] = new /\ s[1] = old)
    BY <1>3, <1>5
  <2>2. <<old, r[2]>> \in DOMAIN values /\ <<new, r[2]>> \in DOMAIN values
    BY <2>1, <1>2, <1>3
  <2> QED  BY <2>2, <1>2 DEF RoomFor
<1> QED  BY <1>4, <1>5

LEMMA RenumberedRows ==
  ASSUME TypeOK, NEW old, NEW new, RoomFor(old, new)
  PROVE  LET rows == Renumbered(values, old, new)
         IN /\ DOMAIN rows = {Moved(r, old, new) : r \in DOMAIN values}
            /\ \A r \in DOMAIN values : rows[Moved(r, old, new)] = Becomes(values[r], old, new)
<1> DEFINE From(r) == CHOOSE s \in DOMAIN values : Moved(s, old, new) = r
           rows == [r \in {Moved(s, old, new) : s \in DOMAIN values} |-> Becomes(values[From(r)], old, new)]
<1>1. Renumbered(values, old, new) = rows
  BY DEF Renumbered, Moved, Becomes
<1>2. \A r \in DOMAIN values : From(Moved(r, old, new)) = r
  BY MovedApart
<1> HIDE DEF From
<1>3. \A r \in DOMAIN values : rows[Moved(r, old, new)] = Becomes(values[r], old, new)
  BY <1>2
<1> QED  BY <1>1, <1>3

LEMMA RowsAfterUpdate ==
  ASSUME TypeOK, NEW old, NEW new, UpdateObjectID(old, new)
  PROVE  /\ RoomFor(old, new)
         /\ DOMAIN values' = {Moved(r, old, new) : r \in DOMAIN values}
         /\ \A r \in DOMAIN values : values'[Moved(r, old, new)] = Becomes(values[r], old, new)
<1>1. RoomFor(old, new)
  BY DEF UpdateObjectID, RoomFor
<1>2. values' = Renumbered(values, old, new)
  BY DEF UpdateObjectID
<1> QED  BY <1>1, <1>2, RenumberedRows

MovedRows(old, new) == {Moved(r, old, new) : r \in DOMAIN values}

LEMMA RowsMoved ==
  ASSUME TypeOK, NEW old, NEW new, UpdateObjectID(old, new)
  PROVE  DOMAIN values' = MovedRows(old, new)
BY RowsAfterUpdate DEF MovedRows

LEMMA UpdateKeepsTypes ==
  ASSUME TypeOK, NEW old \in ID, NEW new \in ID, UpdateObjectID(old, new)
  PROVE  TypeOK'
<1>0. /\ DOMAIN values' = {Moved(r, old, new) : r \in DOMAIN values}
      /\ \A r \in DOMAIN values : values'[Moved(r, old, new)] = Becomes(values[r], old, new)
  <2>1. TypeOK  OBVIOUS
  <2>2. UpdateObjectID(old, new)  OBVIOUS
  <2> QED  BY ONLY <2>1, <2>2, RowsAfterUpdate
<1>1. RoomFor(old, new) /\ old \in DOMAIN objects
  BY DEF UpdateObjectID, RoomFor
<1>2. values' = Renumbered(values, old, new)
  BY DEF UpdateObjectID
<1>3. objects' = [o \in (DOMAIN objects \ {old}) \cup {new} |-> objects[IF o = new THEN old ELSE o]]
  BY DEF UpdateObjectID
<1>4. DOMAIN objects' \subseteq ID /\ \A o \in DOMAIN objects' : objects'[o] \in [class : Class, ctlo : {NULL, 1}]
  BY <1>1, <1>3 DEF TypeOK
<1>5. ASSUME NEW x \in DOMAIN values'
      PROVE  x \in ID \X Property /\ values'[x] \in [value : ID, ctlv : Ctlv]
  <2>1. PICK r \in DOMAIN values : x = Moved(r, old, new) /\ values'[x] = Becomes(values[r], old, new)
    BY <1>5, <1>0
  <2>2. r \in ID \X Property /\ values[r] \in [value : ID, ctlv : Ctlv]
    BY DEF TypeOK
  <2>3. x \in ID \X Property
    BY <2>1, <2>2 DEF Moved
  <2>4. Becomes(values[r], old, new) \in [value : ID, ctlv : Ctlv]
    BY <2>2 DEF Becomes
  <2> QED  BY <2>1, <2>3, <2>4
<1>6. classes' = classes /\ sequence' = sequence /\ pragmas' = pragmas
  BY DEF UpdateObjectID
<1> QED  BY <1>4, <1>5, <1>6 DEF TypeOK

LEMMA UpdateKeepsOwners ==
  ASSUME TypeOK, ValuesHaveOwners, NEW old \in ID, NEW new \in ID, UpdateObjectID(old, new)
  PROVE  ValuesHaveOwners'
<1>1. RoomFor(old, new)
  BY DEF UpdateObjectID, RoomFor
<1>2. values' = Renumbered(values, old, new) /\ pragmas' = pragmas
  BY DEF UpdateObjectID
<1>3. DOMAIN objects' = (DOMAIN objects \ {old}) \cup {new}
  BY DEF UpdateObjectID
<1>4. SUFFICES ASSUME "recursive_triggers" \in pragmas, NEW x \in DOMAIN values'
               PROVE  x[1] \in DOMAIN objects'
  BY <1>2 DEF ValuesHaveOwners
<1>5. PICK r \in DOMAIN values : x = Moved(r, old, new)
  <2>1. DOMAIN values' = MovedRows(old, new)
    BY RowsMoved
  <2> QED  BY <1>4, <2>1 DEF MovedRows
<1>6. r[1] \in DOMAIN objects
  BY <1>4 DEF ValuesHaveOwners
<1>7. x[1] = IF r[1] = old THEN new ELSE r[1]
  BY <1>5 DEF Moved
<1> QED  BY <1>3, <1>6, <1>7

LEMMA UpdateKeepsClasses ==
  ASSUME ObjectsHaveClasses, NEW old \in ID, NEW new \in ID, UpdateObjectID(old, new)
  PROVE  ObjectsHaveClasses'
<1>1. old \in DOMAIN objects /\ classes' = classes /\ pragmas' = pragmas
  BY DEF UpdateObjectID
<1>2. objects' = [o \in (DOMAIN objects \ {old}) \cup {new} |-> objects[IF o = new THEN old ELSE o]]
  BY DEF UpdateObjectID
<1> QED  BY <1>1, <1>2 DEF ObjectsHaveClasses

(* Rows that are left when an object changes its ID are as many as before. *)
LEMMA UpdateKeepsFinite ==
  ASSUME TypeOK, IsFiniteSet(DOMAIN values), NEW old \in ID, NEW new \in ID, UpdateObjectID(old, new)
  PROVE  IsFiniteSet(DOMAIN values')
<1>1. DOMAIN values' = MovedRows(old, new)
  BY RowsMoved
<1>2. DOMAIN values' = {Moved(r, old, new) : r \in DOMAIN values}
  BY <1>1 DEF MovedRows
<1> DEFINE f == [r \in DOMAIN values |-> Moved(r, old, new)]
<1>3. f \in Surjection(DOMAIN values, DOMAIN values')
  BY <1>2 DEF Surjection
<1> QED  BY <1>3, FS_Surjection

-----------------------------------------------------------------------------
(* The inductive invariant.  Whose rows there are and what class an object *)
(* has do not follow from each other, but every step needs the types, and  *)
(* the counting of references below needs that the rows are finitely many. *)

IInv == TypeOK /\ ValuesHaveOwners /\ ObjectsHaveClasses /\ IsFiniteSet(DOMAIN values)

LEMMA InitIInv == Init => IInv
<1> SUFFICES ASSUME Init  PROVE IInv
  OBVIOUS
<1>1. DOMAIN objects = {} /\ DOMAIN values = {}
  BY DEF Init
<1>2. sequence \in 0 .. MaxID
  BY StorageAssumption DEF Init
<1>3. TypeOK
  BY <1>1, <1>2 DEF Init, TypeOK
<1>4. IsFiniteSet(DOMAIN values)
  BY <1>1, FS_EmptySet
<1> QED  BY <1>1, <1>3, <1>4 DEF IInv, ValuesHaveOwners, ObjectsHaveClasses

(* A statement that deletes, with what follows from it.                    *)
LEMMA OutcomeKeeps ==
  ASSUME IInv, NEW ids, NEW rows, Outcome(ids, rows),
         classes' \subseteq classes, UNCHANGED <<sequence, pragmas>>,
         "foreign_keys" \in pragmas => \A o \in DOMAIN objects' : objects[o].class \in classes'
  PROVE  IInv'
<1>1. /\ DOMAIN objects' \subseteq DOMAIN objects /\ DOMAIN values' \subseteq DOMAIN values
      /\ \A o \in DOMAIN objects' : objects'[o] = objects[o]
      /\ \A r \in DOMAIN values' : values'[r] = values[r]
      /\ "recursive_triggers" \in pragmas => \A r \in DOMAIN values' : r[1] \in DOMAIN objects'
  BY DEF Outcome
<1>2. TypeOK'
  <2>1. TypeOK
    BY DEF IInv
  <2>2. \A o \in DOMAIN objects' : o \in ID /\ objects'[o] \in [class : Class, ctlo : {NULL, 1}]
    BY <1>1, <2>1 DEF TypeOK
  <2>3. \A r \in DOMAIN values' : r \in ID \X Property /\ values'[r] \in [value : ID, ctlv : Ctlv]
    BY <1>1, <2>1 DEF TypeOK
  <2>4. classes' \subseteq Class /\ sequence' \in 0 .. MaxID /\ pragmas' \in Connections
    BY <2>1 DEF TypeOK
  <2> QED  BY <2>2, <2>3, <2>4 DEF TypeOK
<1>3. ValuesHaveOwners'
  BY <1>1 DEF ValuesHaveOwners
<1>4. ObjectsHaveClasses'
  BY <1>1 DEF ObjectsHaveClasses
<1>5. IsFiniteSet(DOMAIN values')
  BY <1>1, FS_Subset DEF IInv
<1> QED  BY <1>2, <1>3, <1>4, <1>5 DEF IInv

LEMMA DeleteObjectOutcome ==
  ASSUME IInv, NEW o, DeleteObject(o)
  PROVE  Outcome({o}, {})
<1>1. TypeOK /\ ValuesHaveOwners
  BY DEF IInv
<1>2. {o} \subseteq ID /\ Run(FromObjects({o}, {}))
  BY <1>1 DEF DeleteObject, TypeOK
<1> QED  BY <1>1, <1>2, ObjectsOutcome

LEMMA DeleteValueOutcome ==
  ASSUME IInv, NEW r, DeleteValue(r)
  PROVE  Outcome({}, {r})
<1>1. TypeOK /\ ValuesHaveOwners
  BY DEF IInv
<1>2. {r} \subseteq DOMAIN values /\ Run(FromValues({r}, {}))
  BY DEF DeleteValue
<1> QED  BY <1>1, <1>2, ValuesOutcome

LEMMA DeletePropertyOutcome ==
  ASSUME IInv, NEW p, DeleteProperty(p)
  PROVE  \E rows \in SUBSET DOMAIN values : Outcome({}, rows)
<1> DEFINE rows == {r \in DOMAIN values : r[2] = p}
<1>1. TypeOK /\ ValuesHaveOwners
  BY DEF IInv
<1>2. rows \subseteq DOMAIN values /\ Run(FromValues(rows, {}))
  BY DEF DeleteProperty
<1> HIDE DEF rows
<1>3. Outcome({}, rows)
  BY <1>1, <1>2, ValuesOutcome
<1> QED  BY <1>2, <1>3

OfClass(c) == {o \in DOMAIN objects : objects[o].class = c}

LEMMA DeleteClassOutcome ==
  ASSUME IInv, NEW c, DeleteClass(c), "foreign_keys" \in pragmas
  PROVE  Outcome(OfClass(c), {})
<1>1. TypeOK /\ ValuesHaveOwners
  BY DEF IInv
<1>2. OfClass(c) \subseteq ID
  BY <1>1 DEF OfClass, TypeOK
<1>3. Run(FromObjects(OfClass(c), {}))
  BY DEF DeleteClass, OfClass
<1> QED  BY <1>1, <1>2, <1>3, ObjectsOutcome

LEMMA NextIDIsFree == TypeOK => NextID \in 1 .. MaxID + 1
<1> SUFFICES ASSUME TypeOK  PROVE NextID \in 1 .. MaxID + 1
  OBVIOUS
<1> DEFINE ids == {sequence} \cup DOMAIN objects
<1>1. ids \subseteq 0 .. MaxID /\ ids # {}
  BY DEF TypeOK, ID
<1> HIDE DEF ids
<1>2. Max(ids) \in 0 .. MaxID
  BY <1>1, MaxIsMember
<1>3. NextID = Max(ids) + 1
  BY DEF NextID, ids
<1> QED  BY <1>2, <1>3, StorageAssumption

LEMMA InsertObjectKeeps ==
  ASSUME IInv, NEW c \in Class, NEW ctlo \in {NULL, 1}, InsertObject(c, ctlo)
  PROVE  IInv'
<1> DEFINE new == NextID
<1>1. TypeOK /\ ValuesHaveOwners /\ ObjectsHaveClasses /\ IsFiniteSet(DOMAIN values)
  BY DEF IInv
<1>2. new \in 1 .. MaxID
  BY <1>1, NextIDIsFree, StorageAssumption DEF InsertObject
<1>3. /\ objects' = [x \in DOMAIN objects \cup {new} |->
                       IF x = new THEN [class |-> c, ctlo |-> ctlo] ELSE objects[x]]
      /\ c \in classes /\ sequence' = new /\ UNCHANGED <<classes, values, pragmas>>
  BY DEF InsertObject
<1> HIDE DEF new
<1>4. /\ DOMAIN objects' = DOMAIN objects \cup {new}
      /\ objects'[new] = [class |-> c, ctlo |-> ctlo]
      /\ \A o \in DOMAIN objects' : o # new => o \in DOMAIN objects /\ objects'[o] = objects[o]
  BY <1>3
<1>5. TypeOK'
  <2>1. \A o \in DOMAIN objects' : o \in ID /\ objects'[o] \in [class : Class, ctlo : {NULL, 1}]
    <3> SUFFICES ASSUME NEW o \in DOMAIN objects'
                 PROVE  o \in ID /\ objects'[o] \in [class : Class, ctlo : {NULL, 1}]
      OBVIOUS
    <3>1. CASE o = new
      BY <3>1, <1>2, <1>4 DEF ID
    <3>2. CASE o # new
      BY <3>2, <1>1, <1>4 DEF TypeOK
    <3> QED  BY <3>1, <3>2
  <2>2. sequence' \in 0 .. MaxID
    BY <1>2, <1>3
  <2> QED  BY <2>1, <2>2, <1>1, <1>3 DEF TypeOK
<1>6. ValuesHaveOwners'
  BY <1>1, <1>3, <1>4 DEF ValuesHaveOwners
<1>7. ObjectsHaveClasses'
  <2>1. objects'[new].class = c
    BY <1>4
  <2> QED  BY <2>1, <1>1, <1>3, <1>4 DEF ObjectsHaveClasses
<1> QED  BY <1>1, <1>3, <1>5, <1>6, <1>7 DEF IInv

LEMMA InsertValueKeeps ==
  ASSUME IInv, NEW o \in ID, NEW p \in Property, InsertValue(o, p)
  PROVE  IInv'
<1>1. TypeOK /\ ValuesHaveOwners /\ ObjectsHaveClasses /\ IsFiniteSet(DOMAIN values)
  BY DEF IInv
<1>2. PICK v \in ID, ctlv \in Ctlv :
        values' = [r \in DOMAIN values \cup {<<o, p>>} |->
                     IF r = <<o, p>> THEN [value |-> v, ctlv |-> ctlv] ELSE values[r]]
  BY DEF InsertValue
<1>3. o \in DOMAIN objects /\ UNCHANGED <<classes, objects, sequence, pragmas>>
  BY DEF InsertValue
<1>4. /\ DOMAIN values' = DOMAIN values \cup {<<o, p>>}
      /\ values'[<<o, p>>] = [value |-> v, ctlv |-> ctlv]
      /\ \A r \in DOMAIN values' : r # <<o, p>> => r \in DOMAIN values /\ values'[r] = values[r]
  BY <1>2
<1>5. TypeOK'
  <2>1. ASSUME NEW r \in DOMAIN values'
        PROVE  r \in ID \X Property /\ values'[r] \in [value : ID, ctlv : Ctlv]
    <3>1. CASE r = <<o, p>>
      BY <3>1, <1>4
    <3>2. CASE r # <<o, p>>
      BY <3>2, <1>1, <1>4 DEF TypeOK
    <3> QED  BY <3>1, <3>2
  <2> QED  BY <2>1, <1>1, <1>3 DEF TypeOK
<1>6. ValuesHaveOwners'
  BY <1>1, <1>3, <1>4 DEF ValuesHaveOwners
<1>7. ObjectsHaveClasses'
  BY <1>1, <1>3 DEF ObjectsHaveClasses
<1>8. IsFiniteSet(DOMAIN values')
  BY <1>1, <1>4, FS_AddElement
<1> QED  BY <1>5, <1>6, <1>7, <1>8 DEF IInv

LEMMA PlainDeletionKeeps ==
  ASSUME IInv, NEW ids, NEW rows, Outcome(ids, rows), UNCHANGED <<classes, sequence, pragmas>>
  PROVE  IInv'
<1>1. \A x \in DOMAIN objects' : x \in DOMAIN objects
  BY DEF Outcome
<1>2. "foreign_keys" \in pragmas => \A x \in DOMAIN objects' : objects[x].class \in classes'
  BY <1>1 DEF IInv, ObjectsHaveClasses
<1> QED  BY <1>2, OutcomeKeeps

LEMMA DeleteObjectKeeps ==
  ASSUME IInv, NEW o, DeleteObject(o)
  PROVE  IInv'
<1>1. UNCHANGED <<classes, sequence, pragmas>>
  BY DEF DeleteObject
<1> QED  BY <1>1, PlainDeletionKeeps, DeleteObjectOutcome

LEMMA DeleteValueKeeps ==
  ASSUME IInv, NEW r, DeleteValue(r)
  PROVE  IInv'
<1>1. UNCHANGED <<classes, sequence, pragmas>>
  BY DEF DeleteValue
<1> QED  BY <1>1, PlainDeletionKeeps, DeleteValueOutcome

LEMMA DeletePropertyKeeps ==
  ASSUME IInv, NEW p, DeleteProperty(p)
  PROVE  IInv'
<1>1. UNCHANGED <<classes, sequence, pragmas>>
  BY DEF DeleteProperty
<1>2. PICK rows : Outcome({}, rows)
  BY DeletePropertyOutcome
<1> QED  BY <1>1, <1>2, PlainDeletionKeeps

LEMMA DeleteClassKeeps ==
  ASSUME IInv, NEW c, DeleteClass(c)
  PROVE  IInv'
<1>1. classes' = classes \ {c} /\ UNCHANGED <<sequence, pragmas>>
  BY DEF DeleteClass
<1>2. CASE "foreign_keys" \in pragmas
  <2>1. Outcome(OfClass(c), {})
    BY <1>2, DeleteClassOutcome
  <2>2. \A x \in DOMAIN objects' : x \in DOMAIN objects /\ x \notin OfClass(c)
    BY <2>1 DEF Outcome
  <2>3. \A x \in DOMAIN objects' : objects[x].class \in classes'
    BY <1>1, <1>2, <2>2 DEF IInv, ObjectsHaveClasses, OfClass
  <2> QED  BY <1>1, <2>1, <2>3, OutcomeKeeps
<1>3. CASE "foreign_keys" \notin pragmas
  <2>1. UNCHANGED <<objects, values>>
    BY <1>3 DEF DeleteClass
  <2> QED  BY <1>1, <1>3, <2>1 DEF IInv, TypeOK, ValuesHaveOwners, ObjectsHaveClasses
<1> QED  BY <1>2, <1>3

LEMMA UpdateKeeps ==
  ASSUME IInv, NEW old \in ID, NEW new \in ID, UpdateObjectID(old, new)
  PROVE  IInv'
<1>1. TypeOK /\ ValuesHaveOwners /\ ObjectsHaveClasses /\ IsFiniteSet(DOMAIN values)
  BY DEF IInv
<1>2. TypeOK'
  BY <1>1, UpdateKeepsTypes
<1>3. ValuesHaveOwners'
  BY <1>1, UpdateKeepsOwners
<1>4. ObjectsHaveClasses'
  BY <1>1, UpdateKeepsClasses
<1>5. IsFiniteSet(DOMAIN values')
  BY <1>1, UpdateKeepsFinite
<1> QED  BY <1>2, <1>3, <1>4, <1>5 DEF IInv

LEMMA NextIInv == IInv /\ [Next]_vars => IInv'
<1> SUFFICES ASSUME IInv, [Next]_vars  PROVE IInv'
  OBVIOUS
<1>1. ASSUME NEW c \in Class, NEW ctlo \in {NULL, 1}, InsertObject(c, ctlo)
      PROVE  IInv'
  BY <1>1, InsertObjectKeeps
<1>2. ASSUME NEW o \in ID, NEW p \in Property, InsertValue(o, p)
      PROVE  IInv'
  BY <1>2, InsertValueKeeps
<1>3. ASSUME NEW o \in ID, DeleteObject(o)
      PROVE  IInv'
  BY <1>3, DeleteObjectKeeps
<1>4. ASSUME NEW r \in ID \X Property, DeleteValue(r)
      PROVE  IInv'
  BY <1>4, DeleteValueKeeps
<1>5. ASSUME NEW p \in Property, DeleteProperty(p)
      PROVE  IInv'
  BY <1>5, DeletePropertyKeeps
<1>6. ASSUME NEW c \in Class, DeleteClass(c)
      PROVE  IInv'
  BY <1>6, DeleteClassKeeps
<1>7. ASSUME NEW old \in ID, NEW new \in ID, UpdateObjectID(old, new)
      PROVE  IInv'
  BY <1>7, UpdateKeeps
<1>8. CASE UNCHANGED vars
  BY <1>8 DEF vars, IInv, TypeOK, ValuesHaveOwners, ObjectsHaveClasses
<1> QED  BY <1>1, <1>2, <1>3, <1>4, <1>5, <1>6, <1>7, <1>8 DEF Next

(***************************************************************************)
(* Types, owners and classes.                                              *)
(***************************************************************************)

THEOREM Invariant == Spec => []IInv
BY InitIInv, NextIInv, PTL DEF Spec

(* What the tables hold is of the types of dbschema.sql: IDs that were     *)
(* given, PropertyIDs, and the three kinds of values.                      *)
THEOREM TypeCorrect == Spec => []TypeOK
<1>1. IInv => TypeOK
  BY DEF IInv
<1> QED  BY <1>1, Invariant, PTL

(* With recursive triggers deleting objects never leaves their values      *)
(* behind (trigObjectsAfterDelete).                                        *)
THEOREM OwnersStay == Spec => []ValuesHaveOwners
<1>1. IInv => ValuesHaveOwners
  BY DEF IInv
<1> QED  BY <1>1, Invariant, PTL

(* With foreign keys an object always has a class                          *)
(* (fkObjectsClassIDToClasses).                                            *)
THEOREM ClassesStay == Spec => []ObjectsHaveClasses
<1>1. IInv => ObjectsHaveClasses
  BY DEF IInv
<1> QED  BY <1>1, Invariant, PTL

-----------------------------------------------------------------------------
(***************************************************************************)
(* What a deletion takes: all that it must, and nothing else.              *)
(***************************************************************************)

(* Steps at which no object goes.                                          *)
LEMMA NoDeletion ==
  ASSUME IInv, NEW a, NEW b,
         InsertObject(a, b) \/ InsertValue(a, b) \/ UpdateObjectID(a, b)
  PROVE  ~Deletion
<1>1. CASE InsertObject(a, b)
  BY <1>1 DEF InsertObject, Deletion, Gone
<1>2. CASE InsertValue(a, b)
  BY <1>2 DEF InsertValue, Deletion, Gone
<1>3. CASE UpdateObjectID(a, b)
  <2>1. b \in DOMAIN objects' /\ b \notin DOMAIN objects
    BY <1>3 DEF UpdateObjectID
  <2> QED  BY <2>1 DEF Deletion
<1> QED  BY <1>1, <1>2, <1>3

LEMMA ClassOnlyIsNoDeletion ==
  ASSUME NEW c, DeleteClass(c), "foreign_keys" \notin pragmas
  PROVE  ~Deletion
BY DEF DeleteClass, Deletion, Gone

LEMMA OutcomeCascades ==
  ASSUME NEW ids, NEW rows, Outcome(ids, rows), "recursive_triggers" \in pragmas,
         \A r \in rows : values[r].ctlv # CascadeReference
  PROVE  \A o \in Gone : RefersTo(o, CascadeReference) \cap DOMAIN objects' = {}
<1> SUFFICES ASSUME NEW o \in Gone, NEW t \in RefersTo(o, CascadeReference)
             PROVE  t \notin DOMAIN objects'
  OBVIOUS
<1>1. PICK r \in DOMAIN values : r[1] = o /\ values[r].ctlv = CascadeReference /\ values[r].value = t
  BY DEF RefersTo
<1>2. r \in DOMAIN values \ rows
  BY <1>1
<1> QED  BY <1>1, <1>2 DEF Outcome

(* A row that takes an object with it is a weak reference.                 *)
LEMMA OnlyWeakRowsTake ==
  ASSUME IInv, NEW r, DeleteValue(r), Gone # {}
  PROVE  values[r].ctlv # CascadeReference
<1>1. TypeOK /\ r \in DOMAIN values /\ Run(FromValues({r}, {}))
  BY DEF IInv, DeleteValue
<1>2. DOMAIN objects' # DOMAIN objects
  BY DEF Gone
<1>3. values[r].ctlv = WeakReference
  BY <1>1, <1>2, PlainRowGoesAlone
<1> QED  BY <1>3 DEF WeakReference, CascadeReference

CascadesDone ==
  Deletion /\ "recursive_triggers" \in pragmas =>
    \A o \in Gone :
      \/ RefersTo(o, CascadeReference) \cap DOMAIN objects' = {}
      \/ \E p \in Property : DeleteProperty(p)

LEMMA StepCascades == IInv /\ Next => CascadesDone
<1> SUFFICES ASSUME IInv, Next, Deletion, "recursive_triggers" \in pragmas,
                    ~\E p \in Property : DeleteProperty(p)
             PROVE  \A o \in Gone : RefersTo(o, CascadeReference) \cap DOMAIN objects' = {}
  BY DEF CascadesDone
<1>1. ASSUME NEW x \in ID, DeleteObject(x)
      PROVE  \A o \in Gone : RefersTo(o, CascadeReference) \cap DOMAIN objects' = {}
  <2>1. Outcome({x}, {})
    BY <1>1, DeleteObjectOutcome
  <2> QED  BY <2>1, OutcomeCascades
<1>2. ASSUME NEW r \in ID \X Property, DeleteValue(r)
      PROVE  \A o \in Gone : RefersTo(o, CascadeReference) \cap DOMAIN objects' = {}
  <2>1. Outcome({}, {r})
    BY <1>2, DeleteValueOutcome
  <2>2. values[r].ctlv # CascadeReference
    BY <1>2, OnlyWeakRowsTake DEF Deletion
  <2> QED  BY <2>1, <2>2, OutcomeCascades
<1>3. ASSUME NEW c \in Class, DeleteClass(c)
      PROVE  \A o \in Gone : RefersTo(o, CascadeReference) \cap DOMAIN objects' = {}
  <2>1. "foreign_keys" \in pragmas
    BY <1>3, ClassOnlyIsNoDeletion
  <2>2. Outcome(OfClass(c), {})
    BY <1>3, <2>1, DeleteClassOutcome
  <2> QED  BY <2>2, OutcomeCascades
<1> QED  BY <1>1, <1>2, <1>3, NoDeletion DEF Next

(* With an object go all objects it refers to for cascade, through any     *)
(* number of steps and in circles as well (trigObjectsAfterDelete).        *)
THEOREM DeletesAll == Spec => CascadesAreComplete
<1>1. IInv /\ [Next]_vars =>
        [Deletion /\ "recursive_triggers" \in pragmas =>
           \A o \in Gone :
             \/ RefersTo(o, CascadeReference) \cap DOMAIN objects' = {}
             \/ \E p \in Property : DeleteProperty(p)]_vars
  BY StepCascades DEF CascadesDone
<1> QED  BY <1>1, Invariant, PTL DEF Spec, CascadesAreComplete

HasReason(o) == objects[o].ctlo = 1 \/ AskedToGo(o)

LEMMA StepHasReasons == IInv /\ Next => (Deletion => \A o \in Gone : HasReason(o))
<1> SUFFICES ASSUME IInv, Next, Deletion, NEW o \in Gone  PROVE HasReason(o)
  OBVIOUS
<1>1. ASSUME NEW ids, NEW rows, Outcome(ids, rows), o \in ids => HasReason(o)
      PROVE  HasReason(o)
  BY <1>1 DEF Outcome, HasReason, AskedToGo
<1>2. ASSUME NEW x \in ID, DeleteObject(x)
      PROVE  HasReason(o)
  <2>1. Outcome({x}, {})
    BY <1>2, DeleteObjectOutcome
  <2>2. o \in {x} => HasReason(o)
    BY <1>2 DEF HasReason, AskedToGo
  <2> QED  BY <2>1, <2>2, <1>1
<1>3. ASSUME NEW r \in ID \X Property, DeleteValue(r)
      PROVE  HasReason(o)
  <2>1. Outcome({}, {r})
    BY <1>3, DeleteValueOutcome
  <2> QED  BY <2>1, <1>1
<1>4. ASSUME NEW p \in Property, DeleteProperty(p)
      PROVE  HasReason(o)
  <2>1. PICK rows : Outcome({}, rows)
    BY <1>4, DeletePropertyOutcome
  <2> QED  BY <2>1, <1>1
<1>5. ASSUME NEW c \in Class, DeleteClass(c)
      PROVE  HasReason(o)
  <2>1. "foreign_keys" \in pragmas
    BY <1>5, ClassOnlyIsNoDeletion
  <2>2. Outcome(OfClass(c), {})
    BY <1>5, <2>1, DeleteClassOutcome
  <2>3. o \in OfClass(c) => objects[o].class \notin classes'
    BY <1>5 DEF DeleteClass, OfClass
  <2>4. o \in OfClass(c) => HasReason(o)
    BY <2>3 DEF HasReason, AskedToGo
  <2> QED  BY <2>2, <2>4, <1>1
<1> QED  BY <1>2, <1>3, <1>4, <1>5, NoDeletion DEF Next

(* An object that is not weak goes only with its class, with another       *)
(* object that refers to it for cascade, or when it is asked for.          *)
THEOREM StrongObjectsNeedAReason == Spec => StrongObjectsStay
<1>1. IInv /\ [Next]_vars =>
        [Deletion => \A o \in Gone : objects[o].ctlo = 1 \/ AskedToGo(o)]_vars
  BY StepHasReasons DEF HasReason
<1> QED  BY <1>1, Invariant, PTL DEF Spec, StrongObjectsStay

-----------------------------------------------------------------------------
(***************************************************************************)
(* An object that changes its ID keeps its values and its references.      *)
(***************************************************************************)

ReferenceTo(o) == [value |-> o, ctlv |-> CascadeReference]
RowsWith(rows, row) == {r \in DOMAIN rows : rows[r] = row}
OwnOf(rows, o) == {r[2] : r \in {s \in DOMAIN rows : s[1] = o}}

LEMMA BecomesReference ==
  ASSUME NEW row \in [value : ID, ctlv : Ctlv], NEW old \in ID, NEW new \in ID, old # new
  PROVE  /\ Becomes(row, old, new) # ReferenceTo(old)
         /\ Becomes(row, old, new) = ReferenceTo(new) <=> row \in {ReferenceTo(old), ReferenceTo(new)}
<1>1. row = [value |-> row.value, ctlv |-> row.ctlv]
  OBVIOUS
<1>2. Becomes(row, old, new) =
        [value |-> IF row.value = old /\ row.ctlv \in {Plain, CascadeReference} THEN new ELSE row.value,
         ctlv |-> row.ctlv]
  BY <1>1 DEF Becomes
<1>3. \A u, v, x, y : [value |-> u, ctlv |-> v] = [value |-> x, ctlv |-> y] <=> u = x /\ v = y
  <2> TAKE u, v, x, y
  <2>1. [value |-> u, ctlv |-> v].value = u /\ [value |-> u, ctlv |-> v].ctlv = v
    OBVIOUS
  <2>2. [value |-> x, ctlv |-> y].value = x /\ [value |-> x, ctlv |-> y].ctlv = y
    OBVIOUS
  <2> QED  BY <2>1, <2>2
<1>4. Becomes(row, old, new) # ReferenceTo(old)
  BY <1>2, <1>3 DEF ReferenceTo
<1>5. /\ row = ReferenceTo(old) <=> row.value = old /\ row.ctlv = CascadeReference
      /\ row = ReferenceTo(new) <=> row.value = new /\ row.ctlv = CascadeReference
  BY <1>1, <1>3 DEF ReferenceTo
<1>6. Becomes(row, old, new) = ReferenceTo(new) <=>
        /\ (IF row.value = old /\ row.ctlv \in {Plain, CascadeReference} THEN new ELSE row.value) = new
        /\ row.ctlv = CascadeReference
  BY <1>2, <1>3 DEF ReferenceTo
<1>7. row.ctlv = CascadeReference => row.ctlv \in {Plain, CascadeReference}
  OBVIOUS
<1> QED  BY <1>4, <1>5, <1>6, <1>7

LEMMA UpdatedIDs ==
  ASSUME NEW old, NEW new, UpdateObjectID(old, new)
  PROVE  old # new
BY DEF UpdateObjectID

LEMMA ReferencesMoved ==
  ASSUME TypeOK, IsFiniteSet(DOMAIN values), NEW old \in ID, NEW new \in ID, UpdateObjectID(old, new)
  PROVE  /\ Cardinality(RowsWith(values', ReferenceTo(old))) = 0
         /\ Cardinality(RowsWith(values', ReferenceTo(new)))
              = Cardinality(RowsWith(values, ReferenceTo(old))) + Cardinality(RowsWith(values, ReferenceTo(new)))
<1> DEFINE A == RowsWith(values, ReferenceTo(old))
           B == RowsWith(values, ReferenceTo(new))
           C == RowsWith(values', ReferenceTo(new))
<1>1. old # new /\ RoomFor(old, new)
  BY UpdatedIDs, RowsAfterUpdate
<1>2. /\ \A r \in DOMAIN values : Moved(r, old, new) \in DOMAIN values'
      /\ \A r \in DOMAIN values : values'[Moved(r, old, new)] = Becomes(values[r], old, new)
      /\ \A x \in DOMAIN values' : \E r \in DOMAIN values : x = Moved(r, old, new)
  <2>1. DOMAIN values' = MovedRows(old, new)
    BY RowsMoved
  <2> QED  BY <2>1, RowsAfterUpdate DEF MovedRows
<1>3. \A r \in DOMAIN values : values[r] \in [value : ID, ctlv : Ctlv]
  BY DEF TypeOK
<1>4. RowsWith(values', ReferenceTo(old)) = {}
  <2> SUFFICES ASSUME NEW x \in DOMAIN values'  PROVE values'[x] # ReferenceTo(old)
    BY DEF RowsWith
  <2>1. PICK r \in DOMAIN values : x = Moved(r, old, new)
    BY <1>2
  <2> QED  BY <2>1, <1>1, <1>2, <1>3, BecomesReference
<1>5. \A r \in DOMAIN values : Moved(r, old, new) \in C <=> r \in A \cup B
  <2> SUFFICES ASSUME NEW r \in DOMAIN values  PROVE Moved(r, old, new) \in C <=> r \in A \cup B
    OBVIOUS
  <2>1. Becomes(values[r], old, new) = ReferenceTo(new) <=> values[r] \in {ReferenceTo(old), ReferenceTo(new)}
    BY <1>1, <1>3, BecomesReference
  <2> QED  BY <2>1, <1>2 DEF RowsWith
<1>6. ReferenceTo(old) # ReferenceTo(new)
  <2>1. ReferenceTo(old).value = old /\ ReferenceTo(new).value = new
    BY DEF ReferenceTo
  <2> QED  BY <2>1, <1>1
<1>7. A \subseteq DOMAIN values /\ B \subseteq DOMAIN values /\ C \subseteq DOMAIN values' /\ A \cap B = {}
  BY <1>6 DEF RowsWith
<1> HIDE DEF A, B, C
<1> DEFINE f == [r \in A \cup B |-> Moved(r, old, new)]
<1>8. f \in Bijection(A \cup B, C)
  <2>1. \A r, s \in A \cup B : Moved(r, old, new) = Moved(s, old, new) => r = s
    BY <1>1, <1>7, MovedApart
  <2>2. \A x \in C : \E r \in A \cup B : Moved(r, old, new) = x
    BY <1>2, <1>5, <1>7
  <2>3. \A r \in A \cup B : Moved(r, old, new) \in C
    BY <1>5, <1>7
  <2> QED  BY <2>1, <2>2, <2>3 DEF Bijection, Injection, Surjection, IsInjective
<1>9. IsFiniteSet(A) /\ IsFiniteSet(B)
  BY <1>7, FS_Subset
<1>10. IsFiniteSet(A \cup B) /\ Cardinality(A \cup B) = Cardinality(A) + Cardinality(B)
  <2>1. /\ IsFiniteSet(A \cup B)
        /\ Cardinality(A \cup B) = Cardinality(A) + Cardinality(B) - Cardinality(A \cap B)
    BY <1>9, FS_Union
  <2>2. Cardinality(A) \in Nat /\ Cardinality(B) \in Nat
    BY <1>9, FS_CardinalityType
  <2>3. Cardinality(A \cap B) = 0
    BY <1>7, FS_EmptySet
  <2> QED  BY <2>1, <2>2, <2>3
<1>11. Cardinality(C) = Cardinality(A \cup B)
  BY <1>8, <1>10, FS_Bijection DEF ExistsBijection
<1>12. Cardinality(RowsWith(values', ReferenceTo(old))) = 0
  BY <1>4, FS_EmptySet
<1> QED  BY <1>10, <1>11, <1>12 DEF A, B, C

LEMMA OwnMoved ==
  ASSUME TypeOK, ValuesHaveOwners, "recursive_triggers" \in pragmas,
         NEW old \in ID, NEW new \in ID, UpdateObjectID(old, new)
  PROVE  OwnOf(values', new) = OwnOf(values, old)
<1>1. new \notin DOMAIN objects
  BY DEF UpdateObjectID
<1>2. \A r \in DOMAIN values : r[1] # new
  BY <1>1 DEF ValuesHaveOwners
<1>3. /\ \A r \in DOMAIN values : Moved(r, old, new) \in DOMAIN values'
      /\ \A x \in DOMAIN values' : \E r \in DOMAIN values : x = Moved(r, old, new)
  <2>1. DOMAIN values' = MovedRows(old, new)
    BY RowsMoved
  <2> QED  BY <2>1 DEF MovedRows
<1>4. \A r \in DOMAIN values : /\ Moved(r, old, new)[1] = new <=> r[1] = old
                               /\ Moved(r, old, new)[2] = r[2]
  BY <1>2 DEF Moved
<1>5. ASSUME NEW p \in OwnOf(values', new)
      PROVE  p \in OwnOf(values, old)
  <2>1. PICK x \in DOMAIN values' : x[1] = new /\ x[2] = p
    BY DEF OwnOf
  <2>2. PICK r \in DOMAIN values : x = Moved(r, old, new)
    BY <1>3
  <2> QED  BY <2>1, <2>2, <1>4 DEF OwnOf
<1>6. ASSUME NEW p \in OwnOf(values, old)
      PROVE  p \in OwnOf(values', new)
  <2>1. PICK r \in DOMAIN values : r[1] = old /\ r[2] = p
    BY DEF OwnOf
  <2> QED  BY <2>1, <1>3, <1>4 DEF OwnOf
<1> QED  BY <1>5, <1>6

LEMMA UpdateMovesReferences ==
  ASSUME IInv, IInv', NEW old \in Gone, NEW new \in DOMAIN objects',
         UpdateObjectID(old, new), "recursive_triggers" \in pragmas
  PROVE  /\ OwnOf(values', new) = OwnOf(values, old)
         /\ Cardinality(RowsWith(values', ReferenceTo(old))) = 0
         /\ Cardinality(RowsWith(values', ReferenceTo(new)))
              = Cardinality(RowsWith(values, ReferenceTo(old))) + Cardinality(RowsWith(values, ReferenceTo(new)))
<1>1. old \in ID /\ new \in ID
  BY DEF IInv, TypeOK, Gone
<1>2. TypeOK /\ ValuesHaveOwners /\ IsFiniteSet(DOMAIN values)
  BY DEF IInv
<1> QED  BY <1>1, <1>2, OwnMoved, ReferencesMoved

(* Its values stay its own, and what was a cascade reference to the object *)
(* still is one (trigObjectsAfterUpdateOfClassID_ObjectID).                *)
THEOREM UpdateKeepsReferences == Spec => ReferencesFollow
<1>1. IInv /\ IInv' /\ [Next]_vars =>
        [\A old \in Gone, new \in DOMAIN objects' :
           UpdateObjectID(old, new) /\ "recursive_triggers" \in pragmas =>
             LET Own(rows, o) == {r[2] : r \in {s \in DOMAIN rows : s[1] = o}}
                 To(rows, o) == Cardinality({r \in DOMAIN rows : rows[r] = [value |-> o, ctlv |-> CascadeReference]})
             IN /\ Own(values', new) = Own(values, old)
                /\ To(values', old) = 0 /\ To(values', new) = To(values, old) + To(values, new)]_vars
  <2> SUFFICES ASSUME IInv, IInv', NEW old \in Gone, NEW new \in DOMAIN objects',
                      UpdateObjectID(old, new), "recursive_triggers" \in pragmas
               PROVE  /\ OwnOf(values', new) = OwnOf(values, old)
                      /\ Cardinality(RowsWith(values', ReferenceTo(old))) = 0
                      /\ Cardinality(RowsWith(values', ReferenceTo(new)))
                           = Cardinality(RowsWith(values, ReferenceTo(old)))
                               + Cardinality(RowsWith(values, ReferenceTo(new)))
    BY DEF OwnOf, RowsWith, ReferenceTo
  <2> QED  BY UpdateMovesReferences
<1> QED  BY <1>1, Invariant, PTL DEF Spec, ReferencesFollow
==============================================================================
