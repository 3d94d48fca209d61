--------------------------- MODULE ClassDefsProofs ---------------------------
(* Theorems about ClassDefs, for any classes, properties and schemas, and  *)
(* any number of columns.                                                  *)
EXTENDS ClassDefs, TLAPS, FiniteSetTheorems, WellFoundedInduction

-----------------------------------------------------------------------------
(***************************************************************************)
(* The inductive invariant.                                                *)
(***************************************************************************)

(* What the two tables hold, in any state of a request.                    *)
FileOK(f) ==
  /\ DOMAIN f = {"classes", "props", "lastClass", "lastProp"}
  /\ f.lastClass \in Nat /\ f.lastProp \in Nat
  /\ DOMAIN f.classes \subseteq 1 .. f.lastClass
  /\ \A id \in DOMAIN f.classes :
       /\ DOMAIN f.classes[id] = {"name", "data"}
       /\ f.classes[id].name \in Class
  /\ \A i, j \in DOMAIN f.classes : f.classes[i].name = f.classes[j].name => i = j
  /\ DOMAIN f.props \subseteq 1 .. f.lastProp
  /\ \A r \in DOMAIN f.props :
       f.props[r] \in [class : DOMAIN f.classes, name : Prop,
                       ctlv : {"none", "index", "unique"}, ColMap : 0 .. Columns]

IndexesOK(ix) ==
  /\ ix = [fullTextIndexing |-> ix.fullTextIndexing, rangeIndexing |-> ix.rangeIndexing,
           multiKeyIndexing |-> ix.multiKeyIndexing, propIndexing |-> ix.propIndexing]
  /\ ix.fullTextIndexing \in Seq(Nat) /\ Len(ix.fullTextIndexing) <= FtsCols
  /\ ix.rangeIndexing \in Seq(Nat) /\ Len(ix.rangeIndexing) <= RngCols

ClassOK(cls) ==
  /\ DOMAIN cls = {"ClassID", "loaded", "props", "indexes"}
  /\ DOMAIN cls.props \subseteq Prop
  /\ \A p \in DOMAIN cls.props :
       /\ DOMAIN cls.props[p] = {"D", "ID", "ColMap"}
       /\ cls.props[p].D \in PropertyDefData
       /\ cls.props[p].ColMap \in 0 .. Columns
  /\ IndexesOK(cls.indexes)

Shapes ==
  /\ FileOK(file) /\ FileOK(saved)
  /\ DOMAIN Classes \subseteq Class
  /\ \A c \in DOMAIN Classes : ClassOK(Classes[c])
  /\ DOMAIN req = {"pc", "schema", "todo", "name", "cls", "left"}
  /\ req.pc \in {"idle", "insert", "apply", "save", "index", "done", "query"}
  /\ req.left \subseteq Prop /\ req.todo \subseteq Class
  /\ req.pc = "apply" => ClassOK(req.cls)

(* The index definitions are those of the properties in fts and rng.       *)
Indexed(ix, fts, rng) ==
  /\ IndexesOK(ix)
  /\ Range(ix.fullTextIndexing) = fts /\ Len(ix.fullTextIndexing) = Cardinality(fts)
  /\ Range(ix.rangeIndexing) = rng /\ Len(ix.rangeIndexing) = 2 * Cardinality(rng)
  /\ \A k \in 1 .. Len(ix.rangeIndexing) \div 2 :
       ix.rangeIndexing[2 * k - 1] = ix.rangeIndexing[2 * k]

(* A class object of the request and its rows say the same.                *)
Created(cls, c) ==
  /\ cls.ClassID \in DOMAIN file.classes
  /\ file.classes[cls.ClassID].name = c
  /\ cls.loaded = FALSE
  /\ \A p \in DOMAIN cls.props :
       /\ cls.props[p].ID \in DOMAIN file.props
       /\ file.props[cls.props[p].ID] =
            [class |-> cls.ClassID, name |-> p, ctlv |-> GetCTLV(cls.props[p].D),
             ColMap |-> cls.props[p].ColMap]
       /\ cls.props[p].D = req.schema[c].properties[p]
  /\ \A r \in PropRows(file, cls.ClassID) :
       file.props[r].name \in DOMAIN cls.props /\ cls.props[file.props[r].name].ID = r

(* The properties whose indexes are set already.                           *)
IndexedSoFar(c) ==
  IF req.pc = "index" /\ req.name = c THEN DOMAIN Classes[c].props \ req.left
  ELSE IF req.pc \in {"insert", "apply"} \/ c \in req.todo THEN {}
  ELSE DOMAIN Classes[c].props

(* The IDs of the properties of ps that ask for an index.                  *)
Asking(cls, ps, index) ==
  {cls.props[p].ID : p \in {q \in ps : cls.props[q].D.index = index}}

(* The request in progress: its class objects, and how far they are.       *)
Request ==
  req.pc \in {"insert", "apply", "save", "index", "done"} =>
    /\ req.schema \in Schemas
    /\ req.todo \subseteq DOMAIN req.schema
    /\ DOMAIN Classes =
         IF req.pc \in {"insert", "apply"} THEN DOMAIN req.schema \ req.todo ELSE DOMAIN req.schema
    /\ req.pc \in {"apply", "index"} => req.name \in req.todo
    /\ req.pc = "done" => req.todo = {}
    /\ \A c \in DOMAIN Classes :
         /\ Created(Classes[c], c)
         /\ DOMAIN Classes[c].props = DOMAIN req.schema[c].properties
         /\ req.pc # "done" => Classes[c].ClassID \notin DOMAIN saved.classes
         /\ Indexed(Classes[c].indexes, Asking(Classes[c], IndexedSoFar(c), "fulltext"),
                    Asking(Classes[c], IndexedSoFar(c), "range"))
    /\ req.pc = "apply" =>
         /\ Created(req.cls, req.name)
         /\ req.cls.ClassID \notin DOMAIN saved.classes
         /\ DOMAIN req.cls.props = DOMAIN req.schema[req.name].properties \ req.left
         /\ req.left \subseteq DOMAIN req.schema[req.name].properties
         /\ req.cls.indexes = IndexDefinitions
    /\ req.pc = "index" => req.left \subseteq DOMAIN Classes[req.name].props
    /\ req.pc \in {"save", "index", "done"} =>
         \A c \in DOMAIN req.schema \ req.todo :
           file.classes[Classes[c].ClassID].data = InternalToJSON(Classes[c])

(* A class in the tables is complete and its definition fits its rows.     *)
Whole(f, id) ==
  LET data == f.classes[id].data
  IN  /\ DOMAIN data = {"properties", "indexes"}
      /\ DOMAIN data.properties = PropRows(f, id)
      /\ \A r \in PropRows(f, id) :
           /\ data.properties[r] \in PropertyDefData
           /\ f.props[r].ctlv = GetCTLV(data.properties[r])
      /\ \A p, q \in PropRows(f, id) : f.props[p].name = f.props[q].name => p = q
      /\ Indexed(data.indexes, {r \in PropRows(f, id) : data.properties[r].index = "fulltext"},
                 {r \in PropRows(f, id) : data.properties[r].index = "range"})

UnderWay(id) ==
  LET name == file.classes[id].name
  IN  \/ req.pc \in {"insert", "apply"} /\ name \in DOMAIN Classes
      \/ req.pc = "apply" /\ name = req.name
      \/ req.pc \in {"save", "index"} /\ name \in req.todo

(* What is committed is whole, and the open transaction adds to it.        *)
Files ==
  /\ req.pc \in {"idle", "query", "done"} => file = saved
  /\ \A id \in DOMAIN saved.classes : Whole(saved, id)
  /\ \A id \in DOMAIN file.classes : UnderWay(id) \/ Whole(file, id)

Adds ==
  /\ \A id \in DOMAIN saved.classes : id \in DOMAIN file.classes /\ file.classes[id] = saved.classes[id]
  /\ \A r \in DOMAIN saved.props : r \in DOMAIN file.props /\ file.props[r] = saved.props[r]
  /\ \A r \in DOMAIN file.props \ DOMAIN saved.props : file.props[r].class \notin DOMAIN saved.classes

(* The reasons for a row to be without a column although one is free.      *)
Excused(id, r) ==
  \/ /\ ~ UnderWay(id)
     /\ ~ ColumnMappingSupported(file.classes[id].data.properties[r])
  \/ /\ req.pc = "apply" /\ req.cls.ClassID = id
     /\ ~ ColumnMappingSupported(req.cls.props[file.props[r].name].D)
  \/ \E c \in DOMAIN Classes :
       /\ req.pc \in {"insert", "apply", "save", "index"} /\ Classes[c].ClassID = id
       /\ ~ ColumnMappingSupported(Classes[c].props[file.props[r].name].D)

(* A column has one property, and a property that could have one is        *)
(* without only when all are taken.                                        *)
Distinct(f, id) ==
  \A r, q \in PropRows(f, id) :
    r # q => f.props[r].ColMap = NoColumn \/ f.props[r].ColMap # f.props[q].ColMap

Taken(f, id) == {f.props[q].ColMap : q \in PropRows(f, id)}

ColumnsOf(id) ==
  /\ Distinct(file, id)
  /\ \A r \in PropRows(file, id) :
       \/ file.props[r].ColMap # NoColumn
       \/ 1 .. Columns \subseteq Taken(file, id)
       \/ Excused(id, r)

ColumnsOK == \A id \in DOMAIN file.classes : ColumnsOf(id)

(* A class that is not committed is one of the request's.                  *)
Own ==
  \A id \in DOMAIN file.classes \ DOMAIN saved.classes :
    LET name == file.classes[id].name
    IN  name \in DOMAIN Classes \/ (req.pc = "apply" /\ name = req.name)

IInv == Shapes /\ Request /\ Files /\ Adds /\ Own /\ ColumnsOK

-----------------------------------------------------------------------------
(* The numbers of columns are numbers, and range columns come in pairs.    *)
LEMMA ConstantTypes ==
  Columns \in Nat /\ FtsCols \in Nat /\ SparseSafe \in Nat /\ RngCols \in Nat /\ RngCols % 2 = 0
BY ClassAssumption

(* Columns.                                                                *)

(* A set of numbers that is not empty has a least element.                 *)
LEMMA MinIsElement ==
  ASSUME NEW S, S \subseteq Nat, S # {}
  PROVE  Min(S) \in S
<1>1. PICK x \in S : \A y \in S : ~ (<<y, x>> \in OpToRel(<, Nat))
  BY WFMin, NatLessThanWellFounded
<1>2. ASSUME NEW y \in S PROVE x =< y
  <2>1. <<y, x>> \notin {ss \in Nat \X Nat : ss[1] < ss[2]}
    BY <1>1 DEF OpToRel
  <2> QED  BY <2>1
<1> QED  BY <1>1, <1>2 DEF Min

(* A property gets a column that no other has, or all are taken, or it may *)
(* not have one.                                                           *)
LEMMA ColumnIsFree ==
  ASSUME NEW cls, NEW def
  PROVE  LET col == AssignColMapping(cls, def)
             taken == {cls.props[p].ColMap : p \in DOMAIN cls.props}
         IN  /\ col \in 0 .. Columns
             /\ col # NoColumn => col \notin taken
             /\ col = NoColumn => ~ ColumnMappingSupported(def) \/ 1 .. Columns \subseteq taken
<1> DEFINE free == 1 .. Columns \ {cls.props[p].ColMap : p \in DOMAIN cls.props}
<1>1. free \subseteq Nat
  BY ConstantTypes
<1>2. free # {} => Min(free) \in free
  BY <1>1, MinIsElement
<1>3. 0 \in 0 .. Columns /\ \A k \in free : k # 0 /\ k \in 0 .. Columns
  BY ConstantTypes
<1> QED  BY <1>2, <1>3 DEF AssignColMapping, NoColumn

-----------------------------------------------------------------------------
(* Index definitions.                                                      *)

(* A new class has index definitions, of no property.                      *)
LEMMA EmptyIndexes == Indexed(IndexDefinitions, {}, {})
<1>1. IndexesOK(IndexDefinitions)
  BY ConstantTypes DEF IndexesOK, IndexDefinitions
<1>2. Range(<<>>) = {} /\ Len(<<>>) = 0
  BY DEF Range
<1> QED  BY <1>1, <1>2, FS_EmptySet DEF Indexed, IndexDefinitions

(* The elements of two sequences in a row.                                 *)
LEMMA RangeOfConcat ==
  ASSUME NEW S, NEW s \in Seq(S), NEW t \in Seq(S)
  PROVE  Range(s \o t) = Range(s) \cup Range(t)
<1>1. /\ Len(s \o t) = Len(s) + Len(t) /\ s \o t \in Seq(S)
      /\ \A i \in 1 .. Len(s) + Len(t) : (s \o t)[i] = IF i <= Len(s) THEN s[i] ELSE t[i - Len(s)]
  OBVIOUS
<1>2. Len(s) \in Nat /\ Len(t) \in Nat /\ DOMAIN s = 1 .. Len(s) /\ DOMAIN t = 1 .. Len(t)
      /\ DOMAIN (s \o t) = 1 .. Len(s) + Len(t)
  BY <1>1
<1>3. ASSUME NEW i \in 1 .. Len(t)
      PROVE  t[i] = (s \o t)[i + Len(s)] /\ i + Len(s) \in DOMAIN (s \o t)
  BY <1>1, <1>2
<1>4. ASSUME NEW i \in 1 .. Len(s)
      PROVE  s[i] = (s \o t)[i] /\ i \in DOMAIN (s \o t)
  BY <1>1, <1>2
<1>5. Range(s) \cup Range(t) \subseteq Range(s \o t)
  BY <1>2, <1>3, <1>4 DEF Range
<1>6. Range(s \o t) \subseteq Range(s) \cup Range(t)
  BY <1>1, <1>2 DEF Range
<1> QED  BY <1>5, <1>6

(* Indexed, of index definitions given field by field.                     *)
LEMMA IndexedRecord ==
  ASSUME NEW ft, NEW ri, NEW mk, NEW pi, NEW fts, NEW rng
  PROVE  Indexed([fullTextIndexing |-> ft, rangeIndexing |-> ri,
                  multiKeyIndexing |-> mk, propIndexing |-> pi], fts, rng) <=>
           /\ ft \in Seq(Nat) /\ Len(ft) <= FtsCols
           /\ ri \in Seq(Nat) /\ Len(ri) <= RngCols
           /\ Range(ft) = fts /\ Len(ft) = Cardinality(fts)
           /\ Range(ri) = rng /\ Len(ri) = 2 * Cardinality(rng)
           /\ \A k \in 1 .. Len(ri) \div 2 : ri[2 * k - 1] = ri[2 * k]
BY DEF Indexed, IndexesOK

(* One more property gets a full-text column, if there is one left.        *)
LEMMA AddFullText ==
  ASSUME NEW ix, NEW fts, NEW rng, Indexed(ix, fts, rng), IsFiniteSet(fts),
         NEW id \in Nat, id \notin fts, AddFullTextIndexedProperty(ix, id).ok
  PROVE  Indexed(AddFullTextIndexedProperty(ix, id).indexes, fts \cup {id}, rng)
<1>1. PICK ft, ri, mk, pi : ix = [fullTextIndexing |-> ft, rangeIndexing |-> ri,
                                  multiKeyIndexing |-> mk, propIndexing |-> pi]
  BY DEF Indexed, IndexesOK
<1>2. /\ ft \in Seq(Nat) /\ Len(ft) <= FtsCols /\ Range(ft) = fts /\ Len(ft) = Cardinality(fts)
      /\ ri \in Seq(Nat) /\ Len(ri) <= RngCols /\ Range(ri) = rng /\ Len(ri) = 2 * Cardinality(rng)
      /\ \A k \in 1 .. Len(ri) \div 2 : ri[2 * k - 1] = ri[2 * k]
  BY <1>1, IndexedRecord
<1>3. /\ Len(ft) # FtsCols
      /\ AddFullTextIndexedProperty(ix, id).indexes =
           [fullTextIndexing |-> Append(ft, id), rangeIndexing |-> ri,
            multiKeyIndexing |-> mk, propIndexing |-> pi]
  BY <1>1, <1>2 DEF AddFullTextIndexedProperty, Ok, Refused
<1> DEFINE new == Append(ft, id)
<1>4. new \in Seq(Nat) /\ Len(new) = Len(ft) + 1 /\ Len(ft) \in Nat
  BY <1>2
<1>5. Len(new) <= FtsCols
  BY <1>2, <1>3, <1>4, ConstantTypes
<1>6. Range(new) = fts \cup {id}
  <2>1. new = ft \o <<id>> /\ <<id>> \in Seq(Nat)
    BY <1>2
  <2>2. Range(<<id>>) = {id}
    BY DEF Range
  <2>3. Range(ft \o <<id>>) = Range(ft) \cup Range(<<id>>)
    BY <1>2, <2>1, RangeOfConcat
  <2> QED  BY <1>2, <2>1, <2>2, <2>3
<1>7. Len(new) = Cardinality(fts \cup {id})
  <2>1. Cardinality(fts \cup {id}) = Cardinality(fts) + 1
    BY FS_AddElement
  <2> QED  BY <1>2, <1>4, <2>1
<1> HIDE DEF new
<1>8. Indexed([fullTextIndexing |-> new, rangeIndexing |-> ri,
               multiKeyIndexing |-> mk, propIndexing |-> pi], fts \cup {id}, rng)
  BY <1>2, <1>4, <1>5, <1>6, <1>7, IndexedRecord
<1> QED  BY <1>3, <1>8 DEF new

(* One more property gets both bounds of a range dimension: one column     *)
(* left would do for the guard of the code, but the columns are even in    *)
(* number.                                                                 *)
LEMMA AddRange ==
  ASSUME NEW ix, NEW fts, NEW rng, Indexed(ix, fts, rng), IsFiniteSet(rng),
         NEW id \in Nat, id \notin rng, AddRangeIndexedProperty(ix, id).ok
  PROVE  Indexed(AddRangeIndexedProperty(ix, id).indexes, fts, rng \cup {id})
<1>1. PICK ft, ri, mk, pi : ix = [fullTextIndexing |-> ft, rangeIndexing |-> ri,
                                  multiKeyIndexing |-> mk, propIndexing |-> pi]
  BY DEF Indexed, IndexesOK
<1>2. PICK n \in Nat : n = Cardinality(rng)
  BY FS_CardinalityType
<1>3. /\ ri \in Seq(Nat) /\ Len(ri) <= RngCols /\ Range(ri) = rng /\ Len(ri) = 2 * n
      /\ \A k \in 1 .. Len(ri) \div 2 : ri[2 * k - 1] = ri[2 * k]
  BY <1>1, <1>2, IndexedRecord
<1>4. /\ Len(ri) # RngCols
      /\ AddRangeIndexedProperty(ix, id).indexes =
           [fullTextIndexing |-> ft, rangeIndexing |-> ri \o <<id, id>>,
            multiKeyIndexing |-> mk, propIndexing |-> pi]
  BY <1>1, <1>3 DEF AddRangeIndexedProperty, Ok, Refused
<1> DEFINE new == ri \o <<id, id>>
<1>5. /\ new \in Seq(Nat) /\ Len(new) = 2 * n + 2
      /\ \A i \in 1 .. 2 * n : new[i] = ri[i]
      /\ new[2 * n + 1] = id /\ new[2 * n + 2] = id
  BY <1>3
<1>6. Range(new) = rng \cup {id}
  <2>1. <<id, id>> \in Seq(Nat)
    OBVIOUS
  <2>2. Range(<<id, id>>) = {id}
    BY DEF Range
  <2>3. Range(ri \o <<id, id>>) = Range(ri) \cup Range(<<id, id>>)
    BY <1>3, <2>1, RangeOfConcat
  <2> QED  BY <1>3, <2>2, <2>3
<1>7. Cardinality(rng \cup {id}) = n + 1
  BY <1>2, FS_AddElement
<1>8. Len(new) <= RngCols
  <2>1. 2 * n <= RngCols /\ 2 * n # RngCols
    BY <1>3, <1>4
  <2>2. PICK m \in Nat : RngCols = 2 * m
    BY ConstantTypes
  <2> HIDE DEF new
  <2>3. n + 1 <= m
    BY <2>1, <2>2
  <2> QED  BY <1>5, <2>2, <2>3
<1>9. ASSUME NEW k \in 1 .. Len(new) \div 2
      PROVE  new[2 * k - 1] = new[2 * k]
  <2> HIDE DEF new
  <2>1. Len(new) \div 2 = n + 1 /\ Len(ri) \div 2 = n
    BY <1>3, <1>5
  <2>2. CASE k = n + 1
    <3>1. 2 * k - 1 = 2 * n + 1 /\ 2 * k = 2 * n + 2
      BY <2>2
    <3> QED  BY <1>5, <3>1
  <2>3. CASE k \in 1 .. n
    <3>1. 2 * k - 1 \in 1 .. 2 * n /\ 2 * k \in 1 .. 2 * n
      BY <2>3
    <3>2. ri[2 * k - 1] = ri[2 * k]
      BY <1>3, <2>1, <2>3
    <3> QED  BY <1>5, <3>1, <3>2
  <2> QED  BY <2>1, <2>2, <2>3
<1>10. Len(new) = 2 * Cardinality(rng \cup {id})
  <2> HIDE DEF new
  <2> QED  BY <1>5, <1>7
<1>11. Len(ft) = Cardinality(fts) /\ Range(ft) = fts /\ ft \in Seq(Nat) /\ Len(ft) <= FtsCols
  BY <1>1, IndexedRecord
<1> HIDE DEF new
<1>12. AddRangeIndexedProperty(ix, id).indexes =
           [fullTextIndexing |-> ft, rangeIndexing |-> new,
            multiKeyIndexing |-> mk, propIndexing |-> pi]
  BY <1>4 DEF new
<1>13. Indexed([fullTextIndexing |-> ft, rangeIndexing |-> new,
                multiKeyIndexing |-> mk, propIndexing |-> pi], fts, rng \cup {id})
  BY <1>5, <1>6, <1>8, <1>9, <1>10, <1>11, IndexedRecord
<1> QED  BY <1>12, <1>13

(* An index of a single property takes no full-text or range column.       *)
LEMMA AddIndexed ==
  ASSUME NEW ix, NEW fts, NEW rng, Indexed(ix, fts, rng), NEW id, NEW unique \in BOOLEAN
  PROVE  Indexed(AddIndexedProperty(ix, id, unique).indexes, fts, rng)
<1>1. PICK pi : AddIndexedProperty(ix, id, unique).indexes \in {ix, [ix EXCEPT !.propIndexing = pi]}
  BY DEF AddIndexedProperty, Ok
<1>2. ix = [fullTextIndexing |-> ix.fullTextIndexing, rangeIndexing |-> ix.rangeIndexing,
            multiKeyIndexing |-> ix.multiKeyIndexing, propIndexing |-> ix.propIndexing]
  BY DEF Indexed, IndexesOK
<1>3. [ix EXCEPT !.propIndexing = pi] =
        [fullTextIndexing |-> ix.fullTextIndexing, rangeIndexing |-> ix.rangeIndexing,
         multiKeyIndexing |-> ix.multiKeyIndexing, propIndexing |-> pi]
  BY <1>2
<1> QED  BY <1>1, <1>3 DEF Indexed, IndexesOK

(* One more property in the index definitions.                             *)
LEMMA SetIndex ==
  ASSUME NEW ix, NEW fts, NEW rng, Indexed(ix, fts, rng), IsFiniteSet(fts), IsFiniteSet(rng),
         NEW id \in Nat, id \notin fts, id \notin rng, NEW def \in PropertyDefData,
         SetPropertyIndex(ix, id, def).ok
  PROVE  Indexed(SetPropertyIndex(ix, id, def).indexes,
                 IF def.index = "fulltext" THEN fts \cup {id} ELSE fts,
                 IF def.index = "range" THEN rng \cup {id} ELSE rng)
<1>1. def.index \in {"none", "index", "unique", "range", "fulltext"}
  BY DEF PropertyDefData, Indexes
<1>2. CASE def.index = "none"
  <2>1. SetPropertyIndex(ix, id, def).indexes = ix
    BY <1>2 DEF SetPropertyIndex, Ok
  <2> QED  BY <1>2, <2>1
<1>3. CASE def.index = "fulltext"
  <2>1. SetPropertyIndex(ix, id, def) = AddFullTextIndexedProperty(ix, id)
    BY <1>3 DEF SetPropertyIndex, Refused
  <2> QED  BY <1>3, <2>1, AddFullText
<1>4. CASE def.index = "range"
  <2>1. SetPropertyIndex(ix, id, def) = AddRangeIndexedProperty(ix, id)
    BY <1>4 DEF SetPropertyIndex, Refused
  <2> QED  BY <1>4, <2>1, AddRange
<1>5. CASE def.index \in {"index", "unique"}
  <2>1. SetPropertyIndex(ix, id, def) = AddIndexedProperty(ix, id, def.index = "unique")
    BY <1>5 DEF SetPropertyIndex, Refused
  <2>3. Indexed(AddIndexedProperty(ix, id, def.index = "unique").indexes, fts, rng)
    BY AddIndexed
  <2> QED  BY <1>5, <2>1, <2>3
<1> QED  BY <1>1, <1>2, <1>3, <1>4, <1>5

-----------------------------------------------------------------------------
(* Every variable keeps its shape.                                         *)

(* What the schemas are made of.                                           *)
LEMMA SchemaTypes ==
  ASSUME NEW s \in Schemas
  PROVE  /\ DOMAIN s \subseteq Class
         /\ \A c \in DOMAIN s : /\ DOMAIN s[c].properties \subseteq Prop
                                /\ s[c].properties \in [DOMAIN s[c].properties -> PropertyDefData]
BY ClassAssumption

(* The flag of a row is none, index or unique.                             *)
LEMMA FlagType ==
  ASSUME NEW def
  PROVE  GetCTLV(def) \in {"none", "index", "unique"}
BY DEF GetCTLV

(* The initial state has its shape.                                        *)
LEMMA InitShapes == Init => Shapes
BY ConstantTypes DEF Init, Shapes, FileOK, Idle, Nothing, NoData

(* A new class: its row and its class object.                              *)
LEMMA InsertShapes ==
  ASSUME Shapes, Request, NEW c \in Class, InsertNewClass(c)
  PROVE  Shapes'
<1> DEFINE id == file.lastClass + 1
<1>1. /\ file.lastClass \in Nat /\ id \notin DOMAIN file.classes
      /\ file'.lastClass = id /\ file'.lastProp = file.lastProp /\ file'.props = file.props
      /\ DOMAIN file' = {"classes", "props", "lastClass", "lastProp"}
      /\ file'.classes = [i \in DOMAIN file.classes \cup {id} |->
                            IF i = id THEN [name |-> c, data |-> NoData] ELSE file.classes[i]]
  BY DEF InsertNewClass, Shapes, FileOK
<1>2. \A i \in DOMAIN file.classes : file.classes[i].name # c
  BY DEF InsertNewClass, ClassIDs
<1>3. FileOK(file')
  BY <1>1, <1>2 DEF Shapes, FileOK
<1>4. /\ DOMAIN req' = {"pc", "schema", "todo", "name", "cls", "left"}
      /\ req'.pc = "apply" /\ req'.todo = req.todo
      /\ req'.left = DOMAIN req.schema[c].properties
      /\ req'.cls = [ClassID |-> id, loaded |-> FALSE, props |-> Nothing, indexes |-> IndexDefinitions]
  BY DEF InsertNewClass, Shapes
<1>5. req'.left \subseteq Prop
  BY <1>4, SchemaTypes DEF Request, InsertNewClass
<1>6. ClassOK(req'.cls)
  BY <1>4, EmptyIndexes DEF ClassOK, Nothing, Indexed
<1>7. UNCHANGED <<saved, Classes>>
  BY DEF InsertNewClass
<1> QED  BY <1>3, <1>4, <1>5, <1>6, <1>7 DEF Shapes

(* A new property: its row and its place in the class object.              *)
LEMMA ApplyShapes ==
  ASSUME Shapes, Request, NEW p \in Prop, ApplyProperty(p)
  PROVE  Shapes'
<1> DEFINE def == req.schema[req.name].properties[p]
           col == AssignColMapping(req.cls, def)
           id == file.lastProp + 1
<1>1. def \in PropertyDefData
  BY SchemaTypes DEF Request, ApplyProperty
<1>2. col \in 0 .. Columns /\ GetCTLV(def) \in {"none", "index", "unique"}
  BY ColumnIsFree, FlagType
<1>3. /\ file.lastProp \in Nat
      /\ file'.lastClass = file.lastClass /\ file'.lastProp = id /\ file'.classes = file.classes
      /\ DOMAIN file' = {"classes", "props", "lastClass", "lastProp"}
      /\ file'.props = [i \in DOMAIN file.props \cup {id} |->
                          IF i = id THEN [class |-> req.cls.ClassID, name |-> p,
                                          ctlv |-> GetCTLV(def), ColMap |-> col]
                                    ELSE file.props[i]]
  BY DEF ApplyProperty, Shapes, FileOK
<1>4. req.cls.ClassID \in DOMAIN file.classes
  BY DEF Request, Created, ApplyProperty
<1> HIDE DEF def, col
<1>5. FileOK(file')
  BY <1>2, <1>3, <1>4 DEF Shapes, FileOK
<1>6. /\ DOMAIN req' = {"pc", "schema", "todo", "name", "cls", "left"}
      /\ req'.pc = "apply" /\ req'.todo = req.todo /\ req'.left = req.left \ {p}
      /\ DOMAIN req'.cls = {"ClassID", "loaded", "props", "indexes"}
      /\ req'.cls.indexes = req.cls.indexes
      /\ req'.cls.props = [q \in DOMAIN req.cls.props \cup {p} |->
                             IF q = p THEN [D |-> def, ID |-> id, ColMap |-> col]
                                      ELSE req.cls.props[q]]
  BY DEF ApplyProperty, Shapes, ClassOK, def, col
<1>7. ClassOK(req.cls) /\ req.pc = "apply"
  BY DEF Shapes, ApplyProperty
<1>8. ClassOK(req'.cls)
  BY <1>1, <1>2, <1>6, <1>7 DEF ClassOK
<1>9. UNCHANGED <<saved, Classes>>
  BY DEF ApplyProperty
<1> QED  BY <1>5, <1>6, <1>8, <1>9 DEF Shapes

(* Properties of a class object and its rows are one to one.               *)
LEMMA CreatedRow ==
  ASSUME NEW cls, NEW c, Created(cls, c), NEW p \in DOMAIN cls.props
  PROVE  LET r == cls.props[p].ID
         IN  /\ r \in DOMAIN file.props /\ r \in PropRows(file, cls.ClassID)
             /\ file.props[r] = [class |-> cls.ClassID, name |-> p,
                                 ctlv |-> GetCTLV(cls.props[p].D), ColMap |-> cls.props[p].ColMap]
             /\ file.props[r].name = p /\ file.props[r].class = cls.ClassID
             /\ file.props[r].ColMap = cls.props[p].ColMap
             /\ file.props[r].ctlv = GetCTLV(cls.props[p].D)
             /\ cls.props[p].D = req.schema[c].properties[p]
<1> DEFINE r == cls.props[p].ID
<1>1. /\ r \in DOMAIN file.props
      /\ file.props[r] = [class |-> cls.ClassID, name |-> p,
                          ctlv |-> GetCTLV(cls.props[p].D), ColMap |-> cls.props[p].ColMap]
      /\ cls.props[p].D = req.schema[c].properties[p]
  BY DEF Created
<1>2. /\ file.props[r].name = p /\ file.props[r].class = cls.ClassID
      /\ file.props[r].ColMap = cls.props[p].ColMap
      /\ file.props[r].ctlv = GetCTLV(cls.props[p].D)
  BY <1>1
<1>3. r \in PropRows(file, cls.ClassID)
  BY <1>1, <1>2 DEF PropRows
<1> QED  BY <1>1, <1>2, <1>3

(* A row of the class is a property of the class object.                   *)
LEMMA CreatedColumn ==
  ASSUME NEW cls, NEW c, Created(cls, c), NEW r \in PropRows(file, cls.ClassID)
  PROVE  file.props[r].name \in DOMAIN cls.props /\ cls.props[file.props[r].name].ID = r
BY DEF Created

(* The properties of a class object that ask for an index have IDs of      *)
(* their own, and there are finitely many.                                 *)
LEMMA AskingIDs ==
  ASSUME Shapes, NEW cls, NEW c, Created(cls, c), NEW ps, ps \subseteq DOMAIN cls.props
  PROVE  /\ \A p \in DOMAIN cls.props : cls.props[p].ID \in Nat
         /\ \A p, q \in DOMAIN cls.props : cls.props[p].ID = cls.props[q].ID => p = q
         /\ \A index : IsFiniteSet(Asking(cls, ps, index))
<1>1. \A p \in DOMAIN cls.props :
        cls.props[p].ID \in DOMAIN file.props /\ file.props[cls.props[p].ID].name = p
  BY CreatedRow
<1>2. file.lastProp \in Nat /\ DOMAIN file.props \subseteq 1 .. file.lastProp
  BY DEF Shapes, FileOK
<1>3. ASSUME NEW index PROVE IsFiniteSet(Asking(cls, ps, index))
  <2>1. Asking(cls, ps, index) \subseteq 1 .. file.lastProp
    BY <1>1, <1>2 DEF Asking
  <2>2. IsFiniteSet(1 .. file.lastProp)
    BY <1>2, FS_Interval
  <2> QED  BY <2>1, <2>2, FS_Subset
<1> QED  BY <1>1, <1>2, <1>3

(* One round of normalizeIndexDefinitions.                                 *)
LEMMA IndexStep ==
  ASSUME Shapes, Request, NEW p \in Prop, IndexProperty(p)
  PROVE  LET c == req.name IN
         /\ c \in DOMAIN Classes /\ DOMAIN Classes' = DOMAIN Classes
         /\ \A k \in DOMAIN Classes : k # c => Classes'[k] = Classes[k]
         /\ DOMAIN Classes'[c] = {"ClassID", "loaded", "props", "indexes"}
         /\ Classes'[c].ClassID = Classes[c].ClassID /\ Classes'[c].loaded = Classes[c].loaded
         /\ Classes'[c].props = Classes[c].props
         /\ Indexed(Classes'[c].indexes,
                    Asking(Classes[c], DOMAIN Classes[c].props \ req'.left, "fulltext"),
                    Asking(Classes[c], DOMAIN Classes[c].props \ req'.left, "range"))
<1> DEFINE c == req.name
           cls == Classes[c]
           prop == cls.props[p]
           set == SetPropertyIndex(cls.indexes, prop.ID, prop.D)
           done == DOMAIN cls.props \ req.left
<1>1. /\ req.pc = "index" /\ p \in req.left /\ set.ok
      /\ Classes' = [Classes EXCEPT ![c].indexes = set.indexes]
      /\ req' = [req EXCEPT !.left = @ \ {p}]
  BY DEF IndexProperty
<1>2. /\ c \in DOMAIN Classes /\ req.left \subseteq DOMAIN cls.props /\ Created(cls, c)
      /\ Indexed(cls.indexes, Asking(cls, done, "fulltext"), Asking(cls, done, "range"))
  BY <1>1 DEF Request, IndexedSoFar
<1>3. ClassOK(cls) /\ "left" \in DOMAIN req
  BY <1>2 DEF Shapes
<1> HIDE DEF c, cls
<1>4. /\ prop.D \in PropertyDefData /\ prop.ID \in Nat
      /\ IsFiniteSet(Asking(cls, done, "fulltext")) /\ IsFiniteSet(Asking(cls, done, "range"))
  BY <1>1, <1>2, <1>3, AskingIDs DEF ClassOK
<1>5. \A index : prop.ID \notin Asking(cls, done, index)
  BY <1>1, <1>2, AskingIDs DEF Asking
<1>6. DOMAIN cls.props \ req'.left = done \cup {p}
  BY <1>1, <1>2, <1>3
<1>7. \A index : Asking(cls, done \cup {p}, index) =
                   IF prop.D.index = index THEN Asking(cls, done, index) \cup {prop.ID}
                   ELSE Asking(cls, done, index)
  BY <1>1, <1>2 DEF Asking
<1> HIDE DEF prop, done
<1>8. Indexed(set.indexes, Asking(cls, done \cup {p}, "fulltext"), Asking(cls, done \cup {p}, "range"))
  <2> DEFINE fts == Asking(cls, done, "fulltext")
             rng == Asking(cls, done, "range")
             id == prop.ID
             def == prop.D
             ix == cls.indexes
  <2>1. /\ Indexed(ix, fts, rng) /\ IsFiniteSet(fts) /\ IsFiniteSet(rng)
        /\ id \notin fts /\ id \notin rng
    BY <1>2, <1>4, <1>5
  <2>2. id \in Nat /\ def \in PropertyDefData /\ SetPropertyIndex(ix, id, def).ok
    BY <1>1, <1>4
  <2> HIDE DEF fts, rng, id, def, ix
  <2>3. Indexed(SetPropertyIndex(ix, id, def).indexes,
                IF def.index = "fulltext" THEN fts \cup {id} ELSE fts,
                IF def.index = "range" THEN rng \cup {id} ELSE rng)
    BY <2>1, <2>2, SetIndex
  <2> QED  BY <1>7, <2>3 DEF fts, rng, id, def, ix
<1> QED  BY <1>1, <1>2, <1>3, <1>6, <1>8 DEF c, cls, ClassOK

(* The index definitions of a class keep to the columns there are.         *)
LEMMA IndexShapes ==
  ASSUME Shapes, Request, NEW p \in Prop, IndexProperty(p)
  PROVE  Shapes'
<1>1. \A c \in DOMAIN Classes' : ClassOK(Classes'[c])
  <2>1. IndexesOK(Classes'[req.name].indexes)
    BY IndexStep DEF Indexed
  <2>2. ClassOK(Classes[req.name])
    BY IndexStep DEF Shapes
  <2>3. ClassOK(Classes'[req.name])
    BY <2>1, <2>2, IndexStep DEF ClassOK
  <2> QED  BY <2>3, IndexStep DEF Shapes
<1>2. /\ DOMAIN req' = {"pc", "schema", "todo", "name", "cls", "left"}
      /\ req'.pc = "index" /\ req'.left \subseteq Prop /\ req'.todo = req.todo
  BY DEF IndexProperty, Shapes
<1>3. UNCHANGED <<file, saved>>
  BY DEF IndexProperty
<1> QED  BY <1>1, <1>2, <1>3, IndexStep DEF Shapes

(* A row that is written as it is stays the same.                          *)
LEMMA SameRow ==
  ASSUME NEW A, NEW B, NEW C, NEW D, NEW row \in [class : A, name : B, ctlv : C, ColMap : D],
         NEW x, NEW y, x = row.ctlv, y = row.ColMap
  PROVE  [row EXCEPT !.ctlv = x, !.ColMap = y] = row
OBVIOUS

(* Saving the properties once more changes nothing.                        *)
LEMMA SaveKeepsRows ==
  ASSUME Shapes, Request, SaveClassDef
  PROVE  LET cls == Classes[req.name] IN
         /\ req.name \in DOMAIN Classes /\ cls.ClassID \in DOMAIN file.classes
         /\ DOMAIN file' = {"classes", "props", "lastClass", "lastProp"}
         /\ file'.lastClass = file.lastClass /\ file'.lastProp = file.lastProp
         /\ DOMAIN file'.classes = DOMAIN file.classes
         /\ \A id \in DOMAIN file.classes : id # cls.ClassID => file'.classes[id] = file.classes[id]
         /\ DOMAIN file'.classes[cls.ClassID] = {"name", "data"}
         /\ file'.classes[cls.ClassID].name = file.classes[cls.ClassID].name
         /\ file'.classes[cls.ClassID].data = InternalToJSON(cls)
         /\ DOMAIN file'.props = DOMAIN file.props
         /\ \A r \in DOMAIN file.props : file'.props[r] = file.props[r]
<1> DEFINE cls == Classes[req.name]
<1>1. req.name \in DOMAIN Classes /\ Created(cls, req.name) /\ cls.ClassID \in DOMAIN file.classes
  BY DEF SaveClassDef, PropsSavedAgain, Request, Created
<1>2. /\ DOMAIN file = {"classes", "props", "lastClass", "lastProp"}
      /\ \A id \in DOMAIN file.classes : DOMAIN file.classes[id] = {"name", "data"}
  BY DEF Shapes, FileOK
<1> HIDE DEF cls
<1>3. file' = [file EXCEPT
                 !.props = [r \in DOMAIN @ |->
                    IF r \in PropRows(file, cls.ClassID)
                      THEN [@[r] EXCEPT !.ctlv = GetCTLV(cls.props[file.props[r].name].D),
                                        !.ColMap = cls.props[file.props[r].name].ColMap]
                      ELSE @[r]],
                 !.classes[cls.ClassID].data = InternalToJSON(cls)]
  BY DEF SaveClassDef, PropsSavedAgain, cls
<1>4. ASSUME NEW r \in DOMAIN file.props PROVE file'.props[r] = file.props[r]
  <2>1. CASE r \notin PropRows(file, cls.ClassID)
    BY <1>2, <1>3, <2>1
  <2>2. CASE r \in PropRows(file, cls.ClassID)
    <3>0. PICK q \in DOMAIN cls.props : q = file.props[r].name /\ cls.props[q].ID = r
      BY <1>1, <2>2, CreatedColumn
    <3>1. /\ file.props[r].ctlv = GetCTLV(cls.props[q].D)
          /\ file.props[r].ColMap = cls.props[q].ColMap
      <4>1. /\ file.props[cls.props[q].ID].ctlv = GetCTLV(cls.props[q].D)
            /\ file.props[cls.props[q].ID].ColMap = cls.props[q].ColMap
        BY <1>1, CreatedRow
      <4> QED  BY <3>0, <4>1
    <3>2. file'.props[r] = [file.props[r] EXCEPT !.ctlv = GetCTLV(cls.props[q].D),
                                                 !.ColMap = cls.props[q].ColMap]
      BY <1>2, <1>3, <2>2, <3>0
    <3>3. file.props[r] \in [class : DOMAIN file.classes, name : Prop,
                             ctlv : {"none", "index", "unique"}, ColMap : 0 .. Columns]
      BY DEF Shapes, FileOK
    <3>4. [file.props[r] EXCEPT !.ctlv = GetCTLV(cls.props[q].D),
                                !.ColMap = cls.props[q].ColMap] = file.props[r]
      BY <3>1, <3>3, SameRow
    <3> QED  BY <3>2, <3>4
  <2> QED  BY <2>1, <2>2
<1>5. DOMAIN file'.props = DOMAIN file.props
  BY <1>2, <1>3
<1> QED  BY <1>1, <1>2, <1>3, <1>4, <1>5 DEF cls

(* Saving a class: the tables keep their shape.                            *)
LEMMA SaveShapes ==
  ASSUME Shapes, Request, SaveClassDef
  PROVE  Shapes'
<1>1. FileOK(file')
  BY SaveKeepsRows DEF Shapes, FileOK
<1>2. /\ DOMAIN req' = {"pc", "schema", "todo", "name", "cls", "left"}
      /\ req'.pc = "save" /\ req'.left = req.left /\ req'.todo \subseteq req.todo
  BY DEF SaveClassDef, PropsSavedAgain, Shapes
<1>3. UNCHANGED <<saved, Classes>>
  BY DEF SaveClassDef, PropsSavedAgain
<1> QED  BY <1>1, <1>2, <1>3 DEF Shapes

(* What is loaded from the rows and the definition of a complete class.    *)
LEMMA LoadShapes ==
  ASSUME NEW f, FileOK(f), NEW id \in DOMAIN f.classes, Whole(f, id)
  PROVE  /\ ClassOK(LoadClass(f, id))
         /\ CanLoad(f, id)
         /\ DOMAIN LoadClass(f, id).props = {f.props[r].name : r \in PropRows(f, id)}
         /\ \A r \in PropRows(f, id) :
              LoadClass(f, id).props[f.props[r].name] =
                [D |-> f.classes[id].data.properties[r], ID |-> r, ColMap |-> NoColumn]
<1> DEFINE data == f.classes[id].data
           cls == LoadClass(f, id)
           names == {f.props[r].name : r \in PropRows(f, id)}
           row(p) == CHOOSE r \in PropRows(f, id) : f.props[r].name = p
<1>1. /\ DOMAIN data = {"properties", "indexes"}
      /\ DOMAIN data.properties = PropRows(f, id)
      /\ \A r \in PropRows(f, id) : data.properties[r] \in PropertyDefData
      /\ \A p, q \in PropRows(f, id) : f.props[p].name = f.props[q].name => p = q
      /\ IndexesOK(data.indexes)
  BY DEF Whole, Indexed
<1>2. CanLoad(f, id)
  <2>1. DOMAIN NoData = {"properties"}
    BY DEF NoData
  <2>2. "indexes" \notin DOMAIN NoData
    BY <2>1
  <2>3. data # NoData
    BY <1>1, <2>2
  <2> QED  BY <1>1, <2>3 DEF CanLoad
<1>3. \A r \in PropRows(f, id) : row(f.props[r].name) = r
  BY <1>1
<1>4. names \subseteq Prop
  BY DEF FileOK, PropRows
<1>5. /\ cls = [ClassID |-> id, loaded |-> TRUE, indexes |-> data.indexes,
                props |-> [p \in names |-> [D |-> data.properties[row(p)], ID |-> row(p), ColMap |-> NoColumn]]]
  BY DEF LoadClass
<1>6. \A p \in names : row(p) \in PropRows(f, id) /\ f.props[row(p)].name = p
  OBVIOUS
<1>7. 0 \in 0 .. Columns
  BY ConstantTypes
<1> HIDE DEF data, cls, names, row
<1>8. /\ DOMAIN cls = {"ClassID", "loaded", "props", "indexes"} /\ cls.indexes = data.indexes
      /\ DOMAIN cls.props = names
      /\ \A p \in names : cls.props[p] = [D |-> data.properties[row(p)], ID |-> row(p), ColMap |-> NoColumn]
  BY <1>5
<1>9. ASSUME NEW p \in names
      PROVE  /\ DOMAIN cls.props[p] = {"D", "ID", "ColMap"}
             /\ cls.props[p].D \in PropertyDefData /\ cls.props[p].ColMap \in 0 .. Columns
  <2>1. PICK r \in PropRows(f, id) : r = row(p)
    BY <1>6
  <2>2. cls.props[p] = [D |-> data.properties[r], ID |-> r, ColMap |-> NoColumn]
    BY <1>8, <2>1
  <2>3. data.properties[r] \in PropertyDefData
    BY <1>1
  <2> QED  BY <1>7, <2>2, <2>3 DEF NoColumn
<1>10. ClassOK(cls)
  BY <1>1, <1>4, <1>8, <1>9 DEF ClassOK
<1>11. \A r \in PropRows(f, id) : f.props[r].name \in names
  BY DEF names
<1> QED  BY <1>2, <1>3, <1>8, <1>10, <1>11 DEF cls, data, names

(* The actions that write nothing to the tables, or put them back.         *)
LEMMA OtherShapes ==
  ASSUME Shapes, Request, Files,
         \/ \E s \in Schemas : CreateSchema(s)
         \/ \E c \in Class : ApplyIndexing(c) \/ GetClassDef(c)
         \/ AddClassToList \/ Commit \/ HandlerFails \/ OtherRequest \/ Return
  PROVE  Shapes'
<1>1. ASSUME NEW s \in Schemas, CreateSchema(s) PROVE Shapes'
  <2>1. DOMAIN s \subseteq Class
    BY SchemaTypes
  <2> QED  BY <1>1, <2>1 DEF CreateSchema, Shapes, Idle, Nothing
<1>2. ASSUME NEW c \in Class, ApplyIndexing(c) PROVE Shapes'
  <2>1. c \in DOMAIN Classes
    BY <1>2 DEF ApplyIndexing, Request
  <2>2. DOMAIN Classes[c].props \subseteq Prop
    BY <2>1 DEF Shapes, ClassOK
  <2> QED  BY <1>2, <2>2 DEF ApplyIndexing, Shapes
<1>3. ASSUME NEW c \in Class, GetClassDef(c) PROVE Shapes'
  <2>1. PICK id \in DOMAIN file.classes :
           Classes' = [k \in DOMAIN Classes \cup {c} |-> IF k = c THEN LoadClass(file, id) ELSE Classes[k]]
    BY <1>3 DEF GetClassDef, ClassIDs
  <2>2. Whole(file, id)
    BY <1>3 DEF Files, UnderWay, GetClassDef
  <2>3. ClassOK(LoadClass(file, id))
    BY <2>2, LoadShapes DEF Shapes
  <2> QED  BY <1>3, <2>1, <2>3 DEF GetClassDef, Shapes
<1>4. CASE AddClassToList
  <2>1. ClassOK(req.cls) /\ req.name \in Class
    BY <1>4 DEF AddClassToList, Shapes, Request
  <2>2. \A c \in DOMAIN Classes' : c \in Class /\ ClassOK(Classes'[c])
    BY <1>4, <2>1 DEF AddClassToList, Shapes
  <2>3. /\ DOMAIN req' = {"pc", "schema", "todo", "name", "cls", "left"}
        /\ req'.pc \in {"insert", "save"} /\ req'.left = req.left /\ req'.todo \subseteq Class
    <3>1. DOMAIN req.schema \subseteq Class
      BY <1>4, SchemaTypes DEF AddClassToList, Request
    <3> QED  BY <1>4, <3>1 DEF AddClassToList, Shapes
  <2> QED  BY <1>4, <2>2, <2>3 DEF AddClassToList, Shapes
<1>5. CASE Commit
  BY <1>5 DEF Commit, Shapes
<1>6. CASE HandlerFails \/ Return
  BY <1>6 DEF HandlerFails, Return, Shapes, Idle
<1>7. CASE OtherRequest
  BY <1>7 DEF OtherRequest, Shapes, Idle, Nothing
<1> QED  BY <1>1, <1>2, <1>3, <1>4, <1>5, <1>6, <1>7

-----------------------------------------------------------------------------
(* The request and its class objects.                                      *)

Working == req.pc \in {"insert", "apply", "save", "index"}

(* A class object and its rows still agree when other rows are added.      *)
LEMMA CreatedKept ==
  ASSUME NEW cls, NEW c, Created(cls, c), DOMAIN file.props \subseteq DOMAIN file'.props,
         cls.ClassID \in DOMAIN file'.classes,
         file'.classes[cls.ClassID].name = file.classes[cls.ClassID].name,
         \A r \in DOMAIN file.props : file'.props[r] = file.props[r],
         \A r \in DOMAIN file'.props \ DOMAIN file.props : file'.props[r].class # cls.ClassID,
         req'.schema = req.schema
  PROVE  Created(cls, c)'
<1>1. PropRows(file', cls.ClassID) = PropRows(file, cls.ClassID)
  BY DEF PropRows
<1>2. ASSUME NEW p \in DOMAIN cls.props
      PROVE  /\ cls.props[p].ID \in DOMAIN file'.props
             /\ file'.props[cls.props[p].ID] =
                  [class |-> cls.ClassID, name |-> p, ctlv |-> GetCTLV(cls.props[p].D),
                   ColMap |-> cls.props[p].ColMap]
             /\ cls.props[p].D = req'.schema[c].properties[p]
  BY <1>2, CreatedRow
<1>3. ASSUME NEW r \in PropRows(file', cls.ClassID)
      PROVE  file'.props[r].name \in DOMAIN cls.props /\ cls.props[file'.props[r].name].ID = r
  BY <1>1, <1>3, CreatedColumn DEF PropRows
<1> QED  BY <1>2, <1>3 DEF Created

(* The IDs of the classes that are being made are of this request.         *)
LEMMA OwnIDs ==
  ASSUME Shapes, Request, Working, NEW c \in DOMAIN Classes
  PROVE  /\ Created(Classes[c], c) /\ Classes[c].ClassID \in DOMAIN file.classes
         /\ file.classes[Classes[c].ClassID].name = c
         /\ Classes[c].ClassID \notin DOMAIN saved.classes
         /\ \A k \in DOMAIN Classes : k # c => Classes[k].ClassID # Classes[c].ClassID
         /\ req.pc = "apply" => /\ req.name # c /\ req.cls.ClassID # Classes[c].ClassID
<1>1. \A k \in DOMAIN Classes : /\ Created(Classes[k], k)
                                /\ Classes[k].ClassID \in DOMAIN file.classes
                                /\ file.classes[Classes[k].ClassID].name = k
  BY DEF Request, Working, Created
<1>2. req.pc = "apply" => /\ file.classes[req.cls.ClassID].name = req.name /\ req.name \notin DOMAIN Classes
  BY DEF Request, Created
<1>3. Classes[c].ClassID \notin DOMAIN saved.classes
  BY DEF Request, Working
<1> QED  BY <1>1, <1>2, <1>3

(* No property asks for an index among none.                               *)
LEMMA NothingAsked ==
  ASSUME NEW cls, NEW index
  PROVE  Asking(cls, {}, index) = {}
BY DEF Asking

(* A new class joins the request.                                          *)
LEMMA InsertRequest ==
  ASSUME Shapes, Request, Adds, NEW c \in Class, InsertNewClass(c)
  PROVE  Request'
<1> DEFINE id == file.lastClass + 1
<1>1. /\ file.lastClass \in Nat /\ id \notin DOMAIN file.classes
      /\ file'.props = file.props
      /\ file'.classes = [i \in DOMAIN file.classes \cup {id} |->
                            IF i = id THEN [name |-> c, data |-> NoData] ELSE file.classes[i]]
  BY DEF InsertNewClass, Shapes, FileOK
<1>2. /\ req'.pc = "apply" /\ req'.todo = req.todo /\ req'.schema = req.schema /\ req'.name = c
      /\ req'.left = DOMAIN req.schema[c].properties
      /\ req'.cls = [ClassID |-> id, loaded |-> FALSE, props |-> Nothing, indexes |-> IndexDefinitions]
      /\ Classes' = Classes /\ saved' = saved /\ req.pc = "insert" /\ c \in req.todo
  BY DEF InsertNewClass, Shapes
<1>3. PropRows(file', id) = {}
  BY <1>1 DEF PropRows, Shapes, FileOK
<1>4. /\ req'.cls.ClassID = id /\ req'.cls.loaded = FALSE /\ DOMAIN req'.cls.props = {}
      /\ req'.cls.indexes = IndexDefinitions
  BY <1>2 DEF Nothing
<1>5. Created(req.cls, req.name)'
  BY <1>1, <1>2, <1>3, <1>4 DEF Created
<1>6. id \notin DOMAIN saved.classes
  BY <1>1 DEF Adds
<1>7. ASSUME NEW k \in DOMAIN Classes'
      PROVE  /\ Created(Classes[k], k)'
             /\ DOMAIN Classes'[k].props = DOMAIN req'.schema[k].properties
             /\ Classes'[k].ClassID \notin DOMAIN saved'.classes
             /\ Indexed(Classes'[k].indexes, Asking(Classes'[k], IndexedSoFar(k)', "fulltext"),
                        Asking(Classes'[k], IndexedSoFar(k)', "range"))
  <2>1. /\ k \in DOMAIN Classes /\ Created(Classes[k], k) /\ Classes[k].ClassID \in DOMAIN file.classes
        /\ Classes[k].ClassID \notin DOMAIN saved.classes
    BY <1>2, OwnIDs DEF Working
  <2>2. Created(Classes[k], k)'
    BY <1>1, <1>2, <2>1, CreatedKept
  <2>3. IndexedSoFar(k)' = {} /\ IndexedSoFar(k) = {}
    BY <1>2 DEF IndexedSoFar
  <2>4. /\ DOMAIN Classes[k].props = DOMAIN req.schema[k].properties
        /\ Indexed(Classes[k].indexes, Asking(Classes[k], IndexedSoFar(k), "fulltext"),
                   Asking(Classes[k], IndexedSoFar(k), "range"))
    BY <1>2, <2>1 DEF Request
  <2> QED  BY <1>2, <2>1, <2>2, <2>3, <2>4
<1> HIDE DEF id
<1>8. req.schema \in Schemas /\ req.todo \subseteq DOMAIN req.schema /\ DOMAIN Classes = DOMAIN req.schema \ req.todo
  BY <1>2 DEF Request
<1> QED  BY <1>2, <1>4, <1>5, <1>6, <1>7, <1>8 DEF Request

(* What the classes in the cache are to satisfy in the next state.         *)
ClassRequest(c) ==
  /\ Created(Classes[c], c)
  /\ DOMAIN Classes[c].props = DOMAIN req.schema[c].properties
  /\ req.pc # "done" => Classes[c].ClassID \notin DOMAIN saved.classes
  /\ Indexed(Classes[c].indexes, Asking(Classes[c], IndexedSoFar(c), "fulltext"),
             Asking(Classes[c], IndexedSoFar(c), "range"))

(* What Request says of one class.                                         *)
LEMMA ClassesOfRequest ==
  ASSUME Request, req.pc \in {"insert", "apply", "save", "index", "done"}, NEW c \in DOMAIN Classes
  PROVE  ClassRequest(c)
BY DEF Request, ClassRequest

(* A new property joins the class under construction.                      *)
LEMMA ApplyRequest ==
  ASSUME Shapes, Request, NEW p \in Prop, ApplyProperty(p)
  PROVE  Request'
<1> DEFINE def == req.schema[req.name].properties[p]
           col == AssignColMapping(req.cls, def)
           id == file.lastProp + 1
<1>1. /\ file.lastProp \in Nat /\ id \notin DOMAIN file.props
      /\ file'.classes = file.classes
      /\ file'.props = [i \in DOMAIN file.props \cup {id} |->
                          IF i = id THEN [class |-> req.cls.ClassID, name |-> p,
                                          ctlv |-> GetCTLV(def), ColMap |-> col]
                                    ELSE file.props[i]]
  BY DEF ApplyProperty, Shapes, FileOK
<1>2. /\ req'.pc = "apply" /\ req'.todo = req.todo /\ req'.schema = req.schema /\ req'.name = req.name
      /\ req'.left = req.left \ {p} /\ p \in req.left /\ req.pc = "apply"
      /\ Classes' = Classes /\ saved' = saved
  BY DEF ApplyProperty, Shapes
<1>3. /\ req'.cls.ClassID = req.cls.ClassID /\ req'.cls.loaded = req.cls.loaded
      /\ req'.cls.indexes = req.cls.indexes
      /\ req'.cls.props = [q \in DOMAIN req.cls.props \cup {p} |->
                             IF q = p THEN [D |-> def, ID |-> id, ColMap |-> col]
                                      ELSE req.cls.props[q]]
  BY DEF ApplyProperty, Shapes, ClassOK
<1>4. /\ Created(req.cls, req.name) /\ req.cls.ClassID \in DOMAIN file.classes
      /\ file.classes[req.cls.ClassID].name = req.name /\ req.cls.loaded = FALSE
      /\ req.cls.ClassID \notin DOMAIN saved.classes
      /\ DOMAIN req.cls.props = DOMAIN req.schema[req.name].properties \ req.left
      /\ req.left \subseteq DOMAIN req.schema[req.name].properties
      /\ req.cls.indexes = IndexDefinitions
  BY <1>2 DEF Request, Created
<1>5. def = req.schema[req.name].properties[p]
  OBVIOUS
<1> HIDE DEF def, col, id
<1>6. ASSUME NEW q \in DOMAIN req'.cls.props
      PROVE  /\ req'.cls.props[q].ID \in DOMAIN file'.props
             /\ file'.props[req'.cls.props[q].ID] =
                  [class |-> req'.cls.ClassID, name |-> q, ctlv |-> GetCTLV(req'.cls.props[q].D),
                   ColMap |-> req'.cls.props[q].ColMap]
             /\ req'.cls.props[q].D = req'.schema[req'.name].properties[q]
  <2>1. CASE q = p
    BY <1>1, <1>2, <1>3, <1>5, <2>1
  <2>2. CASE q # p
    <3>1. q \in DOMAIN req.cls.props /\ req'.cls.props[q] = req.cls.props[q]
      BY <1>3, <2>2
    <3>2. /\ req.cls.props[q].ID \in DOMAIN file.props
          /\ file.props[req.cls.props[q].ID] =
               [class |-> req.cls.ClassID, name |-> q, ctlv |-> GetCTLV(req.cls.props[q].D),
                ColMap |-> req.cls.props[q].ColMap]
          /\ req.cls.props[q].D = req.schema[req.name].properties[q]
      BY <1>4, <3>1, CreatedRow
    <3>3. PICK r \in DOMAIN file.props : r = req.cls.props[q].ID
      BY <3>2
    <3>4. r \in DOMAIN file'.props /\ file'.props[r] = file.props[r]
      BY <1>1
    <3>5. req'.cls.ClassID = req.cls.ClassID /\ req'.schema[req'.name] = req.schema[req.name]
      BY <1>2, <1>3
    <3> QED  BY <3>1, <3>2, <3>3, <3>4, <3>5
  <2> QED  BY <2>1, <2>2
<1>7. ASSUME NEW r \in PropRows(file', req'.cls.ClassID)
      PROVE  /\ file'.props[r].name \in DOMAIN req'.cls.props
             /\ req'.cls.props[file'.props[r].name].ID = r
  <2>1. CASE r = id
    BY <1>1, <1>3, <2>1
  <2>2. CASE r # id
    <3>1. r \in PropRows(file, req.cls.ClassID) /\ file'.props[r] = file.props[r]
      BY <1>1, <1>3, <2>2 DEF PropRows
    <3>2. file.props[r].name \in DOMAIN req.cls.props /\ req.cls.props[file.props[r].name].ID = r
      BY <1>4, <3>1, CreatedColumn
    <3>3. file.props[r].name # p
      BY <1>2, <1>4, <3>2
    <3> QED  BY <1>3, <3>1, <3>2, <3>3
  <2> QED  BY <2>1, <2>2
<1>8. Created(req.cls, req.name)'
  BY <1>1, <1>2, <1>3, <1>4, <1>6, <1>7 DEF Created
<1>9. ASSUME NEW k \in DOMAIN Classes PROVE ClassRequest(k)'
  <2>1. /\ Created(Classes[k], k) /\ Classes[k].ClassID \in DOMAIN file.classes
        /\ Classes[k].ClassID \notin DOMAIN saved.classes /\ req.cls.ClassID # Classes[k].ClassID
    BY <1>2, OwnIDs DEF Working
  <2>2. Created(Classes[k], k)'
    BY <1>1, <1>2, <2>1, CreatedKept
  <2>3. IndexedSoFar(k)' = {} /\ IndexedSoFar(k) = {}
    BY <1>2 DEF IndexedSoFar
  <2> QED  BY <1>2, <2>1, <2>2, <2>3, ClassesOfRequest DEF ClassRequest
<1>10. req.schema \in Schemas /\ req.todo \subseteq DOMAIN req.schema /\ DOMAIN Classes = DOMAIN req.schema \ req.todo
       /\ req.name \in req.todo
  BY <1>2 DEF Request
<1>11. DOMAIN req'.cls.props = DOMAIN req'.schema[req'.name].properties \ req'.left
  BY <1>2, <1>3, <1>4
<1> QED  BY <1>2, <1>3, <1>4, <1>8, <1>9, <1>10, <1>11 DEF Request, ClassRequest

(* The class under construction is complete and joins the cache.           *)
LEMMA AddRequest ==
  ASSUME Shapes, Request, AddClassToList
  PROVE  Request'
<1> DEFINE n == req.name
<1>1. /\ req.pc = "apply" /\ req.left = {}
      /\ Classes' = [c \in DOMAIN Classes \cup {n} |-> IF c = n THEN req.cls ELSE Classes[c]]
      /\ req'.schema = req.schema /\ file' = file /\ saved' = saved
      /\ \/ req'.pc = "insert" /\ req'.todo = req.todo \ {n}
         \/ req'.pc = "save" /\ req'.todo = DOMAIN req.schema /\ req.todo \ {n} = {}
  BY DEF AddClassToList, Shapes
<1>2. /\ Created(req.cls, n) /\ req.cls.ClassID \notin DOMAIN saved.classes
      /\ DOMAIN req.cls.props = DOMAIN req.schema[n].properties
      /\ req.cls.indexes = IndexDefinitions
      /\ req.schema \in Schemas /\ req.todo \subseteq DOMAIN req.schema /\ n \in req.todo
      /\ DOMAIN Classes = DOMAIN req.schema \ req.todo
  BY <1>1 DEF Request
<1> HIDE DEF n
<1>3. ASSUME NEW cls, NEW c, Created(cls, c) PROVE Created(cls, c)'
  BY <1>1, <1>3 DEF Created
<1>4. ASSUME NEW c \in DOMAIN Classes' PROVE ClassRequest(c)'
  <2>1. IndexedSoFar(c)' = {}
    BY <1>1, <1>2, <1>4 DEF IndexedSoFar
  <2>2. CASE c = n
    <3>1. Classes'[c] = req.cls
      BY <1>1, <2>2
    <3>2. PICK cls : cls = req.cls /\ Created(cls, c)
      BY <1>2, <2>2
    <3>3. Created(Classes[c], c)'
      BY <1>3, <3>1, <3>2
    <3> QED  BY <1>1, <1>2, <2>1, <2>2, <3>1, <3>3, EmptyIndexes, NothingAsked DEF ClassRequest
  <2>3. CASE c # n
    <3>1. c \in DOMAIN Classes /\ Classes'[c] = Classes[c]
      BY <1>1, <2>3
    <3>2. ClassRequest(c) /\ IndexedSoFar(c) = {}
      BY <1>1, <3>1, ClassesOfRequest DEF IndexedSoFar
    <3>3. Created(Classes[c], c)'
      BY <1>3, <3>1, <3>2 DEF ClassRequest
    <3> QED  BY <1>1, <2>1, <3>1, <3>2, <3>3 DEF ClassRequest
  <2> QED  BY <2>2, <2>3
<1>5. DOMAIN Classes' = IF req'.pc = "insert" THEN DOMAIN req'.schema \ req'.todo ELSE DOMAIN req'.schema
  BY <1>1, <1>2
<1> QED  BY <1>1, <1>2, <1>4, <1>5 DEF Request, ClassRequest

(* The second loop comes to a class.                                       *)
LEMMA StartIndexRequest ==
  ASSUME Shapes, Request, NEW c \in Class, ApplyIndexing(c)
  PROVE  Request'
<1>1. /\ req.pc = "save" /\ c \in req.todo /\ req'.pc = "index" /\ req'.name = c
      /\ req'.left = DOMAIN Classes[c].props /\ req'.schema = req.schema /\ req'.todo = req.todo
      /\ file' = file /\ saved' = saved /\ Classes' = Classes
  BY DEF ApplyIndexing, Shapes
<1>2. ASSUME NEW k \in DOMAIN Classes' PROVE ClassRequest(k)'
  <2>1. k \in DOMAIN Classes /\ ClassRequest(k)
    BY <1>1, ClassesOfRequest
  <2>2. IndexedSoFar(k)' = IndexedSoFar(k)
    BY <1>1 DEF IndexedSoFar
  <2>3. Created(Classes[k], k)'
    BY <1>1, <2>1 DEF Created, ClassRequest
  <2> QED  BY <1>1, <2>1, <2>2, <2>3 DEF ClassRequest
<1>3. /\ req.schema \in Schemas /\ req.todo \subseteq DOMAIN req.schema /\ DOMAIN Classes = DOMAIN req.schema
      /\ \A k \in DOMAIN req.schema \ req.todo : file.classes[Classes[k].ClassID].data = InternalToJSON(Classes[k])
  BY <1>1 DEF Request
<1> QED  BY <1>1, <1>2, <1>3 DEF Request, ClassRequest

(* A class object with other indexes still agrees with its rows.           *)
LEMMA SameCreated ==
  ASSUME NEW cls, NEW new, NEW c, Created(cls, c), file' = file, req'.schema = req.schema,
         new.ClassID = cls.ClassID, new.loaded = cls.loaded, new.props = cls.props
  PROVE  Created(new, c)'
BY DEF Created

(* The second loop comes to a property.                                    *)
LEMMA IndexRequest ==
  ASSUME Shapes, Request, NEW p \in Prop, IndexProperty(p)
  PROVE  Request'
<1> DEFINE n == req.name
<1>1. /\ req.pc = "index" /\ p \in req.left /\ req'.pc = "index" /\ req'.name = n
      /\ req'.left = req.left \ {p} /\ req'.schema = req.schema /\ req'.todo = req.todo
      /\ file' = file /\ saved' = saved
  BY DEF IndexProperty, Shapes
<1>2. /\ req.schema \in Schemas /\ req.todo \subseteq DOMAIN req.schema /\ DOMAIN Classes = DOMAIN req.schema
      /\ n \in req.todo /\ req.left \subseteq DOMAIN Classes[n].props
      /\ \A k \in DOMAIN req.schema \ req.todo : file.classes[Classes[k].ClassID].data = InternalToJSON(Classes[k])
  BY <1>1 DEF Request
<1>3. /\ n \in DOMAIN Classes /\ DOMAIN Classes' = DOMAIN Classes
      /\ \A k \in DOMAIN Classes : k # n => Classes'[k] = Classes[k]
      /\ Classes'[n].ClassID = Classes[n].ClassID /\ Classes'[n].loaded = Classes[n].loaded
      /\ Classes'[n].props = Classes[n].props
      /\ Indexed(Classes'[n].indexes,
                 Asking(Classes[n], DOMAIN Classes[n].props \ req'.left, "fulltext"),
                 Asking(Classes[n], DOMAIN Classes[n].props \ req'.left, "range"))
  BY IndexStep
<1> HIDE DEF n
<1>4. ASSUME NEW k \in DOMAIN Classes' PROVE ClassRequest(k)'
  <2>1. k \in DOMAIN Classes /\ ClassRequest(k)
    BY <1>1, <1>3, ClassesOfRequest
  <2>2. CASE k = n
    <3>1. PICK cls, new : cls = Classes[k] /\ new = Classes'[k]
      OBVIOUS
    <3>2. Created(new, k)'
      <4>1. Created(cls, k) /\ new.ClassID = cls.ClassID /\ new.loaded = cls.loaded /\ new.props = cls.props
        BY <1>3, <2>1, <2>2, <3>1 DEF ClassRequest
      <4> QED  BY <1>1, <4>1, SameCreated
    <3>3. IndexedSoFar(k)' = DOMAIN Classes[n].props \ req'.left
      BY <1>1, <1>3, <2>2 DEF IndexedSoFar
    <3>4. \A ps, index : Asking(new, ps, index) = Asking(cls, ps, index)
      BY <1>3, <2>2, <3>1 DEF Asking
    <3>5. /\ DOMAIN new.props = DOMAIN req.schema[k].properties
          /\ new.ClassID \notin DOMAIN saved.classes
      BY <1>1, <1>3, <2>1, <2>2, <3>1 DEF ClassRequest
    <3>6. Indexed(new.indexes, Asking(new, IndexedSoFar(k)', "fulltext"), Asking(new, IndexedSoFar(k)', "range"))
      BY <1>3, <2>2, <3>1, <3>3, <3>4
    <3> QED  BY <1>1, <3>1, <3>2, <3>5, <3>6 DEF ClassRequest
  <2>3. CASE k # n
    <3>1. Classes'[k] = Classes[k] /\ IndexedSoFar(k)' = IndexedSoFar(k)
      BY <1>1, <1>3, <2>1, <2>3 DEF IndexedSoFar, n
    <3>2. Created(Classes[k], k)'
      BY <1>1, <2>1, <3>1, SameCreated DEF ClassRequest
    <3> QED  BY <1>1, <2>1, <3>1, <3>2 DEF ClassRequest
  <2> QED  BY <2>2, <2>3
<1>5. \A k \in DOMAIN req'.schema \ req'.todo :
        file'.classes[Classes'[k].ClassID].data = InternalToJSON(Classes'[k])
  BY <1>1, <1>2, <1>3
<1>6. req'.left \subseteq DOMAIN Classes'[req'.name].props
  BY <1>1, <1>2, <1>3
<1> QED  BY <1>1, <1>2, <1>3, <1>4, <1>5, <1>6 DEF Request, ClassRequest

(* A class of the request is saved.                                        *)
LEMMA SaveRequest ==
  ASSUME Shapes, Request, SaveClassDef
  PROVE  Request'
<1> DEFINE n == req.name
<1>1. /\ req.pc = "index" /\ req.left = {} /\ req'.pc = "save" /\ req'.schema = req.schema
      /\ req'.todo = req.todo \ {n} /\ Classes' = Classes /\ saved' = saved
  BY DEF SaveClassDef, PropsSavedAgain, Shapes
<1>2. /\ req.schema \in Schemas /\ req.todo \subseteq DOMAIN req.schema /\ DOMAIN Classes = DOMAIN req.schema
      /\ n \in req.todo
      /\ \A k \in DOMAIN req.schema \ req.todo : file.classes[Classes[k].ClassID].data = InternalToJSON(Classes[k])
  BY <1>1 DEF Request
<1>3. /\ n \in DOMAIN Classes /\ Classes[n].ClassID \in DOMAIN file.classes
      /\ DOMAIN file'.classes = DOMAIN file.classes
      /\ \A id \in DOMAIN file.classes : id # Classes[n].ClassID => file'.classes[id] = file.classes[id]
      /\ file'.classes[Classes[n].ClassID].name = file.classes[Classes[n].ClassID].name
      /\ file'.classes[Classes[n].ClassID].data = InternalToJSON(Classes[n])
      /\ DOMAIN file'.props = DOMAIN file.props
      /\ \A r \in DOMAIN file.props : file'.props[r] = file.props[r]
  BY SaveKeepsRows
<1> HIDE DEF n
<1>4. ASSUME NEW k \in DOMAIN Classes' PROVE ClassRequest(k)'
  <2>1. k \in DOMAIN Classes /\ ClassRequest(k)
    BY <1>1, ClassesOfRequest
  <2>2. PICK cls : cls = Classes[k] /\ Created(cls, k) /\ cls.ClassID \in DOMAIN file.classes
    BY <2>1 DEF ClassRequest, Created
  <2>3. file'.classes[cls.ClassID].name = file.classes[cls.ClassID].name
    BY <1>3, <2>2
  <2>4. Created(Classes[k], k)'
    BY <1>1, <1>3, <2>2, <2>3, CreatedKept
  <2>5. IndexedSoFar(k)' = IndexedSoFar(k)
    BY <1>1, <1>2 DEF IndexedSoFar, n
  <2> QED  BY <1>1, <2>1, <2>4, <2>5 DEF ClassRequest
<1>5. ASSUME NEW k \in DOMAIN req.schema \ req'.todo
      PROVE  file'.classes[Classes[k].ClassID].data = InternalToJSON(Classes[k])
  <2>1. CASE k = n
    BY <1>3, <2>1
  <2>2. CASE k # n
    <3>1. /\ Classes[k].ClassID # Classes[n].ClassID /\ Classes[k].ClassID \in DOMAIN file.classes
      BY <1>1, <1>2, <1>3, <2>2, OwnIDs DEF Working
    <3> QED  BY <1>1, <1>2, <1>3, <2>2, <3>1
  <2> QED  BY <2>1, <2>2
<1> QED  BY <1>1, <1>2, <1>4, <1>5 DEF Request, ClassRequest

(* The request commits.                                                    *)
LEMMA CommitRequest ==
  ASSUME Shapes, Request, Commit
  PROVE  Request'
<1>1. /\ req.pc = "save" /\ req.todo = {} /\ req'.pc = "done" /\ req'.schema = req.schema
      /\ req'.todo = req.todo /\ Classes' = Classes /\ file' = file
  BY DEF Commit, Shapes
<1>2. /\ req.schema \in Schemas /\ DOMAIN Classes = DOMAIN req.schema
      /\ \A k \in DOMAIN req.schema \ req.todo : file.classes[Classes[k].ClassID].data = InternalToJSON(Classes[k])
  BY <1>1 DEF Request
<1>3. ASSUME NEW k \in DOMAIN Classes' PROVE ClassRequest(k)'
  <2>1. k \in DOMAIN Classes /\ ClassRequest(k)
    BY <1>1, ClassesOfRequest
  <2>2. IndexedSoFar(k)' = IndexedSoFar(k)
    BY <1>1 DEF IndexedSoFar
  <2>3. Created(Classes[k], k)'
    BY <1>1, <2>1, SameCreated DEF ClassRequest
  <2> QED  BY <1>1, <2>1, <2>2, <2>3 DEF ClassRequest
<1> QED  BY <1>1, <1>2, <1>3 DEF Request, ClassRequest

(* A request starts, ends or fails, or another one loads a class.          *)
LEMMA OtherRequests ==
  ASSUME Shapes, Request,
         \/ \E s \in Schemas : CreateSchema(s)
         \/ \E c \in Class : GetClassDef(c)
         \/ HandlerFails \/ OtherRequest \/ Return
  PROVE  Request'
<1>1. ASSUME NEW s \in Schemas, CreateSchema(s) PROVE Request'
  BY <1>1 DEF CreateSchema, Request, Idle, Nothing
<1>2. ASSUME NEW c \in Class, GetClassDef(c) PROVE Request'
  BY <1>2 DEF GetClassDef, Request
<1>3. CASE HandlerFails \/ Return
  BY <1>3 DEF HandlerFails, Return, Request, Idle
<1>4. CASE OtherRequest
  BY <1>4 DEF OtherRequest, Request, Idle
<1> QED  BY <1>1, <1>2, <1>3, <1>4

-----------------------------------------------------------------------------
(* What is committed stays as it is while a request adds to it.            *)

(* The initial state, apart from the shapes.                               *)
LEMMA InitRest == Init => Request /\ Files /\ Adds /\ Own /\ ColumnsOK
BY DEF Init, Request, Files, Adds, Own, ColumnsOK, Idle, Nothing

(* Actions that leave the tables alone.                                    *)
LEMMA SameAdds ==
  ASSUME Adds, file' = file, saved' = saved
  PROVE  Adds'
BY DEF Adds

(* After a commit or a rollback both copies of the tables are the same.    *)
LEMMA CommittedAdds ==
  ASSUME file' = saved'
  PROVE  Adds'
BY DEF Adds

(* A new class has an ID that no committed class has.                      *)
LEMMA InsertAdds ==
  ASSUME Shapes, Adds, NEW c \in Class, InsertNewClass(c)
  PROVE  Adds'
<1> DEFINE id == file.lastClass + 1
<1>1. /\ file.lastClass \in Nat /\ id \notin DOMAIN file.classes
      /\ file'.props = file.props /\ saved' = saved
      /\ file'.classes = [i \in DOMAIN file.classes \cup {id} |->
                            IF i = id THEN [name |-> c, data |-> NoData] ELSE file.classes[i]]
  BY DEF InsertNewClass, Shapes, FileOK
<1> HIDE DEF id
<1> QED  BY <1>1 DEF Adds

(* A new property is one of a class that is not committed.                 *)
LEMMA ApplyAdds ==
  ASSUME Shapes, Request, Adds, NEW p \in Prop, ApplyProperty(p)
  PROVE  Adds'
<1>1. PICK id, row :
         /\ id \notin DOMAIN file.props /\ row.class = req.cls.ClassID
         /\ file'.classes = file.classes /\ saved' = saved
         /\ file'.props = [i \in DOMAIN file.props \cup {id} |-> IF i = id THEN row ELSE file.props[i]]
  <2>1. file.lastProp \in Nat /\ file.lastProp + 1 \notin DOMAIN file.props
    BY DEF Shapes, FileOK
  <2>2. PICK row :
         /\ row.class = req.cls.ClassID
         /\ file'.classes = file.classes /\ saved' = saved
         /\ file'.props = [i \in DOMAIN file.props \cup {file.lastProp + 1} |->
                             IF i = file.lastProp + 1 THEN row ELSE file.props[i]]
    BY DEF ApplyProperty, Shapes, FileOK
  <2> QED  BY <2>1, <2>2
<1>2. req.cls.ClassID \notin DOMAIN saved.classes
  BY DEF Request, ApplyProperty
<1> QED  BY <1>1, <1>2 DEF Adds

(* The class that is saved is not committed yet.                           *)
LEMMA SaveAdds ==
  ASSUME Shapes, Request, Adds, SaveClassDef
  PROVE  Adds'
<1> DEFINE mine == Classes[req.name].ClassID
<1>1. /\ DOMAIN file'.classes = DOMAIN file.classes
      /\ \A id \in DOMAIN file.classes : id # mine => file'.classes[id] = file.classes[id]
      /\ DOMAIN file'.props = DOMAIN file.props
      /\ \A r \in DOMAIN file.props : file'.props[r] = file.props[r]
  BY SaveKeepsRows
<1>2. mine \notin DOMAIN saved.classes
  BY SaveKeepsRows, OwnIDs DEF SaveClassDef, PropsSavedAgain, Working
<1>3. saved' = saved
  BY DEF SaveClassDef, PropsSavedAgain
<1> HIDE DEF mine
<1> QED  BY <1>1, <1>2, <1>3 DEF Adds

-----------------------------------------------------------------------------
(* Classes that are complete.                                              *)

(* The properties of a definition that ask for an index.                   *)
Asked(data, index) == {r \in DOMAIN data.properties : data.properties[r].index = index}

(* The single-property indexes take no full-text or range column.          *)
LEMMA SameIndexed ==
  ASSUME NEW ix, NEW fts, NEW rng, Indexed(ix, fts, rng), NEW pi
  PROVE  Indexed([ix EXCEPT !.propIndexing = pi], fts, rng)
<1>1. ix = [fullTextIndexing |-> ix.fullTextIndexing, rangeIndexing |-> ix.rangeIndexing,
            multiKeyIndexing |-> ix.multiKeyIndexing, propIndexing |-> ix.propIndexing]
  BY DEF Indexed, IndexesOK
<1>2. [ix EXCEPT !.propIndexing = pi] =
        [fullTextIndexing |-> ix.fullTextIndexing, rangeIndexing |-> ix.rangeIndexing,
         multiKeyIndexing |-> ix.multiKeyIndexing, propIndexing |-> pi]
  BY <1>1
<1> QED  BY <1>2 DEF Indexed, IndexesOK

(* The definition of a class object and its rows have the same properties. *)
LEMMA DefinitionOfClass ==
  ASSUME Shapes, NEW cls, NEW c, Created(cls, c),
         NEW fts, NEW rng, Indexed(cls.indexes, fts, rng)
  PROVE  LET data == InternalToJSON(cls) IN
         /\ DOMAIN data = {"properties", "indexes"}
         /\ DOMAIN data.properties = PropRows(file, cls.ClassID)
         /\ \A p \in DOMAIN cls.props : data.properties[cls.props[p].ID] = cls.props[p].D
         /\ \A index : Asked(data, index) = Asking(cls, DOMAIN cls.props, index)
         /\ Indexed(data.indexes, fts, rng)
<1> DEFINE data == InternalToJSON(cls)
           ids == {cls.props[p].ID : p \in DOMAIN cls.props}
<1>1. /\ \A p, q \in DOMAIN cls.props : cls.props[p].ID = cls.props[q].ID => p = q
  BY AskingIDs
<1>2. ids = PropRows(file, cls.ClassID)
  <2>1. \A p \in DOMAIN cls.props : cls.props[p].ID \in PropRows(file, cls.ClassID)
    BY CreatedRow
  <2>2. ASSUME NEW r \in PropRows(file, cls.ClassID) PROVE r \in ids
    <3>1. file.props[r].name \in DOMAIN cls.props /\ cls.props[file.props[r].name].ID = r
      BY CreatedColumn
    <3> QED  BY <3>1
  <2> QED  BY <2>1, <2>2
<1>3. /\ DOMAIN data = {"properties", "indexes"} /\ DOMAIN data.properties = ids
      /\ data.indexes = [cls.indexes EXCEPT !.propIndexing = JsonTable(@)]
      /\ \A id \in ids : data.properties[id] =
           cls.props[CHOOSE p \in DOMAIN cls.props : cls.props[p].ID = id].D
  BY DEF InternalToJSON
<1>4. ASSUME NEW p \in DOMAIN cls.props
      PROVE  data.properties[cls.props[p].ID] = cls.props[p].D
  <2>1. p = CHOOSE q \in DOMAIN cls.props : cls.props[q].ID = cls.props[p].ID
    BY <1>1
  <2> HIDE DEF data
  <2> QED  BY <1>3, <2>1
<1> HIDE DEF data
<1>5. ASSUME NEW index PROVE Asked(data, index) = Asking(cls, DOMAIN cls.props, index)
  BY <1>3, <1>4 DEF Asked, Asking
<1>6. Indexed(data.indexes, fts, rng)
  BY <1>3, SameIndexed
<1> QED  BY <1>2, <1>3, <1>4, <1>5, <1>6 DEF data

(* Whole, with the properties that ask for an index by their name.         *)
LEMMA WholeAsked ==
  ASSUME NEW f, NEW id
  PROVE  LET data == f.classes[id].data IN
         Whole(f, id) <=>
           /\ DOMAIN data = {"properties", "indexes"}
           /\ DOMAIN data.properties = PropRows(f, id)
           /\ \A r \in PropRows(f, id) : /\ data.properties[r] \in PropertyDefData
                                         /\ f.props[r].ctlv = GetCTLV(data.properties[r])
           /\ \A p, q \in PropRows(f, id) : f.props[p].name = f.props[q].name => p = q
           /\ Indexed(data.indexes, Asked(data, "fulltext"), Asked(data, "range"))
<1> DEFINE data == f.classes[id].data
<1>1. ASSUME DOMAIN data.properties = PropRows(f, id), NEW index
      PROVE  Asked(data, index) = {r \in PropRows(f, id) : data.properties[r].index = index}
  BY <1>1 DEF Asked
<1> QED  BY <1>1 DEF Whole

(* A class stays complete when its rows and its definition stay.           *)
LEMMA WholeKept ==
  ASSUME NEW f, NEW id, Whole(f, id), NEW g, g.classes[id].data = f.classes[id].data,
         PropRows(g, id) = PropRows(f, id), \A r \in PropRows(f, id) : g.props[r] = f.props[r]
  PROVE  Whole(g, id)
BY DEF Whole

(* A class that is saved is complete.                                      *)
LEMMA SavedIsWhole ==
  ASSUME Shapes, Request, SaveClassDef
  PROVE  Whole(file', Classes[req.name].ClassID)
<1>1. PICK cls, n, id : cls = Classes[req.name] /\ n = req.name /\ id = cls.ClassID
  OBVIOUS
<1>2. /\ req.pc = "index" /\ req.left = {} /\ n \in DOMAIN Classes /\ ClassRequest(n)
  BY <1>1, SaveKeepsRows, ClassesOfRequest DEF SaveClassDef, PropsSavedAgain
<1>3. /\ Created(cls, n)
      /\ Indexed(cls.indexes, Asking(cls, DOMAIN cls.props, "fulltext"), Asking(cls, DOMAIN cls.props, "range"))
  BY <1>1, <1>2 DEF ClassRequest, IndexedSoFar
<1>4. /\ file'.classes[id].data = InternalToJSON(cls)
      /\ DOMAIN file'.props = DOMAIN file.props
      /\ \A r \in DOMAIN file.props : file'.props[r] = file.props[r]
  BY <1>1, SaveKeepsRows
<1>5. PropRows(file', id) = PropRows(file, id)
  BY <1>4 DEF PropRows
<1> DEFINE data == InternalToJSON(cls)
<1>6. /\ DOMAIN data = {"properties", "indexes"}
      /\ DOMAIN data.properties = PropRows(file, id)
      /\ \A p \in DOMAIN cls.props : data.properties[cls.props[p].ID] = cls.props[p].D
      /\ Indexed(data.indexes, Asked(data, "fulltext"), Asked(data, "range"))
  BY <1>1, <1>3, DefinitionOfClass
<1> HIDE DEF data
<1>7. ASSUME NEW r \in PropRows(file, id)
      PROVE  /\ data.properties[r] \in PropertyDefData
             /\ file'.props[r].ctlv = GetCTLV(data.properties[r])
             /\ file.props[r].name \in DOMAIN cls.props /\ cls.props[file.props[r].name].ID = r
  <2>1. PICK p \in DOMAIN cls.props : p = file.props[r].name /\ cls.props[p].ID = r
    BY <1>1, <1>3, CreatedColumn
  <2>2. data.properties[r] = cls.props[p].D
    BY <1>6, <2>1
  <2>3. cls.props[p].D \in PropertyDefData
    BY <1>1, <1>2 DEF Shapes, ClassOK
  <2>4. r \in DOMAIN file.props /\ file.props[r].ctlv = GetCTLV(cls.props[p].D)
    <3>1. /\ cls.props[p].ID \in DOMAIN file.props
          /\ file.props[cls.props[p].ID].ctlv = GetCTLV(cls.props[p].D)
      BY <1>3, CreatedRow
    <3> QED  BY <2>1, <3>1
  <2> QED  BY <1>4, <2>1, <2>2, <2>3, <2>4
<1>8. \A r \in PropRows(file, id) : file'.props[r] = file.props[r]
  BY <1>4 DEF PropRows
<1>9. \A p, q \in PropRows(file, id) : file'.props[p].name = file'.props[q].name => p = q
  BY <1>7, <1>8
<1>10. file'.classes[id].data = data
  BY <1>4 DEF data
<1>11. Whole(file', id)
  BY <1>5, <1>6, <1>7, <1>9, <1>10, WholeAsked
<1> QED  BY <1>1, <1>11

(* A new class is under way.                                               *)
LEMMA InsertFiles ==
  ASSUME Shapes, Request, Files, Adds, NEW c \in Class, InsertNewClass(c)
  PROVE  Files'
<1> DEFINE id == file.lastClass + 1
<1>1. /\ file.lastClass \in Nat /\ id \notin DOMAIN file.classes
      /\ file'.props = file.props
      /\ file'.classes = [i \in DOMAIN file.classes \cup {id} |->
                            IF i = id THEN [name |-> c, data |-> NoData] ELSE file.classes[i]]
  BY DEF InsertNewClass, Shapes, FileOK
<1>2. /\ req.pc = "insert" /\ req'.pc = "apply" /\ req'.name = c
      /\ Classes' = Classes /\ saved' = saved
  BY DEF InsertNewClass, Shapes
<1> HIDE DEF id
<1>3. ASSUME NEW i \in DOMAIN file'.classes
      PROVE  UnderWay(i)' \/ Whole(file', i)
  <2>1. CASE i = id
    <3>1. file'.classes[i].name = c
      BY <1>1, <2>1
    <3> QED  BY <1>2, <3>1 DEF UnderWay
  <2>2. CASE i # id
    <3>1. i \in DOMAIN file.classes /\ file'.classes[i] = file.classes[i]
      BY <1>1, <2>2
    <3>2. CASE UnderWay(i)
      BY <1>2, <3>1, <3>2 DEF UnderWay
    <3>3. CASE Whole(file, i)
      BY <1>1, <3>1, <3>3, WholeKept DEF PropRows
    <3> QED  BY <3>1, <3>2, <3>3 DEF Files
  <2> QED  BY <2>1, <2>2
<1> QED  BY <1>2, <1>3 DEF Files

(* A new row is one of the class under way.                                *)
LEMMA ApplyFiles ==
  ASSUME Shapes, Request, Files, NEW p \in Prop, ApplyProperty(p)
  PROVE  Files'
<1>1. PICK id, row :
         /\ id \notin DOMAIN file.props /\ row.class = req.cls.ClassID
         /\ file'.classes = file.classes /\ saved' = saved
         /\ file'.props = [i \in DOMAIN file.props \cup {id} |-> IF i = id THEN row ELSE file.props[i]]
  <2>1. file.lastProp \in Nat /\ file.lastProp + 1 \notin DOMAIN file.props
    BY DEF Shapes, FileOK
  <2>2. PICK row :
         /\ row.class = req.cls.ClassID
         /\ file'.classes = file.classes /\ saved' = saved
         /\ file'.props = [i \in DOMAIN file.props \cup {file.lastProp + 1} |->
                             IF i = file.lastProp + 1 THEN row ELSE file.props[i]]
    BY DEF ApplyProperty, Shapes, FileOK
  <2> QED  BY <2>1, <2>2
<1>2. /\ req.pc = "apply" /\ req'.pc = "apply" /\ req'.name = req.name
      /\ Classes' = Classes
  BY DEF ApplyProperty, Shapes
<1>3. file.classes[req.cls.ClassID].name = req.name
  BY <1>2 DEF Request, Created
<1>4. ASSUME NEW i \in DOMAIN file'.classes
      PROVE  UnderWay(i)' \/ Whole(file', i)
  <2>1. CASE i = req.cls.ClassID
    BY <1>1, <1>2, <1>3, <2>1 DEF UnderWay
  <2>2. CASE i # req.cls.ClassID
    <3>1. PropRows(file', i) = PropRows(file, i) /\ \A r \in PropRows(file, i) : file'.props[r] = file.props[r]
      BY <1>1, <2>2 DEF PropRows
    <3>2. CASE UnderWay(i)
      BY <1>1, <1>2, <3>2 DEF UnderWay
    <3>3. CASE Whole(file, i)
      BY <1>1, <3>1, <3>3, WholeKept
    <3> QED  BY <1>1, <3>2, <3>3 DEF Files
  <2> QED  BY <2>1, <2>2
<1> QED  BY <1>1, <1>2, <1>4 DEF Files

(* The classes under way stay so until they are saved.                     *)
LEMMA AddFiles ==
  ASSUME Shapes, Request, Files, AddClassToList
  PROVE  Files'
<1>1. /\ req.pc = "apply"
      /\ DOMAIN Classes' = DOMAIN Classes \cup {req.name}
      /\ file' = file /\ saved' = saved
      /\ \/ req'.pc = "insert"
         \/ req'.pc = "save" /\ req'.todo = DOMAIN req.schema
  BY DEF AddClassToList, Shapes
<1>2. /\ req.todo \subseteq DOMAIN req.schema /\ req.name \in req.todo
      /\ DOMAIN Classes = DOMAIN req.schema \ req.todo
  BY <1>1 DEF Request
<1>3. ASSUME NEW i \in DOMAIN file.classes, UnderWay(i)
      PROVE  UnderWay(i)'
  <2>1. file.classes[i].name \in DOMAIN Classes \cup {req.name}
    BY <1>1, <1>3 DEF UnderWay
  <2> QED  BY <1>1, <1>2, <2>1 DEF UnderWay
<1> QED  BY <1>1, <1>3 DEF Files

(* The class that is saved is complete, the others are as they were.       *)
LEMMA SaveFiles ==
  ASSUME Shapes, Request, Files, SaveClassDef
  PROVE  Files'
<1>1. PICK mine, n : mine = Classes[req.name].ClassID /\ n = req.name
  OBVIOUS
<1>2. /\ mine \in DOMAIN file.classes
      /\ DOMAIN file'.classes = DOMAIN file.classes
      /\ \A id \in DOMAIN file.classes : id # mine => file'.classes[id] = file.classes[id]
      /\ DOMAIN file'.props = DOMAIN file.props
      /\ \A r \in DOMAIN file.props : file'.props[r] = file.props[r]
  BY <1>1, SaveKeepsRows
<1>3. file.classes[mine].name = n
  BY <1>1, SaveKeepsRows, OwnIDs DEF SaveClassDef, PropsSavedAgain, Working
<1>4. /\ req.pc = "index" /\ req'.pc = "save" /\ req'.todo = req.todo \ {n}
      /\ saved' = saved
  BY <1>1 DEF SaveClassDef, PropsSavedAgain, Shapes
<1>5. \A i, j \in DOMAIN file.classes : file.classes[i].name = file.classes[j].name => i = j
  BY DEF Shapes, FileOK
<1>6. ASSUME NEW i \in DOMAIN file'.classes
      PROVE  UnderWay(i)' \/ Whole(file', i)
  <2>1. CASE i = mine
    BY <1>1, <2>1, SavedIsWhole
  <2>2. CASE i # mine
    <3>1. i \in DOMAIN file.classes /\ file'.classes[i] = file.classes[i] /\ file.classes[i].name # n
      BY <1>2, <1>3, <1>5, <2>2
    <3>2. CASE UnderWay(i)
      BY <1>4, <3>1, <3>2 DEF UnderWay
    <3>3. CASE Whole(file, i)
      <4>1. PropRows(file', i) = PropRows(file, i) /\ \A r \in PropRows(file, i) : file'.props[r] = file.props[r]
        BY <1>2 DEF PropRows
      <4> QED  BY <3>1, <3>3, <4>1, WholeKept
    <3> QED  BY <3>1, <3>2, <3>3 DEF Files
  <2> QED  BY <2>1, <2>2
<1> QED  BY <1>4, <1>6 DEF Files

(* At the commit no class is under way, so what is committed is complete.  *)
LEMMA OtherFiles ==
  ASSUME Shapes, Request, Files,
         \/ \E s \in Schemas : CreateSchema(s)
         \/ \E c \in Class : ApplyIndexing(c) \/ GetClassDef(c)
         \/ \E p \in Prop : IndexProperty(p)
         \/ Commit \/ HandlerFails \/ OtherRequest \/ Return
  PROVE  Files'
<1>1. ASSUME NEW s \in Schemas, CreateSchema(s) PROVE Files'
  BY <1>1 DEF CreateSchema, Files, UnderWay, Idle
<1>2. ASSUME NEW c \in Class, ApplyIndexing(c) PROVE Files'
  BY <1>2 DEF ApplyIndexing, Files, UnderWay, Shapes
<1>3. ASSUME NEW c \in Class, GetClassDef(c) PROVE Files'
  BY <1>3 DEF GetClassDef, Files, UnderWay
<1>4. ASSUME NEW p \in Prop, IndexProperty(p) PROVE Files'
  BY <1>4 DEF IndexProperty, Files, UnderWay, Shapes
<1>5. CASE Commit
  BY <1>5 DEF Commit, Files, UnderWay, Shapes
<1>6. CASE HandlerFails
  BY <1>6 DEF HandlerFails, Files, UnderWay, Idle
<1>7. CASE OtherRequest \/ Return
  BY <1>7 DEF OtherRequest, Return, Files, UnderWay, Idle
<1> QED  BY <1>1, <1>2, <1>3, <1>4, <1>5, <1>6, <1>7

-----------------------------------------------------------------------------
(* Columns.                                                                *)

(* Where neither the rows of a class nor the reasons change.               *)
LEMMA ColumnsKept ==
  ASSUME NEW id, ColumnsOf(id),
         PropRows(file', id) = PropRows(file, id),
         \A r \in PropRows(file, id) : file'.props[r] = file.props[r],
         \A r \in PropRows(file, id) : Excused(id, r) => Excused(id, r)'
  PROVE  ColumnsOf(id)'
<1>1. Taken(file', id) = Taken(file, id)
  BY DEF Taken
<1>2. Distinct(file', id)
  BY DEF ColumnsOf, Distinct
<1> QED  BY <1>1, <1>2 DEF ColumnsOf

(* A new class has no rows yet.                                            *)
LEMMA InsertColumns ==
  ASSUME Shapes, Request, ColumnsOK, NEW c \in Class, InsertNewClass(c)
  PROVE  ColumnsOK'
<1> DEFINE id == file.lastClass + 1
<1>1. /\ file.lastClass \in Nat /\ id \notin DOMAIN file.classes
      /\ file'.props = file.props
      /\ file'.classes = [i \in DOMAIN file.classes \cup {id} |->
                            IF i = id THEN [name |-> c, data |-> NoData] ELSE file.classes[i]]
  BY DEF InsertNewClass, Shapes, FileOK
<1>2. /\ req.pc = "insert" /\ req'.pc = "apply" /\ req'.name = c
      /\ Classes' = Classes /\ saved' = saved
  BY DEF InsertNewClass, Shapes
<1>3. \A i \in DOMAIN file.classes : file.classes[i].name # c
  BY DEF InsertNewClass, ClassIDs
<1>4. \A r \in DOMAIN file.props : file.props[r].class \in DOMAIN file.classes
  BY DEF Shapes, FileOK
<1> HIDE DEF id
<1>5. ASSUME NEW i \in DOMAIN file'.classes PROVE ColumnsOf(i)'
  <2>0. PropRows(file', i) = PropRows(file, i)
    BY <1>1 DEF PropRows
  <2>1. CASE i = id
    <3>1. PropRows(file, i) = {}
      BY <1>1, <1>4, <2>1 DEF PropRows
    <3> QED  BY <2>0, <3>1 DEF ColumnsOf, Distinct
  <2>2. CASE i # id
    <3>1. i \in DOMAIN file.classes /\ file'.classes[i] = file.classes[i]
      BY <1>1, <2>2
    <3>2. UnderWay(i)' <=> UnderWay(i)
      BY <1>2, <1>3, <3>1 DEF UnderWay
    <3>3. ASSUME NEW r \in PropRows(file, i), Excused(i, r) PROVE Excused(i, r)'
      BY <1>1, <1>2, <3>1, <3>2, <3>3 DEF Excused
    <3>4. ColumnsOf(i)
      BY <3>1 DEF ColumnsOK
    <3> QED  BY <1>1, <2>0, <3>3, <3>4, ColumnsKept
  <2> QED  BY <2>1, <2>2
<1> QED  BY <1>5 DEF ColumnsOK

(* The new property's row, in its own class.                               *)
LEMMA ApplyOwnColumns ==
  ASSUME Shapes, Request, ColumnsOK, NEW p \in Prop, ApplyProperty(p)
  PROVE  ColumnsOf(req.cls.ClassID)'
<1> DEFINE def == req.schema[req.name].properties[p]
           col == AssignColMapping(req.cls, def)
           id == file.lastProp + 1
<1>0. PICK mine : mine = req.cls.ClassID
  OBVIOUS
<1>1. /\ file.lastProp \in Nat /\ id \notin DOMAIN file.props
      /\ file'.classes = file.classes
      /\ file'.props = [i \in DOMAIN file.props \cup {id} |->
                          IF i = id THEN [class |-> mine, name |-> p,
                                          ctlv |-> GetCTLV(def), ColMap |-> col]
                                    ELSE file.props[i]]
  BY <1>0 DEF ApplyProperty, Shapes, FileOK
<1>2. /\ req'.pc = "apply" /\ req'.name = req.name /\ p \in req.left /\ req.pc = "apply"
      /\ Classes' = Classes
  BY DEF ApplyProperty, Shapes
<1>3. /\ req'.cls.ClassID = mine
      /\ req'.cls.props = [q \in DOMAIN req.cls.props \cup {p} |->
                             IF q = p THEN [D |-> def, ID |-> id, ColMap |-> col]
                                      ELSE req.cls.props[q]]
  BY <1>0 DEF ApplyProperty, Shapes, ClassOK
<1>4. Created(req.cls, req.name) /\ mine \in DOMAIN file.classes /\ p \notin DOMAIN req.cls.props
  BY <1>0, <1>2 DEF Request, Created
<1>5. Taken(file, mine) = {req.cls.props[q].ColMap : q \in DOMAIN req.cls.props}
  <2>1. ASSUME NEW q \in DOMAIN req.cls.props PROVE req.cls.props[q].ColMap \in Taken(file, mine)
    <3>1. /\ req.cls.props[q].ID \in PropRows(file, mine)
          /\ file.props[req.cls.props[q].ID].ColMap = req.cls.props[q].ColMap
      BY <1>0, <1>4, CreatedRow
    <3> QED  BY <3>1 DEF Taken
  <2>2. ASSUME NEW r \in PropRows(file, mine)
        PROVE  file.props[r].ColMap \in {req.cls.props[q].ColMap : q \in DOMAIN req.cls.props}
    <3>1. PICK q \in DOMAIN req.cls.props : req.cls.props[q].ID = r
      BY <1>0, <1>4, CreatedColumn
    <3>2. file.props[req.cls.props[q].ID].ColMap = req.cls.props[q].ColMap
      BY <1>0, <1>4, CreatedRow
    <3> QED  BY <3>1, <3>2
  <2> QED  BY <2>1, <2>2 DEF Taken
<1>6. /\ col # NoColumn => col \notin Taken(file, mine)
      /\ col = NoColumn => ~ ColumnMappingSupported(def) \/ 1 .. Columns \subseteq Taken(file, mine)
  BY <1>5, ColumnIsFree
<1> HIDE DEF def, col, id
<1>7. /\ PropRows(file', mine) = PropRows(file, mine) \cup {id}
      /\ \A r \in PropRows(file, mine) : r # id /\ file'.props[r] = file.props[r]
      /\ file'.props[id].ColMap = col /\ file'.props[id].name = p
  BY <1>1 DEF PropRows
<1>8. Taken(file, mine) \subseteq Taken(file', mine)
  BY <1>7 DEF Taken
<1>9. ColumnsOf(mine)
  BY <1>4 DEF ColumnsOK
<1>10. Distinct(file', mine)
  <2>1. \A r \in PropRows(file, mine) : file'.props[r].ColMap \in Taken(file, mine)
    BY <1>7 DEF Taken
  <2> QED  BY <1>6, <1>7, <1>9, <2>1 DEF ColumnsOf, Distinct
<1>11. ASSUME NEW r \in PropRows(file', mine)
       PROVE  \/ file'.props[r].ColMap # NoColumn
              \/ 1 .. Columns \subseteq Taken(file', mine)
              \/ Excused(mine, r)'
  <2>1. CASE r = id
    <3>1. req'.cls.props[file'.props[r].name].D = def
      BY <1>3, <1>7, <2>1
    <3> QED  BY <1>2, <1>3, <1>6, <1>7, <1>8, <2>1, <3>1 DEF Excused
  <2>2. CASE r # id
    <3>1. r \in PropRows(file, mine) /\ file'.props[r] = file.props[r]
      BY <1>7, <2>2
    <3>2. CASE Excused(mine, r)
      <4>1. file.props[r].name \in DOMAIN req.cls.props
        BY <1>0, <1>4, <3>1, CreatedColumn
      <4>2. req'.cls.props[file.props[r].name] = req.cls.props[file.props[r].name]
        BY <1>3, <1>4, <4>1
      <4>3. UnderWay(mine)' <=> UnderWay(mine)
        BY <1>1, <1>2 DEF UnderWay
      <4>4. Excused(mine, r)'
        BY <1>1, <1>2, <1>3, <3>1, <3>2, <4>2, <4>3 DEF Excused
      <4> QED  BY <4>4
    <3>3. CASE ~ Excused(mine, r)
      BY <1>8, <1>9, <3>1, <3>3 DEF ColumnsOf
    <3> QED  BY <3>2, <3>3
  <2> QED  BY <2>1, <2>2
<1>12. ColumnsOf(mine)'
  BY <1>10, <1>11 DEF ColumnsOf
<1> QED  BY <1>0, <1>3, <1>12

(* The new row changes the columns of its own class only.                  *)
LEMMA ApplyColumns ==
  ASSUME Shapes, Request, ColumnsOK, NEW p \in Prop, ApplyProperty(p)
  PROVE  ColumnsOK'
<1>1. PICK id, row :
         /\ id \notin DOMAIN file.props /\ row.class = req.cls.ClassID
         /\ file'.classes = file.classes /\ saved' = saved
         /\ file'.props = [i \in DOMAIN file.props \cup {id} |-> IF i = id THEN row ELSE file.props[i]]
  <2>1. file.lastProp \in Nat /\ file.lastProp + 1 \notin DOMAIN file.props
    BY DEF Shapes, FileOK
  <2>2. PICK row :
         /\ row.class = req.cls.ClassID
         /\ file'.classes = file.classes /\ saved' = saved
         /\ file'.props = [i \in DOMAIN file.props \cup {file.lastProp + 1} |->
                             IF i = file.lastProp + 1 THEN row ELSE file.props[i]]
    BY DEF ApplyProperty, Shapes, FileOK
  <2> QED  BY <2>1, <2>2
<1>2. /\ req.pc = "apply" /\ req'.pc = "apply" /\ req'.name = req.name
      /\ req'.cls.ClassID = req.cls.ClassID /\ Classes' = Classes
  BY DEF ApplyProperty, Shapes, ClassOK
<1>3. ASSUME NEW i \in DOMAIN file'.classes PROVE ColumnsOf(i)'
  <2>1. CASE i = req.cls.ClassID
    BY <2>1, ApplyOwnColumns, <1>2
  <2>2. CASE i # req.cls.ClassID
    <3>1. PropRows(file', i) = PropRows(file, i) /\ \A r \in PropRows(file, i) : file'.props[r] = file.props[r]
      BY <1>1, <2>2 DEF PropRows
    <3>2. UnderWay(i)' <=> UnderWay(i)
      BY <1>1, <1>2 DEF UnderWay
    <3>3. ASSUME NEW r \in PropRows(file, i), Excused(i, r) PROVE Excused(i, r)'
      BY <1>1, <1>2, <2>2, <3>1, <3>2, <3>3 DEF Excused
    <3>4. ColumnsOf(i)
      BY <1>1 DEF ColumnsOK
    <3> QED  BY <3>1, <3>3, <3>4, ColumnsKept
  <2> QED  BY <2>1, <2>2
<1> QED  BY <1>3 DEF ColumnsOK

(* The reasons move with the class object into the cache.                  *)
LEMMA AddColumns ==
  ASSUME Shapes, Request, ColumnsOK, AddClassToList
  PROVE  ColumnsOK'
<1>1. /\ req.pc = "apply" /\ req'.pc \in {"insert", "save"} /\ file' = file
      /\ DOMAIN Classes' = DOMAIN Classes \cup {req.name}
      /\ \A c \in DOMAIN Classes : c # req.name => Classes'[c] = Classes[c]
      /\ Classes'[req.name] = req.cls
      /\ req'.pc = "insert" \/ (req'.todo = DOMAIN req.schema /\ req.todo \ {req.name} = {})
  <2>1. DOMAIN req = {"pc", "schema", "todo", "name", "cls", "left"}
    BY DEF Shapes
  <2>2. /\ req.pc = "apply" /\ file' = file
        /\ Classes' = [c \in DOMAIN Classes \cup {req.name} |-> IF c = req.name THEN req.cls ELSE Classes[c]]
    BY DEF AddClassToList
  <2>3. /\ req'.pc \in {"insert", "save"}
        /\ req'.pc = "insert" \/ (req'.todo = DOMAIN req.schema /\ req.todo \ {req.name} = {})
    BY <2>1 DEF AddClassToList
  <2> QED  BY <2>2, <2>3
<1>2. /\ DOMAIN Classes = DOMAIN req.schema \ req.todo /\ req.name \in req.todo
  BY <1>1 DEF Request
<1>3. ASSUME NEW i \in DOMAIN file.classes PROVE ColumnsOf(i)'
  <2>1. ColumnsOf(i)
    BY DEF ColumnsOK
  <2>2. ASSUME NEW r \in PropRows(file, i), Excused(i, r) PROVE Excused(i, r)'
    <3>1. CASE /\ req.cls.ClassID = i
               /\ ~ ColumnMappingSupported(req.cls.props[file.props[r].name].D)
      <4>1. PICK c \in DOMAIN Classes' : c = req.name
        BY <1>1
      <4> QED  BY <1>1, <3>1, <4>1 DEF Excused
    <3>2. CASE \E c \in DOMAIN Classes :
                 /\ Classes[c].ClassID = i
                 /\ ~ ColumnMappingSupported(Classes[c].props[file.props[r].name].D)
      <4>1. PICK c \in DOMAIN Classes' :
               /\ Classes'[c].ClassID = i
               /\ ~ ColumnMappingSupported(Classes'[c].props[file.props[r].name].D)
        BY <1>1, <1>2, <3>2
      <4> QED  BY <1>1, <4>1 DEF Excused
    <3>3. CASE /\ ~ UnderWay(i)
               /\ ~ ColumnMappingSupported(file.classes[i].data.properties[r])
      <4>1. ~ UnderWay(i)'
        <5>1. file.classes[i].name \notin DOMAIN Classes \cup {req.name}
          BY <1>1, <3>3 DEF UnderWay
        <5> QED  BY <1>1, <1>2, <5>1 DEF UnderWay
      <4> QED  BY <1>1, <3>3, <4>1 DEF Excused
    <3> QED  BY <2>2, <3>1, <3>2, <3>3 DEF Excused
  <2> QED  BY <1>1, <2>1, <2>2, ColumnsKept
<1> QED  BY <1>1, <1>3 DEF ColumnsOK

(* Setting an index changes no property.                                   *)
LEMMA IndexColumns ==
  ASSUME Shapes, Request, ColumnsOK,
         \/ \E c \in Class : ApplyIndexing(c)
         \/ \E p \in Prop : IndexProperty(p)
  PROVE  ColumnsOK'
<1>1. /\ req.pc \in {"save", "index"} /\ req'.pc = "index" /\ req'.todo = req.todo /\ file' = file
  BY DEF ApplyIndexing, IndexProperty, Shapes
<1>2. /\ DOMAIN Classes' = DOMAIN Classes
      /\ \A c \in DOMAIN Classes : /\ Classes'[c].ClassID = Classes[c].ClassID
                                   /\ Classes'[c].props = Classes[c].props
  <2>1. CASE \E c \in Class : ApplyIndexing(c)
    BY <2>1 DEF ApplyIndexing
  <2>2. ASSUME NEW p \in Prop, IndexProperty(p)
        PROVE  /\ DOMAIN Classes' = DOMAIN Classes
               /\ \A c \in DOMAIN Classes : /\ Classes'[c].ClassID = Classes[c].ClassID
                                            /\ Classes'[c].props = Classes[c].props
    BY <2>2, IndexStep
  <2> QED  BY <2>1, <2>2
<1>3. ASSUME NEW i \in DOMAIN file.classes PROVE ColumnsOf(i)'
  <2>1. ColumnsOf(i)
    BY DEF ColumnsOK
  <2>2. UnderWay(i)' <=> UnderWay(i)
    BY <1>1, <1>2 DEF UnderWay
  <2>3. ASSUME NEW r \in PropRows(file, i), Excused(i, r) PROVE Excused(i, r)'
    BY <1>1, <1>2, <2>2, <2>3 DEF Excused
  <2> QED  BY <1>1, <2>1, <2>3, ColumnsKept
<1> QED  BY <1>1, <1>3 DEF ColumnsOK

(* The rows are written as they were.                                      *)
LEMMA SaveColumns ==
  ASSUME Shapes, Request, ColumnsOK, SaveClassDef
  PROVE  ColumnsOK'
<1>1. PICK mine, n : mine = Classes[req.name].ClassID /\ n = req.name
  OBVIOUS
<1>2. /\ mine \in DOMAIN file.classes
      /\ DOMAIN file'.classes = DOMAIN file.classes
      /\ \A id \in DOMAIN file.classes : id # mine => file'.classes[id] = file.classes[id]
      /\ DOMAIN file'.props = DOMAIN file.props
      /\ \A r \in DOMAIN file.props : file'.props[r] = file.props[r]
      /\ file'.classes[mine].name = file.classes[mine].name
  BY <1>1, SaveKeepsRows
<1>3. file.classes[mine].name = n
  BY <1>1, SaveKeepsRows, OwnIDs DEF SaveClassDef, PropsSavedAgain, Working
<1>4. /\ req.pc = "index" /\ req'.pc = "save" /\ req'.todo = req.todo \ {n}
      /\ Classes' = Classes
  BY <1>1 DEF SaveClassDef, PropsSavedAgain, Shapes
<1>5. n \in req.todo
  BY <1>1, <1>4 DEF Request
<1>6. ASSUME NEW i \in DOMAIN file.classes PROVE ColumnsOf(i)'
  <2>1. PropRows(file', i) = PropRows(file, i) /\ \A r \in PropRows(file, i) : file'.props[r] = file.props[r]
    BY <1>2 DEF PropRows
  <2>2. ColumnsOf(i)
    BY DEF ColumnsOK
  <2>3. ~ UnderWay(i) => i # mine /\ ~ UnderWay(i)'
    BY <1>2, <1>3, <1>4, <1>5 DEF UnderWay
  <2>4. ASSUME NEW r \in PropRows(file, i), Excused(i, r) PROVE Excused(i, r)'
    BY <1>2, <1>4, <2>1, <2>3, <2>4 DEF Excused
  <2> QED  BY <2>1, <2>2, <2>4, ColumnsKept
<1> QED  BY <1>2, <1>6 DEF ColumnsOK

(* The reasons, now in the definitions that are committed.                 *)
LEMMA CommitColumns ==
  ASSUME Shapes, Request, ColumnsOK, Commit
  PROVE  ColumnsOK'
<1>1. /\ req.pc = "save" /\ req.todo = {} /\ req'.pc = "done"
      /\ Classes' = Classes /\ file' = file
  BY DEF Commit, Shapes
<1>2. DOMAIN Classes = DOMAIN req.schema
  BY <1>1 DEF Request
<1>3. ASSUME NEW i \in DOMAIN file.classes PROVE ColumnsOf(i)'
  <2>1. ColumnsOf(i)
    BY DEF ColumnsOK
  <2>2. ~ UnderWay(i)'
    BY <1>1 DEF UnderWay
  <2>3. ASSUME NEW r \in PropRows(file, i), Excused(i, r) PROVE Excused(i, r)'
    <3>1. CASE ~ ColumnMappingSupported(file.classes[i].data.properties[r])
      BY <1>1, <2>2, <3>1 DEF Excused
    <3>2. ASSUME NEW c \in DOMAIN Classes, Classes[c].ClassID = i,
                 ~ ColumnMappingSupported(Classes[c].props[file.props[r].name].D)
          PROVE  ~ ColumnMappingSupported(file.classes[i].data.properties[r])
      <4>1. PICK cls : cls = Classes[c]
        OBVIOUS
      <4>2. /\ Created(cls, c) /\ Indexed(cls.indexes, Asking(cls, IndexedSoFar(c), "fulltext"),
                                          Asking(cls, IndexedSoFar(c), "range"))
        BY <1>1, <4>1, ClassesOfRequest DEF ClassRequest
      <4>3. PICK p \in DOMAIN cls.props : p = file.props[r].name /\ cls.props[p].ID = r
        BY <3>2, <4>1, <4>2, CreatedColumn
      <4>4. InternalToJSON(cls).properties[cls.props[p].ID] = cls.props[p].D
        BY <4>2, DefinitionOfClass
      <4>5. file.classes[i].data = InternalToJSON(cls)
        BY <1>1, <1>2, <3>2, <4>1 DEF Request
      <4> QED  BY <3>2, <4>1, <4>3, <4>4, <4>5
    <3> QED  BY <1>1, <2>3, <3>1, <3>2 DEF Excused
  <2> QED  BY <1>1, <2>1, <2>3, ColumnsKept
<1> QED  BY <1>1, <1>3 DEF ColumnsOK

(* Back to what is committed.                                              *)
LEMMA CommittedRows ==
  ASSUME Shapes, Adds, NEW id \in DOMAIN saved.classes
  PROVE  /\ id \in DOMAIN file.classes /\ file.classes[id] = saved.classes[id]
         /\ PropRows(file, id) = PropRows(saved, id)
         /\ \A r \in PropRows(saved, id) : file.props[r] = saved.props[r]
BY DEF Adds, PropRows

(* The committed classes have the columns they had.                        *)
LEMMA FailColumns ==
  ASSUME Shapes, Request, Adds, ColumnsOK, HandlerFails
  PROVE  ColumnsOK'
<1>1. /\ req.pc \in {"insert", "apply", "save", "index", "query"} /\ req'.pc = "idle"
      /\ file' = saved
  BY DEF HandlerFails, Shapes, Idle
<1>2. ASSUME NEW i \in DOMAIN saved.classes PROVE ColumnsOf(i)'
  <2>1. /\ ColumnsOf(i) /\ file.classes[i] = saved.classes[i]
        /\ PropRows(file, i) = PropRows(saved, i)
        /\ \A r \in PropRows(saved, i) : file.props[r] = saved.props[r]
    BY CommittedRows DEF ColumnsOK
  <2>2. ~ UnderWay(i)'
    BY <1>1 DEF UnderWay
  <2>3. req.pc = "apply" => req.cls.ClassID # i
    BY DEF Request
  <2>4. req.pc \in {"insert", "apply", "save", "index"} => \A c \in DOMAIN Classes : Classes[c].ClassID # i
    BY OwnIDs DEF Working
  <2>5. ASSUME NEW r \in PropRows(file, i), Excused(i, r) PROVE Excused(i, r)'
    <3>1. ~ ColumnMappingSupported(file.classes[i].data.properties[r])
      BY <2>3, <2>4, <2>5 DEF Excused
    <3> QED  BY <1>1, <2>1, <2>2, <3>1 DEF Excused
  <2> QED  BY <1>1, <2>1, <2>5, ColumnsKept
<1> QED  BY <1>1, <1>2 DEF ColumnsOK

(* Where no request is under way, the reasons are in the definitions.      *)
LEMMA OtherColumns ==
  ASSUME Shapes, Request, ColumnsOK,
         \/ \E s \in Schemas : CreateSchema(s)
         \/ \E c \in Class : GetClassDef(c)
         \/ OtherRequest \/ Return
  PROVE  ColumnsOK'
<1>1. /\ req.pc \in {"idle", "query", "done"} /\ file' = file
      /\ \/ req'.pc \in {"idle", "query"}
         \/ req'.pc = "insert" /\ Classes' = Nothing
  <2>1. ASSUME NEW s \in Schemas, CreateSchema(s)
        PROVE  req.pc = "idle" /\ file' = file /\ req'.pc = "insert" /\ Classes' = Nothing
    BY <2>1 DEF CreateSchema, Idle
  <2>2. ASSUME NEW c \in Class, GetClassDef(c) PROVE req.pc = "query" /\ file' = file /\ req'.pc = "query"
    BY <2>2 DEF GetClassDef
  <2>3. CASE OtherRequest
    BY <2>3 DEF OtherRequest, Idle
  <2>4. CASE Return
    BY <2>4 DEF Return, Idle
  <2> QED  BY <2>1, <2>2, <2>3, <2>4
<1>2. ASSUME NEW i \in DOMAIN file.classes PROVE ColumnsOf(i)'
  <2>1. ColumnsOf(i)
    BY DEF ColumnsOK
  <2>2. ~ UnderWay(i)'
    BY <1>1 DEF UnderWay, Nothing
  <2>3. ASSUME NEW r \in PropRows(file, i), Excused(i, r) PROVE Excused(i, r)'
    BY <1>1, <2>2, <2>3 DEF Excused
  <2> QED  BY <1>1, <2>1, <2>3, ColumnsKept
<1> QED  BY <1>1, <1>2 DEF ColumnsOK

-----------------------------------------------------------------------------
(* The classes that are not committed yet.                                 *)

(* Only the request adds classes, and it ends by a commit or a rollback.   *)
LEMMA StepOwn ==
  ASSUME Shapes, Request, Files, Own, Next
  PROVE  Own'
<1>1. CASE req.pc \in {"idle", "query", "done"}
  <2>1. file = saved /\ file' = file /\ saved' = saved
    <3>1. file = saved
      BY <1>1 DEF Files
    <3>2. ASSUME NEW s \in Schemas, CreateSchema(s) PROVE file' = file /\ saved' = saved
      BY <3>2 DEF CreateSchema
    <3>3. ASSUME NEW c \in Class, GetClassDef(c) PROVE file' = file /\ saved' = saved
      BY <3>3 DEF GetClassDef
    <3>4. CASE OtherRequest \/ Return
      BY <3>1, <3>4 DEF OtherRequest, Return
    <3>5. CASE HandlerFails
      BY <3>1, <3>5 DEF HandlerFails
    <3> QED
      BY <1>1, <3>1, <3>2, <3>3, <3>4, <3>5
      DEF Next, InsertNewClass, ApplyProperty, AddClassToList, ApplyIndexing, IndexProperty,
          SaveClassDef, Commit
  <2> QED  BY <2>1 DEF Own
<1>2. ASSUME NEW c \in Class, InsertNewClass(c) PROVE Own'
  <2>1. PICK id : /\ DOMAIN file'.classes = DOMAIN file.classes \cup {id} /\ file'.classes[id].name = c
                  /\ \A i \in DOMAIN file.classes : i # id => file'.classes[i] = file.classes[i]
    BY <1>2 DEF InsertNewClass, Shapes, FileOK
  <2>2. /\ req.pc = "insert" /\ req'.pc = "apply" /\ req'.name = c /\ Classes' = Classes /\ saved' = saved
    BY <1>2 DEF InsertNewClass, Shapes
  <2> QED  BY <2>1, <2>2 DEF Own
<1>3. ASSUME NEW p \in Prop, ApplyProperty(p) PROVE Own'
  <2>1. /\ file'.classes = file.classes /\ saved' = saved /\ Classes' = Classes
        /\ req'.pc = req.pc /\ req'.name = req.name
    BY <1>3 DEF ApplyProperty, Shapes, FileOK
  <2> QED  BY <2>1 DEF Own
<1>4. CASE AddClassToList
  <2>1. /\ DOMAIN Classes' = DOMAIN Classes \cup {req.name} /\ file' = file /\ saved' = saved
    BY <1>4 DEF AddClassToList
  <2> QED  BY <2>1 DEF Own
<1>5. ASSUME NEW c \in Class, ApplyIndexing(c) PROVE Own'
  BY <1>5 DEF ApplyIndexing, Own
<1>6. ASSUME NEW p \in Prop, IndexProperty(p) PROVE Own'
  <2>1. req.pc = "index" /\ file' = file /\ saved' = saved /\ DOMAIN Classes' = DOMAIN Classes
    BY <1>6, IndexStep DEF IndexProperty
  <2> QED  BY <2>1 DEF Own
<1>7. CASE SaveClassDef
  <2>1. /\ DOMAIN file'.classes = DOMAIN file.classes
        /\ \A id \in DOMAIN file.classes : file'.classes[id].name = file.classes[id].name
    BY <1>7, SaveKeepsRows
  <2>2. req.pc = "index" /\ saved' = saved /\ Classes' = Classes
    BY <1>7 DEF SaveClassDef, PropsSavedAgain
  <2> QED  BY <2>1, <2>2 DEF Own
<1>8. CASE Commit \/ HandlerFails
  BY <1>8 DEF Commit, HandlerFails, Own
<1> QED
  BY <1>1, <1>2, <1>3, <1>4, <1>5, <1>6, <1>7, <1>8
  DEF Next, CreateSchema, GetClassDef, OtherRequest, Return

-----------------------------------------------------------------------------
(* The invariant holds in every reachable state of ClassDefs, for any      *)
(* classes, properties, schemas and numbers of columns.                    *)

(* The invariant holds at first.                                           *)
LEMMA InitIInv == Init => IInv
BY InitShapes, InitRest DEF IInv

(* The request, in a step that changes nothing.                            *)
LEMMA SameRequest ==
  ASSUME Request, file' = file, saved' = saved, Classes' = Classes, req' = req
  PROVE  Request'
<1>1. CASE req.pc \in {"idle", "query"}
  BY <1>1 DEF Request
<1>2. CASE req.pc \in {"insert", "apply", "save", "index", "done"}
  <2>1. ASSUME NEW k \in DOMAIN Classes' PROVE ClassRequest(k)'
    <3>1. k \in DOMAIN Classes /\ ClassRequest(k)
      BY <1>2, ClassesOfRequest
    <3>2. IndexedSoFar(k)' = IndexedSoFar(k)
      BY DEF IndexedSoFar
    <3>3. Created(Classes[k], k)'
      BY <3>1, SameCreated DEF ClassRequest
    <3> QED  BY <3>1, <3>2, <3>3 DEF ClassRequest
  <2>2. req.pc = "apply" => Created(req.cls, req.name)'
    BY SameCreated DEF Request
  <2> QED  BY <1>2, <2>1, <2>2 DEF Request, ClassRequest
<1> QED  BY <1>1, <1>2 DEF Request

(* The invariant, in a step that changes nothing.                          *)
LEMMA StutterIInv ==
  ASSUME IInv, UNCHANGED vars
  PROVE  IInv'
<1>1. file' = file /\ saved' = saved /\ Classes' = Classes /\ req' = req
  BY DEF vars
<1>2. Shapes'
  BY <1>1 DEF IInv, Shapes
<1>3. Request'
  BY <1>1, SameRequest DEF IInv
<1>4. Files'
  BY <1>1 DEF IInv, Files, UnderWay
<1>5. Adds'
  BY <1>1 DEF IInv, Adds
<1>6. ColumnsOK'
  BY <1>1 DEF IInv, ColumnsOK, ColumnsOf, Excused, UnderWay
<1>7. Own'
  BY <1>1 DEF IInv, Own
<1> QED  BY <1>2, <1>3, <1>4, <1>5, <1>6, <1>7 DEF IInv

(* Every action keeps the invariant.                                       *)
LEMMA StepIInv ==
  ASSUME IInv, Next
  PROVE  IInv'
<1> USE DEF IInv
<1>0. Own'
  BY StepOwn
<1>1. ASSUME NEW s \in Schemas, CreateSchema(s) PROVE IInv'
  BY <1>0, <1>1, OtherShapes, OtherRequests, OtherFiles, SameAdds, OtherColumns DEF CreateSchema
<1>2. ASSUME NEW c \in Class, InsertNewClass(c) PROVE IInv'
  BY <1>0, <1>2, InsertShapes, InsertRequest, InsertFiles, InsertAdds, InsertColumns
<1>3. ASSUME NEW c \in Class, ApplyIndexing(c) PROVE IInv'
  BY <1>0, <1>3, OtherShapes, StartIndexRequest, OtherFiles, SameAdds, IndexColumns DEF ApplyIndexing
<1>4. ASSUME NEW c \in Class, GetClassDef(c) PROVE IInv'
  BY <1>0, <1>4, OtherShapes, OtherRequests, OtherFiles, SameAdds, OtherColumns DEF GetClassDef
<1>5. ASSUME NEW p \in Prop, ApplyProperty(p) PROVE IInv'
  BY <1>0, <1>5, ApplyShapes, ApplyRequest, ApplyFiles, ApplyAdds, ApplyColumns
<1>6. ASSUME NEW p \in Prop, IndexProperty(p) PROVE IInv'
  BY <1>0, <1>6, IndexShapes, IndexRequest, OtherFiles, SameAdds, IndexColumns DEF IndexProperty
<1>7. CASE AddClassToList
  BY <1>0, <1>7, OtherShapes, AddRequest, AddFiles, SameAdds, AddColumns DEF AddClassToList
<1>8. CASE SaveClassDef
  BY <1>0, <1>8, SaveShapes, SaveRequest, SaveFiles, SaveAdds, SaveColumns
<1>9. CASE Commit
  BY <1>0, <1>9, OtherShapes, CommitRequest, OtherFiles, CommittedAdds, CommitColumns DEF Commit
<1>10. CASE HandlerFails
  BY <1>0, <1>10, OtherShapes, OtherRequests, OtherFiles, CommittedAdds, FailColumns DEF HandlerFails
<1>11. CASE OtherRequest
  BY <1>0, <1>11, OtherShapes, OtherRequests, OtherFiles, SameAdds, OtherColumns DEF OtherRequest
<1>12. CASE Return
  BY <1>0, <1>12, OtherShapes, OtherRequests, OtherFiles, SameAdds, OtherColumns DEF Return
<1> QED
  BY <1>1, <1>2, <1>3, <1>4, <1>5, <1>6, <1>7, <1>8, <1>9, <1>10, <1>11, <1>12 DEF Next

(* In every reachable state the rows, the class objects and the saved      *)
(* definitions of a class agree as far as the request has come.            *)
THEOREM Invariant == Spec => []IInv
<1>1. IInv /\ [Next]_vars => IInv'
  BY StepIInv, StutterIInv
<1> QED  BY InitIInv, <1>1, PTL DEF Spec

-----------------------------------------------------------------------------
(* What follows from the invariant.                                        *)

(* The invariant implies the type invariant.                               *)
LEMMA TypesOfInvariant == IInv => TypeOK
<1> SUFFICES ASSUME IInv PROVE TypeOK
  OBVIOUS
<1> DEFINE Rows == [class : 1 .. file.lastClass, name : Prop,
                    ctlv : {"none", "index", "unique"}, ColMap : 0 .. Columns]
<1>1. FileOK(file) /\ FileOK(saved)
  BY DEF IInv, Shapes
<1>2. DOMAIN saved.classes \subseteq DOMAIN file.classes
  BY DEF IInv, Adds
<1>3. ASSUME NEW f \in {file, saved}
      PROVE  /\ \A id \in DOMAIN f.classes : id \in 1 .. f.lastClass /\ f.classes[id].name \in Class
             /\ \A r \in DOMAIN f.props : r \in 1 .. f.lastProp /\ f.props[r] \in Rows
  <2>1. /\ DOMAIN f.classes \subseteq 1 .. f.lastClass
        /\ \A id \in DOMAIN f.classes : f.classes[id].name \in Class
        /\ DOMAIN f.props \subseteq 1 .. f.lastProp
        /\ \A r \in DOMAIN f.props :
             f.props[r] \in [class : DOMAIN f.classes, name : Prop,
                             ctlv : {"none", "index", "unique"}, ColMap : 0 .. Columns]
    BY <1>1 DEF FileOK
  <2>2. DOMAIN f.classes \subseteq 1 .. file.lastClass
    BY <1>1, <1>2 DEF FileOK
  <2> QED  BY <2>1, <2>2
<1>4. /\ \A c \in DOMAIN Classes : ClassOK(Classes[c])
      /\ req.pc = "apply" => ClassOK(req.cls)
      /\ DOMAIN Classes \subseteq Class
      /\ req.pc \in {"idle", "insert", "apply", "save", "index", "done", "query"}
      /\ req.left \subseteq Prop /\ req.todo \subseteq Class
  BY DEF IInv, Shapes
<1> QED  BY <1>3, <1>4 DEF TypeOK, ClassOK, IndexesOK

(* The tables, the class definitions in the cache and the one under        *)
(* construction are well formed, whatever the schemas.                     *)
THEOREM TypeCorrect == Spec => []TypeOK
BY Invariant, TypesOfInvariant, PTL

(* The invariant implies that committed classes are whole.                 *)
LEMMA WholeDefinitions == IInv => StoredDefinitionsAreWhole
<1> SUFFICES ASSUME IInv, NEW id \in DOMAIN saved.classes
             PROVE  /\ saved.classes[id].data # NoData
                    /\ DOMAIN saved.classes[id].data.properties = PropRows(saved, id)
                    /\ \A r \in PropRows(saved, id) :
                         saved.props[r].ctlv = GetCTLV(saved.classes[id].data.properties[r])
  BY DEF StoredDefinitionsAreWhole
<1>1. Whole(saved, id) /\ FileOK(saved)
  BY DEF IInv, Files, Shapes
<1>2. saved.classes[id].data # NoData
  BY <1>1, LoadShapes DEF CanLoad
<1> QED  BY <1>1, <1>2 DEF Whole

(* A committed class has a definition of the properties it has rows for,   *)
(* flagged alike: saveToDB and the rows never part.                        *)
THEOREM CommittedClassesAreWhole == Spec => []StoredDefinitionsAreWhole
BY Invariant, WholeDefinitions, PTL

(* The invariant implies that indexes are those asked for.                 *)
LEMMA MatchingIndexes == IInv => IndexesMatchProperties
<1> SUFFICES ASSUME IInv, NEW id \in DOMAIN saved.classes
             PROVE  LET data == saved.classes[id].data
                        fts == data.indexes.fullTextIndexing
                        rng == data.indexes.rangeIndexing
                    IN  /\ Range(fts) = Asked(data, "fulltext") /\ Len(fts) = Cardinality(Asked(data, "fulltext"))
                        /\ Range(rng) = Asked(data, "range") /\ Len(rng) = 2 * Cardinality(Asked(data, "range"))
                        /\ \A k \in 1 .. Len(rng) \div 2 : rng[2 * k - 1] = rng[2 * k]
  BY DEF IndexesMatchProperties, Asked
<1>1. Whole(saved, id)
  BY DEF IInv, Files
<1> QED  BY <1>1, WholeAsked DEF Indexed

(* The full-text columns and range dimensions of a committed class are     *)
(* those its properties ask for, each once.                                *)
THEOREM CommittedIndexesMatch == Spec => []IndexesMatchProperties
BY Invariant, MatchingIndexes, PTL

(* Sets that are one to one have as many elements.                         *)
LEMMA OneToOne ==
  ASSUME NEW S, NEW T, IsFiniteSet(S), NEW f \in [S -> T],
         \A x, y \in S : f[x] = f[y] => x = y, \A z \in T : \E x \in S : f[x] = z
  PROVE  Cardinality(T) = Cardinality(S)
<1>1. f \in Bijection(S, T)
  BY DEF Bijection, Injection, Surjection, IsInjective
<1> QED  BY <1>1, FS_Bijection DEF ExistsBijection

(* When all columns are taken, as many properties have one.                *)
LEMMA AllTaken ==
  ASSUME Shapes, NEW id \in DOMAIN file.classes, Distinct(file, id),
         1 .. Columns \subseteq Taken(file, id)
  PROVE  Cardinality({r \in PropRows(file, id) : file.props[r].ColMap # NoColumn}) = Columns
<1> DEFINE mapped == {r \in PropRows(file, id) : file.props[r].ColMap # NoColumn}
           f == [r \in mapped |-> file.props[r].ColMap]
<1>1. IsFiniteSet(mapped)
  <2>1. mapped \subseteq 1 .. file.lastProp /\ file.lastProp \in Nat
    BY DEF PropRows, Shapes, FileOK
  <2>2. IsFiniteSet(1 .. file.lastProp)
    BY <2>1, FS_Interval
  <2> QED  BY <2>1, <2>2, FS_Subset
<1>2. ASSUME NEW r \in mapped PROVE file.props[r].ColMap \in 1 .. Columns
  <2>1. file.props[r] \in [class : DOMAIN file.classes, name : Prop,
                           ctlv : {"none", "index", "unique"}, ColMap : 0 .. Columns]
    BY DEF PropRows, Shapes, FileOK
  <2>2. file.props[r].ColMap \in 0 .. Columns /\ file.props[r].ColMap # 0
    BY <2>1 DEF NoColumn
  <2> QED  BY <2>2, ConstantTypes
<1>3. f \in [mapped -> 1 .. Columns]
  BY <1>2
<1>4. \A x, y \in mapped : f[x] = f[y] => x = y
  BY DEF Distinct
<1>5. \A z \in 1 .. Columns : \E x \in mapped : f[x] = z
  <2> SUFFICES ASSUME NEW z \in 1 .. Columns PROVE \E x \in mapped : f[x] = z
    OBVIOUS
  <2>1. PICK x \in PropRows(file, id) : file.props[x].ColMap = z
    BY DEF Taken
  <2>2. z # NoColumn
    BY ConstantTypes DEF NoColumn
  <2> QED  BY <2>1, <2>2
<1> HIDE DEF f, mapped
<1>6. Cardinality(1 .. Columns) = Cardinality(mapped)
  BY <1>1, <1>3, <1>4, <1>5, OneToOne
<1>7. Cardinality(1 .. Columns) = Columns
  BY ConstantTypes, FS_Interval
<1> QED  BY <1>6, <1>7 DEF mapped

(* The invariant implies that columns are not shared.                      *)
LEMMA DistinctColumns == IInv => ColumnsAreDistinct
<1> SUFFICES ASSUME IInv, NEW id \in DOMAIN file.classes
             PROVE  LET mapped == {r \in PropRows(file, id) : file.props[r].ColMap # NoColumn}
                    IN  /\ \A r, q \in mapped : r # q => file.props[r].ColMap # file.props[q].ColMap
                        /\ saved = file => \A r \in PropRows(file, id) \ mapped :
                              \/ ~ ColumnMappingSupported(saved.classes[id].data.properties[r])
                              \/ Cardinality(mapped) = Columns
  BY DEF ColumnsAreDistinct
<1>1. ColumnsOf(id)
  BY DEF IInv, ColumnsOK
<1>2. ASSUME saved = file, NEW r \in PropRows(file, id), Excused(id, r)
      PROVE  ~ ColumnMappingSupported(saved.classes[id].data.properties[r])
  <2>1. req.pc = "apply" => req.cls.ClassID # id
    BY <1>2 DEF IInv, Request
  <2>2. req.pc \in {"insert", "apply", "save", "index"} => \A c \in DOMAIN Classes : Classes[c].ClassID # id
    BY <1>2, OwnIDs DEF IInv, Working
  <2> QED  BY <1>2, <2>1, <2>2 DEF Excused
<1>3. ASSUME NEW r \in PropRows(file, id), file.props[r].ColMap = NoColumn, saved = file
      PROVE  \/ ~ ColumnMappingSupported(saved.classes[id].data.properties[r])
             \/ Cardinality({q \in PropRows(file, id) : file.props[q].ColMap # NoColumn}) = Columns
  BY <1>1, <1>2, <1>3, AllTaken DEF ColumnsOf, IInv
<1> QED  BY <1>1, <1>3 DEF ColumnsOf, Distinct

(* AssignColMapping never gives a column twice, and leaves a property      *)
(* without one only for its type or because all columns are taken.         *)
THEOREM ColumnsNeverShared == Spec => []ColumnsAreDistinct
BY Invariant, DistinctColumns, PTL

(* The invariant implies that what is loaded is what was made.             *)
LEMMA FaithfulReload == IInv => ReloadIsFaithful
<1> SUFFICES ASSUME IInv, req.pc = "done", NEW c \in DOMAIN req.schema
             PROVE  LET made == Classes[c]
                        read == LoadClass(saved, made.ClassID)
                    IN  /\ CanLoad(saved, made.ClassID)
                        /\ DOMAIN read.props = DOMAIN made.props
                        /\ \A p \in DOMAIN made.props :
                              read.props[p].ID = made.props[p].ID /\ read.props[p].D = made.props[p].D
                        /\ [read.indexes EXCEPT !.propIndexing = 0] = [made.indexes EXCEPT !.propIndexing = 0]
  BY DEF ReloadIsFaithful
<1>1. PICK made, id, read : made = Classes[c] /\ id = made.ClassID /\ read = LoadClass(saved, id)
  OBVIOUS
<1>2. /\ file = saved /\ req.todo = {} /\ DOMAIN Classes = DOMAIN req.schema
      /\ file.classes[id].data = InternalToJSON(made)
  BY <1>1 DEF IInv, Files, Request
<1>3. ClassRequest(c)
  BY <1>2, ClassesOfRequest DEF IInv
<1>4. /\ Created(made, c)
      /\ Indexed(made.indexes, Asking(made, IndexedSoFar(c), "fulltext"), Asking(made, IndexedSoFar(c), "range"))
  BY <1>1, <1>3 DEF ClassRequest
<1>5. id \in DOMAIN saved.classes /\ Whole(saved, id) /\ FileOK(saved)
  BY <1>1, <1>2, <1>4 DEF Created, IInv, Files, Shapes
<1> DEFINE data == InternalToJSON(made)
<1>6. /\ CanLoad(saved, id)
      /\ DOMAIN read.props = {file.props[r].name : r \in PropRows(file, id)}
      /\ \A r \in PropRows(file, id) :
           read.props[file.props[r].name] = [D |-> data.properties[r], ID |-> r, ColMap |-> NoColumn]
  BY <1>1, <1>2, <1>5, LoadShapes
<1>7. ASSUME NEW p \in DOMAIN made.props
      PROVE  /\ p \in DOMAIN read.props
             /\ read.props[p].ID = made.props[p].ID /\ read.props[p].D = made.props[p].D
  <2>1. made.props[p].ID \in PropRows(file, id) /\ file.props[made.props[p].ID].name = p
    BY <1>1, <1>4, CreatedRow
  <2>2. data.properties[made.props[p].ID] = made.props[p].D
    BY <1>4, DefinitionOfClass DEF IInv
  <2> HIDE DEF data
  <2>3. PICK r \in PropRows(file, id) : r = made.props[p].ID
    BY <2>1
  <2>4. /\ file.props[r].name \in DOMAIN read.props
        /\ read.props[file.props[r].name] = [D |-> data.properties[r], ID |-> r, ColMap |-> NoColumn]
    BY <1>6
  <2>5. p \in DOMAIN read.props /\ read.props[p] = [D |-> data.properties[r], ID |-> r, ColMap |-> NoColumn]
    BY <2>1, <2>3, <2>4
  <2> QED  BY <2>2, <2>3, <2>5
<1>8. DOMAIN read.props \subseteq DOMAIN made.props
  <2>1. \A r \in PropRows(file, id) : file.props[r].name \in DOMAIN made.props
    BY <1>1, <1>4, CreatedColumn
  <2> QED  BY <1>6, <2>1
<1>9. [read.indexes EXCEPT !.propIndexing = 0] = [made.indexes EXCEPT !.propIndexing = 0]
  <2>1. read.indexes = [made.indexes EXCEPT !.propIndexing = JsonTable(@)]
    <3>1. read.indexes = saved.classes[id].data.indexes
      BY <1>1 DEF LoadClass
    <3>2. data.indexes = [made.indexes EXCEPT !.propIndexing = JsonTable(@)]
      BY DEF InternalToJSON
    <3> QED  BY <1>2, <3>1, <3>2
  <2>2. made.indexes = [fullTextIndexing |-> made.indexes.fullTextIndexing,
                        rangeIndexing |-> made.indexes.rangeIndexing,
                        multiKeyIndexing |-> made.indexes.multiKeyIndexing,
                        propIndexing |-> made.indexes.propIndexing]
    BY <1>4 DEF Indexed, IndexesOK
  <2> QED  BY <2>1, <2>2
<1> QED  BY <1>1, <1>6, <1>7, <1>8, <1>9

(* What a later request loads from the committed tables is what 'create    *)
(* schema' made.                                                           *)
THEOREM CreatedClassesReload == Spec => []ReloadIsFaithful
BY Invariant, FaithfulReload, PTL

-----------------------------------------------------------------------------
(* The catalogue.                                                          *)

(* A class as a later request sees it.                                     *)
Entry(f, id) ==
  [name |-> f.classes[id].name,
   properties |-> LET props == LoadClass(f, id).props IN [p \in DOMAIN props |-> props[p].D]]

(* A complete class is seen with the properties of its definition.         *)
LEMMA EntryOf ==
  ASSUME NEW f, FileOK(f), NEW id \in DOMAIN f.classes, Whole(f, id),
         NEW g, g = [p \in DOMAIN g |-> g[p]],
         DOMAIN g = {f.props[r].name : r \in PropRows(f, id)},
         \A r \in PropRows(f, id) : g[f.props[r].name] = f.classes[id].data.properties[r]
  PROVE  Entry(f, id) = [name |-> f.classes[id].name, properties |-> g]
<1>1. PICK props : props = LoadClass(f, id).props
  OBVIOUS
<1>2. /\ DOMAIN props = DOMAIN g
      /\ \A r \in PropRows(f, id) :
           props[f.props[r].name] = [D |-> f.classes[id].data.properties[r], ID |-> r, ColMap |-> NoColumn]
  BY <1>1, LoadShapes
<1>3. ASSUME NEW p \in DOMAIN g PROVE props[p].D = g[p]
  <2>1. PICK r \in PropRows(f, id) : f.props[r].name = p
    OBVIOUS
  <2>2. props[p] = [D |-> f.classes[id].data.properties[r], ID |-> r, ColMap |-> NoColumn]
    BY <1>2, <2>1
  <2> QED  BY <2>1, <2>2
<1>4. [p \in DOMAIN props |-> props[p].D] = g
  BY <1>2, <1>3
<1> QED  BY <1>1, <1>4 DEF Entry

(* The properties a complete class is seen with.                           *)
LEMMA EntryShape ==
  ASSUME NEW f, FileOK(f), NEW id \in DOMAIN f.classes, Whole(f, id)
  PROVE  LET g == Entry(f, id).properties IN
         /\ Entry(f, id).name = f.classes[id].name
         /\ g = [p \in DOMAIN g |-> g[p]]
         /\ DOMAIN g = {f.props[r].name : r \in PropRows(f, id)}
         /\ \A r \in PropRows(f, id) : g[f.props[r].name] = f.classes[id].data.properties[r]
<1>1. PICK props : props = LoadClass(f, id).props
  OBVIOUS
<1>2. /\ DOMAIN props = {f.props[r].name : r \in PropRows(f, id)}
      /\ \A r \in PropRows(f, id) :
           props[f.props[r].name] = [D |-> f.classes[id].data.properties[r], ID |-> r, ColMap |-> NoColumn]
  BY <1>1, LoadShapes
<1>3. PICK g : g = Entry(f, id).properties
  OBVIOUS
<1>4. g = [p \in DOMAIN props |-> props[p].D] /\ Entry(f, id).name = f.classes[id].name
  BY <1>1, <1>3 DEF Entry
<1>5. g = [p \in DOMAIN g |-> g[p]] /\ DOMAIN g = DOMAIN props
  BY <1>4
<1>6. ASSUME NEW r \in PropRows(f, id)
      PROVE  g[f.props[r].name] = f.classes[id].data.properties[r]
  <2>1. props[f.props[r].name] = [D |-> f.classes[id].data.properties[r], ID |-> r, ColMap |-> NoColumn]
    BY <1>2
  <2>2. f.props[r].name \in DOMAIN props
    BY <1>2
  <2> QED  BY <1>4, <2>1, <2>2
<1> QED  BY <1>2, <1>3, <1>4, <1>5, <1>6

(* Every committed class can be loaded and is in the catalogue.            *)
LEMMA CommittedEntries ==
  ASSUME FileOK(saved), \A id \in DOMAIN saved.classes : Whole(saved, id)
  PROVE  Committed = {Entry(saved, id) : id \in DOMAIN saved.classes}
<1>1. \A id \in DOMAIN saved.classes : CanLoad(saved, id)
  BY LoadShapes
<1> QED  BY <1>1 DEF Committed, Entry

(* A class that was committed before is seen as before.                    *)
LEMMA OldEntries ==
  ASSUME IInv, NEW id \in DOMAIN saved.classes, Whole(file, id)
  PROVE  Entry(file, id) = Entry(saved, id)
<1>1. FileOK(file) /\ FileOK(saved) /\ Whole(saved, id)
  BY DEF IInv, Shapes, Files
<1>2. /\ id \in DOMAIN file.classes /\ file.classes[id] = saved.classes[id]
      /\ PropRows(file, id) = PropRows(saved, id)
      /\ \A r \in PropRows(saved, id) : file.props[r] = saved.props[r]
  BY CommittedRows DEF IInv
<1>3. PICK g : g = Entry(saved, id).properties
  OBVIOUS
<1>4. /\ g = [p \in DOMAIN g |-> g[p]]
      /\ DOMAIN g = {saved.props[r].name : r \in PropRows(saved, id)}
      /\ \A r \in PropRows(saved, id) : g[saved.props[r].name] = saved.classes[id].data.properties[r]
      /\ Entry(saved, id).name = saved.classes[id].name
  BY <1>1, <1>3, EntryShape
<1>5. DOMAIN g = {file.props[r].name : r \in PropRows(file, id)}
  BY <1>2, <1>4
<1>6. \A r \in PropRows(file, id) : g[file.props[r].name] = file.classes[id].data.properties[r]
  BY <1>2, <1>4
<1>7. Entry(file, id) = [name |-> file.classes[id].name, properties |-> g]
  BY <1>1, <1>2, <1>4, <1>5, <1>6, EntryOf
<1>8. Entry(saved, id) = [name |-> saved.classes[id].name, properties |-> g]
  BY <1>1, <1>4, EntryOf
<1> QED  BY <1>2, <1>7, <1>8

(* A class of the request is seen as the schema gives it, and fits.        *)
LEMMA NewEntries ==
  ASSUME IInv, Commit, NEW c \in DOMAIN req.schema
  PROVE  LET id == Classes[c].ClassID IN
         /\ id \in DOMAIN file.classes /\ id \notin DOMAIN saved.classes /\ file.classes[id].name = c
         /\ Entry(file, id) = [name |-> c, properties |-> req.schema[c].properties]
<1>1. PICK made, id : made = Classes[c] /\ id = made.ClassID
  OBVIOUS
<1>2. /\ req.pc = "save" /\ req.todo = {} /\ DOMAIN Classes = DOMAIN req.schema /\ req.schema \in Schemas
      /\ file.classes[id].data = InternalToJSON(made)
  BY <1>1 DEF IInv, Request, Commit
<1>3. ClassRequest(c)
  BY <1>2, ClassesOfRequest DEF IInv
<1>4. /\ Created(made, c) /\ id \notin DOMAIN saved.classes
      /\ DOMAIN made.props = DOMAIN req.schema[c].properties
      /\ Indexed(made.indexes, Asking(made, IndexedSoFar(c), "fulltext"), Asking(made, IndexedSoFar(c), "range"))
  BY <1>1, <1>2, <1>3 DEF ClassRequest
<1>12. Created(made, c)
  BY <1>4
<1>5. id \in DOMAIN file.classes /\ file.classes[id].name = c
  BY <1>1, <1>12 DEF Created
<1>6. Whole(file, id) /\ FileOK(file)
  BY <1>2, <1>5 DEF IInv, Files, UnderWay, Shapes
<1>7. PICK g : g = req.schema[c].properties
  OBVIOUS
<1>8. g = [p \in DOMAIN g |-> g[p]]
  BY <1>2, <1>7, SchemaTypes
<1>9. DOMAIN g = {file.props[r].name : r \in PropRows(file, id)}
  <2>1. ASSUME NEW p \in DOMAIN made.props PROVE p \in {file.props[r].name : r \in PropRows(file, id)}
    <3>1. made.props[p].ID \in PropRows(file, id) /\ file.props[made.props[p].ID].name = p
      BY <1>1, <1>12, CreatedRow
    <3> QED  BY <3>1
  <2>2. \A r \in PropRows(file, id) : file.props[r].name \in DOMAIN made.props
    BY <1>1, <1>12, CreatedColumn
  <2> QED  BY <1>4, <1>7, <2>1, <2>2
<1>10. ASSUME NEW r \in PropRows(file, id)
       PROVE  g[file.props[r].name] = file.classes[id].data.properties[r]
  <2>1. PICK p \in DOMAIN made.props : p = file.props[r].name /\ made.props[p].ID = r
    BY <1>1, <1>12, <1>10, CreatedColumn
  <2>2. made.props[p].D = req.schema[c].properties[p]
    BY <1>12 DEF Created
  <2>3. InternalToJSON(made).properties[made.props[p].ID] = made.props[p].D
    BY <1>4, DefinitionOfClass DEF IInv
  <2> QED  BY <1>2, <1>7, <2>1, <2>2, <2>3
<1>11. Entry(file, id) = [name |-> file.classes[id].name, properties |-> g]
  BY <1>5, <1>6, <1>8, <1>9, <1>10, EntryOf
<1> QED  BY <1>1, <1>4, <1>5, <1>7, <1>11

(* A class whose indexes were set has no more properties that ask for one  *)
(* than the index has columns.                                             *)
LEMMA NewClassFits ==
  ASSUME IInv, Commit, NEW c \in DOMAIN req.schema
  PROVE  CatalogOfSaved!Fits(req.schema[c])
<1>1. PICK made : made = Classes[c]
  OBVIOUS
<1>2. req.pc = "save" /\ req.todo = {} /\ DOMAIN Classes = DOMAIN req.schema
  BY DEF IInv, Request, Commit
<1>3. ClassRequest(c) /\ IndexedSoFar(c) = DOMAIN made.props
  BY <1>1, <1>2, ClassesOfRequest DEF IInv, IndexedSoFar
<1>4. Created(made, c)
  BY <1>1, <1>3 DEF ClassRequest
<1>5. DOMAIN made.props = DOMAIN req.schema[c].properties
  BY <1>1, <1>3 DEF ClassRequest
<1>6. Indexed(made.indexes, Asking(made, DOMAIN made.props, "fulltext"), Asking(made, DOMAIN made.props, "range"))
  BY <1>1, <1>3 DEF ClassRequest
<1> DEFINE asking(i) == {p \in DOMAIN req.schema[c].properties : req.schema[c].properties[p].index = i}
<1>7. ASSUME NEW i PROVE Cardinality(asking(i)) = Cardinality(Asking(made, DOMAIN made.props, i))
  <2> DEFINE S == Asking(made, DOMAIN made.props, i)
             f == [r \in S |-> file.props[r].name]
  <2>1. \A p \in DOMAIN made.props : file.props[made.props[p].ID].name = p
    BY <1>4, CreatedRow
  <2>2. \A p \in DOMAIN made.props : made.props[p].D = req.schema[c].properties[p]
    BY <1>4 DEF Created
  <2>3. asking(i) = {p \in DOMAIN made.props : made.props[p].D.index = i}
    BY <1>5, <2>2
  <2>4. S = {made.props[p].ID : p \in asking(i)}
    BY <2>3 DEF Asking
  <2>5. asking(i) \subseteq DOMAIN made.props
    BY <2>3
  <2> HIDE DEF asking
  <2>6. IsFiniteSet(S)
    BY <1>4, AskingIDs DEF IInv
  <2>7. f \in [S -> asking(i)]
    BY <2>1, <2>4, <2>5
  <2>8. \A x, y \in S : f[x] = f[y] => x = y
    BY <2>1, <2>4, <2>5
  <2>9. \A z \in asking(i) : \E x \in S : f[x] = z
    <3> SUFFICES ASSUME NEW z \in asking(i) PROVE \E x \in S : f[x] = z
      OBVIOUS
    <3>1. made.props[z].ID \in S /\ file.props[made.props[z].ID].name = z
      BY <2>1, <2>4, <2>5
    <3> QED  BY <3>1
  <2> HIDE DEF f, S
  <2>10. Cardinality(asking(i)) = Cardinality(S)
    BY <2>6, <2>7, <2>8, <2>9, OneToOne
  <2> QED  BY <2>10 DEF S
<1>8. Cardinality(asking("fulltext")) <= FtsCols /\ 2 * Cardinality(asking("range")) <= RngCols
  <2>1. /\ Len(made.indexes.fullTextIndexing) <= FtsCols
        /\ Len(made.indexes.fullTextIndexing) = Cardinality(Asking(made, DOMAIN made.props, "fulltext"))
        /\ Len(made.indexes.rangeIndexing) <= RngCols
        /\ Len(made.indexes.rangeIndexing) = 2 * Cardinality(Asking(made, DOMAIN made.props, "range"))
    BY <1>6 DEF Indexed, IndexesOK
  <2> HIDE DEF asking
  <2> QED  BY <1>7, <2>1
<1>9. \A S : CatalogOfSaved!Cardinality(S) = Cardinality(S)
  BY DEF Cardinality, CatalogOfSaved!Cardinality
<1> QED  BY <1>8, <1>9 DEF CatalogOfSaved!Fits

(* The commit makes the catalogue grow by the schema.                      *)
LEMMA CommitImplements ==
  ASSUME IInv, Commit
  PROVE  CatalogOfSaved!CreateSchema(req.schema)
<1>1. /\ req.pc = "save" /\ req.todo = {} /\ DOMAIN Classes = DOMAIN req.schema
      /\ saved' = file /\ req.schema \in Schemas
  BY DEF IInv, Request, Commit
<1>2. /\ FileOK(file) /\ FileOK(saved)
      /\ \A id \in DOMAIN saved.classes : Whole(saved, id)
      /\ \A id \in DOMAIN file.classes : Whole(file, id)
  BY <1>1 DEF IInv, Shapes, Files, UnderWay
<1>3. Committed = {Entry(saved, id) : id \in DOMAIN saved.classes}
  BY <1>2, CommittedEntries
<1>4. Committed' = {Entry(file, id) : id \in DOMAIN file.classes}
  <2>1. \A id \in DOMAIN file.classes : CanLoad(file, id)
    BY <1>2, LoadShapes
  <2> QED  BY <1>1, <2>1 DEF Committed, Entry
<1>5. /\ DOMAIN saved.classes \subseteq DOMAIN file.classes
      /\ \A id \in DOMAIN saved.classes : file.classes[id] = saved.classes[id]
  BY DEF IInv, Adds
<1>6. \A id \in DOMAIN saved.classes : Entry(file, id) = Entry(saved, id)
  BY <1>2, <1>5, OldEntries
<1> DEFINE new(c) == [name |-> c, properties |-> req.schema[c].properties]
           mine(c) == Classes[c].ClassID
<1>7. \A c \in DOMAIN req.schema : /\ mine(c) \in DOMAIN file.classes /\ mine(c) \notin DOMAIN saved.classes
                                   /\ file.classes[mine(c)].name = c /\ Entry(file, mine(c)) = new(c)
  BY NewEntries
<1>8. \A i, j \in DOMAIN file.classes : file.classes[i].name = file.classes[j].name => i = j
  BY <1>2 DEF FileOK
<1>9. ASSUME NEW k \in Committed PROVE k.name \notin DOMAIN req.schema
  <2>1. PICK id \in DOMAIN saved.classes : k = Entry(saved, id)
    BY <1>3
  <2>2. k.name = saved.classes[id].name
    BY <1>2, <2>1, EntryShape
  <2> HIDE DEF mine, new
  <2> QED  BY <1>5, <1>7, <1>8, <2>2
<1>10. ASSUME NEW id \in DOMAIN file.classes \ DOMAIN saved.classes
       PROVE  \E c \in DOMAIN req.schema : Entry(file, id) = new(c)
  <2>1. file.classes[id].name \in DOMAIN req.schema
    BY <1>1 DEF IInv, Own
  <2>2. PICK c \in DOMAIN req.schema : c = file.classes[id].name
    BY <2>1
  <2>3. mine(c) \in DOMAIN file.classes /\ file.classes[mine(c)].name = c /\ Entry(file, mine(c)) = new(c)
    BY <1>7
  <2> HIDE DEF mine, new
  <2>4. id = mine(c)
    BY <1>8, <2>2, <2>3
  <2> QED  BY <2>3, <2>4
<1> HIDE DEF mine, new
<1>11. Committed' = Committed \cup {new(c) : c \in DOMAIN req.schema}
  BY <1>3, <1>4, <1>5, <1>6, <1>7, <1>10
<1>12. \A c \in DOMAIN req.schema : CatalogOfSaved!Fits(req.schema[c])
  BY NewClassFits
<1> QED  BY <1>9, <1>11, <1>12 DEF CatalogOfSaved!CreateSchema, new

(* A commit adds a schema to the catalogue, any other step leaves it.      *)
LEMMA StepImplements ==
  ASSUME IInv, [Next]_vars
  PROVE  [CatalogOfSaved!Next]_Committed
<1>1. CASE Commit
  <2>1. req.schema \in Schemas
    BY <1>1 DEF IInv, Request, Commit
  <2> QED  BY <1>1, <2>1, CommitImplements DEF CatalogOfSaved!Next
<1>2. CASE ~ Commit
  <2>1. saved' = saved
    BY <1>2
    DEF Next, vars, CreateSchema, InsertNewClass, ApplyProperty, AddClassToList, ApplyIndexing,
        IndexProperty, SaveClassDef, HandlerFails, OtherRequest, GetClassDef, Return
  <2> QED  BY <2>1 DEF Committed
<1> QED  BY <1>1, <1>2

(* Every request adds its whole schema to what later requests load, or     *)
(* nothing: the detailed specification implements the catalogue.           *)
THEOREM Refinement == Spec => ImplementsCatalog
<1>1. Init => CatalogOfSaved!Init
  BY DEF Init, CatalogOfSaved!Init, Committed, Nothing
<1>2. IInv /\ [Next]_vars => [CatalogOfSaved!Next]_Committed
  BY StepImplements
<1> QED  BY <1>1, <1>2, Invariant, PTL DEF Spec, ImplementsCatalog, CatalogOfSaved!Spec

==============================================================================
