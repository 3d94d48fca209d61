----------------------------- MODULE ClassDefs ------------------------------
(***************************************************************************)
(* Class definitions: how createMultiClasses turns the JSON of a schema    *)
(* into property rows, columns and index definitions, what saveToDB writes *)
(* of them, and what a later request loads back.  One connection; what     *)
(* other connections do to the transaction is in FlexiAction.              *)
(***************************************************************************)
EXTENDS Integers, FiniteSets, Sequences, FiniteSetsExt, Functions

CONSTANTS
  Class, Prop,   (* names                                                  *)
  Schemas,       (* the payloads of 'create schema'                        *)
  Columns,       (* 16 in the code: [.objects].A to P                      *)
  FtsCols,       (* 5 in the code: X1 to X5                                *)
  RngCols,       (* 10 in the code: A0, A1 to E0, E1                       *)
  SparseSafe     (* 10 in cjson: no table up to this length is sparse      *)

Types == {"number", "text", "symname", "any"}
Indexes == {"none", "index", "unique", "range", "fulltext"}

(* A property of the JSON; long is a text with maxLength > 255.  A class   *)
(* has properties and keys, the unique indexes declared at class level.    *)
PropertyDefData == [type : Types, index : Indexes, long : BOOLEAN]

ASSUME ClassAssumption ==
  /\ Columns \in Nat /\ FtsCols \in Nat /\ SparseSafe \in Nat
  /\ RngCols \in Nat /\ RngCols % 2 = 0
  /\ \A s \in Schemas : DOMAIN s \in SUBSET Class
  /\ \A s \in Schemas : \A c \in DOMAIN s :
        /\ s[c].keys \in SUBSET Seq(DOMAIN s[c].properties)
        /\ DOMAIN s[c].properties \in SUBSET Prop
        /\ s[c].properties \in [DOMAIN s[c].properties -> PropertyDefData]

VARIABLES
  file,    (* [.classes] and [.class_props], in the open transaction       *)
  saved,   (* the same, as committed                                       *)
  Classes, (* DBContext.Classes                                            *)
  req      (* the 'create schema' request in progress                      *)

vars == <<file, saved, Classes, req>>

NoData == [properties |-> [x \in {} |-> "null"]]
NoColumn == 0
Nothing == [x \in {} |-> "null"]

IndexDefinitions ==
  [fullTextIndexing |-> <<>>, rangeIndexing |-> <<>>, multiKeyIndexing |-> <<>>,
   propIndexing |-> Nothing]

Idle == [pc |-> "idle", schema |-> Nothing, todo |-> {}, name |-> "none",
         cls |-> NoData, left |-> {}]

Init ==
  /\ file = [classes |-> Nothing, props |-> Nothing, lastClass |-> 0, lastProp |-> 0]
  /\ saved = file
  /\ Classes = Nothing
  /\ req = Idle

-----------------------------------------------------------------------------
(* Property definitions.                                                   *)

GetSupportedIndexTypes(def) ==
  CASE def.type = "number"  -> {"range", "index", "unique"}
    [] def.type = "text"    -> {"fulltext", "index", "unique"}
    [] def.type = "symname" -> {"index", "unique"}
    [] OTHER                -> {}

ColumnMappingSupported(def) == ~ (def.type = "text" /\ def.long)

(* The index flag of [.class_props].ctlv, and of the values themselves.    *)
GetCTLV(def) == IF def.index \in {"index", "unique"} THEN def.index ELSE "none"

(* Planted bug: the search for a column starts at the first one again.     *)
FirstColumn(cls, def) == IF ColumnMappingSupported(def) THEN 1 ELSE NoColumn

(* Planted bug: one column more than [.objects] has.                       *)
OneColumnMore(cls, def) ==
  LET free == 1 .. Columns + 1 \ {cls.props[p].ColMap : p \in DOMAIN cls.props}
  IN  IF ColumnMappingSupported(def) /\ free # {} THEN Min(free) ELSE NoColumn

(* The first free column; none if all are taken.                           *)
AssignColMapping(cls, def) ==
  LET free == 1 .. Columns \ {cls.props[p].ColMap : p \in DOMAIN cls.props}
  IN  IF ColumnMappingSupported(def) /\ free # {} THEN Min(free) ELSE NoColumn

-----------------------------------------------------------------------------
(* Index definitions: <<ok, definition>> for one more property.            *)

Ok(ix) == [ok |-> TRUE, indexes |-> ix]
Refused(ix) == [ok |-> FALSE, indexes |-> ix]

AddFullTextIndexedProperty(ix, id) ==
  IF id \in Range(ix.fullTextIndexing) THEN Ok(ix)
  ELSE IF Len(ix.fullTextIndexing) = FtsCols THEN Refused(ix)
  ELSE Ok([ix EXCEPT !.fullTextIndexing = Append(@, id)])

(* Planted bug: a property is its own lower bound but not its upper one.   *)
AddRangeHalf(ix, id) ==
  IF id \in Range(ix.rangeIndexing) THEN Ok(ix)
  ELSE IF Len(ix.rangeIndexing) = RngCols THEN Refused(ix)
  ELSE Ok([ix EXCEPT !.rangeIndexing = Append(@, id)])

AddRangeIndexedProperty(ix, id) ==
  IF id \in Range(ix.rangeIndexing) THEN Ok(ix)
  ELSE IF Len(ix.rangeIndexing) = RngCols THEN Refused(ix)
  ELSE Ok([ix EXCEPT !.rangeIndexing = @ \o <<id, id>>])

(* A plain index is left out when the property leads another index.        *)
AddIndexedProperty(ix, id, unique) ==
  LET covered == \/ id \in Range(ix.rangeIndexing)
                 \/ ix.multiKeyIndexing # <<>> /\ Head(ix.multiKeyIndexing) = id
  IN  IF ~ unique /\ covered
        THEN Ok(ix)
        ELSE Ok([ix EXCEPT !.propIndexing =
                   [i \in DOMAIN @ \cup {id} |-> IF i = id THEN (IF unique THEN "unique" ELSE "index")
                                                           ELSE @[i]]])

(* Every definition starts empty and gets each property once, so there is  *)
(* no earlier entry of the property to take away.                          *)
SetPropertyIndex(ix, id, def) ==
  IF def.index = "none" THEN Ok(ix)
  ELSE IF def.index \notin GetSupportedIndexTypes(def) THEN Refused(ix)
  ELSE CASE def.index = "fulltext" -> AddFullTextIndexedProperty(ix, id)
         [] def.index = "range"    -> AddRangeIndexedProperty(ix, id)
         [] OTHER                  -> AddIndexedProperty(ix, id, def.index = "unique")

-----------------------------------------------------------------------------
(* The definition as [.classes].Data.                                      *)

(* cjson, encoding a table with integer keys and decoding it again: short  *)
(* or dense tables become arrays, with null wherever there was nothing;    *)
(* other ones become objects, whose keys are strings, so that no look-up   *)
(* by number finds anything in them.                                       *)
JsonTable(t) ==
  LET top == Max(DOMAIN t)
  IN  IF DOMAIN t = {} \/ (top > 2 * Cardinality(DOMAIN t) /\ top > SparseSafe)
        THEN Nothing
        ELSE [i \in 1 .. top |-> IF i \in DOMAIN t THEN t[i] ELSE "null"]

(* Planted bug: the class is saved with the indexes it began with.         *)
InternalWithoutIndexes(cls) ==
  [properties |-> [id \in {cls.props[p].ID : p \in DOMAIN cls.props} |->
                     cls.props[CHOOSE p \in DOMAIN cls.props : cls.props[p].ID = id].D],
   indexes    |-> IndexDefinitions]

InternalToJSON(cls) ==
  [properties |-> [id \in {cls.props[p].ID : p \in DOMAIN cls.props} |->
                     cls.props[CHOOSE p \in DOMAIN cls.props : cls.props[p].ID = id].D],
   indexes    |-> [cls.indexes EXCEPT !.propIndexing = JsonTable(@)]]

ClassIDs(f, c) == {id \in DOMAIN f.classes : f.classes[id].name = c}
PropRows(f, id) == {r \in DOMAIN f.props : f.props[r].class = id}

(* Data is JSON and defines every property that has a row.                 *)
CanLoad(f, id) ==
  /\ f.classes[id].data # NoData
  /\ PropRows(f, id) \subseteq DOMAIN f.classes[id].data.properties

(* The view flexi_prop, from which properties are loaded, has no ColMap.   *)
LoadClass(f, id) ==
  LET data == f.classes[id].data
      row(p) == CHOOSE r \in PropRows(f, id) : f.props[r].name = p
  IN  [ClassID |-> id, loaded |-> TRUE, indexes |-> data.indexes,
       props |-> [p \in {f.props[r].name : r \in PropRows(f, id)} |->
                    [D |-> data.properties[row(p)], ID |-> row(p), ColMap |-> NoColumn]]]

-----------------------------------------------------------------------------
(* flexi('create schema', s): the caches are flushed, as for every request.*)
CreateSchema(s) ==
  /\ req.pc = "idle"
  /\ Classes' = Nothing
  /\ req' = [Idle EXCEPT !.pc = "insert", !.schema = s, !.todo = DOMAIN s]
  /\ UNCHANGED <<file, saved>>

(* The class object keeps the properties of the JSON and nothing else of   *)
(* it: D = {}.                                                             *)
InsertNewClass(c) ==
  /\ req.pc = "insert" /\ c \in req.todo
  /\ ClassIDs(file, c) = {}
  /\ LET id == file.lastClass + 1
     IN  /\ file' = [file EXCEPT !.lastClass = id,
                       !.classes = [i \in DOMAIN @ \cup {id} |->
                          IF i = id THEN [name |-> c, data |-> NoData] ELSE @[i]]]
         /\ req' = [req EXCEPT !.pc = "apply", !.name = c,
                       !.left = DOMAIN req.schema[c].properties,
                       !.cls = [ClassID |-> id, loaded |-> FALSE, props |-> Nothing,
                                indexes |-> IndexDefinitions]]
  /\ UNCHANGED <<saved, Classes>>

(* One round of the loop over clsObject.Properties, in the order of pairs. *)
ApplyProperty(p) ==
  /\ req.pc = "apply" /\ p \in req.left
  /\ LET def == req.schema[req.name].properties[p]
         col == AssignColMapping(req.cls, def)
         id == file.lastProp + 1
     IN  /\ file' = [file EXCEPT !.lastProp = id,
                       !.props = [i \in DOMAIN @ \cup {id} |->
                          IF i = id THEN [class |-> req.cls.ClassID, name |-> p,
                                          ctlv |-> GetCTLV(def), ColMap |-> col]
                                    ELSE @[i]]]
         /\ req' = [req EXCEPT !.left = @ \ {p},
                       !.cls.props = [q \in DOMAIN @ \cup {p} |->
                          IF q = p THEN [D |-> def, ID |-> id, ColMap |-> col] ELSE @[q]]]
  /\ UNCHANGED <<saved, Classes>>

(* Planted bug: the second loop sees only the class just added.            *)
AddLastClassToList ==
  /\ req.pc = "apply" /\ req.left = {}
  /\ Classes' = [c \in DOMAIN Classes \cup {req.name} |->
                   IF c = req.name THEN req.cls ELSE Classes[c]]
  /\ LET todo == req.todo \ {req.name}
     IN  req' = IF todo # {}
                  THEN [req EXCEPT !.pc = "insert", !.todo = todo]
                  ELSE [req EXCEPT !.pc = "save"]
  /\ UNCHANGED <<file, saved>>

(* The end of the first loop of createMultiClasses, for one class.         *)
AddClassToList ==
  /\ req.pc = "apply" /\ req.left = {}
  /\ Classes' = [c \in DOMAIN Classes \cup {req.name} |->
                   IF c = req.name THEN req.cls ELSE Classes[c]]
  /\ LET todo == req.todo \ {req.name}
     IN  req' = IF todo # {}
                  THEN [req EXCEPT !.pc = "insert", !.todo = todo]
                  ELSE [req EXCEPT !.pc = "save", !.todo = DOMAIN req.schema]
  /\ UNCHANGED <<file, saved>>

(* The second loop: ApplyIndexing goes over the properties again.          *)
ApplyIndexing(c) ==
  /\ req.pc = "save" /\ c \in req.todo
  /\ req' = [req EXCEPT !.pc = "index", !.name = c, !.left = DOMAIN Classes[c].props]
  /\ UNCHANGED <<file, saved, Classes>>

(* normalizeIndexDefinitions sets the index of each property on the class  *)
(* itself; the definition it returns, that of the indexes of D, is empty.  *)
IndexProperty(p) ==
  /\ req.pc = "index" /\ p \in req.left
  /\ LET prop == Classes[req.name].props[p]
         set == SetPropertyIndex(Classes[req.name].indexes, prop.ID, prop.D)
     IN  /\ set.ok
         /\ Classes' = [Classes EXCEPT ![req.name].indexes = set.indexes]
  /\ req' = [req EXCEPT !.left = @ \ {p}]
  /\ UNCHANGED <<file, saved>>

(* The rest of ApplyIndexing, which saves each property once more.         *)
PropsSavedAgain(cls) ==
  LET named(r) == cls.props[file.props[r].name]
  IN  [r \in DOMAIN file.props |->
         IF r \in PropRows(file, cls.ClassID)
           THEN [file.props[r] EXCEPT !.ctlv = GetCTLV(named(r).D), !.ColMap = named(r).ColMap]
           ELSE file.props[r]]

(* saveToDB, after it.                                                     *)
SaveClassDef ==
  /\ req.pc = "index" /\ req.left = {}
  /\ LET cls == Classes[req.name]
     IN  file' = [file EXCEPT
                    !.props = PropsSavedAgain(cls),
                    !.classes[cls.ClassID].data = InternalToJSON(cls)]
  /\ req' = [req EXCEPT !.pc = "save", !.todo = @ \ {req.name}]
  /\ UNCHANGED <<saved, Classes>>

(* Planted bug: the commit does not wait for the last class.               *)
CommitEarly ==
  /\ req.pc = "save"
  /\ saved' = file
  /\ req' = [req EXCEPT !.pc = IF req.todo = {} THEN "done" ELSE "save"]
  /\ UNCHANGED <<file, Classes>>

Commit ==
  /\ req.pc = "save" /\ req.todo = {}
  /\ saved' = file
  /\ req' = [req EXCEPT !.pc = "done"]
  /\ UNCHANGED <<file, Classes>>

(* An error of the handler (a class that exists, an index the property     *)
(* does not support or for which there is no room) or of SQLite at any     *)
(* statement: flexiAction rolls back and leaves the context as it is.      *)
HandlerFails ==
  /\ req.pc \notin {"idle", "done"}
  /\ file' = saved
  /\ req' = Idle
  /\ UNCHANGED <<saved, Classes>>

(* Any other request: the caches are flushed...                            *)
OtherRequest ==
  /\ req.pc = "idle"
  /\ Classes' = Nothing
  /\ req' = [Idle EXCEPT !.pc = "query"]
  /\ UNCHANGED <<file, saved>>

(* ...and the classes it uses are loaded.                                  *)
GetClassDef(c) ==
  /\ req.pc = "query" /\ c \notin DOMAIN Classes
  /\ \E id \in ClassIDs(file, c) :
        /\ CanLoad(file, id)
        /\ Classes' = [k \in DOMAIN Classes \cup {c} |->
                         IF k = c THEN LoadClass(file, id) ELSE Classes[k]]
  /\ UNCHANGED <<file, saved, req>>

Return ==
  /\ req.pc \in {"done", "query"}
  /\ req' = Idle
  /\ UNCHANGED <<file, saved, Classes>>

Next ==
  \/ \E s \in Schemas : CreateSchema(s)
  \/ \E c \in Class : InsertNewClass(c) \/ ApplyIndexing(c) \/ GetClassDef(c)
  \/ \E p \in Prop : ApplyProperty(p) \/ IndexProperty(p)
  \/ AddClassToList \/ SaveClassDef \/ Commit \/ HandlerFails \/ OtherRequest \/ Return

Spec == Init /\ [][Next]_vars

-----------------------------------------------------------------------------
(* Rows belong to classes and name properties, columns are columns of      *)
(* [.objects], a class definition in the cache or under construction has   *)
(* the index arrays its storage has room for.                              *)
TypeOK ==
  LET Rows == [class : 1 .. file.lastClass, name : Prop,
               ctlv : {"none", "index", "unique"}, ColMap : 0 .. Columns]
      Sound(cls) ==
        /\ \A p \in DOMAIN cls.props :
              /\ cls.props[p].D \in PropertyDefData
              /\ cls.props[p].ColMap \in 0 .. Columns
        /\ Len(cls.indexes.fullTextIndexing) <= FtsCols
        /\ Len(cls.indexes.rangeIndexing) <= RngCols
  IN  /\ \A f \in {file, saved} :
            /\ \A id \in DOMAIN f.classes : id \in 1 .. f.lastClass /\ f.classes[id].name \in Class
            /\ \A r \in DOMAIN f.props : r \in 1 .. f.lastProp /\ f.props[r] \in Rows
      /\ DOMAIN Classes \subseteq Class
      /\ \A c \in DOMAIN Classes : Sound(Classes[c])
      /\ req.pc \in {"idle", "insert", "apply", "save", "index", "done", "query"}
      /\ req.left \subseteq Prop /\ req.todo \subseteq Class
      /\ req.pc = "apply" => Sound(req.cls)

(* A committed class can be loaded: it has a definition, the definition    *)
(* and [.class_props] have the same properties (the assertion where        *)
(* properties are loaded never fires) and the rows are flagged as the      *)
(* definition says.                                                        *)
StoredDefinitionsAreWhole ==
  \A id \in DOMAIN saved.classes :
    /\ saved.classes[id].data # NoData
    /\ DOMAIN saved.classes[id].data.properties = PropRows(saved, id)
    /\ \A r \in PropRows(saved, id) :
          saved.props[r].ctlv = GetCTLV(saved.classes[id].data.properties[r])

(* What a later request loads is what this one created: the same IDs and   *)
(* definitions, the same full-text, range and multi-key indexes (for those *)
(* of single properties see PropertyIndexesReload).                        *)
ReloadIsFaithful ==
  req.pc = "done" => \A c \in DOMAIN req.schema :
    LET made == Classes[c]
        read == LoadClass(saved, made.ClassID)
    IN  /\ CanLoad(saved, made.ClassID)
        /\ DOMAIN read.props = DOMAIN made.props
        /\ \A p \in DOMAIN made.props :
              read.props[p].ID = made.props[p].ID /\ read.props[p].D = made.props[p].D
        /\ [read.indexes EXCEPT !.propIndexing = 0] = [made.indexes EXCEPT !.propIndexing = 0]

(* The index definitions of a committed class are those of its properties: *)
(* a property has a full-text column iff it asks for one and has both      *)
(* bounds of a range dimension iff it asks for a range; no property has    *)
(* two.                                                                    *)
IndexesMatchProperties ==
  \A id \in DOMAIN saved.classes :
    LET data == saved.classes[id].data
        fts == data.indexes.fullTextIndexing
        rng == data.indexes.rangeIndexing
        asking(i) == {r \in DOMAIN data.properties : data.properties[r].index = i}
    IN  /\ Range(fts) = asking("fulltext") /\ Len(fts) = Cardinality(asking("fulltext"))
        /\ Range(rng) = asking("range")    /\ Len(rng) = 2 * Cardinality(asking("range"))
        /\ \A k \in 1 .. Len(rng) \div 2 : rng[2 * k - 1] = rng[2 * k]

(* Two properties of a class never share a column, and a property goes     *)
(* without one only if it may not have one or the others have them all.    *)
ColumnsAreDistinct ==
  \A id \in DOMAIN file.classes :
    LET mapped == {r \in PropRows(file, id) : file.props[r].ColMap # NoColumn}
    IN  /\ \A r, q \in mapped : r # q => file.props[r].ColMap # file.props[q].ColMap
        /\ saved = file => \A r \in PropRows(file, id) \ mapped :
              \/ ~ ColumnMappingSupported(saved.classes[id].data.properties[r])
              \/ Cardinality(mapped) = Columns

(* The catalogue that later requests load from the committed file grows by *)
(* whole schemas, which fit the indexes there are.                         *)
Committed ==
  {[name |-> saved.classes[id].name,
    properties |-> LET props == LoadClass(saved, id).props
                   IN  [p \in DOMAIN props |-> props[p].D]] :
     id \in {i \in DOMAIN saved.classes : CanLoad(saved, i)}}

CatalogOfSaved == INSTANCE Catalog WITH catalog <- Committed

ImplementsCatalog == CatalogOfSaved!Spec

(* "storing and loading index definitions": a class that was loaded finds, *)
(* by its ID, the index of each property that has one, and none for the    *)
(* others.                                                                 *)
PropertyIndexesReload ==
  \A c \in DOMAIN Classes : Classes[c].loaded =>
    \A p \in DOMAIN Classes[c].props :
      LET prop == Classes[c].props[p]
          ix == Classes[c].indexes.propIndexing
      IN  IF prop.D.index \in {"index", "unique"}
            THEN prop.ID \in DOMAIN ix /\ ix[prop.ID] = prop.D.index
            ELSE prop.ID \notin DOMAIN ix

(* "the only way to define multi-column unique indexes": a key of two or   *)
(* more properties declared with the class is in the definition that is    *)
(* saved.                                                                  *)
DeclaredKeysAreKept ==
  req.pc = "done" => \A c \in DOMAIN req.schema : \A k \in req.schema[c].keys :
    Len(k) >= 2 =>
      Classes[c].indexes.multiKeyIndexing = [i \in DOMAIN k |-> Classes[c].props[k[i]].ID]
=============================================================================
