------------------------------ MODULE Storage ------------------------------
(***************************************************************************)
(* The tables of sql/dbschema.sql that hold the data, [.objects] and       *)
(* [.ref-values], with their indexes, triggers and foreign keys.  An       *)
(* action is an SQL statement together with all that the triggers do: a    *)
(* statement that SQLite refuses changes nothing.                          *)
(*                                                                         *)
(* References are rows of [.ref-values] that the triggers tell by ctlv:    *)
(* 10 means that the object goes with the one that refers to it, 3 that it *)
(* goes with the reference; 0 is a plain value.                            *)
(***************************************************************************)
EXTENDS Integers, Sequences, FiniteSets, FiniteSetsExt, Functions

CONSTANTS
  Class, Property,
  MaxID,          (* bound: the highest object ID                          *)
  MaxValues,      (* bound: rows in [.ref-values]                          *)
  MaxSteps,       (* bound: steps of one statement with its triggers       *)
  NULL

ASSUME StorageAssumption ==
  Property \subseteq Nat /\ MaxID \in Nat \ {0} /\ {MaxValues, MaxSteps} \subseteq Nat

VARIABLES
  classes,        (* [.classes]                                            *)
  objects,        (* [.objects]: class and ctlo by ObjectID                *)
  values,         (* [.ref-values]: value and ctlv by ObjectID, PropertyID *)
  sequence,       (* the last ID that AUTOINCREMENT gave                   *)
  pragmas         (* what is switched on in the connection                 *)

vars == <<classes, objects, values, sequence, pragmas>>

ID == 1..MaxID
Ctlv == {0, 3, 10}
Plain == 0
WeakReference == 3
CascadeReference == 10

(* dbschema.sql switches both pragmas on.  But foreign_keys cannot be      *)
(* switched inside of a transaction, and flexi('configure') runs in one;   *)
(* and a connection to an existing database need not run it at all.        *)
Connections ==
  {{"foreign_keys", "recursive_triggers"}, {"recursive_triggers"}, {}}

Init ==
  /\ classes = Class
  /\ objects = << >> /\ values = << >>
  /\ sequence = 0
  /\ pragmas \in Connections

(* idxValuesByPropUniqueValue.                                             *)
IsUnique(ctlv) == (ctlv \div 8) % 2 = 1
UniqueIndexHolds(rows) ==
  \A r, s \in DOMAIN rows :
    r # s /\ r[2] = s[2] /\ rows[r].value = rows[s].value =>
      ~(IsUnique(rows[r].ctlv) /\ IsUnique(rows[s].ctlv))

(* Mutant: as without the pragma.                                          *)
FiresOnce(trigger, running) == trigger \notin running

(* A trigger that is running does not fire again within itself, unless     *)
(* recursive triggers are on.                                              *)
Fires(trigger, running) == trigger \notin running \/ "recursive_triggers" \in pragmas

-----------------------------------------------------------------------------
(* Deletion.  A DELETE finds its rows first; then it deletes those that    *)
(* are still there, one after the other, and after each one the statements *)
(* of the trigger come before the next row.  An execution is what is left  *)
(* of the two tables and the statements to do.  A statement that has begun *)
(* has its rows; the others, of the trigger of an object, have the object. *)

Statement ==
  [what : {"objects", "values", "to themselves", "its values"},
   ids : SUBSET ID, rows : SUBSET (ID \X Property), running : SUBSET {"objects", "values"}]

Execution == [objects : SUBSET ID, values : SUBSET (ID \X Property), todo : Seq(Statement)]

FromObjects(ids, running) ==
  IF ids = {} THEN << >>
  ELSE <<[what |-> "objects", ids |-> ids, rows |-> {}, running |-> running]>>

FromValues(rows, running) ==
  IF rows = {} THEN << >>
  ELSE <<[what |-> "values", ids |-> {}, rows |-> rows, running |-> running]>>

About(what, o, running) == [what |-> what, ids |-> {o}, rows |-> {}, running |-> running]

(* What an object refers to for cascade.                                   *)
Targets(e, o) ==
  {values[r].value : r \in {x \in e.values : x[1] = o /\ values[x].ctlv = CascadeReference}}

(* Mutant: the values go before the objects they refer to are looked up.   *)
TriggerValuesFirst(e, o, running) ==
  FromValues({r \in e.values : r[1] = o}, running) \o <<About("to themselves", o, running)>>

trigObjectsAfterDelete(e, o, running) ==
  FromObjects(Targets(e, o), running)
    \o <<About("to themselves", o, running), About("its values", o, running)>>

(* The rows that the second and third statement of that trigger find.  In  *)
(* the second one ObjectID is the column of [.ref-values], not that of the *)
(* deleted object.                                                         *)
RowsFor(e, s) ==
  IF s.what = "its values" THEN {r \in e.values : r[1] \in s.ids}
  ELSE {r \in e.values : values[r].value = r[1] /\ values[r].ctlv \in {Plain, CascadeReference}}

(* Mutant: any object is taken for a weak one.                             *)
TriggerAllWeak(e, r, running) ==
  IF /\ values[r].ctlv = WeakReference /\ values[r].value \in e.objects
     /\ \A s \in e.values \ {r} : ~(values[s].value = s[1] /\ values[s].ctlv = WeakReference)
  THEN FromObjects({values[r].value}, running) ELSE << >>

(* Here too the references that are counted are those of objects to        *)
(* themselves.  Weak objects are told by ctlo & 1.                         *)
trigValuesAfterDelete(e, r, running) ==
  IF /\ values[r].ctlv = WeakReference
     /\ values[r].value \in e.objects /\ objects[values[r].value].ctlo = 1
     /\ \A s \in e.values \ {r} : ~(values[s].value = s[1] /\ values[s].ctlv = WeakReference)
  THEN FromObjects({values[r].value}, running) ELSE << >>

(* Rows in the order of the primary key.                                   *)
FirstRow(rows) ==
  CHOOSE r \in rows : \A s \in rows : r[1] < s[1] \/ (r[1] = s[1] /\ r[2] <= s[2])

(* The next step of e, whose first statement is s: a row of it goes, or it *)
(* begins.                                                                 *)
NextObject(e, s, o) ==
  [objects |-> e.objects \ {o}, values |-> e.values,
   todo |-> (IF o \in e.objects /\ Fires("objects", s.running)
             THEN trigObjectsAfterDelete(e, o, s.running \cup {"objects"}) ELSE << >>)
            \o FromObjects(s.ids \ {o}, s.running) \o Tail(e.todo)]

NextRow(e, s, r) ==
  [objects |-> e.objects, values |-> e.values \ {r},
   todo |-> (IF r \in e.values /\ Fires("values", s.running)
             THEN trigValuesAfterDelete(e, r, s.running \cup {"values"}) ELSE << >>)
            \o FromValues(s.rows \ {r}, s.running) \o Tail(e.todo)]

Begin(e, s) == [e EXCEPT !.todo = FromValues(RowsFor(e, s), s.running) \o Tail(@)]

Step(e, s) ==
  CASE s.what = "objects" -> NextObject(e, s, Min(s.ids))
    [] s.what = "values"  -> NextRow(e, s, FirstRow(s.rows))
    [] OTHER              -> Begin(e, s)

(* What becomes of an execution within n steps.                            *)
After[n \in 0..MaxSteps] ==
  [e \in Execution |->
     IF n = 0 \/ e.todo = << >> THEN e ELSE After[n - 1][Step(e, Head(e.todo))]]

(* Statements of the application, with all that the triggers do.  As the   *)
(* depth of triggers is limited in SQLite, the steps are here.             *)
Run(todo) ==
  LET start == [objects |-> DOMAIN objects, values |-> DOMAIN values, todo |-> todo]
  IN \E e \in {After[MaxSteps][start]} :
       /\ e.todo = << >>
       /\ objects' = Restrict(objects, e.objects) /\ values' = Restrict(values, e.values)

DeleteObject(o) ==
  /\ o \in DOMAIN objects
  /\ Run(FromObjects({o}, {}))
  /\ UNCHANGED <<classes, sequence, pragmas>>

DeleteValue(r) ==
  /\ r \in DOMAIN values
  /\ Run(FromValues({r}, {}))
  /\ UNCHANGED <<classes, sequence, pragmas>>

(* trigFlexi_Prop_Delete.                                                  *)
DeleteProperty(p) ==
  /\ \E r \in DOMAIN values : r[2] = p
  /\ Run(FromValues({r \in DOMAIN values : r[2] = p}, {}))
  /\ UNCHANGED <<classes, sequence, pragmas>>

(* Mutant: without ON DELETE CASCADE.                                      *)
DeleteClassOnly(c) ==
  /\ c \in classes /\ classes' = classes \ {c}
  /\ UNCHANGED <<objects, values, sequence, pragmas>>

(* fkObjectsClassIDToClasses: ON DELETE CASCADE.                           *)
DeleteClass(c) ==
  /\ c \in classes
  /\ classes' = classes \ {c}
  /\ IF "foreign_keys" \in pragmas
     THEN Run(FromObjects({o \in DOMAIN objects : objects[o].class = c}, {}))
     ELSE UNCHANGED <<objects, values>>
  /\ UNCHANGED <<sequence, pragmas>>

-----------------------------------------------------------------------------
(* Insertion, as WritableDBOV:saveCreate and ChangedDBProperty:SaveToDB do *)
(* it: the object first, then its values.                                  *)

NextID == Max({sequence} \cup DOMAIN objects) + 1

(* Mutant: ctlo is 0 where none is given.                                  *)
InsertObjectZero(c, ctlo) ==
  /\ NextID <= MaxID /\ c \in classes
  /\ objects' = [x \in DOMAIN objects \cup {NextID} |->
                   IF x = NextID THEN [class |-> c, ctlo |-> IF ctlo = NULL THEN 0 ELSE ctlo] ELSE objects[x]]
  /\ sequence' = NextID
  /\ UNCHANGED <<classes, values, pragmas>>

(* trigObjectsAfterInsert finds no ctlo in [.classes]: the name is that of *)
(* the column it sets, which so remains what it was.                       *)
InsertObject(c, ctlo) ==
  /\ NextID <= MaxID /\ c \in classes
  /\ objects' = [x \in DOMAIN objects \cup {NextID} |->
                   IF x = NextID THEN [class |-> c, ctlo |-> ctlo] ELSE objects[x]]
  /\ sequence' = NextID
  /\ UNCHANGED <<classes, values, pragmas>>

InsertValue(o, p) ==
  /\ o \in DOMAIN objects /\ <<o, p>> \notin DOMAIN values
  /\ Cardinality(DOMAIN values) < MaxValues
  /\ \E v \in ID, ctlv \in Ctlv :
       LET inserted == [r \in DOMAIN values \cup {<<o, p>>} |->
                          IF r = <<o, p>> THEN [value |-> v, ctlv |-> ctlv] ELSE values[r]]
       IN UniqueIndexHolds(inserted) /\ values' = inserted
  /\ UNCHANGED <<classes, objects, sequence, pragmas>>

-----------------------------------------------------------------------------
(* trigObjectsAfterUpdateOfClassID_ObjectID: the rows of the object go     *)
(* with it, then the references to it.                                     *)
(* Mutant: the references are forgotten.                                   *)
RenumberedRowsOnly(rows, old, new) ==
  LET Moved(r) == <<IF r[1] = old THEN new ELSE r[1], r[2]>>
  IN [r \in {Moved(s) : s \in DOMAIN rows} |-> rows[CHOOSE s \in DOMAIN rows : Moved(s) = r]]

Renumbered(rows, old, new) ==
  LET Moved(r) == <<IF r[1] = old THEN new ELSE r[1], r[2]>>
      Row(r) == rows[CHOOSE s \in DOMAIN rows : Moved(s) = r]
  IN [r \in {Moved(s) : s \in DOMAIN rows} |->
        IF Row(r).value = old /\ Row(r).ctlv \in {Plain, CascadeReference}
        THEN [Row(r) EXCEPT !.value = new] ELSE Row(r)]

(* Refused when the ID, or a row of that ID, is there already.             *)
UpdateObjectID(old, new) ==
  /\ old \in DOMAIN objects /\ new \notin DOMAIN objects
  /\ \A p \in Property : ~(<<old, p>> \in DOMAIN values /\ <<new, p>> \in DOMAIN values)
  /\ UniqueIndexHolds(Renumbered(values, old, new))
  /\ objects' = [o \in (DOMAIN objects \ {old}) \cup {new} |-> objects[IF o = new THEN old ELSE o]]
  /\ values' = Renumbered(values, old, new)
  /\ UNCHANGED <<classes, sequence, pragmas>>

Next ==
  \/ \E c \in Class, ctlo \in {NULL, 1} : InsertObject(c, ctlo)
  \/ \E o \in ID, p \in Property : InsertValue(o, p)
  \/ \E o \in ID : DeleteObject(o)
  \/ \E r \in ID \X Property : DeleteValue(r)
  \/ \E p \in Property : DeleteProperty(p)
  \/ \E c \in Class : DeleteClass(c)
  \/ \E old, new \in ID : UpdateObjectID(old, new)

Spec == Init /\ [][Next]_vars

-----------------------------------------------------------------------------
TypeOK ==
  /\ classes \subseteq Class /\ sequence \in 0..MaxID /\ pragmas \in Connections
  /\ DOMAIN objects \subseteq ID /\ DOMAIN values \subseteq ID \X Property
  /\ \A o \in DOMAIN objects : objects[o] \in [class : Class, ctlo : {NULL, 1}]
  /\ \A r \in DOMAIN values : values[r] \in [value : ID, ctlv : Ctlv]

(* Deleting objects never leaves their values behind, however deletions,   *)
(* cascades, weak references and changes of IDs nest: in a connection with *)
(* recursive triggers each row of [.ref-values] belongs to an object       *)
(* (trigObjectsAfterDelete, trigObjectsAfterUpdateOfClassID_ObjectID).     *)
ValuesHaveOwners ==
  "recursive_triggers" \in pragmas => \A r \in DOMAIN values : r[1] \in DOMAIN objects

(* Every object has a class, where foreign keys are switched on            *)
(* (fkObjectsClassIDToClasses).                                            *)
ObjectsHaveClasses ==
  "foreign_keys" \in pragmas => \A o \in DOMAIN objects : objects[o].class \in classes

Gone == DOMAIN objects \ DOMAIN objects'
RefersTo(o, ctlv) ==
  {values[r].value : r \in {s \in DOMAIN values : s[1] = o /\ values[s].ctlv = ctlv}}
Deletion == Gone # {} /\ DOMAIN objects' \subseteq DOMAIN objects

(* With an object go all objects it refers to for cascade, with recursive  *)
(* triggers through any number of steps and in circles as well, whatever   *)
(* the statement was that took it; but one that deletes the references of  *)
(* a property takes them as plain rows (trigObjectsAfterDelete, "Delete    *)
(* all objects that are referenced from this object and marked for cascade *)
(* delete").                                                               *)
CascadesAreComplete ==
  [][Deletion /\ "recursive_triggers" \in pragmas =>
       \A o \in Gone :
         \/ RefersTo(o, CascadeReference) \cap DOMAIN objects' = {}
         \/ \E p \in Property : DeleteProperty(p)]_vars

(* Why an object may go: its class goes, another object that goes refers   *)
(* to it for cascade, or its deletion was asked for.                       *)
AskedToGo(o) ==
  \/ objects[o].class \notin classes'
  \/ \E g \in Gone \ {o} : o \in RefersTo(g, CascadeReference)
  \/ DeleteObject(o)

(* An object that is not weak goes for one of these reasons only, whatever *)
(* refers to it and wherever in nested triggers its references go          *)
(* (trigObjectsAfterDelete, trigValuesAfterDelete).                        *)
StrongObjectsStay ==
  [][Deletion => \A o \in Gone : objects[o].ctlo = 1 \/ AskedToGo(o)]_vars

(* A weak object "must be auto deleted after last reference to this object *)
(* gets deleted": where nothing else takes it, it goes when no weak        *)
(* reference to it is left (trigValuesAfterDelete).                        *)
WeakObjectsGoLast ==
  [][Deletion =>
       \A o \in Gone :
         \/ \A r \in DOMAIN values' : values'[r] # [value |-> o, ctlv |-> WeakReference]
         \/ AskedToGo(o)]_vars

(* When an object gets another ID its values stay its own and what was a   *)
(* cascade reference to it still is one (trigObjectsAfterUpdateOf-         *)
(* ClassID_ObjectID).                                                      *)
ReferencesFollow ==
  [][\A old \in Gone, new \in DOMAIN objects' :
       UpdateObjectID(old, new) /\ "recursive_triggers" \in pragmas =>
         LET Own(rows, o) == {r[2] : r \in {s \in DOMAIN rows : s[1] = o}}
             To(rows, o) == Cardinality({r \in DOMAIN rows : rows[r] = [value |-> o, ctlv |-> CascadeReference]})
         IN /\ Own(values', new) = Own(values, old)
            /\ To(values', old) = 0 /\ To(values', new) = To(values, old) + To(values, new)]_vars

(* "Delete all reversed references" (trigObjectsAfterDelete): of the       *)
(* objects that stay, exactly the values go that refer to one that goes.   *)
DeletesReversedReferences ==
  [][\A o \in ID : DeleteObject(o) =>
       \A r \in DOMAIN values :
         r[1] \in DOMAIN objects' =>
           (r \notin DOMAIN values' <=>
              values[r].value \in Gone /\ values[r].ctlv \in {Plain, CascadeReference})]_vars
=============================================================================
