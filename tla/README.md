# Flexilite in TLA+

Flexilite is an SQLite extension that keeps a dynamic class/object database inside an
ordinary database file. Applications talk to it with one SQL function,
`select flexi('<action>', ...)`; the function is written in Lua (`src_lua/`), stores
everything in a fixed set of tables (`sql/dbschema.sql`: `[.names_props]`, `[.classes]`,
`[flexi_prop]`, `[.objects]`, `[.ref-values]`, ...), and is meant for small workgroups
that share a file (README.md, "8-10 simultaneous users"). README.md recommends the WAL
journal, but nothing switches it on: `dbschema.sql:1` has the pragma commented out, and a
file has SQLite's rollback journal unless the application asks for the other.

This directory holds the specifications, their TLC configurations and the proofs.

## Inventory

| part | state | operations | talks to |
|---|---|---|---|
| `DBContext.lua`, `index.lua` | statement pool, class cache, object cache, deferred work, the SQLite transaction | `flexiAction`, `getStatement`, `loadOneRow`, `addClassToList`, `flushSchemaCache` | everything; SQLite |
| `flexi_CreateClass.lua` | - | `createMultiClasses`, `CreateSchema`, `createVirtualTable` | class definitions, context |
| `flexi_DataUpdate.lua` | - | `saveObject`, `flexi_DataUpdate`, `ImportData` | objects, context |
| `ClassDef.lua`, `ColMapping.lua` | properties by name and ID, column map, index definitions | `fromJSON`, `saveToDB`, `assignColMapping`, `normalizeIndexDefinitions`, `ApplyIndexing` | property definitions, storage |
| `PropertyDef.lua` | definition of one property, its ID and column | `applyDef`, `saveToDB`, `GetCTLV`, `canAlterDefinition`, import of values | names, enums |
| `DBObject.lua` | state C/R/U/D, original and current version | `EditObject`, `saveToDB`, `Delete`, `ImportData`, `ValidateData` | property values |
| `DBProperty.lua`, `DBValue.lua` | values by index, changed or not | `GetValue`, `SetValue`, `SaveToDB` | `[.ref-values]` |
| `dbschema.sql` | the tables, conditional indexes, triggers | triggers on `[.objects]`, `[.ref-values]`, `flexi_class` | flexi() again |
| `QueryBuilder.lua` | a parsed filter | `build`, per-node rewriting | class definitions |
| `NameRef.lua`, `EnumManager.lua`, `AccessControl.lua` | names, enum items, permissions | get-or-create, checks | storage |
| refactoring actions (`flexi_*.lua`) | - | mostly empty bodies | context |
| `util/hash.c` | chained table on one list | set/get/remove/each, clear | C++ code, `var.c` |
| `util/rbtree.c` | nodes with colors and links, a sentinel shared by all trees, the caller's iterator | insert, find, delete, clear, four walks | `json_proc.c`, its test |
| the other containers | arrays, lists, buffers | - | C++ code |
| C++ under `src/flexi` | the implementation the Lua core replaces | - | only `flexi_func.cpp` is built |
| `lib/sqlite`, `src/misc`, `src/fts`, `flexish`, `js`, `tools` | third-party, tools, tests | - | - |

What is hard here: one file shared by several connections, each with its own caches; a
transaction begun and ended by code that never looks at the result of `begin`, `commit`
or `rollback`; statements left in the middle of their rows; failures half way through a
request of several rows; definitions, values and indexes kept in several places that
have to agree after an edit, a save and a reload. `PROJECT.json` lists the hazards at
the line where each bites.

What makes each part correct:

- dispatcher: a request happens as a whole or not at all, and what is reported as done
  is in the file; what a call leaves open is no failed work; caches agree with the snapshot.
- class definitions: a name is used once; a property keeps its column; what is saved
  is what a reload gives; an index in the definition is an index in the file.
- objects and values: reads after edits see the edits, the original version stays as it
  was, what is saved is what was seen before saving.
- storage: deleting takes what the schema says goes together and no other object, no value
  outlives its object, references follow an ID that changes; an index row exists exactly
  for the values flagged as indexed.
- query builder: the generated filter keeps every object the expression accepts.
- containers: they implement a dictionary, with each datum freed once, and a sorted set
  that can be walked while it grows.

## Plan

1. **FlexiRequests, FlexiStore, FlexiAction, FlexiActionProofs** - the dispatcher over
   several connections, refined to the file it maintains. *Done.*
2. **HashTable**, **HashTableProofs**, refined to **Dictionary** - the one container of the
   build with a nontrivial invariant. *Done, with its theorems.*
3. **ClassDefs**, **ClassDefsProofs**, refined to **Catalog** - index definitions, column
   mapping, save and reload of a class. Refines the `data` row of a class in 1. *Done for
   creation, with its theorems.*
4. **Storage**, **StorageProofs** - `[.objects]` and `[.ref-values]` with their triggers, and
   the two statements of the object layer that reach them. *Done, with its theorems; the
   columns A to P with their conditional indexes and the full-text and range tables are left.*
5. **RbTree**, **RbTreeLemmas**, **RbTreeFixup**, **RbTreeProofs**, **RbTreeSet**, refined to
   **SortedSet** - the other container with a nontrivial invariant. *Done, with its theorems.*
6. **PropertyValues** - reading values by index, boxed and changed values; what
   `SaveToDB` writes is in 4.
7. **QueryFilter** - soundness of the generated SQL against a reference evaluation.
8. **Names**, **Enums**, **Access** - the get-or-create protocols.
9. Theorems: those of 1 to 5 are done; what is left of them is liveness, which stays with TLC.

## The dispatcher: FlexiRequests, FlexiStore, FlexiAction

`FlexiRequests` defines the requests and the rows each of them puts into the file.
`FlexiStore` is the promise: the file grows by whole requests, keeps class names unique
and objects attached to existing classes. `FlexiAction` is `DBContext.flexiAction`.

| variable | code |
|---|---|
| `journal` | the journal mode of the file, `"wal"` or `"delete"` (rollback) |
| `db`, `writer` | the file and its write lock: one writer in either mode |
| `draining` | SQLite's PENDING lock: a refused COMMIT lets readers end, but none begin |
| `autoCommit`, `reading`, `stale`, `view` | SQLite's transaction of a connection: is it in one, does it hold a snapshot, has the file moved on, what does it see |
| `pending` | a pooled statement left in the middle of its rows: `loadOneRow` returns from inside `for row in stmt:nrows()` |
| `user` | the application has opened a transaction itself |
| `pc`, `call`, `todo` | where in `flexiAction` the connection is, what it was asked, which rows are still to be written |
| `Classes` | `DBContext.Classes` |
| `outcome` | what the application was told |

Every action between two SQL statements is a step, so that the other connections can
interleave:

| action | code |
|---|---|
| `RejectUnknown` | no handler for that name: error before `begin` |
| `FlexiAction` | `begin`; with `how = "trigger"` the call comes from an INSTEAD OF trigger of the view `flexi_class`, inside a writing statement |
| `CheckSchemaVersion` | `pragma user_version`; `SchemaVersion` is never assigned, so the caches are flushed on every call |
| `CheckRefused` | that first read is refused because a writer waits for the readers |
| `InsertNewClass`, `SaveClassDef` | the two loops of `createMultiClasses` |
| `SaveObject`, `SaveValues` | `WritableDBOV:saveCreate` and `ChangedDBProperty:SaveToDB`, object by object; `GetClassDef` looks the class up |
| `HandlerFails`, `Rollback` | an error anywhere in the handler; `rollback`, then `result_error` |
| `HandlerReturns`, `Commit` | `pragma user_version = n` after a schema change; `commit` |
| `UserBegin`, `UserEnd` | the application's own transactions (external) |

The `commit` of a call is `SqliteCommit`, and its result is not looked at: the call answers
"ok" in each case. It may be done (`CommitDone`); refused with SQLITE_BUSY (`CommitBusy`),
which happens with the rollback journal while another connection reads, and leaves the
transaction and its locks in place; or fail with SQLITE_FULL or SQLITE_IOERR
(`CommitFails`), and then SQLite has rolled it back. Inside a trigger SQLite refuses it
always. Readers are in the way more often than one expects: `loadOneRow` leaves statements
in the middle of their rows, so a connection may hold its snapshot between two calls.

### Runs

| run | question | result |
|---|---|---|
| `calls` | two connections, five requests by select and from triggers, transactions of the application, both journals, commits that are refused or fail: refinement of `FlexiStore`, failures leave nothing, what stays open is acknowledged, cache coherent, every call returns | holds |
| `lost_commit` | is a request that was reported as done in the file? | violated |
| `user_transaction` | does a user transaction stay open over a flexi() call? (`test_lua/util.lua` relies on it) | violated |
| `fresh_schema` | does the schema-version check look at the present schema? | violated |

Bounds: two connections, two class names, each request sent once: one connection to
act and one to interfere, one request that writes two classes so that it can fail
between its rows, another request that wants one of its names, an import, an action that
only reads, an unknown one; one of the two applications opens transactions of its own. The
other three runs have four of the requests, and of the ways to send them, the journals and
the failures only what their counterexample needs: in `lost_commit` the requests come by
select, the journal is the rollback journal and no disk fails. The state space has no other
bound: outcomes are final, so it is finite. More connections add no new kind of conflict, because SQLite
admits one writer and every refusal is an immediate BUSY; the theorems below hold for
any number. Deadlock checking is off because a system that has answered every request
stops.

Fairness: weak fairness of the steps of a call in progress. `flexiAction` runs on the
thread that called it and never waits, neither for another connection (no busy handler
is installed) nor for the application. Sending requests and ending user transactions
are not fair.

### What is proved

`FlexiActionProofs` proves, for every set of connections, requests and class names:

- `TypeCorrect`: `Spec => []TypeOK`.
- `Invariant`: `Spec => []IInv`, the inductive invariant (below).
- `NothingLeftByFailures`, `CacheCoherence`: `[]FailedLeavesNothing`, `[]CacheIsCoherent`.
- `NothingFailedIsLeftOpen`: `Spec => []LeftOpenIsAcknowledged`. A transaction may outlive its
  call (a refused commit, a call inside a trigger); it then has the write lock, and all its
  rows are of requests that were reported as done.
- `Refinement`: `Spec => ImplementsFlexiStore`.

`AckedIsDurable`, that a request reported as done is in the file, is false: `lost_commit`. So
is the stronger wish that nothing is open between two calls. What was acknowledged but is
only in an open transaction may still be lost to a later call that fails and rolls back.

None of the properties is inductive. That the committed file is well formed at the next
commit depends on what the writer's snapshot contains, so `IInv` says: a snapshot that
is not stale contains the file and differs from it only in the connection's own rows
(`Snapshots`); who is inside a call is in a transaction, and the handlers have a snapshot
(`InCall`); the rows still to be written and those in the snapshot make up the
request's effect (`Progress`); the cache is contained in the snapshot
(`CacheIsCoherent`); the file and each snapshot satisfy `WellFormed` but for
requests in progress (`FileIsSound`); and a request's outcome says whether its rows may
be in the file (`Outcomes`). TLC checked `IInv` before it was proved. The step lemmas
follow the actions: one for the rows the handlers write, one for the schema check, one
for each way out, one for the application's transactions. The assumptions are the named
ones: `RequestAssumption`, `ConnAssumption`, `HowsAssumption`, `FileAssumption`.
What is left open needs one fact more (`Held`): a call inside a trigger has the write lock,
and so has a transaction that is open between two calls and is not the application's.

Model-checked only: `EveryCallReturns` (liveness).

## The hash table: HashTable, Dictionary

`HashTable` is `util/hash.c` pointer by pointer: `self` is `struct Hash` with the
elements it allocated in `self.heap`, `released` what the last call freed. All elements
are on one doubly linked list and a bucket is a spot in that list with a length, so the
table works only while each bucket is a run of the list. Actions: `Set` (`HashTable_set`:
insert, replace, remove with a null datum, regrow) and `Clear`; `Get` and `Walk` are
operators that the refinement compares with the dictionary. A failed allocation is a
choice: of the bucket array, which leaves the table as it is, or of the element, where
`HashTable_set` just returns and the datum and key are not in the table. The allocator may give more room than asked for, and `_rehash`
uses it: `Room`.

| run | question | result |
|---|---|---|
| `hash_owned` | is the table a dictionary (`Dictionary`), are list and buckets whole, is each thing freed once, for the types that own their keys or have none? | holds |

Bounds: three keys, two of which share a bucket in all tables that come up but one (2 to 7
buckets, not 5), one key in two allocations, one key with two data, three elements. `GrowAt` is 1 (10 in the code) and
`PerBucket` 1 (2 in the code) so that three keys go through two regrowths and through
tables with and without buckets. The dictionaries that ignore case are left out, as no
code creates one. Deadlock checking is on. `DICT_STRING_NO_FREE` is in the model but not in
the run: `hash.h:62` says its keys "will NOT be disposed", and `hash.c:292` and `:367` free
them when an element is removed or its key replaced. `FreesWhatItDrops` fails at once with
`Types = {"DICT_STRING_NO_FREE"}`.

### What is proved

`HashTableProofs` proves, for any keys, hash codes and elements, and any `GrowAt` and
`PerBucket`:

- `Invariant`: `Spec => []IInv`, the inductive invariant (below).
- `TypeCorrect`, `EachVisitsAll`, `BucketsHoldTheirOwn`: the invariants of `hash_owned`.
- `Refinement`: `Spec => ImplementsDictionary`.
- `FreesExactly`: `Spec => FreesWhatItDrops` under `Contract`: the types are
  those that own their keys or have integers, and callers do not set the same datum under two
  keys. Without the first, the borrowed keys above are a counterexample.

What the table promises cannot be seen from one element: a bucket is a pointer and a
number, and it is right only if the elements behind the pointer are in the right order.
`IInv` therefore says that there is a sequence of all elements (`Whole`) along which
`first`, `next` and `prev` go (`Listed`), such that the elements of each bucket are at
successive places from the one it points to (`Bucketed`), that texts differ and
each datum may be set for its key (`KeysApart`). It is not inductive in the middle of a
call, so the lemmas are about `Partial` tables, which have elements that are not
linked yet: linking an element (`InsertPartial`), regrowing (`RehashWhole`), unlinking
(`UnlinkPartial`). TLC found the invariant to hold on the instance of `hash_owned` with
the sequence that the pointers give.

`Run` and `Rehash` are recursive functions. What they return is proved by a least
counterexample (`LeastNumber`): the smallest number at which the function differs from
what is claimed is not 0, and the number before it is not a counterexample
(`RunOfList`, `MovedExists`). That the regrowing loop has a result at all is proved in the
same way. The only assumption is `HashAssumption`.

## Class definitions: ClassDefs, Catalog

`ClassDefs` follows one connection from the JSON of `flexi('create schema', ...)` to
`[.classes].Data` and `[.class_props]`, and back. `Catalog` is the promise: classes
appear by whole schemas, under free names, with the properties the schema gave them.
`ImplementsCatalog` maps it to the classes *a later request can load* from the committed
file, not to what the creating request has in memory.

| variable | code |
|---|---|
| `file`, `saved` | the two tables, in the open transaction and as committed, with the AUTOINCREMENT counters |
| `Classes` | `DBContext.Classes` |
| `req` | the request: where in `createMultiClasses` it is, the classes to do, the class object under construction, the properties left of a loop |

| action | code |
|---|---|
| `CreateSchema`, `OtherRequest` | `flexiAction` up to the handler; the caches are flushed |
| `InsertNewClass` | existence check, class object, row |
| `ApplyProperty` | one round over the properties: column, flags, row. `pairs` has no order, so any property may be next |
| `AddClassToList` | the end of the first loop for a class |
| `ApplyIndexing`, `IndexProperty`, `SaveClassDef` | the second loop: `normalizeIndexDefinitions`, then the properties again and `saveToDB` |
| `Commit`, `HandlerFails`, `Return` | the ways out |
| `GetClassDef` | a class is loaded |

A refused property (no room in an index, unsupported index) has no step of its own: its
`IndexProperty` is disabled and the request can only fail. `JsonTable` is what cjson
makes of a table keyed by property IDs.

| run | question | result |
|---|---|---|
| `class_definitions` | is what is committed whole, in agreement with the properties, in distinct columns, equal when loaded to what the request created but for the column mapping, and a `Catalog`? | holds |
| `property_indexes` | does a loaded class know which single properties are indexed? | violated |
| `declared_keys` | is a key declared with the class kept? | violated |

Bounds: three class names, three properties, six schemas: one with an index of each
kind, one with two classes and both index arrays full, one that conflicts with a class
of another and creates a further one, two that overflow an index array, one that asks
for an unsupported index. The code's limits are constants set so low that the schemas
reach them: 2 columns (16), 2 full-text columns (5), 2 range dimensions (5), and cjson's
10 for sparse tables is 2. Class names limit how many schemas succeed, and failures take
the counters back, so nothing else bounds the run. Deadlock checking is on. Failures may
come at any step. Data are abstract: a definition is its type, its index and whether it
is a long text. There is no fairness, as no liveness property is stated here.

### What is proved

`ClassDefsProofs` proves, for any classes, properties and schemas, and any number of
columns of each kind:

- `TypeCorrect`: `Spec => []TypeOK`.
- `Invariant`: `Spec => []IInv`, the inductive invariant (below).
- `CommittedClassesAreWhole`, `CommittedIndexesMatch`, `ColumnsNeverShared`,
  `CreatedClassesReload`: the other invariants of the run `class_definitions`.
- `Refinement`: `Spec => ImplementsCatalog`.

What is committed was made by two loops over class objects, several steps earlier, so the
properties hold only because of what the class objects, the rows and the definitions say
of each other on the way. `IInv` says it: the variables have their shapes (`Shapes`); a
class object of the request and its rows are one to one and agree, its index definitions
are those of the properties the second loop has visited, and the classes already saved
have their objects' definitions (`Request`); a class in the tables is complete unless the
request still has it to do (`Files`); the open transaction only adds to what is committed
(`Adds`, `Own`); a property without a column has a reason, which moves from the class
under construction to the cache and from there to the definition (`ColumnsOK`,
`Excused`). TLC found each of these to hold on the instance of `class_definitions` first.
There is one lemma per action and part of the invariant. Two lemmas on the operators carry
the content: `ColumnIsFree` (what `AssignColMapping` returns) and `SetIndex` (what one more
property does to the index definitions). The only assumption is `ClassAssumption`: the
schemas are schemas, and the number of range columns is even, as each dimension has two.
With an odd number `AddRangeIndexedProperty` would overrun the array, since it compares
the length with the limit before it appends two.

Violated properties have no theorem, of course: `PropertyIndexesReload`,
`DeclaredKeysAreKept`.

## Storage

`Storage` is the part of `sql/dbschema.sql` that holds the data. An action is one SQL
statement with all that its triggers do; a statement that SQLite refuses changes
nothing and is a disabled action.

| variable | code |
|---|---|
| `classes` | `[.classes]` |
| `objects` | `[.objects]`: class and `ctlo` by `ObjectID` |
| `values` | `[.ref-values]`: value and `ctlv` by object and property |
| `sequence` | `sqlite_sequence`: the last ID given by AUTOINCREMENT |
| `pragmas` | what is switched on in the connection |

| action | code |
|---|---|
| `InsertObject` | `WritableDBOV:saveCreate`; the trigger looks for a `ctlo` of the class and finds the column it is about to set |
| `InsertValue` | `ChangedDBProperty:SaveToDB`, refused by `idxValuesByPropUniqueValue` |
| `DeleteObject`, `DeleteValue` | the `delete` statements of `DBObject:Delete` and `ChangedDBProperty:SaveToDB` |
| `DeleteProperty`, `DeleteClass` | `trigFlexi_Prop_Delete`; the foreign key of `[.objects]` |
| `UpdateObjectID` | `trigObjectsAfterUpdateOfClassID_ObjectID` |

A statement takes many steps before the next action can begin, and they are modelled:
a DELETE finds its rows, then takes each one that is still there, and after each one
the statements of its trigger come first. An `Execution` is what is left of the two
tables and the list of statements to do, so the nesting of triggers is a stack. `Step` takes one
row (`NextObject`, `NextRow`) or lets the second or third statement of
`trigObjectsAfterDelete` find its rows (`Begin`); `After[n]` is the outcome of up to `n` steps,
and `Run` the statement as a whole. `trigObjectsAfterDelete` and `trigValuesAfterDelete`
give the statements of the triggers. A trigger does not fire within itself unless
recursive triggers are on (`Fires`). In the second statement of
`trigObjectsAfterDelete`, and in the count of `trigValuesAfterDelete`, an unqualified
`ObjectID` is the column of `[.ref-values]`; the model has it as SQLite resolves it.

There are three kinds of connection. The script switches `foreign_keys` and
`recursive_triggers` on. SQLite ignores the first inside a transaction, and
`flexi('configure')` runs the script in one, so such a connection has the second only. A
connection that opens an existing database has neither. A connection keeps its kind.

| run | question | result |
|---|---|---|
| `storage` | are cascades complete and do they take no other object that is not weak, do values have owners and objects classes, do values and cascade references follow a changed ID? | holds |
| `storage_weak` | does a weak object go with the *last* reference to it? | violated |
| `storage_reverse` | does deleting an object "delete all reversed references"? | violated |

Bounds: one class, two properties, three objects (`MaxID`; IDs are not used again) and three
rows (`MaxValues`; two objects and one row in `storage_reverse`, two rows in `storage_weak`). Three objects are the
circle that is not a pair and the chain with a middle; three rows make the circle, or a
cascade with a weak reference and a reference from outside. A statement may take 30 steps
(`MaxSteps`); one that needed more would be refused, as SQLite refuses triggers that nest
too deeply, but none does: the run reaches the same states with any bound from 18 on. Each property holds in all
three kinds of connection or says which it is about. Deadlock checking is off: once the
class is deleted and the IDs are used up nothing is left to do. There is no fairness, as no
liveness property is stated: a statement ends or is refused.

### What is proved

`StorageProofs` proves, for any classes, properties and bounds, with `StorageAssumption`
(PropertyIDs and the bounds are numbers) as the only assumption:

- `TypeCorrect`, `OwnersStay`, `ClassesStay`: the three invariants of the run `storage`,
  from `Invariant`: `Spec => []IInv`. They are inductive together, with the
  fact that there are finitely many rows.
- `DeletesAll`: `Spec => CascadesAreComplete`: what a deletion takes is all that the schema says.
- `StrongObjectsNeedAReason`: `Spec => StrongObjectsStay`: and no other object that is not weak.
  Of weak objects (and of the values of objects that stay, `storage_reverse`) more may go
  than the schema's comments say.
- `UpdateKeepsReferences`: `Spec => ReferencesFollow`. The rows after the change are the image of those before
  under `Moved`, which is injective because of `RoomFor`, the check of the primary key.

The argument is about what holds in the middle of a statement (`Sound`), when an object has gone
whose values are still there. Then the debt is on the list: a row without an object is one
of those a statement has found, or belongs to an object for which "delete all values" is still
to come (`Owned`); what an object that has gone refers to for cascade has gone or is
listed (`Cascaded`); a row has gone only because it was asked for, its object went, or its value is the ID of its
own object (`RowsDropped`); and what is listed has a reason (`HasReasons`). Each step pays a debt
or passes it on (`ObjectGoesKeeps`, `RowGoesKeeps`, `RowsFoundKeeps`), so
`Sound` holds after `n` steps for every `n` (`AfterKeeps`, by a least
counterexample, as for `HashTable`), and when the list is empty the
debts are paid (`Outcome`). The order of the three statements in `trigObjectsAfterDelete`
matters for `Cascaded` only: its first statement must look the references up before the
third deletes them. That a statement ends within `MaxSteps` is not proved; TLC shows it on the instance.
`PlainRowGoesAlone` is why `DeleteValue` needs no exception in `CascadesAreComplete`: a
cascade reference that is deleted takes no object with it.

`WeakObjectsGoLast` and `DeletesReversedReferences` are violated and have no theorem.
`ReferencesFollow` is about the object's values and the references with `ctlv` 10. Weak
references (`ctlv` 3) do not follow: the trigger does not change them, and they keep the old
ID.

Left out: the columns A to P of `[.objects]` with their indexes (the hazards name three
defects in them), `[.multi_key2..4]`, full-text and range tables, the change log (off by
default), the change of a class ID, and values that are no integers. Weak objects are
those whose `ctlo` is 1, which nothing in the Lua core sets; the column may be written.

## The red-black tree: RbTree, SortedSet

`RbTree` is `util/rbtree.c` pointer by pointer. `SortedSet` is the promise: a set of keys
and a scan in key order that goes on while keys are added.

| variable | code |
|---|---|
| `rb` | `RBTree` with the fields of every allocated node and of the sentinel `RBNIL` |
| `op` | the insertion or deletion whose loop is running: `x`, and the node `y` that is about to be freed |
| `walk` | `RBIterator`: kind, `last_visited`, `is_over`, `next_step` |

| action | code |
|---|---|
| `Insert`, `InsertFixup`, `InsertReturns` | `rb_insert` up to the loop of `rb_insert_fixup`, one iteration, the end |
| `Delete`, `DeleteFixup`, `DeleteReturns` | `rb_delete_node` up to the loop of `rb_delete_fixup`, one iteration, the end |
| `Clear` | `rb_clear` |
| `BeginWalk`, `WalkNext` | the four `rb_begin_*_walk` and the four walks |

The iterations are steps so that the loops' own invariant can be stated: `LinksAgree` and
`Balanced` hold inside the loops, with the node the loop is at as the only exception.
Nothing else touches the tree meanwhile. Code that the file has twice, mirrored, is one
definition with a side; `InsertFixupStepUnmirrored` is the mistake that such code invites.
An insertion of a present key calls the combiner and one without memory returns; both
leave the tree as it is. Callers are taken to give a free function, to give up direct and
inverted walks when they insert, and all walks when they delete, because the file
promises nothing for these.

`rb_tree` checks the invariants, what becomes of pointers to nodes (`PointersSurvive`),
the order of all four walks, the refinement of `SortedSet`, which evaluates `rb_find` in
the middle of the loops too, and that every call returns. It holds.

Bounds: ten nodes. A deletion's loop has to climb before it rotates at an upper level, and
that takes ten (an insertion, eight); a red sibling met after a climb takes more than
twelve, and that combination is not reached. Walks, and insertions during walks, are
bounded by five nodes (`MaxWalked`): a walk looks at no colors, and five nodes have
every turn of the way up. The code compares keys and nothing else, so a state is viewed
with its nodes numbered in key order (`View`, parents included). Then there must be a
key left in every gap: a key is 18 bits (`KeyBits`), the one inserted is the middle of its
gap, and `MCNext` asserts that no gap is ever used up. Fairness: weak fairness of the
loops' steps, which run on the caller's thread until the call returns. Deadlock checking
is on.

### What is proved

`RbTreeProofs` and `RbTreeSet` prove, for any integer keys and any nodes, with
`RbTreeAssumption` as the only assumption:

- `Invariant`: `Spec => []IInv`, the inductive invariant (below).
- `TypeCorrect`, `AlwaysLinked`, `AlwaysBalanced`, `SentinelKept`: the four invariants of
  the run `rb_tree`.
- `PointersKept`: what becomes of the pointers that callers keep, `PointersSurvive`.
- `SortedSetRefined`: `Spec => ImplementsSortedSet`, the refinement.
- `WalksInOrder`: the four walks give every node once, in their order, `WalksFollowTheOrder`.

`LinksAgree` and `Balanced` are stated with `Below` and `BlackHeights`, recursions over
the tree that an induction cannot be made on here. `IInv` carries witnesses instead: `L`,
the linked nodes; `sub[n]`, the set of nodes at or below `n`; and `h[n]`, the number of
black nodes on every way down from `n`. `Shape` says that a node's set is made of itself
and of the disjoint sets of its children, whose parent it is; `Sorted` where the keys are;
`Levels` that the heights of the two children agree, with one black node owed below `op.x`
during a deletion; `RedsOnly` where red may meet red. Because the sets get smaller from
parent to child, the number of nodes below is a measure, by which every loop over nodes
ends (`LoopEnds`) and what `Below` and `BlackHeights` compute is `sub` and `h` (`BelowIs`,
`HeightsAre`). An iteration changes the witnesses at two nodes per rotation.

That the loops leave the sentinel alone, although it is the sibling and the nephew of many
nodes, follows from the heights: where a black node is missing below `x`, the
sibling's height is at least 2, so it is a node (`SiblingIs`), and a red node is never
the sentinel. This is why the sentinel cannot be proved intact without the balance.

`RbTreeLemmas` has loops, trees, rotations and heights; `RbTreeFixup` one lemma for
every case of `InsertFixupStep` and `DeleteFixupStep` (`InsertStep`, `DeleteStep`) and for
the ends of both loops; `RbTreeProofs` what happens before and after the loops
(`AttachStarts`, `DetachStarts`, `FreeIs`), where the walks go, and one lemma per action.

`RbTreeSet` rests on what a node's place says of its key. Two nodes part at a node above
them or at one of the two (`WaysPart`), so keys differ and a node outside a subtree is
before or after all of it (`Outside`); this makes `rb_find` right (`FindIs`) and the
successor of the node with two children the next entry of the whole tree (`FreedIsNext`).
`NextInOrder` gives the first of the nodes ahead (`NextInOrderIs`): on the way up, the last
node given stays the last of the subtree it came from (`UpKeepsLast`), until the parent is
the next one (`UpIsNext`). The lemmas hold for every tree, so insertions between two calls
of a walk need no argument of their own.

`Order`, the sequence a walk is to give, is a recursion over the tree. That it is well
defined is proved by putting together the functions for two subtrees (`StrungExists`). A
`Chain` is a sequence whose elements the walk's next function links from its entry to its
exit; chains that meet can be joined (`ChainJoin`). For each kind of walk it is enough to know, node by
node, where a subtree is entered and left (`ThreadedAt`): an induction over the tree
then makes the chain of the root `Order` (`ThreadIsChain`, `ThreadIsOrder`). The rest
unfolds the loops of the walks once (`ExtremeUnfolds`, `FirstInvertedUnfolds`, `InOrderUp`,
`DirectUp`) and compares (`InOrderThreaded`, `DirectThreaded`, `InvertedThreaded`).

Model-checked only: `EveryCallReturns` (liveness).

## Not modelled, and why

See the notes of the components in `PROJECT.json`. In short: the C++ implementation
that the build no longer compiles, third-party code, tools and tests are left out for
good; the remaining Lua components are the plan above. Nearly all of the repository's C
is SQLite and its extensions, and most of what is written for flexilite is Lua and SQL, so the
modules stand for a small share of the C lines. Updating and deleting an object through
`DBObject` raises (`saveUpdate` sets a column `ctlv` that `[.objects]` does not have, `Delete`
asserts a field that is never assigned), so `Storage` has the statements on their own.
`ClassDefs` covers creation only: altering
or dropping classes and properties is not implemented (`newClassFromDef` is undefined,
the other bodies are empty). It leaves out enum, reference and computed properties, mixins,
the control masks, and the index data of objects, for which `ApplyIndexing` has no rows to
write when a class is new. Deferred actions and references
of the context are not modelled because no reachable code queues one: the branches that
would do so test `hasUnresolvedReferences`, which always answers false.
