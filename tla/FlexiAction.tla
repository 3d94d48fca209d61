----------------------------- MODULE FlexiAction -----------------------------
(***************************************************************************)
(* DBContext.flexiAction: the handler behind  select flexi(...) , run by   *)
(* several connections on one database file.  Every connection has its own *)
(* DBContext (Lua state, statement pool, schema cache) and its own SQLite  *)
(* transaction; the file and its write lock are shared.                    *)
(*                                                                         *)
(* On SQLite's side (autoCommit, snapshot, locks) a transaction keeps the  *)
(* snapshot of its first read, and there is one writer at a time.  With    *)
(* the WAL journal, which README.md recommends, others commit over a       *)
(* snapshot, and a transaction whose snapshot is behind the file may not   *)
(* write.  With the rollback journal, which SQLite takes when nobody asks  *)
(* for another (dbschema.sql:1 has WAL commented out), nobody can commit   *)
(* while others read.  SQLite never waits here: the code sets no busy      *)
(* handler.                                                                *)
(***************************************************************************)
EXTENDS FlexiRequests

CONSTANTS
  Conn,       (* connections                                               *)
  NoConn,     (* the write lock is free                                    *)
  NoCall,     (* the connection is not inside flexiAction                  *)
  Hows,       (* how a request is sent: "select" or "trigger" (below)      *)
  UserTxn,    (* those whose application opens transactions of its own     *)
  Journals,   (* the journal modes of the file: "wal", "delete"            *)
  DiskErrors  (* may a COMMIT fail for lack of space or an I/O error       *)

Call == [req : Request, how : Hows]

ASSUME ConnAssumption == NoConn \notin Conn /\ NoCall \notin Call
ASSUME HowsAssumption == Hows \subseteq {"select", "trigger"} /\ UserTxn \subseteq Conn
ASSUME FileAssumption == Journals \subseteq {"wal", "delete"} /\ DiskErrors \in BOOLEAN

VARIABLES
  journal,    (* the journal mode of the file                              *)
  db,         (* committed rows                                            *)
  writer,     (* the connection holding the write lock, or NoConn          *)
  draining,   (* its COMMIT was refused: nobody may begin to read          *)
  autoCommit, (* the connections in no transaction                         *)
  reading,    (* the connections that hold a snapshot                      *)
  stale,      (* those whose snapshot somebody has since committed over    *)
  view,       (* the snapshot with the connection's own uncommitted rows   *)
  pending,    (* those with a pooled statement in the middle of its rows   *)
  user,       (* those whose application opened a transaction, not ended   *)
  pc,         (* where in flexiAction the connection is                    *)
  call,       (* the request being served and how it was sent              *)
  todo,       (* rows the handler has still to write                       *)
  Classes,    (* names in DBContext.Classes                                *)
  outcome     (* what the application was told about each request          *)

sqliteVars == <<journal, db, writer, draining, autoCommit, reading, stale, view>>
luaVars == <<pending, pc, call, todo, Classes, outcome>>
vars == <<sqliteVars, luaVars, user>>

PC == {"idle", "begun", "handler", "done", "failed"}

TypeOK ==
  /\ journal \in Journals
  /\ db \subseteq Row
  /\ writer \in Conn \cup {NoConn}
  /\ draining \in BOOLEAN
  /\ autoCommit \subseteq Conn
  /\ reading \subseteq Conn
  /\ stale \subseteq Conn
  /\ view \in [Conn -> SUBSET Row]
  /\ pending \subseteq Conn
  /\ user \subseteq Conn
  /\ pc \in [Conn -> PC]
  /\ call \in [Conn -> Call \cup {NoCall}]
  /\ todo \in [Conn -> SUBSET Row]
  /\ Classes \in [Conn -> SUBSET ClassName]
  /\ outcome \in [Request -> {"unsent", "running", "ok", "error"}]
  /\ \A c \in Conn : pc[c] # "idle" => call[c] \in Call

Init ==
  /\ journal \in Journals
  /\ db = {}
  /\ writer = NoConn
  /\ draining = FALSE
  /\ autoCommit = Conn
  /\ reading = {}
  /\ stale = {}
  /\ view = [c \in Conn |-> {}]
  /\ pending = {}
  /\ user = {}
  /\ pc = [c \in Conn |-> "idle"]
  /\ call = [c \in Conn |-> NoCall]
  /\ todo = [c \in Conn |-> {}]
  /\ Classes = [c \in Conn |-> {}]
  /\ outcome = [r \in Request |-> "unsent"]

-----------------------------------------------------------------------------
(***************************************************************************)
(* SQLite.                                                                 *)
(***************************************************************************)

(* A first write takes the lock; it fails (SQLITE_BUSY, BUSY_SNAPSHOT) when *)
(* another connection has it or the snapshot is behind the file.           *)
CanWrite(c) == writer \in {c, NoConn} /\ c \notin stale

(* A first read fails while a writer waits for the readers to end.         *)
CanRead(c) == c \in reading \/ ~draining

(* The transaction of c ends with `rows` in the snapshot.  A statement     *)
(* that is still in the middle of its rows keeps the read transaction, and *)
(* with it the snapshot.                                                   *)
EndRead(c, rows, behind) ==
  IF c \in pending
    THEN /\ view' = [view EXCEPT ![c] = rows]
         /\ UNCHANGED reading
         /\ stale' = behind
    ELSE /\ view' = [view EXCEPT ![c] = {}]
         /\ reading' = reading \ {c}
         /\ stale' = behind \ {c}

Unlock(c) ==
  /\ writer' = IF writer = c THEN NoConn ELSE writer
  /\ draining' = (draining /\ writer # c)

SqliteRollback(c) ==
  /\ autoCommit' = autoCommit \cup {c}
  /\ Unlock(c)
  /\ EndRead(c, IF c \in stale THEN view[c] ELSE db, stale)
  /\ UNCHANGED <<journal, db>>

(* COMMIT.  With the rollback journal the file cannot be written while     *)
(* others read it.                                                         *)
MustWait(c) == journal = "delete" /\ writer = c /\ reading \ {c} # {}

CommitDone(c) ==
  /\ ~MustWait(c)
  /\ autoCommit' = autoCommit \cup {c}
  /\ Unlock(c)
  /\ IF writer = c
       THEN db' = view[c] /\ EndRead(c, view[c], stale \cup (reading \ {c}))
       ELSE UNCHANGED db /\ EndRead(c, view[c], stale)
  /\ UNCHANGED journal

(* SQLITE_BUSY: the transaction stays open, and so does the way for others *)
(* to end theirs, but not to begin a new one.                              *)
CommitBusy(c) ==
  /\ MustWait(c)
  /\ draining' = TRUE
  /\ UNCHANGED <<journal, db, writer, autoCommit, reading, stale, view>>

(* SQLITE_FULL, SQLITE_IOERR: SQLite has rolled the transaction back.      *)
CommitFails(c) == DiskErrors /\ writer = c /\ SqliteRollback(c)

SqliteCommit(c) == CommitDone(c) \/ CommitBusy(c) \/ CommitFails(c)

(* A write of `rows` to the connection's view; BUSY is an error in Lua.    *)
(* `row` says that the statement before it was a loadOneRow that returned  *)
(* a row, and so was left unfinished.                                      *)
Write(c, rows) ==
  /\ CanWrite(c)
  /\ writer' = c
  /\ view' = [view EXCEPT ![c] = @ \cup rows]
  /\ UNCHANGED <<journal, db, draining, autoCommit, reading, stale>>

-----------------------------------------------------------------------------
(***************************************************************************)
(* flexiAction, step by step: what happens between two SQL statements can  *)
(* be interleaved with the statements of the other connections.            *)
(***************************************************************************)

Req(c) == call[c].req

(* An action flexiFuncs does not know raises before the transaction.       *)
RejectUnknown(c, r) ==
  /\ pc[c] = "idle" /\ outcome[r] = "unsent" /\ r.op = "unknown"
  /\ outcome' = [outcome EXCEPT ![r] = "error"]
  /\ UNCHANGED <<sqliteVars, user, pending, pc, call, todo, Classes>>

(***************************************************************************)
(* Entry: look the action up, `begin` (its result is not looked at: inside *)
(* a transaction it does nothing).  A request sent from an INSTEAD OF      *)
(* trigger of the view flexi_class runs inside a writing statement, which  *)
(* has to get the write lock before the trigger runs.                      *)
(***************************************************************************)
FlexiAction(c, r, how) ==
  /\ pc[c] = "idle" /\ outcome[r] = "unsent" /\ r.op # "unknown"
  /\ IF how = "trigger"
       THEN /\ r.op \in {"create", "stub"}
            /\ CanRead(c) /\ CanWrite(c)
            /\ writer' = c
            /\ reading' = reading \cup {c}
            /\ view' = [view EXCEPT ![c] = IF c \in reading THEN @ ELSE db]
       ELSE UNCHANGED <<writer, reading, view>>
  /\ autoCommit' = autoCommit \ {c}
  /\ pc' = [pc EXCEPT ![c] = "begun"]
  /\ call' = [call EXCEPT ![c] = [req |-> r, how |-> how]]
  /\ outcome' = [outcome EXCEPT ![r] = "running"]
  /\ UNCHANGED <<journal, db, draining, stale, user, pending, todo, Classes>>

(***************************************************************************)
(* Read user_version, the first read of the transaction unless a snapshot  *)
(* is still held.  SchemaVersion is never assigned and uv is a fresh       *)
(* table, so the comparison always differs and the schema cache is always  *)
(* flushed, the statement pool with it.                                    *)
(***************************************************************************)
(* Planted bug: the classes stay, as if the versions had compared equal.   *)
FlushStatementsOnly(c) ==
  /\ UNCHANGED Classes
  /\ pending' = pending \ {c}

FlushSchemaCache(c) ==
  /\ Classes' = [Classes EXCEPT ![c] = {}]
  /\ pending' = pending \ {c}

CheckSchemaVersion(c) ==
  /\ pc[c] = "begun" /\ CanRead(c)
  /\ reading' = reading \cup {c}
  /\ view' = [view EXCEPT ![c] = IF c \in reading THEN @ ELSE db]
  /\ FlushSchemaCache(c)
  /\ todo' = [todo EXCEPT ![c] = Effect(Req(c))]
  /\ pc' = [pc EXCEPT ![c] = "handler"]
  /\ UNCHANGED <<journal, db, writer, draining, autoCommit, stale, user, call, outcome>>

(* The first read is refused, which is an error.                           *)
CheckRefused(c) ==
  /\ pc[c] = "begun" /\ ~CanRead(c)
  /\ pc' = [pc EXCEPT ![c] = "failed"]
  /\ UNCHANGED <<sqliteVars, user, pending, call, todo, Classes, outcome>>

(***************************************************************************)
(* The handlers.  create: all class rows, then all definitions.  import:   *)
(* object by object, the row and then its values.                          *)
(***************************************************************************)
Ready(c, f) ==
  CASE f.what = "class"  -> TRUE
    [] f.what = "data"   -> \A g \in todo[c] : g.what # "class"
    [] f.what = "object" -> \A g \in todo[c] : g.what = "value" =>
                              [g EXCEPT !.what = "object"] \in todo[c]
    [] f.what = "value"  -> [f EXCEPT !.what = "object"] \notin todo[c]

(* idxClasses_byNameID: a name is in [.classes] once.                      *)
NameIsFree(rows, f) == f.what = "class" => f.class \notin ClassesIn(rows)

Save(c, f) ==
  /\ pc[c] = "handler" /\ f \in todo[c] /\ Ready(c, f)
  /\ NameIsFree(view[c], f)
  /\ Write(c, {f})
  /\ todo' = [todo EXCEPT ![c] = @ \ {f}]
  /\ UNCHANGED <<user, pc, call, outcome>>

(* createMultiClasses, first loop: the name is looked up, then the row is  *)
(* inserted.  getNameID leaves a row unread.                               *)
InsertNewClass(c, f) ==
  /\ f.what = "class" /\ f.class \notin ClassesIn(view[c])
  /\ Save(c, f)
  /\ Classes' = [Classes EXCEPT ![c] = @ \cup {f.class}]
  /\ pending' = pending \cup {c}

(* createMultiClasses, second loop: the class is in the cache.             *)
SaveClassDef(c, f) ==
  /\ f.what = "data"
  /\ Save(c, f)
  /\ UNCHANGED <<Classes, pending>>

(* getClassDef takes the class from the cache, or loads it and leaves the  *)
(* row of [.classes] unread.                                               *)
GetClassDef(c, n) ==
  /\ n \in Classes[c] \cup ClassesIn(view[c])
  /\ Classes' = [Classes EXCEPT ![c] = @ \cup {n}]
  /\ pending' = IF n \in Classes[c] THEN pending ELSE pending \cup {c}

(* A new object: its class is looked up, its row inserted.                 *)
SaveObject(c, f) ==
  /\ f.what = "object"
  /\ GetClassDef(c, f.class)
  /\ Save(c, f)

(* Its values follow it.                                                   *)
SaveValues(c, f) ==
  /\ f.what = "value"
  /\ Save(c, f)
  /\ UNCHANGED <<Classes, pending>>

(* A row of [.classes] may have been read, if there is one.                *)
MayBePending(c) ==
  IF ClassesIn(view[c]) = {} THEN {pending} ELSE {pending, pending \cup {c}}

(* Planted bug: a write that is refused is tried again, not reported.      *)
HandlerRetries(c) ==
  /\ pc[c] = "handler" /\ CanWrite(c)
  /\ pc' = [pc EXCEPT ![c] = "failed"]
  /\ pending' \in MayBePending(c)
  /\ UNCHANGED <<sqliteVars, user, call, todo, Classes, outcome>>

(* Planted bug: an error on the way (DBObject:saveToDB catches and raises  *)
(* it again) is swallowed.                                                 *)
HandlerSwallows(c) ==
  /\ pc[c] = "handler"
  /\ pc' = [pc EXCEPT ![c] = "done"]
  /\ pending' \in MayBePending(c)
  /\ UNCHANGED <<sqliteVars, user, call, todo, Classes, outcome>>

(* An error in the handler: a class that exists or does not, an invalid    *)
(* definition or value, a write that is refused.                           *)
HandlerFails(c) ==
  /\ pc[c] = "handler"
  /\ pc' = [pc EXCEPT ![c] = "failed"]
  /\ pending' \in MayBePending(c)
  /\ UNCHANGED <<sqliteVars, user, call, todo, Classes, outcome>>

(* The handler has returned; a schema change writes user_version back.     *)
HandlerReturns(c) ==
  /\ pc[c] = "handler" /\ todo[c] = {}
  /\ IF SchemaChange(Req(c)) THEN Write(c, {}) ELSE UNCHANGED sqliteVars
  /\ pc' = [pc EXCEPT ![c] = "done"]
  /\ UNCHANGED <<user, pending, call, todo, Classes, outcome>>

(* Planted bug: the connection is not made ready for the next call.        *)
ReturnHalfReset(c, result) ==
  /\ outcome' = [outcome EXCEPT ![Req(c)] = result]
  /\ call' = [call EXCEPT ![c] = NoCall]
  /\ todo' = [todo EXCEPT ![c] = {}]
  /\ UNCHANGED <<user, pending, pc, Classes>>

Return(c, result) ==
  /\ outcome' = [outcome EXCEPT ![Req(c)] = result]
  /\ pc' = [pc EXCEPT ![c] = "idle"]
  /\ call' = [call EXCEPT ![c] = NoCall]
  /\ todo' = [todo EXCEPT ![c] = {}]
  /\ UNCHANGED <<user, pending, Classes>>

(* `commit`, its result not looked at.  Inside a writing statement SQLite  *)
(* refuses it and the transaction stays open; elsewhere it may be refused  *)
(* or fail as well.                                                        *)
Commit(c) ==
  /\ pc[c] = "done"
  /\ IF call[c].how = "trigger" THEN UNCHANGED sqliteVars ELSE SqliteCommit(c)
  /\ Return(c, "ok")

(* Planted bugs: the error path commits, or leaves the transaction open.   *)
CommitOnError(c) ==
  /\ pc[c] = "failed"
  /\ SqliteCommit(c)
  /\ Return(c, "error")

ErrorWithoutRollback(c) ==
  /\ pc[c] = "failed"
  /\ UNCHANGED sqliteVars
  /\ Return(c, "error")

(* `rollback` and result_error.                                            *)
Rollback(c) ==
  /\ pc[c] = "failed"
  /\ SqliteRollback(c)
  /\ Return(c, "error")

-----------------------------------------------------------------------------
(***************************************************************************)
(* The application's own transactions (external).  Ending one that is not  *)
(* open any more is an error that changes nothing; the application sees a  *)
(* COMMIT that is refused.                                                 *)
(***************************************************************************)
UserBegin(c) ==
  /\ c \in UserTxn \cap autoCommit /\ pc[c] = "idle"
  /\ autoCommit' = autoCommit \ {c}
  /\ user' = user \cup {c}
  /\ UNCHANGED <<journal, db, writer, draining, reading, stale, view, luaVars>>

UserEnd(c) ==
  /\ pc[c] = "idle" /\ c \in user
  /\ IF c \in autoCommit THEN UNCHANGED sqliteVars ELSE SqliteCommit(c) \/ SqliteRollback(c)
  /\ user' = IF c \in autoCommit' THEN user \ {c} ELSE user
  /\ UNCHANGED luaVars

-----------------------------------------------------------------------------
SaveRow(c, f) ==
  \/ InsertNewClass(c, f)
  \/ SaveClassDef(c, f)
  \/ SaveObject(c, f)
  \/ SaveValues(c, f)

(* The steps of a call in progress; the rest is up to the application.     *)
Step(c) ==
  \/ CheckSchemaVersion(c)
  \/ CheckRefused(c)
  \/ \E f \in todo[c] : SaveRow(c, f)
  \/ HandlerFails(c)
  \/ HandlerReturns(c)
  \/ Commit(c)
  \/ Rollback(c)

Next ==
  \E c \in Conn :
    \/ \E r \in Request : RejectUnknown(c, r)
    \/ \E r \in Request, how \in Hows : FlexiAction(c, r, how)
    \/ Step(c)
    \/ UserBegin(c)
    \/ UserEnd(c)

(* A call runs on the thread that made it and waits for nobody: SQLite     *)
(* answers BUSY at once.                                                   *)
Fairness == \A c \in Conn : WF_vars(Step(c))

Spec == Init /\ [][Next]_vars /\ Fairness

-----------------------------------------------------------------------------
(***************************************************************************)
(* Properties.                                                             *)
(***************************************************************************)

(* Whatever the connections do, the file goes through the states FlexiStore *)
(* allows: whole requests only (flexiAction's begin, commit and rollback), *)
(* class names used once (the check in createMultiClasses) and objects of  *)
(* existing classes only (the schema cache saveObject relies on).          *)
Store == INSTANCE FlexiStore WITH store <- db
ImplementsFlexiStore == Store!Spec

(* A request reported as done is in the file: "CREATE SCHEMA" answers that *)
(* the classes "have been created".                                        *)
AckedIsDurable == \A r \in Request : outcome[r] = "ok" => Effect(r) \subseteq db

(* A request reported as failed has left nothing in the file, however far  *)
(* its handler had come when it failed.                                    *)
FailedLeavesNothing ==
  \A r \in Request : outcome[r] = "error" => Effect(r) \cap db = {}

(* A transaction that stays open when a call has returned, and keeps the   *)
(* others from writing, is the application's, or waits to be committed: it *)
(* has the write lock, and nothing in it is of a request that failed       *)
(* (begin, commit and rollback are paired, but for a refused commit).      *)
LeftOpenIsAcknowledged ==
  \A c \in Conn \ user : pc[c] = "idle" /\ c \notin autoCommit =>
    /\ writer = c
    /\ \A f \in view[c] : outcome[f.req] = "ok"

(* A class the handler finds in DBContext.Classes exists in its snapshot,  *)
(* although a rollback leaves the classes of the failed request behind.    *)
CacheIsCoherent ==
  \A c \in Conn : pc[c] = "handler" => Classes[c] \subseteq ClassesIn(view[c])

(* Every call comes to its end, whatever the other connections do.         *)
EveryCallReturns == \A c \in Conn : pc[c] = "begun" ~> pc[c] = "idle"

(* While the application is in the transaction it opened, it is open: what *)
(* it did since is for it to commit or to roll back.                       *)
UserTransactionStaysOpen == \A c \in Conn : c \in user => c \notin autoCommit

(* The check for a schema changed since the last call looks at the schema  *)
(* as it is now, not at the snapshot of an earlier call.                   *)
SchemaCheckIsCurrent ==
  [][\A c \in Conn : pc[c] = "begun" /\ pc'[c] = "handler" => db \subseteq view'[c]]_vars
=============================================================================
