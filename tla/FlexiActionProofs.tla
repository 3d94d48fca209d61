-------------------------- MODULE FlexiActionProofs --------------------------
(* Theorems about FlexiAction, for any number of connections, any set of   *)
(* requests and any set of class names.                                    *)
EXTENDS FlexiAction, TLAPS

USE DEF Call, PC

-----------------------------------------------------------------------------
(* Rows.                                                                   *)

(* A request writes rows of its own only, of the four kinds.               *)
LEMMA EffectRows ==
  ASSUME NEW r \in Request
  PROVE  /\ Effect(r) \subseteq Row
         /\ \A f \in Effect(r) : f.req = r
BY RequestAssumption DEF Effect, Row, Kinds, Op

(* Adding a whole request to whole requests leaves them whole.             *)
LEMMA WholeUnion ==
  ASSUME NEW S, S \subseteq Row, Whole(S), NEW r \in Request
  PROVE  Whole(S \cup Effect(r))
<1> SUFFICES ASSUME NEW f \in S \cup Effect(r)
             PROVE  Effect(f.req) \subseteq S \cup Effect(r)
  BY DEF Whole
<1>1. CASE f \in S
  BY <1>1 DEF Whole
<1>2. CASE f \in Effect(r)
  BY <1>2, EffectRows
<1> QED  BY <1>1, <1>2

-----------------------------------------------------------------------------
(* Type correctness.                                                       *)

LEMMA InitTypeOK == Init => TypeOK
BY DEF Init, TypeOK

(* SQLite's part of the state keeps its type whichever way a transaction   *)
(* goes on or ends.                                                        *)
SqliteTypeOK ==
  /\ journal \in Journals
  /\ db \subseteq Row
  /\ writer \in Conn \cup {NoConn}
  /\ draining \in BOOLEAN
  /\ autoCommit \subseteq Conn
  /\ reading \subseteq Conn
  /\ stale \subseteq Conn
  /\ view \in [Conn -> SUBSET Row]

LEMMA SqliteType ==
  ASSUME TypeOK, NEW c \in Conn,
         UNCHANGED sqliteVars \/ SqliteCommit(c) \/ SqliteRollback(c) \/
           \E rows \in SUBSET Row : Write(c, rows)
  PROVE  SqliteTypeOK'
<1>1. CASE UNCHANGED sqliteVars
  BY <1>1 DEF TypeOK, SqliteTypeOK, sqliteVars
<1>2. CASE CommitDone(c)
  BY <1>2 DEF TypeOK, SqliteTypeOK, CommitDone, Unlock, EndRead
<1>3. CASE SqliteRollback(c)
  BY <1>3 DEF TypeOK, SqliteTypeOK, SqliteRollback, Unlock, EndRead
<1>4. CASE \E rows \in SUBSET Row : Write(c, rows)
  BY <1>4 DEF TypeOK, SqliteTypeOK, Write
<1>5. CASE CommitBusy(c)
  BY <1>5 DEF TypeOK, SqliteTypeOK, CommitBusy
<1> QED  BY <1>1, <1>2, <1>3, <1>4, <1>5 DEF SqliteCommit, CommitFails

(* A step of flexiAction keeps the types.                                  *)
LEMMA NextTypeOK == TypeOK /\ [Next]_vars => TypeOK'
<1> SUFFICES ASSUME TypeOK, [Next]_vars PROVE TypeOK'
  OBVIOUS
<1>1. CASE UNCHANGED vars
  BY <1>1 DEF TypeOK, vars, sqliteVars, luaVars
<1>2. ASSUME NEW c \in Conn, NEW r \in Request, RejectUnknown(c, r)
      PROVE  TypeOK'
  BY <1>2 DEF TypeOK, RejectUnknown, sqliteVars
<1>3. ASSUME NEW c \in Conn, NEW r \in Request, NEW how \in Hows, FlexiAction(c, r, how)
      PROVE  TypeOK'
  BY <1>3 DEF TypeOK, FlexiAction
<1>4. ASSUME NEW c \in Conn, CheckSchemaVersion(c)
      PROVE  TypeOK'
  <2>1. Req(c) \in Request
    BY <1>4 DEF TypeOK, CheckSchemaVersion, Req
  <2>2. Effect(Req(c)) \subseteq Row
    BY <2>1, EffectRows
  <2> QED  BY <1>4, <2>2 DEF TypeOK, CheckSchemaVersion, FlushSchemaCache
<1>5. ASSUME NEW c \in Conn, NEW f \in todo[c], SaveRow(c, f)
      PROVE  TypeOK'
  <2>1. Save(c, f)
    BY <1>5 DEF SaveRow, InsertNewClass, SaveClassDef, SaveObject, SaveValues
  <2>2. f \in Row /\ f.class \in ClassName
    BY DEF TypeOK, Row
  <2>3. SqliteTypeOK'
    BY <2>1, <2>2, SqliteType DEF Save
  <2>4. Classes' \in [Conn -> SUBSET ClassName] /\ pending' \subseteq Conn
    BY <1>5, <2>2 DEF TypeOK, SaveRow, InsertNewClass, SaveClassDef, SaveObject, GetClassDef, SaveValues
  <2> QED  BY <2>1, <2>3, <2>4 DEF TypeOK, SqliteTypeOK, Save
<1>6. ASSUME NEW c \in Conn, HandlerFails(c) \/ CheckRefused(c)
      PROVE  TypeOK'
  BY <1>6 DEF TypeOK, HandlerFails, CheckRefused, MayBePending, sqliteVars
<1>7. ASSUME NEW c \in Conn, HandlerReturns(c)
      PROVE  TypeOK'
  <2>1. SqliteTypeOK'
    BY <1>7, SqliteType DEF HandlerReturns
  <2> QED  BY <1>7, <2>1 DEF TypeOK, SqliteTypeOK, HandlerReturns
<1>8. ASSUME NEW c \in Conn, Commit(c) \/ Rollback(c)
      PROVE  TypeOK'
  <2>1. SqliteTypeOK'
    BY <1>8, SqliteType DEF Commit, Rollback
  <2>2. PICK res \in {"ok", "error"} : Return(c, res)
    BY <1>8 DEF Commit, Rollback
  <2> QED  BY <2>1, <2>2 DEF TypeOK, SqliteTypeOK, Return
<1>9. ASSUME NEW c \in Conn, UserBegin(c)
      PROVE  TypeOK'
  BY <1>9 DEF TypeOK, UserBegin, luaVars
<1>10. ASSUME NEW c \in Conn, UserEnd(c)
       PROVE  TypeOK'
  <2>1. SqliteTypeOK'
    BY <1>10, SqliteType DEF UserEnd
  <2> QED  BY <1>10, <2>1 DEF TypeOK, SqliteTypeOK, UserEnd, luaVars
<1> QED
  BY <1>1, <1>2, <1>3, <1>4, <1>5, <1>6, <1>7, <1>8, <1>9, <1>10 DEF Next, Step

(* Every variable of flexiAction keeps its type.                           *)
THEOREM TypeCorrect == Spec => []TypeOK
BY InitTypeOK, NextTypeOK, PTL DEF Spec

-----------------------------------------------------------------------------
(***************************************************************************)
(* The inductive invariant.                                                *)
(***************************************************************************)

(* Snapshots: the writer holds a snapshot of the file as it is, with its   *)
(* own rows on top; a reader that is not stale sees the file as it is.     *)
Snapshots ==
  /\ stale \subseteq reading
  /\ writer \in Conn => writer \in reading /\ writer \notin stale /\ writer \notin autoCommit
  /\ writer \in Conn => db \subseteq view[writer]
  /\ \A c \in reading : c \notin stale /\ writer # c => view[c] = db

(* Where a call has a transaction and a snapshot.                          *)
InCall ==
  \A c \in Conn :
    /\ pc[c] # "idle" => c \notin autoCommit
    /\ pc[c] \in {"handler", "done"} => c \in reading

(* What the handler has still to write, it has not written; the rest is in *)
(* its view.  Nothing is written without the write lock.                   *)
Progress ==
  \A c \in Conn :
    /\ pc[c] \in {"idle", "begun", "done"} => todo[c] = {}
    /\ pc[c] # "idle" => todo[c] \subseteq Effect(Req(c))
    /\ pc[c] \in {"handler", "done"} =>
         /\ Effect(Req(c)) \subseteq view[c] \cup todo[c]
         /\ writer # c => todo[c] = Effect(Req(c))

(* The rows of a request are rows that request writes.                     *)
RowsOfRequests(rows) == \A f \in rows : f.req \in Request /\ f \in Effect(f.req)

Sound(rows) == NamesUnique(rows) /\ ObjectsHaveClass(rows) /\ RowsOfRequests(rows)

(* The file is well formed, and so is what the writer is about to commit,  *)
(* whole as soon as the handler has done the rest.                         *)
FileIsSound ==
  /\ Sound(db) /\ Whole(db)
  /\ writer \in Conn => Sound(view[writer])
  /\ writer \in Conn /\ pc[writer] # "failed" => Whole(view[writer] \cup todo[writer])

(* One call serves a request; the rows in the file are of requests that    *)
(* were reported as done, and the writer adds those of its own call.       *)
Outcomes ==
  /\ \A c \in Conn : pc[c] # "idle" => outcome[Req(c)] = "running"
  /\ \A c, d \in Conn : pc[c] # "idle" /\ pc[d] # "idle" /\ Req(c) = Req(d) => c = d
  /\ \A f \in db : outcome[f.req] = "ok"
  /\ writer \in Conn => \A f \in view[writer] :
       outcome[f.req] = "ok" \/ (pc[writer] # "idle" /\ f.req = Req(writer))

IInv ==
  /\ TypeOK
  /\ Snapshots
  /\ InCall
  /\ Progress
  /\ CacheIsCoherent
  /\ FileIsSound
  /\ Outcomes

LEMMA InitIInv == Init => IInv
<1> SUFFICES ASSUME Init PROVE IInv
  OBVIOUS
<1>1. TypeOK
  BY InitTypeOK
<1>2. db = {} /\ writer = NoConn /\ autoCommit = Conn /\ reading = {} /\ stale = {}
  BY DEF Init
<1>3. \A c \in Conn : pc[c] = "idle" /\ todo[c] = {}
  BY DEF Init
<1>4. Snapshots /\ InCall /\ Progress /\ CacheIsCoherent /\ Outcomes
  BY <1>2, <1>3, ConnAssumption DEF Snapshots, InCall, Progress, CacheIsCoherent, Outcomes
<1>5. FileIsSound
  BY <1>2, ConnAssumption
     DEF FileIsSound, Sound, NamesUnique, ObjectsHaveClass, RowsOfRequests, Whole
<1> QED  BY <1>1, <1>4, <1>5 DEF IInv

(* Rows that stay sound when one more is added.                            *)
LEMMA ClassesGrow ==
  ASSUME NEW S, NEW T
  PROVE  ClassesIn(S \cup T) = ClassesIn(S) \cup ClassesIn(T)
BY DEF ClassesIn

LEMMA ClassOfRow ==
  ASSUME NEW S, NEW f \in S, f.what = "class"
  PROVE  f.class \in ClassesIn(S)
BY DEF ClassesIn

LEMMA SoundAdd ==
  ASSUME NEW S, Sound(S), NEW r \in Request, NEW f \in Effect(r),
         f.what = "class" => f.class \notin ClassesIn(S),
         f.what \in {"object", "value"} => f.class \in ClassesIn(S)
  PROVE  Sound(S \cup {f})
<1>1. NamesUnique(S \cup {f})
  BY ClassOfRow DEF Sound, NamesUnique
<1>2. ObjectsHaveClass(S \cup {f})
  BY ClassesGrow DEF Sound, ObjectsHaveClass
<1>3. RowsOfRequests(S \cup {f})
  BY EffectRows DEF Sound, RowsOfRequests
<1> QED  BY <1>1, <1>2, <1>3 DEF Sound

(* A value is written after the row of its object, which an import writes  *)
(* for the same class.                                                     *)
LEMMA ValueHasObject ==
  ASSUME NEW r \in Request, NEW f \in Effect(r), f.what = "value"
  PROVE  /\ [f EXCEPT !.what = "object"] \in Effect(r)
         /\ [f EXCEPT !.what = "object"].what = "object"
         /\ [f EXCEPT !.what = "object"].class = f.class
<1>1. PICK k \in Kinds(r), n \in r.classes : f = [req |-> r, what |-> k, class |-> n]
  BY DEF Effect
<1>2. k = "value" /\ "object" \in Kinds(r)
  BY <1>1 DEF Kinds
<1>3. [f EXCEPT !.what = "object"] = [req |-> r, what |-> "object", class |-> n]
  BY <1>1
<1> QED  BY <1>1, <1>2, <1>3 DEF Effect

(* Saving a row.                                                           *)
LEMMA SaveRowIInv ==
  ASSUME IInv, TypeOK', NEW c \in Conn, NEW f \in todo[c], SaveRow(c, f)
  PROVE  IInv'
<1> USE DEF IInv
<1>1. Save(c, f)
  BY DEF SaveRow, InsertNewClass, SaveClassDef, SaveObject, SaveValues
<1>2. /\ pc[c] = "handler" /\ pc' = pc /\ call' = call /\ outcome' = outcome
      /\ db' = db /\ writer' = c /\ reading' = reading /\ stale' = stale
      /\ autoCommit' = autoCommit
      /\ view' = [view EXCEPT ![c] = @ \cup {f}]
      /\ todo' = [todo EXCEPT ![c] = @ \ {f}]
      /\ writer \in {c, NoConn} /\ c \notin stale
  BY <1>1 DEF Save, Write, CanWrite
<1>3. c \in reading /\ c \notin autoCommit
  BY <1>2 DEF InCall
<1>4. view'[c] = view[c] \cup {f} /\ todo'[c] = todo[c] \ {f}
  BY <1>2 DEF TypeOK
<1>5. \A d \in Conn \ {c} : view'[d] = view[d] /\ todo'[d] = todo[d] /\ writer # d
  BY <1>2, ConnAssumption DEF TypeOK
<1>6. Req(c) \in Request /\ f \in Effect(Req(c)) /\ f.req = Req(c)
  BY <1>2, EffectRows DEF TypeOK, Progress, Req
<1>7. db \subseteq view[c] /\ (writer # c => view[c] = db)
  BY <1>2, <1>3 DEF Snapshots
<1>8. Sound(view[c]) /\ Whole(view[c] \cup todo[c])
  <2>1. CASE writer = c
    BY <2>1, <1>2 DEF FileIsSound
  <2>2. CASE writer # c
    <3>1. view[c] = db /\ todo[c] = Effect(Req(c))
      BY <2>2, <1>2, <1>7 DEF Progress
    <3>2. view[c] \subseteq Row
      BY DEF TypeOK
    <3> QED  BY <3>1, <3>2, <1>6, WholeUnion DEF FileIsSound
  <2> QED  BY <2>1, <2>2
<1>9. Snapshots'
  BY <1>2, <1>3, <1>4, <1>5, <1>7 DEF Snapshots, TypeOK
<1>10. InCall'
  BY <1>2 DEF InCall
<1>11. Progress'
  <2>1. \A d \in Conn : Req(d)' = Req(d)
    BY <1>2 DEF Req
  <2> QED  BY <2>1, <1>2, <1>4, <1>5 DEF Progress
<1>12. Classes'[c] \subseteq ClassesIn(view[c] \cup {f}) /\ \A d \in Conn \ {c} : Classes'[d] = Classes[d]
  <2>1. Classes[c] \subseteq ClassesIn(view[c])
    BY <1>2 DEF CacheIsCoherent
  <2>2. ClassesIn(view[c] \cup {f}) = ClassesIn(view[c]) \cup ClassesIn({f})
    BY ClassesGrow
  <2>3. f.what = "class" => f.class \in ClassesIn({f})
    BY ClassOfRow
  <2>4. \/ Classes' = Classes
        \/ /\ Classes' = [Classes EXCEPT ![c] = @ \cup {f.class}]
           /\ f.what = "class" \/ f.class \in Classes[c] \cup ClassesIn(view[c])
    BY DEF SaveRow, InsertNewClass, SaveClassDef, SaveObject, GetClassDef, SaveValues
  <2>5. f.what = "class" \/ f.class \in Classes[c] \cup ClassesIn(view[c])
          => Classes[c] \cup {f.class} \subseteq ClassesIn(view[c] \cup {f})
    BY <2>1, <2>2, <2>3
  <2>6. Classes \in [Conn -> SUBSET ClassName]
    BY DEF TypeOK
  <2> QED  BY <2>1, <2>2, <2>4, <2>5, <2>6
<1>13. CacheIsCoherent'
  BY <1>2, <1>4, <1>5, <1>12 DEF CacheIsCoherent
<1>14. Sound(view[c] \cup {f})
  <2>1. f.what = "class" => f.class \notin ClassesIn(view[c])
    BY DEF SaveRow, InsertNewClass, SaveClassDef, SaveObject, SaveValues
  <2>2. f.what = "object" => f.class \in ClassesIn(view[c])
    BY <1>2 DEF SaveRow, InsertNewClass, SaveClassDef, SaveObject, GetClassDef, SaveValues,
       CacheIsCoherent
  <2>3. f.what = "value" => f.class \in ClassesIn(view[c])
    <3> SUFFICES ASSUME f.what = "value" PROVE f.class \in ClassesIn(view[c])
      OBVIOUS
    <3> DEFINE o == [f EXCEPT !.what = "object"]
    <3>1. o \in Effect(Req(c)) /\ o.what = "object" /\ o.class = f.class
      BY <1>6, ValueHasObject
    <3>2. o \notin todo[c]
      BY <1>1 DEF Save, Ready
    <3>3. o \in view[c]
      BY <3>1, <3>2, <1>2 DEF Progress
    <3> QED  BY <3>1, <3>3, <1>8 DEF Sound, ObjectsHaveClass
  <2> QED  BY <2>1, <2>2, <2>3, <1>6, <1>8, SoundAdd
<1>15. FileIsSound'
  <2>1. view'[c] \cup todo'[c] = view[c] \cup todo[c]
    BY <1>4
  <2> QED  BY <2>1, <1>2, <1>4, <1>8, <1>14 DEF FileIsSound
<1>16. Outcomes'
  <2>1. \A d \in Conn : Req(d)' = Req(d)
    BY <1>2 DEF Req
  <2>2. \A g \in view'[c] : outcome[g.req] = "ok" \/ g.req = Req(c)
    BY <1>2, <1>4, <1>6, <1>7 DEF Outcomes
  <2> QED  BY <2>1, <2>2, <1>2 DEF Outcomes
<1> QED  BY <1>9, <1>10, <1>11, <1>13, <1>15, <1>16

(* The other steps inside a call leave the file and the views alone, or    *)
(* take the snapshot.                                                      *)
LEMMA CheckIInv ==
  ASSUME IInv, TypeOK', NEW c \in Conn, CheckSchemaVersion(c)
  PROVE  IInv'
<1> USE DEF IInv
<1>1. /\ pc[c] = "begun" /\ pc' = [pc EXCEPT ![c] = "handler"]
      /\ reading' = reading \cup {c}
      /\ view' = [view EXCEPT ![c] = IF c \in reading THEN @ ELSE db]
      /\ Classes' = [Classes EXCEPT ![c] = {}]
      /\ todo' = [todo EXCEPT ![c] = Effect(Req(c))]
      /\ UNCHANGED <<db, writer, autoCommit, stale, call, outcome>>
  BY DEF CheckSchemaVersion, FlushSchemaCache
<1>2. \A d \in Conn : Req(d)' = Req(d)
  BY <1>1 DEF Req
<1>3. view'[c] = IF c \in reading THEN view[c] ELSE db
  BY <1>1 DEF TypeOK
<1>4. \A d \in Conn \ {c} : /\ view'[d] = view[d] /\ todo'[d] = todo[d]
                            /\ Classes'[d] = Classes[d] /\ pc'[d] = pc[d]
  BY <1>1 DEF TypeOK
<1>5. /\ todo[c] = {} /\ todo'[c] = Effect(Req(c)) /\ Classes'[c] = {} /\ pc'[c] = "handler"
  BY <1>1 DEF TypeOK, Progress
<1>6. writer = c => view'[c] = view[c]
  BY <1>3 DEF Snapshots
<1>7. Snapshots'
  BY <1>1, <1>3, <1>4 DEF Snapshots, TypeOK
<1>8. InCall'
  BY <1>1, <1>4 DEF InCall
<1>9. Progress'
  BY <1>1, <1>2, <1>4, <1>5 DEF Progress
<1>10. CacheIsCoherent'
  BY <1>4, <1>5 DEF CacheIsCoherent
<1>11. FileIsSound'
  <2>1. CASE writer = c
    <3>1. Whole(view[c]) /\ view[c] \subseteq Row /\ Req(c) \in Request
      <4>1. Whole(view[c] \cup {})
        BY <2>1, <1>1, <1>5 DEF FileIsSound
      <4>2. view[c] \cup {} = view[c]
        OBVIOUS
      <4> QED  BY <4>1, <4>2, <1>1 DEF TypeOK, Req
    <3>2. Whole(view'[c] \cup todo'[c])
      BY <3>1, <2>1, <1>5, <1>6, WholeUnion
    <3> QED  BY <2>1, <3>2, <1>1, <1>6 DEF FileIsSound
  <2>2. CASE writer # c
    BY <2>2, <1>1, <1>4 DEF FileIsSound
  <2> QED  BY <2>1, <2>2
<1>12. Outcomes'
  BY <1>1, <1>2, <1>4, <1>5, <1>6 DEF Outcomes
<1> QED  BY <1>7, <1>8, <1>9, <1>10, <1>11, <1>12

LEMMA FailsIInv ==
  ASSUME IInv, TypeOK', NEW c \in Conn, HandlerFails(c) \/ CheckRefused(c)
  PROVE  IInv'
<1> USE DEF IInv
<1>1. /\ pc[c] \in {"handler", "begun"} /\ pc' = [pc EXCEPT ![c] = "failed"]
      /\ UNCHANGED <<sqliteVars, call, todo, Classes, outcome>>
  BY DEF HandlerFails, CheckRefused
<1>2. \A d \in Conn : Req(d)' = Req(d)
  BY <1>1 DEF Req
<1>3. pc'[c] = "failed" /\ \A d \in Conn \ {c} : pc'[d] = pc[d]
  BY <1>1 DEF TypeOK
<1>4. Snapshots'
  BY <1>1 DEF Snapshots, sqliteVars
<1>5. InCall'
  BY <1>1, <1>3 DEF InCall, sqliteVars
<1>6. Progress'
  BY <1>1, <1>2, <1>3 DEF Progress, sqliteVars
<1>7. CacheIsCoherent'
  BY <1>1, <1>3 DEF CacheIsCoherent, sqliteVars
<1>8. FileIsSound'
  BY <1>1, <1>3 DEF FileIsSound, sqliteVars
<1>9. Outcomes'
  BY <1>1, <1>2, <1>3 DEF Outcomes, sqliteVars
<1> QED  BY <1>4, <1>5, <1>6, <1>7, <1>8, <1>9

LEMMA HandlerReturnsIInv ==
  ASSUME IInv, TypeOK', NEW c \in Conn, HandlerReturns(c)
  PROVE  IInv'
<1> USE DEF IInv
<1>1. /\ pc[c] = "handler" /\ pc' = [pc EXCEPT ![c] = "done"] /\ todo[c] = {}
      /\ UNCHANGED <<db, autoCommit, reading, stale, call, todo, Classes, outcome>>
      /\ \/ writer' = writer /\ view' = view
         \/ writer' = c /\ view' = [view EXCEPT ![c] = @ \cup {}] /\ CanWrite(c)
  BY DEF HandlerReturns, Write, sqliteVars
<1>2. view' = view
  BY <1>1 DEF TypeOK
<1>3. \A d \in Conn : Req(d)' = Req(d)
  BY <1>1 DEF Req
<1>4. pc'[c] = "done" /\ \A d \in Conn \ {c} : pc'[d] = pc[d]
  BY <1>1 DEF TypeOK
<1>5. c \in reading /\ c \notin autoCommit
  BY <1>1 DEF InCall
<1>6. writer' = writer \/ (writer = NoConn /\ writer' = c /\ view[c] = db /\ c \notin stale)
  BY <1>1, <1>5 DEF CanWrite, Snapshots
<1>7. Snapshots'
  BY <1>1, <1>2, <1>5, <1>6, ConnAssumption DEF Snapshots, TypeOK
<1>8. InCall'
  BY <1>1, <1>4 DEF InCall
<1>9. Progress'
  BY <1>1, <1>2, <1>3, <1>4, <1>6, ConnAssumption DEF Progress
<1>10. CacheIsCoherent'
  BY <1>1, <1>2, <1>4 DEF CacheIsCoherent
<1>11. FileIsSound'
  <2>1. CASE writer' = writer
    BY <2>1, <1>1, <1>2, <1>4 DEF FileIsSound
  <2>2. CASE writer' = c /\ view[c] = db
    <3>1. view'[c] \cup todo'[c] = db
      BY <2>2, <1>1, <1>2
    <3> QED  BY <2>2, <3>1, <1>1, <1>2 DEF FileIsSound
  <2> QED  BY <2>1, <2>2, <1>6
<1>12. Outcomes'
  BY <1>1, <1>2, <1>3, <1>4, <1>6 DEF Outcomes
<1> QED  BY <1>7, <1>8, <1>9, <1>10, <1>11, <1>12

(* Entering a call.                                                        *)
LEMMA EnterIInv ==
  ASSUME IInv, TypeOK', NEW c \in Conn, NEW r \in Request, NEW how \in Hows,
         FlexiAction(c, r, how)
  PROVE  IInv'
<1> USE DEF IInv
<1>1. /\ pc[c] = "idle" /\ outcome[r] = "unsent"
      /\ autoCommit' = autoCommit \ {c}
      /\ pc' = [pc EXCEPT ![c] = "begun"]
      /\ call' = [call EXCEPT ![c] = [req |-> r, how |-> how]]
      /\ outcome' = [outcome EXCEPT ![r] = "running"]
      /\ UNCHANGED <<db, stale, todo, Classes>>
  BY DEF FlexiAction
<1>2. \/ UNCHANGED <<writer, reading, view>>
      \/ /\ CanWrite(c) /\ writer' = c /\ reading' = reading \cup {c}
         /\ view' = [view EXCEPT ![c] = IF c \in reading THEN @ ELSE db]
  BY DEF FlexiAction
<1>3. Req(c)' = r /\ \A d \in Conn \ {c} : Req(d)' = Req(d)
  BY <1>1 DEF Req, TypeOK
<1>4. pc'[c] = "begun" /\ \A d \in Conn \ {c} : pc'[d] = pc[d] /\ view'[d] = view[d]
  BY <1>1, <1>2 DEF TypeOK
<1>5. todo[c] = {}
  BY <1>1 DEF Progress
<1>6. writer # c => writer' = writer \/ (writer = NoConn /\ writer' = c /\ view'[c] = db /\ c \notin stale)
  BY <1>2 DEF CanWrite, Snapshots, TypeOK
<1>7. writer = c => writer' = c /\ view'[c] = view[c]
  BY <1>2 DEF Snapshots, TypeOK
<1>8. Snapshots'
  BY <1>1, <1>2, <1>4, <1>6, <1>7, ConnAssumption DEF Snapshots, TypeOK
<1>9. InCall'
  BY <1>1, <1>2, <1>4 DEF InCall
<1>10. Progress'
  BY <1>1, <1>3, <1>4, <1>5, <1>6, <1>7, ConnAssumption DEF Progress
<1>11. CacheIsCoherent'
  BY <1>1, <1>4 DEF CacheIsCoherent
<1>12. FileIsSound'
  <2>1. CASE writer' = writer /\ writer # c
    BY <2>1, <1>1, <1>4 DEF FileIsSound
  <2>2. CASE writer' = c /\ view'[c] = db
    <3>1. view'[c] \cup todo'[c] = db
      BY <2>2, <1>1, <1>5
    <3> QED  BY <2>2, <3>1, <1>1 DEF FileIsSound
  <2>3. CASE writer = c
    BY <2>3, <1>1, <1>7 DEF FileIsSound
  <2> QED  BY <2>1, <2>2, <2>3, <1>6
<1>13. Outcomes'
  <2>1. \A q \in Request \ {r} : outcome'[q] = outcome[q]
    BY <1>1 DEF TypeOK
  <2>2. outcome'[r] = "running"
    BY <1>1 DEF TypeOK
  <2>3. \A d \in Conn \ {c} : pc[d] # "idle" => Req(d) \in Request \ {r}
    BY <1>1 DEF Outcomes, TypeOK, Req
  <2>4. \A f \in db : f.req \in Request \ {r}
    BY <1>1 DEF Outcomes, FileIsSound, Sound, RowsOfRequests
  <2>5. writer \in Conn => \A f \in view[writer] : f.req \in Request
    BY DEF FileIsSound, Sound, RowsOfRequests
  <2>6. (\A d \in Conn : pc[d] # "idle" => outcome[Req(d)] = "running")'
    BY <1>3, <1>4, <2>1, <2>2, <2>3 DEF Outcomes
  <2>7. (\A d, e \in Conn : pc[d] # "idle" /\ pc[e] # "idle" /\ Req(d) = Req(e) => d = e)'
    BY <1>3, <1>4, <2>3 DEF Outcomes
  <2>8. (\A f \in db : outcome[f.req] = "ok")'
    BY <1>1, <2>1, <2>4 DEF Outcomes
  <2>9. (writer \in Conn => \A f \in view[writer] :
           outcome[f.req] = "ok" \/ (pc[writer] # "idle" /\ f.req = Req(writer)))'
    <3>1. CASE writer' = writer /\ writer # c
      BY <3>1, <1>1, <1>3, <1>4, <2>1, <2>3, <2>5 DEF Outcomes
    <3>2. CASE writer' = c /\ view'[c] = db
      BY <3>2, <1>1, <2>1, <2>4 DEF Outcomes
    <3>3. CASE writer = c
      <4>1. \A f \in view[c] : outcome[f.req] = "ok" /\ f.req \in Request
        BY <3>3, <1>1, <2>5 DEF Outcomes
      <4> QED  BY <3>3, <4>1, <1>1, <1>7, <2>1
    <3> QED  BY <3>1, <3>2, <3>3, <1>6
  <2> QED  BY <2>6, <2>7, <2>8, <2>9 DEF Outcomes
<1> QED  BY <1>8, <1>9, <1>10, <1>11, <1>12, <1>13

(***************************************************************************)
(* The end of a transaction.  A commit of the writer replaces the file by  *)
(* its view; everything else leaves the file.                              *)
(***************************************************************************)

(* What the end of a transaction does to the snapshots.                    *)
LEMMA EndSnapshots ==
  ASSUME IInv, TypeOK', NEW c \in Conn, CommitDone(c) \/ SqliteRollback(c)
  PROVE  /\ Snapshots'
         /\ autoCommit' = autoCommit \cup {c}
         /\ reading \ {c} \subseteq reading'
         /\ writer' = IF writer = c THEN NoConn ELSE writer
         /\ db' = IF writer = c /\ CommitDone(c) THEN view[c] ELSE db
         /\ db \subseteq db'
         /\ \A d \in Conn \ {c} : view'[d] = view[d]
<1> USE DEF IInv
<1>1. /\ autoCommit' = autoCommit \cup {c}
      /\ writer' = IF writer = c THEN NoConn ELSE writer
      /\ db' = IF writer = c /\ CommitDone(c) THEN view[c] ELSE db
  <2>1. CASE CommitDone(c)
    BY <2>1 DEF CommitDone, Unlock
  <2>2. CASE SqliteRollback(c) /\ ~CommitDone(c)
    BY <2>2 DEF SqliteRollback, Unlock
  <2> QED  BY <2>1, <2>2
<1>2. /\ reading \ {c} \subseteq reading' /\ reading' \subseteq reading
      /\ \A d \in Conn \ {c} : view'[d] = view[d]
  BY DEF CommitDone, SqliteRollback, EndRead, TypeOK
<1>3. db \subseteq db'
  BY <1>1 DEF Snapshots
<1>4. Snapshots'
  <2>1. CASE CommitDone(c) /\ writer = c
    <3>1. /\ \/ reading' = reading /\ stale' = stale \cup (reading \ {c}) /\ view'[c] = view[c]
             \/ reading' = reading \ {c} /\ stale' = (stale \cup (reading \ {c})) \ {c}
      BY <2>1 DEF CommitDone, EndRead, TypeOK
    <3> QED  BY <2>1, <3>1, <1>1, <1>2, ConnAssumption DEF Snapshots, TypeOK
  <2>2. CASE CommitDone(c) /\ writer # c
    <3>1. /\ \/ reading' = reading /\ stale' = stale /\ view'[c] = view[c]
             \/ reading' = reading \ {c} /\ stale' = stale \ {c}
      BY <2>2 DEF CommitDone, EndRead, TypeOK
    <3> QED  BY <2>2, <3>1, <1>1, <1>2 DEF Snapshots, TypeOK
  <2>3. CASE SqliteRollback(c) /\ ~CommitDone(c)
    <3>1. /\ \/ /\ reading' = reading /\ stale' = stale
                /\ view'[c] = IF c \in stale THEN view[c] ELSE db
             \/ reading' = reading \ {c} /\ stale' = stale \ {c}
      BY <2>3 DEF SqliteRollback, EndRead, TypeOK
    <3> QED  BY <2>3, <3>1, <1>1, <1>2, ConnAssumption DEF Snapshots, TypeOK
  <2> QED  BY <2>1, <2>2, <2>3
<1> QED  BY <1>1, <1>2, <1>3, <1>4

(* The file after the end of a transaction: the writer commits a view that *)
(* is sound and whole, and rows of requests reported as done.              *)
LEMMA EndFile ==
  ASSUME IInv, TypeOK', NEW c \in Conn, CommitDone(c) \/ SqliteRollback(c),
         CommitDone(c) => todo[c] = {} /\ pc[c] # "failed"
  PROVE  /\ Sound(db') /\ Whole(db')
         /\ \A f \in db' : outcome[f.req] = "ok" \/ (CommitDone(c) /\ pc[c] # "idle" /\ f.req = Req(c))
<1> USE DEF IInv
<1>1. db' = IF writer = c /\ CommitDone(c) THEN view[c] ELSE db
  BY EndSnapshots
<1>2. CASE writer = c /\ CommitDone(c)
  <2>1. view[c] \cup todo[c] = view[c]
    BY <1>2
  <2> QED  BY <1>1, <1>2, <2>1 DEF FileIsSound, Outcomes
<1>3. CASE ~(writer = c /\ CommitDone(c))
  BY <1>1, <1>3 DEF FileIsSound, Outcomes
<1> QED  BY <1>2, <1>3

(* The end of a call.                                                      *)
LEMMA ReturnIInv ==
  ASSUME IInv, TypeOK', NEW c \in Conn, Commit(c) \/ Rollback(c)
  PROVE  IInv'
<1> USE DEF IInv
<1>1. PICK res \in {"ok", "error"} :
        /\ Return(c, res)
        /\ res = "ok" => pc[c] = "done"
        /\ res = "error" => pc[c] = "failed" /\ SqliteRollback(c)
        /\ \/ (UNCHANGED sqliteVars \/ CommitBusy(c)) /\ res = "ok"
           \/ CommitDone(c) \/ SqliteRollback(c)
  BY DEF Commit, Rollback, SqliteCommit, CommitFails
<1>2. /\ outcome' = [outcome EXCEPT ![Req(c)] = res]
      /\ pc' = [pc EXCEPT ![c] = "idle"] /\ call' = [call EXCEPT ![c] = NoCall]
      /\ todo' = [todo EXCEPT ![c] = {}] /\ UNCHANGED Classes
  BY <1>1 DEF Return
<1>3. /\ pc[c] \in {"done", "failed"} /\ Req(c) \in Request
      /\ pc'[c] = "idle" /\ todo'[c] = {} /\ outcome'[Req(c)] = res
  BY <1>1, <1>2 DEF TypeOK, Req
<1>4. /\ \A d \in Conn \ {c} : pc'[d] = pc[d] /\ todo'[d] = todo[d] /\ Req(d)' = Req(d)
      /\ \A q \in Request \ {Req(c)} : outcome'[q] = outcome[q]
  BY <1>2 DEF TypeOK, Req
<1>5. \A d \in Conn \ {c} : pc[d] # "idle" => Req(d) \in Request \ {Req(c)}
  BY <1>3 DEF Outcomes, TypeOK, Req
<1>6. outcome[Req(c)] = "running"
  BY <1>3 DEF Outcomes
<1>7. \A f \in db : f.req \in Request \ {Req(c)}
  BY <1>3, <1>6 DEF Outcomes, FileIsSound, Sound, RowsOfRequests
<1>8. writer \in Conn => \A f \in view[writer] : f.req \in Request
  BY DEF FileIsSound, Sound, RowsOfRequests
<1>9. (\A d \in Conn : pc[d] # "idle" => outcome[Req(d)] = "running")'
  BY <1>3, <1>4, <1>5 DEF Outcomes
<1>10. (\A d, e \in Conn : pc[d] # "idle" /\ pc[e] # "idle" /\ Req(d) = Req(e) => d = e)'
  BY <1>3, <1>4 DEF Outcomes
<1>11. CASE (UNCHANGED sqliteVars \/ CommitBusy(c)) /\ res = "ok"
  <2>1. UNCHANGED <<db, writer, autoCommit, reading, stale, view>> /\ pc[c] = "done" /\ todo[c] = {}
    BY <1>11, <1>1 DEF sqliteVars, CommitBusy, Progress
  <2>2. Snapshots'
    BY <2>1 DEF Snapshots
  <2>3. InCall'
    BY <2>1, <1>3, <1>4 DEF InCall
  <2>4. Progress'
    BY <2>1, <1>3, <1>4 DEF Progress
  <2>5. CacheIsCoherent'
    BY <2>1, <1>2, <1>3, <1>4 DEF CacheIsCoherent
  <2>6. FileIsSound'
    BY <2>1, <1>3, <1>4 DEF FileIsSound
  <2>7. (\A f \in db : outcome[f.req] = "ok")'
    BY <2>1, <1>4, <1>7 DEF Outcomes
  <2>8. (writer \in Conn => \A f \in view[writer] :
           outcome[f.req] = "ok" \/ (pc[writer] # "idle" /\ f.req = Req(writer)))'
    BY <1>11, <2>1, <1>3, <1>4, <1>5, <1>8 DEF Outcomes
  <2>9. Outcomes'
    BY <1>9, <1>10, <2>7, <2>8 DEF Outcomes
  <2> QED  BY <2>2, <2>3, <2>4, <2>5, <2>6, <2>9
<1>12. CASE CommitDone(c) \/ SqliteRollback(c)
  <2>1. CommitDone(c) \/ SqliteRollback(c)
    BY <1>12
  <2>2. /\ Snapshots' /\ autoCommit' = autoCommit \cup {c} /\ reading \ {c} \subseteq reading'
        /\ writer' = IF writer = c THEN NoConn ELSE writer
        /\ \A d \in Conn \ {c} : view'[d] = view[d]
    BY <2>1, EndSnapshots
  <2>3. /\ Sound(db') /\ Whole(db')
        /\ \A f \in db' : outcome[f.req] = "ok" \/ (res = "ok" /\ f.req = Req(c))
    <3>1. CASE res = "error"
      <4>1. SqliteRollback(c) /\ db' = db
        BY <3>1, <1>1 DEF SqliteRollback
      <4> QED  BY <4>1 DEF FileIsSound, Outcomes
    <3>2. CASE res = "ok"
      <4>1. pc[c] = "done" /\ todo[c] = {}
        BY <3>2, <1>1 DEF Progress
      <4> QED  BY <4>1, <3>2, <2>1, EndFile
    <3> QED  BY <3>1, <3>2
  <2>4. InCall'
    BY <2>2, <1>3, <1>4 DEF InCall
  <2>5. Progress'
    BY <2>2, <1>3, <1>4, ConnAssumption DEF Progress
  <2>6. CacheIsCoherent'
    BY <2>2, <1>2, <1>3, <1>4 DEF CacheIsCoherent
  <2>7. FileIsSound'
    BY <2>2, <2>3, <1>4, ConnAssumption DEF FileIsSound
  <2>8. (\A f \in db : outcome[f.req] = "ok")'
    BY <2>3, <1>3, <1>4, <1>6 DEF Sound, RowsOfRequests
  <2>9. (writer \in Conn => \A f \in view[writer] :
           outcome[f.req] = "ok" \/ (pc[writer] # "idle" /\ f.req = Req(writer)))'
    <3> SUFFICES ASSUME writer' \in Conn, NEW f \in view'[writer']
                 PROVE  outcome'[f.req] = "ok" \/ (pc'[writer'] # "idle" /\ f.req = Req(writer)')
      OBVIOUS
    <3>1. writer' = writer /\ writer \in Conn \ {c} /\ f \in view[writer]
      BY <2>2, ConnAssumption
    <3>2. f.req \in Request
      BY <3>1, <1>8
    <3>3. CASE outcome[f.req] = "ok"
      BY <3>3, <3>2, <1>4, <1>6
    <3>4. CASE pc[writer] # "idle" /\ f.req = Req(writer)
      BY <3>4, <3>1, <1>4
    <3> QED  BY <3>1, <3>3, <3>4 DEF Outcomes
  <2>10. Outcomes'
    BY <1>9, <1>10, <2>8, <2>9 DEF Outcomes
  <2> QED  BY <2>2, <2>4, <2>5, <2>6, <2>7, <2>10
<1> QED  BY <1>1, <1>11, <1>12

(* The application ends its transaction.                                   *)
LEMMA UserEndIInv ==
  ASSUME IInv, TypeOK', NEW c \in Conn, UserEnd(c)
  PROVE  IInv'
<1> USE DEF IInv
<1>1. pc[c] = "idle" /\ UNCHANGED <<pc, call, todo, Classes, outcome>>
  BY DEF UserEnd, luaVars
<1>2. \A d \in Conn : Req(d)' = Req(d)
  BY <1>1 DEF Req
<1>3. CASE UNCHANGED sqliteVars \/ CommitBusy(c)
  <2>1. UNCHANGED <<db, writer, autoCommit, reading, stale, view>>
    BY <1>3 DEF sqliteVars, CommitBusy
  <2> QED  BY <1>1, <1>2, <2>1 DEF Snapshots, InCall, Progress, CacheIsCoherent, FileIsSound, Outcomes
<1>4. CASE CommitDone(c) \/ SqliteRollback(c)
  <2>1. todo[c] = {}
    BY <1>1 DEF Progress
  <2>2. /\ Snapshots' /\ autoCommit' = autoCommit \cup {c} /\ reading \ {c} \subseteq reading'
        /\ writer' = IF writer = c THEN NoConn ELSE writer
        /\ \A d \in Conn \ {c} : view'[d] = view[d]
    BY <1>4, EndSnapshots
  <2>3. Sound(db') /\ Whole(db') /\ \A f \in db' : outcome[f.req] = "ok"
    BY <1>1, <1>4, <2>1, EndFile
  <2>4. InCall'
    BY <1>1, <2>2 DEF InCall
  <2>5. Progress'
    BY <1>1, <1>2, <2>1, <2>2, ConnAssumption DEF Progress
  <2>6. CacheIsCoherent'
    BY <1>1, <2>2 DEF CacheIsCoherent
  <2>7. FileIsSound'
    BY <1>1, <2>2, <2>3, ConnAssumption DEF FileIsSound
  <2>8. Outcomes'
    BY <1>1, <1>2, <2>2, <2>3, ConnAssumption DEF Outcomes
  <2> QED  BY <2>2, <2>4, <2>5, <2>6, <2>7, <2>8
<1> QED  BY <1>3, <1>4 DEF UserEnd, SqliteCommit, CommitFails

LEMMA UserBeginIInv ==
  ASSUME IInv, TypeOK', NEW c \in Conn, UserBegin(c)
  PROVE  IInv'
<1> USE DEF IInv
<1>1. autoCommit' = autoCommit \ {c} /\ UNCHANGED <<db, writer, reading, stale, view, pc, call, todo, Classes, outcome>>
  BY DEF UserBegin, luaVars
<1>2. \A d \in Conn : Req(d)' = Req(d)
  BY <1>1 DEF Req
<1> QED  BY <1>1, <1>2 DEF Snapshots, InCall, Progress, CacheIsCoherent, FileIsSound, Outcomes

LEMMA RejectIInv ==
  ASSUME IInv, TypeOK', NEW c \in Conn, NEW r \in Request, RejectUnknown(c, r)
  PROVE  IInv'
<1> USE DEF IInv
<1>1. /\ outcome[r] = "unsent" /\ outcome' = [outcome EXCEPT ![r] = "error"]
      /\ UNCHANGED <<db, writer, autoCommit, reading, stale, view, pc, call, todo, Classes>>
  BY DEF RejectUnknown, sqliteVars
<1>2. \A d \in Conn : Req(d)' = Req(d)
  BY <1>1 DEF Req
<1>3. \A q : outcome[q] \in {"ok", "running"} => outcome'[q] = outcome[q]
  BY <1>1 DEF TypeOK
<1>4. Outcomes'
  BY <1>1, <1>2, <1>3 DEF Outcomes
<1> QED  BY <1>1, <1>2, <1>4 DEF Snapshots, InCall, Progress, CacheIsCoherent, FileIsSound

LEMMA NextIInv == IInv /\ [Next]_vars => IInv'
<1> SUFFICES ASSUME IInv, [Next]_vars PROVE IInv'
  OBVIOUS
<1>1. TypeOK'
  BY NextTypeOK DEF IInv
<1>2. CASE UNCHANGED vars
  BY <1>1, <1>2 DEF IInv, vars, sqliteVars, luaVars, Snapshots, InCall, Progress, CacheIsCoherent,
     FileIsSound, Outcomes, Req
<1>3. CASE Next
  BY <1>1, <1>3, RejectIInv, EnterIInv, CheckIInv, SaveRowIInv, FailsIInv, HandlerReturnsIInv,
     ReturnIInv, UserBeginIInv, UserEndIInv DEF Next, Step
<1> QED  BY <1>2, <1>3

(* IInv holds in every state of every behaviour.                           *)
THEOREM Invariant == Spec => []IInv
BY InitIInv, NextIInv, PTL DEF Spec

-----------------------------------------------------------------------------
(***************************************************************************)
(* What it is for.                                                         *)
(***************************************************************************)

(* A request reported as failed has left nothing in the file: every row in *)
(* it is of a request reported as done.                                    *)
THEOREM NothingLeftByFailures == Spec => []FailedLeavesNothing
<1>1. IInv => FailedLeavesNothing
  <2> SUFFICES ASSUME IInv, NEW r \in Request, outcome[r] = "error", NEW f \in Effect(r) \cap db
               PROVE  FALSE
    BY DEF FailedLeavesNothing
  <2>1. f.req = r
    BY EffectRows
  <2>2. outcome[f.req] = "ok"
    BY DEF IInv, Outcomes
  <2> QED  BY <2>1, <2>2
<1> QED  BY <1>1, Invariant, PTL

(* The classes in the cache of a handler exist in its snapshot.            *)
THEOREM CacheCoherence == Spec => []CacheIsCoherent
<1>1. IInv => CacheIsCoherent
  BY DEF IInv
<1> QED  BY <1>1, Invariant, PTL

(* FlexiStore means the same rows.                                         *)
LEMMA StoreOperators ==
  /\ \A r : Store!Effect(r) = Effect(r)
  /\ \A S : Store!WellFormed(S) <=> NamesUnique(S) /\ ObjectsHaveClass(S) /\ Whole(S)
BY DEF Store!Effect, Effect, Store!Kinds, Kinds, Store!WellFormed, Store!NamesUnique, NamesUnique,
   Store!ObjectsHaveClass, ObjectsHaveClass, Store!ClassesIn, ClassesIn, Store!Whole, Whole

(* The file changes at a commit of the writer only, and there it gains the *)
(* rows of the requests in the view it did not have: all of them.          *)
LEMMA StepImplementsApply ==
  ASSUME IInv, IInv', NEW c \in Conn, CommitDone(c), writer = c, todo[c] = {}, pc[c] # "failed"
  PROVE  Store!Next
<1> DEFINE done == {f.req : f \in view[c]}
<1>1. db' = view[c] /\ db \subseteq view[c]
  BY DEF CommitDone, IInv, Snapshots
<1>2. Whole(view[c]) /\ RowsOfRequests(view[c])
  <2>1. view[c] \cup todo[c] = view[c]
    OBVIOUS
  <2> QED  BY <2>1 DEF IInv, FileIsSound, Sound
<1>3. done \subseteq Request
  BY <1>2 DEF RowsOfRequests
<1>4. view[c] = UNION {Effect(r) : r \in done}
  BY <1>2 DEF Whole, RowsOfRequests
<1>5. db' = db \cup UNION {Effect(r) : r \in done}
  BY <1>1, <1>4
<1>6. Store!WellFormed(db')
  BY StoreOperators DEF IInv, FileIsSound, Sound
<1>7. db' = db \cup UNION {Store!Effect(r) : r \in done}
  BY <1>5, StoreOperators
<1> QED  BY <1>3, <1>6, <1>7 DEF Store!Next, Store!Apply

(* However many connections there are, the file behaves as FlexiStore: it  *)
(* gains whole requests only, and stays well formed.                       *)
THEOREM Refinement == Spec => ImplementsFlexiStore
<1>1. Init => Store!Init
  BY DEF Init, Store!Init
<1>2. IInv /\ IInv' /\ [Next]_vars => [Store!Next]_db
  <2> SUFFICES ASSUME IInv, IInv', [Next]_vars, db' # db
               PROVE  Store!Next
    OBVIOUS
  <2>1. PICK c \in Conn : Commit(c) \/ Rollback(c) \/ UserEnd(c)
    BY DEF Next, Step, vars, sqliteVars, luaVars, RejectUnknown, FlexiAction, CheckSchemaVersion,
       SaveRow, InsertNewClass, SaveClassDef, SaveObject, SaveValues, Save, Write,
       HandlerFails, CheckRefused, HandlerReturns, UserBegin
  <2>2. CommitDone(c) /\ writer = c /\ pc[c] \in {"done", "idle"}
    BY <2>1 DEF Commit, Rollback, UserEnd, SqliteCommit, CommitDone, CommitBusy, CommitFails,
       SqliteRollback, sqliteVars
  <2>3. todo[c] = {}
    BY <2>2 DEF IInv, Progress
  <2> QED  BY <2>2, <2>3, StepImplementsApply
<1> QED  BY <1>1, <1>2, Invariant, PTL DEF Spec, ImplementsFlexiStore, Store!Spec

-----------------------------------------------------------------------------
(***************************************************************************)
(* What is left open.                                                      *)
(***************************************************************************)

(* A call inside a trigger has the write lock; a transaction that is open  *)
(* between two calls has it, or is the application's.                      *)
Held ==
  \A c \in Conn :
    /\ pc[c] # "idle" /\ call[c].how = "trigger" => writer = c
    /\ pc[c] = "idle" /\ c \notin autoCommit => c \in user \/ writer = c

(* A step of the connection c, for the other connections.                  *)
LEMMA OthersHeld ==
  ASSUME Held, NEW c \in Conn, NEW d \in Conn \ {c},
         pc'[d] = pc[d], call'[d] = call[d],
         d \in autoCommit => d \in autoCommit', d \in user => d \in user',
         writer = d => writer' = d
  PROVE  /\ pc'[d] # "idle" /\ call'[d].how = "trigger" => writer' = d
         /\ pc'[d] = "idle" /\ d \notin autoCommit' => d \in user' \/ writer' = d
BY DEF Held

(* What the end of a transaction does to the locks.                        *)
LEMMA EndHeld ==
  ASSUME NEW c \in Conn, SqliteCommit(c) \/ SqliteRollback(c)
  PROVE  /\ c \in autoCommit' \/ (writer = c /\ writer' = c)
         /\ \A d \in Conn \ {c} : /\ d \in autoCommit => d \in autoCommit'
                                  /\ writer = d => writer' = d
BY DEF SqliteCommit, CommitDone, CommitBusy, CommitFails, MustWait, SqliteRollback, Unlock

LEMMA HeldStep == IInv /\ Held /\ [Next]_vars => Held'
<1> SUFFICES ASSUME IInv, Held, [Next]_vars PROVE Held'
  OBVIOUS
<1> USE DEF IInv, TypeOK
<1>1. CASE UNCHANGED vars
  BY <1>1 DEF Held, vars, sqliteVars, luaVars
<1>2. ASSUME NEW c \in Conn, NEW r \in Request, RejectUnknown(c, r)
      PROVE  Held'
  BY <1>2 DEF Held, RejectUnknown, sqliteVars
<1>3. ASSUME NEW c \in Conn, NEW r \in Request, NEW how \in Hows, FlexiAction(c, r, how)
      PROVE  Held'
  <2>1. /\ pc'[c] = "begun" /\ call'[c].how = how
        /\ how = "trigger" => writer' = c
        /\ \A d \in Conn \ {c} :
             /\ pc'[d] = pc[d] /\ call'[d] = call[d] /\ user' = user
             /\ d \in autoCommit => d \in autoCommit'
             /\ writer = d => writer' = d
    BY <1>3, ConnAssumption DEF FlexiAction, CanWrite
  <2> QED  BY <2>1, OthersHeld DEF Held
<1>4. ASSUME NEW c \in Conn,
             CheckSchemaVersion(c) \/ CheckRefused(c) \/ HandlerFails(c) \/ HandlerReturns(c)
               \/ \E f \in todo[c] : SaveRow(c, f)
      PROVE  Held'
  <2>1. /\ pc[c] # "idle" /\ pc'[c] # "idle" /\ call' = call /\ user' = user
        /\ autoCommit' = autoCommit
        /\ writer' = writer \/ (CanWrite(c) /\ writer' = c)
        /\ \A d \in Conn \ {c} : pc'[d] = pc[d]
    BY <1>4 DEF CheckSchemaVersion, CheckRefused, HandlerFails, HandlerReturns, SaveRow, InsertNewClass,
       SaveClassDef, SaveObject, SaveValues, Save, Write, sqliteVars
  <2>2. \A d \in Conn : writer = d => writer' = d
    BY <2>1, ConnAssumption DEF CanWrite
  <2> QED  BY <2>1, <2>2, OthersHeld DEF Held
<1>5. ASSUME NEW c \in Conn, Commit(c) \/ Rollback(c)
      PROVE  Held'
  <2>1. PICK res : Return(c, res)
    BY <1>5 DEF Commit, Rollback
  <2>2. /\ pc[c] # "idle" /\ pc'[c] = "idle" /\ user' = user
        /\ \A d \in Conn \ {c} : pc'[d] = pc[d] /\ call'[d] = call[d]
    BY <1>5, <2>1 DEF Commit, Rollback, Return
  <2>3. \/ UNCHANGED sqliteVars /\ call[c].how = "trigger"
        \/ SqliteCommit(c) \/ SqliteRollback(c)
    BY <1>5 DEF Commit, Rollback
  <2>4. /\ c \in autoCommit' \/ writer' = c
        /\ \A d \in Conn \ {c} : /\ d \in autoCommit => d \in autoCommit'
                                 /\ writer = d => writer' = d
    BY <2>2, <2>3, EndHeld DEF Held, sqliteVars
  <2> QED  BY <2>2, <2>4, OthersHeld DEF Held
<1>6. ASSUME NEW c \in Conn, UserBegin(c)
      PROVE  Held'
  BY <1>6 DEF Held, UserBegin, luaVars
<1>7. ASSUME NEW c \in Conn, UserEnd(c)
      PROVE  Held'
  <2>1. /\ pc[c] = "idle" /\ pc' = pc /\ call' = call
        /\ c \in autoCommit' \/ user' = user
        /\ \A d \in Conn \ {c} : d \in user => d \in user'
    BY <1>7 DEF UserEnd, luaVars
  <2>2. /\ c \in autoCommit' \/ c \in user'
        /\ \A d \in Conn \ {c} : /\ d \in autoCommit => d \in autoCommit'
                                 /\ writer = d => writer' = d
    <3>1. CASE UNCHANGED sqliteVars /\ c \in autoCommit
      BY <3>1 DEF sqliteVars
    <3>2. CASE SqliteCommit(c) \/ SqliteRollback(c)
      BY <1>7, <3>2, EndHeld DEF UserEnd
    <3> QED  BY <1>7, <3>1, <3>2 DEF UserEnd
  <2> QED  BY <2>1, <2>2, OthersHeld DEF Held
<1> QED
  BY <1>1, <1>2, <1>3, <1>4, <1>5, <1>6, <1>7 DEF Next, Step

(* LeftOpenIsAcknowledged, for any number of connections, in both journal  *)
(* modes and whatever the commits do: nothing of a request that failed is  *)
(* kept in a transaction that a call leaves open.                          *)
THEOREM NothingFailedIsLeftOpen == Spec => []LeftOpenIsAcknowledged
<1>1. Init => Held
  BY DEF Init, Held
<1>2. IInv /\ Held => LeftOpenIsAcknowledged
  <2> SUFFICES ASSUME IInv, Held, NEW c \in Conn \ user, pc[c] = "idle", c \notin autoCommit
               PROVE  writer = c /\ \A f \in view[c] : outcome[f.req] = "ok"
    BY DEF LeftOpenIsAcknowledged
  <2>1. writer = c
    BY DEF Held
  <2> QED  BY <2>1 DEF IInv, Outcomes
<1> QED  BY <1>1, <1>2, Invariant, HeldStep, PTL DEF Spec
=============================================================================
