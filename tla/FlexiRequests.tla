--------------------------- MODULE FlexiRequests ---------------------------
(***************************************************************************)
(* The requests an application sends with  select flexi('<action>', ...)   *)
(* and the rows each of them puts into the database when it succeeds.      *)
(*                                                                         *)
(* A row is a record [req, what, class]: the request that wrote it, the    *)
(* table it stands for, and the class it belongs to.                       *)
(*   "class"  : the row of [.classes] inserted to get the class ID         *)
(*   "data"   : the definition saved into that row once it is indexed      *)
(*   "object" : a row of [.objects]                                        *)
(*   "value"  : the rows of [.ref-values] of that object                   *)
(***************************************************************************)
CONSTANTS
  Request,    (* requests; each is sent at most once                       *)
  ClassName   (* names of user classes                                     *)

(***************************************************************************)
(* The actions of DBContext.flexiFuncs, by what they do to the database:   *)
(*   "create"  : create class, create schema                               *)
(*   "import"  : import data                                               *)
(*   "stub"    : schema changing actions with an empty body (drop class,   *)
(*               alter property, create trigger...)                        *)
(*   "ping"    : actions that read only (ping, help, lock class, purge...) *)
(*   "unknown" : a name flexiFuncs has no handler for (rename class)       *)
(***************************************************************************)
Op == {"create", "import", "stub", "ping", "unknown"}

ASSUME RequestAssumption ==
  \A r \in Request : r.op \in Op /\ r.classes \subseteq ClassName

Row == [req : Request, what : {"class", "data", "object", "value"},
        class : ClassName]

(* What the request writes for one of its classes.                         *)
Kinds(r) == CASE r.op = "create" -> {"class", "data"}
              [] r.op = "import" -> {"object", "value"}
              [] OTHER           -> {}

Effect(r) == {[req |-> r, what |-> k, class |-> n] : k \in Kinds(r), n \in r.classes}

(* flexiMeta[ff].schemaChange: import data is listed as a schema change.   *)
SchemaChange(r) == r.op \in {"create", "import", "stub"}

(* The classes, and the classes with objects, in a set of rows.            *)
ClassesIn(rows) == {f.class : f \in {g \in rows : g.what = "class"}}

(* No name is given to two classes; every object is of an existing class;  *)
(* what one request wrote is there as a whole or not at all.               *)
NamesUnique(rows) ==
  \A f, g \in rows : f.what = "class" /\ g.what = "class" /\ f.class = g.class => f = g

ObjectsHaveClass(rows) ==
  \A f \in rows : f.what \in {"object", "value"} => f.class \in ClassesIn(rows)

Whole(rows) == \A f \in rows : Effect(f.req) \subseteq rows
=============================================================================
