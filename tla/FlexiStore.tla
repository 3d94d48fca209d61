----------------------------- MODULE FlexiStore -----------------------------
(***************************************************************************)
(* What a database file behind flexi() promises, whoever is connected to   *)
(* it: it only ever grows by whole requests, and stays well formed.  There *)
(* are no connections, snapshots, locks or caches here.                    *)
(***************************************************************************)
EXTENDS FlexiRequests

VARIABLE store    (* the rows committed to the file                        *)

WellFormed(rows) == NamesUnique(rows) /\ ObjectsHaveClass(rows) /\ Whole(rows)

Init == store = {}

(* Some requests become visible, all their rows together.                  *)
Apply(done) ==
  /\ store' = store \cup UNION {Effect(r) : r \in done}
  /\ WellFormed(store')

Next == \E done \in SUBSET Request : Apply(done)

Spec == Init /\ [][Next]_store
=============================================================================
