----------------------------- MODULE Dictionary -----------------------------
(***************************************************************************)
(* What a dictionary promises its clients: under every key it holds the    *)
(* datum set last, and nothing once that was removed.                      *)
(***************************************************************************)
CONSTANTS
  Key,
  DataFor,    (* what may be set under a key                               *)
  NULL        (* no datum                                                  *)

VARIABLE contents

Init == contents = [k \in Key |-> NULL]

Set(k, d) == contents' = [contents EXCEPT ![k] = d]

Clear == contents' = [k \in Key |-> NULL]

Next == Clear \/ \E k \in Key : \E d \in DataFor[k] \cup {NULL} : Set(k, d)

Spec == Init /\ [][Next]_contents
=============================================================================
