---------------------------- MODULE MCHashTable ----------------------------
(* HashTable with three keys.  The tables that come up have 2 to 7 buckets: *)
(* the first two keys share one in all of them but that of 5, the third    *)
(* joins them in that of 3.                                                *)
EXTENDS HashTable, TLC

MCKey == {"a", "b", "c"}
MCHashCode == ("a" :> 0) @@ ("b" :> 84) @@ ("c" :> 3)
MCPtr == {"a1", "a2", "b1", "c1"}
MCTextOf == ("a1" :> "a") @@ ("a2" :> "a") @@ ("b1" :> "b") @@ ("c1" :> "c")
MCData == {"A", "B", "C", "B2"}
MCDataFor == ("a" :> {"A"}) @@ ("b" :> {"B", "B2"}) @@ ("c" :> {"C"})
MCElem == {"e1", "e2", "e3"}
=============================================================================
