----------------------------- MODULE SortedSet -----------------------------
(***************************************************************************)
(* What a sorted set promises its clients: it holds the keys that were     *)
(* added and not removed since, and a scan gives them in order, each call  *)
(* the next one after the last, whatever is added in between, and is over  *)
(* only when none is left.                                                 *)
(***************************************************************************)
EXTENDS Integers

CONSTANTS Key, NULL

VARIABLES
  held,
  scan        (* its direction and the last key it gave (up, last), and    *)
              (* whether it is over                                        *)

(* Nobody is scanning.                                                     *)
NoScan == [up |-> FALSE, last |-> NULL, over |-> TRUE]

Init == held = {} /\ scan = NoScan

Left(up, last) == {k \in held : last = NULL \/ IF up THEN last < k ELSE k < last}

Add(k) == held' = held \cup {k} /\ UNCHANGED scan

(* Removing ends the scan.                                                 *)
Remove(k) == held' = held \ {k} /\ scan' = NoScan

Clear == held' = {} /\ scan' = NoScan

Start(up) ==
  /\ scan' = [up |-> up, last |-> NULL, over |-> held = {}]
  /\ UNCHANGED held

(* A scan may be given up.                                                 *)
Stop == scan' = NoScan /\ UNCHANGED held

Advance ==
  /\ ~scan.over
  /\ LET left == Left(scan.up, scan.last)
     IN \/ left = {} /\ scan' = [up |-> scan.up, last |-> NULL, over |-> TRUE]
        \/ \E k \in left :
             /\ \A j \in left : j = k \/ (IF scan.up THEN k < j ELSE j < k)
             /\ scan' = [up |-> scan.up, last |-> k, over |-> FALSE]
  /\ UNCHANGED held

Next ==
  \/ Clear \/ Stop \/ Advance
  \/ \E up \in BOOLEAN : Start(up)
  \/ \E k \in held' \ held : k \in Key /\ Add(k)
  \/ \E k \in held \ held' : Remove(k)

Spec == Init /\ [][Next]_<<held, scan>>
=============================================================================
