------------------------------ MODULE MCRbTree ------------------------------
(* RbTree for TLC.  The code compares keys and nothing else, so trees of   *)
(* one shape are alike: a state is viewed with its nodes numbered in key   *)
(* order.  For this to be exact there must be a key in every gap between   *)
(* two others: there are 2^KeyBits - 1 of them, and the one inserted is    *)
(* the middle of its gap, which is never found used up.                    *)
EXTENDS RbTree, TLC

CONSTANTS
  KeyBits,
  MaxWalked   (* bound: walks begin, and insertions happen during a walk,  *)
              (* in trees of at most that many nodes                       *)

MCKey == 1..(2^KeyBits - 1)

(* The parent of the sentinel is not looked at but by a deletion at it.    *)
View ==
  LET o == Order(rb, "left_right")
      Rank(n) ==
        IF n \in {NULL, RBNIL} THEN n
        ELSE IF \E i \in DOMAIN o : o[i] = n THEN CHOOSE i \in DOMAIN o : o[i] = n ELSE 0
  IN <<Rank(rb.root), rb.color[RBNIL], rb.child[RBNIL],
       [i \in DOMAIN o |-> <<rb.color[o[i]], Rank(rb.parent[o[i]]),
                             Rank(rb.child[o[i]]["left"]), Rank(rb.child[o[i]]["right"])>>],
       IF op.x = RBNIL THEN Rank(rb.parent[RBNIL]) ELSE NULL,
       [op EXCEPT !.x = Rank(@), !.y = Rank(@)], [walk EXCEPT !.last = Rank(@)]>>

Gaps ==
  LET o == Order(rb, "left_right")
      bounds == <<0>> \o [i \in DOMAIN o |-> rb.data[o[i]]] \o <<2^KeyBits>>
  IN {<<bounds[i], bounds[i + 1]>> : i \in 1..Len(bounds) - 1}

MCNext ==
  \/ \E g \in Gaps :
       /\ walk.over \/ Cardinality(Allocated(rb)) <= MaxWalked
       /\ Assert(g[2] - g[1] > 1, "no key left in a gap")
       /\ Insert((g[1] + g[2]) \div 2)
  \/ InsertFixup
  \/ InsertReturns
  \/ \E z \in Allocated(rb) : Delete(z)
  \/ DeleteFixup
  \/ DeleteReturns
  \/ Clear
  \/ Cardinality(Allocated(rb)) <= MaxWalked /\ \E kind \in Walks : BeginWalk(kind)
  \/ WalkNext

MCSpec == Init /\ [][MCNext]_vars /\ Fairness
=============================================================================
