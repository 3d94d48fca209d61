---------------------------- MODULE MCFlexiAction ----------------------------
(* FlexiAction on a small instance: two class names and requests that      *)
(* create them together and one by one, fill them, and do nothing.         *)
EXTENDS FlexiAction, TLC

CONSTANTS c1, c2, A, B

MCConn == {c1, c2}
MCClassName == {A, B}

Req1(i, o, cls) == [id |-> i, op |-> o, classes |-> cls]

MCRequestMost ==
  { Req1(1, "create", {A, B}), Req1(2, "create", {A}), Req1(3, "import", {A}),
    Req1(4, "ping", {}), Req1(5, "unknown", {}) }

MCRequestSmall ==
  { Req1(1, "create", {A, B}), Req1(2, "create", {A}), Req1(3, "import", {A}), Req1(4, "ping", {}) }

ConnSymmetry == Permutations(MCConn)
=============================================================================
