---------------------------- MODULE MCClassDefs -----------------------------
EXTENDS ClassDefs

Def(type, index) == [type |-> type, index |-> index, long |-> FALSE]
Long(index) == [type |-> "text", index |-> index, long |-> TRUE]
One(props) == [properties |-> props, keys |-> {}]

MCClass == {"Customer", "Order", "Product"}
MCProp == {"p", "q", "r"}

MCSchemas == {
  (* more properties than columns, one of each index                       *)
  [Product |-> One([p |-> Def("number", "range"), q |-> Def("text", "unique"),
                    r |-> Def("text", "fulltext")])],
  (* two classes, all index arrays full, a text too long for a column      *)
  [Customer |-> One([p |-> Def("text", "fulltext"), q |-> Long("fulltext")]),
   Order |-> [properties |-> [p |-> Def("number", "range"), q |-> Def("number", "range"),
                              r |-> Def("symname", "index")],
              keys |-> {<<"p", "r">>}]],
  (* a name of the former, and a class that fits                           *)
  [Order |-> One([p |-> Def("symname", "unique")]),
   Product |-> One([p |-> Def("any", "none"), q |-> Def("text", "index")])],
  (* one full-text column too many, one dimension too many                 *)
  [Customer |-> One([p |-> Def("text", "fulltext"), q |-> Def("text", "fulltext"),
                     r |-> Long("fulltext")])],
  [Customer |-> One([p |-> Def("number", "range"), q |-> Def("number", "range"),
                     r |-> Def("number", "range")])],
  (* an index the type does not support                                    *)
  [Customer |-> One([p |-> Def("symname", "range"), q |-> Def("text", "none")])] }
=============================================================================
