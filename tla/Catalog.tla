------------------------------ MODULE Catalog -------------------------------
(***************************************************************************)
(* What 'create schema' promises: classes appear by whole schemas, under   *)
(* names that were free, with the properties the schema gave them.         *)
(***************************************************************************)
EXTENDS Integers, FiniteSets

CONSTANTS Schemas, FtsCols, RngCols

VARIABLE catalog  (* set of [name, properties]                             *)

Fits(def) ==
  LET asking(i) == Cardinality({p \in DOMAIN def.properties : def.properties[p].index = i})
  IN  asking("fulltext") <= FtsCols /\ 2 * asking("range") <= RngCols

Init == catalog = {}

CreateSchema(s) ==
  /\ \A c \in DOMAIN s : Fits(s[c])
  /\ \A k \in catalog : k.name \notin DOMAIN s
  /\ catalog' = catalog \cup {[name |-> c, properties |-> s[c].properties] : c \in DOMAIN s}

Next == \E s \in Schemas : CreateSchema(s)

Spec == Init /\ [][Next]_catalog
=============================================================================
