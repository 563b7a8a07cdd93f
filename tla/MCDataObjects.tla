---- MODULE MCDataObjects ----
(* DataObjects for model checking: names of two characters. *)
EXTENDS DataObjects
====
