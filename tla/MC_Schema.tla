------------------------------ MODULE MC_Schema ------------------------------
(* SchemaMapping with the slots and the columns as model values; all columns  *)
(* are namesakes in different tables, of which c1's table comes first.        *)
EXTENDS SchemaMapping

CONSTANT c1

Namesakes == [c \in Columns |-> c1]
==============================================================================
