-------------------------------- MODULE Null --------------------------------
(* A value that stands for null and undefined.                             *)
EXTENDS Integers

CONSTANT None

ASSUME NoneAssumption == None \notin Int
============================================================================
