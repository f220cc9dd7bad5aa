------------------------------ MODULE Optional ------------------------------
(***************************************************************************)
(* The value of what is not there: a nil pointer, an empty reference, a    *)
(* field that was left out, an object that does not exist.                 *)
(***************************************************************************)
CONSTANT Nil
=============================================================================
