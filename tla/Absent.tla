----------------------------- MODULE Absent -----------------------------
(* The value of a field that refers to nothing, for the modules of the      *)
(* services, which are composed in Services.                                *)
CONSTANT None

=============================================================================
