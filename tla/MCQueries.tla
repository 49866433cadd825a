----------------------------- MODULE MCQueries -----------------------------
(* One message at a time, and one reading of pages. *)
EXTENDS QueryReading
=============================================================================
