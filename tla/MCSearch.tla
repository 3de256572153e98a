-------------------------------- MODULE MCSearch --------------------------------
(***************************************************************************)
(* A small instance of the search alone.                                   *)
(***************************************************************************)
EXTENDS Search

CONSTANTS q1, q2

MCQueries == {q1, q2}
==============================================================================
