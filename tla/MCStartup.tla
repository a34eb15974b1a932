----------------------------- MODULE MCStartup -----------------------------
(***************************************************************************)
(* Two or three processes start against an empty database.                 *)
(***************************************************************************)
EXTENDS Startup

CONSTANTS p1, p2, p3

\* REFERENCES clauses of the six .up.sql files.
MCNeeds == <<{}, {}, {1, 2}, {1, 2}, {1, 2}, {1}>>

Anywhere == PC \ {"stopped"}
=============================================================================
