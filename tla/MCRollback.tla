----------------------------- MODULE MCRollback -----------------------------
(***************************************************************************)
(* Two processes that start to serve or to roll back.                      *)
(***************************************************************************)
EXTENDS Rollback

CONSTANTS p1, p2

\* REFERENCES clauses of countries, payment_methods, one of the three files
\* that refer to both (000003 to 000005), and country_payment_catalog.
MCNeeds == <<{}, {}, {1, 2}, {1}>>

Anywhere == PC \ {"stopped"}
=============================================================================
