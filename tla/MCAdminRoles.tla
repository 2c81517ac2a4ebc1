----------------------------- MODULE MCAdminRoles -----------------------------
(* A small instance of AdminRoles for TLC.                                  *)
EXTENDS AdminRoles, TLC

CONSTANTS a1, a2, h1, h2, h3

(* Handlers are interchangeable; the run checks no liveness property.       *)
Handlers == Permutations(Handler)
=============================================================================
