----------------------------- MODULE MCEmailAuth -----------------------------
(* Small instances of EmailAuth for TLC.                                    *)
EXTENDS EmailAuth, TLC

CONSTANTS h1, h2, anna, berta, root

Handlers == Permutations(Handler)

AllRequests == {"start", "verify", "login", "setup", "password", "change", "logout", "disable", "config"}
=============================================================================
