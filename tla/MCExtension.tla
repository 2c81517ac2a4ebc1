----------------------------- MODULE MCExtension -----------------------------
(* Small instances of Extension for TLC.                                    *)
EXTENDS Extension, TLC

CONSTANTS t1, t2, anna, berta, i1, i2, nobody

(* An item of one account, and one that is still to be created.             *)
OneItem == (i1 :> anna) @@ (i2 :> nobody)

(* How many of each kind; "touch", a selection or an active page, also comes*)
(* at the end of saving and of failing.                                     *)
Asked == [unlock |-> 1, lock |-> 1, authorize |-> 1, settings |-> 1,
          save |-> 2, page |-> 1, touch |-> 0]

Tasks == Permutations({t1, t2})
=============================================================================
