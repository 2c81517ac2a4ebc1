--------------------------- MODULE VersionedStore ---------------------------
(***************************************************************************)
(* What the sync server promises about the objects it stores, without its   *)
(* transactions: every object holds one version at a time and the only      *)
(* change is a write that produces the next revision.  A device names the   *)
(* revision it edited and asks for the one after it, so a write that is     *)
(* accepted here was made on the current version.                           *)
(***************************************************************************)
EXTENDS Naturals

CONSTANTS
  Object,    \* the objects of one sync space
  Content    \* encrypted payloads and tombstones, opaque to the server

VARIABLE store    \* the current version of every object

Version == [revision : Nat, content : Content]

Init == store \in [Object -> Version]

(* Object o gets the content c as its next revision.                        *)
Put(o, c) ==
  store' = [store EXCEPT ![o] = [revision |-> store[o].revision + 1, content |-> c]]

Next == \E o \in Object, c \in Content : Put(o, c)

Spec == Init /\ [][Next]_store
=============================================================================
