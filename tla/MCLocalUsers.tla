---------------------------- MODULE MCLocalUsers ----------------------------
(***************************************************************************)
(* Two people, one of them or both on the installation in the beginning, and*)
(* one persist beside the page's.                                           *)
(***************************************************************************)
EXTENDS LocalUsers
=============================================================================
