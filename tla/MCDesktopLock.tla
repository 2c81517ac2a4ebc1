---------------------------- MODULE MCDesktopLock ----------------------------
(* A small instance of DesktopLock for TLC.                                 *)
EXTENDS DesktopLock, TLC

CONSTANTS s1, s2, other

Secrets == Permutations(Secret)
=============================================================================
