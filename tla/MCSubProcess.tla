---------------------------- MODULE MCSubProcess ----------------------------
(* TLC instances of SubProcess: every command that writes up to MaxLen      *)
(* units to its two outputs, in any order.                                 *)
EXTENDS SubProcess, FiniteSets

CONSTANT MaxLen

AllScripts == UNION {[1..n -> Streams] : n \in 0..MaxLen}
=============================================================================
