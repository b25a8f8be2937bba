---------------------------- MODULE MCStagedOutput ----------------------------
(* Two runs race for one destination while a third writes to stdout.           *)
EXTENDS StagedOutput, TLC

CONSTANTS first, second, piped

Symmetric == Permutations({first, second})
===============================================================================
