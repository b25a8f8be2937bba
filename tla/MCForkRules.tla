------------------------------ MODULE MCForkRules ------------------------------
(* Every fork with every combination of absent, zero and other fields.           *)
EXTENDS ForkRules
===============================================================================
