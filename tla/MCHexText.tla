------------------------------ MODULE MCHexText ------------------------------
(* Base 3 with one letter: the numbers of one, two and three digits, and texts *)
(* one digit longer than the widest value.                                     *)
EXTENDS HexText

LimitOf == [u64 |-> 3, u128 |-> 9, u256 |-> 27]
WidthOf == [address |-> 2, hash |-> 3]
===============================================================================
