-------------------------------- MODULE MCWebUi --------------------------------
(* Two addresses and two ABIs are enough for every race of the page: one        *)
(* contract is the target while the ABI of the other, or of the same, changes.  *)
EXTENDS WebUi, TLC

CONSTANTS a, b, x, y, z

\* One file with both accounts, or two files dropped together, the second of
\* which may be refused.
Drops == {<<{a, b}>>, <<{b}, {a}>>}
OneFile == {<<{a}>>}

\* An earlier session left the ABI of one contract, and none of the other.
OneSaved == {(a :> x) @@ (b :> None)}
SavedAlone == {a :> x}
===============================================================================
