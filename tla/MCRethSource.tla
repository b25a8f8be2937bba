----------------------------- MODULE MCRethSource -----------------------------
(* Two branches fork after block 1 and again after block 2; the head of one has *)
(* the state root of its parent.  The window is two blocks, so it spans a fork. *)
EXTENDS RethSource

CONSTANTS p, q

Block(number, hash, parentHash, root) ==
    [number |-> number, hash |-> hash, parentHash |-> parentHash, stateRoot |-> root]

Genesis == <<Block(0, "g", "none", 0)>>
Common == Genesis \o <<Block(1, "a1", "g", 1)>>
Left2 == Common \o <<Block(2, "a2", "a1", 2)>>
Left3 == Left2 \o <<Block(3, "a3", "a2", 2)>>
Right2 == Common \o <<Block(2, "b2", "a1", 3)>>
Right3 == Right2 \o <<Block(3, "b3", "b2", 4)>>
Fork3 == Right2 \o <<Block(3, "c3", "b2", 3)>>

MCChains == {Genesis, Common, Left2, Left3, Right2, Right3, Fork3}

\* p is created in block 1; q is there from genesis and changes in every block.
Account(fields, root) == [fields |-> fields, storageRoot |-> root]
MCState(root, address) ==
    IF address = q THEN {Account(root, root)}
    ELSE IF root = 0 THEN {} ELSE {Account(1, root)}

\* The range provider answers for this root, for another one, or finds nothing.
MCRangeReads(root, address) ==
    {{}} \cup {MCState(other, address) : other \in 0..2} \cup {MCState(root, address)}

MCRequested == <<p, q>>
MCBlockArguments == {{}, {0}, {2}}
===============================================================================
