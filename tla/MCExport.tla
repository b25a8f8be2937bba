------------------------------- MODULE MCExport -------------------------------
(* Two branches fork after block 1; the head of the longer one has its parent's *)
(* state.  The storage of q differs in every state, p has none.                 *)
EXTENDS Export, SequencesExt

CONSTANTS p, q

Block(number, hash, parentHash, root) ==
    [number |-> number, hash |-> hash, parentHash |-> parentHash, stateRoot |-> root]

Common == <<Block(0, "g", "none", 0), Block(1, "a1", "g", 1)>>
Left2 == Append(Common, Block(2, "a2", "a1", 2))
Left3 == Append(Left2, Block(3, "a3", "a2", 2))
Right2 == Append(Common, Block(2, "b2", "a1", 3))

MCChains == {Common, Left2, Left3, Right2}

Leaf(k) == [key |-> k, word |-> 1]
Account(fields, leafs) == [fields |-> fields, storageRoot |-> Keccak(leafs)]
StorageOf(root) == CASE root = 2 -> {Leaf(0), Leaf(1)} [] root = 3 -> {Leaf(1)} [] OTHER -> {Leaf(0)}

MCState(root, address) ==
    IF address = q THEN {Account("token", StorageOf(root))} ELSE {Account("proxy", {})}

\* The range provider answers for this root, for another one, or finds nothing.
MCRangeReads(root, address) == {{}, MCState(root, address), MCState(1, address)}

MCRequested == <<q, p>>
MCPages == [entries : BoundedSeq(Entry, 2), end : {"Exhausted", "HashLimit", "ByteLimit"}]
===============================================================================
