--------------------------- MODULE MCSnapshotWriter ---------------------------
(* An instance of SnapshotWriter for TLC: four keys, two non-zero values, pages *)
(* of at most two entries, a hash window of two blocks.                        *)
EXTENDS SnapshotWriter, SequencesExt

\* An account of the given code whose root commits to the given leaves.
Account(name, bytecode, committed) ==
    [account |-> [address |-> name, codeHash |-> Keccak(bytecode),
                  storageRoot |-> Keccak(committed)],
     code |-> bytecode]

Leaf(k, w) == [key |-> k, word |-> w]

Token == Account("token", "erc20", {Leaf(0, 1), Leaf(1, 2)})
Proxy == Account("proxy", "proxy", {Leaf(1, 1)})
Empty == Account("empty", "", {})
Full == Account("full", "erc20", {Leaf(0, 1), Leaf(3, 2)})
Torn == [Token EXCEPT !.account.codeHash = Keccak("other")]

MCAccountLists ==
    {<<>>, <<Token, Empty>>, <<Proxy, Proxy>>, <<Empty, Torn>>,
     <<Token, Proxy, Empty>>, <<Full, Token>>}

Hash(number, hash) == [number |-> number, hash |-> hash]

CancunAnchor ==
    [execution |-> [hardfork |-> Cancun, blobFraction |-> {5}],
     block |-> [number |-> 3, parentHash |-> "h2", gasLimit |-> 9, baseFee |-> {7},
                prevRandao |-> {0}, excessBlobGas |-> {0}, slotNumber |-> {}],
     blockHashes |-> <<Hash(1, "h1"), Hash(2, "h2")>>]
GenesisAnchor ==
    [execution |-> [hardfork |-> 0, blobFraction |-> {}],
     block |-> [number |-> 0, parentHash |-> "zero", gasLimit |-> 9, baseFee |-> {},
                prevRandao |-> {}, excessBlobGas |-> {}, slotNumber |-> {}],
     blockHashes |-> <<>>]

\* The window of another fork, a short window, and fields of a later fork.
ForkedAnchor == [CancunAnchor EXCEPT !.blockHashes[2].hash = "h2fork"]
ShortAnchor == [CancunAnchor EXCEPT !.blockHashes = <<Hash(2, "h2")>>]
EarlyAnchor == [CancunAnchor EXCEPT !.execution.hardfork = Paris]

MCAnchors == {CancunAnchor, GenesisAnchor, ForkedAnchor, ShortAnchor, EarlyAnchor}

MCPages == [entries : BoundedSeq(Entry, 2), end : RangeEnd]
=============================================================================
