----------------------------- MODULE MCWorkspace -----------------------------
(* An instance of Workspace for TLC: three addresses, two blocks, two          *)
(* bytecodes shared between accounts and one the EVM refuses.                  *)
EXTENDS Workspace

Contract(name, bytecode, storage) ==
    [account |-> [address |-> name, codeHash |-> Keccak(bytecode),
                  storageRoot |-> StorageRoot(storage)],
     code |-> bytecode, storage |-> storage]

Stored == <<[key |-> 0, word |-> 1], [key |-> 2, word |-> 1]>>

HashOf(number) == [number |-> number, hash |-> number]

\* Block n of a Cancun chain and the hashes of the two blocks before it, or of one.
Doc(n, list) ==
    [version |-> 1,
     execution |-> [hardfork |-> Cancun, blobFraction |-> {IF n = 1 THEN 9 ELSE 5}],
     block |-> [number |-> n, parentHash |-> n - 1, gasLimit |-> 1, baseFee |-> {0},
                prevRandao |-> {0}, excessBlobGas |-> {0}, slotNumber |-> {}],
     blockHashes |-> IF n = 1 THEN <<HashOf(0)>> ELSE <<HashOf(n - 2), HashOf(n - 1)>>,
     accounts |-> list]

SampleDocuments == {
    Doc(4, <<Contract("a", "x", Stored), Contract("b", "x", <<>>)>>),
    Doc(4, <<Contract("c", "y", Stored)>>),
    Doc(4, <<Contract("b", "y", <<>>), Contract("c", "x", <<>>)>>),
    Doc(4, <<Contract("c", "y", <<>>), Contract("a", "refused", <<>>)>>),
    Doc(1, <<Contract("b", "x", <<>>)>>),
    Doc(4, <<Contract("c", "x", <<>>), Contract("c", "x", Stored)>>),
    Doc(4, <<[Contract("c", "x", <<>>) EXCEPT !.code = "y"]>>),
    [Doc(4, <<Contract("c", "y", Stored)>>) EXCEPT !.version = 2],
    [Doc(4, <<Contract("c", "y", Stored)>>) EXCEPT !.execution.hardfork = London]}

Takes(rank, inputs, outputs) == [signature |-> rank, inputs |-> inputs, outputs |-> outputs]
Declares(selector, inputs) == [selector |-> selector, inputs |-> inputs]

\* Overloads listed out of order, one signature listed twice, a type that does not
\* resolve, and an error that takes the selector of a standard one.
SampleAbis == {
    [functions |-> <<Takes(2, <<"uint">>, <<"uint">>), Takes(2, <<"uint">>, <<"address">>),
                     Takes(1, <<>>, <<"address">>)>>,
     errors |-> <<Declares("own", <<"uint">>), Declares("Error", <<"uint">>)>>],
    [functions |-> <<Takes(3, <<"odd">>, <<>>), Takes(2, <<"uint">>, <<"odd">>)>>,
     errors |-> <<>>]}

Raw(calldata) == [signature |-> {}, calldata |-> calldata]
By(rank, arguments) == [signature |-> {rank}, arguments |-> arguments]
Inputs == {Raw("bytes"), By(1, <<>>), By(2, <<"uint">>), By(2, <<>>), By(3, <<"odd">>)}

\* What a call reads of its caller does not depend on how its calldata came about.
WellFormed ==
    {r \in [target : Addresses, caller : Addresses, value : {"zero", "positive"},
            gas : {"fits"}, input : Inputs] :
        r.input.signature # {} => r.caller = "a" /\ r.value = "zero"}

\* One part at a time is malformed.
SampleRequests == WellFormed \cup UNION {
    {[r EXCEPT !.target = Malformed], [r EXCEPT !.caller = Malformed],
     [r EXCEPT !.value = "malformed"], [r EXCEPT !.gas = "malformed"],
     [r EXCEPT !.input = Raw("malformed")]} :
    r \in {w \in WellFormed : w.target = w.caller /\ w.input = Raw("bytes")}}

Bytes(selector, readable) == [selector |-> selector, readable |-> readable]
SampleData == {Bytes("none", {}), Bytes("own", {<<"uint">>, <<"address">>}),
               Bytes("Error", {<<"string">>, <<"uint">>}), Bytes("Error", {<<"uint">>})}

\* What the cfg puts for the constants.  TLC evaluates the definitions above once,
\* and these at each use.
MCDocuments == SampleDocuments
MCAbis == SampleAbis
MCRequests == SampleRequests
MCData == SampleData
=============================================================================
