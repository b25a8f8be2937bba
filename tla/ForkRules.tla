------------------------------ MODULE ForkRules ------------------------------
(* The rules a block is executed under, carried from the node to the browser: *)
(* resolve_anchor (provider/reth.rs) turns a header into an execution context  *)
(* and a block, the reader validates them, and SnapshotWorkspace::execute      *)
(* turns them into an EVM configuration.                                       *)
(*                                                                             *)
(* A SpecId and an EvmHardfork are their positions in the enums; a document has *)
(* the hardfork's name.  An optional field is {} or {a value}; the values stand *)
(* for any: only zero and presence matter.                                      *)
EXTENDS SnapshotFormat

CONSTANTS Values,       \* values of optional fields and of the gas limit
          Fractions,    \* blob base fee update fractions
          MaxFraction   \* u64::MAX, the largest blob fraction the EVM takes

ASSUME RulesAssumption == Values \subseteq Nat /\ Fractions \subseteq Nat /\ MaxFraction \in Nat

SpecIds == 0..14
SpecLondon == 8
SpecMerge == 9
SpecCancun == 11
SpecAmsterdam == 14

Option(values) == {{}} \cup {{value} : value \in values}

VARIABLES header,   \* what the node has: a header, its spec and its blob parameters
          anchor,   \* [execution, block] once resolved or parsed
          env,      \* the EVM's configuration and block environment
          phase

vars == <<header, anchor, env, phase>>

Headers ==
    [spec : SpecIds, baseFee : Option(Values), excessBlobGas : Option(Values),
     slotNumber : Option(Values), gasLimit : Values, blobParams : Option(Fractions)]

\* as_str, which a document is written with.
AsStr == <<"frontier", "homestead", "tangerine", "spuriousDragon", "byzantium",
           "constantinople", "petersburg", "istanbul", "muirGlacier", "berlin", "london",
           "arrowGlacier", "grayGlacier", "paris", "shanghai", "cancun", "prague", "osaka",
           "amsterdam">>

\* from_str, as an Option.  Its table lists the names in the order of the enum.
FromStr(name) ==
    {position - 1 : position \in {i \in 1..19 : name =
        <<"frontier", "homestead", "tangerine", "spuriousDragon", "byzantium",
          "constantinople", "petersburg", "istanbul", "muirGlacier", "berlin", "london",
          "arrowGlacier", "grayGlacier", "paris", "shanghai", "cancun", "prague", "osaka",
          "amsterdam">>[i]}}

\* Execution contexts and blocks a document may hold.
Documents ==
    [execution : [hardfork : Range(AsStr) \cup {"latest"}, blobFraction : Option(Fractions)],
     block : [baseFee : Option(Values), prevRandao : Option(Values),
              excessBlobGas : Option(Values), slotNumber : Option(Values), gasLimit : Values]]

-----------------------------------------------------------------------------
(* resolve_anchor *)

\* [defect] Shanghai is taken for the merge.
HardforkShanghaiAsMerge(spec) ==
    <<0, 1, 2, 3, 4, 6, 7, 9, 10, 13, 13, 15, 16, 17, 18>>[spec + 1]

\* The glacier forks and Constantinople have no SpecId of their own.
HardforkFromSpecId(spec) ==
    <<0, 1, 2, 3, 4, 6, 7, 9, 10, 13, 14, 15, 16, 17, 18>>[spec + 1]

\* [defect] the mix hash counts as randao only after the merge block's fork.
PrevRandaoAfterMerge(spec) == IF spec > SpecMerge THEN {1} ELSE {}

\* header.mix_hash, which every header has.
PrevRandao(spec) == IF spec >= SpecMerge THEN {1} ELSE {}

Resolved(h) ==
    LET cancun == h.spec >= SpecCancun
    IN [execution |-> [hardfork |-> HardforkFromSpecId(h.spec),
                       blobFraction |-> IF cancun THEN h.blobParams ELSE {}],
        block |-> [baseFee |-> h.baseFee, prevRandao |-> PrevRandao(h.spec),
                   excessBlobGas |-> IF cancun THEN h.excessBlobGas ELSE {},
                   slotNumber |-> IF h.spec >= SpecAmsterdam THEN h.slotNumber ELSE {},
                   gasLimit |-> h.gasLimit]]

\* The anchor is validated, and written.
Resolve ==
    /\ phase = "header"
    /\ LET resolved == {Resolved(h) : h \in header}
       IN /\ phase' = IF \E h \in header : h.spec >= SpecCancun /\ h.blobParams = {}
                      THEN "no blob parameters"
                      ELSE IF \E a \in resolved : ~ValidForBlock(a.execution, a.block)
                      THEN "refused" ELSE "exported"
          /\ anchor' = {[a EXCEPT !.execution.hardfork = AsStr[@ + 1]] : a \in resolved}
    /\ UNCHANGED <<header, env>>

-----------------------------------------------------------------------------
(* The reader and execute *)

\* from_slice and Snapshot::validate, of an exported document or of any other.
Load ==
    /\ phase \in {"exported", "document"}
    /\ anchor' = UNION {{[a EXCEPT !.execution.hardfork = fork] : fork \in FromStr(a.execution.hardfork)}
                        : a \in anchor}
    /\ phase' = IF \E a \in anchor' : ValidForBlock(a.execution, a.block) THEN "loaded" ELSE "refused"
    /\ UNCHANGED <<header, env>>

\* [defect] the last glacier fork is taken for the merge.
SpecIdGlacierAsMerge(hardfork) ==
    <<0, 1, 2, 3, 4, 5, 5, 6, 6, 7, 8, 8, 9, 9, 10, 11, 12, 13, 14>>[hardfork + 1]

SpecId(hardfork) ==
    <<0, 1, 2, 3, 4, 5, 5, 6, 6, 7, 8, 8, 8, 9, 10, 11, 12, 13, 14>>[hardfork + 1]

\* The configuration and BlockEnv of a call; an EVM has no absent base fee or slot.
Environment(a) ==
    [spec |-> SpecId(a.execution.hardfork),
     baseFee |-> IF a.block.baseFee = {} THEN {0} ELSE a.block.baseFee,
     prevRandao |-> a.block.prevRandao,
     blobGasAndPrice |-> a.block.excessBlobGas \X a.execution.blobFraction,
     slot |-> IF a.block.slotNumber = {} THEN {0} ELSE a.block.slotNumber]

Execute ==
    /\ phase = "loaded"
    /\ IF \E a \in anchor : \E fraction \in a.execution.blobFraction : fraction > MaxFraction
       THEN phase' = "fraction overflow" /\ UNCHANGED env
       ELSE /\ phase' = "executed"
            /\ env' = {Environment(a) : a \in anchor}
    /\ UNCHANGED <<header, anchor>>

-----------------------------------------------------------------------------

\* An export starts from a header, a load from a document of any origin.
Init ==
    /\ env = {}
    /\ \/ /\ phase = "header" /\ anchor = {}
          /\ \E h \in Headers : header = {h}
       \/ /\ phase = "document" /\ header = {}
          /\ \E d \in Documents : anchor = {d}

Next == Resolve \/ Load \/ Execute

Spec == Init /\ [][Next]_vars

-----------------------------------------------------------------------------
(* Properties *)

\* A call on an exported snapshot runs under the block's own fork, base fee and
\* blob price, though the fork went through four tables in three crates, one of them
\* from a name, and hardforks outnumber SpecIds (reth.rs:315-333, model.rs:29-88,
\* workspace.rs:356-376).
RulesKept ==
    \A h \in header, e \in env :
        /\ e.spec = h.spec
        /\ e.baseFee = IF h.baseFee = {} THEN {0} ELSE h.baseFee
        /\ e.blobGasAndPrice =
              IF h.spec < SpecCancun THEN {} ELSE h.excessBlobGas \X h.blobParams

\* No valid document leaves the EVM without a field its fork demands, nor with
\* one its fork does not know (workspace.rs:203-224).
EvmFieldsFitFork ==
    \A e \in env :
        /\ e.spec >= SpecMerge <=> e.prevRandao # {}
        /\ e.spec >= SpecCancun <=> e.blobGasAndPrice # {}

\* A header as consensus makes it is exported, and what is exported loads:
\* validation never refuses the program's own output (reth.rs:155-191).
WellFormed(h) ==
    /\ h.gasLimit # 0
    /\ h.spec >= SpecLondon <=> h.baseFee # {}
    /\ h.spec >= SpecCancun <=> h.excessBlobGas # {}
    /\ h.spec >= SpecCancun => h.blobParams \notin {{}, {0}}
    /\ h.spec >= SpecAmsterdam <=> h.slotNumber # {}
WellFormedLoads ==
    \A h \in header : WellFormed(h) => phase \notin {"refused", "no blob parameters"}
===============================================================================
