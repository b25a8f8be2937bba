----------------------------- MODULE Format_proofs -----------------------------
(* The conversions of the document format: the rules of a block, which survive *)
(* the way from the node to the browser whatever its fees and blob parameters   *)
(* are, and the texts of its values, in any base and at any width.              *)
(*                                                                              *)
(* The argument for the rules: the four tables agree on every fork, and         *)
(* validation keeps the fields in step with the fork.  For the texts: writing   *)
(* by division and reading digit by digit are inverse, by induction on the      *)
(* number (a set of numbers has a least one, so there is no least               *)
(* counterexample); each reader then takes of a text a value of its kind, and   *)
(* of a written one the value it was written of.                                *)
EXTENDS ForkRules, HexText, SequenceTheorems, WellFoundedInduction, TLAPS

-----------------------------------------------------------------------------
(* The tables *)

\* A name is read as the one hardfork that is written with it.
LEMMA NamesAreRead ==
    /\ \A fork \in Hardforks : FromStr(AsStr[fork + 1]) = {fork}
    /\ FromStr("latest") = {}
<1>1. FromStr("latest") = {}
  BY DEF FromStr
<1>2. \A i, j \in 1..19 : AsStr[i] = AsStr[j] => i = j
  BY DEF AsStr
<1>3. \A fork \in Hardforks : FromStr(AsStr[fork + 1]) = {fork}
  BY <1>2 DEF FromStr, Hardforks, AsStr
<1>4. QED BY <1>1, <1>3

\* The node's forks have a hardfork each, and it is read back as that fork; the
\* forks that bring a field are where they were.
LEMMA TablesAgree ==
    /\ \A spec \in SpecIds :
          /\ HardforkFromSpecId(spec) \in Hardforks
          /\ SpecId(HardforkFromSpecId(spec)) = spec
          /\ HardforkFromSpecId(spec) >= London <=> spec >= SpecLondon
          /\ HardforkFromSpecId(spec) >= Paris <=> spec >= SpecMerge
          /\ HardforkFromSpecId(spec) >= Cancun <=> spec >= SpecCancun
          /\ HardforkFromSpecId(spec) >= Amsterdam <=> spec >= SpecAmsterdam
    /\ \A fork \in Hardforks :
          /\ SpecId(fork) \in SpecIds
          /\ SpecId(fork) >= SpecMerge <=> fork >= Paris
          /\ SpecId(fork) >= SpecCancun <=> fork >= Cancun
BY DEF SpecIds, Hardforks, HardforkFromSpecId, SpecId, London, Paris, Cancun, Amsterdam,
       SpecLondon, SpecMerge, SpecCancun, SpecAmsterdam

-----------------------------------------------------------------------------
(* The inductive invariant *)

Blocks == [baseFee : Option(Values), prevRandao : Option(Values \cup {1}),
           excessBlobGas : Option(Values), slotNumber : Option(Values), gasLimit : Values]

\* What a document says once parsed.
Anchors == [execution : [hardfork : Hardforks, blobFraction : Option(Fractions)], block : Blocks]

Named(a) == [a EXCEPT !.execution.hardfork = AsStr[@ + 1]]

\* An anchor that passed validation; an exported one is its header's.
Passed(a) ==
    /\ a \in Anchors /\ ValidForBlock(a.execution, a.block)
    /\ \A h \in header : a = Resolved(h)

RulesInv ==
    /\ header = {} \/ \E h \in Headers : header = {h}
    /\ phase = "header" => \E h \in Headers : header = {h}
    /\ phase = "document" => header = {} /\ \E d \in Documents : anchor = {d}
    /\ phase = "exported" =>
          \E h \in Headers : header = {h} /\ anchor = {Named(Resolved(h))} /\ Passed(Resolved(h))
    /\ phase = "loaded" => \E a \in Anchors : anchor = {a} /\ Passed(a)
    /\ IF phase = "executed" THEN \E a \in Anchors : env = {Environment(a)} /\ Passed(a)
       ELSE env = {}
    /\ phase \in {"refused", "no blob parameters"} => \A h \in header : ~WellFormed(h)

-----------------------------------------------------------------------------
(* Resolving a header *)

LEMMA ResolvedIsTyped ==
    ASSUME NEW h \in Headers
    PROVE  Resolved(h) \in Anchors /\ Resolved(h).execution.hardfork = HardforkFromSpecId(h.spec)
<1>1. h.spec \in SpecIds /\ HardforkFromSpecId(h.spec) \in Hardforks
  BY TablesAgree DEF Headers
<1>2. PrevRandao(h.spec) \in Option(Values \cup {1})
  BY DEF PrevRandao, Option
<1>3. {} \in Option(Fractions) /\ {} \in Option(Values)
  BY DEF Option
<1>4. QED BY <1>1, <1>2, <1>3 DEF Resolved, Anchors, Blocks, Headers

\* Validation takes every header that consensus makes (reth.rs:155-191).
LEMMA WellFormedIsValid ==
    ASSUME NEW h \in Headers, WellFormed(h)
    PROVE  /\ ValidForBlock(Resolved(h).execution, Resolved(h).block)
           /\ ~(h.spec >= SpecCancun /\ h.blobParams = {})
<1> DEFINE fork == HardforkFromSpecId(h.spec)
<1>1. /\ fork >= London <=> h.spec >= SpecLondon
      /\ fork >= Paris <=> h.spec >= SpecMerge
      /\ fork >= Cancun <=> h.spec >= SpecCancun
      /\ fork >= Amsterdam <=> h.spec >= SpecAmsterdam
  BY TablesAgree DEF Headers
<1> HIDE DEF fork
<1>2. /\ h.gasLimit # 0
      /\ h.spec >= SpecLondon <=> h.baseFee # {}
      /\ h.spec >= SpecCancun <=> h.excessBlobGas # {}
      /\ h.spec >= SpecCancun => h.blobParams # {} /\ h.blobParams # {0}
      /\ h.spec >= SpecAmsterdam <=> h.slotNumber # {}
  BY DEF WellFormed
<1>3. h.spec >= SpecMerge <=> PrevRandao(h.spec) # {}
  BY DEF PrevRandao
<1>4. /\ Resolved(h).execution.hardfork = fork
      /\ Resolved(h).execution.blobFraction = IF h.spec >= SpecCancun THEN h.blobParams ELSE {}
      /\ Resolved(h).block.gasLimit = h.gasLimit /\ Resolved(h).block.baseFee = h.baseFee
      /\ Resolved(h).block.prevRandao = PrevRandao(h.spec)
      /\ Resolved(h).block.excessBlobGas = IF h.spec >= SpecCancun THEN h.excessBlobGas ELSE {}
      /\ Resolved(h).block.slotNumber = IF h.spec >= SpecAmsterdam THEN h.slotNumber ELSE {}
  BY DEF Resolved, fork
<1>5. ForkFieldsValid(Resolved(h).execution, Resolved(h).block)
  BY <1>1, <1>2, <1>3, <1>4 DEF ForkFieldsValid, FieldFits
<1>6. QED BY <1>2, <1>4, <1>5 DEF ValidForBlock

LEMMA ResolveStep ==
    ASSUME RulesInv, Resolve
    PROVE  RulesInv'
<1>1. PICK h \in Headers : header = {h}
  BY DEF RulesInv, Resolve
<1>2. header' = header /\ env' = {} /\ phase = "header"
  BY DEF Resolve, RulesInv
<1> DEFINE missing == h.spec >= SpecCancun /\ h.blobParams = {}
           valid == ValidForBlock(Resolved(h).execution, Resolved(h).block)
<1>3. /\ phase' = IF missing THEN "no blob parameters" ELSE IF ~valid THEN "refused" ELSE "exported"
      /\ anchor' = {Named(Resolved(h))}
  BY <1>1 DEF Resolve, Named
<1>4. WellFormed(h) => valid /\ ~missing
  BY WellFormedIsValid
<1>5. valid => Passed(Resolved(h))'
  BY <1>1, <1>2, ResolvedIsTyped DEF Passed
<1> HIDE DEF valid, missing
<1>6. phase' = "exported" => valid
  BY <1>3
<1>7. QED BY <1>1, <1>2, <1>3, <1>4, <1>5, <1>6 DEF RulesInv

-----------------------------------------------------------------------------
(* Reading and executing *)

LEMMA LoadStep ==
    ASSUME RulesInv, Load
    PROVE  RulesInv'
<1>1. header' = header /\ env' = {} /\ phase \in {"exported", "document"}
      /\ phase' \in {"loaded", "refused"}
  BY DEF Load, RulesInv
<1> DEFINE ParsedFrom(a) ==
             {[a EXCEPT !.execution.hardfork = fork] : fork \in FromStr(a.execution.hardfork)}
<1>2. /\ anchor' = UNION {ParsedFrom(a) : a \in anchor}
      /\ phase' = IF \E a \in anchor' : ValidForBlock(a.execution, a.block) THEN "loaded" ELSE "refused"
  BY DEF Load
<1>3. CASE phase = "exported"
  <2>1. PICK h \in Headers :
           header = {h} /\ anchor = {Named(Resolved(h))} /\ Passed(Resolved(h))
    BY <1>3 DEF RulesInv
  <2> DEFINE a == Resolved(h)
  <2>2. a \in Anchors /\ ValidForBlock(a.execution, a.block)
    BY <2>1 DEF Passed
  <2>3. Passed(a)'
    BY <1>1, <2>1, <2>2 DEF Passed
  <2> HIDE DEF a
  <2>4. a.execution.hardfork \in Hardforks
    BY <2>2 DEF Anchors
  <2>5. Named(a).execution.hardfork = AsStr[a.execution.hardfork + 1]
        /\ [Named(a) EXCEPT !.execution.hardfork = a.execution.hardfork] = a
    BY <2>2 DEF Named, Anchors
  <2>6. ParsedFrom(Named(a)) = {a}
    BY <2>4, <2>5, NamesAreRead
  <2>7. anchor' = {a}
    BY <1>2, <2>1, <2>6 DEF a
  <2>8. phase' = "loaded"
    BY <1>2, <2>2, <2>7
  <2>9. QED BY <1>1, <2>2, <2>3, <2>7, <2>8 DEF RulesInv
<1>4. CASE phase = "document"
  <2>1. PICK d \in Documents : header = {} /\ anchor = {d}
    BY <1>4 DEF RulesInv
  <2>2. anchor' = ParsedFrom(d)
    BY <1>2, <2>1
  <2>3. \/ FromStr(d.execution.hardfork) = {}
        \/ \E fork \in Hardforks : FromStr(d.execution.hardfork) = {fork}
    <3>1. d.execution.hardfork = "latest" \/ \E fork \in Hardforks : d.execution.hardfork = AsStr[fork + 1]
      <4>1. d.execution.hardfork \in Range(AsStr) \cup {"latest"}
        BY DEF Documents
      <4>2. \A i \in DOMAIN AsStr : i - 1 \in Hardforks /\ (i - 1) + 1 = i
        BY DEF AsStr, Hardforks
      <4>3. QED BY <4>1, <4>2 DEF Range
    <3>2. QED BY <3>1, NamesAreRead
  <2>4. CASE FromStr(d.execution.hardfork) = {}
    <3>1. anchor' = {}
      BY <2>2, <2>4
    <3>2. phase' = "refused"
      BY <1>2, <3>1
    <3>3. QED BY <1>1, <2>1, <3>2 DEF RulesInv
  <2>5. CASE \E fork \in Hardforks : FromStr(d.execution.hardfork) = {fork}
    <3>1. PICK fork \in Hardforks : FromStr(d.execution.hardfork) = {fork}
      BY <2>5
    <3> DEFINE a == [d EXCEPT !.execution.hardfork = fork]
    <3>2. a \in Anchors
      BY <3>1 DEF Documents, Anchors, Blocks, Option
    <3>3. anchor' = {a}
      BY <2>2, <3>1
    <3> HIDE DEF a
    <3>4. phase' = "loaded" => Passed(a)'
      BY <1>1, <1>2, <2>1, <3>2, <3>3 DEF Passed
    <3>5. QED BY <1>1, <2>1, <3>2, <3>3, <3>4 DEF RulesInv
  <2>6. QED BY <2>3, <2>4, <2>5
<1>5. QED BY <1>1, <1>3, <1>4

LEMMA ExecuteStep ==
    ASSUME RulesInv, Execute
    PROVE  RulesInv'
<1>1. header' = header /\ anchor' = anchor /\ phase = "loaded"
      /\ (phase' = "fraction overflow" \/ phase' = "executed")
  BY DEF Execute
<1>2. PICK a \in Anchors : anchor = {a} /\ Passed(a)
  BY <1>1 DEF RulesInv
<1>3. Passed(a)'
  BY <1>1, <1>2 DEF Passed
<1>4. IF phase' = "executed" THEN env' = {Environment(a)} ELSE env' = env
  <2>1. \/ phase' = "fraction overflow" /\ env' = env
        \/ phase' = "executed" /\ env' = {Environment(b) : b \in anchor}
    BY DEF Execute
  <2>2. QED BY <1>2, <2>1
<1>5. QED BY <1>1, <1>2, <1>3, <1>4 DEF RulesInv

LEMMA RulesInvariant == Spec => []RulesInv
<1>1. Init => RulesInv
  BY DEF Init, RulesInv
<1>2. RulesInv /\ UNCHANGED vars => RulesInv'
  BY DEF RulesInv, Passed, vars
<1>3. RulesInv /\ [Next]_vars => RulesInv'
  BY <1>2, ResolveStep, LoadStep, ExecuteStep DEF Next
<1>4. QED BY <1>1, <1>3, PTL DEF Spec

-----------------------------------------------------------------------------
(* The properties *)

\* A call on an exported snapshot runs under the block's own fork, base fee and
\* blob price, for every header, spec and blob schedule (reth.rs:315-333,
\* model.rs:29-88, workspace.rs:356-376).
THEOREM RulesAreKept == Spec => []RulesKept
<1>1. RulesInv => RulesKept
  <2> SUFFICES ASSUME RulesInv, NEW h \in header, NEW e \in env
               PROVE  /\ e.spec = h.spec
                      /\ e.baseFee = IF h.baseFee = {} THEN {0} ELSE h.baseFee
                      /\ e.blobGasAndPrice =
                            IF h.spec < SpecCancun THEN {} ELSE h.excessBlobGas \X h.blobParams
    BY DEF RulesKept
  <2>1. PICK a \in Anchors : env = {Environment(a)} /\ Passed(a)
    BY DEF RulesInv
  <2>2. e = Environment(a) /\ a = Resolved(h) /\ h \in Headers
    BY <2>1 DEF Passed, RulesInv
  <2>3. h.spec \in SpecIds /\ a.execution.hardfork = HardforkFromSpecId(h.spec)
    BY <2>2, ResolvedIsTyped DEF Headers
  <2>4. e.spec = h.spec
    BY <2>2, <2>3, TablesAgree DEF Environment
  <2>5. e.baseFee = IF h.baseFee = {} THEN {0} ELSE h.baseFee
    BY <2>2 DEF Environment, Resolved
  <2>6. /\ a.block.excessBlobGas = IF h.spec >= SpecCancun THEN h.excessBlobGas ELSE {}
        /\ a.execution.blobFraction = IF h.spec >= SpecCancun THEN h.blobParams ELSE {}
    BY <2>2 DEF Resolved
  <2>7. e.blobGasAndPrice = a.block.excessBlobGas \X a.execution.blobFraction
    BY <2>2 DEF Environment
  <2>8. {} \X {} = {}
    OBVIOUS
  <2>9. h.spec < SpecCancun <=> ~(h.spec >= SpecCancun)
    BY <2>3 DEF SpecIds, SpecCancun
  <2>10. QED BY <2>4, <2>5, <2>6, <2>7, <2>8, <2>9
<1>2. QED BY <1>1, RulesInvariant, PTL

\* No valid document leaves the EVM without a field its fork demands, nor with
\* one its fork does not know (workspace.rs:203-224).
THEOREM FieldsFitFork == Spec => []EvmFieldsFitFork
<1>1. RulesInv => EvmFieldsFitFork
  <2> SUFFICES ASSUME RulesInv, NEW e \in env
               PROVE  /\ e.spec >= SpecMerge <=> e.prevRandao # {}
                      /\ e.spec >= SpecCancun <=> e.blobGasAndPrice # {}
    BY DEF EvmFieldsFitFork
  <2>1. PICK a \in Anchors : env = {Environment(a)} /\ Passed(a)
    BY DEF RulesInv
  <2>2. a.execution.hardfork \in Hardforks /\ ForkFieldsValid(a.execution, a.block)
    BY <2>1 DEF Passed, Anchors, ValidForBlock
  <2>3. /\ a.execution.hardfork >= Paris <=> a.block.prevRandao # {}
        /\ a.execution.hardfork >= Cancun <=> a.block.excessBlobGas # {}
        /\ a.execution.hardfork >= Cancun <=> a.execution.blobFraction # {}
    BY <2>2 DEF ForkFieldsValid, FieldFits
  <2>4. /\ e.spec = SpecId(a.execution.hardfork) /\ e.prevRandao = a.block.prevRandao
        /\ e.blobGasAndPrice = a.block.excessBlobGas \X a.execution.blobFraction
    BY <2>1 DEF Environment
  <2>5. (e.blobGasAndPrice # {}) <=> (a.block.excessBlobGas # {} /\ a.execution.blobFraction # {})
    <3>1. ASSUME NEW S, NEW T PROVE (S \X T # {}) <=> (S # {} /\ T # {})
      <4>1. ASSUME NEW s \in S, NEW t \in T PROVE <<s, t>> \in S \X T
        OBVIOUS
      <4>2. \A pair \in S \X T : pair[1] \in S /\ pair[2] \in T
        OBVIOUS
      <4>3. QED BY <4>1, <4>2, Zenon
    <3>2. QED BY <2>4, <3>1
  <2>6. QED BY <2>2, <2>3, <2>4, <2>5, TablesAgree
<1>2. QED BY <1>1, RulesInvariant, PTL

\* Validation never refuses the exporter's own output: a header as consensus
\* makes it is exported, and what is exported loads (reth.rs:155-191).
THEOREM ExportsLoad == Spec => []WellFormedLoads
<1>1. RulesInv => WellFormedLoads
  BY DEF RulesInv, WellFormedLoads
<1>2. QED BY <1>1, RulesInvariant, PTL
-----------------------------------------------------------------------------
(* Induction: a set of numbers has a least one *)

Less == {p \in Nat \X Nat : \E a, b \in Nat : p = <<a, b>> /\ a < b}

LEMMA LeastNat ==
    ASSUME NEW T \in SUBSET Nat, T # {}
    PROVE  \E x \in T : \A y \in T : x <= y
<1>1. Less = OpToRel(<, Nat)
  BY DEF Less, OpToRel
<1>2. IsWellFoundedOn(Less, Nat)
  BY <1>1, NatLessThanWellFounded
<1>3. \E x \in T : \A y \in T : <<y, x>> \notin Less
  BY <1>2, WFMin
<1>4. \A x, y \in Nat : <<y, x>> \notin Less => x <= y
  BY DEF Less
<1>5. QED BY <1>3, <1>4

-----------------------------------------------------------------------------
(* Division *)

LEMMA Division ==
    ASSUME NEW v \in Nat, NEW b \in Nat, b > 1
    PROVE  /\ v \div b \in Nat /\ v % b \in 0..b - 1
           /\ v = b * (v \div b) + (v % b)
           /\ v >= b => v \div b < v /\ v \div b > 0
<1>1. v \div b \in Int /\ v \div b >= 0 /\ v % b \in 0..b - 1
  OBVIOUS
<1>2. \A q, r \in Int : q = v \div b /\ r = v % b => v = b * q + r
  OBVIOUS
<1>3. v >= b => v \div b < v /\ v \div b > 0
  OBVIOUS
<1>4. QED BY <1>1, <1>2, <1>3

LEMMA DivisionUnique ==
    ASSUME NEW q \in Nat, NEW b \in Nat, b > 1, NEW r \in Nat, r < b
    PROVE  (b * q + r) \div b = q /\ (b * q + r) % b = r
OBVIOUS

-----------------------------------------------------------------------------
(* The number of a text *)

\* One turn of the reader's loop.
Turn(base, c, g, i) ==
    IF i = 0 THEN 0
    ELSE IF c[i] = Underscore THEN g[i - 1] ELSE base * g[i - 1] + c[i]

LEMMA PrefixNumbersAre ==
    ASSUME NEW base \in Nat, NEW c \in Seq(Nat)
    PROVE  PrefixNumbers(base, c) =
             [i \in 0..Len(c) |-> Turn(base, c, PrefixNumbers(base, c), i)]
<1> DEFINE Loops(n) == \E g : g = [i \in 0..n |-> Turn(base, c, g, i)]
           Bad == {n \in 0..Len(c) : ~Loops(n)}
<1>0. Len(c) \in Nat
  OBVIOUS
<1>1. Loops(0)
  <2>1. [i \in 0..0 |-> 0] = [i \in 0..0 |-> Turn(base, c, [j \in 0..0 |-> 0], i)]
    BY DEF Turn
  <2>2. QED BY <2>1
<1>2. ASSUME NEW n \in 0..Len(c), n > 0, Loops(n - 1)
      PROVE  Loops(n)
  <2>1. PICK g : g = [i \in 0..n - 1 |-> Turn(base, c, g, i)]
    BY <1>2
  <2> DEFINE f == [i \in 0..n |-> IF i < n THEN g[i] ELSE Turn(base, c, g, n)]
  <2>2. \A i \in 0..n : f[i] = Turn(base, c, f, i)
    <3>1. TAKE i \in 0..n
    <3>2. i # 0 => f[i - 1] = g[i - 1]
      BY <1>0
    <3>3. Turn(base, c, f, i) = Turn(base, c, g, i)
      BY <3>2, <1>0 DEF Turn
    <3>4. i < n => i \in 0..n - 1
      BY <1>0
    <3>5. i < n => g[i] = Turn(base, c, g, i)
      BY <2>1, <3>4
    <3>6. CASE i < n
      BY <3>3, <3>5, <3>6
    <3>7. CASE i = n
      BY <3>3, <3>7, <1>0
    <3>8. QED BY <3>6, <3>7, <1>0
  <2>3. f = [i \in 0..n |-> Turn(base, c, f, i)]
    BY <2>2
  <2>4. QED BY <2>3
<1>3. Bad = {}
  <2>1. SUFFICES ASSUME Bad # {} PROVE FALSE
    OBVIOUS
  <2> HIDE DEF Loops
  <2>0. Bad \in SUBSET Nat
    BY <1>0
  <2> HIDE DEF Bad
  <2>2. PICK n \in Bad : \A m \in Bad : n <= m
    BY <2>0, <2>1, LeastNat
  <2> USE DEF Bad
  <2>3. n # 0
    BY <1>1
  <2>4. n - 1 \in 0..Len(c) /\ n - 1 \notin Bad
    BY <2>2, <2>3, <1>0
  <2>5. Loops(n)
    BY <2>3, <2>4, <1>2, <1>0
  <2>6. QED BY <2>5
<1>4. Loops(Len(c))
  <2> HIDE DEF Loops
  <2>1. QED BY <1>3, <1>0
<1>5. PrefixNumbers(base, c) =
        CHOOSE g : g = [i \in 0..Len(c) |-> Turn(base, c, g, i)]
  BY DEF PrefixNumbers, Turn
<1>6. QED BY <1>4, <1>5

LEMMA PrefixNumbersType ==
    ASSUME NEW base \in Nat, NEW c \in Seq(Nat)
    PROVE  PrefixNumbers(base, c) \in [0..Len(c) -> Nat]
<1> DEFINE g == PrefixNumbers(base, c)
           Bad == {n \in 0..Len(c) : g[n] \notin Nat}
<1>0. Len(c) \in Nat /\ \A i \in 1..Len(c) : c[i] \in Nat
  OBVIOUS
<1>1. g = [i \in 0..Len(c) |-> Turn(base, c, g, i)]
  BY PrefixNumbersAre
<1> HIDE DEF g
<1>2. SUFFICES ASSUME Bad # {} PROVE FALSE
  BY <1>1 DEF g
<1>a. Bad \in SUBSET Nat
  BY <1>0
<1> HIDE DEF Bad
<1>3. PICK n \in Bad : \A m \in Bad : n <= m
  BY <1>a, <1>2, LeastNat
<1> USE DEF Bad
<1>4. g[n] = Turn(base, c, g, n)
  BY <1>1, <1>3
<1>5. n # 0
  BY <1>4 DEF Turn
<1>6. n \in 1..Len(c) /\ n - 1 \in 0..Len(c) /\ n - 1 \notin Bad
  BY <1>3, <1>5, <1>0
<1>7. g[n - 1] \in Nat
  BY <1>6
<1>8. c[n] \in Nat /\ base * g[n - 1] + c[n] \in Nat
  <2>1. \A x, y, z \in Nat : x * y + z \in Nat
    OBVIOUS
  <2>2. QED BY <1>0, <1>6, <1>7, <2>1
<1>9. g[n] \in Nat
  BY <1>4, <1>5, <1>7, <1>8 DEF Turn
<1>10. QED BY <1>9

LEMMA NumberType ==
    ASSUME NEW base \in Nat, NEW c \in Seq(Nat)
    PROVE  NumberIn(base, c) \in Nat
BY PrefixNumbersType DEF NumberIn

LEMMA NumberOfNone ==
    ASSUME NEW base \in Nat
    PROVE  NumberIn(base, <<>>) = 0
<1>1. <<>> \in Seq(Nat) /\ Len(<<>>) = 0
  OBVIOUS
<1>2. PrefixNumbers(base, <<>>) = [i \in 0..0 |-> Turn(base, <<>>, PrefixNumbers(base, <<>>), i)]
  BY <1>1, PrefixNumbersAre
<1>3. QED BY <1>1, <1>2 DEF NumberIn, Turn

\* A digit more multiplies by the base.
LEMMA NumberAppend ==
    ASSUME NEW base \in Nat, NEW c \in Seq(Nat), NEW digit \in Nat, digit # Underscore
    PROVE  NumberIn(base, Append(c, digit)) = base * NumberIn(base, c) + digit
<1> DEFINE d == Append(c, digit)
           g == PrefixNumbers(base, c)
           h == PrefixNumbers(base, d)
           Bad == {n \in 0..Len(c) : g[n] # h[n]}
<1>0. /\ Len(c) \in Nat /\ d \in Seq(Nat) /\ Len(d) = Len(c) + 1 /\ d[Len(c) + 1] = digit
      /\ \A i \in 1..Len(c) : d[i] = c[i]
  OBVIOUS
<1>1. g = [i \in 0..Len(c) |-> Turn(base, c, g, i)]
  BY PrefixNumbersAre
<1>2. h = [i \in 0..Len(c) + 1 |-> Turn(base, d, h, i)]
  BY <1>0, PrefixNumbersAre
<1>3. NumberIn(base, c) = g[Len(c)] /\ NumberIn(base, d) = h[Len(c) + 1]
  BY <1>0 DEF NumberIn
<1> HIDE DEF d, g, h
<1>4. Bad = {}
  <2>1. SUFFICES ASSUME Bad # {} PROVE FALSE
    OBVIOUS
  <2>a. Bad \in SUBSET Nat
    BY <1>0
  <2> HIDE DEF Bad
  <2>2. PICK n \in Bad : \A m \in Bad : n <= m
    BY <2>a, <2>1, LeastNat
  <2> USE DEF Bad
  <2>b. n \in 0..Len(c) /\ n \in 0..Len(c) + 1
    BY <1>0
  <2>3. g[n] = Turn(base, c, g, n) /\ h[n] = Turn(base, d, h, n)
    BY <1>1, <1>2, <2>b
  <2>4. n # 0
    BY <2>2, <2>3 DEF Turn
  <2>5. n \in 1..Len(c) /\ n - 1 \in 0..Len(c) /\ n - 1 \notin Bad
    BY <2>2, <2>4, <1>0
  <2>6. QED BY <1>0, <2>2, <2>3, <2>5 DEF Turn
<1>5. h[Len(c) + 1] = Turn(base, d, h, Len(c) + 1)
  <2>1. Len(c) + 1 \in 0..Len(c) + 1
    BY <1>0
  <2>2. QED BY <1>2, <2>1
<1>6. h[Len(c)] = g[Len(c)]
  BY <1>0, <1>4
<1>7. QED BY <1>0, <1>3, <1>5, <1>6 DEF Turn, d

-----------------------------------------------------------------------------
(* The digits of a number *)

LEMMA BaseIsTwo == Base \in Nat /\ Base > 1
BY HexAssumption

\* One step of the recursion.
Numeral(g, value) ==
    IF value < Base THEN <<value>> ELSE Append(g[value \div Base], value % Base)

\* The recursion has a solution up to each number, and only one.
LEMMA NumeralsExist == \A n \in Nat : \E g : g = [v \in 0..n |-> Numeral(g, v)]
<1> DEFINE Has(n) == \E g : g = [v \in 0..n |-> Numeral(g, v)]
           Bad == {n \in Nat : ~Has(n)}
<1>1. Has(0)
  <2>1. [v \in 0..0 |-> <<0>>] = [v \in 0..0 |-> Numeral([w \in 0..0 |-> <<0>>], v)]
    BY BaseIsTwo DEF Numeral
  <2>2. QED BY <2>1
<1>2. ASSUME NEW n \in Nat, n > 0, Has(n - 1)
      PROVE  Has(n)
  <2>1. PICK g : g = [v \in 0..n - 1 |-> Numeral(g, v)]
    BY <1>2
  <2> DEFINE f == [v \in 0..n |-> IF v < n THEN g[v] ELSE Numeral(g, n)]
  <2>2. \A v \in 0..n : f[v] = Numeral(f, v)
    <3>1. TAKE v \in 0..n
    <3>2. v >= Base => v \div Base \in 0..n - 1
      <4>1. v \in Nat
        OBVIOUS
      <4>2. v >= Base => v \div Base \in Nat /\ v \div Base < v
        BY <4>1, BaseIsTwo, Division
      <4>3. QED BY <4>1, <4>2
    <3>3. v >= Base => f[v \div Base] = g[v \div Base]
      BY <3>2
    <3> HIDE DEF f
    <3>4. Numeral(f, v) = Numeral(g, v)
      BY <3>3, BaseIsTwo DEF Numeral
    <3>5. CASE v < n
      BY <2>1, <3>4, <3>5 DEF f
    <3>6. CASE v = n
      BY <3>4, <3>6 DEF f
    <3>7. QED BY <3>5, <3>6
  <2>3. f = [v \in 0..n |-> Numeral(f, v)]
    BY <2>2
  <2>4. QED BY <2>3
<1>3. Bad = {}
  <2>1. SUFFICES ASSUME Bad # {} PROVE FALSE
    OBVIOUS
  <2> HIDE DEF Has
  <2>2. Bad \in SUBSET Nat
    OBVIOUS
  <2> HIDE DEF Bad
  <2>3. PICK n \in Bad : \A m \in Bad : n <= m
    BY <2>1, <2>2, LeastNat
  <2> USE DEF Bad
  <2>4. n > 0 /\ n - 1 \in Nat /\ n - 1 \notin Bad
    BY <1>1, <2>3
  <2>5. Has(n)
    BY <2>4, <1>2
  <2>6. QED BY <2>5
<1>4. QED BY <1>3

LEMMA NumeralsAgree ==
    ASSUME NEW m \in Nat, NEW n \in Nat, NEW g, NEW h,
           g = [v \in 0..m |-> Numeral(g, v)], h = [v \in 0..n |-> Numeral(h, v)]
    PROVE  \A v \in Nat : v <= m /\ v <= n => g[v] = h[v]
<1> DEFINE Bad == {v \in Nat : v <= m /\ v <= n /\ g[v] # h[v]}
<1>1. SUFFICES ASSUME Bad # {} PROVE FALSE
  OBVIOUS
<1>2. Bad \in SUBSET Nat
  OBVIOUS
<1> HIDE DEF Bad
<1>3. PICK v \in Bad : \A w \in Bad : v <= w
  BY <1>1, <1>2, LeastNat
<1> USE DEF Bad
<1>4. g[v] = Numeral(g, v) /\ h[v] = Numeral(h, v)
  <2>1. v \in 0..m /\ v \in 0..n
    OBVIOUS
  <2>2. \A w \in 0..m : g[w] = Numeral(g, w)
    OBVIOUS
  <2>3. \A w \in 0..n : h[w] = Numeral(h, w)
    OBVIOUS
  <2>4. QED BY <2>1, <2>2, <2>3
<1>5. v >= Base => v \div Base \in Nat /\ v \div Base < v
  BY BaseIsTwo, Division
<1>6. v >= Base => g[v \div Base] = h[v \div Base]
  BY <1>3, <1>5
<1>7. QED BY <1>4, <1>6, BaseIsTwo DEF Numeral

LEMMA LowerHexIs == LowerHex = [v \in Nat |-> Numeral(LowerHex, v)]
<1> DEFINE Up(n) == CHOOSE g : g = [v \in 0..n |-> Numeral(g, v)]
           f == [v \in Nat |-> Up(v)[v]]
<1>1. ASSUME NEW n \in Nat PROVE Up(n) = [v \in 0..n |-> Numeral(Up(n), v)]
  BY NumeralsExist
<1> HIDE DEF Up
<1>2. \A v \in Nat : f[v] = Numeral(f, v)
  <2>1. TAKE v \in Nat
  <2>2. f[v] = Numeral(Up(v), v)
    BY <1>1
  <2>3. v >= Base => Up(v)[v \div Base] = f[v \div Base]
    <3>1. SUFFICES ASSUME v >= Base PROVE Up(v)[v \div Base] = f[v \div Base]
      OBVIOUS
    <3>2. v \div Base \in Nat /\ v \div Base <= v
      BY <3>1, BaseIsTwo, Division
    <3>3. \A w \in Nat : w <= v => Up(v)[w] = Up(w)[w]
      BY <1>1, NumeralsAgree
    <3>4. QED BY <3>2, <3>3
  <2> HIDE DEF f
  <2>4. QED BY <2>2, <2>3, BaseIsTwo DEF Numeral
<1>3. f = [v \in Nat |-> Numeral(f, v)]
  BY <1>2
<1>4. \E g : g = [v \in Nat |-> Numeral(g, v)]
  BY <1>3
<1>5. LowerHex = CHOOSE g : g = [v \in Nat |-> Numeral(g, v)]
  BY DEF LowerHex, Numeral
<1>6. QED BY <1>4, <1>5

\* A text the document's reader takes for a number.
Canonical(digits) ==
    /\ digits \in Seq(DigitsOnly) /\ digits # <<>>
    /\ Len(digits) > 1 => digits[1] # 0

LEMMA DigitsAreNumbers ==
    /\ DigitsOnly \subseteq Nat /\ Seq(DigitsOnly) \subseteq Seq(Nat)
    /\ \A digit \in DigitsOnly : digit # Underscore /\ Lowercase(digit) = digit
<1>1. DigitsOnly \subseteq Nat
  BY BaseIsTwo DEF DigitsOnly
<1>2. \A digit \in DigitsOnly : digit # Underscore /\ Lowercase(digit) = digit
  BY HexAssumption DEF DigitsOnly, Underscore, Lowercase
<1>3. \A s \in Seq(DigitsOnly) : s \in Seq(Nat)
  <2>1. TAKE s \in Seq(DigitsOnly)
  <2>2. Len(s) \in Nat /\ s \in [1..Len(s) -> DigitsOnly]
    OBVIOUS
  <2>3. s \in [1..Len(s) -> Nat]
    BY <1>1, <2>2
  <2>4. QED BY <2>2, <2>3
<1>4. QED BY <1>1, <1>2, <1>3

LEMMA NumberOfOne ==
    ASSUME NEW digit \in DigitsOnly
    PROVE  Number(<<digit>>) = digit
<1>1. <<digit>> = Append(<<>>, digit) /\ <<>> \in Seq(Nat)
  OBVIOUS
<1>2. digit \in Nat /\ digit # Underscore /\ Base * 0 + digit = digit
  BY DigitsAreNumbers, BaseIsTwo
<1>3. NumberIn(Base, Append(<<>>, digit)) = Base * NumberIn(Base, <<>>) + digit
  BY <1>1, <1>2, BaseIsTwo, NumberAppend
<1>4. QED BY <1>1, <1>2, <1>3, BaseIsTwo, NumberOfNone DEF Number

LEMMA NumberOfMore ==
    ASSUME NEW digits \in Seq(DigitsOnly), NEW digit \in DigitsOnly
    PROVE  Number(Append(digits, digit)) = Base * Number(digits) + digit
BY DigitsAreNumbers, BaseIsTwo, NumberAppend DEF Number

\* A number whose first digit is not zero is not zero.
LEMMA NumberIsPositive ==
    ASSUME NEW digits \in Seq(DigitsOnly), digits # <<>>, digits[1] # 0
    PROVE  Number(digits) > 0
<1> DEFINE g == PrefixNumbers(Base, digits)
           Bad == {n \in 1..Len(digits) : ~(g[n] > 0)}
<1>1. /\ Len(digits) \in Nat /\ Len(digits) >= 1 /\ digits \in Seq(Nat)
      /\ \A i \in 1..Len(digits) : digits[i] \in Nat /\ digits[i] # Underscore
  BY DigitsAreNumbers
<1>2. g = [i \in 0..Len(digits) |-> Turn(Base, digits, g, i)]
  BY <1>1, BaseIsTwo, PrefixNumbersAre
<1>3. g \in [0..Len(digits) -> Nat]
  BY <1>1, BaseIsTwo, PrefixNumbersType
<1>4. Number(digits) = g[Len(digits)]
  BY DEF Number, NumberIn
<1> HIDE DEF g
<1>5. Bad = {}
  <2>1. SUFFICES ASSUME Bad # {} PROVE FALSE
    OBVIOUS
  <2>2. Bad \in SUBSET Nat
    BY <1>1
  <2> HIDE DEF Bad
  <2>3. PICK n \in Bad : \A m \in Bad : n <= m
    BY <2>1, <2>2, LeastNat
  <2> USE DEF Bad
  <2>4. n \in 1..Len(digits) /\ n \in 0..Len(digits) /\ n - 1 \in 0..Len(digits)
    BY <1>1
  <2>5. g[n] = Base * g[n - 1] + digits[n]
    BY <1>1, <1>2, <2>4 DEF Turn
  <2>6. g[n - 1] \in Nat /\ digits[n] \in Nat /\ Base \in Nat /\ Base > 1
    BY <1>1, <1>3, <2>4, BaseIsTwo
  <2>7. \A a, b, c \in Nat : a > 1 /\ (b > 0 \/ c > 0) => a * b + c > 0
    OBVIOUS
  <2>8. g[n - 1] > 0 \/ digits[n] > 0
    <3>1. n = 1 => digits[n] > 0
      BY <2>6
    <3>2. n > 1 => n - 1 \in 1..Len(digits) /\ n - 1 \notin Bad
      BY <1>1, <2>3, <2>4
    <3>3. QED BY <3>1, <3>2, <2>4
  <2>9. g[n] > 0
    BY <2>5, <2>6, <2>7, <2>8
  <2>10. QED BY <2>9
<1>6. QED BY <1>1, <1>4, <1>5

\* What LowerHex writes is canonical and reads as the number.
LEMMA NumeralOfValue ==
    \A value \in Nat : Canonical(LowerHex[value]) /\ Number(LowerHex[value]) = value
<1> DEFINE Good(v) == Canonical(LowerHex[v]) /\ Number(LowerHex[v]) = v
           Bad == {v \in Nat : ~Good(v)}
<1>1. SUFFICES ASSUME Bad # {} PROVE FALSE
  OBVIOUS
<1> HIDE DEF Good
<1>2. Bad \in SUBSET Nat
  OBVIOUS
<1> HIDE DEF Bad
<1>3. PICK v \in Bad : \A w \in Bad : v <= w
  BY <1>1, <1>2, LeastNat
<1> USE DEF Bad
<1>4. v \in Nat /\ LowerHex[v] = Numeral(LowerHex, v)
  BY LowerHexIs
<1>5. CASE v < Base
  <2>1. LowerHex[v] = <<v>> /\ v \in DigitsOnly
    BY <1>4, <1>5, BaseIsTwo DEF Numeral, DigitsOnly
  <2>2. Canonical(<<v>>)
    BY <2>1 DEF Canonical
  <2>3. Good(v)
    BY <2>1, <2>2, NumberOfOne DEF Good
  <2>4. QED BY <2>3
<1>6. CASE v >= Base
  <2> DEFINE q == v \div Base
             s == LowerHex[q]
  <2>1. /\ q \in Nat /\ q < v /\ q > 0 /\ v % Base \in DigitsOnly
        /\ v = Base * q + (v % Base)
    BY <1>4, <1>6, BaseIsTwo, Division DEF DigitsOnly
  <2>2. LowerHex[v] = Append(s, v % Base)
    BY <1>4, <1>6, BaseIsTwo DEF Numeral
  <2> HIDE DEF q, s
  <2>3. Good(q)
    BY <1>3, <1>4, <2>1
  <2>4. Canonical(s) /\ Number(s) = q
    BY <2>3 DEF Good, s
  <2>5. s[1] # 0
    <3>1. Len(s) > 1 => s[1] # 0
      BY <2>4 DEF Canonical
    <3>2. Len(s) = 1 => s = <<s[1]>> /\ s[1] \in DigitsOnly
      BY <2>4 DEF Canonical
    <3>3. Len(s) = 1 => s[1] = q
      BY <2>4, <3>2, NumberOfOne
    <3>4. Len(s) \in Nat /\ Len(s) # 0
      BY <2>4 DEF Canonical
    <3>5. q # 0
      BY <2>1
    <3>6. Len(s) = 1 \/ Len(s) > 1
      <4>1. \A n \in Nat : n = 0 \/ n = 1 \/ n > 1
        OBVIOUS
      <4>2. QED BY <3>4, <4>1
    <3>7. QED BY <3>1, <3>3, <3>5, <3>6
  <2>6. Canonical(Append(s, v % Base))
    <3>1. s \in Seq(DigitsOnly) /\ Len(s) >= 1
      BY <2>4 DEF Canonical
    <3>2. Append(s, v % Base)[1] = s[1]
      BY <3>1, <2>1
    <3>3. QED BY <2>1, <2>5, <3>1, <3>2 DEF Canonical
  <2>7. Number(Append(s, v % Base)) = v
    BY <2>1, <2>4, NumberOfMore DEF Canonical
  <2>8. Good(v)
    BY <2>2, <2>6, <2>7 DEF Good
  <2>9. QED BY <2>8
<1>7. QED BY <1>4, <1>5, <1>6, BaseIsTwo

\* Nothing else is canonical and reads as the number.
LEMMA OneNumeral ==
    \A digits : Canonical(digits) => LowerHex[Number(digits)] = digits
<1> DEFINE Good(v) == \A d : Canonical(d) /\ Number(d) = v => LowerHex[v] = d
           Bad == {v \in Nat : ~Good(v)}
<1>1. ASSUME NEW v \in Nat, \A w \in Nat : w < v => Good(w)
      PROVE  Good(v)
  <2>1. SUFFICES ASSUME NEW d, Canonical(d), Number(d) = v
                 PROVE  LowerHex[v] = d
    OBVIOUS
  <2>2. d \in Seq(DigitsOnly) /\ Len(d) \in Nat /\ Len(d) >= 1
    BY <2>1 DEF Canonical
  <2>3. LowerHex[v] = Numeral(LowerHex, v)
    BY LowerHexIs
  <2>4. CASE Len(d) = 1
    <3>1. d = <<d[1]>> /\ d[1] \in DigitsOnly
      BY <2>2, <2>4
    <3>2. v = d[1]
      BY <2>1, <3>1, NumberOfOne
    <3>3. QED BY <2>3, <3>1, <3>2, BaseIsTwo DEF Numeral, DigitsOnly
  <2>5. CASE Len(d) > 1
    <3> DEFINE e == [i \in 1..Len(d) - 1 |-> d[i]]
               r == d[Len(d)]
               q == Number(e)
    <3>1. e \in Seq(DigitsOnly) /\ Len(e) = Len(d) - 1 /\ r \in DigitsOnly
      BY <2>2, <2>5
    <3>2. d = Append(e, r)
      BY <2>2, <2>5, <3>1
    <3>3. e[1] = d[1] /\ d[1] # 0 /\ Canonical(e)
      <4>1. e[1] = d[1] /\ d[1] # 0
        BY <2>1, <2>2, <2>5 DEF Canonical
      <4>2. e # <<>>
        <5>1. Len(e) # 0
          BY <3>1, <2>2, <2>5
        <5> HIDE DEF e
        <5>2. QED BY <5>1
      <4> HIDE DEF e
      <4>3. QED BY <4>1, <4>2, <3>1 DEF Canonical
    <3> HIDE DEF e, r
    <3>4. q \in Nat /\ r \in Nat /\ r < Base
      BY <3>1, DigitsAreNumbers, BaseIsTwo, NumberType DEF Number, DigitsOnly
    <3>5. v = Base * q + r
      BY <2>1, <3>1, <3>2, NumberOfMore
    <3>6. v \div Base = q /\ v % Base = r
      BY <3>4, <3>5, BaseIsTwo, DivisionUnique
    <3>7. q > 0
      <4>1. e # <<>>
        BY <3>3 DEF Canonical
      <4>2. QED BY <3>1, <3>3, <4>1, NumberIsPositive
    <3>8. v >= Base /\ q < v
      <4>1. \A a, b, c \in Nat : a > 1 /\ b > 0 => a * b + c >= a /\ b < a * b + c
        OBVIOUS
      <4>2. QED BY <3>4, <3>5, <3>7, <4>1, BaseIsTwo
    <3>9. LowerHex[q] = e
      BY <1>1, <3>3, <3>4, <3>8
    <3>10. LowerHex[v] = Append(LowerHex[q], r)
      BY <2>3, <3>6, <3>8, BaseIsTwo DEF Numeral
    <3>11. QED BY <3>2, <3>9, <3>10
  <2>6. Len(d) = 1 \/ Len(d) > 1
    BY <2>2
  <2>7. QED BY <2>4, <2>5, <2>6
<1> HIDE DEF Good
<1>2. Bad = {}
  <2>1. SUFFICES ASSUME Bad # {} PROVE FALSE
    OBVIOUS
  <2>2. Bad \in SUBSET Nat
    OBVIOUS
  <2> HIDE DEF Bad
  <2>3. PICK v \in Bad : \A w \in Bad : v <= w
    BY <2>1, <2>2, LeastNat
  <2> USE DEF Bad
  <2>4. \A w \in Nat : w < v => Good(w)
    BY <2>3
  <2>5. QED BY <1>1, <2>4
<1>3. \A d : Canonical(d) => Number(d) \in Nat
  BY DigitsAreNumbers, BaseIsTwo, NumberType DEF Canonical, Number
<1>4. QED BY <1>2, <1>3 DEF Good

-----------------------------------------------------------------------------
(* The inductive invariant *)

\* A value to be written is one of its kind; a text that was written is one of
\* the value's.
TextInv ==
    /\ reader \in DOMAIN KindsOf /\ kind \in KindsOf[reader]
    /\ stage \in {"value", "text", "read"}
    /\ stage # "read" => read = {}
    /\ stage = "value" => \E value \in ValuesOf(kind) : written = {value}
    /\ stage = "text" =>
         \/ written = {} /\ text \in Texts
         \/ \E value \in ValuesOf(kind) : \E characters \in Written(kind, value) :
               written = {value} /\ text = Plain(characters)
    /\ stage = "read" => RoundTrip /\ OneText

LEMMA TextsOfValue ==
    ASSUME NEW k \in Kinds, NEW value \in ValuesOf(k), NEW c \in Written(k, value)
    PROVE  /\ c \in Seq(DigitsOnly)
           /\ k \in Quantities =>
                value \in Nat /\ value < Limit[k] /\ Canonical(c) /\ Number(c) = value
           /\ k \in FixedKinds => c = value /\ value \in [1..Width[k] -> DigitsOnly]
           /\ k = "bytes" =>
                c = value /\ value \in BoundedSeq(DigitsOnly, MaxLength) /\ Len(value) % 2 = 0
<1>1. CASE k \in Quantities
  <2>1. value \in Nat /\ value < Limit[k] /\ c = LowerHex[value]
    BY <1>1, HexAssumption DEF ValuesOf, Written
  <2>2. k \notin FixedKinds /\ k # "bytes"
    BY <1>1 DEF Quantities, FixedKinds
  <2>3. QED BY <1>1, <2>1, <2>2, NumeralOfValue DEF Canonical
<1>2. CASE k \in FixedKinds
  <2>1. k \notin Quantities /\ k # "bytes"
    BY <1>2 DEF Quantities, FixedKinds
  <2>2. value \in [1..Width[k] -> DigitsOnly] /\ Width[k] \in Nat
    BY <1>2, <2>1, HexAssumption DEF ValuesOf
  <2>3. value \in Seq(DigitsOnly) /\ Len(value) = Width[k]
    BY <2>2
  <2>4. c = value
    <3>1. CASE k = "address"
      <4>1. PICK characters \in Checksummed(value) :
                   c = [i \in 1..Len(value) |-> Lowercase(characters[i])]
        BY <2>1, <3>1 DEF Written, AddressTexts
      <4>2. \A i \in 1..Len(value) : Lowercase(characters[i]) = value[i]
        BY DEF Checksummed
      <4>3. QED BY <2>2, <2>3, <4>1, <4>2
    <3>2. QED BY <2>1, <3>1 DEF Written
  <2>5. QED BY <1>2, <2>1, <2>2, <2>3, <2>4
<1>3. CASE k = "bytes"
  <2>1. k \notin Quantities /\ k \notin FixedKinds
    BY <1>3 DEF Quantities, FixedKinds
  <2>2. c = value /\ value \in BoundedSeq(DigitsOnly, MaxLength) /\ Len(value) % 2 = 0
    BY <1>3, <2>1 DEF ValuesOf, Written
  <2>3. value \in Seq(DigitsOnly)
    BY <2>2, HexAssumption DEF BoundedSeq, SeqOf
  <2>4. QED BY <1>3, <2>1, <2>2, <2>3
<1>4. QED BY <1>1, <1>2, <1>3 DEF Kinds

LEMMA TextsAreTyped ==
    ASSUME NEW t \in Texts
    PROVE  LET c == t.characters
           IN /\ c \in Seq(Nat) /\ Len(c) \in Nat /\ Len(c) <= MaxLength
              /\ Lowercased(c) \in Seq(Nat) /\ Len(Lowercased(c)) = Len(c)
              /\ DOMAIN c = 1..Len(c)
<1> DEFINE c == t.characters
<1>1. c \in BoundedSeq(Characters, MaxLength)
  BY DEF Texts
<1>2. PICK n \in 0..MaxLength : c \in [1..n -> Characters]
  BY <1>1 DEF BoundedSeq, SeqOf
<1>3. n \in Nat /\ n <= MaxLength
  BY HexAssumption
<1>4. \A character \in Characters : character \in Nat /\ Lowercase(character) \in Nat
  BY HexAssumption DEF Characters, DigitsOnly, LetterX, Lowercase
<1> HIDE DEF c
<1>5. c \in [1..n -> Nat] /\ Lowercased(c) \in [1..n -> Nat]
  BY <1>2, <1>4 DEF Lowercased
<1>6. c \in Seq(Nat) /\ Lowercased(c) \in Seq(Nat) /\ Len(c) = n /\ Len(Lowercased(c)) = n
  BY <1>3, <1>5
<1>7. QED BY <1>2, <1>3, <1>6 DEF c

LEMMA DigitsAreSequences ==
    ASSUME NEW c \in Seq(Nat), LowercaseHex(c)
    PROVE  c \in [1..Len(c) -> DigitsOnly] /\ c \in Seq(DigitsOnly)
<1>1. Len(c) \in Nat /\ c \in [1..Len(c) -> Nat]
  OBVIOUS
<1>2. c \in [1..Len(c) -> DigitsOnly]
  BY <1>1 DEF LowercaseHex
<1>3. QED BY <1>1, <1>2

LEMMA BoundedDigits ==
    ASSUME NEW n \in Nat, n <= MaxLength, NEW c \in [1..n -> DigitsOnly]
    PROVE  c \in BoundedSeq(DigitsOnly, MaxLength)
<1>1. n \in 0..MaxLength
  BY HexAssumption
<1>2. QED BY <1>1 DEF BoundedSeq, SeqOf

LEMMA LowercasedDigits ==
    ASSUME NEW t \in Texts, DigitsOf(Base, t.characters)
    PROVE  Lowercased(t.characters) \in [1..Len(t.characters) -> DigitsOnly]
<1> DEFINE c == t.characters
<1>1. /\ Len(c) \in Nat /\ DOMAIN c = 1..Len(c)
      /\ Lowercased(c) \in Seq(Nat) /\ Len(Lowercased(c)) = Len(c)
  BY TextsAreTyped
<1> HIDE DEF c
<1>2. Lowercased(c) \in [1..Len(c) -> Nat]
  BY <1>1
<1>3. \A i \in 1..Len(c) : Lowercased(c)[i] = Lowercase(c[i]) /\ Lowercase(c[i]) < Base
  BY <1>1 DEF DigitsOf, Lowercased, c
<1>4. \A i \in 1..Len(c) : Lowercased(c)[i] \in DigitsOnly
  BY <1>2, <1>3, BaseIsTwo DEF DigitsOnly
<1>5. QED BY <1>2, <1>4 DEF c

\* The document's reader takes of a text what it stands for, in one text.
LEMMA DocumentReads ==
    ASSUME NEW k \in Kinds, NEW t \in Texts, NEW value \in ReadDocument(k, t)
    PROVE  /\ value \in ValuesOf(k)
           /\ t = Plain(t.characters) /\ t.characters \in Written(k, value)
<1> DEFINE c == t.characters
<1>1. c \in Seq(Nat) /\ Len(c) \in Nat /\ Len(c) <= MaxLength
  BY TextsAreTyped
<1> HIDE DEF c
<1>2. LowercaseHex(c) => c \in [1..Len(c) -> DigitsOnly] /\ c \in Seq(DigitsOnly)
  BY <1>1, DigitsAreSequences
<1>3. CASE k \in Quantities
  <2>1. value \in ParseQuantity(k, t)
    BY <1>3 DEF ReadDocument
  <2>2. CanonicalQuantity(t) /\ value = Number(c) /\ value < Limit[k]
    BY <2>1 DEF ParseQuantity, c
  <2>3. t = Plain(c) /\ Canonical(c)
    BY <1>2, <2>2 DEF CanonicalQuantity, Canonical, c
  <2>4. value \in Nat /\ Limit[k] \in Nat
    BY <1>1, <1>3, <2>2, BaseIsTwo, HexAssumption, NumberType DEF Number
  <2>5. value \in ValuesOf(k)
    BY <1>3, <2>2, <2>4 DEF ValuesOf
  <2>6. LowerHex[value] = c
    BY <2>2, <2>3, OneNumeral
  <2>7. QED BY <1>3, <2>3, <2>5, <2>6 DEF Written, c
<1>4. CASE k \in FixedKinds
  <2>1. k \notin Quantities
    BY <1>4 DEF Quantities, FixedKinds
  <2>2. value = c /\ t = Plain(c) /\ Len(c) = Width[k] /\ LowercaseHex(c)
    BY <1>4, <2>1 DEF ReadDocument, ParseFixed, c
  <2>3. value \in ValuesOf(k)
    BY <1>2, <1>4, <2>1, <2>2 DEF ValuesOf
  <2>4. c \in AddressTexts(c)
    <3>1. \A i \in 1..Len(c) : c[i] \in Characters /\ Lowercase(c[i]) = c[i]
      BY <1>2, <2>2, DigitsAreNumbers DEF Characters
    <3>2. c \in Checksummed(c) /\ c = [i \in 1..Len(c) |-> Lowercase(c[i])]
      BY <1>2, <2>2, <3>1 DEF Checksummed
    <3>3. QED BY <3>2 DEF AddressTexts
  <2>5. QED BY <2>1, <2>2, <2>3, <2>4 DEF Written, c
<1>5. CASE k = "bytes"
  <2>1. k \notin Quantities /\ k \notin FixedKinds
    BY <1>5 DEF Quantities, FixedKinds
  <2>2. value = c /\ t = Plain(c) /\ Len(c) % 2 = 0 /\ LowercaseHex(c)
    BY <2>1 DEF ReadDocument, ParseBytes, c
  <2>3. c \in BoundedSeq(DigitsOnly, MaxLength)
    BY <1>1, <1>2, <2>2, BoundedDigits
  <2>4. QED BY <1>5, <2>1, <2>2, <2>3 DEF ValuesOf, Written, c
<1>6. QED BY <1>3, <1>4, <1>5 DEF Kinds

\* The lenient readers take of a text a value of its kind.
LEMMA AddressReads ==
    ASSUME NEW t \in Texts, NEW value \in ParseAddress(t)
    PROVE  value \in ValuesOf("address")
<1>1. value = Lowercased(t.characters) /\ Len(t.characters) = Width["address"]
      /\ DigitsOf(Base, t.characters)
  BY DEF ParseAddress
<1>2. QED BY <1>1, LowercasedDigits DEF ValuesOf, Quantities, FixedKinds

LEMMA BlockNumberReads ==
    ASSUME NEW t \in Texts, NEW value \in ParseBlockNumber(t)
    PROVE  value \in ValuesOf("u64")
<1>1. Lowercased(t.characters) \in Seq(Nat)
  BY TextsAreTyped
<1>2. \E base \in {Letter, Base} :
         value = NumberIn(base, Lowercased(t.characters)) /\ value < Limit["u64"]
  BY DEF ParseBlockNumber
<1>3. Letter \in Nat /\ Base \in Nat
  BY HexAssumption
<1>4. value \in Nat /\ value < Limit["u64"] /\ Limit["u64"] \in Nat
  BY <1>1, <1>2, <1>3, NumberType, HexAssumption DEF Quantities
<1>5. QED BY <1>4 DEF ValuesOf, Quantities

LEMMA FormQuantityReads ==
    ASSUME NEW t \in Texts, NEW value \in ParseFormQuantity(t)
    PROVE  value \in ValuesOf("u256")
<1>1. Lowercased(t.characters) \in Seq(Nat)
  BY TextsAreTyped
<1>2. \E base \in {Letter, Base} :
         value = NumberIn(base, Lowercased(t.characters)) /\ value < Limit["u256"]
  BY DEF ParseFormQuantity
<1>3. Letter \in Nat /\ Base \in Nat
  BY HexAssumption
<1>4. value \in Nat /\ value < Limit["u256"] /\ Limit["u256"] \in Nat
  BY <1>1, <1>2, <1>3, NumberType, HexAssumption DEF Quantities
<1>5. QED BY <1>4 DEF ValuesOf, Quantities

LEMMA UnprefixedIs ==
    ASSUME NEW t \in Texts, Len(t.characters) % 2 = 0
    PROVE  LET c == Unprefixed(t.characters)
           IN [t EXCEPT !.characters = c] \in Texts /\ Len(c) % 2 = 0
<1> DEFINE c == t.characters
           rest == SubSeq(c, 3, Len(c))
<1>1. c \in BoundedSeq(Characters, MaxLength)
  BY DEF Texts
<1>2. PICK n \in 0..MaxLength : c \in [1..n -> Characters]
  BY <1>1 DEF BoundedSeq, SeqOf
<1>3. n \in Nat /\ n <= MaxLength /\ Len(c) = n /\ c \in Seq(Characters)
  <2>1. n \in Nat /\ n <= MaxLength
    BY HexAssumption
  <2> HIDE DEF c
  <2>2. QED BY <1>2, <2>1
<1>4. CASE Unprefixed(c) = c
  BY <1>4 DEF Texts
<1>5. CASE Unprefixed(c) = rest /\ n > 1
  <2> HIDE DEF c
  <2>1. rest \in [1..n - 2 -> Characters] /\ Len(rest) = n - 2
    <3>1. \A i \in 3..n : c[i] \in Characters
      BY <1>2, <1>3
    <3>2. rest \in Seq(Characters) /\ Len(rest) = n - 2
      BY <1>3, <1>5, <3>1, SubSeqProperties
    <3> HIDE DEF rest
    <3>3. QED BY <3>2
  <2>2. n - 2 \in 0..MaxLength /\ (n - 2) % 2 = 0
    BY <1>3, <1>5, HexAssumption DEF c
  <2>3. rest \in BoundedSeq(Characters, MaxLength)
    BY <2>1, <2>2 DEF BoundedSeq, SeqOf
  <2> HIDE DEF rest
  <2>4. QED BY <1>5, <2>1, <2>2, <2>3 DEF Texts, c
<1>6. QED BY <1>3, <1>4, <1>5 DEF Unprefixed

LEMMA FormBytesReads ==
    ASSUME NEW t \in Texts, NEW value \in ParseFormBytes(t)
    PROVE  value \in ValuesOf("bytes")
<1> DEFINE c == Unprefixed(t.characters)
           bare == [t EXCEPT !.characters = c]
<1>1. value = Lowercased(c) /\ Len(t.characters) % 2 = 0 /\ DigitsOf(Base, c)
  BY DEF ParseFormBytes
<1>2. bare \in Texts /\ Len(c) % 2 = 0
  BY <1>1, UnprefixedIs
<1> HIDE DEF c
<1>3. bare.characters = c
  BY DEF Texts
<1> HIDE DEF bare
<1>4. Len(c) \in Nat /\ Len(c) <= MaxLength /\ Len(Lowercased(c)) = Len(c)
  BY <1>2, <1>3, TextsAreTyped
<1>5. Lowercased(c) \in [1..Len(c) -> DigitsOnly]
  BY <1>1, <1>2, <1>3, LowercasedDigits
<1>6. Lowercased(c) \in BoundedSeq(DigitsOnly, MaxLength)
  BY <1>4, <1>5, BoundedDigits
<1>7. QED BY <1>1, <1>2, <1>4, <1>6 DEF ValuesOf, Quantities, FixedKinds

\* What a reader takes of a text.
Reading(r, k, t) ==
    CASE r = "document" -> ReadDocument(k, t)
      [] r = "commandLine" -> ReadCommandLine(k, t)
      [] r = "form" -> ReadForm(k, t)

LEMMA TextsRead ==
    ASSUME NEW r \in DOMAIN KindsOf, NEW k \in KindsOf[r], NEW t \in Texts,
           NEW value \in Reading(r, k, t)
    PROVE  /\ value \in ValuesOf(k)
           /\ r = "document" => t = Plain(t.characters) /\ t.characters \in Written(k, value)
<1>1. r \in {"document", "commandLine", "form"}
  BY DEF KindsOf
<1>2. CASE r = "document"
  BY <1>2, DocumentReads DEF Reading, KindsOf
<1>3. CASE r = "commandLine"
  <2>1. value \in ReadCommandLine(k, t) /\ k \in {"address", "u64"}
    BY <1>3 DEF Reading, KindsOf
  <2>2. QED BY <1>3, <2>1, AddressReads, BlockNumberReads DEF ReadCommandLine
<1>4. CASE r = "form"
  <2>1. value \in ReadForm(k, t) /\ k \in {"address", "u256", "bytes"}
    BY <1>4 DEF Reading, KindsOf
  <2>2. CASE k = "address"
    BY <1>4, <2>1, <2>2, AddressReads DEF ReadForm
  <2>3. CASE k = "u256"
    BY <1>4, <2>1, <2>3, FormQuantityReads DEF ReadForm
  <2>4. CASE k = "bytes"
    BY <1>4, <2>1, <2>4, FormBytesReads DEF ReadForm
  <2>5. QED BY <2>1, <2>2, <2>3, <2>4
<1>5. QED BY <1>1, <1>2, <1>3, <1>4

\* A reader takes of the text written of a value that value.
LEMMA WrittenRead ==
    ASSUME NEW r \in DOMAIN KindsOf, NEW k \in KindsOf[r], NEW value \in ValuesOf(k),
           NEW c \in Written(k, value)
    PROVE  Reading(r, k, Plain(c)) = {value}
<1> DEFINE t == Plain(c)
<1>0. k \in Kinds /\ r \in {"document", "commandLine", "form"}
  BY DEF KindsOf, Kinds, Quantities, FixedKinds
<1>1. /\ c \in Seq(DigitsOnly)
      /\ k \in Quantities =>
           value \in Nat /\ value < Limit[k] /\ Canonical(c) /\ Number(c) = value
      /\ k \in FixedKinds => c = value /\ value \in [1..Width[k] -> DigitsOnly]
      /\ k = "bytes" => c = value /\ Len(value) % 2 = 0
  BY <1>0, TextsOfValue
<1>2. /\ t.prefix = "0x" /\ ~t.padded /\ ~t.plus /\ t.characters = c /\ t = Plain(t.characters)
  BY DEF Plain
<1> HIDE DEF t
<1>3. /\ Len(c) \in Nat /\ DOMAIN c = 1..Len(c)
      /\ \A i \in 1..Len(c) : c[i] \in DigitsOnly /\ c[i] < Base /\ Lowercase(c[i]) = c[i]
  BY <1>1, DigitsAreNumbers, BaseIsTwo DEF DigitsOnly
<1>4. LowercaseHex(c) /\ DigitsOf(Base, c)
  BY <1>3 DEF LowercaseHex, DigitsOf
<1>5. Lowercased(c) = c
  <2>1. c = [i \in 1..Len(c) |-> c[i]]
    BY <1>1
  <2>2. QED BY <1>3, <2>1 DEF Lowercased
<1>6. k \in FixedKinds => Len(c) = Width[k] /\ k \notin Quantities
  <2>1. k \in FixedKinds => Width[k] \in Nat /\ k \notin Quantities
    BY HexAssumption DEF Quantities, FixedKinds
  <2>2. QED BY <1>1, <2>1
<1>7. k \in Quantities => value < Limit["u256"]
  BY <1>1, HexAssumption DEF Quantities
<1>8. CASE r = "document"
  <2>1. Reading(r, k, t) = ReadDocument(k, t)
    BY <1>8 DEF Reading
  <2>2. CASE k \in Quantities
    <3>1. CanonicalQuantity(t)
      BY <1>1, <1>2, <1>4, <2>2 DEF CanonicalQuantity, Canonical
    <3>2. QED BY <1>1, <1>2, <1>7, <2>1, <2>2, <3>1 DEF ReadDocument, ParseQuantity, t
  <2>3. CASE k \in FixedKinds
    BY <1>1, <1>2, <1>4, <1>6, <2>1, <2>3 DEF ReadDocument, ParseFixed, t
  <2>4. CASE k = "bytes"
    <3>1. k \notin Quantities /\ k \notin FixedKinds
      BY <2>4 DEF Quantities, FixedKinds
    <3>2. QED BY <1>1, <1>2, <1>4, <2>1, <2>4, <3>1 DEF ReadDocument, ParseBytes, t
  <2>5. QED BY <1>0, <2>2, <2>3, <2>4 DEF Kinds
<1>9. k = "address" => ParseAddress(t) = {value}
  BY <1>1, <1>2, <1>4, <1>5, <1>6 DEF ParseAddress, FixedKinds
<1>10. k \in Quantities => c # <<>> /\ NumberIn(Base, c) = value
  BY <1>1 DEF Canonical, Number
<1>11. CASE r = "commandLine"
  <2>1. Reading(r, k, t) = ReadCommandLine(k, t) /\ k \in {"address", "u64"}
    BY <1>11 DEF Reading, KindsOf
  <2>2. k = "u64" => ParseBlockNumber(t) = {value}
    BY <1>1, <1>2, <1>4, <1>5, <1>10 DEF ParseBlockNumber, Quantities
  <2>3. QED BY <1>9, <2>1, <2>2 DEF ReadCommandLine, t
<1>12. CASE r = "form"
  <2>1. Reading(r, k, t) = ReadForm(k, t) /\ k \in {"address", "u256", "bytes"}
    BY <1>12 DEF Reading, KindsOf
  <2>2. k = "u256" => ParseFormQuantity(t) = {value}
    <3>1. \A i \in DOMAIN Lowercased(c) : Lowercased(c)[i] < Base
      BY <1>3, <1>5
    <3>2. QED BY <1>1, <1>2, <1>5, <1>7, <1>10, <3>1 DEF ParseFormQuantity, Quantities
  <2>3. k = "bytes" => ParseFormBytes(t) = {value}
    <3>1. ~(Len(c) > 1 /\ c[2] = LetterX)
      BY <1>3, BaseIsTwo DEF LetterX
    <3>2. Unprefixed(c) = c
      BY <3>1 DEF Unprefixed
    <3>3. QED BY <1>1, <1>2, <1>4, <1>5, <3>2 DEF ParseFormBytes
  <2>4. QED BY <1>2, <1>9, <2>1, <2>2, <2>3 DEF ReadForm, t
<1>13. QED BY <1>0, <1>8, <1>11, <1>12 DEF t

-----------------------------------------------------------------------------
(* The invariant holds *)

LEMMA TextInvHolds == TextSpec => []TextInv
<1>1. TextInit => TextInv
  <2>1. SUFFICES ASSUME TextInit PROVE TextInv
    OBVIOUS
  <2>2. CASE stage = "value"
    BY <2>1, <2>2 DEF TextInit, TextInv
  <2>3. CASE stage = "text"
    BY <2>1, <2>3 DEF TextInit, TextInv
  <2>4. QED BY <2>1, <2>2, <2>3 DEF TextInit
<1>2. TextInv /\ [TextNext]_textVars => TextInv'
  <2>1. SUFFICES ASSUME TextInv, [TextNext]_textVars PROVE TextInv'
    OBVIOUS
  <2>2. CASE Write
    BY <2>1, <2>2 DEF Write, TextInv
  <2>3. CASE Read
    <3>1. /\ reader \in DOMAIN KindsOf /\ kind \in KindsOf[reader]
          /\ UNCHANGED <<reader, kind, written, text>> /\ stage' = "read"
          /\ read' = Reading(reader, kind, text)
      BY <2>1, <2>3 DEF Read, TextInv, Reading
    <3>2. CASE written = {} /\ text \in Texts
      <4>1. RoundTrip'
        BY <3>1, <3>2 DEF RoundTrip
      <4>2. OneText'
        BY <3>1, <3>2, TextsRead DEF OneText
      <4>3. QED BY <3>1, <4>1, <4>2 DEF TextInv
    <3>3. CASE \E value \in ValuesOf(kind) : \E characters \in Written(kind, value) :
                  written = {value} /\ text = Plain(characters)
      <4>0. PICK value \in ValuesOf(kind) : \E characters \in Written(kind, value) :
                   written = {value} /\ text = Plain(characters)
        BY <3>3
      <4>1. PICK c \in Written(kind, value) : written = {value} /\ text = Plain(c)
        BY <4>0
      <4>2. read' = {value} /\ text' = Plain(c) /\ text'.characters = c
        BY <3>1, <4>1, WrittenRead DEF Plain
      <4>3. RoundTrip' /\ OneText'
        BY <3>1, <4>1, <4>2 DEF RoundTrip, OneText
      <4>4. QED BY <3>1, <4>3 DEF TextInv
    <3>4. QED BY <2>1, <2>3, <3>2, <3>3 DEF TextInv, Read
  <2>4. CASE UNCHANGED textVars
    BY <2>1, <2>4 DEF TextInv, textVars, RoundTrip, OneText
  <2>5. QED BY <2>1, <2>2, <2>3, <2>4 DEF TextNext
<1>3. QED BY <1>1, <1>2, PTL DEF TextSpec

\* What the exporter writes of a value each reader reads as that value, whatever the
\* base, the widths and the value are (hex.rs, cli.rs:77-100, workspace.rs:321-354).
THEOREM TextsRoundTrip == TextSpec => []RoundTrip
<1>1. TextInv => RoundTrip
  BY DEF TextInv, RoundTrip
<1>2. QED BY <1>1, TextInvHolds, PTL

\* A document has one text, and no reader lets a value wrap (hex.rs:170-255).
THEOREM TextsAreOne == TextSpec => []OneText
<1>1. TextInv => OneText
  BY DEF TextInv, OneText
<1>2. QED BY <1>1, TextInvHolds, PTL

===============================================================================
