--------------------------- MODULE RethSource_proofs ---------------------------
(* What holds of an export's reads for any set of chains, any state and any     *)
(* range provider, however the node moves between two reads.                    *)
EXTENDS RethSource, TLAPS, SequenceTheorems

-----------------------------------------------------------------------------
(* Blocks and chains *)

Blocks == UNION {Range(chain) : chain \in Chains}

\* A block is at the place of its number.
LEMMA BlockPosition ==
    ASSUME NEW chain \in Chains, NEW block \in Range(chain)
    PROVE  /\ block.number \in 0..Len(chain) - 1
           /\ chain[block.number + 1] = block
<1>1. chain \in Seq(Range(chain)) /\ \A i \in 1..Len(chain) : chain[i].number = i - 1
  BY ChainsAssumption
<1>2. PICK i \in 1..Len(chain) : chain[i] = block
  BY <1>1 DEF Range
<1>3. Len(chain) \in Nat
  BY <1>1
<1>4. QED BY <1>1, <1>2, <1>3

LEMMA ChainLength ==
    ASSUME NEW chain \in Chains
    PROVE  chain \in Seq(Range(chain)) /\ Len(chain) \in Nat /\ Len(chain) >= 1
<1>1. chain \in Seq(Range(chain)) /\ chain # <<>>
  BY ChainsAssumption
<1>2. QED BY <1>1, EmptySeq

LEMMA BlockOfChain ==
    ASSUME NEW chain \in Chains, NEW i \in 1..Len(chain)
    PROVE  chain[i] \in Range(chain) /\ chain[i].number = i - 1
<1>1. chain \in Seq(Range(chain)) /\ chain[i].number = i - 1
  BY ChainsAssumption
<1>2. QED BY <1>1 DEF Range

\* A hash names a block and all its ancestors.
LEMMA HashNamesAncestry ==
    ASSUME NEW one \in Chains, NEW two \in Chains,
           NEW i \in 1..Len(one), NEW j \in 1..Len(two), one[i].hash = two[j].hash
    PROVE  i = j /\ \A k \in 1..i : one[k] = two[k]
<1>1. i = j /\ SubSeq(one, 1, i) = SubSeq(two, 1, i)
  BY HashAssumption
<1>2. one \in Seq(Range(one)) /\ two \in Seq(Range(two))
  BY ChainsAssumption
<1>3. ASSUME NEW k \in 1..i PROVE one[k] = two[k]
  <2>1. SubSeq(one, 1, i)[k] = one[k] /\ SubSeq(two, 1, i)[k] = two[k]
    BY <1>1, <1>2
  <2>2. QED BY <1>1, <2>1
<1>4. QED BY <1>1, <1>3

LEMMA HashNamesBlock ==
    ASSUME NEW one \in Chains, NEW two \in Chains,
           NEW x \in Range(one), NEW y \in Range(two), x.hash = y.hash
    PROVE  x = y
<1> DEFINE i == x.number + 1  j == y.number + 1
<1>1. /\ Len(one) \in Nat /\ Len(two) \in Nat
      /\ x.number \in 0..Len(one) - 1 /\ one[i] = x
      /\ y.number \in 0..Len(two) - 1 /\ two[j] = y
  BY BlockPosition, ChainsAssumption
<1>2. i \in 1..Len(one) /\ j \in 1..Len(two)
  BY <1>1
<1> HIDE DEF i, j
<1>3. i = j /\ \A k \in 1..i : one[k] = two[k]
  BY <1>1, <1>2, HashNamesAncestry
<1>4. i \in 1..i
  BY <1>2
<1>5. QED BY <1>1, <1>3, <1>4

LEMMA BlockAtNumber ==
    ASSUME canonical \in Chains, NEW number \in Nat
    PROVE  BlockAt(number) = IF number < Len(canonical) THEN {canonical[number + 1]} ELSE {}
<1>1. canonical \in Seq(Range(canonical))
  BY ChainsAssumption
<1>2. DOMAIN canonical = 1..Len(canonical) /\ Len(canonical) \in Nat
  BY <1>1
<1>3. QED BY <1>2 DEF BlockAt

\* An extended chain keeps its blocks.
LEMMA ExtensionKeeps ==
    ASSUME NEW old \in Chains, NEW new \in Chains, Extends(new, old)
    PROVE  Range(old) \subseteq Range(new)
BY DEF Extends, Range

\* The ancestors of a block of the chain, numbered.
LEMMA CanonicalWindow ==
    ASSUME canonical \in Chains, NEW number \in Nat, number <= Len(canonical)
    PROVE  LET hashes == CanonicalHashes(number)
               start == SaturatingSub(number, Window)
           IN /\ start \in Nat /\ start <= number
              /\ Len(hashes) = number - start
              /\ \A i \in 1..number - start :
                    /\ hashes[i].number = start + i - 1
                    /\ hashes[i].hash = canonical[start + i].hash
<1> DEFINE hashes == CanonicalHashes(number)  start == SaturatingSub(number, Window)
<1>1. canonical \in Seq(Range(canonical)) /\ Len(canonical) \in Nat
  BY ChainsAssumption
<1>2. start \in Nat /\ start <= number
  BY FormatAssumption DEF SaturatingSub
<1>3. hashes = [i \in 1..number - start |->
                   [number |-> start + i - 1, hash |-> canonical[start + i].hash]]
  BY <1>1, <1>2 DEF CanonicalHashes
<1>4. number - start \in Nat
  BY <1>2
<1>5. Len(hashes) = number - start
  BY <1>3, <1>4
<1>6. QED BY <1>2, <1>3, <1>5

-----------------------------------------------------------------------------
(* The inductive invariant *)

StateAccounts ==
    UNION {State(block.stateRoot, address) : block \in Blocks, address \in Range(Requested)}

Returned == [address : Range(Requested), account : StateAccounts]

InAccount == {"verify", "range", "history", "confirm"}
InPages == {"done", "page", "confirm page"}

\* What each variable may hold, by where the export is.
SourceTypes ==
    /\ blockArgument \in BlockArguments /\ canonical \in Chains
    /\ reorganised \in BOOLEAN /\ misread \in BOOLEAN
    /\ pc \in {"chain info", "header", "window", "failed"} \cup InAccount \cup InPages
    /\ best \subseteq Blocks /\ header \subseteq Blocks
    /\ IsOption(best) /\ IsOption(header) /\ IsOption(anchor)
    /\ \A a \in anchor : a.block \in Blocks
    /\ taken \in Seq(Returned)

\* Nothing is taken before the anchor is there, and an account only while one is left.
Progress ==
    /\ pc = "header" =>
          best # {} /\ \A tip \in best, number \in blockArgument : number <= tip.number
    /\ pc = "window" => header # {}
    /\ pc \in {"chain info", "header", "window"} => anchor = {} /\ taken = <<>>
    /\ pc \in InAccount \cup InPages => anchor # {}
    /\ pc \in InAccount => Len(taken) < Len(Requested)

\* What the range view said is what the anchor's state has, if it told the truth
\* or the historical state agreed.
RangeChecked ==
    /\ pc \in {"history", "confirm"} => ranged # {} /\ IsOption(ranged)
    /\ pc \in {"history", "confirm"} => \A r \in ranged :
          r = [fields |-> r.fields, storageRoot |-> r.storageRoot]
    /\ pc = "confirm" \/ (pc = "history" /\ ~misread) =>
          \A a \in anchor : ranged = State(a.block.stateRoot, Address)

\* While the chain has only grown, all that was read of it is still there.
StillCanonical ==
    ~reorganised =>
        /\ best \subseteq Range(canonical) /\ header \subseteq Range(canonical)
        /\ \A a \in anchor : a.block \in Range(canonical)

SourceInv ==
    /\ SourceTypes /\ Progress /\ RangeChecked /\ StillCanonical
    /\ AnchorOfOneChain /\ TakenAsAnchored /\ NoFalseAlarm

-----------------------------------------------------------------------------
(* verify_anchor *)

\* An anchor that passes is a block of the chain as it is now.
LEMMA AnchorConfirmed ==
    ASSUME SourceTypes, AnchorError = "none", NEW a \in anchor
    PROVE  a.block \in Range(canonical)
<1>1. PICK chain \in Chains : a.block \in Range(chain)
  BY DEF SourceTypes, Blocks
<1>2. a.block.number \in Nat
  BY <1>1, BlockPosition, ChainsAssumption
<1>3. anchor = {a} /\ canonical \in Chains
  BY DEF SourceTypes, IsOption
<1> DEFINE number == a.block.number
<1>4. UNION {BlockAt(b.block.number) : b \in anchor} = BlockAt(number)
  BY <1>3
<1>5. BlockAt(number) # {} /\ \A block \in BlockAt(number) : block.hash = a.block.hash
  BY <1>3, <1>4 DEF AnchorError
<1>6. number < Len(canonical) /\ canonical[number + 1].hash = a.block.hash
  BY <1>2, <1>3, <1>5, BlockAtNumber
<1>7. canonical[number + 1] \in Range(canonical)
  BY <1>2, <1>3, <1>6, BlockOfChain, ChainsAssumption
<1>8. canonical[number + 1] = a.block
  BY <1>1, <1>3, <1>6, <1>7, HashNamesBlock
<1>9. QED BY <1>7, <1>8

\* An anchor that is still on the chain passes.
LEMMA AnchorStays ==
    ASSUME SourceTypes, anchor # {}, \A a \in anchor : a.block \in Range(canonical)
    PROVE  AnchorError = "none"
<1>1. PICK a \in anchor : anchor = {a}
  BY DEF SourceTypes, IsOption
<1>2. canonical \in Chains /\ a.block \in Range(canonical)
  BY DEF SourceTypes
<1>3. a.block.number \in 0..Len(canonical) - 1 /\ canonical[a.block.number + 1] = a.block
  BY <1>2, BlockPosition
<1>4. Len(canonical) \in Nat
  BY <1>2, ChainsAssumption
<1>5. BlockAt(a.block.number) = {a.block}
  BY <1>2, <1>3, <1>4, BlockAtNumber
<1>6. UNION {BlockAt(b.block.number) : b \in anchor} = {a.block}
  BY <1>1, <1>5
<1>7. QED BY <1>1, <1>6 DEF AnchorError

-----------------------------------------------------------------------------
(* Steps *)

LEMMA SourceInit == Init => SourceInv
<1> SUFFICES ASSUME Init PROVE SourceInv
  OBVIOUS
<1>1. SourceTypes
  BY EmptySeq DEF Init, SourceTypes, IsOption
<1>2. Progress /\ RangeChecked /\ StillCanonical
  BY DEF Init, Progress, RangeChecked, StillCanonical, InAccount, InPages
<1>3. AnchorOfOneChain /\ TakenAsAnchored /\ NoFalseAlarm
  BY DEF Init, AnchorOfOneChain, TakenAsAnchored, NoFalseAlarm
<1>4. QED BY <1>1, <1>2, <1>3 DEF SourceInv

\* What is said of the anchor and the accounts taken is about those variables only.
LEMMA TakenFrame == UNCHANGED <<anchor, taken>> =>
    /\ AnchorOfOneChain' <=> AnchorOfOneChain
    /\ TakenAsAnchored' <=> TakenAsAnchored
BY DEF AnchorOfOneChain, TakenAsAnchored

\* An error ends the export, and must not be a false alarm.
LEMMA FailStep ==
    ASSUME SourceInv, NEW error, Fail(error),
           reorganised \/ misread \/ error \in {"ReadFailed", "RequestedBlockAhead", "AccountNotFound"}
    PROVE  SourceInv'
<1> USE DEF Fail, nodeVars
<1>1. SourceTypes' /\ StillCanonical'
  BY DEF SourceInv, SourceTypes, StillCanonical
<1>2. Progress' /\ RangeChecked'
  BY DEF Progress, RangeChecked, InAccount, InPages
<1>3. NoFalseAlarm'
  BY DEF SourceInv, NoFalseAlarm
<1>4. QED BY <1>1, <1>2, <1>3, TakenFrame DEF SourceInv

\* An export that only learns that all is well goes on.
LEMMA GotoStep ==
    ASSUME SourceInv, NEW next, Goto(next),
           \/ pc = "verify" /\ next = "range"
           \/ /\ pc = "history" /\ next = "confirm"
              /\ \A a \in anchor : ranged = State(a.block.stateRoot, Address)
    PROVE  SourceInv'
<1> USE DEF Goto, nodeVars
<1>1. SourceTypes' /\ StillCanonical'
  BY DEF SourceInv, SourceTypes, StillCanonical, InAccount
<1>2. Progress'
  BY DEF SourceInv, Progress, InAccount, InPages
<1>3. RangeChecked'
  BY DEF SourceInv, RangeChecked, Address
<1>4. NoFalseAlarm'
  BY DEF SourceInv, NoFalseAlarm
<1>5. QED BY <1>1, <1>2, <1>3, <1>4, TakenFrame DEF SourceInv

LEMMA NodeMovesStep == SourceInv /\ NodeMoves => SourceInv'
<1> SUFFICES ASSUME SourceInv, NodeMoves PROVE SourceInv'
  OBVIOUS
<1> USE DEF NodeMoves
<1>1. SourceTypes'
  BY DEF SourceInv, SourceTypes
<1>2. Progress' /\ RangeChecked'
  BY DEF SourceInv, Progress, RangeChecked, Address
<1>3. StillCanonical'
  <2>1. CASE reorganised'
    BY <2>1 DEF StillCanonical
  <2>2. CASE ~reorganised'
    <3>1. ~reorganised /\ Extends(canonical', canonical)
      BY <2>2
    <3>2. canonical \in Chains /\ canonical' \in Chains
      BY DEF SourceInv, SourceTypes
    <3>3. Range(canonical) \subseteq Range(canonical')
      BY <3>1, <3>2, ExtensionKeeps
    <3>4. QED BY <3>1, <3>3 DEF SourceInv, StillCanonical
  <2>3. QED BY <2>1, <2>2
<1>4. NoFalseAlarm'
  BY DEF SourceInv, NoFalseAlarm
<1>5. QED BY <1>1, <1>2, <1>3, <1>4, TakenFrame DEF SourceInv

LEMMA TipOfChain ==
    ASSUME canonical \in Chains
    PROVE  Tip \in Range(canonical) /\ Tip.number \in Nat
<1>1. Len(canonical) \in Nat /\ Len(canonical) \in 1..Len(canonical)
  BY ChainLength
<1>2. Tip \in Range(canonical) /\ Tip.number = Len(canonical) - 1
  BY <1>1, BlockOfChain DEF Tip
<1>3. QED BY <1>1, <1>2

LEMMA ChainInfoStep == SourceInv /\ ReadChainInfo => SourceInv'
<1> SUFFICES ASSUME SourceInv, ReadChainInfo PROVE SourceInv'
  OBVIOUS
<1>1. canonical \in Chains /\ Tip \in Range(canonical) /\ Tip.number \in Nat
  BY TipOfChain DEF SourceInv, SourceTypes
<1>2. SourceTypes'
  BY <1>1 DEF SourceInv, SourceTypes, Blocks, IsOption, ReadChainInfo, nodeVars
<1>3. Progress'
  <2>1. \A number \in blockArgument : number \in Nat
    BY ArgumentsAssumption DEF SourceInv, SourceTypes
  <2>2. pc' = "header" => ~\E number \in blockArgument : number > Tip.number
    BY DEF ReadChainInfo
  <2>3. pc' = "header" => \A number \in blockArgument : number <= Tip.number
    BY <1>1, <2>1, <2>2
  <2>4. QED
    BY <2>3 DEF SourceInv, Progress, InAccount, InPages, ReadChainInfo, nodeVars
<1>4. RangeChecked' /\ StillCanonical'
  BY <1>1 DEF SourceInv, RangeChecked, StillCanonical, ReadChainInfo, nodeVars
<1>5. NoFalseAlarm'
  BY DEF SourceInv, NoFalseAlarm, ReadChainInfo, nodeVars
<1>6. QED BY <1>2, <1>3, <1>4, <1>5, TakenFrame DEF SourceInv, ReadChainInfo

\* The header asked for is the tip's, or that of the block requested.
LEMMA NumberAsked ==
    ASSUME SourceTypes, Progress, pc = "header"
    PROVE  \E number \in Nat :
              /\ BlockNumber = {number}
              /\ \A tip \in best : number <= tip.number
<1>1. PICK tip \in Blocks : best = {tip}
  BY DEF SourceTypes, Progress, IsOption
<1>2. tip.number \in Nat
  BY <1>1, BlockPosition, ChainsAssumption DEF Blocks
<1>3. CASE blockArgument = {}
  BY <1>1, <1>2, <1>3 DEF BlockNumber
<1>4. CASE blockArgument # {}
  <2>1. PICK number \in Nat : blockArgument = {number}
    BY <1>4, ArgumentsAssumption DEF SourceTypes, IsOption
  <2>2. BlockNumber = {number} /\ number <= tip.number
    BY <1>1, <2>1 DEF BlockNumber, Progress
  <2>3. QED BY <1>1, <2>2
<1>5. QED BY <1>3, <1>4

LEMMA HeaderStep == SourceInv /\ ReadHeader => SourceInv'
<1> SUFFICES ASSUME SourceInv, ReadHeader PROVE SourceInv'
  OBVIOUS
<1> USE DEF ReadHeader, nodeVars
<1>1. SourceTypes /\ Progress /\ canonical \in Chains
  BY DEF SourceInv, SourceTypes
<1>2. PICK number \in Nat : BlockNumber = {number} /\ \A tip \in best : number <= tip.number
  BY <1>1, NumberAsked
<1>3. header' = BlockAt(number)
  BY <1>2
<1>4. header' = IF number < Len(canonical) THEN {canonical[number + 1]} ELSE {}
  BY <1>1, <1>2, <1>3, BlockAtNumber
<1>5. number < Len(canonical) => canonical[number + 1] \in Range(canonical)
  BY <1>1, <1>2, BlockOfChain, ChainsAssumption
<1>6. header' \subseteq Range(canonical) /\ IsOption(header')
  BY <1>4, <1>5 DEF IsOption
<1>7. SourceTypes'
  BY <1>1, <1>6 DEF SourceTypes, Blocks
<1>8. Progress' /\ RangeChecked'
  BY DEF SourceInv, Progress, RangeChecked, InAccount, InPages
<1>9. StillCanonical'
  BY <1>6 DEF SourceInv, StillCanonical
<1>10. NoFalseAlarm'
  <2>1. CASE reorganised
    BY <2>1 DEF NoFalseAlarm
  <2>2. CASE ~reorganised
    <3>1. PICK tip \in Range(canonical) : best = {tip}
      BY <1>1, <2>2 DEF SourceInv, StillCanonical, SourceTypes, Progress, IsOption
    <3>2. /\ tip.number \in 0..Len(canonical) - 1 /\ canonical[tip.number + 1] = tip
          /\ Len(canonical) \in Nat /\ number <= tip.number
      BY <1>1, <1>2, <3>1, BlockPosition, ChainsAssumption
    <3>3. header' = {canonical[number + 1]}
      <4>1. number < Len(canonical)
        BY <3>2
      <4>2. QED BY <1>4, <4>1
    <3>4. canonical[number + 1].number = number
      BY <1>1, <1>2, <3>2, BlockOfChain
    <3>5. number = tip.number => canonical[number + 1] = tip
      BY <3>2
    <3>6. failure' = failure
      BY <3>1, <3>3, <3>4, <3>5
    <3>7. QED BY <3>6 DEF SourceInv, NoFalseAlarm
  <2>3. QED BY <2>1, <2>2
<1>11. QED BY <1>7, <1>8, <1>9, <1>10, TakenFrame DEF SourceInv

Expected(number) == IF number < Window THEN number ELSE Window

LEMMA WindowStart ==
    ASSUME NEW number \in Nat
    PROVE  /\ SaturatingSub(number, Window) \in Nat
           /\ SaturatingSub(number, Window) <= number
           /\ Expected(number) = number - SaturatingSub(number, Window)
BY FormatAssumption DEF SaturatingSub, Expected

\* A window of full length reaches up to the block's parent.
LEMMA FullWindow ==
    ASSUME canonical \in Chains, NEW number \in Nat,
           Len(CanonicalHashes(number)) = Expected(number)
    PROVE  number <= Len(canonical)
<1> DEFINE start == SaturatingSub(number, Window)
           end == IF number < Len(canonical) THEN number ELSE Len(canonical)
           size == IF end < start THEN 0 ELSE end - start
<1>1. Len(canonical) \in Nat /\ start \in Nat /\ start <= number
  BY ChainLength, WindowStart
<1>2. size \in Nat
  BY <1>1
<1>3. CanonicalHashes(number) =
          [i \in 1..size |-> [number |-> start + i - 1, hash |-> canonical[start + i].hash]]
  BY DEF CanonicalHashes
<1> HIDE DEF size
<1>4. Len(CanonicalHashes(number)) = size
  BY <1>2, <1>3
<1>5. size = number - start
  BY <1>4, WindowStart
<1>6. QED
  <2>1. SUFFICES ASSUME number > Len(canonical) PROVE FALSE
    BY <1>1
  <2>2. start < number
    BY <2>1, <1>1, FormatAssumption DEF SaturatingSub
  <2>3. QED BY <1>1, <1>5, <2>1, <2>2 DEF size

\* The window of a block of the chain passes every check.
LEMMA CanonicalWindowFits ==
    ASSUME canonical \in Chains, NEW block \in Range(canonical)
    PROVE  LET hashes == CanonicalHashes(block.number)
           IN Len(hashes) = Expected(block.number) /\ WindowFits(hashes, block)
<1> DEFINE number == block.number
           hashes == CanonicalHashes(number)
           start == SaturatingSub(number, Window)
<1>1. /\ number \in Nat /\ number < Len(canonical) /\ Len(canonical) \in Nat
      /\ canonical[number + 1] = block /\ number <= Len(canonical)
  BY BlockPosition, ChainLength
<1>2. /\ start \in Nat /\ start <= number /\ Len(hashes) = number - start
      /\ \A i \in 1..number - start :
            hashes[i].number = start + i - 1 /\ hashes[i].hash = canonical[start + i].hash
  BY <1>1, CanonicalWindow
<1>3. Len(hashes) = Expected(number) /\ Expected(number) = number - start
  BY <1>1, <1>2, WindowStart
<1>4. number > 0 => canonical[number].hash = block.parentHash
  <2>1. SUFFICES ASSUME number > 0 PROVE canonical[number].hash = block.parentHash
    OBVIOUS
  <2>2. number + 1 \in 2..Len(canonical) /\ (number + 1) - 1 = number
    BY <1>1, <2>1
  <2>3. canonical[number + 1].parentHash = canonical[(number + 1) - 1].hash
    BY <2>2, ChainsAssumption
  <2>4. QED BY <1>1, <2>2, <2>3
<1> HIDE DEF number, hashes, start
<1>5. NumbersAscend(hashes)
  <2>1. ASSUME NEW i \in 2..Len(hashes) PROVE hashes[i - 1].number < hashes[i].number
    <3>1. i \in 1..number - start /\ i - 1 \in 1..number - start
      BY <1>1, <1>2
    <3>2. hashes[i].number = start + i - 1 /\ hashes[i - 1].number = start + (i - 1) - 1
      BY <1>2, <3>1
    <3>3. QED BY <1>2, <3>2
  <2>2. QED BY <2>1 DEF NumbersAscend
<1>6. Len(hashes) > 0 => hashes[Len(hashes)].hash = block.parentHash
  <2>1. SUFFICES ASSUME Len(hashes) > 0 PROVE hashes[Len(hashes)].hash = block.parentHash
    OBVIOUS
  <2>2. Len(hashes) \in 1..number - start /\ start + Len(hashes) = number /\ number > 0
    BY <1>1, <1>2, <2>1
  <2>3. hashes[Len(hashes)].hash = canonical[start + Len(hashes)].hash
    BY <1>2, <2>2
  <2>4. QED BY <1>4, <2>2, <2>3
<1>7. /\ Len(hashes) = IF number < Window THEN number ELSE Window
      /\ \A i \in 1..Len(hashes) : hashes[i].number = start + i - 1
  BY <1>2, <1>3 DEF Expected
<1>8. QED
  BY <1>3, <1>5, <1>6, <1>7 DEF WindowFits, BlockHashesValid, number, hashes, start

\* A window that fits the header is of the header's chain, whichever chain it was read from.
LEMMA FittingWindow ==
    ASSUME NEW chain \in Chains, NEW block \in Range(chain), canonical \in Chains,
           Len(CanonicalHashes(block.number)) = Expected(block.number),
           WindowFits(CanonicalHashes(block.number), block)
    PROVE  LET hashes == CanonicalHashes(block.number)
           IN /\ block.number < Len(chain) /\ chain[block.number + 1] = block
              /\ \A i \in 1..Len(hashes) : hashes[i].hash = chain[hashes[i].number + 1].hash
              /\ {hashes[i].number : i \in 1..Len(hashes)}
                    = SaturatingSub(block.number, Window)..block.number - 1
<1> DEFINE number == block.number
           hashes == CanonicalHashes(number)
           start == SaturatingSub(number, Window)
<1>1. /\ number \in Nat /\ number < Len(chain) /\ Len(chain) \in Nat
      /\ chain[number + 1] = block
  BY BlockPosition, ChainLength
<1>2. number <= Len(canonical) /\ Len(canonical) \in Nat
  BY <1>1, FullWindow, ChainLength
<1>3. /\ start \in Nat /\ start <= number /\ Len(hashes) = number - start
      /\ \A i \in 1..number - start :
            hashes[i].number = start + i - 1 /\ hashes[i].hash = canonical[start + i].hash
  BY <1>1, <1>2, CanonicalWindow
<1>4. Len(hashes) > 0 => hashes[Len(hashes)].hash = block.parentHash
  BY DEF WindowFits, BlockHashesValid
<1> HIDE DEF number, hashes, start
<1>5. ASSUME NEW i \in 1..Len(hashes) PROVE hashes[i].hash = chain[hashes[i].number + 1].hash
  <2>1. /\ i \in 1..number - start /\ start + i \in 1..number /\ number > 0
        /\ Len(hashes) \in 1..number - start /\ start + Len(hashes) = number
        /\ Len(hashes) > 0
    BY <1>1, <1>3
  <2>2. canonical[number].hash = block.parentHash
    BY <1>3, <1>4, <2>1
  <2>3. chain[number].hash = block.parentHash
    <3>1. number + 1 \in 2..Len(chain) /\ (number + 1) - 1 = number
      BY <1>1, <2>1
    <3>2. chain[number + 1].parentHash = chain[(number + 1) - 1].hash
      BY <3>1, ChainsAssumption
    <3>3. QED BY <1>1, <3>1, <3>2
  <2>4. number \in 1..Len(chain) /\ number \in 1..Len(canonical)
    BY <1>1, <1>2, <2>1
  <2>5. \A k \in 1..number : chain[k] = canonical[k]
    <3>1. chain[number].hash = canonical[number].hash
      BY <2>2, <2>3
    <3>2. QED BY <2>4, <3>1, HashNamesAncestry
  <2>6. hashes[i].hash = canonical[start + i].hash /\ hashes[i].number + 1 = start + i
    BY <1>3, <2>1
  <2>7. QED BY <2>1, <2>5, <2>6
<1>6. {hashes[i].number : i \in 1..Len(hashes)} = start..number - 1
  <2>1. ASSUME NEW k \in start..number - 1 PROVE \E i \in 1..Len(hashes) : hashes[i].number = k
    <3>1. k - start + 1 \in 1..number - start /\ start + (k - start + 1) - 1 = k
      BY <1>1, <1>3
    <3>2. hashes[k - start + 1].number = k
      BY <1>3, <3>1
    <3>3. QED BY <1>3, <3>1, <3>2
  <2>2. \A i \in 1..Len(hashes) : hashes[i].number \in start..number - 1
    BY <1>1, <1>3
  <2>3. QED BY <2>1, <2>2
<1>7. QED BY <1>1, <1>5, <1>6 DEF number, hashes, start

LEMMA WindowStep == SourceInv /\ ReadWindow => SourceInv'
<1> SUFFICES ASSUME SourceInv, ReadWindow PROVE SourceInv'
  OBVIOUS
<1> DEFINE hashes(block) == CanonicalHashes(block.number)
<1>1. /\ canonical \in Chains /\ pc = "window"
      /\ header \subseteq Blocks
      /\ ~reorganised => header \subseteq Range(canonical)
  BY DEF SourceInv, SourceTypes, StillCanonical, ReadWindow
<1>2. PICK block \in header :
          IF Len(hashes(block)) # Expected(block.number)
          THEN Fail("BlockHashWindowIncomplete")
          ELSE IF ~WindowFits(hashes(block), block)
          THEN Fail("Format")
          ELSE /\ anchor' = {[block |-> block, blockHashes |-> hashes(block)]}
               /\ pc' = "verify"
               /\ UNCHANGED <<nodeVars, misread, best, header, paging, ranged, taken, pages, failure>>
  BY DEF ReadWindow, Expected
<1> HIDE DEF hashes
<1>3. ~reorganised => Len(hashes(block)) = Expected(block.number) /\ WindowFits(hashes(block), block)
  BY <1>1, CanonicalWindowFits DEF hashes
<1>4. CASE Len(hashes(block)) # Expected(block.number)
  BY <1>2, <1>3, <1>4, FailStep
<1>5. CASE Len(hashes(block)) = Expected(block.number) /\ ~WindowFits(hashes(block), block)
  BY <1>2, <1>3, <1>5, FailStep
<1>6. CASE Len(hashes(block)) = Expected(block.number) /\ WindowFits(hashes(block), block)
  <2>1. /\ anchor' = {[block |-> block, blockHashes |-> hashes(block)]} /\ pc' = "verify"
        /\ UNCHANGED <<nodeVars, misread, best, header, paging, ranged, taken, pages, failure>>
    BY <1>2, <1>6
  <2>2. PICK chain \in Chains : block \in Range(chain)
    BY <1>1 DEF Blocks
  <2>3. AnchorOfOneChain'
    <3>1. /\ block.number < Len(chain) /\ chain[block.number + 1] = block
          /\ \A i \in 1..Len(hashes(block)) :
                hashes(block)[i].hash = chain[hashes(block)[i].number + 1].hash
          /\ {hashes(block)[i].number : i \in 1..Len(hashes(block))}
                = SaturatingSub(block.number, Window)..block.number - 1
      BY <1>1, <1>6, <2>2, FittingWindow DEF hashes
    <3>2. QED BY <2>1, <3>1 DEF AnchorOfOneChain
  <2>4. SourceTypes'
    BY <1>1, <2>1 DEF SourceInv, SourceTypes, IsOption, InAccount, nodeVars
  <2>5. taken = <<>> /\ taken' = <<>>
    BY <1>1, <2>1 DEF SourceInv, Progress
  <2>6. Progress'
    <3>1. Len(Requested) > 0
      BY ArgumentsAssumption, EmptySeq
    <3>2. Len(taken') < Len(Requested)
      BY <2>5, <3>1
    <3>3. QED BY <2>1, <3>2 DEF Progress, InAccount, InPages
  <2>7. TakenAsAnchored' /\ RangeChecked'
    BY <2>1, <2>5 DEF TakenAsAnchored, RangeChecked
  <2>8. StillCanonical' /\ NoFalseAlarm'
    BY <1>1, <2>1 DEF SourceInv, StillCanonical, NoFalseAlarm, nodeVars
  <2>9. QED BY <2>3, <2>4, <2>6, <2>7, <2>8 DEF SourceInv
<1>7. QED BY <1>4, <1>5, <1>6

\* What the verification of the anchor finds wrong is no false alarm.
LEMMA AnchorErrorStep ==
    ASSUME SourceInv, pc \in InAccount \cup InPages,
           AnchorError # "none", Fail(AnchorError)
    PROVE  SourceInv'
<1>1. SourceTypes /\ anchor # {}
  BY DEF SourceInv, Progress
<1>2. reorganised
  BY <1>1, AnchorStays DEF SourceInv, StillCanonical
<1>3. QED BY <1>2, FailStep

LEMMA VerifyStep == SourceInv /\ Verify => SourceInv'
BY AnchorErrorStep, GotoStep DEF Verify, InAccount

\* The account being read, and what the state has of it.
LEMMA StateOfAddress ==
    ASSUME SourceTypes, Progress, pc \in InAccount, NEW a \in anchor
    PROVE  /\ Address \in Range(Requested)
           /\ State(a.block.stateRoot, Address) \subseteq StateAccounts
           /\ IsOption(State(a.block.stateRoot, Address))
           /\ \A account \in State(a.block.stateRoot, Address) :
                 account = [fields |-> account.fields, storageRoot |-> account.storageRoot]
           /\ \A answer \in RangeReads(a.block.stateRoot, Address) :
                 /\ IsOption(answer)
                 /\ \A account \in answer :
                       account = [fields |-> account.fields, storageRoot |-> account.storageRoot]
<1>1. Len(taken) \in Nat /\ Len(taken) < Len(Requested) /\ Len(Requested) \in Nat
  <2>1. taken \in Seq(Returned) /\ Requested \in Seq(Range(Requested))
    BY ArgumentsAssumption DEF SourceTypes
  <2>2. Len(taken) < Len(Requested)
    BY DEF Progress
  <2>3. QED BY <2>1, <2>2, LenProperties
<1>2. Address \in Range(Requested)
  BY <1>1, ArgumentsAssumption DEF Address, Range
<1>3. PICK chain \in Chains : a.block \in Range(chain)
  BY DEF SourceTypes, Blocks
<1>4. PICK i \in 1..Len(chain) : chain[i] = a.block
  BY <1>3, ChainLength DEF Range
<1>5. State(a.block.stateRoot, Address) \subseteq StateAccounts
  <2>1. a.block \in Blocks
    BY DEF SourceTypes
  <2>2. State(a.block.stateRoot, Address)
           \in {State(block.stateRoot, address) : block \in Blocks, address \in Range(Requested)}
    BY <1>2, <2>1
  <2>3. QED BY <2>2 DEF StateAccounts
<1>6. QED BY <1>2, <1>3, <1>4, <1>5, StateAssumption

LEMMA RangeStep == SourceInv /\ ReadRange => SourceInv'
<1> SUFFICES ASSUME SourceInv, ReadRange PROVE SourceInv'
  OBVIOUS
<1>1. SourceTypes /\ Progress /\ pc = "range" /\ pc \in InAccount
  BY DEF SourceInv, ReadRange, InAccount
<1>2. PICK a \in anchor : \E answer \in RangeReads(a.block.stateRoot, Address) :
          /\ ranged' = answer
          /\ misread' = (misread \/ answer # State(a.block.stateRoot, Address))
  BY DEF ReadRange
<1>3. /\ ranged' \in RangeReads(a.block.stateRoot, Address)
      /\ misread' = (misread \/ ranged' # State(a.block.stateRoot, Address))
  BY <1>2
<1>4. /\ IsOption(ranged')
      /\ \A r \in ranged' : r = [fields |-> r.fields, storageRoot |-> r.storageRoot]
  BY <1>1, <1>3, StateOfAddress
<1>5. SourceTypes'
  BY <1>1, <1>3 DEF SourceTypes, ReadRange, nodeVars, InAccount
<1>6. Progress'
  BY <1>1 DEF Progress, ReadRange, nodeVars, InAccount, InPages
<1>7. RangeChecked'
  <2>1. anchor = {a}
    BY <1>1 DEF SourceTypes, IsOption
  <2>2. pc' = "history" => ranged' # {}
    BY DEF ReadRange
  <2>3. ~misread' => ranged' = State(a.block.stateRoot, Address)
    BY <1>3
  <2>4. pc' # "confirm" /\ UNCHANGED <<anchor, taken>>
    BY DEF ReadRange
  <2>5. QED BY <1>4, <2>1, <2>2, <2>3, <2>4 DEF RangeChecked, Address
<1>8. StillCanonical'
  BY DEF SourceInv, StillCanonical, ReadRange, nodeVars
<1>9. NoFalseAlarm'
  BY <1>1, <1>3 DEF SourceInv, NoFalseAlarm, ReadRange, nodeVars, SourceTypes
<1>10. QED BY <1>5, <1>6, <1>7, <1>8, <1>9, TakenFrame DEF SourceInv, ReadRange

LEMMA HistoryStep == SourceInv /\ ReadHistory => SourceInv'
<1> SUFFICES ASSUME SourceInv, ReadHistory PROVE SourceInv'
  OBVIOUS
<1>1. SourceTypes /\ Progress /\ pc = "history" /\ pc \in InAccount /\ RangeChecked
  BY DEF SourceInv, ReadHistory, InAccount
<1>2. PICK a \in anchor :
          LET state == State(a.block.stateRoot, Address)
          IN IF state = {} THEN Fail("AccountDisappeared")
             ELSE IF \E s \in state, r \in ranged : ~Agrees(s, r) THEN Fail("AccountMismatch")
             ELSE Goto("confirm")
  BY DEF ReadHistory
<1> DEFINE state == State(a.block.stateRoot, Address)
<1>3. /\ IsOption(state) /\ IsOption(ranged) /\ ranged # {}
      /\ \A x \in state \cup ranged : x = [fields |-> x.fields, storageRoot |-> x.storageRoot]
      /\ ~misread => ranged = state
  BY <1>1, StateOfAddress DEF RangeChecked
<1> HIDE DEF state
<1>4. ~misread => state # {} /\ ~\E s \in state, r \in ranged : ~Agrees(s, r)
  BY <1>3 DEF IsOption, Agrees
<1>5. CASE state = {}
  BY <1>2, <1>4, <1>5, FailStep DEF state
<1>6. CASE state # {} /\ \E s \in state, r \in ranged : ~Agrees(s, r)
  BY <1>2, <1>4, <1>6, FailStep DEF state
<1>7. CASE state # {} /\ ~\E s \in state, r \in ranged : ~Agrees(s, r)
  <2>1. PICK s \in state, r \in ranged : state = {s} /\ ranged = {r}
    BY <1>3, <1>7 DEF IsOption
  <2>2. s.fields = r.fields /\ s.storageRoot = r.storageRoot
    BY <1>7, <2>1 DEF Agrees
  <2>3. s = r
    BY <1>3, <2>1, <2>2
  <2>4. anchor = {a} /\ ranged = state
    BY <1>1, <2>1, <2>3 DEF SourceTypes, IsOption
  <2>5. Goto("confirm")
    BY <1>2, <1>7 DEF state
  <2>6. \A b \in anchor : ranged = State(b.block.stateRoot, Address)
    BY <2>4 DEF state
  <2>7. QED BY <1>1, <2>5, <2>6, GotoStep
<1>8. QED BY <1>5, <1>6, <1>7

\* The account that joins the others is the anchor's.
LEMMA ConfirmStep == SourceInv /\ Confirm => SourceInv'
<1> SUFFICES ASSUME SourceInv, Confirm PROVE SourceInv'
  OBVIOUS
<1>1. SourceTypes /\ Progress /\ pc = "confirm" /\ pc \in InAccount /\ RangeChecked
  BY DEF SourceInv, Confirm, InAccount
<1>2. CASE AnchorError # "none"
  BY <1>1, <1>2, AnchorErrorStep DEF Confirm
<1>3. CASE AnchorError = "none"
  <2>1. PICK a \in anchor : anchor = {a}
    <3>1. anchor # {} /\ \A x, y \in anchor : x = y
      BY <1>1 DEF SourceTypes, Progress, IsOption
    <3>2. QED BY <3>1
  <2>2. PICK r \in ranged : taken' = Append(taken, [address |-> Address, account |-> r])
    BY <1>3 DEF Confirm
  <2>3. /\ State(a.block.stateRoot, Address) = {r}
        /\ Address \in Range(Requested) /\ r \in StateAccounts
    BY <1>1, <2>1, <2>2, StateOfAddress DEF RangeChecked, IsOption
  <2>4. [address |-> Address, account |-> r] \in Returned /\ taken \in Seq(Returned)
    BY <1>1, <2>3 DEF Returned, SourceTypes
  <2>5. /\ taken' \in Seq(Returned) /\ Len(taken') = Len(taken) + 1 /\ Len(taken) \in Nat
        /\ \A i \in 1..Len(taken) : taken'[i] = taken[i]
        /\ taken'[Len(taken) + 1] = [address |-> Address, account |-> r]
    BY <2>2, <2>4, AppendProperties, LenProperties
  <2>6. /\ pc' = IF Len(taken') = Len(Requested) THEN "done" ELSE "verify"
        /\ UNCHANGED <<blockArgument, canonical, reorganised, misread, best, header, anchor, failure>>
    BY <1>3 DEF Confirm, nodeVars
  <2>7. TakenAsAnchored'
    <3>1. ASSUME NEW i \in 1..Len(taken')
          PROVE  /\ taken'[i].address = Requested[i]
                 /\ {taken'[i].account} = State(a.block.stateRoot, Requested[i])
      <4>1. CASE i \in 1..Len(taken)
        <5>1. /\ taken[i].address = Requested[i]
              /\ {taken[i].account} = State(a.block.stateRoot, Requested[i])
          BY <2>1, <4>1 DEF SourceInv, TakenAsAnchored
        <5>2. QED BY <2>5, <4>1, <5>1
      <4>2. CASE i = Len(taken) + 1
        BY <2>3, <2>5, <4>2 DEF Address
      <4>3. QED BY <2>5, <4>1, <4>2
    <3>2. QED BY <2>1, <2>6, <3>1 DEF TakenAsAnchored
  <2>8. SourceTypes'
    BY <1>1, <2>5, <2>6 DEF SourceTypes, InAccount, InPages
  <2>9. Progress'
    <3>1. Len(taken) < Len(Requested) /\ Len(Requested) \in Nat
      BY <1>1, ArgumentsAssumption, LenProperties DEF Progress
    <3>2. pc' = "verify" => Len(taken') < Len(Requested)
      BY <2>5, <2>6, <3>1
    <3>3. QED BY <2>1, <2>6, <3>2 DEF Progress, InAccount, InPages
  <2>10. RangeChecked' /\ StillCanonical' /\ NoFalseAlarm'
    BY <2>6 DEF SourceInv, RangeChecked, StillCanonical, NoFalseAlarm
  <2>11. AnchorOfOneChain'
    BY <2>6 DEF SourceInv, AnchorOfOneChain
  <2>12. QED BY <2>7, <2>8, <2>9, <2>10, <2>11 DEF SourceInv
<1>4. QED BY <1>2, <1>3

\* Reading a page changes nothing that has been taken.
LEMMA PageStep ==
    ASSUME SourceInv,
           \/ \E address \in Range(Requested) : StartPage(address)
           \/ ReadPage \/ ConfirmPage
    PROVE  SourceInv'
<1>1. pc \in InPages /\ (AnchorError # "none" /\ Fail(AnchorError) => SourceInv')
  BY AnchorErrorStep DEF StartPage, ReadPage, ConfirmPage, InPages
<1>2. CASE AnchorError # "none" /\ Fail(AnchorError)
  BY <1>1, <1>2
<1>3. CASE ~(AnchorError # "none" /\ Fail(AnchorError))
  <2>1. /\ UNCHANGED <<nodeVars, best, header, anchor, ranged, taken>>
        /\ pc' \in InPages \cup {"failed"}
        /\ misread' \in {misread, TRUE}
        /\ misread' # misread \/ UNCHANGED failure
    BY <1>3 DEF StartPage, ReadPage, ConfirmPage, InPages
  <2>2. SourceTypes'
    BY <2>1 DEF SourceInv, SourceTypes, nodeVars
  <2>3. Progress' /\ RangeChecked'
    BY <1>1, <2>1 DEF SourceInv, Progress, RangeChecked, InAccount, InPages
  <2>4. StillCanonical'
    BY <2>1 DEF SourceInv, StillCanonical, nodeVars
  <2>5. NoFalseAlarm'
    <3>1. CASE misread' = misread
      BY <2>1, <3>1 DEF SourceInv, NoFalseAlarm, nodeVars
    <3>2. CASE misread' # misread
      <4>1. misread' = TRUE
        BY <2>1, <3>2
      <4>2. QED BY <4>1 DEF NoFalseAlarm
    <3>3. QED BY <3>1, <3>2
  <2>6. QED BY <2>1, <2>2, <2>3, <2>4, <2>5, TakenFrame DEF SourceInv
<1>4. QED BY <1>2, <1>3

LEMMA SourceNext == SourceInv /\ [Next]_vars => SourceInv'
<1> SUFFICES ASSUME SourceInv, [Next]_vars PROVE SourceInv'
  OBVIOUS
<1>1. CASE NodeMoves
  BY <1>1, NodeMovesStep
<1>2. CASE ReadFails
  BY <1>2, FailStep DEF ReadFails
<1>3. CASE ReadChainInfo \/ ReadHeader \/ ReadWindow
  BY <1>3, ChainInfoStep, HeaderStep, WindowStep
<1>4. CASE Verify \/ ReadRange \/ ReadHistory \/ Confirm
  BY <1>4, VerifyStep, RangeStep, HistoryStep, ConfirmStep
<1>5. CASE (\E address \in Range(Requested) : StartPage(address)) \/ ReadPage \/ ConfirmPage
  BY <1>5, PageStep
<1>6. CASE UNCHANGED vars
  <2>1. /\ UNCHANGED <<blockArgument, canonical, reorganised, misread, pc, best, header>>
        /\ UNCHANGED <<anchor, ranged, taken, failure>>
    BY <1>6 DEF vars, nodeVars
  <2>2. SourceTypes' /\ Progress'
    BY <2>1 DEF SourceInv, SourceTypes, Progress
  <2>3. RangeChecked' /\ StillCanonical' /\ NoFalseAlarm'
    BY <2>1 DEF SourceInv, RangeChecked, StillCanonical, NoFalseAlarm, Address
  <2>4. QED BY <2>1, <2>2, <2>3, TakenFrame DEF SourceInv
<1>7. QED BY <1>1, <1>2, <1>3, <1>4, <1>5, <1>6 DEF Next

-----------------------------------------------------------------------------
(* The properties *)

LEMMA SourceInvariant == Spec => []SourceInv
BY SourceInit, SourceNext, PTL DEF Spec

\* The anchor's block and its BLOCKHASH window are of one chain, whatever the node
\* did between the reads of the head, the header and the window (reth.rs:104-193).
THEOREM AnchorIsOfOneChain == Spec => []AnchorOfOneChain
<1>1. SourceInv => AnchorOfOneChain
  BY DEF SourceInv
<1>2. QED BY <1>1, SourceInvariant, PTL

\* Every account taken is the anchor's, whatever the range provider answers
\* (reth.rs:207-282).
THEOREM AccountsAreTheAnchors == Spec => []TakenAsAnchored
<1>1. SourceInv => TakenAsAnchored
  BY DEF SourceInv
<1>2. QED BY <1>1, SourceInvariant, PTL

\* Without a reorganisation or a wrong answer no check of the export fails
\* (reth.rs:77-92, 116-143, 217-257).
THEOREM ChecksRaiseNoFalseAlarm == Spec => []NoFalseAlarm
<1>1. SourceInv => NoFalseAlarm
  BY DEF SourceInv
<1>2. QED BY <1>1, SourceInvariant, PTL

\* An account or a page is returned only while the anchor is on the chain.
LEMMA ReturningStep ==
    ASSUME SourceInv, [Next]_vars, taken' # taken \/ pages' # pages, NEW a \in anchor
    PROVE  a.block \in Range(canonical)
<1>1. \/ Confirm /\ taken' # taken
      \/ ConfirmPage /\ pages' # pages
  BY DEF Next, vars, NodeMoves, ReadFails, ReadChainInfo, ReadHeader, ReadWindow, Verify,
         ReadRange, ReadHistory, Confirm, StartPage, ReadPage, ConfirmPage, Fail, Goto
<1>2. AnchorError = "none"
  BY <1>1 DEF Confirm, ConfirmPage, Fail
<1>3. QED BY <1>2, AnchorConfirmed DEF SourceInv

\* Though the anchor may leave the chain and come back while it is read, what is
\* returned is returned while the anchor is canonical (reth.rs:270, 301).
THEOREM ReturnsWhileCanonical == Spec => ReturnedWhileCanonical
<1>1. SourceInv /\ [Next]_vars =>
          [taken' # taken \/ pages' # pages => \A a \in anchor : a.block \in Range(canonical)]_vars
  BY ReturningStep
<1>2. QED BY <1>1, SourceInvariant, PTL DEF Spec, ReturnedWhileCanonical
===============================================================================
