----------------------------- MODULE KeySuccessor -----------------------------
(* key_successor and the comparison of next_page_start                         *)
(* (crates/reth-contract-snapshot/src/snapshot/writer.rs): a key is bytes, most*)
(* significant first, and keys compare as byte strings.  SnapshotWriter takes  *)
(* a key for a number and its successor for the next one: this is why it may.  *)
EXTENDS Integers

CONSTANTS Bytes,    \* bytes of a key (32)
          Values    \* values of a byte (256)

ASSUME KeyAssumption == Bytes \in Nat \ {0} /\ Values \in Nat \ {0, 1}

ByteKeys == [1..Bytes -> 0..Values - 1]

VARIABLES key, bytes,   \* the argument, and the copy that is incremented
          place,        \* the byte iter_mut().rev() has come to
          successor     \* {} while running, then {the result}: Some key or None

carryVars == <<key, bytes, place, successor>>

NoKey == <<>>

\* [defect] a byte that does not overflow is passed, too.
IncrementEvery ==
    /\ place > 0 /\ successor = {}
    /\ bytes' = [bytes EXCEPT ![place] = (@ + 1) % Values]
    /\ place' = place - 1
    /\ successor' = IF place = 1 THEN {bytes'} ELSE {}
    /\ UNCHANGED key

\* overflowing_add(1); the carry goes on only from a byte that overflowed.
Increment ==
    /\ place > 0 /\ successor = {}
    /\ bytes' = [bytes EXCEPT ![place] = (@ + 1) % Values]
    /\ place' = place - 1
    /\ successor' = IF bytes[place] + 1 < Values THEN {bytes'} ELSE {}
    /\ UNCHANGED key

Exhausted ==
    /\ place = 0 /\ successor = {} /\ successor' = {NoKey}
    /\ UNCHANGED <<key, bytes, place>>

CarryInit == key \in ByteKeys /\ bytes = key /\ place = Bytes /\ successor = {}

CarryNext == Increment \/ Exhausted

CarrySpec == CarryInit /\ [][CarryNext]_carryVars

-----------------------------------------------------------------------------
(* Properties *)

\* B256's order, by the first byte that differs.
Less(one, two) ==
    \E i \in 1..Bytes : one[i] < two[i] /\ \A j \in 1..i - 1 : one[j] = two[j]

\* Whatever the carries, the successor is the next key in the order pages are
\* read in: the page that starts there skips nothing and repeats nothing, and
\* only the greatest key has none (writer.rs:206-228).
SuccessorIsNext ==
    \A result \in successor :
        IF result = NoKey THEN \A other \in ByteKeys : ~Less(key, other)
        ELSE Less(key, result) /\ \A other \in ByteKeys : Less(key, other) => ~Less(other, result)
===============================================================================
