--------------------------- MODULE SnapshotFormat ---------------------------
(* The v1 snapshot document (crates/snapshot-format): the records of an       *)
(* envelope and the checks a reader runs on it.                               *)
(*                                                                            *)
(* keccak256 and the Merkle-Patricia root are ideal hashes: Keccak is          *)
(* injective, so a hash commits to exactly one value.  An Option is a set with *)
(* at most one element.  A 32-byte storage key is a number in Keys, a storage  *)
(* value a number in Words whose zero is U256::ZERO, and the hash window is    *)
(* Window blocks long (256 in the code).                                      *)
EXTENDS Integers, Sequences, FiniteSets, Functions

CONSTANTS MaxKey,    \* the key 0xff..ff
          MaxWord,   \* the largest storage value
          Window     \* how many ancestors BLOCKHASH may name

ASSUME FormatAssumption ==
    MaxKey \in Nat /\ MaxWord \in Nat \ {0} /\ Window \in Nat \ {0}

Keys == 0..MaxKey
Words == 0..MaxWord
Entry == [key : Keys, word : Words]

Keccak(preimage) == <<"keccak", preimage>>

\* Hardforks in the order the enum derives; the names are those of the forks a
\* field appears with.
Hardforks == 0..18
London == 10
Paris == 13
Cancun == 15
Amsterdam == 18

-----------------------------------------------------------------------------
(* Storage entries and their root *)

StorageEntriesValid(entries) ==
    /\ \A i \in 1..Len(entries) : entries[i].word # 0
    /\ \A i \in 2..Len(entries) : entries[i - 1].key < entries[i].key

\* StorageRootBuilder::push takes an entry after one of the key `previous`.
LeafAccepted(entry, previous) == entry.word # 0 /\ entry.key > previous

\* StorageRootBuilder::finish after every entry was pushed: the root commits to
\* the set of leaves, whatever pages they arrived in.
StorageRoot(entries) == Keccak(Range(entries))

-----------------------------------------------------------------------------
(* The block-hash window: a sequence of [number, hash] records *)

NumbersAscend(hashes) ==
    \A i \in 2..Len(hashes) : hashes[i - 1].number < hashes[i].number

SaturatingSub(a, b) == IF a < b THEN 0 ELSE a - b

BlockHashesValid(hashes, block) ==
    /\ NumbersAscend(hashes)
    /\ Len(hashes) = IF block.number < Window THEN block.number ELSE Window
    /\ \A i \in 1..Len(hashes) :
          hashes[i].number = SaturatingSub(block.number, Window) + i - 1
    /\ Len(hashes) > 0 => hashes[Len(hashes)].hash = block.parentHash

-----------------------------------------------------------------------------
(* Execution context against block *)

FieldFits(hardfork, introduced, field) == (hardfork >= introduced) <=> (field # {})

ForkFieldsValid(execution, block) ==
    /\ FieldFits(execution.hardfork, London, block.baseFee)
    /\ FieldFits(execution.hardfork, Paris, block.prevRandao)
    /\ FieldFits(execution.hardfork, Cancun, block.excessBlobGas)
    /\ FieldFits(execution.hardfork, Cancun, execution.blobFraction)
    /\ FieldFits(execution.hardfork, Amsterdam, block.slotNumber)

ValidForBlock(execution, block) ==
    /\ block.gasLimit # 0
    /\ execution.blobFraction # {0}
    /\ ForkFieldsValid(execution, block)

-----------------------------------------------------------------------------
(* Account records and the whole document: a record is [account, code, storage] *)
(* with account = [address, codeHash, storageRoot]                             *)

AccountRecordValid(record) ==
    /\ Keccak(record.code) = record.account.codeHash
    /\ StorageEntriesValid(record.storage)
    /\ StorageRoot(record.storage) = record.account.storageRoot

AddressesUnique(list) ==
    \A i, j \in 1..Len(list) : list[i].account.address = list[j].account.address => i = j

\* The part of Snapshot::validate that is about the account records.
AccountListValid(list) ==
    /\ list # <<>>
    /\ AddressesUnique(list)
    /\ \A i \in 1..Len(list) : AccountRecordValid(list[i])

\* Snapshot::validate, what Snapshot::from_slice demands of a parsed document.
SnapshotValid(snapshot) ==
    /\ snapshot.version = 1
    /\ AccountListValid(snapshot.accounts)
    /\ BlockHashesValid(snapshot.blockHashes, snapshot.block)
    /\ ValidForBlock(snapshot.execution, snapshot.block)
=============================================================================
