--------------------------- MODULE LoadedContracts ---------------------------
(* What a workspace promises of what is loaded: a map from addresses to        *)
(* contracts, each whole by itself (its record with its own bytecode and the    *)
(* block it was exported at), all of one block.  A batch joins as a whole or    *)
(* not at all; a removal takes one contract and nothing of another; an ABI      *)
(* concerns one address; calls change nothing, and what they miss is an account *)
(* that is not loaded, if the EVM takes the transaction (README.md:88-92,       *)
(* workspace.rs:40-43).                                                         *)
EXTENDS Functions

CONSTANTS Addresses, Interfaces,
          Batches      \* what may be loaded: maps from addresses to contracts

VARIABLES contracts, interfaces, answer

vars == <<contracts, interfaces, answer>>

Init == contracts = <<>> /\ interfaces = <<>> /\ answer = "none"

Load(batch) ==
    /\ DOMAIN batch \cap DOMAIN contracts = {}
    /\ contracts' = [address \in DOMAIN contracts \cup DOMAIN batch |->
                        IF address \in DOMAIN batch THEN batch[address] ELSE contracts[address]]
    /\ \A address, other \in DOMAIN contracts' :
          contracts'[address].context = contracts'[other].context
    /\ answer' = "loaded" /\ UNCHANGED interfaces

Unload(address) ==
    /\ address \in DOMAIN contracts
    /\ contracts' = Restrict(contracts, DOMAIN contracts \ {address})
    /\ answer' = "removed" /\ UNCHANGED interfaces

SetInterface(address, interface) ==
    /\ interfaces' = [a \in DOMAIN interfaces \cup {address} |->
                         IF a = address THEN interface ELSE interfaces[a]]
    /\ answer' = "ABI set" /\ UNCHANGED contracts

RemoveInterface(address) ==
    /\ interfaces' = Restrict(interfaces, DOMAIN interfaces \ {address})
    /\ answer' = "ABI removed" /\ UNCHANGED contracts

Call ==
    /\ \/ answer' \in {"executed", "Transaction"} /\ DOMAIN contracts # {}
       \/ answer' = "MissingAccount" /\ Addresses \ DOMAIN contracts # {}
    /\ UNCHANGED <<contracts, interfaces>>

Refuse ==
    /\ answer' \in {"batch refused", "nothing to remove", "ABI refused", "request refused"}
    /\ UNCHANGED <<contracts, interfaces>>

Next ==
    \/ Call \/ Refuse
    \/ \E address \in Addresses :
          \/ Unload(address) \/ RemoveInterface(address)
          \/ \E interface \in Interfaces : SetInterface(address, interface)
    \/ \E batch \in Batches : Load(batch)

Spec == Init /\ [][Next]_vars
=============================================================================
