----------------------------- MODULE ContractAbi -----------------------------
(* ContractAbi (crates/snapshot-web/src/abi): the interface of a contract as a *)
(* user gave it, used to encode a call by signature and to read what the call  *)
(* returned.  A value is known by its type and stands for its text; alloy's    *)
(* codec is known by the lists of types some data can be read as.              *)
EXTENDS Integers, Sequences, FiniteSets, Functions

CONSTANT Unresolvable   \* the parameter types that name no Solidity type

\* JsonAbi: functions() and errors() in the order they list them.  A signature is
\* its rank among the texts; it spells the types of the inputs.
IsAbi(abi) ==
    /\ abi.functions \in Seq(Range(abi.functions))
    /\ \A f, g \in Range(abi.functions) :
          /\ f.signature \in Nat
          /\ f.signature = g.signature => f.inputs = g.inputs

\* Iterator::find, as an Option.
First(list, matching) ==
    {list[i] : i \in {j \in DOMAIN list :
        list[j] \in matching /\ \A k \in 1..(j - 1) : list[k] \notin matching}}

Signed(functions, signature) == {f \in Range(functions) : f.signature = signature}

\* describe: sorted by signature, those of one signature in the order listed.
Describe(abi) ==
    LET Before(i) ==
            {j \in DOMAIN abi.functions :
                \/ abi.functions[j].signature < abi.functions[i].signature
                \/ abi.functions[j].signature = abi.functions[i].signature /\ j < i}
    IN [k \in DOMAIN abi.functions |->
            abi.functions[CHOOSE i \in DOMAIN abi.functions : Cardinality(Before(i)) = k - 1]]

-----------------------------------------------------------------------------

\* [defect] of two functions of one signature the last one listed is used.
FunctionLast(abi, signature) ==
    {abi.functions[i] : i \in {j \in DOMAIN abi.functions :
        abi.functions[j].signature = signature
        /\ \A k \in (j + 1)..Len(abi.functions) : abi.functions[k].signature # signature}}

Function(abi, signature) ==
    First(abi.functions, Signed(abi.functions, signature))

\* encode_call is Ok: a text is known by the type it can be coerced to.
Encodes(abi, signature, arguments) ==
    \E function \in Function(abi, signature) :
        /\ Len(arguments) = Len(function.inputs)
        /\ \A i \in DOMAIN arguments :
              function.inputs[i] \notin Unresolvable /\ arguments[i] = function.inputs[i]

Reads(data, types) == types \in data.readable /\ \A i \in DOMAIN types : types[i] \notin Unresolvable

\* decode_output, as an Option.
DecodeOutput(abi, signature, data) ==
    {function.outputs : function \in {f \in Function(abi, signature) : Reads(data, f.outputs)}}

-----------------------------------------------------------------------------

\* Error(string) and Panic(uint256), which the compiler itself reverts with.
StandardErrors == <<[selector |-> "Error", inputs |-> <<"string">>],
                    [selector |-> "Panic", inputs |-> <<"uint">>]>>

\* The first error of the data's selector decides, also when it cannot be read.
ErrorIn(errors, data) ==
    LET selected == {error \in Range(errors) : error.selector = data.selector}
    IN {error \in First(errors, selected) : Reads(data, error.inputs)}

DecodeStandardRevert(data) == ErrorIn(StandardErrors, data)

DecodeRevert(abi, data) ==
    LET standard == DecodeStandardRevert(data)
    IN IF standard = {} THEN ErrorIn(abi.errors, data) ELSE standard
===============================================================================
