-------------------------------- MODULE HexText --------------------------------
(* How numbers, hashes, addresses and bytes are written in a snapshot document *)
(* and read: by the document's own reader (crates/snapshot-format/src/format/  *)
(* hex.rs), and by the more lenient ones of the command line (command/cli.rs)  *)
(* and of the call form (snapshot-web/src/executor/workspace.rs).              *)
(*                                                                             *)
(* A text is its prefix and its characters, with spaces around it or not and a  *)
(* plus sign before the characters or not.  A character is a digit 0..Base-1,   *)
(* the capital Base + d of a letter d, an underscore, or the letter x, which no *)
(* number has either and which stands for every other one; decimal digits are   *)
(* those below Letter.  A kind of number has as many values as its Limit, an    *)
(* address and a hash as many digits as their Width.                            *)
EXTENDS Naturals, Sequences, SequencesExt

CONSTANTS Base, Letter,   \* digits from Letter on are letters (16 and 10)
          Limit,          \* per quantity, the number of its values (2^64, 2^128, 2^256)
          Width,          \* per fixed kind, its number of digits
          MaxLength       \* bound on the characters of a text

Quantities == {"u64", "u128", "u256"}
FixedKinds == {"address", "hash"}
Kinds == Quantities \cup FixedKinds \cup {"bytes"}

ASSUME HexAssumption ==
    /\ Base \in Nat /\ Letter \in 1..Base - 1 /\ MaxLength \in Nat
    /\ Limit \in [Quantities -> Nat] /\ Width \in [FixedKinds -> Nat]
    /\ Limit["u64"] <= Limit["u128"] /\ Limit["u128"] <= Limit["u256"]

VARIABLES reader, kind,    \* who reads, and what
          written,         \* the value written, as a number or its digits, if any
          text, read,      \* what is to be read, what was read from it
          stage

textVars == <<reader, kind, written, text, read, stage>>

\* What each reader reads.
KindsOf == [document |-> Kinds, commandLine |-> {"address", "u64"},
            form |-> {"address", "u256", "bytes"}]

DigitsOnly == 0..Base - 1
Underscore == 2 * Base
LetterX == 2 * Base + 1
Characters == DigitsOnly \cup (Base + Letter)..LetterX
Texts == [prefix : {"none", "0x", "0X"}, padded : BOOLEAN, plus : BOOLEAN,
          characters : BoundedSeq(Characters, MaxLength)]
Plain(characters) == [prefix |-> "0x", padded |-> FALSE, plus |-> FALSE, characters |-> characters]

Lowercase(character) ==
    IF character \in (Base + Letter)..(2 * Base - 1) THEN character - Base ELSE character

\* What a value of the kind is: a number, or so many digits.
ValuesOf(k) ==
    IF k \in Quantities THEN 0..Limit[k] - 1
    ELSE IF k \in FixedKinds THEN [1..Width[k] -> DigitsOnly]
    ELSE {digits \in BoundedSeq(DigitsOnly, MaxLength) : Len(digits) % 2 = 0}

-----------------------------------------------------------------------------
(* Writing *)

\* format!("{value:#x}")
LowerHex[value \in Nat] ==
    IF value < Base THEN <<value>> ELSE Append(LowerHex[value \div Base], value % Base)

\* Address::to_string capitalises letters by a checksum: any of them.
Checksummed(digits) ==
    {characters \in [1..Len(digits) -> Characters] :
        \A i \in 1..Len(digits) : Lowercase(characters[i]) = digits[i]}

\* [defect] an address is written with its checksum.
AddressTextsChecksummed(digits) == Checksummed(digits)

AddressTexts(digits) ==
    {[i \in 1..Len(digits) |-> Lowercase(characters[i])] : characters \in Checksummed(digits)}

Written(k, value) ==
    IF k \in Quantities THEN {LowerHex[value]}
    ELSE IF k = "address" THEN AddressTexts(value) ELSE {value}

Write ==
    /\ stage = "value" /\ stage' = "text"
    /\ \E value \in written : \E characters \in Written(kind, value) :
          text' = Plain(characters)
    /\ UNCHANGED <<reader, kind, written, read>>

-----------------------------------------------------------------------------
(* Reading a document *)

LowercaseHex(characters) == \A i \in 1..Len(characters) : characters[i] \in DigitsOnly

\* from_str_radix, digit by digit: the number each prefix of the text has.  The
\* U256 one skips underscores; no other reader lets one through.
PrefixNumbers(base, characters) ==
    LET value[i \in 0..Len(characters)] ==
            IF i = 0 THEN 0
            ELSE IF characters[i] = Underscore THEN value[i - 1]
            ELSE base * value[i - 1] + characters[i]
    IN value

NumberIn(base, characters) == PrefixNumbers(base, characters)[Len(characters)]
Number(digits) == NumberIn(Base, digits)

\* [defect] leading zeros pass.
CanonicalQuantityAnyZeros(t) ==
    t = Plain(t.characters) /\ t.characters # <<>> /\ LowercaseHex(t.characters)

CanonicalQuantity(t) ==
    /\ t = Plain(t.characters) /\ t.characters # <<>>
    /\ Len(t.characters) > 1 => t.characters[1] # 0
    /\ LowercaseHex(t.characters)

\* parse_quantity_u256, then try_into for the narrower kinds.
ParseQuantity(k, t) ==
    IF /\ CanonicalQuantity(t)
       /\ Number(t.characters) < Limit["u256"] /\ Number(t.characters) < Limit[k]
    THEN {Number(t.characters)} ELSE {}

ParseFixed(k, t) ==
    IF t = Plain(t.characters) /\ Len(t.characters) = Width[k] /\ LowercaseHex(t.characters)
    THEN {t.characters} ELSE {}

ParseBytes(t) ==
    IF t = Plain(t.characters) /\ Len(t.characters) % 2 = 0 /\ LowercaseHex(t.characters)
    THEN {t.characters} ELSE {}

ReadDocument(k, t) ==
    IF k \in Quantities THEN ParseQuantity(k, t)
    ELSE IF k \in FixedKinds THEN ParseFixed(k, t) ELSE ParseBytes(t)

-----------------------------------------------------------------------------
(* Reading the command line and the form: any case *)

Lowercased(characters) == [i \in DOMAIN characters |-> Lowercase(characters[i])]
DigitsOf(base, characters) == \A i \in DOMAIN characters : Lowercase(characters[i]) < base

\* Address::from_str, after the command line's trim.
ParseAddress(t) ==
    IF /\ t.prefix # "0X" /\ ~t.plus
       /\ Len(t.characters) = Width["address"] /\ DigitsOf(Base, t.characters)
    THEN {Lowercased(t.characters)} ELSE {}

\* parse_block_number: the standard library's integers may have a sign.
ParseBlockNumber(t) ==
    LET base == IF t.prefix = "none" THEN Letter ELSE Base
    IN IF /\ ~t.padded /\ t.characters # <<>> /\ DigitsOf(base, t.characters)
          /\ NumberIn(base, Lowercased(t.characters)) < Limit["u64"]
       THEN {NumberIn(base, Lowercased(t.characters))} ELSE {}

\* parse_quantity: U256::from_str_radix skips underscores and takes no digits for 0.
ParseFormQuantity(t) ==
    LET base == IF t.prefix = "none" THEN Letter ELSE Base
        characters == Lowercased(t.characters)
    IN IF /\ ~t.padded /\ ~t.plus
          /\ t.prefix = "none" \/ (t.prefix = "0x" /\ t.characters # <<>>)
          /\ \A i \in DOMAIN characters : characters[i] < base \/ characters[i] = Underscore
          /\ NumberIn(base, characters) < Limit["u256"]
       THEN {NumberIn(base, characters)} ELSE {}

\* hex::decode drops a 0x of its own.
Unprefixed(characters) ==
    IF Len(characters) > 1 /\ characters[1] = 0 /\ characters[2] = LetterX
    THEN SubSeq(characters, 3, Len(characters)) ELSE characters

\* parse_bytes: so a text may have two prefixes.
ParseFormBytes(t) ==
    LET digits == Unprefixed(t.characters)
    IN IF t.prefix = "0x" /\ ~t.padded /\ ~t.plus
          /\ Len(t.characters) % 2 = 0 /\ DigitsOf(Base, digits)
       THEN {Lowercased(digits)} ELSE {}

ReadCommandLine(k, t) == IF k = "address" THEN ParseAddress(t) ELSE ParseBlockNumber(t)

ReadForm(k, t) ==
    CASE k = "address" -> IF t.padded THEN {} ELSE ParseAddress(t)
      [] k = "u256" -> ParseFormQuantity(t)
      [] k = "bytes" -> ParseFormBytes(t)

Read ==
    /\ stage = "text" /\ stage' = "read"
    /\ read' = CASE reader = "document" -> ReadDocument(kind, text)
                 [] reader = "commandLine" -> ReadCommandLine(kind, text)
                 [] reader = "form" -> ReadForm(kind, text)
    /\ UNCHANGED <<reader, kind, written, text>>

-----------------------------------------------------------------------------

TextInit ==
    /\ reader \in DOMAIN KindsOf /\ kind \in KindsOf[reader] /\ read = {}
    /\ \/ /\ stage = "value" /\ text = Plain(<<>>)
          /\ \E value \in ValuesOf(kind) : written = {value}
       \/ /\ stage = "text" /\ text \in Texts /\ written = {}

TextNext == Write \/ Read

TextSpec == TextInit /\ [][TextNext]_textVars

-----------------------------------------------------------------------------
(* Properties *)

\* What the exporter writes of any value each reader reads as that value: the
\* document's (hex.rs), and those of the command line and the call form, where an
\* address or a number of a document may be copied (cli.rs:77-100,
\* workspace.rs:321-354).
RoundTrip == stage = "read" /\ written # {} => read = written

\* A document has one text: of all the texts of a value its reader takes only the
\* one the exporter writes (hex.rs:170-255).  No reader lets a value wrap.
OneText ==
    \A value \in read :
        /\ value \in ValuesOf(kind)
        /\ reader = "document" => text = Plain(text.characters) /\ text.characters \in Written(kind, value)
===============================================================================
