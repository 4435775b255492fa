----------------------------- MODULE WordCodec ------------------------------
(***************************************************************************)
(* How 32-byte words and Zeko addresses are read and written as text: the  *)
(* JSON form of proof inputs (lib/src/lib.rs), the Base58Check form of a   *)
(* public key in the explorer (api/src/explorer.rs), and the packed form   *)
(* the contracts use (contracts/src/ZekoAddress.sol).  Characters are the  *)
(* digits they stand for.  The bases and the width are parameters, so that *)
(* every text around the limits fits an instance.  Fields of other widths  *)
(* (addresses of 20 bytes) accept hex only and are left out.               *)
(***************************************************************************)
EXTENDS Integers, SequencesExt

CONSTANTS
    Nibble,     \* 16 in the code: two hex digits make a byte
    Ten,        \* base of decimal strings
    Base58,     \* size of the Base58 alphabet
    Width,      \* bytes of a word: N = 32
    FieldOrder, \* Pasta base field: x coordinates are below it
    MaxText     \* bound on the length of texts, by the kind of text

Byte == Nibble * Nibble
Kinds == {"hex", "decimal", "base58", "bytes"}

\* The sign bit of a packed address is the top bit of the word.
SignMask == Byte^Width \div 2

ASSUME CodecAssumption ==
    /\ {Nibble, Ten, Base58, Width, FieldOrder} \subseteq Nat \ {0, 1}
    /\ Nibble % 2 = 0 /\ Width % 2 = 0
    /\ FieldOrder <= SignMask
    /\ MaxText \in [Kinds -> Nat]

VARIABLES kind, text

textVars == <<kind, text>>

Error == << >>      \* no word has zero bytes

\* The number that digits write in a base, most significant first.
Value(digits, base) ==
    FoldLeft(LAMBDA n, digit : n * base + digit, 0, digits)

Are(base) == \A i \in DOMAIN text : text[i] < base

-----------------------------------------------------------------------------
(* Words                                                                   *)

\* A short text fills the word from the right; an empty one is zero.
ParseHexFixed(hex) ==
    LET start == 2 * Width - Len(hex)
        nibble(k) == IF k < start THEN 0 ELSE hex[k - start + 1] IN
    IF Len(hex) > 2 * Width \/ \E i \in DOMAIN hex : hex[i] >= Nibble
    THEN Error
    ELSE [i \in 1..Width |-> nibble(2 * i - 2) * Nibble + nibble(2 * i - 1)]

\* What is carried into byte i when the word is multiplied by Ten and digit
\* is added; the carry out of the first byte is Carry(word, digit)[0].
Carry(word, digit) ==
    LET carry[i \in 0..Width] ==
          IF i = Width THEN digit
          ELSE (word[i + 1] * Ten + carry[i + 1]) \div Byte
    IN  carry

AppendDigit(word, digit) ==
    IF word = Error \/ digit >= Ten \/ Carry(word, digit)[0] # 0 THEN Error
    ELSE [i \in 1..Width |-> (word[i] * Ten + Carry(word, digit)[i]) % Byte]

ParseDecimal(decimal) ==
    IF decimal = << >> THEN Error
    ELSE FoldLeft(AppendDigit, [i \in 1..Width |-> 0], decimal)

\* A JSON number, at most half a word wide, in the low half.
IntegerToFixedBytes(value) ==
    [i \in 1..Width |->
        IF i <= Width \div 2 THEN 0
        ELSE (value \div Byte^(Width - i)) % Byte]

\* A JSON array must have the word's length.
VisitSeq(bytes) == IF Len(bytes) = Width THEN bytes ELSE Error

FixedBytesToHex(word) ==
    [k \in 1..(2 * Width) |->
        LET byte == word[(k + 1) \div 2] IN
        IF k % 2 = 1 THEN byte \div Nibble ELSE byte % Nibble]

-----------------------------------------------------------------------------
(* Base58.  The accumulator holds the digits least significant first.      *)

\* acc * from + digit, in base to, as long as it has to be.
Push(acc, digit, from, to) ==
    LET carry[i \in 0..Len(acc)] ==
          IF i = 0 THEN digit ELSE (acc[i] * from + carry[i - 1]) \div to
        rest[n \in Nat] == IF n = 0 THEN << >>
                           ELSE <<n % to>> \o rest[n \div to]
    IN  [i \in DOMAIN acc |-> (acc[i] * from + carry[i - 1]) % to]
        \o rest[carry[Len(acc)]]

LeadingZeroes(digits) ==
    LongestCommonPrefix({digits, [i \in DOMAIN digits |-> 0] \o <<0>>})

Rebased(digits, from, to) ==
    Reverse(FoldLeft(LAMBDA acc, digit : Push(acc, digit, from, to), << >>,
                     digits))

Base58Encode(bytes) == LeadingZeroes(bytes) \o Rebased(bytes, Byte, Base58)

Base58Decode(digits) == LeadingZeroes(digits) \o Rebased(digits, Base58, Byte)

-----------------------------------------------------------------------------
(* Addresses.  One byte stands for the four of the checksum; SHA-256 is    *)
(* external, any function of the bytes will do.                            *)

KeyVersion == 3

Checksum(bytes) ==
    FoldLeft(LAMBDA sum, byte : (sum * 5 + byte + 1) % Byte, 0, bytes)

Base58CheckEncode(payload) ==
    LET body == <<KeyVersion>> \o payload
    IN  Base58Encode(Append(body, Checksum(body)))

\* The payload, or << >> when the text is not a well-formed key.
Base58CheckDecode(address) ==
    LET bytes == Base58Decode(address) IN
    IF /\ Len(bytes) >= 2
       /\ Last(bytes) = Checksum(Front(bytes))
       /\ Head(bytes) = KeyVersion
    THEN Tail(Front(bytes)) ELSE << >>

\* Fault: the sign bit stays in the coordinate.
AddressOfSigned(packed) ==
    LET isOdd == Head(packed) >= Byte \div 2 IN
    Base58CheckEncode(<<1, 1>> \o Reverse(packed)
                      \o <<IF isOdd THEN 1 ELSE 0>>)

\* packed_zeko_address_to_base58: the coordinate goes little-endian, the
\* sign bit becomes a byte of its own.
AddressOf(packed) ==
    LET isOdd == Head(packed) >= Byte \div 2
        x == <<Head(packed) % (Byte \div 2)>> \o Tail(packed) IN
    Base58CheckEncode(<<1, 1>> \o Reverse(x) \o <<IF isOdd THEN 1 ELSE 0>>)

\* packed_zeko_address_from_base58.
PackedOf(address) ==
    LET payload == Base58CheckDecode(address)
        packed == Reverse(SubSeq(payload, 3, Width + 2)) IN
    IF \/ Len(payload) # Width + 3
       \/ SubSeq(payload, 1, 2) # <<1, 1>>
       \/ Last(payload) \notin {0, 1}
    THEN Error
    ELSE IF Last(payload) = 1 /\ Head(packed) < Byte \div 2
    THEN <<Head(packed) + Byte \div 2>> \o Tail(packed)
    ELSE packed

\* ZekoAddressLib.unpack, and unpack_zeko_address of the bridge guest: the
\* coordinate and the parity, or an error.
Unpack(packed) ==
    LET raw == Value(packed, Byte)
        x == raw % SignMask IN
    IF x >= FieldOrder THEN [ok |-> FALSE, x |-> 0, isOdd |-> FALSE]
    ELSE [ok |-> TRUE, x |-> x, isOdd |-> raw >= SignMask]

\* ZekoAddressLib.pack.
Pack(x, isOdd) == IF isOdd THEN x + SignMask ELSE x

-----------------------------------------------------------------------------
(* Every text is read in the end: one character is added at a time, one of *)
(* which is no digit of the base.                                          *)

\* parse_fixed_bytes: the prefix 0x decides between hex and decimal.
BaseOf == [hex |-> Nibble, decimal |-> Ten, base58 |-> Base58, bytes |-> Byte]

TextInit == kind \in Kinds /\ text = << >>

Type ==
    /\ Len(text) < MaxText[kind]
    /\ \E char \in 0..(IF kind \in {"hex", "decimal"} THEN BaseOf[kind]
                       ELSE BaseOf[kind] - 1) :
          text' = Append(text, char)
    /\ UNCHANGED kind

TextNext == Type

TextSpec == TextInit /\ [][TextNext]_textVars

-----------------------------------------------------------------------------
\* parse_hex_fixed, parse_decimal_u256, integer_to_fixed_bytes: whatever way
\* a number is written, the word is its value, and a text is refused exactly
\* when it is no number or does not fit; nothing wraps around.
SpellingsAgree ==
    /\ kind = "hex" =>
         IF Are(Nibble) /\ Len(text) <= 2 * Width
         THEN Value(ParseHexFixed(text), Byte) = Value(text, Nibble)
         ELSE ParseHexFixed(text) = Error
    /\ kind = "decimal" =>
         LET n == Value(text, Ten) IN
         IF text # << >> /\ Are(Ten) /\ n < Byte^Width
         THEN /\ Value(ParseDecimal(text), Byte) = n
              /\ n < Byte^(Width \div 2) =>
                   IntegerToFixedBytes(n) = ParseDecimal(text)
         ELSE ParseDecimal(text) = Error

\* fixed_bytes_to_hex: a word that is written out and read back, as text or
\* as an array, is the same word.
WordRoundTrip ==
    kind = "bytes" =>
        IF Len(text) = Width
        THEN ParseHexFixed(FixedBytesToHex(text)) = VisitSeq(text)
        ELSE VisitSeq(text) = Error

\* base58_encode, base58_decode: texts and byte strings correspond one to
\* one, leading zeroes and all.
Base58IsOneToOne ==
    /\ kind = "bytes" => Base58Decode(Base58Encode(text)) = text
    /\ kind = "base58" => Base58Encode(Base58Decode(text)) = text

\* packed_zeko_address_to_base58 and _from_base58 invert each other on every
\* key whose coordinate is a field element, and such a key means the same
\* coordinate and parity to the explorer, the guest and the contracts.
AddressesAgree ==
    kind = "bytes" =>
        /\ Len(text) = Width =>
             /\ PackedOf(AddressOf(text)) = text
             /\ Unpack(text).ok =>
                  Pack(Unpack(text).x, Unpack(text).isOdd) = Value(text, Byte)
        /\ Len(text) = Width + 1 =>
             LET x == Value(Reverse(Front(text)), Byte)
                 packed == PackedOf(Base58CheckEncode(<<1, 1>> \o text)) IN
             IF Last(text) \notin {0, 1} THEN packed = Error
             ELSE x < FieldOrder =>
                    /\ AddressOf(packed) = Base58CheckEncode(<<1, 1>> \o text)
                    /\ Unpack(packed) =
                         [ok |-> TRUE, x |-> x, isOdd |-> Last(text) = 1]

\* Words and addresses mean the same wherever they are written and read.
TextsAgree ==
    SpellingsAgree /\ WordRoundTrip /\ Base58IsOneToOne /\ AddressesAgree

=============================================================================
