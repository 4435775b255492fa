---------------------------- MODULE PublicValues ----------------------------
(***************************************************************************)
(* The receipts that the guests commit and that two readers, written in    *)
(* two languages, take apart: the gateway (lib/src/lib.rs) and the         *)
(* contracts (ZekoSettlement.sol, EthereumZekoBridge.sol).  Widths and     *)
(* offsets are the real ones.  A byte is <<value, position in it>>, so a   *)
(* field read one byte off, or in another's place, is another value; only  *)
(* the numbers that a reader branches on have a meaning of their own.      *)
(***************************************************************************)
EXTENDS Integers, Sequences, SequencesExt, TLC

CONSTANTS
    MaxActions,     \* deposits in a bridge receipt
    MaxCut          \* bytes that may be missing or in excess

ASSUME PublicValuesAssumption == MaxActions \in Nat /\ MaxCut \in Nat

VARIABLES
    receipt,    \* which receipt was emitted: a settlement version, "bridge", "none"
    included,   \* how many actions the bridge receipt has
    wire,       \* its bytes, as they reach the readers
    fate        \* awaited, intact, reshaped (numbers and length) or damaged (one byte)

receiptVars == <<receipt, included, wire, fate>>

Bytes(value, width) == [k \in 1..width |-> <<value, k>>]

\* A name and a width, in the order of the structure; an array has 8 fields.
Field(name, width) == <<[name |-> <<name, 0>>, width |-> width]>>
Fields(name, count) == [i \in 1..count |-> [name |-> <<name, i>>, width |-> 32]]

Number(what, n, width) == Bytes(<<what, n>>, width)

Zero(width) == [k \in 1..width |-> <<<<"zero", 0>>, 0>>]

SettlementMagic == Bytes(<<"ZKST", 0>>, 4)
BridgeMagic == Bytes(<<"ZKBR", 0>>, 4)
Version(n) == Number("version", n, 2)
Multisig == Number("daMode", 1, 1)

Slice(input, offset, width) == SubSeq(input, offset + 1, offset + width)

\* Where each field of a layout starts.
Offset(layout, i) == FoldLeft(LAMBDA sum, f : sum + f.width, 0, SubSeq(layout, 1, i - 1))

\* read_array, one field after the other from the cursor on.
Read(input, cursor, layout) ==
    [name \in {layout[i].name : i \in DOMAIN layout} |->
        LET i == CHOOSE j \in DOMAIN layout : layout[j].name = name IN
        Slice(input, cursor + Offset(layout, i), layout[i].width)]

\* write_bytes: what the guest knows of a field is its own name.
Write(layout) ==
    FlattenSeq([i \in DOMAIN layout |-> Bytes(layout[i].name, layout[i].width)])

Rejected == << >>

-----------------------------------------------------------------------------
(* lib.rs: the settlement receipt.                                         *)

BodyV1 ==
    Field("chainId", 8) \o Field("settlementContract", 20)
    \o Field("batchSequence", 8) \o Field("vkHash", 32)
    \o Field("appStatement", 32) \o Field("minaTransactionHash", 32)
    \o Fields("stateBefore", 8) \o Fields("stateAfter", 8)
    \o Field("outerBefore", 32) \o Field("outerAfter", 32)
    \o Field("lengthBefore", 4) \o Field("lengthAfter", 4)
    \o Field("synchronized", 32) \o Field("synchronizedLength", 4)
    \o Field("slotLower", 4) \o Field("slotUpper", 4)

TailV2 ==
    Field("bridgeAddress", 20) \o Field("innerRoot", 32)
    \o Field("innerStart", 4) \o Field("innerCount", 4)

TailV3 ==
    Field("registryRoot", 32) \o Field("registryCount", 4)
    \o Field("registrySchema", 4) \o Field("recordHash", 32)
    \o Field("recordCommitment", 32)

TailV4 ==
    Field("registryRoot", 32) \o Field("registryCount", 4)
    \o Field("registrySchema", 4) \o Field("batchRoot", 32)
    \o Field("batchCount", 4)

LengthOf == <<768, 828, 932, 904>>

\* The version of a prefix is written over.
Patch(input, n) == SubSeq(input, 1, 4) \o Version(n) \o SubSeq(input, 7, Len(input))

EncodeV1 == SettlementMagic \o Version(1) \o Multisig \o Zero(1) \o Write(BodyV1)
EncodeV2 == Patch(EncodeV1, 2) \o Write(TailV2)

EncodeV3 == Patch(EncodeV2, 3) \o Write(TailV3)
EncodeV4 == Patch(EncodeV2, 4) \o Write(TailV4)

Opens(input, n) ==
    /\ Len(input) = LengthOf[n]
    /\ Slice(input, 0, 4) = SettlementMagic
    /\ Slice(input, 4, 2) = Version(n)

\* Fault: the reserved byte is not looked at.
DecodeAnyReservedV1(input) ==
    IF Opens(input, 1) /\ Slice(input, 6, 1) = Multisig
    THEN Read(input, 8, BodyV1) ELSE Rejected

DecodeV1(input) ==
    IF /\ Opens(input, 1)
       /\ Slice(input, 6, 1) = Multisig /\ Slice(input, 7, 1) = Zero(1)
    THEN Read(input, 8, BodyV1) ELSE Rejected

\* A receipt that extends another: the prefix is given the version it has on
\* its own and is decoded first.
Extended(prefix, input, cursor, layout) ==
    IF prefix = Rejected THEN Rejected ELSE prefix @@ Read(input, cursor, layout)

DecodeV2(input) ==
    IF Opens(input, 2)
    THEN Extended(DecodeV1(Patch(SubSeq(input, 1, LengthOf[1]), 1)),
                  input, LengthOf[1], TailV2)
    ELSE Rejected

DecodeV3(input) ==
    IF Opens(input, 3)
    THEN Extended(DecodeV2(Patch(SubSeq(input, 1, LengthOf[2]), 2)),
                  input, LengthOf[2], TailV3)
    ELSE Rejected

DecodeV4(input) ==
    IF Opens(input, 4)
    THEN Extended(DecodeV2(Patch(SubSeq(input, 1, LengthOf[2]), 2)),
                  input, LengthOf[2], TailV4)
    ELSE Rejected

\* SettlementPublicValues::decode tells the versions apart by length.
Decode(input) ==
    CASE Len(input) = LengthOf[1] -> DecodeV1(input)
      [] Len(input) = LengthOf[2] -> DecodeV2(input)
      [] Len(input) = LengthOf[3] -> DecodeV3(input)
      [] Len(input) = LengthOf[4] -> DecodeV4(input)
      [] OTHER -> Rejected

-----------------------------------------------------------------------------
(* ZekoSettlement.sol.                                                     *)

\* decodePublicValues: the fixed offsets, and then a cursor from 140 on.
ContractHead(input) ==
    (<<"chainId", 0>> :> Slice(input, 8, 8))
    @@ (<<"settlementContract", 0>> :> Slice(input, 16, 20))
    @@ (<<"batchSequence", 0>> :> Slice(input, 36, 8))
    @@ (<<"vkHash", 0>> :> Slice(input, 44, 32))
    @@ (<<"appStatement", 0>> :> Slice(input, 76, 32))
    @@ (<<"minaTransactionHash", 0>> :> Slice(input, 108, 32))

ContractBody ==
    Fields("stateBefore", 8) \o Fields("stateAfter", 8)
    \o Field("outerBefore", 32) \o Field("outerAfter", 32)
    \o Field("lengthBefore", 4) \o Field("lengthAfter", 4)
    \o Field("synchronized", 32) \o Field("synchronizedLength", 4)
    \o Field("slotLower", 4) \o Field("slotUpper", 4)

ContractTail(n) ==
    (IF n >= 2 THEN Field("bridgeAddress", 20) \o Field("innerRoot", 32)
                    \o Field("innerStart", 4) \o Field("innerCount", 4)
     ELSE << >>)
    \o (IF n = 3 THEN Field("registryRoot", 32) \o Field("registryCount", 4)
                      \o Field("registrySchema", 4) \o Field("recordHash", 32)
                      \o Field("recordCommitment", 32)
        ELSE << >>)
    \o (IF n = 4 THEN Field("registryRoot", 32) \o Field("registryCount", 4)
                      \o Field("registrySchema", 4) \o Field("batchRoot", 32)
                      \o Field("batchCount", 4)
        ELSE << >>)

\* Each version has its length, the reserved byte is zero, and the cursor ends
\* at the end; verifyAndUpdateRoot then checks the data-availability mode.
ContractDecode(input) ==
    LET found == {n \in 1..4 : /\ Len(input) = LengthOf[n]
                               /\ Slice(input, 0, 4) = SettlementMagic
                               /\ Slice(input, 4, 2) = Version(n)}
        n == CHOOSE v \in found : TRUE
        rest == ContractBody \o ContractTail(n) IN
    IF /\ found # {}
       /\ Slice(input, 7, 1) = Zero(1)
       /\ 140 + Offset(rest, Len(rest) + 1) = Len(input)
       /\ Slice(input, 6, 1) = Multisig
    THEN ContractHead(input) @@ Read(input, 140, rest)
    ELSE Rejected

-----------------------------------------------------------------------------
(* The bridge receipt.                                                     *)

HeaderLength == 164
ActionLength == 192

BridgeHeader ==
    Field("ethereumBefore", 32) \o Field("ethereumAfter", 32)
    \o Field("nonceBefore", 8) \o Field("nonceAfter", 8)
    \o Field("zekoBefore", 32) \o Field("zekoAfter", 32)
    \o Field("zekoLengthBefore", 4) \o Field("zekoLengthAfter", 4)

\* The five fields of every action and the state after it.
Action(i) ==
    [j \in 1..5 |-> [name |-> <<"action", 5 * (i - 1) + j>>, width |-> 32]]
    \o <<[name |-> <<"stateAfterAction", i>>, width |-> 32]>>

BridgeTail(n) == FlattenSeq([i \in 1..n |-> Action(i)])

EncodeBridge(n) ==
    BridgeMagic \o Version(2) \o Zero(2) \o Write(BridgeHeader)
    \o Number("count", n, 4) \o Write(BridgeTail(n))

BridgeOpens(input) ==
    /\ Len(input) >= HeaderLength
    /\ Slice(input, 0, 4) = BridgeMagic
    /\ Slice(input, 4, 2) = Version(2)
    /\ Slice(input, 6, 2) = Zero(2)

\* The numbers whose four bytes are these, if the whole has that many actions.
CountIn(input) ==
    {n \in 0..(MaxActions + 1) :
        /\ Slice(input, HeaderLength - 4, 4) = Number("count", n, 4)
        /\ Len(input) = HeaderLength + n * ActionLength}

DecodeBridge(input) ==
    IF BridgeOpens(input) /\ CountIn(input) # {}
    THEN Read(input, 8, BridgeHeader \o Field("count", 4)
                        \o BridgeTail(CHOOSE n \in CountIn(input) : TRUE))
    ELSE Rejected

\* decodeBridgePublicValues and the loop of verifyBridgeTransition: only the
\* states are read, each 160 bytes into its action.
ContractBridgeHeader ==
    Field("ethereumBefore", 32) \o Field("ethereumAfter", 32)
    \o Field("nonceBefore", 8) \o Field("nonceAfter", 8)
    \o Field("zekoBefore", 32) \o Field("zekoAfter", 32)
    \o Field("zekoLengthBefore", 4) \o Field("zekoLengthAfter", 4)
    \o Field("count", 4)

ContractStates(input, n) ==
    [name \in {<<"stateAfterAction", i>> : i \in 1..n} |->
        Slice(input, HeaderLength + (name[2] - 1) * ActionLength + 160, 32)]

ContractDecodeBridge(input) ==
    IF BridgeOpens(input) /\ CountIn(input) # {}
    THEN Read(input, 8, ContractBridgeHeader)
         @@ ContractStates(input, CHOOSE n \in CountIn(input) : TRUE)
    ELSE Rejected

-----------------------------------------------------------------------------
(* Receipts, and what may happen to their bytes.                           *)

Encoded(k, n) ==
    CASE k = "v1" -> EncodeV1 [] k = "v2" -> EncodeV2 [] k = "v3" -> EncodeV3
      [] k = "v4" -> EncodeV4 [] k = "bridge" -> EncodeBridge(n)

ReceiptInit == receipt = "none" /\ included = 0 /\ wire = << >> /\ fate = "awaited"

\* A guest commits its public values.
Emit ==
    /\ fate = "awaited"
    /\ receipt' \in {"v1", "v2", "v3", "v4", "bridge"}
    /\ included' \in IF receipt' = "bridge" THEN 0..MaxActions ELSE {0}
    /\ wire' = Encoded(receipt', included')
    /\ fate' = "intact"

Becomes(bytes, next) ==
    /\ fate \in {"intact", "reshaped"}
    /\ wire' = bytes
    /\ fate' = next
    /\ UNCHANGED <<receipt, included>>

At(offset, bytes) ==
    SubSeq(wire, 1, offset) \o bytes
    \o SubSeq(wire, offset + Len(bytes) + 1, Len(wire))

\* One byte is another one.
Damage ==
    /\ fate = "intact"
    /\ \E p \in DOMAIN wire :
         Becomes([wire EXCEPT ![p] = <<<<"other", 0>>, 0>>], "damaged")

\* Another number where a reader expects one.
Renumber ==
    /\ Len(wire) >= HeaderLength
    /\ \/ \E n \in 0..5 : Becomes(At(4, Version(n)), "reshaped")
       \/ Becomes(At(6, Number("daMode", 2, 1)), "reshaped")
       \/ \E n \in 0..(MaxActions + 1) :
            Becomes(At(HeaderLength - 4, Number("count", n, 4)), "reshaped")
    /\ wire' # wire

\* The end is cut off, at a length that a reader knows or close to one.
Cut ==
    \E length \in {LengthOf[n] + d : n \in 1..4, d \in -MaxCut..MaxCut}
             \union {HeaderLength + n * ActionLength + d :
                       n \in 0..MaxActions, d \in -MaxCut..MaxCut} :
        /\ length < Len(wire)
        /\ Becomes(SubSeq(wire, 1, length), "reshaped")

\* Bytes follow that do not belong to it.
Extend ==
    \E n \in {4, 60, 76, 104, 136, 164, ActionLength} \union (1..MaxCut) :
        /\ fate = "intact"
        /\ Becomes(wire \o Bytes(<<"other", 0>>, n), "reshaped")

ReceiptNext == Emit \/ Damage \/ Renumber \/ Cut \/ Extend

ReceiptSpec == ReceiptInit /\ [][ReceiptNext]_receiptVars

-----------------------------------------------------------------------------
(* Properties.                                                             *)

\* Fields that the two readers of a bridge receipt share.
Shared(decoded) ==
    [name \in {f \in DOMAIN decoded : f[1] # "action"} |-> decoded[name]]

\* A receipt that reaches its reader as the guest wrote it is accepted by both
\* readers, and every field is what the guest put there.
RoundTrip ==
    fate = "intact" =>
      \A decoded \in IF receipt = "bridge"
                     THEN {DecodeBridge(wire), ContractDecodeBridge(wire)}
                     ELSE {Decode(wire), ContractDecode(wire)} :
        /\ decoded # Rejected
        /\ \A name \in DOMAIN decoded :
             \/ name = <<"count", 0>> /\ decoded[name] = Number("count", included, 4)
             \/ decoded[name] = Bytes(name, Len(decoded[name]))

\* Whatever bytes reach them, the gateway accepts a receipt exactly when the
\* contract does, and both read the same fields: the gateway never pays for a
\* submission the contract reverts, and never shows what the chain does not.
ReadersAgree ==
    /\ Decode(wire) = ContractDecode(wire)
    /\ Shared(DecodeBridge(wire)) = ContractDecodeBridge(wire)

\* The fields are those of the layout, and the bytes the fields in its order.
Spells(decoded, layout, bytes) ==
    /\ DOMAIN decoded = {layout[i].name : i \in DOMAIN layout}
    /\ FlattenSeq([i \in DOMAIN layout |-> decoded[layout[i].name]]) = bytes

\* Two different inputs never decode to the same receipt: what is accepted is
\* the encoding of what was read, byte for byte.
AcceptedIsCanonical ==
    /\ Decode(wire) # Rejected =>
         \E n \in 1..4 :
           /\ Slice(wire, 0, 8) = SettlementMagic \o Version(n) \o Multisig \o Zero(1)
           /\ Spells(Decode(wire),
                BodyV1 \o <<<< >>, TailV2, TailV2 \o TailV3, TailV2 \o TailV4>>[n],
                SubSeq(wire, 9, Len(wire)))
    /\ DecodeBridge(wire) # Rejected =>
         \E n \in 0..(MaxActions + 1) :
           /\ Slice(wire, 0, 8) = BridgeMagic \o Version(2) \o Zero(2)
           /\ Spells(DecodeBridge(wire),
                BridgeHeader \o Field("count", 4) \o BridgeTail(n),
                SubSeq(wire, 9, Len(wire)))

\* The guest's encoder and the two decoders define one and the same language.
ReceiptsAgree == RoundTrip /\ ReadersAgree /\ AcceptedIsCanonical

=============================================================================
