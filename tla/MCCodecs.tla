----------------------------- MODULE MCCodecs -------------------------------
(* Receipts of the real widths; a tree of depth three; words of two bytes  *)
(* of four bits.                                                           *)
EXTENDS Codecs

SomeRecipients == {"alice"}
SomeTokens == {"usdc"}
Lengths == [hex |-> 5, decimal |-> 4, base58 |-> 4, bytes |-> 3]

=============================================================================
