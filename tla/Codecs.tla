------------------------------- MODULE Codecs -------------------------------
(***************************************************************************)
(* What crosses between the guests, the gateway and the contracts as bytes *)
(* or as text: the guests' receipts, the tree over a batch's inner actions *)
(* and the words of proof inputs and addresses.  The three share no state, *)
(* so a behaviour is about one of them.                                    *)
(***************************************************************************)
EXTENDS PublicValues, InnerActionTree, WordCodec

VARIABLE subject    \* what the behaviour is about: "receipt", "tree" or "text"

vars == <<subject, receiptVars, treeVars, textVars>>

Init ==
    /\ ReceiptInit /\ TreeInit /\ TextInit
    /\ \/ subject \in {"receipt", "tree"} /\ kind = CHOOSE k \in Kinds : TRUE
       \/ subject = "text"

Next ==
    \/ subject = "receipt" /\ ReceiptNext /\ UNCHANGED <<subject, treeVars, textVars>>
    \/ subject = "tree" /\ TreeNext /\ UNCHANGED <<subject, receiptVars, textVars>>
    \/ subject = "text" /\ TextNext /\ UNCHANGED <<subject, receiptVars, treeVars>>

Spec == Init /\ [][Next]_vars

=============================================================================
