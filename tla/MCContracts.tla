---------------------------- MODULE MCContracts -----------------------------
(* Instances of ZekoContracts for TLC: the constants each .cfg combines.    *)
EXTENDS LedgerRefinement

CONSTANTS w1, w2

\* Recipients are interchangeable: no constant or property names one of them.
RecipientSymmetry == Permutations(Recipients)

\* So are tokens, and so are L2 identities: a record is any pair of them.
AssetSymmetry == Permutations(Tokens) \union Permutations(Identities)

\* The fork slot only; two overlapping ranges, the second not yet open.
OneRange == {<<0, 0>>}
TwoRanges == {<<0, 1>>, <<1, 2>>}
=============================================================================
