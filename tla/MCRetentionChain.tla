-------------------------- MODULE MCRetentionChain --------------------------
(***************************************************************************)
(* Two receipts and two issuers: enough to rewrite and re-attribute any    *)
(* record of a chain of up to three.                                       *)
(***************************************************************************)
EXTENDS RetentionChain, TLC

CONSTANTS h1, h2, x1, x2

MCReceipt == {h1, h2}
MCIssuer == {x1, x2}

\* Receipts, and issuers, are interchangeable.
RetentionSymmetry == Permutations(MCReceipt) \cup Permutations(MCIssuer)
=============================================================================
