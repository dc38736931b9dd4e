------------------------ MODULE MCChainVerification -------------------------
(***************************************************************************)
(* Chains of up to three links: a grant, narrower and other scopes, an     *)
(* execution whose time is written as a float, another, a revocation.      *)
(***************************************************************************)
EXTENDS ChainVerification, TLC

CONSTANTS n1, n2, n3

MCName == {n1, n2, n3}

MCContent == {
    [scope |-> [resource |-> <<"pay">>, max_amount |-> 2, jurisdictions |-> {"GB", "US"}],
     not_before_ms |-> 1, not_after_ms |-> 2, expires_at |-> 2, max_amount |-> 2,
     per_cycle_amount_minor |-> 2, cap_amount_minor |-> 3],
    [scope |-> [resource |-> <<"pay", "usdc">>, max_amount |-> 1]],
    [scope |-> [resource |-> <<"pay">>, max_amount |-> 1, jurisdictions |-> {"US", "FR"}],
     executed_at_ms |-> 1, amount_minor |-> 2, floats |-> {"executed_at_ms"}],
    [scope |-> [resource |-> <<"pay", "usdc">>, max_amount |-> 1, jurisdictions |-> {"GB"}],
     executed_at_ms |-> 3, amount_minor |-> 1],
    [revoked_at_ms |-> 2, executed_at_ms |-> 2, amount_minor |-> 1]}

MCAct == [resource: {<<"pay">>, <<"pay", "usdc">>}, amount: 1 .. 3,
          jurisdiction: {"GB", "US", "FR"}]

\* Names are interchangeable.
ChainSymmetry == Permutations(MCName)
=============================================================================
