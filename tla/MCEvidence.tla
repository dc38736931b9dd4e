----------------------------- MODULE MCEvidence -----------------------------
(***************************************************************************)
(* All four kinds of evidence; two changes of content for a record or a    *)
(* chain, one for a whole lifecycle; recomputed references are not counted.*)
(***************************************************************************)
EXTENDS Evidence

MCMaxEdits == [k \in {"record", "delegation", "revocation", "lifecycle"} |-> IF k = "lifecycle" THEN 1 ELSE 2]

TextFields ==
    PassportFields \cup MandateFields \cup PayerFields \cup
    {"rules", "action_type", "stage", "delegator_id", "delegate_id", "revoker_id", "refund_amount", "type"}
RefFields ==
    UpstreamFields \cup BindingFields \cup SelfRefs \cup (Rebuilt \ {"chain"}) \cup
    {"payer_ref", "subject_ref", "policy_ref", "passport_ref", "decision_ref", "revoked_ref",
     "prev_delegation_ref", "prev_revocation_ref"}
TimeFields == {"executed_at_ms", "timestamp_ms", "not_before_ms", "not_after_ms", "revoked_at_ms"}
ListFields == {"chain", "subject_refs", "hops", "delegations"}
OutcomeFields ==
    [verdict |-> {"DENY", "REFER", "NO"}, outcome |-> {"FAILED", "NO"},
     trust_outcome |-> {"UNTRUSTED", "NO"}, reason |-> {"MANUAL", "NO"},
     cancellation_reason |-> {"USER_REQUESTED", "NO"}, refund_result |-> {"PARTIAL", "NO"},
     journey_outcome |-> {"PARTIAL", "NO"}]

MCValue ==
    [f \in TextFields \cup RefFields \cup TimeFields \cup ListFields \cup DOMAIN OutcomeFields |->
        CASE f \in TextFields -> {Str("other"), Empty}
          [] f \in RefFields  -> {Made("theirs"), Str("other")}
          [] f \in TimeFields -> {Ms(2), Ms(-1), Mistyped}
          [] f \in ListFields -> {Arr(<< >>), Arr(<<Made("theirs")>>), Mistyped}
          [] OTHER            -> {Str(s) : s \in OutcomeFields[f]}]
=============================================================================
