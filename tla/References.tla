----------------------------- MODULE References -----------------------------
(***************************************************************************)
(* The references of the keystone: one function per package, from a        *)
(* document to "sha256:" + SHA-256(JCS(preimage)).                         *)
(*                                                                         *)
(* A document is a record; a field it lacks counts as a value of a wrong   *)
(* type, which is how the functions treat it.  Every value is a record of  *)
(* one field, which is its type.  A reference is what it hashes, the       *)
(* chosen fields of the document, and is Malformed when the function       *)
(* raises.  `verify` and `tamper_detected` of a package compare the        *)
(* reference with a claimed one and take the package's error for a         *)
(* mismatch, so each is the comparison `XRef(document) = claimed`; but for *)
(* a link that is no string, of which delegation_ref raises a TypeError,   *)
(* and its tamper_detected lets that through.                              *)
(***************************************************************************)
EXTENDS Integers, Sequences

Str(s) == [text |-> s]
Ms(n) == [milliseconds |-> n]
Arr(s) == [list |-> s]
Ref(preimage) == [sha256 |-> preimage]
Empty == Str("")
Mistyped == [mistyped |-> TRUE]     \* a value of a wrong type
Malformed == [malformed |-> TRUE]   \* the error raised instead of a reference

Get(d, f) == IF f \in DOMAIN d THEN d[f] ELSE Mistyped

IsRef(x) == "sha256" \in DOMAIN x                             \* "sha256:" and 64 hex digits
Text(x) == IsRef(x) \/ ("text" \in DOMAIN x /\ x # Empty)     \* a non-empty string
Time(x) == "milliseconds" \in DOMAIN x /\ x.milliseconds >= 0
IsRefList(x) == "list" \in DOMAIN x /\ \A i \in DOMAIN x.list : IsRef(x.list[i])
IsTextList(x) == "list" \in DOMAIN x /\ \A i \in DOMAIN x.list : Text(x.list[i])

AllText(d, fields) == \A f \in fields : Text(Get(d, f))
AllRefs(d, fields) == \A f \in fields : IsRef(Get(d, f))
OneOf(d, f, members) == \E s \in members : Get(d, f) = Str(s)

\* sha256_jcs of some fields of a document, after the checks on them
Hash(d, fields, ok) == IF ok THEN Ref([f \in fields |-> Get(d, f)]) ELSE Malformed

-----------------------------------------------------------------------------
(* Documents before the decision *)

PassportFields == {"agent_id", "issuer", "scope", "validity_window"}
PassportRef(d) == Hash(d, PassportFields, AllText(d, PassportFields))

MandateFields == {"payer", "cap", "period", "revocation_state"}
MandateRef(d) == Hash(d, MandateFields, AllText(d, MandateFields))

PayerFields == {"network", "address"}
PayerRef(d) == Hash(d, PayerFields, AllText(d, PayerFields))

GateFields == {"verdict", "payer_ref", "subject_ref"}
GateRef(d) ==
    Hash(d, GateFields,
         AllRefs(d, {"payer_ref", "subject_ref"}) /\ OneOf(d, "verdict", {"ALLOW", "REFER", "DENY"}))

\* policy_ref: any object at all is a policy document.
PolicyRef(d) == Ref(d)

PolicyBoundFields == {"policy_ref", "subject_ref"}
PolicyBoundRef(d) == Hash(d, PolicyBoundFields, AllRefs(d, PolicyBoundFields))

-----------------------------------------------------------------------------
(* The decision and what follows it *)

UpstreamFields == {"agent_ref", "mandate_ref", "policy_bound_ref"}
DecisionFields == UpstreamFields \cup {"verdict"}

\* Fault: the policy is checked and not hashed.
GuardrailRefUnbound(d) ==
    Hash(d, DecisionFields \ {"policy_bound_ref"},
         AllRefs(d, UpstreamFields) /\ OneOf(d, "verdict", {"ALLOW", "DENY"}))

\* guardrail_ref and decision_ref: one preimage in two packages, of which the
\* first knows no REFER
GuardrailRef(d) ==
    Hash(d, DecisionFields, AllRefs(d, UpstreamFields) /\ OneOf(d, "verdict", {"ALLOW", "DENY"}))
DecisionRef(d) ==
    Hash(d, DecisionFields, AllRefs(d, UpstreamFields) /\ OneOf(d, "verdict", {"ALLOW", "DENY", "REFER"}))

ExecutionFields == {"decision_ref", "action_type", "scope", "outcome", "executed_at_ms"}
ExecutionRef(d) ==
    Hash(d, ExecutionFields,
         /\ IsRef(Get(d, "decision_ref"))
         /\ AllText(d, {"action_type", "scope"})
         /\ OneOf(d, "outcome", {"COMMITTED", "SKIPPED", "FAILED", "REVERSED"})
         /\ Time(Get(d, "executed_at_ms")))

BindingFields == {"execution_ref", "settlement_ref", "retention_chain_ref"}
ExecutionBinding(d) == Hash(d, BindingFields, AllRefs(d, BindingFields))

TrustOutcomes == {"TRUSTED", "PROVISIONAL", "INSUFFICIENT_EVIDENCE", "UNTRUSTED"}
TrustFields == {"subject_refs", "trust_outcome"}

\* trust_query_ref of execution-ref takes references only, that of the
\* composite trust query any non-empty strings.
TrustQueryRef(d) ==
    Hash(d, TrustFields,
         /\ Get(d, "subject_refs") # Arr(<< >>) /\ IsRefList(Get(d, "subject_refs"))
         /\ OneOf(d, "trust_outcome", TrustOutcomes))
TrustQueryLiteRef(d) ==
    Hash(d, TrustFields,
         /\ Get(d, "subject_refs") # Arr(<< >>) /\ IsTextList(Get(d, "subject_refs"))
         /\ OneOf(d, "trust_outcome", TrustOutcomes))

CancellationFields == {"cancellation_reason", "mandate_ref"}
CancellationRef(d) ==
    Hash(d, CancellationFields,
         /\ Text(Get(d, "mandate_ref"))
         /\ OneOf(d, "cancellation_reason",
                  {"USER_REQUESTED", "MERCHANT_REQUESTED", "COMPLIANCE_TERMINATED", "EXPIRED"}))

RefundFields == {"refund_amount", "refund_result", "subject_ref"}
RefundRef(d) ==
    Hash(d, RefundFields,
         /\ AllText(d, {"refund_amount", "subject_ref"})
         /\ OneOf(d, "refund_result", {"FULL", "PARTIAL", "REJECTED"}))

\* recompute_action_ref; the substrate's action_ref refuses other types.
ActionFields == {"agent_id", "action_type", "scope", "timestamp_ms"}
RecomputeActionRef(d) ==
    Hash(d, ActionFields,
         AllText(d, ActionFields \ {"timestamp_ms"}) /\ Time(Get(d, "timestamp_ms")))

-----------------------------------------------------------------------------
(* Grants and journeys *)

\* An optional link to the document before: absent means "".
WithDefault(d, f, default) ==
    [x \in DOMAIN d \cup {f} |-> IF x \in DOMAIN d THEN d[x] ELSE default]
LinkOk(x) == x = Empty \/ IsRef(x)

DelegationFields ==
    {"delegator_id", "delegate_id", "scope", "not_before_ms", "not_after_ms", "prev_delegation_ref"}

\* Fault: the link to the delegation before is checked and not hashed.
DelegationRefAlone(env) ==
    LET d == WithDefault(env, "prev_delegation_ref", Empty)
    IN  Hash(d, DelegationFields \ {"prev_delegation_ref"},
             AllText(d, {"delegator_id", "delegate_id", "scope"}) /\ LinkOk(d.prev_delegation_ref))

DelegationRef(env) ==
    LET d == WithDefault(env, "prev_delegation_ref", Empty)
    IN  Hash(d, DelegationFields,
             /\ AllText(d, {"delegator_id", "delegate_id", "scope"})
             /\ Time(Get(d, "not_before_ms")) /\ Time(Get(d, "not_after_ms"))
             /\ d.not_after_ms.milliseconds > d.not_before_ms.milliseconds
             /\ LinkOk(d.prev_delegation_ref))

RevocationFields == {"revoker_id", "revoked_ref", "reason", "revoked_at_ms", "prev_revocation_ref"}
RevocationRef(env) ==
    LET d == WithDefault(env, "prev_revocation_ref", Empty)
    IN  Hash(d, RevocationFields,
             /\ Text(Get(d, "revoker_id"))
             /\ IsRef(Get(d, "revoked_ref"))
             /\ OneOf(d, "reason", {"COMPROMISE", "SUPERSEDED", "POLICY", "EXPIRY", "MANUAL"})
             /\ Time(Get(d, "revoked_at_ms"))
             /\ LinkOk(d.prev_revocation_ref))

JourneyFields == {"hops", "delegations", "journey_outcome"}
JourneyRef(env) ==
    LET d == WithDefault(env, "delegations", Arr(<< >>))
    IN  Hash(d, JourneyFields,
             /\ IsRefList(Get(d, "hops")) /\ Get(d, "hops") # Arr(<< >>)
             /\ IsRefList(d.delegations)
             /\ OneOf(d, "journey_outcome", {"COMPLETE", "PARTIAL", "ABORTED"}))
=============================================================================
