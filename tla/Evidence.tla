------------------------------ MODULE Evidence ------------------------------
(***************************************************************************)
(* Evidence between its author and an auditor.                             *)
(*                                                                         *)
(* The author makes documents with the functions of References; a          *)
(* custodian keeps them, may change, drop, exchange and re-reference them, *)
(* and hands them over; the auditor has the references that were issued    *)
(* and the functions that verify.  Four kinds of evidence are kept:        *)
(*   record       a file for `keystone validate`: what bind_keystone or    *)
(*                Runtime.record_stage made                                *)
(*   delegation   a chain of delegation envelopes                          *)
(*   revocation   a chain of revocation envelopes                          *)
(*   lifecycle    one document a step, from the passport to the journey    *)
(* Evidence is a sequence of documents in each case.                       *)
(***************************************************************************)
EXTENDS References, FiniteSets, SequencesExt

CONSTANTS
    Kind,        \* the kinds of evidence in this instance
    Value,       \* what a custodian writes into a field, by field
    Word,        \* the non-empty string the author uses
    Foreign,     \* documents made elsewhere
    Theirs,      \* the one of them the author refers to
    MaxLinks,    \* bound: links of a chain
    MaxEdits     \* bound: changes of content made by the custodian, by kind

\* A reference to a document made elsewhere, by no function of References.
Made(x) == Ref([elsewhere |-> x])
Elsewhere == Made(Theirs)

ASSUME EvidenceAssumption ==
    /\ Kind \subseteq {"record", "delegation", "revocation", "lifecycle"}
    /\ Word # "" /\ Theirs \in Foreign
    /\ \A f \in {"prev_delegation_ref", "prev_revocation_ref"} : \A v \in Value[f] :
        IsRef(v) => v \in {Made(x) : x \in Foreign}
    /\ MaxLinks \in Nat /\ MaxEdits \in [Kind -> Nat]

VARIABLES
    kind,      \* the kind of evidence that is kept
    issued,    \* what the author made
    held,      \* what the custodian has
    edits,     \* changes of content so far
    computed   \* has the custodian computed a reference

vars == <<kind, issued, held, edits, computed>>

With(d, f, v) == [x \in DOMAIN d \cup {f} |-> IF x = f THEN v ELSE d[x]]
Only(d, fields) == [x \in DOMAIN d \cap fields |-> d[x]]

-----------------------------------------------------------------------------
(* Records and their validators *)

BindInputs ==
    {"passport_ref", "mandate_ref", "policy_bound_ref", "verdict", "action_type",
     "scope", "outcome", "executed_at_ms", "trust_outcome"}

Rebuilt == {"decision_ref", "execution_ref", "trust_query_ref", "chain"}

\* bind_keystone: decision, execution, chain and trust query over the inputs
DecisionOf(r) ==
    DecisionRef([agent_ref |-> Get(r, "passport_ref"), mandate_ref |-> Get(r, "mandate_ref"),
                 policy_bound_ref |-> Get(r, "policy_bound_ref"), verdict |-> Get(r, "verdict")])
ExecutionOf(r) == ExecutionRef(With(r, "decision_ref", DecisionOf(r)))
ChainOf(r) ==
    Arr(<<Get(r, "passport_ref"), Get(r, "mandate_ref"), Get(r, "policy_bound_ref"),
          DecisionOf(r), ExecutionOf(r)>>)
TrustQueryOf(r) == TrustQueryRef([subject_refs |-> ChainOf(r), trust_outcome |-> Get(r, "trust_outcome")])

BindKeystone(r) ==
    [x \in BindInputs \cup Rebuilt \cup {"type"} |->
        CASE x = "type"            -> Str("execution_keystone")
          [] x = "decision_ref"    -> DecisionOf(r)
          [] x = "execution_ref"   -> ExecutionOf(r)
          [] x = "chain"           -> ChainOf(r)
          [] x = "trust_query_ref" -> TrustQueryOf(r)
          [] OTHER                 -> Get(r, x)]

\* verify_record of execution-ref; it raises for what cannot be rebuilt.
Rebuildable(r) == BindInputs \subseteq DOMAIN r /\ TrustQueryOf(r) # Malformed
VerifyKeystone(r) ==
    Rebuildable(r) /\ \A k \in Rebuilt : Get(r, k) = BindKeystone(r)[k]

\* `algovoi-execution-ref --verify`: its exit code
VerifyExit(r) == IF ~Rebuildable(r) THEN 2 ELSE IF VerifyKeystone(r) THEN 0 ELSE 1

SelfRefs == {"execution_ref", "behaviour_ref", "stage_ref"}
SelfRefsOf(r) == DOMAIN r \cap SelfRefs

\* keystone_ref of everything but the reference itself
BodyHashes(r, key) == Ref(Only(r, DOMAIN r \ {key})) = r[key]

ExecutionHashes(r) == ExecutionRef(r) # Malformed /\ ExecutionRef(r) = r.execution_ref

IsWrapper(r) ==
    \/ Get(r, "type") = Str("execution_keystone")
    \/ {"trust_query_ref", "chain", "trust_outcome"} \cap DOMAIN r # {}

\* Fault: a wrapper is checked in its execution tier only.
VerifyRecordTier(r) ==
    /\ Cardinality(SelfRefsOf(r)) = 1
    /\ \A key \in SelfRefsOf(r) :
        IF key = "execution_ref" THEN ExecutionHashes(r) ELSE BodyHashes(r, key)

\* verify_record of the runtime
VerifyRecord(r) ==
    /\ Cardinality(SelfRefsOf(r)) = 1
    /\ \A key \in SelfRefsOf(r) :
        IF key # "execution_ref" THEN BodyHashes(r, key)
        ELSE IF IsWrapper(r) THEN VerifyKeystone(r) ELSE ExecutionHashes(r)

\* _verify_record of the command line where the runtime is not installed
VerifyFallback(r) ==
    IF "execution_ref" \in DOMAIN r THEN ExecutionHashes(r)
    ELSE /\ Cardinality(SelfRefsOf(r)) = 1
         /\ \A key \in SelfRefsOf(r) : BodyHashes(r, key)

\* `keystone validate`: a file without records fails.
Validates(records, runtime) ==
    /\ records # << >>
    /\ \A i \in DOMAIN records :
        IF runtime THEN VerifyRecord(records[i]) ELSE VerifyFallback(records[i])

\* Fault: a payload is bound but not verified before it is journaled.
StageAcceptedUnverified(payload) ==
    Get(payload, "decision_ref") \in {Mistyped, Elsewhere}

\* record_stage: the payload is bound to the decision of the runtime, and
\* append refuses what verify_record refuses.  A decision_ref that is null, in
\* a payload the one value of a wrong type, counts as none.
StageRecord(stage, payload) ==
    LET body == With(With(payload, "decision_ref", Elsewhere), "stage", Str(stage))
    IN  With(body, "stage_ref", Ref(body))

StageAccepted(payload) ==
    /\ Get(payload, "decision_ref") \in {Mistyped, Elsewhere}
    /\ VerifyRecord(StageRecord(Word, payload))

-----------------------------------------------------------------------------
(* Chains of grants *)

PrevField == IF kind = "delegation" THEN "prev_delegation_ref" ELSE "prev_revocation_ref"

LinkRef(env) == IF kind = "delegation" THEN DelegationRef(env) ELSE RevocationRef(env)

\* verify_chain, of delegations or revocations: does it return
PrevOf(env) == IF PrevField \in DOMAIN env THEN env[PrevField] ELSE Empty
VerifyChain(envelopes) ==
    \A i \in DOMAIN envelopes :
        /\ PrevOf(envelopes[i]) = IF i = 1 THEN Empty ELSE LinkRef(envelopes[i - 1])
        /\ LinkRef(envelopes[i]) # Malformed

-----------------------------------------------------------------------------
(* One document a step *)

\* Where a document names others: the field and the steps it names.
Names(step) ==
    CASE step = "policy_bound" -> [policy_ref |-> "policy", subject_ref |-> "mandate"]
      [] step = "gate"         -> [payer_ref |-> "payer", subject_ref |-> "policy_bound"]
      [] step = "decision"     -> [agent_ref |-> "passport", mandate_ref |-> "mandate",
                                   policy_bound_ref |-> "policy_bound"]
      [] step = "execution"    -> [decision_ref |-> "decision"]
      [] step = "binding"      -> [execution_ref |-> "execution"]
      [] step = "cancellation" -> [mandate_ref |-> "mandate"]
      [] step = "refund"       -> [subject_ref |-> "execution"]
      [] OTHER                 -> << >>

\* The same for the fields that are lists.
Lists(step) ==
    CASE step = "trust_query" ->
            [subject_refs |-> <<"passport", "mandate", "policy_bound", "decision", "execution">>]
      [] step = "journey"     -> [hops |-> <<"execution">>]
      [] OTHER                -> << >>

Steps == << "passport", "mandate", "policy", "policy_bound", "payer", "gate", "decision",
            "action", "execution", "binding", "trust_query", "cancellation", "refund", "journey" >>
Place(step) == CHOOSE i \in DOMAIN Steps : Steps[i] = step

RefAt(step, d) ==
    CASE step = "passport"     -> PassportRef(d)
      [] step = "mandate"      -> MandateRef(d)
      [] step = "policy"       -> PolicyRef(d)
      [] step = "policy_bound" -> PolicyBoundRef(d)
      [] step = "payer"        -> PayerRef(d)
      [] step = "gate"         -> GateRef(d)
      [] step = "decision"     -> GuardrailRef(d)
      [] step = "action"       -> RecomputeActionRef(d)
      [] step = "execution"    -> ExecutionRef(d)
      [] step = "binding"      -> ExecutionBinding(d)
      [] step = "trust_query"  -> TrustQueryLiteRef(d)
      [] step = "cancellation" -> CancellationRef(d)
      [] step = "refund"       -> RefundRef(d)
      [] step = "journey"      -> JourneyRef(d)

RefIn(docs, step) == RefAt(step, docs[Place(step)])

\* The document of a step with the references to those before it.
Bound(docs, step, d) ==
    [f \in DOMAIN Names(step) \cup DOMAIN Lists(step) \cup DOMAIN d |->
        IF f \in DOMAIN Names(step) THEN RefIn(docs, Names(step)[f])
        ELSE IF f \in DOMAIN Lists(step)
             THEN Arr([k \in DOMAIN Lists(step)[f] |-> RefIn(docs, Lists(step)[f][k])])
        ELSE d[f]]

Contents(step) ==
    CASE step = "passport"     -> [f \in PassportFields |-> Str(Word)]
      [] step = "mandate"      -> [f \in MandateFields |-> Str(Word)]
      [] step = "policy"       -> [rules |-> Str(Word)]
      [] step = "payer"        -> [f \in PayerFields |-> Str(Word)]
      [] step \in {"gate", "decision"} -> [verdict |-> Str("ALLOW")]
      [] step = "action"       -> [agent_id |-> Str(Word), action_type |-> Str(Word), scope |-> Str(Word),
                                   timestamp_ms |-> Ms(1)]
      [] step = "execution"    -> [action_type |-> Str(Word), scope |-> Str(Word),
                                   outcome |-> Str("COMMITTED"), executed_at_ms |-> Ms(1)]
      [] step = "binding"      -> [settlement_ref |-> Elsewhere, retention_chain_ref |-> Elsewhere]
      [] step = "trust_query"  -> [trust_outcome |-> Str("TRUSTED")]
      [] step = "cancellation" -> [cancellation_reason |-> Str("EXPIRED")]
      [] step = "refund"       -> [refund_amount |-> Str(Word), refund_result |-> Str("FULL")]
      [] step = "journey"      -> [delegations |-> Arr(<<Elsewhere>>), journey_outcome |-> Str("COMPLETE")]
      [] OTHER                 -> << >>

\* The documents a reference of this step reaches, itself among them.
Cited(step) ==
    {Names(step)[f] : f \in DOMAIN Names(step)} \cup
    UNION {Range(Lists(step)[f]) : f \in DOMAIN Lists(step)}
Below(step) ==
    LET more(S) == S \cup UNION {Cited(s) : s \in S}
    IN  more(more(more(more({step}))))

\* The auditor finds, for the issued reference of a step, its document, and
\* for each reference in it the document that it names.
Traced(step) ==
    /\ RefIn(held, step) = RefIn(issued, step)
    /\ \A s \in Below(step) : Bound(held, s, held[Place(s)]) = held[Place(s)]

-----------------------------------------------------------------------------
(* The author *)

Init ==
    /\ kind \in Kind
    /\ issued = << >> /\ held = << >>
    /\ edits = 0 /\ computed = FALSE

Hand(docs) ==
    /\ issued' = docs
    /\ held' = docs
    /\ UNCHANGED <<kind, edits, computed>>

Untouched == edits = 0 /\ ~computed /\ held = issued

Bind ==
    /\ kind = "record" /\ issued = << >>
    /\ \E verdict \in {"ALLOW", "DENY"} :
        Hand(<<BindKeystone(
            [passport_ref |-> Elsewhere, mandate_ref |-> Elsewhere, policy_bound_ref |-> Elsewhere,
             verdict |-> Str(verdict), action_type |-> Str(Word), scope |-> Str(Word),
             outcome |-> Str("COMMITTED"), executed_at_ms |-> Ms(1), trust_outcome |-> Str("TRUSTED")])>>)

RecordStage ==
    /\ kind = "record" /\ issued = << >>
    /\ \E names \in SUBSET {"decision_ref", "execution_ref", "stage_ref"},
         v \in {Made(x) : x \in Foreign} \cup {Mistyped} :
        LET payload == [f \in names |-> v]
        IN  /\ StageAccepted(payload)
            /\ Hand(<<StageRecord(Word, payload)>>)

Grant ==
    /\ kind \in {"delegation", "revocation"} /\ Untouched
    /\ Len(issued) < MaxLinks
    /\ \E late \in BOOLEAN :
        LET prev == IF issued = << >> THEN Empty ELSE LinkRef(Last(issued))
            env == IF kind = "delegation"
                   THEN [delegator_id |-> Str(Word), delegate_id |-> Str(Word), scope |-> Str(Word),
                         not_before_ms |-> Ms(0), not_after_ms |-> Ms(IF late THEN 2 ELSE 1),
                         prev_delegation_ref |-> prev]
                   ELSE [revoker_id |-> Str(Word), revoked_ref |-> Elsewhere, reason |-> Str("POLICY"),
                         revoked_at_ms |-> Ms(IF late THEN 2 ELSE 1), prev_revocation_ref |-> prev]
        IN  Hand(Append(issued, env))

NextStep ==
    /\ kind = "lifecycle" /\ Untouched
    /\ Len(issued) < Len(Steps)
    /\ LET step == Steps[Len(issued) + 1]
       IN  Hand(Append(issued, Bound(issued, step, Contents(step))))

-----------------------------------------------------------------------------
(* The custodian *)

Change(docs) ==
    /\ edits < MaxEdits[kind]
    /\ edits' = edits + 1
    /\ held' = docs
    /\ UNCHANGED <<kind, issued, computed>>

SetField ==
    \E i \in DOMAIN held : \E f \in DOMAIN held[i] : \E v \in Value[f] :
        Change([held EXCEPT ![i] = With(@, f, v)])

DropField ==
    \E i \in DOMAIN held : \E f \in DOMAIN held[i] :
        Change([held EXCEPT ![i] = Only(@, DOMAIN @ \ {f})])

\* Another self-reference is put beside the one that is there.
AddField ==
    \E i \in DOMAIN held : \E f \in {"stage_ref", "trust_outcome"} \ DOMAIN held[i] : \E v \in Value[f] :
        kind = "record" /\ Change([held EXCEPT ![i] = With(@, f, v)])

DropDocument == kind # "lifecycle" /\ \E i \in DOMAIN held : Change(RemoveAt(held, i))

Exchange ==
    kind # "lifecycle" /\ \E i \in 1 .. Len(held) - 1 :
        Change([held EXCEPT ![i] = held[i + 1], ![i + 1] = held[i]])

\* The references of a document are computed again from what it says now.
Recomputed(i) ==
    CASE kind = "record" ->
            {With(held[i], k, BindKeystone(held[i])[k]) : k \in Rebuilt \cap DOMAIN held[i]}
            \cup {With(held[i], k, Ref(Only(held[i], DOMAIN held[i] \ {k}))) :
                    k \in {"stage_ref"} \cap DOMAIN held[i]}
      [] kind \in {"delegation", "revocation"} ->
            IF i = 1 THEN {With(held[i], PrevField, Empty)}
            ELSE {With(held[i], PrevField, LinkRef(held[i - 1]))}
      [] kind = "lifecycle" -> {Bound(held, Steps[i], held[i])}

\* None of the references in a document is the error of a function.
Computable(d) ==
    \A f \in DOMAIN d :
        /\ d[f] # Malformed
        /\ "list" \in DOMAIN d[f] => Malformed \notin Range(d[f].list)

Recompute ==
    \E i \in DOMAIN held : \E d \in Recomputed(i) :
        /\ Computable(d)
        /\ held' = [held EXCEPT ![i] = d]
        /\ held' # held
        /\ computed' = TRUE
        /\ UNCHANGED <<kind, issued, edits>>

CustodianStep ==
    SetField \/ DropField \/ AddField \/ DropDocument \/ Exchange \/ Recompute

Next == Bind \/ RecordStage \/ Grant \/ NextStep \/ CustodianStep

Spec == Init /\ [][Next]_vars

-----------------------------------------------------------------------------
(* Properties *)

\* Every variable has its type; what the author made is well formed and
\* passes every check, so a reference can be computed for all of it.
TypeOK ==
    /\ kind \in Kind
    /\ edits \in 0 .. MaxEdits[kind] /\ computed \in BOOLEAN
    /\ Len(held) <= Len(issued)
    /\ kind = "record" => issued = << >> \/ Validates(issued, TRUE)
    /\ kind \in {"delegation", "revocation"} => VerifyChain(issued)
    /\ kind = "lifecycle" =>
        \A i \in DOMAIN issued : RefAt(Steps[i], issued[i]) # Malformed

\* What a record says is what its issuer said, as far as the reference the
\* auditor has reaches, whatever fields were changed, dropped, added or
\* recomputed: the trust query reference reaches all inputs and the chain,
\* the execution reference the inputs of the decision if the record still is
\* a wrapper, or `--verify` of execution-ref says so, and its own five fields
\* even where `keystone validate` has to do without the runtime.  A stage
\* reference reaches every field.
RecordsPinned ==
    kind = "record" /\ held # << >> =>
        LET r == held[1]
            o == issued[1]
            pinned(f) == f \in DOMAIN o \cap DOMAIN r /\ r[f] = o[f]
            same(fields) == \A f \in fields : Get(r, f) = o[f]
            rebuilt == VerifyExit(r) = 0
        IN  /\ pinned("trust_query_ref")
               /\ (rebuilt \/ (Validates(held, TRUE) /\ "execution_ref" \in DOMAIN r))
                    => same(BindInputs \cup Rebuilt)
            /\ pinned("execution_ref") /\ (rebuilt \/ (Validates(held, TRUE) /\ IsWrapper(r)))
                    => same(BindInputs \ {"trust_outcome"})
            /\ pinned("execution_ref") /\ Validates(held, FALSE) => same(ExecutionFields)
            /\ pinned("stage_ref") /\ Validates(held, TRUE) => r = o

\* A chain of grants that verify_chain accepts and that ends in the issued
\* reference is the issued chain.  Without that pin, and while nobody
\* computes links of his own, every link but the last one is as issued: the
\* last may be changed, and any number of links may be missing behind it.
ChainsPinned ==
    kind \in {"delegation", "revocation"} /\ held # << >> /\ VerifyChain(held) =>
        LET agree(i) == LinkRef(held[i]) = LinkRef(issued[i]) IN
        /\ LinkRef(Last(held)) = LinkRef(Last(issued)) =>
            Len(held) = Len(issued) /\ \A i \in DOMAIN held : agree(i)
        /\ ~computed => \A i \in 1 .. Len(held) - 1 : agree(i)

\* A reference of any step fixes every document it reaches through others:
\* if the documents handed over can be traced from it, they are the issued
\* ones, through the gate, the policy and the mandate to the passport.
LifecycleTraced ==
    kind = "lifecycle" =>
        \A i \in DOMAIN issued :
            /\ held = issued => Traced(Steps[i])
            /\ Traced(Steps[i]) =>
                \A s \in Below(Steps[i]) : held[Place(s)] = issued[Place(s)]
=============================================================================
