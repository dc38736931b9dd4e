------------------------------ MODULE Detection -----------------------------
(***************************************************************************)
(* Which keystone steps the control panel sees                             *)
(* (algovoi_keystone_control.detect).                                      *)
(*                                                                         *)
(* A step comes from the built-in catalogue, when one of the editions of   *)
(* its package is installed, or from the entry point of an installed       *)
(* distribution.  The packages of this repository declare themselves by    *)
(* entry point too.  A step is named by its `step` and, in evidence, by    *)
(* its `ref`; its posture and default settings are left out.  The lists    *)
(* are sets here: the sort by `order` only decides how they are displayed. *)
(***************************************************************************)
EXTENDS Integers, Sequences, FiniteSets, SequencesExt

CONSTANTS
    BoltOn,          \* descriptors of third parties, in the order they are found
    Malformed,       \* a name that is not well formed
    NoPackage,       \* no edition installed
    MaxVendorSteps   \* _MAX_VENDOR_STEPS

ASSUME DetectionAssumption ==
    /\ BoltOn \in Seq([dist: STRING, step: STRING, ref: STRING, order: Int, packages: Seq(STRING)])
    /\ MaxVendorSteps \in Nat

Row(step, ref, order, packages) ==
    [step |-> step, ref |-> ref, order |-> order, packages |-> packages]

\* The catalogue, up to the decision.
DecisionRows ==
  << Row("guard", "guard_ref", 0, <<"algovoi-substrate-guard">>),
     Row("passport", "passport_ref", 1, <<"algovoi-agent-passport", "algovoi-agent-passport-lite">>),
     Row("mandate", "mandate_ref", 2, <<"algovoi-payment-mandate", "algovoi-payment-mandate-lite">>),
     Row("policy_bound", "policy_bound_ref", 3, <<"algovoi-policy-binding">>),
     Row("screen", "screen_ref", 4, <<"algovoi-compliance-gate", "algovoi-compliance-gate-lite">>),
     Row("decision", "guardrail_ref", 5, <<"algovoi-spend-guardrail", "algovoi-spend-guardrail-lite">>) >>

\* The catalogue, from the execution on.
ReceiptRows ==
  << Row("execution", "execution_ref", 6, <<"algovoi-execution-ref">>),
     Row("trust_query", "trust_query_ref", 7, <<"algovoi-trust-query", "algovoi-composite-trust-query-lite">>),
     Row("revocation", "revocation_ref", 9, <<"algovoi-revocation-ref">>),
     Row("journey", "journey_ref", 10, <<"algovoi-journey-ref">>),
     Row("delegation", "delegation_ref", 8, <<"algovoi-delegation-ref">>),
     Row("cancellation", "cancellation_ref", 11, <<"algovoi-cancellation-receipt-lite", "algovoi-cancellation-receipt">>),
     Row("refund", "refund_ref", 12, <<"algovoi-refund-receipt-lite", "algovoi-refund-receipt">>),
     Row("retention", "retention_chain_ref", 13, <<"algovoi-retention-chain">>) >>

Catalogue == ToSet(DecisionRows) \cup ToSet(ReceiptRows)

ASSUME PackageAssumption == \A row \in Catalogue : NoPackage \notin ToSet(row.packages)

-----------------------------------------------------------------------------
(* Entry points: what each package of this repository says of itself *)

Declares(dist, step, ref, order) == 
    [dist |-> dist, step |-> step, ref |-> ref, order |-> order, packages |-> <<dist>>]

SubstrateGuardStep == Declares("algovoi-substrate-guard", "guard", "guard_ref", 0)
PassportStep == Declares("algovoi-agent-passport-lite", "passport", "passport_ref", 1)
MandateStep == Declares("algovoi-payment-mandate-lite", "mandate", "mandate_ref", 2)
PolicyBindingStep == Declares("algovoi-policy-binding", "policy_bound", "policy_bound_ref", 3)
ComplianceGateStep == Declares("algovoi-compliance-gate-lite", "screen", "screen_ref", 4)
SpendGuardrailStep == Declares("algovoi-spend-guardrail-lite", "decision", "guardrail_ref", 5)
ExecutionStep == Declares("algovoi-execution-ref", "execution", "execution_ref", 6)
TrustQueryStep == Declares("algovoi-composite-trust-query-lite", "trust_query", "trust_query_ref", 7)
DelegationStep == Declares("algovoi-delegation-ref", "delegation", "delegation_ref", 8)
RevocationStep == Declares("algovoi-revocation-ref", "revocation", "revocation_ref", 9)
JourneyStep == Declares("algovoi-journey-ref", "journey", "journey_ref", 10)
CancellationStep == Declares("algovoi-cancellation-receipt-lite", "cancellation", "cancellation_ref", 11)
RefundStep == Declares("algovoi-refund-receipt-lite", "refund", "refund_ref", 12)
RetentionStep == Declares("algovoi-retention-chain", "retention", "retention_chain_ref", 13)

OwnSteps ==
    << SubstrateGuardStep, PassportStep, MandateStep, PolicyBindingStep, ComplianceGateStep,
       SpendGuardrailStep, ExecutionStep, TrustQueryStep, DelegationStep, RevocationStep,
       JourneyStep, CancellationStep, RefundStep, RetentionStep >>

EntryPoints == OwnSteps \o BoltOn

\* _clean_entry: is the descriptor usable; no well-formed name is empty.
WellFormed(d) ==
    /\ Malformed \notin {d.step, d.ref}
    /\ d.packages # << >>
    /\ {Malformed, NoPackage} \cap ToSet(d.packages) = {}

\* _clean_entry: the order is clamped, and the first package is the package.
Clean(d) ==
    [step |-> d.step, ref |-> d.ref,
     order |-> IF d.order < 0 THEN 0 ELSE IF d.order > 999 THEN 999 ELSE d.order,
     provider |-> d.packages[1], vendor |-> TRUE]

Usable(installed) ==
    {i \in DOMAIN EntryPoints : EntryPoints[i].dist \in installed /\ WellFormed(EntryPoints[i])}

\* _entry_point_steps: which entry points are loaded, the first up to the cap
EntryPointSteps(installed) ==
    {i \in Usable(installed) : Cardinality({j \in Usable(installed) : j < i}) < MaxVendorSteps}

-----------------------------------------------------------------------------
(* The two lists *)

\* _matched_package: the first edition that is installed
Provider(row, installed) ==
    LET present == {i \in DOMAIN row.packages : row.packages[i] \in installed}
    IN  IF present = {} THEN NoPackage
        ELSE row.packages[CHOOSE i \in present : \A j \in present : i <= j]

CatalogueStep(row, installed) ==
    [step |-> row.step, ref |-> row.ref, order |-> row.order,
     provider |-> Provider(row, installed), vendor |-> FALSE]

CatalogueSteps(installed) == {CatalogueStep(row, installed) : row \in Catalogue}

IsInstalled(r) == r.provider # NoPackage

Collides(r, s) == r.step = s.step \/ r.ref = s.ref

Taken(rows, e) == \E r \in rows : Collides(r, e)

\* Fault: only the step name is compared.
AddUnlessStepTaken(rows, e) == IF \E r \in rows : r.step = e.step THEN rows ELSE rows \cup {e}

AddUnlessTaken(rows, e) == IF Taken(rows, e) THEN rows ELSE rows \cup {e}

\* The rows of the catalogue, and behind them the entry points one by one.
Merged(rows, installed) ==
    LET loaded == EntryPointSteps(installed)
        merge[i \in 0 .. Len(EntryPoints)] ==
            IF i = 0 THEN rows
            ELSE IF i \in loaded THEN AddUnlessTaken(merge[i - 1], Clean(EntryPoints[i]))
            ELSE merge[i - 1]
    IN  merge[Len(EntryPoints)]

\* detect: what is installed; only the installed catalogue steps are taken
Detect(installed) == Merged({r \in CatalogueSteps(installed) : IsInstalled(r)}, installed)

\* all_known: every catalogue step is taken, and the bolt-ons come after
AllKnown(installed) == Merged(CatalogueSteps(installed), installed)

-----------------------------------------------------------------------------
(* Properties, for a set of installed distributions *)

\* No two detected steps share a name or a ref; the edition of a catalogue
\* step that is installed keeps its place, whatever bolt-ons declare; and a
\* package of this repository that declares itself does not appear again.
SlotsDistinct(installed, detected) ==
    /\ \A r, s \in detected : Collides(r, s) => r = s
    /\ \A r \in CatalogueSteps(installed) : IsInstalled(r) => r \in detected
    /\ \A r \in detected : r.vendor => \E i \in DOMAIN BoltOn : r = Clean(BoltOn[i])

\* The bolt-ons that stand in the place of a catalogue step of which no
\* edition is installed, although "nothing may collide with the built-in
\* catalogue" (detect.py:8).
Shadows(detected) == {r \in detected : r.vendor /\ Taken(Catalogue, r)}

\* The two lists of the panel's page, "installed" and "available", agree
\* while there is no shadow.  With one, nothing is said: the shadow is missing
\* from all_known, and what it keeps out of detect may be in all_known.
ListsAgree(detected, known) ==
    Shadows(detected) = {} => detected = {r \in known : IsInstalled(r)}
=============================================================================
