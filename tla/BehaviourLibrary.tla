-------------------------- MODULE BehaviourLibrary --------------------------
(***************************************************************************)
(* Events, triggers, rules and behaviours of keystone-agent, and the       *)
(* ready-made ones of its library.                                         *)
(*                                                                         *)
(* An event has a stage, top-level fields and, if a guard made it, the     *)
(* keyword arguments of the call (none of them for a stage record).  Of a  *)
(* value the rules tell apart its type, the number it compares as, if any, *)
(* and the pieces of the text that str() makes of it (none if it is        *)
(* falsy).  A rule that raises has no verdict.                             *)
(***************************************************************************)
EXTENDS Integers, Sequences

None == << >>
Given(x) == <<x>>

Value(type, number, text) == [type |-> type, number |-> number, text |-> text]
Missing == Value("none", None, << >>)

\* _get: the top level hides the keyword of the same name.
Get(ev, field) ==
    CASE field \in DOMAIN ev.top -> ev.top[field]
      [] field \in DOMAIN ev.kwargs \ DOMAIN ev.top -> ev.kwargs[field]
      [] OTHER -> Missing

-----------------------------------------------------------------------------
(* Rules *)

spend_cap(limit, field) == [kind |-> "spend_cap", limit |-> limit, field |-> field]
flag_over(limit, field) == [kind |-> "flag_over", limit |-> limit, field |-> field]
deny_list(field, values, verdict) ==
    [kind |-> "deny_list", field |-> field, values |-> values, verdict |-> verdict]
allow_list(field, values, verdict) ==
    [kind |-> "allow_list", field |-> field, values |-> values, verdict |-> verdict]
scope_fence(allowed, field) == [kind |-> "scope_fence", allowed |-> allowed, field |-> field]
require_fields(fields, verdict) ==
    [kind |-> "require_fields", fields |-> fields, verdict |-> verdict]

\* A rule of the deployer's own, and what its predicate may return.
custom(answers) == [kind |-> "custom", answers |-> answers]

\* Not known to be at most the limit: more, no number, a bool or missing.
Exceeds(value, limit) ==
    value.type = "bool" \/ value.number = None \/ value.number[1] > limit

Hashable(value) == value.type \notin {"list", "dict"}
StartsWith(text, prefix) == Len(prefix) <= Len(text) /\ SubSeq(text, 1, Len(prefix)) = prefix

\* What the predicate of a rule may return for an event.
Answers(r, ev) ==
    CASE r.kind = "spend_cap" ->
            {IF Exceeds(Get(ev, r.field), r.limit) THEN "BLOCK" ELSE "ALLOW"}
      [] r.kind = "flag_over" ->
            {IF Exceeds(Get(ev, r.field), r.limit) THEN "FLAG" ELSE "ALLOW"}
      [] r.kind = "deny_list" ->
            {a \in {IF Get(ev, r.field) \in r.values THEN r.verdict ELSE "ALLOW"} :
                Hashable(Get(ev, r.field))}
      [] r.kind = "allow_list" ->
            {a \in {IF Get(ev, r.field) \in r.values THEN "ALLOW" ELSE r.verdict} :
                Hashable(Get(ev, r.field))}
      [] r.kind = "scope_fence" ->
            {IF \E p \in r.allowed : StartsWith(Get(ev, r.field).text, p)
             THEN "ALLOW" ELSE "BLOCK"}
      [] r.kind = "require_fields" ->
            {IF \A f \in r.fields : Get(ev, f) # Missing THEN "ALLOW" ELSE r.verdict}
      [] r.kind = "custom" -> r.answers

\* _verdict_of: none for an answer that is neither a verdict nor a bool.
VerdictOf(answer) ==
    CASE answer = "True" -> {"ALLOW"}
      [] answer = "False" -> {"BLOCK"}
      [] answer \in {"ALLOW", "FLAG", "BLOCK"} -> {answer}
      [] OTHER -> {}

Verdicts(r, ev) == UNION {VerdictOf(a) : a \in Answers(r, ev)}

-----------------------------------------------------------------------------
(* Triggers and behaviours *)

\* where: the value a top-level field must have, if any.
trigger(stage, where) == [stage |-> stage, where |-> where]

on_charge(stage, action_type) ==
    trigger(Given(stage), Given([field |-> "action_type", value |-> action_type]))

on_write(method, stage) ==
    trigger(Given(stage),
            IF method = None THEN None ELSE Given([field |-> "method", value |-> method[1]]))

\* _matches
Matches(on, ev) ==
    /\ on.stage \in {None, Given(ev.stage)}
    /\ \A i \in DOMAIN on.where :
        on.where[i].field \in DOMAIN ev.top /\ ev.top[on.where[i].field] = on.where[i].value

\* action: what the behaviour's action makes of the event it is given, if it
\* changes it.
behaviour(on, r, action) == [on |-> on, rule |-> r, action |-> action]

cap_charges(limit, field, stage, charge) ==
    behaviour(on_charge(stage, charge), spend_cap(limit, field), None)
flag_large_charges(limit, field, stage, charge) ==
    behaviour(on_charge(stage, charge), flag_over(limit, field), None)
deny_writes_to(field, values, stage, method) ==
    behaviour(on_write(method, stage), deny_list(field, values, "BLOCK"), None)
restrict_scope(allowed, field, stage, method) ==
    behaviour(on_write(method, stage), scope_fence(allowed, field), None)

\* The behaviours that cannot fire at this stage, as far as Engine.guard and
\* check_guard_coverage look: at the stage of the trigger.
Inert(bs, stage) == {i \in DOMAIN bs : bs[i].on.stage \notin {None, Given(stage)}}

\* check_guard_coverage
Covered(bs, stage) == bs # << >> /\ Inert(bs, stage) = {}
=============================================================================
