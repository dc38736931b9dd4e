---------------------------- MODULE GuardedPolicy ---------------------------
(***************************************************************************)
(* GuardedWrite with the behaviours an engine really holds: each verdict   *)
(* is that of a rule for the event the guard made of the call, and each    *)
(* behaviour gets a copy of its own of that event, which its action may    *)
(* change.                                                                 *)
(*                                                                         *)
(* Every step is one of GuardedWrite, narrowed by what triggers and rules  *)
(* say, so what is proved of any behaviours there holds of these.          *)
(***************************************************************************)
EXTENDS GuardedWrite, BehaviourLibrary

CONSTANTS
    Deployment,  \* behaviours, the stage of the guard, and allow_inert
    Request,     \* what a call can ask: a method, positional and keyword arguments
    DecisionRef  \* the decision_ref of the engine, as a value

\* A rule is one of the library, or the deployer's own.
IsRule(r) ==
    /\ r.kind \in {"spend_cap", "flag_over", "deny_list", "allow_list", "scope_fence",
                  "require_fields", "custom"}
    /\ r.kind \in {"spend_cap", "flag_over"} => r.limit \in Int

\* What compares as a number is a number, a bool or a text.
IsValue(v) ==
    v.number # None => v.number[1] \in Int /\ v.type \in {"number", "bool", "text"}

ASSUME PolicyAssumption ==
    /\ Verdict = VERDICTS
    /\ \A d \in Deployment :
        /\ DOMAIN d.behaviours = 1 .. Behaviours
        /\ \A i \in DOMAIN d.behaviours : IsRule(d.behaviours[i].rule)
        /\ d.allow_inert \in BOOLEAN
    /\ \A q \in Request :
        /\ IsValue(q.method) /\ IsValue(q.args)
        /\ \A f \in DOMAIN q.kwargs : IsValue(q.kwargs[f])
    /\ IsValue(DecisionRef)

VARIABLES
    deployment,  \* the engine and its guard
    request,     \* what each call asks
    handed       \* the event that the last behaviour that fired left behind

policyVars == <<vars, deployment, request, handed>>

\* Engine.guard returns a guard: it raises ValueError for inert behaviours.
GuardReturns(d) == Inert(d.behaviours, d.stage) = {} \/ d.allow_inert

\* The event _wrapped makes of a call.
TopLevel(req) ==
    [method |-> req.method, args |-> req.args, kwargs |-> Value("dict", None, << >>),
     decision_ref |-> DecisionRef]
CallEvent(c) ==
    [stage |-> deployment.stage, top |-> TopLevel(request[c]), kwargs |-> request[c].kwargs]

\* Fault: all behaviours of a dispatch share the event.
HandedShared(c) == IF handed[c] = None THEN CallEvent(c) ELSE handed[c][1]

\* A deep copy of the snapshot made before the first behaviour.
Handed(c) == CallEvent(c)

\* What is left of an event when an action is done with it.
LeftBy(action, ev) ==
    IF action = None THEN ev ELSE [ev EXCEPT !.stage = action[1].stage, !.kwargs = action[1].kwargs]

\* The behaviour dispatch looks at, if any is left.
Asked(c) == {deployment.behaviours[i] : i \in {next[c]} \cap DOMAIN deployment.behaviours}

PolicyInit ==
    /\ Init
    /\ deployment \in {d \in Deployment : GuardReturns(d)}
    /\ request \in [Call -> Request]
    /\ handed = [c \in Call |-> None]

PolicyFire(c) ==
    \E b \in Asked(c) :
        /\ Matches(b.on, Handed(c))
        /\ \E v \in Verdicts(b.rule, Handed(c)) : Fire(c, v) \/ FireRaises(c, v)
        /\ handed' = [handed EXCEPT ![c] = Given(LeftBy(b.action, Handed(c)))]

PolicySkip(c) ==
    /\ \A b \in Asked(c) : ~Matches(b.on, Handed(c))
    /\ Skip(c)
    /\ UNCHANGED handed

PolicyNext ==
    /\ \/ \E c \in Call : PolicyFire(c) \/ PolicySkip(c)
       \/ /\ UNCHANGED handed
          /\ \/ \E c \in Call : Start(c) \/ DispatchRaises(c) \/ Decide(c)
             \/ \E c \in Call : RunStep(c) \/ FinallyStep(c) \/ AsyncStep(c)
             \/ Crash
    /\ UNCHANGED <<deployment, request>>

PolicySpec == PolicyInit /\ [][PolicyNext]_policyVars

-----------------------------------------------------------------------------
(* Properties *)

\* What a rule can read of a call: the name of the method hides a keyword of
\* that name, as the other fields of the event do; positional arguments are
\* there as one list only.
Readable(req) ==
    [f \in DOMAIN TopLevel(req) \cup DOMAIN req.kwargs |->
        IF f \in DOMAIN TopLevel(req) THEN TopLevel(req)[f] ELSE req.kwargs[f]]

\* An argument that is not given is None.
Argument(arg, f) == IF f \in DOMAIN arg THEN arg[f] ELSE Missing

\* What a library rule promises of the calls it lets through.
Honours(r, arg) ==
    CASE r.kind = "spend_cap" ->
            /\ Argument(arg, r.field).type \in {"number", "text"}
            /\ \E n \in {Argument(arg, r.field).number} \ {None} : n[1] <= r.limit
      [] r.kind = "deny_list" ->
            "BLOCK" \in VerdictOf(r.verdict) => Argument(arg, r.field) \notin r.values
      [] r.kind = "allow_list" ->
            "BLOCK" \in VerdictOf(r.verdict) => Argument(arg, r.field) \in r.values
      [] r.kind = "scope_fence" ->
            \E p \in r.allowed : StartsWith(Argument(arg, r.field).text, p)
      [] r.kind = "require_fields" ->
            "BLOCK" \in VerdictOf(r.verdict) => \A f \in r.fields : Argument(arg, f) # Missing
      [] OTHER -> TRUE

\* The behaviour is one for this call: its trigger, whatever its stage, asks
\* for nothing that the call has not.  One of on_charge asks for an
\* action_type, which the event of a call does not have.
Concerns(b, req) ==
    \A i \in DOMAIN b.on.where :
        /\ b.on.where[i].field \in DOMAIN TopLevel(req)
        /\ TopLevel(req)[b.on.where[i].field] = b.on.where[i].value

\* Every call whose write reaches the data plane has what each library
\* behaviour of the deployment promises, whatever the actions of the others did
\* to the event and whatever stage it was made for; unless inert behaviours
\* were deployed on purpose, and these are then the only ones without effect.
\* Conversely a call is denied only if some behaviour had a reason to.
PolicyEnforced ==
    \A c \in Call :
        /\ c \in effects => \A i \in DOMAIN deployment.behaviours :
            LET b == deployment.behaviours[i] IN
            \/ Honours(b.rule, Readable(request[c]))
            \/ ~Concerns(b, request[c])
            \/ deployment.allow_inert /\ i \in Inert(deployment.behaviours, deployment.stage)
        /\ pc[c] = "denied" => \E i \in DOMAIN deployment.behaviours :
            LET b == deployment.behaviours[i] IN
            /\ Concerns(b, request[c])
            /\ ~Honours(b.rule, Readable(request[c])) \/ b.rule.kind = "custom"
=============================================================================
