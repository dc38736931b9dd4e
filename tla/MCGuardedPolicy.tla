--------------------------- MODULE MCGuardedPolicy --------------------------
(***************************************************************************)
(* A write and a read on the thread of the Journal, asked of engines with  *)
(* every ordered pair of some behaviours; and, with two behaviours that    *)
(* may say anything of a deletion, also an asynchronous write from another *)
(* thread, whose coroutine settles there, and whatever each of the three   *)
(* calls asks for.                                                         *)
(***************************************************************************)
EXTENDS GuardedPolicy, TLC

CONSTANTS w, aw, rd

PolicyCall == {w, aw, rd}
PolicyKindOf == (w :> "write") @@ (aw :> "async") @@ (rd :> "read")
PolicyThreadOf == (w :> "main") @@ (aw :> "worker") @@ (rd :> "main")

Number(n) == Value("number", Given(n), <<n>>)
Text(s) == Value("text", None, <<s>>)
Path(s, t) == Value("text", None, <<s, t>>)
Numeral(n) == Value("text", Given(n), <<n>>)
List == Value("list", None, <<"list">>)

Put == Text("put")
Delete == Text("delete")
PolicyDecisionRef == Text("decision")

Ask(method, kwargs) == [method |-> method, args |-> List, kwargs |-> kwargs]

PolicyRequest == {
    Ask(Put, [amount |-> Number(5), bucket |-> Path("open", "a")]),
    Ask(Put, [amount |-> Numeral(9), bucket |-> Text("locked")]),
    Ask(Put, [amount |-> Text("much"), method |-> Delete]),
    Ask(Delete, [bucket |-> List])}

\* An action that hides what was asked and takes the event to another stage.
Hiding == Given([stage |-> "elsewhere",
                 kwargs |-> [amount |-> Number(1), bucket |-> Text("open")]])
Always == trigger(None, None)

Behaviour == {
    behaviour(Always, custom({"True", "FLAG", "none"}), Hiding),
    behaviour(on_write(Given(Delete), "execution"), custom({"False"}), None),
    behaviour(on_write(Given(Put), "execution"), spend_cap(5, "amount"), None),
    behaviour(Always, require_fields({"bucket"}, "BLOCK"), None),
    behaviour(Always, flag_over(5, "amount"), None),
    behaviour(Always, allow_list("bucket", {Path("open", "a")}, "BLOCK"), None),
    cap_charges(5, "amount", "execution", Text("charge")),
    cap_charges(5, "amount", "spend_decision", Text("charge")),
    deny_writes_to("bucket", {Text("locked")}, "execution", None),
    deny_writes_to("method", {Delete}, "execution", None),
    restrict_scope({<<"open">>}, "bucket", "execution", None)}

\* The behaviours of the runs with three calls.
Capricious == behaviour(on_write(Given(Delete), "execution"), custom({"True", "False"}), None)
Journaling == [behaviours |-> <<Capricious, Capricious>>, stage |-> "execution",
               allow_inert |-> FALSE]

PolicyDeployment ==
    {Journaling} \cup
    {d \in [behaviours: [1 .. 2 -> Behaviour], stage: {"execution"}, allow_inert: BOOLEAN] :
        d.allow_inert => Inert(d.behaviours, d.stage) # {}}

\* What the read asks for, and what each of three calls asks for: the first is
\* for no behaviour that may say anything, the second for both.
ReadRequest == {
    Ask(Put, [amount |-> Numeral(9), bucket |-> Text("locked")]),
    Ask(Delete, [bucket |-> List])}

JournalingRequest == {
    Ask(Put, [amount |-> Number(5), bucket |-> Path("open", "a")]),
    Ask(Delete, [bucket |-> List])}

MCInit ==
    /\ PolicyInit
    /\ IF deployment = Journaling
       THEN request[rd].method = Delete /\ \A c \in Call : request[c] \in JournalingRequest
       ELSE request[aw].method = Delete /\ request[rd] \in ReadRequest

MCNext ==
    /\ PolicyNext
    /\ deployment = Journaling \/ pc'[aw] = "ready"

MCSpec == MCInit /\ [][MCNext]_policyVars
=============================================================================
