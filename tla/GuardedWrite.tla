---------------------------- MODULE GuardedWrite ----------------------------
(***************************************************************************)
(* A data-plane call through `Runtime.bind`: the keystone-agent guard, the *)
(* journaling wrapper and the keystone-connect wrapper around one client.  *)
(*                                                                         *)
(*   ready --> dispatch --> invoke --> run --> record --> finally --> flush*)
(*                                                                         *)
(* dispatch: Engine.dispatch, one behaviour after the other, each firing   *)
(* journaled by on_fire; invoke: Denied, or _Journaled notes how many      *)
(* execution records there are; run: the client's method; record:          *)
(* _Bound._record; finally and flush: _Journaled journals the records that *)
(* have come in since.  The call ends "returned", "raised" or "denied"; an *)
(* asynchronous write returns with its coroutine "awaiting" and is         *)
(* "settled" later.                                                        *)
(*                                                                         *)
(* A thread runs one call at a time and a coroutine resumes only between   *)
(* calls.  Calls of other threads interleave anywhere, but the Journal's   *)
(* sqlite connection raises for every thread except the one that opened    *)
(* it.  The Journal is the log Journal implements; its append may raise,   *)
(* and then its entry may nevertheless be in the log.                      *)
(***************************************************************************)
EXTENDS Integers, Sequences

CONSTANTS
    Call,        \* the calls made in a run, each once
    KindOf,      \* what the method called is: see Kinds
    ThreadOf,    \* the thread that makes the call
    Owner,       \* the thread that opened the Journal
    Behaviours,  \* how many behaviours the engine holds
    Verdict      \* the verdicts their rules return

Kinds == {"read", "write", "async"}
VERDICTS == {"ALLOW", "FLAG", "BLOCK"}
Outcomes == {"COMMITTED", "FAILED"}

ASSUME GuardAssumption ==
    /\ KindOf \in [Call -> Kinds]
    /\ Behaviours \in Nat
    /\ Verdict \subseteq VERDICTS

VARIABLES
    journal,     \* the entries of the Journal
    executions,  \* _Bound.executions, shared by all calls of a process
    effects,     \* the calls whose write has reached the data plane
    pc,          \* where each call is
    next,        \* the behaviour dispatch looks at next
    fired,       \* the firings of each call: <<behaviour, verdict>>
    outcome,     \* the outcome _Bound records
    before,      \* how many execution records there were
    todo,        \* the records `finally` has yet to journal
    exc          \* the exception in flight: the client's own, or any other

callVars == <<pc, next, fired, outcome, before, todo, exc>>
vars == <<journal, executions, effects, callVars>>

Running == {"dispatch", "invoke", "run", "record", "finally", "flush"}
Over == {"returned", "raised", "denied", "settled", "dead"}
Locations == {"ready", "awaiting"} \cup Running \cup Over

\* A behaviour_ref record and an execution_ref record.
Firing(c, i, v) == [kind |-> "behaviour", call |-> c, nr |-> i, result |-> v]
Execution(c, o) == [kind |-> "execution", call |-> c, nr |-> 0, result |-> o]

Entry == [kind: {"behaviour", "execution"}, call: Call,
          nr: 0 .. Behaviours, result: Verdict \cup Outcomes]

Journaled(e) == \E k \in DOMAIN journal : journal[k] = e

Idle(t) == \A d \in Call : ThreadOf[d] = t => pc[d] \notin Running

Goto(c, loc) == pc' = [pc EXCEPT ![c] = loc]

\* The local variables of the journaling wrapper.
Forget(c) ==
    /\ before' = [before EXCEPT ![c] = 0]
    /\ todo' = [todo EXCEPT ![c] = << >>]

Init ==
    /\ journal = << >>
    /\ executions = << >>
    /\ effects = {}
    /\ pc = [c \in Call |-> "ready"]
    /\ next = [c \in Call |-> 1]
    /\ fired = [c \in Call |-> {}]
    /\ outcome = [c \in Call |-> "FAILED"]
    /\ before = [c \in Call |-> 0]
    /\ todo = [c \in Call |-> << >>]
    /\ exc = [c \in Call |-> "none"]

-----------------------------------------------------------------------------
(* The Journal, as one call sees it *)

\* append(e) returns.
AppendReturns(c, e) ==
    /\ ThreadOf[c] = Owner
    /\ journal' = Append(journal, e)

\* append(e) raises: from a thread the connection does not accept, before
\* COMMIT, or interrupted with the row already committed.
AppendRaises(c, e) ==
    \/ UNCHANGED journal
    \/ AppendReturns(c, e)

-----------------------------------------------------------------------------
(* Engine.guard and Engine.dispatch *)

Start(c) ==
    /\ pc[c] = "ready"
    /\ Idle(ThreadOf[c])
    /\ Goto(c, "dispatch")
    /\ UNCHANGED <<journal, executions, effects, next, fired, outcome, before, todo, exc>>

\* Fault: a failing observer does not stop the write.
FireLenient(c, v) ==
    /\ pc[c] = "dispatch"
    /\ next[c] <= Behaviours
    /\ fired' = [fired EXCEPT ![c] = @ \cup {<<next[c], v>>}]
    /\ next' = [next EXCEPT ![c] = @ + 1]
    /\ AppendRaises(c, Firing(c, next[c], v))
    /\ UNCHANGED <<executions, effects, pc, outcome, before, todo, exc>>

\* The behaviour's trigger matches and its rule says v; the record is in the
\* Journal before the next behaviour is looked at.
Fire(c, v) ==
    /\ pc[c] = "dispatch"
    /\ next[c] <= Behaviours
    /\ fired' = [fired EXCEPT ![c] = @ \cup {<<next[c], v>>}]
    /\ next' = [next EXCEPT ![c] = @ + 1]
    /\ AppendReturns(c, Firing(c, next[c], v))
    /\ UNCHANGED <<executions, effects, pc, outcome, before, todo, exc>>

\* on_fire raises: the call fails before the write.
FireRaises(c, v) ==
    /\ pc[c] = "dispatch"
    /\ next[c] <= Behaviours
    /\ fired' = [fired EXCEPT ![c] = @ \cup {<<next[c], v>>}]
    /\ AppendRaises(c, Firing(c, next[c], v))
    /\ exc' = [exc EXCEPT ![c] = "other"]
    /\ Goto(c, "raised")
    /\ UNCHANGED <<executions, effects, next, outcome, before, todo>>

\* The behaviour's trigger does not match.
Skip(c) ==
    /\ pc[c] = "dispatch"
    /\ next[c] <= Behaviours
    /\ next' = [next EXCEPT ![c] = @ + 1]
    /\ UNCHANGED <<journal, executions, effects, pc, fired, outcome, before, todo, exc>>

\* The event cannot be built, or a trigger, rule, clock or action raises.
DispatchRaises(c) ==
    /\ pc[c] = "dispatch"
    /\ exc' = [exc EXCEPT ![c] = "other"]
    /\ Goto(c, "raised")
    /\ UNCHANGED <<journal, executions, effects, next, fired, outcome, before, todo>>

\* Fault: only the first firing is asked.
BlockedFirst(c) == \E f \in fired[c] : f[2] = "BLOCK" /\ \A g \in fired[c] : f[1] <= g[1]

Blocked(c) == \E f \in fired[c] : f[2] = "BLOCK"

\* All behaviours have been asked; one BLOCK denies the call.
Decide(c) ==
    /\ pc[c] = "dispatch"
    /\ next[c] > Behaviours
    /\ Goto(c, IF Blocked(c) THEN "denied" ELSE "invoke")
    /\ UNCHANGED <<journal, executions, effects, next, fired, outcome, before, todo, exc>>

-----------------------------------------------------------------------------
(* _Bound.caller, inside _Journaled.wrapped *)

\* Fault: the slice always starts at the first record.
InvokeFromStart(c) ==
    /\ pc[c] = "invoke"
    /\ before' = [before EXCEPT ![c] = 0]
    /\ Goto(c, "run")
    /\ UNCHANGED <<journal, executions, effects, next, fired, outcome, todo, exc>>

\* before = len(executions)
Invoke(c) ==
    /\ pc[c] = "invoke"
    /\ before' = [before EXCEPT ![c] = Len(executions)]
    /\ Goto(c, "run")
    /\ UNCHANGED <<journal, executions, effects, next, fired, outcome, todo, exc>>

\* A method that is not in `writes` is the client's own: no record.
Read(c) ==
    /\ pc[c] = "run"
    /\ KindOf[c] = "read"
    /\ exc' \in {exc, [exc EXCEPT ![c] = "other"]}
    /\ Goto(c, "finally")
    /\ UNCHANGED <<journal, executions, effects, next, fired, outcome, before, todo>>

\* scope_fn, the clock or the check of the preimage raises before the write;
\* or a BaseException leaves the client's method, which `except Exception`
\* does not see, at whatever point.
RunInterrupted(c) ==
    /\ pc[c] = "run"
    /\ KindOf[c] # "read"
    /\ effects' \in {effects, effects \cup {c}}
    /\ exc' = [exc EXCEPT ![c] = "other"]
    /\ Goto(c, "finally")
    /\ UNCHANGED <<journal, executions, next, fired, outcome, before, todo>>

\* The method returns its result.
RunSucceeds(c) ==
    /\ pc[c] = "run"
    /\ KindOf[c] = "write"
    /\ effects' = effects \cup {c}
    /\ outcome' = [outcome EXCEPT ![c] = "COMMITTED"]
    /\ Goto(c, "record")
    /\ UNCHANGED <<journal, executions, next, fired, before, todo, exc>>

\* The method raises, having written or not.
RunFails(c) ==
    /\ pc[c] = "run"
    /\ KindOf[c] # "read"
    /\ effects' \in {effects, effects \cup {c}}
    /\ outcome' = [outcome EXCEPT ![c] = "FAILED"]
    /\ exc' = [exc EXCEPT ![c] = "client"]
    /\ Goto(c, "record")
    /\ UNCHANGED <<journal, executions, next, fired, before, todo>>

\* Fault: an awaitable result is recorded as a result.
RunStartsRecorded(c) ==
    /\ pc[c] = "run"
    /\ KindOf[c] = "async"
    /\ outcome' = [outcome EXCEPT ![c] = "COMMITTED"]
    /\ Goto(c, "record")
    /\ UNCHANGED <<journal, executions, effects, next, fired, before, todo, exc>>

\* The method returns an awaitable; the caller gets finish().
RunStarts(c) ==
    /\ pc[c] = "run"
    /\ KindOf[c] = "async"
    /\ Goto(c, "finally")
    /\ UNCHANGED <<journal, executions, effects, next, fired, outcome, before, todo, exc>>

\* _record, whose on_execution callback may raise.
Record(c) ==
    /\ pc[c] = "record"
    /\ executions' = Append(executions, Execution(c, outcome[c]))
    /\ exc' \in {exc, [exc EXCEPT ![c] = "other"]}
    /\ Goto(c, "finally")
    /\ UNCHANGED <<journal, effects, next, fired, outcome, before, todo>>

-----------------------------------------------------------------------------
(* The `finally` of _Journaled.wrapped *)

\* Fault: `except` in place of `finally`: nothing is journaled on a failure.
FinallyOnSuccess(c) ==
    /\ pc[c] = "finally"
    /\ todo' = [todo EXCEPT ![c] =
            IF exc[c] # "none" THEN << >>
            ELSE SubSeq(executions, before[c] + 1, Len(executions))]
    /\ Goto(c, "flush")
    /\ UNCHANGED <<journal, executions, effects, next, fired, outcome, before, exc>>

\* list(executions[before:]): with the records of any other thread and of any
\* coroutine that settled meanwhile.
Finally(c) ==
    /\ pc[c] = "finally"
    /\ todo' = [todo EXCEPT ![c] = SubSeq(executions, before[c] + 1, Len(executions))]
    /\ Goto(c, "flush")
    /\ UNCHANGED <<journal, executions, effects, next, fired, outcome, before, exc>>

Flush(c) ==
    /\ pc[c] = "flush"
    /\ todo[c] # << >>
    /\ AppendReturns(c, Head(todo[c]))
    /\ todo' = [todo EXCEPT ![c] = Tail(@)]
    /\ UNCHANGED <<executions, effects, pc, next, fired, outcome, before, exc>>

\* A failing append ends the loop and takes the place of any other exception.
FlushRaises(c) ==
    /\ pc[c] = "flush"
    /\ todo[c] # << >>
    /\ AppendRaises(c, Head(todo[c]))
    /\ exc' = [exc EXCEPT ![c] = "other"]
    /\ Goto(c, "raised")
    /\ Forget(c)
    /\ UNCHANGED <<executions, effects, next, fired, outcome>>

Return(c) ==
    /\ pc[c] = "flush"
    /\ todo[c] = << >>
    /\ Goto(c, CASE exc[c] # "none" -> "raised"
                 [] exc[c] = "none" /\ KindOf[c] = "async" -> "awaiting"
                 [] OTHER -> "returned")
    /\ Forget(c)
    /\ UNCHANGED <<journal, executions, effects, next, fired, outcome, exc>>

-----------------------------------------------------------------------------
(* finish(), the coroutine of an asynchronous write *)

\* The write happens while the coroutine waits, or without it.
AsyncWrite(c) ==
    /\ pc[c] = "awaiting"
    /\ c \notin effects
    /\ effects' = effects \cup {c}
    /\ UNCHANGED <<journal, executions, callVars>>

\* The awaitable has a result, raises, or is cancelled, also after the write.
\* The record goes to `executions`; no `finally` is waiting for it.
Settle(c, o) ==
    /\ pc[c] = "awaiting"
    /\ Idle(ThreadOf[c])
    /\ o = "COMMITTED" => c \in effects
    /\ outcome' = [outcome EXCEPT ![c] = o]
    /\ executions' = Append(executions, Execution(c, o))
    /\ Goto(c, "settled")
    /\ UNCHANGED <<journal, effects, next, fired, before, todo, exc>>

\* The process dies; a new one binds a new client to the same Journal.
Crash ==
    /\ pc' = [c \in Call |-> IF pc[c] \in Running \cup {"awaiting"} THEN "dead" ELSE pc[c]]
    /\ executions' = << >>
    /\ before' = [c \in Call |-> 0]
    /\ todo' = [c \in Call |-> << >>]
    /\ UNCHANGED <<journal, effects, next, fired, outcome, exc>>

-----------------------------------------------------------------------------

DispatchStep(c) ==
    \/ Start(c) \/ Skip(c) \/ DispatchRaises(c) \/ Decide(c)
    \/ \E v \in Verdict : Fire(c, v) \/ FireRaises(c, v)

RunStep(c) ==
    \/ Invoke(c) \/ Read(c) \/ RunInterrupted(c) \/ RunSucceeds(c)
    \/ RunFails(c) \/ RunStarts(c) \/ Record(c)

FinallyStep(c) == Finally(c) \/ Flush(c) \/ FlushRaises(c) \/ Return(c)

AsyncStep(c) == AsyncWrite(c) \/ \E o \in Outcomes : Settle(c, o)

Next ==
    \/ \E c \in Call : DispatchStep(c) \/ RunStep(c) \/ FinallyStep(c) \/ AsyncStep(c)
    \/ Crash

Spec == Init /\ [][Next]_vars

-----------------------------------------------------------------------------
(* Properties *)

\* Every variable has its type.
TypeOK ==
    /\ journal \in Seq(Entry)
    /\ executions \in Seq(Entry)
    /\ effects \subseteq Call
    /\ pc \in [Call -> Locations]
    /\ next \in [Call -> 1 .. Behaviours + 1]
    /\ fired \in [Call -> SUBSET ((1 .. Behaviours) \X Verdict)]
    /\ outcome \in [Call -> Outcomes]
    /\ before \in [Call -> Nat]
    /\ todo \in [Call -> Seq(Entry)]
    /\ exc \in [Call -> {"none", "client", "other"}]

\* No write reaches the data plane before every behaviour has been asked, none
\* of them said BLOCK and each firing is durably in the Journal: a failing
\* Journal, observer or rule fails closed.  It holds for ever, also after the
\* process died.
NoUngovernedWrite ==
    \A c \in effects :
        /\ next[c] = Behaviours + 1
        /\ \A f \in fired[c] : f[2] # "BLOCK" /\ Journaled(Firing(c, f[1], f[2]))

\* A denied call leaves its BLOCK in the Journal, has no effect and leaves no
\* execution record, whatever else fired.
DenialsOnRecord ==
    \A c \in Call : pc[c] = "denied" =>
        /\ c \notin effects
        /\ \E i \in 1 .. Behaviours : Journaled(Firing(c, i, "BLOCK"))
        /\ \A o \in Outcomes : ~Journaled(Execution(c, o))

\* A synchronous write whose call returned has its COMMITTED record in the
\* Journal; one whose client raised, and whose own exception reached the
\* caller, has its FAILED record there: `finally` journals it either way.
SynchronousWritesJournaled ==
    \A c \in Call :
        /\ pc[c] = "returned" /\ KindOf[c] = "write"
             => Journaled(Execution(c, "COMMITTED"))
        /\ pc[c] = "raised" /\ exc[c] = "client"
             => Journaled(Execution(c, "FAILED"))

\* The Journal never says COMMITTED of a write that did not happen, and says
\* what came of a call only after everything its behaviours said.
EvidenceInOrder ==
    \A k \in DOMAIN journal : journal[k].kind = "execution" =>
        LET c == journal[k].call IN
        /\ journal[k].result = "COMMITTED" => c \in effects
        /\ \A f \in fired[c] :
            \E j \in 1 .. k - 1 : journal[j] = Firing(c, f[1], f[2])

\* Although calls on other threads and coroutines add to the same list, and
\* the slices that overlapping calls take of it overlap, no execution is
\* journaled twice.
ExecutionsJournaledOnce ==
    \A j, k \in DOMAIN journal :
        journal[j].kind = "execution" /\ journal[j].call = journal[k].call
            /\ journal[k].kind = "execution" => j = k

\* The inductive invariant behind NoUngovernedWrite and DenialsOnRecord: what
\* has fired is in the Journal, and a call is past the guard only if all
\* behaviours were asked and none said BLOCK.
Governed(c) ==
    /\ next[c] = Behaviours + 1
    /\ \A f \in fired[c] : f[2] # "BLOCK" /\ Journaled(Firing(c, f[1], f[2]))

PastGuard == {"invoke", "run", "record", "finally", "flush", "awaiting", "returned", "settled"}

GuardInv ==
    /\ \A c \in Call : pc[c] \in PastGuard => Governed(c)
    /\ \A c \in Call : pc[c] \in {"ready", "dispatch"} =>
        \A f \in fired[c] : Journaled(Firing(c, f[1], f[2]))
    /\ \A c \in effects : Governed(c) /\ pc[c] \notin {"ready", "dispatch", "denied"}

\* What the comment of `bind` and the README say: every committed write is
\* journaled.  Here: every one that was recorded and whose call is over.
EveryCommittedWriteJournaled ==
    \A c \in Call :
        pc[c] \in {"returned", "settled"} /\ outcome[c] = "COMMITTED"
            => Journaled(Execution(c, "COMMITTED"))
=============================================================================
