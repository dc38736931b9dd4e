--------------------------- MODULE GuardedProofs ----------------------------
(***************************************************************************)
(* Proofs about GuardedWrite, for any calls, threads and behaviours: no    *)
(* write passes the guard unrecorded, the Journal keeps a call's records   *)
(* in order, whole and single.  And about GuardedPolicy: it implements     *)
(* GuardedWrite, and no write passes that the behaviours' rules refuse.    *)
(***************************************************************************)
EXTENDS GuardedPolicy, TLAPS, SequenceTheorems

-----------------------------------------------------------------------------
(* Types *)

LEMMA EntryTyped ==
    ASSUME NEW c \in Call
    PROVE  /\ \A i \in 1 .. Behaviours, v \in Verdict : Firing(c, i, v) \in Entry
           /\ \A o \in Outcomes : Execution(c, o) \in Entry
BY GuardAssumption DEF Firing, Execution, Entry

LEMMA AppendTyped ==
    ASSUME NEW s \in Seq(Entry), NEW e \in Entry
    PROVE  Append(s, e) \in Seq(Entry)
BY AppendProperties

LEMMA InitTyped == Init => TypeOK
BY GuardAssumption, EmptySeq DEF Init, TypeOK, Locations, Outcomes

LEMMA GotoTyped ==
    ASSUME TypeOK, NEW c \in Call, NEW loc \in Locations, Goto(c, loc)
    PROVE  pc' \in [Call -> Locations]
BY DEF TypeOK, Goto

LEMMA DispatchTyped ==
    ASSUME TypeOK, NEW c \in Call, DispatchStep(c)
    PROVE  TypeOK'
<1> USE GuardAssumption DEF TypeOK
<1>L. {"dispatch", "raised", "denied", "invoke"} \subseteq Locations
  BY DEF Locations, Running, Over
<1>1. CASE Start(c)
  BY <1>1, <1>L, GotoTyped DEF Start
<1>2. CASE Skip(c)
  BY <1>2 DEF Skip
<1>3. CASE DispatchRaises(c)
  BY <1>3, <1>L, GotoTyped DEF DispatchRaises
<1>4. CASE Decide(c)
  BY <1>4, <1>L, GotoTyped DEF Decide
<1>5. ASSUME NEW v \in Verdict, Fire(c, v) \/ FireRaises(c, v)
      PROVE  TypeOK'
  <2>1. next[c] \in 1 .. Behaviours
    BY <1>5 DEF Fire, FireRaises
  <2>2. Append(journal, Firing(c, next[c], v)) \in Seq(Entry)
    BY <2>1, EntryTyped, AppendTyped
  <2>3. fired' \in [Call -> SUBSET ((1 .. Behaviours) \X Verdict)]
    <3> DEFINE F == (1 .. Behaviours) \X Verdict
               new == fired[c] \cup {<<next[c], v>>}
    <3>1. new \in SUBSET F
      BY <2>1
    <3>2. fired' = [fired EXCEPT ![c] = new]
      BY <1>5 DEF Fire, FireRaises
    <3> HIDE DEF F, new
    <3>3. fired \in [Call -> SUBSET F]
      BY DEF F
    <3>4. fired' \in [Call -> SUBSET F]
      BY <3>1, <3>2, <3>3
    <3> QED
      BY <3>4 DEF F
  <2>4. journal' \in Seq(Entry)
    BY <1>5, <2>2 DEF Fire, FireRaises, AppendReturns, AppendRaises
  <2>5. CASE Fire(c, v)
    BY <2>1, <2>3, <2>4, <2>5 DEF Fire
  <2>6. CASE FireRaises(c, v)
    BY <2>3, <2>4, <2>6, <1>L, GotoTyped DEF FireRaises
  <2> QED
    BY <1>5, <2>5, <2>6
<1> QED
  BY <1>1, <1>2, <1>3, <1>4, <1>5 DEF DispatchStep

LEMMA RunTyped ==
    ASSUME TypeOK, NEW c \in Call, RunStep(c)
    PROVE  TypeOK'
<1> USE DEF TypeOK
<1>L. {"run", "finally", "record"} \subseteq Locations
  BY DEF Locations, Running
<1>O. {"COMMITTED", "FAILED"} = Outcomes
  BY DEF Outcomes
<1>1. CASE Invoke(c)
  <2>1. Len(executions) \in Nat
    BY LenProperties
  <2> QED
    BY <1>1, <1>L, <2>1, GotoTyped DEF Invoke
<1>2. CASE Read(c)
  BY <1>2, <1>L, GotoTyped DEF Read
<1>3. CASE RunInterrupted(c)
  BY <1>3, <1>L, GotoTyped DEF RunInterrupted
<1>4. CASE RunSucceeds(c)
  BY <1>4, <1>L, <1>O, GotoTyped DEF RunSucceeds
<1>5. CASE RunFails(c)
  BY <1>5, <1>L, <1>O, GotoTyped DEF RunFails
<1>6. CASE RunStarts(c)
  BY <1>6, <1>L, GotoTyped DEF RunStarts
<1>7. CASE Record(c)
  <2>1. executions' \in Seq(Entry)
    BY <1>7, EntryTyped, AppendTyped DEF Record
  <2> QED
    BY <1>7, <1>L, <2>1, GotoTyped DEF Record
<1> QED
  BY <1>1, <1>2, <1>3, <1>4, <1>5, <1>6, <1>7 DEF RunStep

LEMMA FinallyTyped ==
    ASSUME TypeOK, NEW c \in Call, FinallyStep(c)
    PROVE  TypeOK'
<1> USE DEF TypeOK
<1>L. {"flush", "raised", "awaiting", "returned"} \subseteq Locations
  BY DEF Locations, Running, Over
<1>E. << >> \in Seq(Entry)
  BY EmptySeq
<1>H. ASSUME todo[c] # << >>
      PROVE  Head(todo[c]) \in Entry /\ Tail(todo[c]) \in Seq(Entry)
  BY <1>H, HeadTailProperties
<1>F. ASSUME Forget(c)
      PROVE  before' \in [Call -> Nat] /\ todo' \in [Call -> Seq(Entry)]
  BY <1>E, <1>F DEF Forget
<1>1. CASE Finally(c)
  <2>1. SubSeq(executions, before[c] + 1, Len(executions)) \in Seq(Entry)
    BY LenProperties
  <2> QED
    BY <1>1, <1>L, <2>1, GotoTyped DEF Finally
<1>2. CASE Flush(c)
  BY <1>2, <1>H, AppendTyped DEF Flush, AppendReturns
<1>3. CASE FlushRaises(c)
  <2>1. journal' \in Seq(Entry)
    BY <1>3, <1>H, AppendTyped DEF FlushRaises, AppendRaises, AppendReturns
  <2> QED
    BY <1>3, <1>L, <1>F, <2>1, GotoTyped DEF FlushRaises
<1>4. CASE Return(c)
  <2>1. PICK loc \in Locations : Goto(c, loc)
    BY <1>4, <1>L DEF Return
  <2>2. pc' \in [Call -> Locations]
    BY <2>1, GotoTyped
  <2> QED
    BY <1>4, <1>F, <2>2 DEF Return
<1> QED
  BY <1>1, <1>2, <1>3, <1>4 DEF FinallyStep

LEMMA AsyncTyped ==
    ASSUME TypeOK, NEW c \in Call, AsyncStep(c)
    PROVE  TypeOK'
<1> USE DEF TypeOK
<1>1. CASE AsyncWrite(c)
  BY <1>1 DEF AsyncWrite, callVars
<1>2. ASSUME NEW o \in Outcomes, Settle(c, o)
      PROVE  TypeOK'
  <2>1. executions' \in Seq(Entry)
    BY <1>2, EntryTyped, AppendTyped DEF Settle
  <2>2. "settled" \in Locations
    BY DEF Locations, Over
  <2> QED
    BY <1>2, <2>1, <2>2, GotoTyped DEF Settle
<1> QED
  BY <1>1, <1>2 DEF AsyncStep

LEMMA NextTyped == TypeOK /\ [Next]_vars => TypeOK'
<1> SUFFICES ASSUME TypeOK, [Next]_vars PROVE TypeOK'
  OBVIOUS
<1>1. CASE Crash
  BY <1>1, EmptySeq DEF Crash, TypeOK, Locations, Over
<1>2. CASE UNCHANGED vars
  BY <1>2 DEF vars, callVars, TypeOK
<1> QED
  BY <1>1, <1>2, DispatchTyped, RunTyped, FinallyTyped, AsyncTyped DEF Next

\* Every variable keeps its type in every behaviour.
THEOREM GuardTypeCorrect == Spec => []TypeOK
BY InitTyped, NextTyped, PTL DEF Spec

-----------------------------------------------------------------------------
(* The guard *)

\* The Journal only grows.
JournalGrows == \A e \in Entry : Journaled(e) => Journaled(e)'

LEMMA AppendGrows ==
    ASSUME TypeOK, NEW e \in Entry, journal' = Append(journal, e)
    PROVE  JournalGrows /\ Journaled(e)'
<1>1. /\ journal \in Seq(Entry)
      /\ DOMAIN journal = 1 .. Len(journal)
      /\ Len(journal) \in Nat
  BY LenProperties DEF TypeOK
<1>2. /\ DOMAIN journal' = 1 .. Len(journal) + 1
      /\ \A k \in 1 .. Len(journal) : journal'[k] = journal[k]
      /\ journal'[Len(journal) + 1] = e
  BY <1>1, AppendProperties, LenProperties
<1> QED
  BY <1>1, <1>2 DEF JournalGrows, Journaled

LEMMA NextGrows == TypeOK /\ [Next]_vars => JournalGrows
<1> SUFFICES ASSUME TypeOK, [Next]_vars PROVE JournalGrows
  OBVIOUS
<1>S. ASSUME UNCHANGED journal PROVE JournalGrows
  BY <1>S DEF JournalGrows, Journaled
<1>R. ASSUME NEW c \in Call, NEW e \in Entry, AppendReturns(c, e) \/ AppendRaises(c, e)
      PROVE  JournalGrows
  BY <1>R, <1>S, AppendGrows DEF AppendReturns, AppendRaises
<1>1. ASSUME NEW c \in Call, NEW v \in Verdict, Fire(c, v) \/ FireRaises(c, v)
      PROVE  JournalGrows
  <2>1. next[c] \in 1 .. Behaviours
    BY <1>1, GuardAssumption DEF TypeOK, Fire, FireRaises
  <2> QED
    BY <1>1, <1>R, <2>1, EntryTyped DEF Fire, FireRaises
<1>2. ASSUME NEW c \in Call, Flush(c) \/ FlushRaises(c)
      PROVE  JournalGrows
  <2>1. Head(todo[c]) \in Entry
    BY <1>2, HeadTailProperties DEF TypeOK, Flush, FlushRaises
  <2> QED
    BY <1>2, <1>R, <2>1 DEF Flush, FlushRaises
<1>3. ASSUME NEW c \in Call, DispatchStep(c) PROVE JournalGrows
  BY <1>1, <1>3, <1>S DEF DispatchStep, Start, Skip, DispatchRaises, Decide
<1>4. ASSUME NEW c \in Call, RunStep(c) PROVE JournalGrows
  BY <1>4, <1>S DEF RunStep, Invoke, Read, RunInterrupted, RunSucceeds, RunFails,
                    RunStarts, Record
<1>5. ASSUME NEW c \in Call, FinallyStep(c) PROVE JournalGrows
  BY <1>2, <1>5, <1>S DEF FinallyStep, Finally, Return
<1>6. ASSUME NEW c \in Call, AsyncStep(c) PROVE JournalGrows
  BY <1>6, <1>S DEF AsyncStep, AsyncWrite, Settle
<1> QED
  BY <1>3, <1>4, <1>5, <1>6, <1>S DEF Next, Crash, vars

\* What a step that does not dispatch d leaves alone.
LEMMA GovernedStays ==
    ASSUME TypeOK, JournalGrows, NEW d \in Call, next'[d] = next[d], fired'[d] = fired[d]
    PROVE  /\ Governed(d) => Governed(d)'
           /\ (\A f \in fired[d] : Journaled(Firing(d, f[1], f[2])))
                => (\A f \in fired[d] : Journaled(Firing(d, f[1], f[2])))'
<1>1. \A f \in fired[d] : Firing(d, f[1], f[2]) \in Entry
  BY EntryTyped DEF TypeOK
<1>2. \A f \in fired[d] : Journaled(Firing(d, f[1], f[2])) => Journaled(Firing(d, f[1], f[2]))'
  BY <1>1 DEF JournalGrows, Journaled
<1> QED
  BY <1>2 DEF Governed

LEMMA InitGuarded == Init => GuardInv
BY DEF Init, GuardInv, PastGuard

\* A step of another kind than dispatch: it moves calls forward only from
\* where they are past the guard, and only those write.
LEMMA ForwardGuarded ==
    ASSUME TypeOK, GuardInv, JournalGrows, UNCHANGED <<next, fired>>,
           NEW c \in Call, pc[c] \in PastGuard,
           NEW loc \in PastGuard \cup {"raised"},
           Goto(c, loc) \/ UNCHANGED pc,
           effects' \subseteq effects \cup {c}
    PROVE  GuardInv'
<1>1. \A d \in Call : d # c => pc'[d] = pc[d]
  BY DEF Goto, TypeOK
<1>2. pc'[c] \in PastGuard \cup {"raised"}
  BY DEF Goto, TypeOK
<1>3. Governed(c)
  BY DEF GuardInv
<1>4. ASSUME NEW d \in Call, pc'[d] \in PastGuard PROVE Governed(d)'
  <2>1. Governed(d)
    BY <1>1, <1>3, <1>4 DEF GuardInv
  <2> QED
    BY <2>1, GovernedStays
<1>5. ASSUME NEW d \in Call, pc'[d] \in {"ready", "dispatch"}
      PROVE  (\A f \in fired[d] : Journaled(Firing(d, f[1], f[2])))'
  <2>1. pc[d] \in {"ready", "dispatch"}
    BY <1>1, <1>2, <1>5 DEF PastGuard
  <2> QED
    BY <2>1, GovernedStays DEF GuardInv
<1>6. ASSUME NEW d \in effects'
      PROVE  Governed(d)' /\ pc'[d] \notin {"ready", "dispatch", "denied"}
  <2>1. d \in Call
    BY <1>6 DEF TypeOK
  <2>2. CASE d = c
    BY <1>2, <1>3, <2>2, GovernedStays DEF PastGuard
  <2>3. CASE d # c
    BY <1>1, <1>6, <2>1, <2>3, GovernedStays DEF GuardInv
  <2> QED
    BY <2>2, <2>3
<1> QED
  BY <1>4, <1>5, <1>6 DEF GuardInv

\* Dispatch: what fires is journaled before the next behaviour is asked, and
\* a call leaves it forward only if none blocked.
LEMMA DispatchGuarded ==
    ASSUME TypeOK, GuardInv, JournalGrows, NEW c \in Call, DispatchStep(c)
    PROVE  GuardInv'
<1> DEFINE OnRecord(d) == \A f \in fired[d] : Journaled(Firing(d, f[1], f[2]))
<1>A. DispatchStep(c) <=>
        \/ Start(c) \/ Skip(c) \/ DispatchRaises(c) \/ Decide(c)
        \/ \E v \in Verdict : Fire(c, v) \/ FireRaises(c, v)
  BY DEF DispatchStep
<1>B. pc[c] \in {"ready", "dispatch"} /\ effects' = effects
  BY <1>A DEF Start, Skip, DispatchRaises, Decide, Fire, FireRaises
<1>C. c \notin effects /\ OnRecord(c)
  BY <1>B DEF GuardInv
<1>D. ASSUME NEW d \in Call, d # c
      PROVE  pc'[d] = pc[d] /\ next'[d] = next[d] /\ fired'[d] = fired[d]
  BY <1>A, <1>D DEF Start, Skip, DispatchRaises, Decide, Fire, FireRaises, Goto, TypeOK
<1>E. ASSUME NEW d \in Call, d # c
      PROVE  (Governed(d) => Governed(d)') /\ (OnRecord(d) => OnRecord(d)')
  BY <1>D, <1>E, GovernedStays
<1>F. /\ pc'[c] \in PastGuard => Governed(c)'
      /\ pc'[c] \in {"ready", "dispatch"} => OnRecord(c)'
  <2>1. CASE Start(c) \/ Skip(c)
    <3>1. pc'[c] = "dispatch" /\ fired' = fired
      BY <2>1 DEF Start, Skip, Goto, TypeOK
    <3>2. \A f \in fired[c] : Firing(c, f[1], f[2]) \in Entry
      BY EntryTyped DEF TypeOK
    <3>3. OnRecord(c)'
      BY <1>C, <3>1, <3>2 DEF JournalGrows, Journaled
    <3> QED
      BY <3>1, <3>3 DEF PastGuard
  <2>2. CASE DispatchRaises(c)
    BY <2>2 DEF DispatchRaises, Goto, TypeOK, PastGuard
  <2>3. CASE Decide(c)
    <3>1. next' = next /\ fired' = fired /\ next[c] = Behaviours + 1
      BY <2>3, GuardAssumption DEF Decide, TypeOK
    <3>2. CASE Blocked(c)
      BY <2>3, <3>2 DEF Decide, Goto, TypeOK, PastGuard
    <3>3. CASE ~Blocked(c)
      <4>1. pc'[c] = "invoke"
        BY <2>3, <3>3 DEF Decide, Goto, TypeOK
      <4>2. Governed(c)
        BY <1>C, <3>1, <3>3 DEF Governed, Blocked
      <4> QED
        BY <3>1, <4>1, <4>2, GovernedStays
    <3> QED
      BY <3>2, <3>3
  <2>4. ASSUME NEW v \in Verdict, Fire(c, v)
        PROVE  pc' = pc /\ OnRecord(c)'
    <3>1. PICK n \in 1 .. Behaviours : n = next[c]
      BY <2>4, GuardAssumption DEF Fire, TypeOK
    <3>2. Journaled(Firing(c, n, v))'
      <4>1. Firing(c, n, v) \in Entry
        BY <3>1, EntryTyped
      <4>2. journal' = Append(journal, Firing(c, n, v))
        BY <2>4, <3>1 DEF Fire, AppendReturns
      <4> QED
        BY <4>1, <4>2, AppendGrows
    <3>3. fired'[c] = fired[c] \cup {<<n, v>>}
      BY <2>4, <3>1 DEF Fire, TypeOK
    <3>4. \A f \in fired[c] : Firing(c, f[1], f[2]) \in Entry
      BY EntryTyped DEF TypeOK
    <3>5. \A f \in fired[c] : Journaled(Firing(c, f[1], f[2]))'
      BY <1>C, <3>4 DEF JournalGrows, Journaled
    <3> QED
      BY <2>4, <3>2, <3>3, <3>5 DEF Fire
  <2>5. ASSUME NEW v \in Verdict, FireRaises(c, v)
        PROVE  pc'[c] = "raised"
    BY <2>5 DEF FireRaises, Goto, TypeOK
  <2> QED
    BY <1>A, <1>B, <2>1, <2>2, <2>3, <2>4, <2>5 DEF PastGuard, Fire
<1> HIDE DEF OnRecord
<1>G. \A d \in Call : pc'[d] \in PastGuard => Governed(d)'
  BY <1>D, <1>E, <1>F DEF GuardInv
<1>H. \A d \in Call : pc'[d] \in {"ready", "dispatch"} => OnRecord(d)'
  BY <1>D, <1>E, <1>F DEF GuardInv, OnRecord
<1>I. \A d \in effects' : Governed(d)' /\ pc'[d] \notin {"ready", "dispatch", "denied"}
  BY <1>B, <1>C, <1>D, <1>E DEF GuardInv, TypeOK
<1> QED
  BY <1>G, <1>H, <1>I DEF GuardInv, OnRecord

LEMMA NextGuarded == TypeOK /\ GuardInv /\ [Next]_vars => GuardInv'
<1> SUFFICES ASSUME TypeOK, GuardInv, [Next]_vars PROVE GuardInv'
  OBVIOUS
<1>G. JournalGrows
  BY NextGrows
<1>1. ASSUME NEW c \in Call, DispatchStep(c) PROVE GuardInv'
  BY <1>1, <1>G, DispatchGuarded
<1>2. ASSUME NEW c \in Call, RunStep(c) PROVE GuardInv'
  <2>1. PICK loc \in {"run", "finally", "record"} : Goto(c, loc)
    BY <1>2 DEF RunStep, Invoke, Read, RunInterrupted, RunSucceeds, RunFails, RunStarts, Record
  <2>2. /\ pc[c] \in PastGuard
        /\ UNCHANGED <<next, fired>>
        /\ effects' \subseteq effects \cup {c}
    BY <1>2 DEF RunStep, Invoke, Read, RunInterrupted, RunSucceeds, RunFails, RunStarts,
                Record, PastGuard
  <2>3. loc \in PastGuard \cup {"raised"}
    BY DEF PastGuard
  <2> QED
    BY <1>G, <2>1, <2>2, <2>3, ForwardGuarded
<1>3. ASSUME NEW c \in Call, FinallyStep(c) PROVE GuardInv'
  <2>1. \E loc \in {"flush", "raised", "awaiting", "returned"} : Goto(c, loc) \/ UNCHANGED pc
    BY <1>3 DEF FinallyStep, Finally, Flush, FlushRaises, Return
  <2>2. /\ pc[c] \in PastGuard
        /\ UNCHANGED <<next, fired>>
        /\ effects' \subseteq effects \cup {c}
    BY <1>3 DEF FinallyStep, Finally, Flush, FlushRaises, Return, PastGuard
  <2>3. {"flush", "raised", "awaiting", "returned"} \subseteq PastGuard \cup {"raised"}
    BY DEF PastGuard
  <2> QED
    BY <1>G, <2>1, <2>2, <2>3, ForwardGuarded
<1>4. ASSUME NEW c \in Call, AsyncStep(c) PROVE GuardInv'
  <2>1. Goto(c, "settled") \/ UNCHANGED pc
    BY <1>4 DEF AsyncStep, AsyncWrite, Settle, callVars
  <2>2. /\ pc[c] \in PastGuard
        /\ UNCHANGED <<next, fired>>
        /\ effects' \subseteq effects \cup {c}
    BY <1>4 DEF AsyncStep, AsyncWrite, Settle, callVars, PastGuard
  <2>3. "settled" \in PastGuard \cup {"raised"}
    BY DEF PastGuard
  <2> QED
    BY <1>G, <2>1, <2>2, <2>3, ForwardGuarded
<1>5. CASE Crash
  <2>1. /\ UNCHANGED <<journal, effects, next, fired>>
        /\ \A d \in Call : pc'[d] = "dead" \/ (pc'[d] = pc[d] /\ pc[d] \notin {"dispatch"})
    BY <1>5 DEF Crash, Running
  <2> QED
    BY <2>1, GovernedStays, <1>G DEF GuardInv, PastGuard, TypeOK
<1>6. CASE UNCHANGED vars
  BY <1>6 DEF vars, callVars, GuardInv, Governed, Journaled
<1> QED
  BY <1>1, <1>2, <1>3, <1>4, <1>5, <1>6 DEF Next

\* Whatever fails, is interrupted or dies, on whatever thread, a write has
\* reached the data plane only if every behaviour was asked, none said BLOCK
\* and every firing is in the Journal.
THEOREM NoWriteIsUngoverned == Spec => []NoUngovernedWrite
<1>1. GuardInv => NoUngovernedWrite
  BY DEF GuardInv, NoUngovernedWrite, Governed
<1> QED
  BY <1>1, InitGuarded, NextGuarded, GuardTypeCorrect, PTL DEF Spec

-----------------------------------------------------------------------------
(* The records *)

\* The locations in which there can be a record of a call.
PastRecord == {"finally", "flush", "returned", "raised", "settled", "dead"}

\* One call at a time runs on a thread.
OneAtATime ==
    \A c, d \in Call :
        pc[c] \in Running /\ pc[d] \in Running /\ ThreadOf[c] = ThreadOf[d] => c = d

\* What is said of an execution is true, and nothing more will be said of it.
Sound(e) ==
    /\ \E o \in Outcomes : e = Execution(e.call, o)
    /\ e.result = "COMMITTED" => e.call \in effects
    /\ Governed(e.call)
    /\ pc[e.call] \in PastRecord
    /\ KindOf[e.call] = "async" /\ pc[e.call] \in {"finally", "flush"} => exc[e.call] # "none"

SoundEntries == {e \in Entry : Sound(e)}

\* The calls of which nothing in the Journal says what came.
Unjournaled ==
    {c \in Call : \A k \in DOMAIN journal :
        ~(journal[k].kind = "execution" /\ journal[k].call = c)}

Distinct(s) == \A j, k \in DOMAIN s : s[j].call = s[k].call => j = k

\* The records are sound.
RecordsInv ==
    /\ \A k \in DOMAIN executions : executions[k] \in SoundEntries
    /\ \A c \in Call : \A k \in DOMAIN todo[c] : todo[c][k] \in SoundEntries
    /\ \A k \in DOMAIN journal : journal[k].kind = "execution" => journal[k] \in SoundEntries

\* What a call on the thread of the Journal is about to journal, or will be
\* once it comes to `finally`, is not yet there.
Fresh(c) ==
    ThreadOf[c] = Owner =>
        /\ pc[c] \in {"run", "record", "finally"} =>
            \A k \in DOMAIN executions : k > before[c] => executions[k].call \in Unjournaled
        /\ pc[c] = "flush" =>
            /\ \A k \in DOMAIN todo[c] : todo[c][k].call \in Unjournaled
            /\ Distinct(todo[c])

FreshInv == Distinct(executions) /\ \A c \in Call : Fresh(c)

\* The exception and the outcome, as far as the call has got.
Progress(c) ==
    /\ pc[c] \in {"ready", "dispatch", "invoke", "run", "returned"} => exc[c] = "none"
    /\ pc[c] = "record" =>
        /\ KindOf[c] # "read"
        /\ \/ /\ exc[c] = "none"
              /\ KindOf[c] = "write"
              /\ outcome[c] = "COMMITTED"
              /\ c \in effects
           \/ exc[c] = "client" /\ outcome[c] = "FAILED"
    /\ pc[c] \in {"run", "record", "finally"} => before[c] <= Len(executions)

ProgressInv == \A c \in Call : Progress(c)

\* The outcome that `finally` owes the Journal.
Owes(c, o) ==
    \/ exc[c] = "none" /\ KindOf[c] = "write" /\ o = "COMMITTED"
    \/ exc[c] = "client" /\ o = "FAILED"

\* The record is on its way, or there.
Coming(c, e) ==
    \/ pc[c] = "finally" /\ \E k \in DOMAIN executions : k > before[c] /\ executions[k] = e
    \/ pc[c] = "flush" /\ \E k \in DOMAIN todo[c] : todo[c][k] = e
    \/ pc[c] \in {"flush", "returned", "raised"} /\ Journaled(e)

OwesInv ==
    \A c \in Call, o \in Outcomes :
        pc[c] \in {"finally", "flush", "returned", "raised"} /\ Owes(c, o)
            => Coming(c, Execution(c, o))

DeniedInv ==
    \A c \in Call : pc[c] = "denied" =>
        \E i \in 1 .. Behaviours : Journaled(Firing(c, i, "BLOCK"))

\* One of these steps is one call's.
Step(c) == DispatchStep(c) \/ RunStep(c) \/ FinallyStep(c) \/ AsyncStep(c)

LEMMA NextIsStep == [Next]_vars => (\E c \in Call : Step(c)) \/ Crash \/ UNCHANGED vars
BY DEF Next, Step

\* What the steps of a call leave alone of another.
LEMMA OthersStay ==
    ASSUME TypeOK, NEW c \in Call, Step(c), NEW d \in Call, d # c
    PROVE  /\ pc'[d] = pc[d] /\ next'[d] = next[d] /\ fired'[d] = fired[d]
           /\ outcome'[d] = outcome[d] /\ before'[d] = before[d]
           /\ todo'[d] = todo[d] /\ exc'[d] = exc[d]
<1>1. ASSUME DispatchStep(c)
      PROVE  /\ pc'[d] = pc[d] /\ next'[d] = next[d] /\ fired'[d] = fired[d]
             /\ UNCHANGED <<outcome, before, todo>> /\ exc'[d] = exc[d]
  BY <1>1 DEF DispatchStep, Start, Skip, DispatchRaises, Decide, Fire, FireRaises, Goto, TypeOK
<1>2. ASSUME RunStep(c)
      PROVE  /\ pc'[d] = pc[d] /\ outcome'[d] = outcome[d] /\ before'[d] = before[d]
             /\ UNCHANGED <<next, fired, todo>> /\ exc'[d] = exc[d]
  BY <1>2 DEF RunStep, Invoke, Read, RunInterrupted, RunSucceeds, RunFails, RunStarts,
              Record, Goto, TypeOK
<1>3. ASSUME FinallyStep(c)
      PROVE  /\ pc'[d] = pc[d] /\ before'[d] = before[d] /\ todo'[d] = todo[d]
             /\ UNCHANGED <<next, fired, outcome>> /\ exc'[d] = exc[d]
  BY <1>3 DEF FinallyStep, Finally, Flush, FlushRaises, Return, Forget, Goto, TypeOK
<1>4. ASSUME AsyncStep(c)
      PROVE  /\ pc'[d] = pc[d] /\ outcome'[d] = outcome[d]
             /\ UNCHANGED <<next, fired, before, todo, exc>>
  BY <1>4 DEF AsyncStep, AsyncWrite, Settle, callVars, Goto, TypeOK
<1> QED
  BY <1>1, <1>2, <1>3, <1>4 DEF Step

\* What is done to the data plane stays done.
LEMMA EffectsStay == [Next]_vars => effects \subseteq effects'
<1>1. ASSUME NEW c \in Call, Step(c) PROVE effects \subseteq effects'
  BY <1>1 DEF Step, DispatchStep, Start, Skip, DispatchRaises, Decide, Fire, FireRaises,
     RunStep, Invoke, Read, RunInterrupted, RunSucceeds, RunFails, RunStarts, Record,
     FinallyStep, Finally, Flush, FlushRaises, Return,
     AsyncStep, AsyncWrite, Settle
<1> QED
  BY <1>1, NextIsStep DEF Crash, vars

\* Where a step takes a call that runs on, or has come to its end.
LEMMA StepGoes ==
    ASSUME TypeOK, NEW c \in Call, Step(c)
    PROVE  /\ pc[c] \notin Over
           /\ pc[c] \in PastRecord =>
                /\ pc[c] \in {"finally", "flush"}
                /\ UNCHANGED <<next, fired, executions, effects, outcome>>
                /\ pc'[c] \in {"flush", "raised", "returned", "awaiting"}
                /\ pc'[c] = "flush" => exc' = exc
                /\ pc'[c] = "awaiting" => KindOf[c] = "async" /\ exc[c] = "none"
           /\ pc[c] = "awaiting" => pc'[c] \in {"awaiting", "settled"}
<1> USE DEF TypeOK, Goto, PastRecord, Over
<1>1. CASE DispatchStep(c)
  BY <1>1 DEF DispatchStep, Start, Skip, DispatchRaises, Decide, Fire, FireRaises
<1>2. CASE RunStep(c)
  BY <1>2 DEF RunStep, Invoke, Read, RunInterrupted, RunSucceeds, RunFails, RunStarts, Record
<1>3. CASE FinallyStep(c)
  BY <1>3 DEF FinallyStep, Finally, Flush, FlushRaises, Return
<1>4. CASE AsyncStep(c)
  BY <1>4 DEF AsyncStep, AsyncWrite, Settle, callVars
<1> QED
  BY <1>1, <1>2, <1>3, <1>4 DEF Step

LEMMA NextOneAtATime == TypeOK /\ OneAtATime /\ [Next]_vars => OneAtATime'
<1> SUFFICES ASSUME TypeOK, OneAtATime, [Next]_vars PROVE OneAtATime'
  OBVIOUS
<1>1. ASSUME NEW c \in Call, Step(c) PROVE OneAtATime'
  <2>1. pc'[c] \in Running => pc[c] \in Running \/ Idle(ThreadOf[c])
    <3>1. DispatchStep(c) => pc[c] \in Running \/ Idle(ThreadOf[c])
      BY DEF DispatchStep, Start, Skip, DispatchRaises, Decide, Fire, FireRaises, Running
    <3>2. RunStep(c) \/ FinallyStep(c) => pc[c] \in Running
      BY DEF RunStep, Invoke, Read, RunInterrupted, RunSucceeds, RunFails, RunStarts, Record,
             FinallyStep, Finally, Flush, FlushRaises, Return, Running
    <3>3. AsyncStep(c) => pc[c] = "awaiting"
      BY DEF AsyncStep, AsyncWrite, Settle
    <3> QED
      BY <1>1, <3>1, <3>2, <3>3, StepGoes DEF Step, Running
  <2>2. \A d \in Call : d # c => pc'[d] = pc[d]
    BY <1>1, OthersStay
  <2> QED
    BY <2>1, <2>2 DEF OneAtATime, Idle
<1>2. CASE Crash
  BY <1>2 DEF Crash, OneAtATime, Running
<1>3. CASE UNCHANGED vars
  BY <1>3 DEF vars, callVars, OneAtATime
<1> QED
  BY <1>1, <1>2, <1>3, NextIsStep

-----------------------------------------------------------------------------
(* What a step adds to the sequences *)

LEMMA Appended ==
    ASSUME NEW S, NEW s \in Seq(S), NEW e \in S, NEW t, t = Append(s, e)
    PROVE  /\ Len(s) \in Nat /\ DOMAIN s = 1 .. Len(s)
           /\ Len(t) = Len(s) + 1 /\ DOMAIN t = 1 .. Len(s) + 1
           /\ \A k \in DOMAIN s : t[k] = s[k]
           /\ t[Len(s) + 1] = e
<1>1. t \in Seq(S)
  BY AppendProperties
<1> QED
  BY <1>1, AppendProperties, LenProperties

\* The step of c that journals a record.
Flushes(c) ==
    /\ Flush(c) \/ FlushRaises(c)
    /\ ThreadOf[c] = Owner
    /\ journal' = Append(journal, Head(todo[c]))

LEMMA NewEntry ==
    ASSUME TypeOK, [Next]_vars
    PROVE  \/ UNCHANGED journal
           \/ \E e \in Entry : e.kind = "behaviour" /\ journal' = Append(journal, e)
           \/ \E c \in Call : Flushes(c)
<1>1. ASSUME NEW c \in Call, DispatchStep(c)
      PROVE  \/ UNCHANGED journal
             \/ \E e \in Entry : e.kind = "behaviour" /\ journal' = Append(journal, e)
  <2>1. ASSUME NEW v \in Verdict, Fire(c, v) \/ FireRaises(c, v)
        PROVE  \/ UNCHANGED journal
               \/ \E e \in Entry : e.kind = "behaviour" /\ journal' = Append(journal, e)
    <3>1. next[c] \in 1 .. Behaviours
      BY <2>1, GuardAssumption DEF TypeOK, Fire, FireRaises
    <3>2. Firing(c, next[c], v) \in Entry /\ Firing(c, next[c], v).kind = "behaviour"
      BY <3>1, EntryTyped DEF Firing
    <3>3. UNCHANGED journal \/ journal' = Append(journal, Firing(c, next[c], v))
      BY <2>1 DEF Fire, FireRaises, AppendRaises, AppendReturns
    <3> QED
      BY <3>2, <3>3
  <2> QED
    BY <1>1, <2>1 DEF DispatchStep, Start, Skip, DispatchRaises, Decide
<1>2. ASSUME NEW c \in Call, RunStep(c) \/ AsyncStep(c) PROVE UNCHANGED journal
  BY <1>2 DEF RunStep, Invoke, Read, RunInterrupted, RunSucceeds, RunFails, RunStarts, Record,
              AsyncStep, AsyncWrite, Settle
<1>3. ASSUME NEW c \in Call, FinallyStep(c) PROVE UNCHANGED journal \/ Flushes(c)
  BY <1>3 DEF FinallyStep, Finally, Flush, FlushRaises, Return, Flushes, AppendRaises,
              AppendReturns
<1> QED
  BY <1>1, <1>2, <1>3, NextIsStep DEF Step, Crash, vars

\* The step of c that notes what came of its write.
Notes(c, o) ==
    /\ \/ Record(c) /\ o = outcome[c]
       \/ Settle(c, o)
    /\ executions' = Append(executions, Execution(c, o))

LEMMA NewExecution ==
    ASSUME TypeOK, NEW c \in Call, Step(c)
    PROVE  UNCHANGED executions \/ \E o \in Outcomes : Notes(c, o)
<1>1. ASSUME DispatchStep(c) \/ FinallyStep(c) PROVE UNCHANGED executions
  BY <1>1 DEF DispatchStep, Start, Skip, DispatchRaises, Decide, Fire, FireRaises,
              FinallyStep, Finally, Flush, FlushRaises, Return
<1>2. ASSUME RunStep(c)
      PROVE  UNCHANGED executions \/ \E o \in Outcomes : Notes(c, o)
  <2>1. outcome[c] \in Outcomes
    BY DEF TypeOK
  <2>2. Record(c) => Notes(c, outcome[c])
    BY DEF Record, Notes
  <2>3. Record(c) \/ UNCHANGED executions
    BY <1>2 DEF RunStep, Invoke, Read, RunInterrupted, RunSucceeds, RunFails, RunStarts
  <2> QED
    BY <2>1, <2>2, <2>3
<1>3. ASSUME AsyncStep(c)
      PROVE  UNCHANGED executions \/ \E o \in Outcomes : Notes(c, o)
  BY <1>3 DEF AsyncStep, AsyncWrite, Settle, Notes
<1> QED
  BY <1>1, <1>2, <1>3 DEF Step

\* What `finally` takes of the records.
LEMMA Slice ==
    ASSUME TypeOK, NEW c \in Call, Finally(c)
    PROVE  /\ \A k \in DOMAIN todo'[c] :
                /\ before[c] + k \in DOMAIN executions
                /\ todo'[c][k] = executions[before[c] + k]
           /\ \A k \in DOMAIN executions : k > before[c] =>
                /\ k - before[c] \in DOMAIN todo'[c]
                /\ todo'[c][k - before[c]] = executions[k]
<1> DEFINE b == before[c]
           n == Len(executions)
           t == SubSeq(executions, b + 1, n)
<1>1. /\ b \in Nat /\ n \in Nat /\ DOMAIN executions = 1 .. n
      /\ \A i \in 1 .. n : executions[i] \in Entry
  BY LenProperties, ElementOfSeq DEF TypeOK
<1>2. /\ t \in Seq(Entry)
      /\ Len(t) = IF b + 1 <= n THEN n - (b + 1) + 1 ELSE 0
      /\ \A i \in 1 .. n - (b + 1) + 1 : t[i] = executions[b + 1 + i - 1]
  <2> HIDE DEF b, n
  <2>1. \A i \in b + 1 .. n : executions[i] \in Entry
    BY <1>1
  <2> QED
    BY <1>1, <2>1, SubSeqProperties
<1>3. DOMAIN t = 1 .. Len(t)
  BY <1>2, LenProperties
<1>4. todo'[c] = t
  BY DEF Finally, TypeOK
<1> HIDE DEF t, n, b
<1>5. \A k \in DOMAIN t : b + k \in DOMAIN executions /\ t[k] = executions[b + k]
  BY <1>1, <1>2, <1>3
<1>6. \A k \in DOMAIN executions : k > b => k - b \in DOMAIN t /\ t[k - b] = executions[k]
  BY <1>1, <1>2, <1>3
<1> QED
  BY <1>4, <1>5, <1>6 DEF b

\* What is left to journal when one record is.
LEMMA Rest ==
    ASSUME TypeOK, NEW c \in Call, todo[c] # << >>
    PROVE  /\ 1 \in DOMAIN todo[c] /\ Head(todo[c]) = todo[c][1]
           /\ \A k \in DOMAIN Tail(todo[c]) :
                k + 1 \in DOMAIN todo[c] /\ k + 1 > 1 /\ Tail(todo[c])[k] = todo[c][k + 1]
           /\ \A k \in DOMAIN todo[c] : k # 1 =>
                k - 1 \in DOMAIN Tail(todo[c]) /\ Tail(todo[c])[k - 1] = todo[c][k]
<1> DEFINE s == todo[c]
<1>1. s \in Seq(Entry) /\ s # << >>
  BY DEF TypeOK
<1> HIDE DEF s
<1>2. /\ DOMAIN s = 1 .. Len(s) /\ Len(s) \in Nat \ {0} /\ Head(s) = s[1]
  BY <1>1, LenProperties, EmptySeq
<1>3. /\ Tail(s) \in Seq(Entry) /\ Len(Tail(s)) = Len(s) - 1
      /\ \A i \in 1 .. Len(Tail(s)) : Tail(s)[i] = s[i + 1]
  BY <1>1, HeadTailProperties
<1>4. DOMAIN Tail(s) = 1 .. Len(s) - 1
  BY <1>3, LenProperties
<1> QED
  BY <1>2, <1>3, <1>4 DEF s

LEMMA NewTodo ==
    ASSUME TypeOK, NEW c \in Call, Step(c), NEW d \in Call, NEW k \in DOMAIN todo'[d]
    PROVE  \/ \E j \in DOMAIN todo[d] : todo'[d][k] = todo[d][j]
           \/ \E j \in DOMAIN executions : todo'[d][k] = executions[j]
<1>1. CASE d # c \/ UNCHANGED todo
  BY <1>1, OthersStay
<1>2. CASE d = c /\ Finally(c)
  BY <1>2, Slice
<1>3. CASE d = c /\ Flush(c)
  <2>1. todo'[c] = Tail(todo[c]) /\ todo[c] # << >>
    BY <1>3 DEF Flush, TypeOK
  <2> QED
    BY <1>3, <2>1, Rest
<1>4. CASE d = c /\ Forget(c)
  <2>1. todo'[c] = << >>
    BY <1>4 DEF Forget, TypeOK
  <2> QED
    BY <1>4, <2>1
<1>5. UNCHANGED todo \/ Finally(c) \/ Flush(c) \/ Forget(c)
  <2>1. DispatchStep(c) \/ RunStep(c) \/ AsyncStep(c) => UNCHANGED todo
    BY DEF DispatchStep, Start, Skip, DispatchRaises, Decide, Fire, FireRaises,
           RunStep, Invoke, Read, RunInterrupted, RunSucceeds, RunFails, RunStarts, Record,
           AsyncStep, AsyncWrite, Settle, callVars
  <2>2. FinallyStep(c) => Finally(c) \/ Flush(c) \/ Forget(c)
    BY DEF FinallyStep, FlushRaises, Return
  <2> QED
    BY <2>1, <2>2 DEF Step
<1> QED
  BY <1>1, <1>2, <1>3, <1>4, <1>5

-----------------------------------------------------------------------------
(* The records are sound *)

LEMMA SoundStays ==
    ASSUME TypeOK, [Next]_vars
    PROVE  SoundEntries \subseteq SoundEntries'
<1> SUFFICES ASSUME NEW e \in Entry, Sound(e) PROVE Sound(e)'
  BY DEF SoundEntries
<1> DEFINE c == e.call
<1>G. JournalGrows /\ effects \subseteq effects'
  BY NextGrows, EffectsStay
<1> HIDE DEF c
<1>0. /\ c \in Call /\ Governed(c) /\ pc[c] \in PastRecord
      /\ KindOf[c] = "async" /\ pc[c] \in {"finally", "flush"} => exc[c] # "none"
  BY DEF c, Sound, Entry
<1>1. /\ next'[c] = next[c] /\ fired'[c] = fired[c] /\ pc'[c] \in PastRecord
      /\ KindOf[c] = "async" /\ pc'[c] \in {"finally", "flush"} => exc'[c] # "none"
  <2>1. ASSUME NEW d \in Call, Step(d), d # c
        PROVE  pc'[c] = pc[c] /\ next'[c] = next[c] /\ fired'[c] = fired[c] /\ exc'[c] = exc[c]
    BY <1>0, <2>1, OthersStay
  <2>2. CASE Step(c)
    <3>1. /\ pc[c] \in {"finally", "flush"}
          /\ UNCHANGED <<next, fired>>
          /\ pc'[c] \in {"flush", "raised", "returned", "awaiting"}
          /\ pc'[c] = "flush" => exc' = exc
          /\ pc'[c] = "awaiting" => KindOf[c] = "async" /\ exc[c] = "none"
      BY <1>0, <2>2, StepGoes
    <3> QED
      BY <1>0, <3>1 DEF PastRecord
  <2>3. CASE Crash
    BY <1>0, <2>3 DEF Crash, PastRecord
  <2>4. CASE UNCHANGED vars
    BY <1>0, <2>4 DEF vars, callVars
  <2> QED
    BY <1>0, <2>1, <2>2, <2>3, <2>4, NextIsStep
<1>2. Governed(c)'
  BY <1>G, <1>0, <1>1, GovernedStays
<1> QED
  BY <1>G, <1>1, <1>2 DEF Sound, c

\* What comes of a write is noted with what came of it.
LEMMA NotesSound ==
    ASSUME TypeOK, GuardInv, ProgressInv, [Next]_vars, NEW c \in Call, NEW o \in Outcomes,
           Notes(c, o)
    PROVE  /\ pc[c] \notin PastRecord
           /\ Execution(c, o) \in SoundEntries'
<1>1. pc[c] \in PastGuard /\ pc[c] \notin PastRecord
  BY DEF Notes, Record, Settle, PastGuard, PastRecord
<1>2. Governed(c)'
  <2>1. Governed(c) /\ next' = next /\ fired' = fired
    BY <1>1 DEF GuardInv, Notes, Record, Settle
  <2> QED
    BY <2>1, NextGrows, GovernedStays
<1>3. /\ pc'[c] \in {"finally", "settled"}
      /\ o = "COMMITTED" => c \in effects'
      /\ KindOf[c] = "async" /\ pc'[c] = "finally" => exc'[c] # "none"
  <2>1. CASE Record(c) /\ o = outcome[c]
    <3>1. \/ KindOf[c] # "async" /\ c \in effects
          \/ exc[c] = "client" /\ outcome[c] = "FAILED"
      BY <2>1 DEF ProgressInv, Progress, Record
    <3> QED
      BY <2>1, <3>1 DEF Record, Goto, TypeOK
  <2>2. CASE Settle(c, o)
    BY <2>2 DEF Settle, Goto, TypeOK
  <2> QED
    BY <2>1, <2>2 DEF Notes
<1> DEFINE e == Execution(c, o)
<1>4. e.call = c /\ e.result = o /\ e = Execution(c, o) /\ e \in Entry
  BY EntryTyped DEF Execution
<1> HIDE DEF e
<1>5. Sound(e)'
  BY <1>2, <1>3, <1>4 DEF Sound, PastRecord
<1> QED
  BY <1>1, <1>4, <1>5 DEF e, SoundEntries

LEMMA NextRecords ==
    TypeOK /\ GuardInv /\ ProgressInv /\ RecordsInv /\ [Next]_vars => RecordsInv'
<1> SUFFICES ASSUME TypeOK, GuardInv, ProgressInv, RecordsInv, [Next]_vars
             PROVE  RecordsInv'
  OBVIOUS
<1>S. SoundEntries \subseteq SoundEntries'
  BY SoundStays
<1>1. ASSUME NEW c \in Call, Step(c)
      PROVE  \A k \in DOMAIN executions' : executions'[k] \in SoundEntries'
  <2>1. CASE UNCHANGED executions
    BY <1>S, <2>1 DEF RecordsInv
  <2>2. ASSUME NEW o \in Outcomes, Notes(c, o)
        PROVE  \A k \in DOMAIN executions' : executions'[k] \in SoundEntries'
    <3>1. Execution(c, o) \in SoundEntries' /\ Execution(c, o) \in Entry
      BY <2>2, NotesSound, EntryTyped
    <3>2. executions' = Append(executions, Execution(c, o)) /\ executions \in Seq(Entry)
      BY <2>2 DEF Notes, TypeOK
    <3>3. /\ DOMAIN executions = 1 .. Len(executions) /\ Len(executions) \in Nat
          /\ DOMAIN executions' = 1 .. Len(executions) + 1
          /\ \A k \in DOMAIN executions : executions'[k] = executions[k]
          /\ executions'[Len(executions) + 1] = Execution(c, o)
      BY <3>1, <3>2, Appended
    <3> QED
      BY <1>S, <3>1, <3>3 DEF RecordsInv
  <2> QED
    BY <1>1, <2>1, <2>2, NewExecution
<1>2. ASSUME NEW c \in Call, Step(c), NEW d \in Call, NEW k \in DOMAIN todo'[d]
      PROVE  todo'[d][k] \in SoundEntries'
  BY <1>2, <1>S, NewTodo DEF RecordsInv
<1>3. \A k \in DOMAIN journal' : journal'[k].kind = "execution" => journal'[k] \in SoundEntries'
  <2>1. CASE UNCHANGED journal
    BY <1>S, <2>1 DEF RecordsInv
  <2>2. ASSUME NEW e \in Entry, journal' = Append(journal, e),
               e.kind = "execution" => e \in SoundEntries'
        PROVE  \A k \in DOMAIN journal' :
                    journal'[k].kind = "execution" => journal'[k] \in SoundEntries'
    <3>1. /\ DOMAIN journal = 1 .. Len(journal) /\ Len(journal) \in Nat
          /\ DOMAIN journal' = 1 .. Len(journal) + 1
          /\ \A k \in DOMAIN journal : journal'[k] = journal[k]
          /\ journal'[Len(journal) + 1] = e
      BY <2>2, Appended DEF TypeOK
    <3> QED
      BY <1>S, <2>2, <3>1 DEF RecordsInv
  <2>3. ASSUME NEW c \in Call, Flushes(c)
        PROVE  \E e \in Entry : e \in SoundEntries' /\ journal' = Append(journal, e)
    <3>1. todo[c] # << >> /\ journal' = Append(journal, Head(todo[c]))
      BY <2>3 DEF Flushes, Flush, FlushRaises
    <3>2. Head(todo[c]) \in SoundEntries
      BY <3>1, Rest DEF RecordsInv
    <3>3. Head(todo[c]) \in Entry
      BY <3>2 DEF SoundEntries
    <3> QED
      BY <1>S, <3>1, <3>2, <3>3
  <2>4. ASSUME NEW e \in Entry, e.kind = "behaviour", journal' = Append(journal, e)
        PROVE  \A k \in DOMAIN journal' :
                    journal'[k].kind = "execution" => journal'[k] \in SoundEntries'
    BY <2>2, <2>4
  <2> QED
    BY <2>1, <2>2, <2>3, <2>4, NewEntry
<1>4. CASE Crash
  BY <1>3, <1>4 DEF Crash, RecordsInv
<1>5. CASE UNCHANGED vars
  BY <1>S, <1>5 DEF vars, callVars, RecordsInv
<1>6. ASSUME NEW c \in Call, Step(c) PROVE RecordsInv'
  BY <1>1, <1>2, <1>3, <1>6 DEF RecordsInv
<1> QED
  BY <1>4, <1>5, <1>6, NextIsStep

-----------------------------------------------------------------------------
(* Nothing is journaled twice *)

\* What of the Journal a call has to itself: nothing says what came of c
\* until a call flushes just that record.
LEMMA UnjournaledStays ==
    ASSUME TypeOK, [Next]_vars
    PROVE  \/ Unjournaled \subseteq Unjournaled'
           \/ \E c \in Call : /\ Flushes(c)
                              /\ Unjournaled \ {Head(todo[c]).call} \subseteq Unjournaled'
<1>1. CASE UNCHANGED journal
  BY <1>1 DEF Unjournaled
<1>2. ASSUME NEW e \in Entry, journal' = Append(journal, e)
      PROVE  /\ Unjournaled \ {e.call} \subseteq Unjournaled'
             /\ e.kind = "behaviour" => Unjournaled \subseteq Unjournaled'
  <2>1. /\ DOMAIN journal = 1 .. Len(journal) /\ Len(journal) \in Nat
        /\ DOMAIN journal' = 1 .. Len(journal) + 1
        /\ \A k \in DOMAIN journal : journal'[k] = journal[k]
        /\ journal'[Len(journal) + 1] = e
    BY <1>2, Appended DEF TypeOK
  <2> QED
    BY <2>1 DEF Unjournaled
<1>3. ASSUME NEW c \in Call, Flushes(c)
      PROVE  Unjournaled \ {Head(todo[c]).call} \subseteq Unjournaled'
  <2>1. todo[c] # << >> /\ journal' = Append(journal, Head(todo[c]))
    BY <1>3 DEF Flushes, Flush, FlushRaises
  <2>2. Head(todo[c]) \in Entry
    BY <2>1, HeadTailProperties DEF TypeOK
  <2> QED
    BY <1>2, <2>1, <2>2
<1> QED
  BY <1>1, <1>2, <1>3, NewEntry

\* A call of which there is no record yet.
LEMMA NoRecordYet ==
    ASSUME TypeOK, RecordsInv, NEW c \in Call, pc[c] \notin PastRecord
    PROVE  /\ c \in Unjournaled
           /\ \A k \in DOMAIN executions : executions[k].call # c
BY DEF RecordsInv, SoundEntries, Sound, Unjournaled

LEMMA NextDistinct ==
    ASSUME TypeOK, GuardInv, ProgressInv, RecordsInv, [Next]_vars, Distinct(executions)
    PROVE  Distinct(executions)'
<1>1. ASSUME NEW c \in Call, NEW o \in Outcomes, Notes(c, o)
      PROVE  Distinct(executions)'
  <2>1. /\ pc[c] \notin PastRecord
        /\ executions' = Append(executions, Execution(c, o))
        /\ Execution(c, o) \in Entry
    BY <1>1, NotesSound, EntryTyped DEF Notes
  <2>2. \A k \in DOMAIN executions : executions[k].call # c
    BY <2>1, NoRecordYet
  <2>3. /\ DOMAIN executions = 1 .. Len(executions) /\ Len(executions) \in Nat
        /\ DOMAIN executions' = 1 .. Len(executions) + 1
        /\ \A k \in DOMAIN executions : executions'[k] = executions[k]
        /\ executions'[Len(executions) + 1] = Execution(c, o)
    BY <2>1, Appended DEF TypeOK
  <2>4. Execution(c, o).call = c
    BY DEF Execution
  <2> QED
    BY <2>2, <2>3, <2>4 DEF Distinct
<1>2. CASE UNCHANGED executions
  BY <1>2 DEF Distinct
<1>3. CASE Crash
  BY <1>3 DEF Crash, Distinct
<1> QED
  BY <1>1, <1>2, <1>3, NextIsStep, NewExecution DEF vars

\* A call between its start and its end, on the thread of the Journal, is the
\* only one there, and nobody but it journals what it has to journal.
LEMMA OwnerAlone ==
    ASSUME TypeOK, OneAtATime, [Next]_vars, NEW d \in Call, ThreadOf[d] = Owner,
           pc[d] \in Running, ~Flushes(d)
    PROVE  Unjournaled \subseteq Unjournaled'
<1>1. ASSUME NEW c \in Call, Flushes(c) PROVE c = d
  BY <1>1 DEF Flushes, Flush, FlushRaises, Running, OneAtATime
<1> QED
  BY <1>1, UnjournaledStays

\* How the records a call on that thread has yet to take change.
LEMMA FreshTail ==
    ASSUME TypeOK, OneAtATime, GuardInv, ProgressInv, RecordsInv, FreshInv,
           [Next]_vars, NEW d \in Call, ThreadOf[d] = Owner,
           pc[d] \in {"run", "record", "finally"},
           before'[d] = before[d], pc'[d] # "dead",
           NEW k \in DOMAIN executions', k > before[d]
    PROVE  executions'[k].call \in Unjournaled'
<1>1. Unjournaled \subseteq Unjournaled'
  <2>1. ~Flushes(d) /\ pc[d] \in Running
    BY DEF Flushes, Flush, FlushRaises, Running
  <2> QED
    BY <2>1, OwnerAlone
<1>2. \A j \in DOMAIN executions : j > before[d] => executions[j].call \in Unjournaled
  BY DEF FreshInv, Fresh
<1>3. CASE UNCHANGED executions
  BY <1>1, <1>2, <1>3
<1>4. ASSUME NEW c \in Call, NEW o \in Outcomes, Notes(c, o)
      PROVE  executions'[k].call \in Unjournaled'
  <2>1. /\ pc[c] \notin PastRecord
        /\ executions' = Append(executions, Execution(c, o))
        /\ Execution(c, o) \in Entry
    BY <1>4, NotesSound, EntryTyped DEF Notes
  <2>2. c \in Unjournaled
    BY <2>1, NoRecordYet
  <2>3. /\ DOMAIN executions = 1 .. Len(executions) /\ Len(executions) \in Nat
        /\ DOMAIN executions' = 1 .. Len(executions) + 1
        /\ \A j \in DOMAIN executions : executions'[j] = executions[j]
        /\ executions'[Len(executions) + 1] = Execution(c, o)
    BY <2>1, Appended DEF TypeOK
  <2>4. Execution(c, o).call = c
    BY DEF Execution
  <2> QED
    BY <1>1, <1>2, <2>2, <2>3, <2>4
<1>5. ~Crash
  BY DEF Crash, TypeOK, Running
<1> QED
  BY <1>3, <1>4, <1>5, NextIsStep, NewExecution DEF vars

\* What is left to journal: not yet journaled, each once.
LEMMA FreshTodo ==
    ASSUME TypeOK, OneAtATime, FreshInv, [Next]_vars, NEW d \in Call, ThreadOf[d] = Owner,
           pc[d] = "flush", pc'[d] = "flush"
    PROVE  /\ \A k \in DOMAIN todo'[d] : todo'[d][k].call \in Unjournaled'
           /\ Distinct(todo'[d])
<1>1. /\ \A k \in DOMAIN todo[d] : todo[d][k].call \in Unjournaled
      /\ Distinct(todo[d])
  BY DEF FreshInv, Fresh
<1>2. CASE Flush(d)
  <2>1. todo'[d] = Tail(todo[d]) /\ todo[d] # << >>
    BY <1>2 DEF Flush, TypeOK
  <2>2. /\ 1 \in DOMAIN todo[d] /\ Head(todo[d]) = todo[d][1]
        /\ \A k \in DOMAIN Tail(todo[d]) :
             k + 1 \in DOMAIN todo[d] /\ k + 1 > 1 /\ Tail(todo[d])[k] = todo[d][k + 1]
    BY <2>1, Rest
  <2>3. \A k \in DOMAIN Tail(todo[d]) : Tail(todo[d])[k].call # Head(todo[d]).call
    BY <1>1, <2>2 DEF Distinct
  <2>4. \A k \in DOMAIN Tail(todo[d]) : Tail(todo[d])[k].call \in Unjournaled
    BY <1>1, <2>2
  <2>5. Unjournaled \ {Head(todo[d]).call} \subseteq Unjournaled'
    <3>1. ASSUME NEW c \in Call, Flushes(c) PROVE c = d
      BY <3>1 DEF Flushes, Flush, FlushRaises, Running, OneAtATime
    <3> QED
      BY <3>1, UnjournaledStays
  <2>6. DOMAIN Tail(todo[d]) \subseteq Nat
    <3>1. Tail(todo[d]) \in Seq(Entry)
      BY <2>1, HeadTailProperties DEF TypeOK
    <3> QED
      BY <3>1, LenProperties
  <2>7. Distinct(Tail(todo[d]))
    <3>1. ASSUME NEW j \in DOMAIN Tail(todo[d]), NEW k \in DOMAIN Tail(todo[d]),
                 Tail(todo[d])[j].call = Tail(todo[d])[k].call
          PROVE  j = k
      <4>1. j + 1 = k + 1
        BY <1>1, <2>2, <3>1 DEF Distinct
      <4> QED
        BY <2>6, <4>1
    <3> QED
      BY <3>1 DEF Distinct
  <2> QED
    BY <2>1, <2>3, <2>4, <2>5, <2>7
<1>3. CASE ~Flush(d)
  <2>1. ~Flushes(d)
    BY <1>3 DEF Flushes, FlushRaises, Goto, TypeOK
  <2>2. todo'[d] = todo[d]
    <3>1. ASSUME NEW c \in Call, Step(c), c # d PROVE todo'[d] = todo[d]
      BY <3>1, OthersStay
    <3>2. ~Step(d)
      <4>1. ~DispatchStep(d)
        BY DEF DispatchStep, Start, Skip, DispatchRaises, Decide, Fire, FireRaises
      <4>2. ~RunStep(d)
        BY DEF RunStep, Invoke, Read, RunInterrupted, RunSucceeds, RunFails, RunStarts, Record
      <4>3. ~FinallyStep(d)
        BY <1>3 DEF FinallyStep, Finally, FlushRaises, Return, Goto, TypeOK
      <4>4. ~AsyncStep(d)
        BY DEF AsyncStep, AsyncWrite, Settle
      <4> QED
        BY <4>1, <4>2, <4>3, <4>4 DEF Step
    <3>3. ~Crash
      BY DEF Crash, Running, TypeOK
    <3> QED
      BY <3>1, <3>2, <3>3, NextIsStep DEF vars, callVars
  <2>3. Unjournaled \subseteq Unjournaled'
    BY <2>1, OwnerAlone DEF Running
  <2> QED
    BY <1>1, <2>2, <2>3
<1> QED
  BY <1>2, <1>3

\* Where a step may come to a place between `run` and `flush`.
LEMMA ComesTo ==
    ASSUME TypeOK, [Next]_vars, NEW d \in Call
    PROVE  /\ pc'[d] \in {"run", "record", "finally"} =>
                \/ /\ pc[d] = "invoke"
                   /\ before'[d] = Len(executions)
                   /\ pc'[d] = "run"
                   /\ UNCHANGED <<executions, exc, effects>>
                \/ pc[d] \in {"run", "record", "finally"} /\ before'[d] = before[d]
           /\ pc'[d] = "flush" =>
                \/ pc[d] = "flush"
                \/ Finally(d)
<1>1. ASSUME NEW c \in Call, Step(c), c # d
      PROVE  pc'[d] = pc[d] /\ before'[d] = before[d]
  BY <1>1, OthersStay
<1>2. ASSUME DispatchStep(d) PROVE pc'[d] \notin {"run", "record", "finally", "flush"}
  BY <1>2 DEF DispatchStep, Start, Skip, DispatchRaises, Decide, Fire, FireRaises, Goto, TypeOK
<1>3. ASSUME Invoke(d)
      PROVE  /\ pc[d] = "invoke" /\ before'[d] = Len(executions) /\ pc'[d] = "run"
             /\ UNCHANGED <<executions, exc, effects>>
  BY <1>3 DEF Invoke, Goto, TypeOK
<1>4. ASSUME RunStep(d), ~Invoke(d)
      PROVE  /\ pc[d] \in {"run", "record", "finally"} /\ before'[d] = before[d]
             /\ pc'[d] # "flush"
  BY <1>4 DEF RunStep, Read, RunInterrupted, RunSucceeds, RunFails, RunStarts, Record,
              Goto, TypeOK
<1>5. ASSUME FinallyStep(d)
      PROVE  pc'[d] \notin {"run", "record", "finally"} /\ (Finally(d) \/ pc[d] = "flush")
  BY <1>5 DEF FinallyStep, Finally, Flush, FlushRaises, Return, Goto, TypeOK
<1>6. ASSUME AsyncStep(d) PROVE pc'[d] \notin {"run", "record", "finally", "flush"}
  BY <1>6 DEF AsyncStep, AsyncWrite, Settle, callVars, Goto, TypeOK
<1>7. ASSUME Crash PROVE pc'[d] \notin {"run", "record", "finally", "flush"}
  BY <1>7 DEF Crash, Running
<1>8. ASSUME UNCHANGED vars PROVE pc' = pc /\ before' = before
  BY <1>8 DEF vars, callVars
<1> QED
  BY <1>1, <1>2, <1>3, <1>4, <1>5, <1>6, <1>7, <1>8, NextIsStep DEF Step

LEMMA NextFresh ==
    TypeOK /\ OneAtATime /\ GuardInv /\ ProgressInv /\ RecordsInv /\ FreshInv /\ [Next]_vars
        => FreshInv'
<1> SUFFICES ASSUME TypeOK, OneAtATime, GuardInv, ProgressInv, RecordsInv, FreshInv, [Next]_vars
             PROVE  FreshInv'
  OBVIOUS
<1>1. Distinct(executions)'
  BY NextDistinct DEF FreshInv
<1>2. ASSUME NEW d \in Call, ThreadOf[d] = Owner,
             pc'[d] \in {"run", "record", "finally"},
             NEW k \in DOMAIN executions', k > before'[d]
      PROVE  executions'[k].call \in Unjournaled'
  <2>1. CASE before'[d] = Len(executions) /\ UNCHANGED executions
    <3>1. DOMAIN executions = 1 .. Len(executions) /\ Len(executions) \in Nat
      BY LenProperties DEF TypeOK
    <3> QED
      BY <1>2, <2>1, <3>1
  <2>2. CASE pc[d] \in {"run", "record", "finally"} /\ before'[d] = before[d]
    BY <1>2, <2>2, FreshTail
  <2> QED
    BY <1>2, <2>1, <2>2, ComesTo
<1>3. ASSUME NEW d \in Call, ThreadOf[d] = Owner, pc'[d] = "flush"
      PROVE  /\ \A k \in DOMAIN todo'[d] : todo'[d][k].call \in Unjournaled'
             /\ Distinct(todo'[d])
  <2>1. CASE pc[d] = "flush"
    BY <1>3, <2>1, FreshTodo
  <2>2. CASE Finally(d)
    <3>1. /\ \A k \in DOMAIN todo'[d] :
                /\ before[d] + k \in DOMAIN executions
                /\ todo'[d][k] = executions[before[d] + k]
          /\ pc[d] = "finally"
          /\ UNCHANGED journal
      BY <2>2, Slice DEF Finally
    <3>2. todo'[d] \in Seq(Entry) /\ before[d] \in Nat
      BY NextTyped DEF TypeOK
    <3>3. DOMAIN todo'[d] = 1 .. Len(todo'[d]) /\ Len(todo'[d]) \in Nat
      BY <3>2, LenProperties
    <3>4. \A k \in DOMAIN todo'[d] : before[d] + k > before[d]
      BY <3>2, <3>3
    <3>5. \A k \in DOMAIN todo'[d] : todo'[d][k].call \in Unjournaled
      BY <1>3, <3>1, <3>4 DEF FreshInv, Fresh
    <3>6. Unjournaled' = Unjournaled
      BY <3>1 DEF Unjournaled
    <3>7. ASSUME NEW j \in DOMAIN todo'[d], NEW k \in DOMAIN todo'[d],
                 todo'[d][j].call = todo'[d][k].call
          PROVE  j = k
      <4>1. before[d] + j = before[d] + k
        BY <3>1, <3>7 DEF FreshInv, Distinct
      <4> QED
        BY <3>2, <3>3, <4>1
    <3> QED
      BY <3>5, <3>6, <3>7 DEF Distinct
  <2> QED
    BY <1>3, <2>1, <2>2, ComesTo
<1>4. ASSUME NEW d \in Call PROVE Fresh(d)'
  BY <1>2, <1>3 DEF Fresh, Distinct
<1> QED
  BY <1>1, <1>4 DEF FreshInv, Distinct

LEMMA NextOnce ==
    ASSUME TypeOK, FreshInv, ExecutionsJournaledOnce, [Next]_vars
    PROVE  ExecutionsJournaledOnce'
<1>1. ASSUME NEW e \in Entry, journal' = Append(journal, e),
             e.kind = "execution" => e.call \in Unjournaled
      PROVE  ExecutionsJournaledOnce'
  <2>1. /\ DOMAIN journal = 1 .. Len(journal) /\ Len(journal) \in Nat
        /\ DOMAIN journal' = 1 .. Len(journal) + 1
        /\ \A k \in DOMAIN journal : journal'[k] = journal[k]
        /\ journal'[Len(journal) + 1] = e
    BY <1>1, Appended DEF TypeOK
  <2> QED
    BY <1>1, <2>1 DEF ExecutionsJournaledOnce, Unjournaled
<1>2. ASSUME NEW c \in Call, Flushes(c)
      PROVE  \E e \in Entry : e.call \in Unjournaled /\ journal' = Append(journal, e)
  <2>1. /\ todo[c] # << >> /\ journal' = Append(journal, Head(todo[c]))
        /\ pc[c] = "flush" /\ ThreadOf[c] = Owner
    BY <1>2 DEF Flushes, Flush, FlushRaises
  <2>2. Head(todo[c]) \in Entry /\ 1 \in DOMAIN todo[c] /\ Head(todo[c]) = todo[c][1]
    BY <2>1, Rest, HeadTailProperties DEF TypeOK
  <2> QED
    BY <2>1, <2>2 DEF FreshInv, Fresh
<1>3. CASE UNCHANGED journal
  BY <1>3 DEF ExecutionsJournaledOnce
<1> QED
  BY <1>1, <1>2, <1>3, NewEntry

LEMMA NextInOrder ==
    ASSUME TypeOK, RecordsInv, EvidenceInOrder, [Next]_vars
    PROVE  EvidenceInOrder'
<1>E. effects \subseteq effects'
  BY EffectsStay
<1>F. ASSUME NEW c \in Call, pc[c] \in PastRecord PROVE fired'[c] = fired[c]
  <2>1. ASSUME NEW d \in Call, Step(d) PROVE fired'[c] = fired[c]
    BY <1>F, <2>1, OthersStay, StepGoes
  <2> QED
    BY <2>1, NextIsStep DEF Crash, vars, callVars
<1>R. ASSUME NEW k \in DOMAIN journal, journal[k].kind = "execution"
      PROVE  journal[k].call \in Call /\ fired'[journal[k].call] = fired[journal[k].call]
  <2>1. journal[k] \in SoundEntries
    BY <1>R DEF RecordsInv
  <2>2. journal[k].call \in Call /\ pc[journal[k].call] \in PastRecord
    BY <2>1 DEF SoundEntries, Sound, Entry
  <2> QED
    BY <1>F, <2>2
<1>1. CASE UNCHANGED journal
  BY <1>1, <1>E, <1>R DEF EvidenceInOrder
<1>2. ASSUME NEW e \in Entry, journal' = Append(journal, e),
             e.kind = "execution" =>
                /\ e.result = "COMMITTED" => e.call \in effects
                /\ \A f \in fired'[e.call] : Journaled(Firing(e.call, f[1], f[2]))
      PROVE  EvidenceInOrder'
  <2>1. /\ DOMAIN journal = 1 .. Len(journal) /\ Len(journal) \in Nat
        /\ DOMAIN journal' = 1 .. Len(journal) + 1
        /\ \A k \in DOMAIN journal : journal'[k] = journal[k]
        /\ journal'[Len(journal) + 1] = e
    BY <1>2, Appended DEF TypeOK
  <2>2. ASSUME NEW k \in DOMAIN journal, journal[k].kind = "execution"
        PROVE  /\ journal'[k].result = "COMMITTED" => journal'[k].call \in effects'
               /\ \A f \in fired'[journal'[k].call] :
                    \E j \in 1 .. k - 1 : journal'[j] = Firing(journal'[k].call, f[1], f[2])
    <3>1. /\ journal[k].result = "COMMITTED" => journal[k].call \in effects
          /\ \A f \in fired[journal[k].call] :
               \E j \in 1 .. k - 1 : journal[j] = Firing(journal[k].call, f[1], f[2])
      BY <2>2 DEF EvidenceInOrder
    <3>2. 1 .. k - 1 \subseteq DOMAIN journal
      BY <2>1
    <3> QED
      BY <1>E, <1>R, <2>1, <2>2, <3>1, <3>2
  <2>3. ASSUME NEW k, k = Len(journal) + 1, e.kind = "execution"
        PROVE  /\ e.result = "COMMITTED" => e.call \in effects'
               /\ \A f \in fired'[e.call] :
                    \E j \in 1 .. k - 1 : journal'[j] = Firing(e.call, f[1], f[2])
    BY <1>2, <1>E, <2>1, <2>3 DEF Journaled
  <2> QED
    BY <2>1, <2>2, <2>3 DEF EvidenceInOrder
<1>3. ASSUME NEW c \in Call, Flushes(c)
      PROVE  EvidenceInOrder'
  <2>1. todo[c] # << >> /\ journal' = Append(journal, Head(todo[c]))
    BY <1>3 DEF Flushes, Flush, FlushRaises
  <2>2. PICK e : e = Head(todo[c])
    OBVIOUS
  <2>3. e \in SoundEntries
    BY <2>1, <2>2, Rest DEF RecordsInv
  <2>4. /\ e \in Entry /\ e.call \in Call
        /\ e.result = "COMMITTED" => e.call \in effects
        /\ Governed(e.call)
        /\ pc[e.call] \in PastRecord
    BY <2>3 DEF SoundEntries, Sound, Entry
  <2>5. \A f \in fired'[e.call] : Journaled(Firing(e.call, f[1], f[2]))
    BY <1>F, <2>4 DEF Governed
  <2> QED
    BY <1>2, <2>1, <2>2, <2>4, <2>5
<1> QED
  BY <1>1, <1>2, <1>3, NewEntry

-----------------------------------------------------------------------------
(* What `finally` owes is journaled *)

\* Records are only added while a process lives.
LEMMA ExecutionsGrow ==
    ASSUME TypeOK, NEW c \in Call, Step(c)
    PROVE  /\ Len(executions) \in Nat /\ Len(executions') \in Nat
           /\ Len(executions) <= Len(executions')
           /\ DOMAIN executions \subseteq DOMAIN executions'
           /\ \A k \in DOMAIN executions : executions'[k] = executions[k]
<1>0. Len(executions) \in Nat /\ DOMAIN executions = 1 .. Len(executions)
  BY LenProperties DEF TypeOK
<1>1. ASSUME NEW o \in Outcomes, Notes(c, o)
      PROVE  /\ Len(executions') = Len(executions) + 1
             /\ DOMAIN executions' = 1 .. Len(executions) + 1
             /\ \A k \in DOMAIN executions : executions'[k] = executions[k]
  <2>1. executions' = Append(executions, Execution(c, o)) /\ Execution(c, o) \in Entry
    BY <1>1, EntryTyped DEF Notes
  <2> QED
    BY <2>1, Appended DEF TypeOK
<1> QED
  BY <1>0, <1>1, NewExecution

LEMMA NextProgress == TypeOK /\ ProgressInv /\ [Next]_vars => ProgressInv'
<1> SUFFICES ASSUME TypeOK, ProgressInv, [Next]_vars, NEW d \in Call PROVE Progress(d)'
  BY DEF ProgressInv
<1>0. Progress(d)
  BY DEF ProgressInv
<1>E. effects \subseteq effects'
  BY EffectsStay
<1>B. ASSUME NEW c \in Call, Step(c), pc'[d] \in {"run", "record", "finally"}
      PROVE  before'[d] <= Len(executions')
  <2>1. Len(executions) <= Len(executions') /\ Len(executions) \in Nat /\ Len(executions') \in Nat
    BY <1>B, ExecutionsGrow
  <2>2. before[d] \in Nat
    BY DEF TypeOK
  <2>3. CASE before'[d] = Len(executions)
    BY <2>1, <2>3
  <2>4. CASE pc[d] \in {"run", "record", "finally"} /\ before'[d] = before[d]
    BY <2>1, <2>2, <2>4, <1>0 DEF Progress
  <2> QED
    BY <1>B, <2>3, <2>4, ComesTo
<1>1. ASSUME NEW c \in Call, Step(c), c # d PROVE Progress(d)'
  <2>1. pc'[d] = pc[d] /\ exc'[d] = exc[d] /\ outcome'[d] = outcome[d]
    BY <1>1, OthersStay
  <2> QED
    BY <1>0, <1>1, <1>B, <1>E, <2>1 DEF Progress
<1>2. ASSUME Step(d)
      PROVE  /\ pc'[d] \in {"ready", "dispatch", "invoke", "run", "returned"} => exc'[d] = "none"
             /\ pc'[d] = "record" =>
                  /\ KindOf[d] # "read"
                  /\ \/ /\ exc'[d] = "none"
                        /\ KindOf[d] = "write"
                        /\ outcome'[d] = "COMMITTED"
                        /\ d \in effects'
                     \/ exc'[d] = "client" /\ outcome'[d] = "FAILED"
  <2>1. CASE DispatchStep(d)
    BY <1>0, <2>1 DEF DispatchStep, Start, Skip, DispatchRaises, Decide, Fire, FireRaises,
                      Goto, TypeOK, Progress
  <2>2. CASE RunStep(d)
    BY <1>0, <2>2 DEF RunStep, Invoke, Read, RunInterrupted, RunSucceeds, RunFails, RunStarts,
                      Record, Goto, TypeOK, Progress
  <2>3. CASE FinallyStep(d)
    <3>1. /\ pc'[d] \in {"flush", "raised", "awaiting", "returned"}
          /\ pc'[d] = "returned" => exc'[d] = "none"
      BY <2>3 DEF FinallyStep, Finally, Flush, FlushRaises, Return, Goto, TypeOK
    <3> QED
      BY <3>1
  <2>4. CASE AsyncStep(d)
    BY <2>4 DEF AsyncStep, AsyncWrite, Settle, callVars, Goto, TypeOK
  <2> QED
    BY <1>2, <2>1, <2>2, <2>3, <2>4 DEF Step
<1>3. CASE Crash
  BY <1>0, <1>3 DEF Crash, Running, Progress
<1>4. CASE UNCHANGED vars
  BY <1>0, <1>4 DEF vars, callVars, Progress
<1>5. ASSUME Step(d) PROVE Progress(d)'
  BY <1>2, <1>5, <1>B DEF Progress
<1> QED
  BY <1>1, <1>3, <1>4, <1>5, NextIsStep

\* A record on its way, or there, stays so while others move.
LEMMA ComingStays ==
    ASSUME TypeOK, NEW c \in Call, Step(c), NEW d \in Call, d # c, NEW o \in Outcomes,
           Coming(d, Execution(d, o))
    PROVE  Coming(d, Execution(d, o))'
<1>1. pc'[d] = pc[d] /\ before'[d] = before[d] /\ todo'[d] = todo[d]
  BY OthersStay
<1>2. /\ DOMAIN executions \subseteq DOMAIN executions'
      /\ \A k \in DOMAIN executions : executions'[k] = executions[k]
  BY ExecutionsGrow
<1>3. PICK e \in Entry : e = Execution(d, o)
  BY EntryTyped
<1>4. Journaled(e) => Journaled(e)'
  BY NextGrows DEF Next, Step, JournalGrows
<1>5. Coming(d, e)'
  BY <1>1, <1>2, <1>3, <1>4 DEF Coming
<1> QED
  BY <1>3, <1>5

\* The steps of the call itself: the record is made, taken and journaled.
LEMMA OwnComing ==
    ASSUME TypeOK, ProgressInv, OwesInv, NEW d \in Call, Step(d), NEW o \in Outcomes,
           pc'[d] \in {"finally", "flush", "returned", "raised"}, Owes(d, o)'
    PROVE  Coming(d, Execution(d, o))'
<1>0. Progress(d)
  BY DEF ProgressInv
<1>1. PICK e \in Entry : e = Execution(d, o)
  BY EntryTyped
<1>2. CASE DispatchStep(d)
  <2>1. exc'[d] = "other"
    BY <1>2 DEF DispatchStep, Start, Skip, DispatchRaises, Decide, Fire, FireRaises, Goto, TypeOK
  <2> QED
    BY <2>1 DEF Owes
<1>3. CASE RunStep(d)
  <2>1. CASE Record(d)
    <3>1. /\ pc'[d] = "finally" /\ before'[d] = before[d] /\ pc[d] = "record"
          /\ executions' = Append(executions, Execution(d, outcome[d]))
          /\ exc'[d] \in {exc[d], "other"}
      BY <2>1 DEF Record, Goto, TypeOK
    <3>2. outcome[d] = o
      BY <1>0, <3>1 DEF Owes, Progress
    <3>3. executions' = Append(executions, e) /\ before[d] <= Len(executions)
      BY <1>0, <1>1, <3>1, <3>2 DEF Progress
    <3>4. /\ Len(executions) \in Nat /\ DOMAIN executions' = 1 .. Len(executions) + 1
          /\ executions'[Len(executions) + 1] = e
      BY <3>3, Appended DEF TypeOK
    <3>5. before[d] \in Nat /\ Len(executions) + 1 > before[d]
      BY <3>3, <3>4 DEF TypeOK
    <3>6. Coming(d, e)'
      BY <3>1, <3>4, <3>5 DEF Coming
    <3> QED
      BY <1>1, <3>6
  <2>2. CASE ~Record(d)
    <3>1. \/ KindOf[d] = "read" /\ exc'[d] \in {exc[d], "other"} /\ pc[d] = "run"
          \/ exc'[d] = "other"
          \/ KindOf[d] = "async" /\ exc'[d] = exc[d] /\ pc[d] = "run"
      BY <1>3, <2>2 DEF RunStep, Invoke, Read, RunInterrupted, RunSucceeds, RunFails, RunStarts,
                        Goto, TypeOK
    <3> QED
      BY <1>0, <3>1 DEF Owes, Progress
  <2> QED
    BY <2>1, <2>2
<1>4. CASE FinallyStep(d)
  <2>0. ASSUME pc[d] \in {"finally", "flush"}, Owes(d, o) PROVE Coming(d, e)
    BY <1>1, <2>0 DEF OwesInv
  <2>1. CASE Finally(d)
    <3>1. /\ pc[d] = "finally" /\ pc'[d] = "flush" /\ exc' = exc /\ Owes(d, o)
      BY <2>1 DEF Finally, Goto, TypeOK, Owes
    <3>2. PICK k \in DOMAIN executions : k > before[d] /\ executions[k] = e
      BY <2>0, <3>1 DEF Coming
    <3>3. k - before[d] \in DOMAIN todo'[d] /\ todo'[d][k - before[d]] = e
      BY <2>1, <3>2, Slice
    <3>4. Coming(d, e)'
      BY <3>1, <3>3 DEF Coming
    <3> QED
      BY <1>1, <3>4
  <2>2. CASE Flush(d)
    <3>1. /\ pc[d] = "flush" /\ pc'[d] = "flush" /\ Owes(d, o) /\ todo[d] # << >>
          /\ todo'[d] = Tail(todo[d]) /\ journal' = Append(journal, Head(todo[d]))
      BY <2>2 DEF Flush, AppendReturns, TypeOK, Owes
    <3>2. PICK h \in Entry : h = Head(todo[d])
      BY <3>1, HeadTailProperties DEF TypeOK
    <3>G. JournalGrows /\ Journaled(h)'
      BY <3>1, <3>2, AppendGrows
    <3>3. CASE Journaled(e)
      <4>1. Journaled(e)'
        BY <1>1, <3>G, <3>3 DEF JournalGrows
      <4>2. Coming(d, e)'
        BY <3>1, <4>1 DEF Coming
      <4> QED
        BY <1>1, <4>2
    <3>4. ASSUME NEW k \in DOMAIN todo[d], todo[d][k] = e PROVE Coming(d, e)'
      <4>1. /\ 1 \in DOMAIN todo[d] /\ Head(todo[d]) = todo[d][1]
            /\ k # 1 => /\ k - 1 \in DOMAIN Tail(todo[d])
                        /\ Tail(todo[d])[k - 1] = todo[d][k]
        BY <3>1, Rest
      <4>2. CASE k = 1
        <5>1. Journaled(e)'
          <6>1. h = e
            BY <3>2, <3>4, <4>1, <4>2
          <6> QED
            BY <3>G, <6>1
        <5> QED
          BY <3>1, <5>1 DEF Coming
      <4>3. CASE k # 1
        BY <3>1, <3>4, <4>1, <4>3 DEF Coming
      <4> QED
        BY <4>2, <4>3
    <3> QED
      BY <1>1, <2>0, <3>1, <3>3, <3>4 DEF Coming
  <2>3. CASE FlushRaises(d)
    <3>1. exc'[d] = "other"
      BY <2>3 DEF FlushRaises, TypeOK
    <3> QED
      BY <3>1 DEF Owes
  <2>4. CASE Return(d)
    <3>1. /\ pc[d] = "flush" /\ pc'[d] \in {"raised", "returned", "awaiting"}
          /\ todo[d] = << >> /\ UNCHANGED journal /\ Owes(d, o)
      BY <2>4 DEF Return, Goto, TypeOK, Owes
    <3>2. DOMAIN todo[d] = {}
      BY <3>1
    <3>3. Journaled(e)
      BY <2>0, <3>1, <3>2 DEF Coming
    <3>4. Coming(d, e)'
      BY <3>1, <3>3 DEF Coming, Journaled
    <3> QED
      BY <1>1, <3>4
  <2> QED
    BY <1>4, <2>1, <2>2, <2>3, <2>4 DEF FinallyStep
<1>5. CASE AsyncStep(d)
  BY <1>5 DEF AsyncStep, AsyncWrite, Settle, callVars, Goto, TypeOK
<1> QED
  BY <1>2, <1>3, <1>4, <1>5 DEF Step

LEMMA NextOwes == TypeOK /\ ProgressInv /\ OwesInv /\ [Next]_vars => OwesInv'
<1> SUFFICES ASSUME TypeOK, ProgressInv, OwesInv, [Next]_vars, NEW d \in Call, NEW o \in Outcomes,
                    pc'[d] \in {"finally", "flush", "returned", "raised"}, Owes(d, o)'
             PROVE  Coming(d, Execution(d, o))'
  BY DEF OwesInv
<1>1. ASSUME NEW c \in Call, Step(c), c # d PROVE Coming(d, Execution(d, o))'
  <2>1. pc'[d] = pc[d] /\ exc'[d] = exc[d]
    BY <1>1, OthersStay
  <2>2. Coming(d, Execution(d, o))
    BY <2>1 DEF OwesInv, Owes
  <2> QED
    BY <1>1, <2>2, ComingStays
<1>2. ASSUME Step(d) PROVE Coming(d, Execution(d, o))'
  BY <1>2, OwnComing
<1>3. CASE Crash \/ UNCHANGED vars
  <2>1. /\ pc'[d] = pc[d] /\ exc' = exc /\ journal' = journal
        /\ pc[d] \in {"finally", "flush"} => UNCHANGED vars
    BY <1>3 DEF Crash, Running, vars, callVars, TypeOK
  <2>2. PICK e : e = Execution(d, o)
    OBVIOUS
  <2>3. Coming(d, e)
    BY <2>1, <2>2 DEF OwesInv, Owes
  <2>4. Coming(d, e)'
    BY <2>1, <2>3 DEF Coming, Journaled, vars, callVars
  <2> QED
    BY <2>2, <2>4
<1> QED
  BY <1>1, <1>2, <1>3, NextIsStep

LEMMA NextDenied == TypeOK /\ GuardInv /\ DeniedInv /\ [Next]_vars => DeniedInv'
<1> SUFFICES ASSUME TypeOK, GuardInv, DeniedInv, [Next]_vars, NEW d \in Call, pc'[d] = "denied"
             PROVE  \E i \in 1 .. Behaviours : Journaled(Firing(d, i, "BLOCK"))'
  BY DEF DeniedInv
<1>1. CASE pc[d] = "denied"
  <2>1. PICK i \in 1 .. Behaviours : Journaled(Firing(d, i, "BLOCK"))
    BY <1>1 DEF DeniedInv
  <2>2. Firing(d, i, "BLOCK") \in Entry
    <3>1. PICK k \in DOMAIN journal : journal[k] = Firing(d, i, "BLOCK")
      BY <2>1 DEF Journaled
    <3> QED
      BY <3>1, LenProperties, ElementOfSeq DEF TypeOK
  <2>3. Journaled(Firing(d, i, "BLOCK"))'
    BY <2>1, <2>2, NextGrows DEF JournalGrows, Journaled
  <2> QED
    BY <2>3
<1>2. CASE Decide(d)
  <2>1. Blocked(d) /\ UNCHANGED journal /\ pc[d] = "dispatch"
    BY <1>2 DEF Decide, Goto, TypeOK
  <2>2. PICK f \in fired[d] : f[2] = "BLOCK"
    BY <2>1 DEF Blocked
  <2>3. f \in (1 .. Behaviours) \X Verdict
    BY <2>2 DEF TypeOK
  <2>4. Journaled(Firing(d, f[1], "BLOCK"))
    BY <2>1, <2>2 DEF GuardInv
  <2>5. Journaled(Firing(d, f[1], "BLOCK"))'
    BY <2>1, <2>4 DEF Journaled
  <2> QED
    BY <2>3, <2>5
<1>3. ASSUME NEW c \in Call, Step(c), c # d PROVE pc[d] = "denied"
  BY <1>3, OthersStay
<1>4. ASSUME Step(d) PROVE Decide(d)
  <2>1. DispatchStep(d) => Decide(d)
    BY DEF DispatchStep, Start, Skip, DispatchRaises, Fire, FireRaises, Goto, TypeOK
  <2>2. ~RunStep(d)
    BY DEF RunStep, Invoke, Read, RunInterrupted, RunSucceeds, RunFails, RunStarts, Record,
           Goto, TypeOK
  <2>3. ~FinallyStep(d)
    BY DEF FinallyStep, Finally, Flush, FlushRaises, Return, Goto, TypeOK
  <2>4. ~AsyncStep(d)
    BY DEF AsyncStep, AsyncWrite, Settle, callVars, Goto, TypeOK
  <2> QED
    BY <1>4, <2>1, <2>2, <2>3, <2>4 DEF Step
<1>5. CASE Crash \/ UNCHANGED vars
  <2>1. pc'[d] = "denied" => pc[d] = "denied"
    BY <1>5 DEF Crash, vars, callVars, TypeOK
  <2> QED
    BY <1>1, <2>1
<1> QED
  BY <1>1, <1>2, <1>3, <1>4, <1>5, NextIsStep

-----------------------------------------------------------------------------
(* The theorems *)

\* All of the above, together inductive.
JournalingInv ==
    /\ OneAtATime
    /\ RecordsInv
    /\ FreshInv
    /\ ProgressInv
    /\ OwesInv
    /\ DeniedInv
    /\ EvidenceInOrder
    /\ ExecutionsJournaledOnce

LEMMA InitJournaling == Init => JournalingInv
<1> SUFFICES ASSUME Init PROVE JournalingInv
  OBVIOUS
<1>1. OneAtATime
  BY DEF Init, OneAtATime, Running
<1>2. RecordsInv /\ FreshInv /\ EvidenceInOrder /\ ExecutionsJournaledOnce
  BY DEF Init, RecordsInv, FreshInv, Fresh, Distinct, EvidenceInOrder, ExecutionsJournaledOnce
<1>3. ProgressInv /\ OwesInv /\ DeniedInv
  BY DEF Init, ProgressInv, Progress, OwesInv, DeniedInv
<1> QED
  BY <1>1, <1>2, <1>3 DEF JournalingInv

LEMMA NextJournaling == TypeOK /\ GuardInv /\ JournalingInv /\ [Next]_vars => JournalingInv'
BY NextOneAtATime, NextRecords, NextFresh, NextProgress, NextOwes, NextDenied, NextInOrder,
   NextOnce DEF JournalingInv

LEMMA JournalingHolds == Spec => [](TypeOK /\ GuardInv /\ JournalingInv)
BY InitTyped, NextTyped, InitGuarded, NextGuarded, InitJournaling, NextJournaling, PTL DEF Spec

\* The Journal never says COMMITTED of a write that did not happen, and says
\* what came of a call only after everything its behaviours said, whatever
\* threads, coroutines and crashes come between.
THEOREM EvidenceIsInOrder == Spec => []EvidenceInOrder
BY JournalingHolds, PTL DEF JournalingInv

\* Overlapping slices of the shared list journal no execution twice: the
\* overlap is only ever with calls whose appends the connection refuses.
THEOREM NoExecutionTwice == Spec => []ExecutionsJournaledOnce
BY JournalingHolds, PTL DEF JournalingInv

\* The caller of a synchronous write that returned, or that raised what the
\* client raised, finds its record in the Journal.
THEOREM WritesAreJournaled == Spec => []SynchronousWritesJournaled
<1>1. ProgressInv /\ OwesInv => SynchronousWritesJournaled
  BY DEF ProgressInv, Progress, OwesInv, Owes, Coming, Outcomes, SynchronousWritesJournaled
<1> QED
  BY <1>1, JournalingHolds, PTL DEF JournalingInv

\* A denied call leaves its BLOCK in the Journal and nothing else: no effect,
\* and no record of an execution.
THEOREM DenialsAreOnRecord == Spec => []DenialsOnRecord
<1>1. GuardInv /\ RecordsInv /\ DeniedInv => DenialsOnRecord
  <2> SUFFICES ASSUME GuardInv, RecordsInv, DeniedInv PROVE DenialsOnRecord
    OBVIOUS
  <2>1. ASSUME NEW c \in Call, pc[c] = "denied", NEW o \in Outcomes
        PROVE  ~Journaled(Execution(c, o))
    <3>1. ASSUME NEW k \in DOMAIN journal, journal[k] = Execution(c, o) PROVE FALSE
      <4>1. journal[k].kind = "execution" /\ journal[k].call = c
        BY <3>1 DEF Execution
      <4>2. pc[c] \in PastRecord
        BY <4>1 DEF RecordsInv, SoundEntries, Sound
      <4> QED
        BY <2>1, <4>2 DEF PastRecord
    <3> QED
      BY <3>1 DEF Journaled
  <2> QED
    BY <2>1 DEF GuardInv, DeniedInv, DenialsOnRecord
<1> QED
  BY <1>1, JournalingHolds, PTL DEF JournalingInv

-----------------------------------------------------------------------------
(* The library: what a verdict of a rule says of the call *)

LEMMA GetMerges ==
    ASSUME NEW ev, NEW arg,
           DOMAIN arg = DOMAIN ev.top \cup DOMAIN ev.kwargs,
           \A x \in DOMAIN arg : arg[x] = IF x \in DOMAIN ev.top THEN ev.top[x] ELSE ev.kwargs[x],
           NEW f
    PROVE  Get(ev, f) = Argument(arg, f)
<1>1. CASE f \in DOMAIN ev.top
  BY <1>1 DEF Get, Argument
<1>2. CASE f \notin DOMAIN ev.top /\ f \in DOMAIN ev.kwargs
  BY <1>2 DEF Get, Argument
<1>3. CASE f \notin DOMAIN ev.top /\ f \notin DOMAIN ev.kwargs
  BY <1>3 DEF Get, Argument
<1> QED
  BY <1>1, <1>2, <1>3

\* What a rule gets of the event of a call is the argument of that name.
LEMMA GetReads ==
    ASSUME NEW c \in Call, NEW f
    PROVE  Get(CallEvent(c), f) = Argument(Readable(request[c]), f)
<1>1. PICK ev : ev = CallEvent(c)
  OBVIOUS
<1>2. PICK arg : arg = Readable(request[c])
  OBVIOUS
<1>3. ev.top = TopLevel(request[c]) /\ ev.kwargs = request[c].kwargs
  BY <1>1 DEF CallEvent
<1>4. /\ DOMAIN arg = DOMAIN ev.top \cup DOMAIN ev.kwargs
      /\ \A x \in DOMAIN arg : arg[x] = IF x \in DOMAIN ev.top THEN ev.top[x] ELSE ev.kwargs[x]
  BY <1>2, <1>3 DEF Readable
<1>5. Get(ev, f) = Argument(arg, f)
  BY <1>4, GetMerges
<1> QED
  BY <1>1, <1>2, <1>5

\* Every argument of a call is a value.
LEMMA ArgumentIsValue ==
    ASSUME NEW q \in Request, NEW f
    PROVE  IsValue(Argument(Readable(q), f))
<1>0. /\ DOMAIN TopLevel(q) = {"method", "args", "kwargs", "decision_ref"}
      /\ TopLevel(q).method = q.method /\ TopLevel(q).args = q.args
      /\ TopLevel(q).kwargs = Value("dict", None, << >>)
      /\ TopLevel(q).decision_ref = DecisionRef
  BY DEF TopLevel
<1>1. IsValue(Missing) /\ IsValue(Value("dict", None, << >>))
  BY DEF IsValue, Missing, Value
<1>2. \A x \in DOMAIN TopLevel(q) : IsValue(TopLevel(q)[x])
  BY <1>0, <1>1, PolicyAssumption
<1>3. \A x \in DOMAIN q.kwargs : IsValue(q.kwargs[x])
  BY PolicyAssumption
<1> QED
  BY <1>1, <1>2, <1>3 DEF Argument, Readable

LEMMA VerdictsOf ==
    /\ \A a : VerdictOf(a) \subseteq VERDICTS
    /\ \A a : "BLOCK" \in VerdictOf(a) => VerdictOf(a) = {"BLOCK"}
    /\ VerdictOf("BLOCK") = {"BLOCK"}
    /\ VerdictOf("ALLOW") = {"ALLOW"}
    /\ VerdictOf("FLAG") = {"FLAG"}
BY DEF VerdictOf, VERDICTS

\* A rule that lets a call through honours what it promises; one that blocks
\* does so because that does not hold.
LEMMA RuleHonours ==
    ASSUME NEW q \in Request, NEW r, IsRule(r), NEW ev,
           \A f : Get(ev, f) = Argument(Readable(q), f),
           NEW v \in Verdicts(r, ev)
    PROVE  /\ v # "BLOCK" => Honours(r, Readable(q))
           /\ v = "BLOCK" => ~Honours(r, Readable(q)) \/ r.kind = "custom"
<1> DEFINE A(f) == Argument(Readable(q), f)
<1>G. \A f : Get(ev, f) = A(f) /\ IsValue(A(f))
  BY ArgumentIsValue
<1>V. PICK a \in Answers(r, ev) : v \in VerdictOf(a)
  BY DEF Verdicts
<1> HIDE DEF A
<1>1. CASE r.kind = "spend_cap"
  <2>1. a = IF Exceeds(A(r.field), r.limit) THEN "BLOCK" ELSE "ALLOW"
    BY <1>1, <1>G, <1>V DEF Answers
  <2>2. v = a
    BY <2>1, <1>V, VerdictsOf
  <2>3. Honours(r, Readable(q)) <=>
          /\ A(r.field).type \in {"number", "text"}
          /\ \E n \in {A(r.field).number} \ {None} : n[1] <= r.limit
    BY <1>1 DEF Honours, A
  <2>4. r.limit \in Int /\ IsValue(A(r.field))
    BY <1>1, <1>G DEF IsRule
  <2> QED
    BY <2>1, <2>2, <2>3, <2>4 DEF Exceeds, IsValue
<1>2. CASE r.kind = "flag_over"
  <2>1. a \in {"FLAG", "ALLOW"}
    BY <1>2, <1>V DEF Answers
  <2> QED
    BY <1>2, <2>1, <1>V, VerdictsOf DEF Honours
<1>3. CASE r.kind = "deny_list"
  <2>1. a = IF A(r.field) \in r.values THEN r.verdict ELSE "ALLOW"
    BY <1>3, <1>G, <1>V DEF Answers
  <2>2. Honours(r, Readable(q)) <=> ("BLOCK" \in VerdictOf(r.verdict) => A(r.field) \notin r.values)
    BY <1>3 DEF Honours, A
  <2> QED
    BY <2>1, <2>2, <1>V, VerdictsOf
<1>4. CASE r.kind = "allow_list"
  <2>1. a = IF A(r.field) \in r.values THEN "ALLOW" ELSE r.verdict
    BY <1>4, <1>G, <1>V DEF Answers
  <2>2. Honours(r, Readable(q)) <=> ("BLOCK" \in VerdictOf(r.verdict) => A(r.field) \in r.values)
    BY <1>4 DEF Honours, A
  <2> QED
    BY <2>1, <2>2, <1>V, VerdictsOf
<1>5. CASE r.kind = "scope_fence"
  <2>1. a = IF \E p \in r.allowed : StartsWith(A(r.field).text, p) THEN "ALLOW" ELSE "BLOCK"
    BY <1>5, <1>G, <1>V DEF Answers
  <2>2. Honours(r, Readable(q)) <=> \E p \in r.allowed : StartsWith(A(r.field).text, p)
    BY <1>5 DEF Honours, A
  <2> QED
    BY <2>1, <2>2, <1>V, VerdictsOf
<1>6. CASE r.kind = "require_fields"
  <2>1. a = IF \A f \in r.fields : A(f) # Missing THEN "ALLOW" ELSE r.verdict
    BY <1>6, <1>G, <1>V DEF Answers
  <2>2. Honours(r, Readable(q)) <=>
          ("BLOCK" \in VerdictOf(r.verdict) => \A f \in r.fields : A(f) # Missing)
    BY <1>6 DEF Honours, A
  <2> QED
    BY <2>1, <2>2, <1>V, VerdictsOf
<1>7. CASE r.kind = "custom"
  BY <1>7 DEF Honours
<1> QED
  BY <1>1, <1>2, <1>3, <1>4, <1>5, <1>6, <1>7 DEF IsRule

-----------------------------------------------------------------------------
(* The engine *)

\* Each step of the engine is one of GuardedWrite.
LEMMA PolicyStep == [PolicyNext]_policyVars => [Next]_vars
<1> SUFFICES ASSUME PolicyNext PROVE Next
  BY DEF policyVars
<1>1. ASSUME NEW c \in Call, PolicyFire(c) PROVE Next
  <2>1. PICK b \in Asked(c) : \E x \in Verdicts(b.rule, Handed(c)) : Fire(c, x) \/ FireRaises(c, x)
    BY <1>1 DEF PolicyFire
  <2>0. PICK v \in Verdicts(b.rule, Handed(c)) : Fire(c, v) \/ FireRaises(c, v)
    BY <2>1
  <2>2. v \in Verdict
    BY VerdictsOf, PolicyAssumption DEF Verdicts
  <2> QED
    BY <2>0, <2>2 DEF Next, DispatchStep
<1>2. ASSUME NEW c \in Call, PolicySkip(c) PROVE Next
  BY <1>2 DEF PolicySkip, Next, DispatchStep
<1> QED
  BY <1>1, <1>2 DEF PolicyNext, Next, DispatchStep

\* An engine with a policy is a guarded write with any behaviours at all.
THEOREM PolicyImplementsGuard == PolicySpec => Spec
<1>1. PolicyInit => Init
  BY DEF PolicyInit
<1> QED
  BY <1>1, PolicyStep, PTL DEF PolicySpec, Spec

\* What has fired is what the triggers and rules say of the event of the call.
Asks(c, i) == Matches(deployment.behaviours[i].on, CallEvent(c))
Says(c, i) == Verdicts(deployment.behaviours[i].rule, CallEvent(c))

Dispatched(c) ==
    /\ \A i \in 1 .. Behaviours :
        i < next[c] /\ Asks(c, i) => \E v \in Says(c, i) : <<i, v>> \in fired[c]
    /\ \A f \in fired[c] : Asks(c, f[1]) /\ f[2] \in Says(c, f[1])
    /\ pc[c] = "denied" => Blocked(c)

PolicyInv ==
    /\ deployment \in Deployment /\ GuardReturns(deployment)
    /\ request \in [Call -> Request]
    /\ \A c \in Call : Dispatched(c)

LEMMA InitPolicy == PolicyInit => PolicyInv
<1> SUFFICES ASSUME PolicyInit PROVE PolicyInv
  OBVIOUS
<1>1. \A c \in Call : next[c] = 1 /\ fired[c] = {} /\ pc[c] = "ready"
  BY DEF PolicyInit, Init
<1>2. ASSUME NEW c \in Call PROVE Dispatched(c)
  <2>1. next[c] = 1 /\ fired[c] = {} /\ pc[c] = "ready"
    BY <1>1
  <2>2. \A i \in 1 .. Behaviours : ~(i < 1)
    BY GuardAssumption
  <2> QED
    BY <2>1, <2>2 DEF Dispatched
<1> QED
  BY <1>2 DEF PolicyInv, PolicyInit

LEMMA NextPolicy == TypeOK /\ PolicyInv /\ [PolicyNext]_policyVars => PolicyInv'
<1> SUFFICES ASSUME TypeOK, PolicyInv, [PolicyNext]_policyVars PROVE PolicyInv'
  OBVIOUS
<1>0. deployment' = deployment /\ request' = request
  BY DEF PolicyNext, policyVars
<1>1. /\ DOMAIN deployment.behaviours = 1 .. Behaviours
      /\ \A c \in Call : Dispatched(c)
  BY PolicyAssumption DEF PolicyInv
<1>2. \A c \in Call : \A i : Asks(c, i)' = Asks(c, i) /\ Says(c, i)' = Says(c, i)
  BY <1>0 DEF Asks, Says, CallEvent
<1>3. ASSUME NEW d \in Call, pc'[d] = pc[d] \/ pc'[d] # "denied",
             next'[d] = next[d], fired'[d] = fired[d]
      PROVE  Dispatched(d)'
  BY <1>1, <1>2, <1>3 DEF Dispatched, Blocked
<1>4. ASSUME NEW c \in Call, PolicyFire(c), NEW d \in Call PROVE Dispatched(d)'
  <2>0. PICK b \in Asked(c) :
            /\ Matches(b.on, CallEvent(c))
            /\ \E x \in Verdicts(b.rule, CallEvent(c)) : Fire(c, x) \/ FireRaises(c, x)
    BY <1>4 DEF PolicyFire, Handed
  <2>1. PICK v \in Verdicts(b.rule, CallEvent(c)) : Fire(c, v) \/ FireRaises(c, v)
    BY <2>0
  <2>2. PICK i \in 1 .. Behaviours : i = next[c] /\ b = deployment.behaviours[i]
    BY <1>1, <2>1 DEF Asked, Fire, FireRaises
  <2>3. Asks(c, i) /\ v \in Says(c, i)
    BY <2>0, <2>1, <2>2 DEF Asks, Says
  <2>4. CASE d # c
    BY <1>3, <2>1, <2>4 DEF Fire, FireRaises, Goto, TypeOK
  <2>5. CASE d = c
    <3>1. /\ fired'[c] = fired[c] \cup {<<i, v>>}
          /\ next'[c] \in {i, i + 1}
          /\ pc'[c] # "denied"
          /\ next'[c] = i => pc'[c] = "raised"
      BY <2>1, <2>2 DEF Fire, FireRaises, Goto, TypeOK
    <3>2. \A j \in 1 .. Behaviours : j < next'[c] => j < next[c] \/ j = i
      BY <2>2, <3>1
    <3>3. \A j \in 1 .. Behaviours :
            j < next'[c] /\ Asks(c, j) => \E x \in Says(c, j) : <<j, x>> \in fired'[c]
      BY <1>1, <2>3, <3>1, <3>2 DEF Dispatched
    <3>4. \A f \in fired'[c] : Asks(c, f[1]) /\ f[2] \in Says(c, f[1])
      BY <1>1, <2>3, <3>1 DEF Dispatched
    <3> QED
      BY <1>2, <2>5, <3>1, <3>3, <3>4 DEF Dispatched
  <2> QED
    BY <2>4, <2>5
<1>5. ASSUME NEW c \in Call, PolicySkip(c), NEW d \in Call PROVE Dispatched(d)'
  <2>1. CASE d # c
    BY <1>3, <1>5, <2>1 DEF PolicySkip, Skip, TypeOK
  <2>2. CASE d = c
    <3>1. /\ next[c] \in 1 .. Behaviours /\ next'[c] = next[c] + 1
          /\ fired' = fired /\ pc' = pc /\ pc[c] = "dispatch"
      BY <1>5, GuardAssumption DEF PolicySkip, Skip, TypeOK
    <3>2. ~Asks(c, next[c])
      BY <1>1, <1>5, <3>1 DEF PolicySkip, Asked, Asks, Handed
    <3>3. \A j \in 1 .. Behaviours : j < next'[c] => j < next[c] \/ j = next[c]
      BY <3>1
    <3> QED
      BY <1>1, <1>2, <2>2, <3>1, <3>2, <3>3 DEF Dispatched
  <2> QED
    BY <2>1, <2>2
<1>6. ASSUME NEW c \in Call, Start(c) \/ DispatchRaises(c), NEW d \in Call PROVE Dispatched(d)'
  BY <1>3, <1>6 DEF Start, DispatchRaises, Goto, TypeOK
<1>7. ASSUME NEW c \in Call, Decide(c), NEW d \in Call PROVE Dispatched(d)'
  <2>1. next' = next /\ fired' = fired /\ (pc'[d] = pc[d] \/ d = c)
    BY <1>7 DEF Decide, Goto, TypeOK
  <2>2. d = c /\ pc'[d] = "denied" => Blocked(c)
    BY <1>7 DEF Decide, Goto, TypeOK
  <2>3. Blocked(d)' = Blocked(d)
    BY <2>1 DEF Blocked
  <2> QED
    BY <1>1, <1>2, <2>1, <2>2, <2>3 DEF Dispatched
<1>8. ASSUME NEW c \in Call, RunStep(c) \/ FinallyStep(c) \/ AsyncStep(c), NEW d \in Call
      PROVE  Dispatched(d)'
  <2>1. next' = next /\ fired' = fired
    BY <1>8 DEF RunStep, Invoke, Read, RunInterrupted, RunSucceeds, RunFails, RunStarts, Record,
       FinallyStep, Finally, Flush, FlushRaises, Return, AsyncStep, AsyncWrite, Settle, callVars
  <2>2. pc'[d] = pc[d] \/ pc'[d] # "denied"
    <3>1. RunStep(c) => pc'[d] = pc[d] \/ pc'[d] # "denied"
      BY DEF RunStep, Invoke, Read, RunInterrupted, RunSucceeds, RunFails, RunStarts, Record,
             Goto, TypeOK
    <3>2. FinallyStep(c) => pc'[d] = pc[d] \/ pc'[d] # "denied"
      BY DEF FinallyStep, Finally, Flush, FlushRaises, Return, Goto, TypeOK
    <3>3. AsyncStep(c) => pc'[d] = pc[d] \/ pc'[d] # "denied"
      BY DEF AsyncStep, AsyncWrite, Settle, callVars, Goto, TypeOK
    <3> QED
      BY <1>8, <3>1, <3>2, <3>3
  <2> QED
    BY <1>3, <2>1, <2>2
<1>9. ASSUME Crash \/ UNCHANGED vars, NEW d \in Call PROVE Dispatched(d)'
  BY <1>3, <1>9 DEF Crash, vars, callVars, TypeOK
<1>10. ASSUME NEW d \in Call PROVE Dispatched(d)'
  BY <1>4, <1>5, <1>6, <1>7, <1>8, <1>9 DEF PolicyNext, policyVars
<1> QED
  BY <1>0, <1>10 DEF PolicyInv, GuardReturns

\* A behaviour that can fire at the stage of the guard and concerns the call
\* matches its event, and one that matches concerns it.
LEMMA MatchesConcern ==
    ASSUME NEW c \in Call, NEW i
    PROVE  /\ /\ i \notin Inert(deployment.behaviours, deployment.stage)
              /\ i \in DOMAIN deployment.behaviours
              /\ Concerns(deployment.behaviours[i], request[c])
              => Asks(c, i)
           /\ Asks(c, i) => Concerns(deployment.behaviours[i], request[c])
BY DEF Inert, Concerns, Asks, Matches, CallEvent

LEMMA PolicyHolds == PolicyInv /\ NoUngovernedWrite /\ TypeOK => PolicyEnforced
<1> SUFFICES ASSUME PolicyInv, NoUngovernedWrite, TypeOK, NEW c \in Call
             PROVE  /\ c \in effects => \A i \in DOMAIN deployment.behaviours :
                        LET b == deployment.behaviours[i] IN
                        \/ Honours(b.rule, Readable(request[c]))
                        \/ ~Concerns(b, request[c])
                        \/ deployment.allow_inert
                           /\ i \in Inert(deployment.behaviours, deployment.stage)
                    /\ pc[c] = "denied" => \E i \in DOMAIN deployment.behaviours :
                        LET b == deployment.behaviours[i] IN
                        /\ Concerns(b, request[c])
                        /\ ~Honours(b.rule, Readable(request[c])) \/ b.rule.kind = "custom"
  BY DEF PolicyEnforced
<1>0. /\ DOMAIN deployment.behaviours = 1 .. Behaviours
      /\ \A i \in 1 .. Behaviours : IsRule(deployment.behaviours[i].rule)
      /\ request[c] \in Request
      /\ Dispatched(c)
  BY PolicyAssumption DEF PolicyInv
<1>R. ASSUME NEW i \in 1 .. Behaviours, NEW v \in Says(c, i)
      PROVE  LET r == deployment.behaviours[i].rule IN
             /\ v # "BLOCK" => Honours(r, Readable(request[c]))
             /\ v = "BLOCK" => ~Honours(r, Readable(request[c])) \/ r.kind = "custom"
  <2>1. \A f : Get(CallEvent(c), f) = Argument(Readable(request[c]), f)
    BY GetReads
  <2> QED
    BY <1>0, <1>R, <2>1, RuleHonours DEF Says
<1>1. ASSUME c \in effects, NEW i \in DOMAIN deployment.behaviours,
             Concerns(deployment.behaviours[i], request[c]),
             ~(deployment.allow_inert /\ i \in Inert(deployment.behaviours, deployment.stage))
      PROVE  Honours(deployment.behaviours[i].rule, Readable(request[c]))
  <2>1. i \notin Inert(deployment.behaviours, deployment.stage)
    BY <1>1 DEF PolicyInv, GuardReturns
  <2>2. Asks(c, i)
    BY <1>1, <2>1, MatchesConcern
  <2>3. /\ i \in 1 .. Behaviours /\ i < next[c]
        /\ \A f \in fired[c] : f[2] # "BLOCK"
    BY <1>0, <1>1, GuardAssumption DEF NoUngovernedWrite
  <2>4. PICK v \in Says(c, i) : <<i, v>> \in fired[c]
    BY <1>0, <2>2, <2>3 DEF Dispatched
  <2>5. v # "BLOCK"
    BY <2>3, <2>4
  <2> QED
    BY <1>R, <2>3, <2>4, <2>5
<1>2. ASSUME pc[c] = "denied"
      PROVE  \E i \in DOMAIN deployment.behaviours :
                /\ Concerns(deployment.behaviours[i], request[c])
                /\ \/ ~Honours(deployment.behaviours[i].rule, Readable(request[c]))
                   \/ deployment.behaviours[i].rule.kind = "custom"
  <2>1. PICK f \in fired[c] : f[2] = "BLOCK"
    BY <1>0, <1>2 DEF Dispatched, Blocked
  <2>2. f[1] \in 1 .. Behaviours
    BY <2>1 DEF TypeOK
  <2>3. Asks(c, f[1]) /\ "BLOCK" \in Says(c, f[1])
    BY <1>0, <2>1 DEF Dispatched
  <2> QED
    BY <1>0, <1>R, <2>2, <2>3, MatchesConcern
<1> QED
  BY <1>1, <1>2

\* What every library behaviour promises holds of every write that reaches the
\* data plane, whatever the actions of others do to the event; and a denial
\* has a reason.
THEOREM PolicyIsEnforced == PolicySpec => []PolicyEnforced
<1>1. PolicySpec => []TypeOK /\ []NoUngovernedWrite
  BY PolicyImplementsGuard, GuardTypeCorrect, NoWriteIsUngoverned, PTL
<1> QED
  BY <1>1, InitPolicy, NextPolicy, PolicyHolds, PTL DEF PolicySpec
=============================================================================
