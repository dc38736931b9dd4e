------------------------------ MODULE AuditLog ------------------------------
(***************************************************************************)
(* What a Journal promises its callers, with connections, transactions,    *)
(* locks, failures and crashes left out: one log of record references that *)
(* only ever grows at its end, one reference at a time, and receipts.  A   *)
(* receipt is the head an `append` returned; it stands for the log up to   *)
(* and including the entry of that call, and no two calls receive the same *)
(* one.  A call that dies or raises may leave its entry in the log without *)
(* a receipt, but a receipt is never issued for an entry that is not there.*)
(***************************************************************************)
EXTENDS Integers, Sequences

CONSTANT Ref

VARIABLES log, receipts

logVars == <<log, receipts>>

LogInit == log = << >> /\ receipts = {}

\* An entry becomes part of the log.
Enter(ref) ==
    /\ log' = Append(log, ref)
    /\ UNCHANGED receipts

\* The call whose entry is the n-th returns that entry's head.
Acknowledge(n) ==
    /\ SubSeq(log, 1, n) \notin receipts
    /\ receipts' = receipts \cup {SubSeq(log, 1, n)}
    /\ UNCHANGED log

LogNext ==
    \/ \E ref \in Ref : Enter(ref)
    \/ \E n \in 1 .. Len(log) : Acknowledge(n)

LogSpec == LogInit /\ [][LogNext]_logVars
=============================================================================
