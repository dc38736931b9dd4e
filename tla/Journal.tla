------------------------------ MODULE Journal -------------------------------
(***************************************************************************)
(* The runtime Journal: `Journal.append` on several connections (processes *)
(* or threads, one connection each) to one SQLite file, together with      *)
(* readers that verify and list it (`keystone journal`).                   *)
(*                                                                         *)
(* One append is taken apart at every point where another connection may   *)
(* run, a statement may fail, user code runs (the clock is a callback and  *)
(* runs inside the transaction), or the process may be interrupted or die: *)
(*                                                                         *)
(*   idle --AppendCall--> begin --Begin--> head --ReadHead--> insert       *)
(*        --Insert--> commit --Commit--> done --Return--> idle             *)
(*                                                                         *)
(* and "abort" stands for the `except BaseException: ROLLBACK; raise` arm. *)
(* SQLite itself is external: BEGIN IMMEDIATE takes the single write lock  *)
(* or gives up after the busy timeout, COMMIT has to wait for open reads,  *)
(* an uncommitted row is seen by nobody, and the lock and the uncommitted  *)
(* row of a connection that goes away are dropped.                         *)
(***************************************************************************)
EXTENDS JournalRows

CONSTANTS
    Conn,        \* connections opened for writing
    Reader,      \* connections that only read (`keystone journal`, read_only)
    NoConn,      \* nobody holds the write lock
    NoRecord,    \* no record under way
    MaxEntries   \* bound: no append is started once the log is this long

ASSUME JournalAssumption ==
    /\ NoConn \notin Conn
    /\ NoRecord \notin Record
    /\ MaxEntries \in Nat

VARIABLES
    rows,      \* the committed rows, in seq order
    lock,      \* the connection whose transaction is open, or NoConn
    pc,        \* where each connection is in append
    doc,       \* the caller's dict: callbacks and other threads can change it
    stored,    \* record_json, the serialised copy append validated
    prev,      \* the head the transaction read
    receipts,  \* the heads append has returned to callers
    rpc,       \* where each reader is
    seen       \* the rows its verify fetched

writerVars == <<pc, doc, stored, prev>>
readerVars == <<rpc, seen>>
vars == <<rows, lock, pc, doc, stored, prev, receipts, rpc, seen>>

-----------------------------------------------------------------------------
(* Locations *)

InTransaction == {"head", "insert", "commit", "abort"}
InCall == {"begin", "done"} \cup InTransaction
Locations == {"closed", "idle"} \cup InCall
ReaderLocations == {"idle", "fetch", "checked"}

\* Fault: the row takes the caller's dict as it is when the row is written.
PendingRowLive(c) ==
    [EntryFor(stored[c], prev[c]) EXCEPT !.record = doc[c]]

\* The row c's transaction inserts, not visible to others before COMMIT.
PendingRow(c) == EntryFor(stored[c], prev[c])

\* What c's append returns if it returns.
NewHead(c) == PendingRow(c).jref

\* A COMMIT waits until no read is under way.  New reads are held off only
\* while the statement itself runs, and here that is one step.
Readers == {r \in Reader : rpc[r] = "fetch"}

Init ==
    /\ rows = << >>
    /\ lock = NoConn
    /\ pc = [c \in Conn |-> "idle"]
    /\ doc = [c \in Conn |-> NoRecord]
    /\ stored = [c \in Conn |-> NoRecord]
    /\ prev = [c \in Conn |-> GENESIS]
    /\ receipts = {}
    /\ rpc = [r \in Reader |-> "idle"]
    /\ seen = [r \in Reader |-> << >>]

\* The call is over: its local variables are gone.
Forget(c) ==
    /\ doc' = [doc EXCEPT ![c] = NoRecord]
    /\ stored' = [stored EXCEPT ![c] = NoRecord]
    /\ prev' = [prev EXCEPT ![c] = GENESIS]

Goto(c, loc) == pc' = [pc EXCEPT ![c] = loc]

-----------------------------------------------------------------------------
(* Journal.append *)

\* Fault: the record is stored without being validated.
AppendCallUnchecked(c, r) ==
    /\ pc[c] = "idle"
    /\ Len(rows) < MaxEntries
    /\ doc' = [doc EXCEPT ![c] = r]
    /\ stored' = [stored EXCEPT ![c] = r]
    /\ Goto(c, "begin")
    /\ UNCHANGED <<rows, lock, prev, receipts, readerVars>>

\* append(record) serialises once and validates what it serialised; a record
\* that verify_record rejects is refused and nothing changes.
AppendCall(c, r) ==
    /\ pc[c] = "idle"
    /\ Len(rows) < MaxEntries
    /\ r \in ValidRecord
    /\ doc' = [doc EXCEPT ![c] = r]
    /\ stored' = [stored EXCEPT ![c] = r]
    /\ Goto(c, "begin")
    /\ UNCHANGED <<rows, lock, prev, receipts, readerVars>>

\* The caller's dict changes while append runs.
Mutate(c, r) ==
    /\ pc[c] \in InCall
    /\ doc' = [doc EXCEPT ![c] = r]
    /\ UNCHANGED <<rows, lock, pc, stored, prev, receipts, readerVars>>

\* BEGIN IMMEDIATE
Begin(c) ==
    /\ pc[c] = "begin"
    /\ lock = NoConn
    /\ lock' = c
    /\ Goto(c, "head")
    /\ UNCHANGED <<rows, doc, stored, prev, receipts, readerVars>>

\* Fault: no busy timeout, the wait for the lock has no end.
BeginRaisesNever(c) ==
    /\ pc[c] = "begin"
    /\ lock = c
    /\ Goto(c, "idle")
    /\ Forget(c)
    /\ UNCHANGED <<rows, lock, receipts, readerVars>>

\* BEGIN IMMEDIATE raises, outside the try: "database is locked" after the
\* busy timeout, or at once when this connection has a transaction open.
BeginRaises(c) ==
    /\ pc[c] = "begin"
    /\ lock # NoConn
    /\ Goto(c, "idle")
    /\ Forget(c)
    /\ UNCHANGED <<rows, lock, receipts, readerVars>>

\* SELECT journal_ref ... ORDER BY seq DESC LIMIT 1, or GENESIS
ReadHead(c) ==
    /\ pc[c] = "head"
    /\ prev' = [prev EXCEPT ![c] = HeadOf(rows)]
    /\ Goto(c, "insert")
    /\ UNCHANGED <<rows, lock, doc, stored, receipts, readerVars>>

\* The clock callback and the INSERT
Insert(c) ==
    /\ pc[c] = "insert"
    /\ Goto(c, "commit")
    /\ UNCHANGED <<rows, lock, doc, stored, prev, receipts, readerVars>>

\* COMMIT
Commit(c) ==
    /\ pc[c] = "commit"
    /\ Readers = {}
    /\ rows' = Append(rows, PendingRow(c))
    /\ lock' = NoConn
    /\ Goto(c, "done")
    /\ UNCHANGED <<doc, stored, prev, receipts, readerVars>>

\* A statement, or the clock, raises inside the try: an interrupt, an error
\* of the callback, of the disk, or a COMMIT that timed out on a reader.
StepRaises(c) ==
    /\ pc[c] \in {"head", "insert", "commit"}
    /\ Goto(c, "abort")
    /\ UNCHANGED <<rows, lock, doc, stored, prev, receipts, readerVars>>

\* Fault: the failed call deletes the newest row instead of rolling back.
RollbackNewest(c) ==
    /\ pc[c] = "abort"
    /\ rows' = SubSeq(rows, 1, Len(rows) - 1)
    /\ lock' = NoConn
    /\ Goto(c, "idle")
    /\ Forget(c)
    /\ UNCHANGED <<receipts, readerVars>>

\* except BaseException: ROLLBACK; raise
Rollback(c) ==
    /\ pc[c] = "abort"
    /\ lock' = NoConn
    /\ Goto(c, "idle")
    /\ Forget(c)
    /\ UNCHANGED <<rows, receipts, readerVars>>

\* return jref
Return(c) ==
    /\ pc[c] = "done"
    /\ receipts' = receipts \cup {NewHead(c)}
    /\ Goto(c, "idle")
    /\ Forget(c)
    /\ UNCHANGED <<rows, lock, readerVars>>

\* An interrupt that arrives during BEGIN is raised when BEGIN returns, still
\* outside the try: the call raises and its transaction stays open.
InterruptBegin(c) ==
    /\ pc[c] = "begin"
    /\ lock = NoConn
    /\ lock' = c
    /\ Goto(c, "idle")
    /\ Forget(c)
    /\ UNCHANGED <<rows, receipts, readerVars>>

\* Fault: the call that raises after its COMMIT deletes the newest row.
InterruptCommitUndone(c) ==
    /\ pc[c] = "done"
    /\ rows' = SubSeq(rows, 1, Len(rows) - 1)
    /\ Goto(c, "idle")
    /\ Forget(c)
    /\ UNCHANGED <<lock, receipts, readerVars>>

\* One that arrives during COMMIT is raised with the row already committed;
\* there is no transaction left to roll back and the call raises.
InterruptCommit(c) ==
    /\ pc[c] = "done"
    /\ Goto(c, "idle")
    /\ Forget(c)
    /\ UNCHANGED <<rows, lock, receipts, readerVars>>

\* close(), or the death of the process at any point of append
Disconnect(c) ==
    /\ pc[c] # "closed"
    /\ lock' = IF lock = c THEN NoConn ELSE lock
    /\ Goto(c, "closed")
    /\ Forget(c)
    /\ UNCHANGED <<rows, receipts, readerVars>>

\* Journal(path): the table is created if it is not there yet
Connect(c) ==
    /\ pc[c] = "closed"
    /\ Goto(c, "idle")
    /\ UNCHANGED <<rows, lock, doc, stored, prev, receipts, readerVars>>

-----------------------------------------------------------------------------
(* `keystone journal --show`: verify, then count and list *)

\* Fault: the read also returns the rows of open transactions.
FetchUncommitted(r) ==
    /\ rpc[r] = "idle"
    /\ \E c \in Conn :
        seen' = [seen EXCEPT ![r] =
            IF pc[c] = "commit" THEN Append(rows, PendingRow(c)) ELSE rows]
    /\ rpc' = [rpc EXCEPT ![r] = "fetch"]
    /\ UNCHANGED <<rows, lock, receipts, writerVars>>

\* The SELECT of verify takes a snapshot and holds its read lock until done.
Fetch(r) ==
    /\ rpc[r] = "idle"
    /\ seen' = [seen EXCEPT ![r] = rows]
    /\ rpc' = [rpc EXCEPT ![r] = "fetch"]
    /\ UNCHANGED <<rows, lock, receipts, writerVars>>

\* The verdict; on a failed report the command exits with 1.
Report(r) ==
    /\ rpc[r] = "fetch"
    /\ \/ /\ Verifies(seen[r])
          /\ rpc' = [rpc EXCEPT ![r] = "checked"]
          /\ UNCHANGED seen
       \/ /\ ~Verifies(seen[r])
          /\ rpc' = [rpc EXCEPT ![r] = "idle"]
          /\ seen' = [seen EXCEPT ![r] = << >>]
    /\ UNCHANGED <<rows, lock, receipts, writerVars>>

\* count() and records() are reads of their own, after the verdict.
Show(r) ==
    /\ rpc[r] = "checked"
    /\ rpc' = [rpc EXCEPT ![r] = "idle"]
    /\ seen' = [seen EXCEPT ![r] = << >>]
    /\ UNCHANGED <<rows, lock, receipts, writerVars>>

-----------------------------------------------------------------------------

\* The steps an append under way takes by itself.
CallStep(c) ==
    \/ Begin(c) \/ BeginRaises(c)
    \/ ReadHead(c) \/ Insert(c) \/ Commit(c)
    \/ StepRaises(c) \/ Rollback(c) \/ Return(c)

ConnStep(c) ==
    \/ \E r \in Record : AppendCall(c, r) \/ Mutate(c, r)
    \/ CallStep(c)
    \/ InterruptBegin(c) \/ InterruptCommit(c)
    \/ Disconnect(c) \/ Connect(c)

ReaderStep(r) == Fetch(r) \/ Report(r) \/ Show(r)

Next ==
    \/ \E c \in Conn : ConnStep(c)
    \/ \E r \in Reader : ReaderStep(r)

Spec == Init /\ [][Next]_vars

\* SQLite answers every statement and gives up a lock it waits for after the
\* busy timeout; the clock callback returns or raises.
FairSpec == Spec /\ \A c \in Conn : WF_vars(CallStep(c))

-----------------------------------------------------------------------------
(* Properties *)

\* Every variable has its type, and a call that passed append's check carries a
\* record that verify_record accepts until the call ends.
TypeOK ==
    /\ rows \in Seq(Row)
    /\ lock \in Conn \cup {NoConn}
    /\ pc \in [Conn -> Locations]
    /\ doc \in [Conn -> Record \cup {NoRecord}]
    /\ stored \in [Conn -> Record \cup {NoRecord}]
    /\ prev \in [Conn -> JournalRefs]
    /\ receipts \subseteq JournalRefs
    /\ rpc \in [Reader -> ReaderLocations]
    /\ seen \in [Reader -> Seq(Row)]
    /\ \A c \in Conn : pc[c] \in InCall => stored[c] \in ValidRecord

\* Whatever writers interleave, fail, are interrupted or die, the committed
\* journal passes verify as soon as it holds a row: no fork, no gap, and no
\* row whose record or columns do not recompute, also when the caller's dict
\* changes while append runs.
JournalVerifies == rows # << >> => Verifies(rows)

\* The head a transaction links its row to is still the head when it commits:
\* the read and the insert that depends on it are one IMMEDIATE transaction.
FreshHead ==
    \A c \in Conn : pc[c] \in {"insert", "commit"} =>
        /\ lock = c
        /\ prev[c] = HeadOf(rows)

\* A head that append returned pins the same prefix of the journal for ever:
\* it survives every later failure, crash and reconnection.
ReceiptsHold == \A h \in receipts : Anchors(h, rows)

\* Two append calls never return the same head: each committed call has an
\* entry of its own, at a place of its own.
OneHeadPerCall ==
    \A c \in Conn : pc[c] = "done" =>
        /\ Anchors(NewHead(c), rows)
        /\ NewHead(c) \notin receipts
        /\ \A d \in Conn \ {c} : pc[d] = "done" => NewHead(d) # NewHead(c)

\* A verifier that runs beside the writers never sees a row of an open
\* transaction and never fails an untampered, non-empty journal; and what
\* the command counts and lists after its verdict extends what it verified.
ReadersAgree ==
    \A r \in Reader : rpc[r] # "idle" =>
        /\ Len(seen[r]) <= Len(rows)
        /\ \A i \in 1 .. Len(seen[r]) : seen[r][i] = rows[i]
        /\ seen[r] # << >> => Verifies(seen[r])

\* The transaction of a call under way is the one that holds the lock.
TransactionHoldsLock == \A c \in Conn : pc[c] \in InTransaction => lock = c

\* Each row spells out the history before it.
RowsSpellChain ==
    \A i \in 1 .. Len(rows) :
        /\ rows[i].prev = ChainOf(rows, i - 1)
        /\ rows[i].jref = ChainOf(rows, i)
        /\ RowRecomputes(rows[i])

\* The inductive invariant behind the safety properties above.
JournalInv ==
    /\ TypeOK
    /\ TransactionHoldsLock
    /\ FreshHead
    /\ RowsSpellChain
    /\ ReceiptsHold
    /\ OneHeadPerCall

\* The log a caller sees is the record_ref column.
Log == INSTANCE AuditLog WITH log <- RefsOf(rows)

\* The Journal implements the abstract audit log: committed entries are only
\* added, one at a time at the end, and receipts are only issued for them.
ImplementsAuditLog == Log!LogSpec

\* Every append returns or raises, also when another connection was left with
\* its transaction open: a waiting writer is not stuck on it.
EveryCallEnds == \A c \in Conn : pc[c] \in InCall ~> pc[c] \in {"idle", "closed"}

=============================================================================
