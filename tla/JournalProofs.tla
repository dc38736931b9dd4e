--------------------------- MODULE JournalProofs ----------------------------
(***************************************************************************)
(* Proofs about Journal, for any number of connections and readers, any    *)
(* records and any bound: the type invariant, the inductive invariant and  *)
(* the properties that follow from it, and that Journal implements         *)
(* AuditLog.  In the second part, proofs about JournalCustody: what a      *)
(* passing verify says of a file that was changed any number of times by   *)
(* others.                                                                 *)
(***************************************************************************)
EXTENDS Journal, JournalCustody, TLAPS, SequenceTheorems, WellFoundedInduction

-----------------------------------------------------------------------------
(* Facts about rows *)

\* The row an append inserts is a row, and verify accepts its columns.
LEMMA EntryIsRow ==
    ASSUME NEW r \in ValidRecord, NEW p \in JournalRefs
    PROVE  /\ EntryFor(r, p) \in Row
           /\ RowRecomputes(EntryFor(r, p))
           /\ EntryFor(r, p).prev = p
           /\ EntryFor(r, p).ref = RefOf[r]
           /\ EntryFor(r, p).jref = Append(p, RefOf[r])
<1>1. RefOf[r] \in Ref /\ LabelOf[r] \in Label /\ r \in Record
  BY RecordAssumption
<1>2. Append(p, RefOf[r]) \in JournalRefs
  BY <1>1, AppendProperties DEF JournalRefs
<1> QED
  BY <1>1, <1>2 DEF EntryFor, JournalRef, Row, RowRecomputes

\* The chain of n rows is the chain of one row less, extended.
LEMMA ChainStep ==
    ASSUME NEW rs \in Seq(Row), NEW n \in 1 .. Len(rs)
    PROVE  Append(ChainOf(rs, n - 1), rs[n].ref) = ChainOf(rs, n)
BY LenProperties DEF ChainOf, Row

\* Appending a row leaves the earlier rows and their chains as they are.
LEMMA AppendRow ==
    ASSUME NEW rs \in Seq(Row), NEW row \in Row
    PROVE  /\ Append(rs, row) \in Seq(Row)
           /\ Len(Append(rs, row)) = Len(rs) + 1
           /\ \A i \in 1 .. Len(rs) : Append(rs, row)[i] = rs[i]
           /\ Append(rs, row)[Len(rs) + 1] = row
           /\ \A n \in 0 .. Len(rs) : ChainOf(Append(rs, row), n) = ChainOf(rs, n)
           /\ ChainOf(Append(rs, row), Len(rs) + 1)
                = Append(ChainOf(rs, Len(rs)), row.ref)
<1>1. /\ Append(rs, row) \in Seq(Row)
      /\ Len(Append(rs, row)) = Len(rs) + 1
      /\ \A i \in 1 .. Len(rs) : Append(rs, row)[i] = rs[i]
      /\ Append(rs, row)[Len(rs) + 1] = row
  BY AppendProperties
<1>2. Len(rs) \in Nat
  BY LenProperties
<1>3. \A n \in 0 .. Len(rs) : ChainOf(Append(rs, row), n) = ChainOf(rs, n)
  BY <1>1, <1>2 DEF ChainOf
<1>4. ChainOf(Append(rs, row), Len(rs) + 1)
        = Append(ChainOf(Append(rs, row), Len(rs)), row.ref)
  <2> DEFINE grown == Append(rs, row)
             n == Len(rs) + 1
  <2>1. grown \in Seq(Row) /\ n \in 1 .. Len(grown)
    BY <1>1, <1>2
  <2>2. Append(ChainOf(grown, n - 1), grown[n].ref) = ChainOf(grown, n)
    <3> HIDE DEF grown, n
    <3> QED
      BY <2>1, ChainStep
  <2>3. n - 1 = Len(rs) /\ grown[n] = row
    BY <1>1, <1>2
  <2> QED
    BY <2>2, <2>3
<1> QED
  BY <1>1, <1>2, <1>3, <1>4

\* Chains of different length are different.
LEMMA ChainLength ==
    ASSUME NEW rs, NEW n \in Nat
    PROVE  Len(ChainOf(rs, n)) = n
BY DEF ChainOf

\* A head that anchors a prefix of rs still does when rs has grown.
LEMMA AnchorsGrow ==
    ASSUME NEW rs \in Seq(Row), NEW row \in Row, NEW h, Anchors(h, rs)
    PROVE  Anchors(h, Append(rs, row))
BY AppendRow, LenProperties DEF Anchors

-----------------------------------------------------------------------------
(* The rows of Journal *)

\* What append reads as the head is the chain of all rows.
LEMMA HeadIsChain ==
    ASSUME rows \in Seq(Row), RowsSpellChain
    PROVE  HeadOf(rows) = RefsOf(rows)
<1>1. CASE rows = << >>
  BY <1>1 DEF HeadOf, RefsOf, ChainOf, GENESIS
<1>2. CASE rows # << >>
  <2>1. Len(rows) \in 1 .. Len(rows)
    BY <1>2, LenProperties, EmptySeq
  <2> QED
    BY <1>2, <2>1 DEF HeadOf, RefsOf, RowsSpellChain
<1> QED
  BY <1>1, <1>2

\* A journal whose rows spell out their history passes verify.
LEMMA SpelledRowsVerify ==
    ASSUME rows \in Seq(Row), RowsSpellChain
    PROVE  JournalVerifies
<1>1. AllRecompute(rows)
  BY LenProperties DEF AllRecompute, RowsSpellChain
<1>2. ASSUME NEW i \in 1 .. Len(rows)
      PROVE  CarriedHead(rows, i) = ChainOf(rows, i - 1)
  <2>1. CASE i = 1
    BY <2>1 DEF CarriedHead, ChainOf, GENESIS
  <2>2. CASE i # 1
    <3>1. i - 1 \in 1 .. Len(rows)
      BY <2>2, LenProperties
    <3> QED
      BY <2>2, <3>1 DEF CarriedHead, RowsSpellChain
  <2> QED
    BY <2>1, <2>2
<1>3. Linked(rows)
  BY <1>2, ChainStep, LenProperties DEF Linked, RowsSpellChain, JournalRef
<1> QED
  BY <1>1, <1>3 DEF JournalVerifies, Verifies

-----------------------------------------------------------------------------
(* Type correctness *)

\* The row of a call under way is a row.
LEMMA PendingRowTyped ==
    ASSUME TypeOK, NEW c \in Conn, pc[c] \in InCall
    PROVE  /\ PendingRow(c) \in Row
           /\ RowRecomputes(PendingRow(c))
           /\ NewHead(c) \in JournalRefs
           /\ NewHead(c) = Append(prev[c], PendingRow(c).ref)
<1>1. stored[c] \in ValidRecord /\ prev[c] \in JournalRefs
  BY DEF TypeOK
<1> QED
  BY <1>1, EntryIsRow DEF PendingRow, NewHead, Row

LEMMA HeadTyped ==
    ASSUME rows \in Seq(Row)
    PROVE  HeadOf(rows) \in JournalRefs
<1>1. CASE rows = << >>
  BY <1>1 DEF HeadOf, GENESIS, JournalRefs
<1>2. CASE rows # << >>
  <2>1. Len(rows) \in 1 .. Len(rows)
    BY <1>2, LenProperties, EmptySeq
  <2>2. rows[Len(rows)] \in Row
    BY <2>1, ElementOfSeq
  <2> QED
    BY <1>2, <2>2 DEF HeadOf, Row
<1> QED
  BY <1>1, <1>2

LEMMA InitType == Init => TypeOK
BY JournalAssumption
   DEF Init, TypeOK, Locations, ReaderLocations, InCall, InTransaction,
       GENESIS, JournalRefs

LEMMA NextType == TypeOK /\ [Next]_vars => TypeOK'
<1> SUFFICES ASSUME TypeOK, [Next]_vars PROVE TypeOK'
  OBVIOUS
<1> USE DEF Goto, Locations, InCall, InTransaction
<1>1. ASSUME NEW c \in Conn, NEW r \in Record, AppendCall(c, r)
      PROVE  TypeOK'
  BY <1>1, RecordAssumption DEF AppendCall, TypeOK, readerVars
<1>2. ASSUME NEW c \in Conn, NEW r \in Record, Mutate(c, r)
      PROVE  TypeOK'
  BY <1>2 DEF Mutate, TypeOK, readerVars
<1>3. ASSUME NEW c \in Conn, Begin(c)
      PROVE  TypeOK'
  BY <1>3 DEF Begin, TypeOK, readerVars
<1>4. ASSUME NEW c \in Conn, BeginRaises(c)
      PROVE  TypeOK'
  BY <1>4 DEF BeginRaises, Forget, TypeOK, readerVars, GENESIS, JournalRefs
<1>5. ASSUME NEW c \in Conn, ReadHead(c)
      PROVE  TypeOK'
  BY <1>5, HeadTyped DEF ReadHead, TypeOK, readerVars
<1>6. ASSUME NEW c \in Conn, Insert(c)
      PROVE  TypeOK'
  BY <1>6 DEF Insert, TypeOK, readerVars
<1>7. ASSUME NEW c \in Conn, Commit(c)
      PROVE  TypeOK'
  <2>1. rows' \in Seq(Row)
    <3>1. PendingRow(c) \in Row
      BY <1>7, PendingRowTyped DEF Commit
    <3>2. rows \in Seq(Row)
      BY DEF TypeOK
    <3> QED
      BY <1>7, <3>1, <3>2, AppendRow DEF Commit
  <2> QED
    BY <1>7, <2>1 DEF Commit, TypeOK, readerVars
<1>8. ASSUME NEW c \in Conn, StepRaises(c)
      PROVE  TypeOK'
  BY <1>8 DEF StepRaises, TypeOK, readerVars
<1>9. ASSUME NEW c \in Conn, Rollback(c)
      PROVE  TypeOK'
  BY <1>9 DEF Rollback, Forget, TypeOK, readerVars, GENESIS, JournalRefs
<1>10. ASSUME NEW c \in Conn, Return(c)
       PROVE  TypeOK'
  <2>1. NewHead(c) \in JournalRefs
    BY <1>10, PendingRowTyped DEF Return
  <2> QED
    BY <1>10, <2>1 DEF Return, Forget, TypeOK, readerVars, GENESIS, JournalRefs
<1>11. ASSUME NEW c \in Conn, InterruptBegin(c)
       PROVE  TypeOK'
  BY <1>11 DEF InterruptBegin, Forget, TypeOK, readerVars, GENESIS, JournalRefs
<1>12. ASSUME NEW c \in Conn, InterruptCommit(c)
       PROVE  TypeOK'
  BY <1>12 DEF InterruptCommit, Forget, TypeOK, readerVars, GENESIS, JournalRefs
<1>13. ASSUME NEW c \in Conn, Disconnect(c)
       PROVE  TypeOK'
  BY <1>13 DEF Disconnect, Forget, TypeOK, readerVars, GENESIS, JournalRefs
<1>14. ASSUME NEW c \in Conn, Connect(c)
       PROVE  TypeOK'
  BY <1>14 DEF Connect, TypeOK, readerVars
<1>15. ASSUME NEW r \in Reader, ReaderStep(r)
       PROVE  TypeOK'
  <2>1. CASE Fetch(r)
    BY <2>1 DEF Fetch, TypeOK, writerVars, ReaderLocations
  <2>2. CASE Report(r)
    <3>1. seen' \in [Reader -> Seq(Row)]
      <4>1. seen \in [Reader -> Seq(Row)] /\ << >> \in Seq(Row)
        BY EmptySeq, Zenon DEF TypeOK
      <4>2. seen' = seen \/ seen' = [seen EXCEPT ![r] = << >>]
        BY <2>2, Zenon DEF Report
      <4> QED
        BY <4>1, <4>2
    <3>2. rpc' \in [Reader -> ReaderLocations]
      BY <2>2 DEF Report, TypeOK, ReaderLocations
    <3> QED
      BY <2>2, <3>1, <3>2 DEF Report, TypeOK, writerVars
  <2>3. CASE Show(r)
    BY <2>3, EmptySeq DEF Show, TypeOK, writerVars, ReaderLocations
  <2> QED
    BY <1>15, <2>1, <2>2, <2>3 DEF ReaderStep
<1>16. CASE UNCHANGED vars
  BY <1>16 DEF vars, TypeOK
<1> QED
  BY <1>1, <1>2, <1>3, <1>4, <1>5, <1>6, <1>7, <1>8, <1>9, <1>10, <1>11,
     <1>12, <1>13, <1>14, <1>15, <1>16
     DEF Next, ConnStep, CallStep

\* Every variable of Journal always has its type, and a call under way always
\* carries a record that verify_record accepted (Journal.append).
THEOREM TypeCorrect == Spec => []TypeOK
BY InitType, NextType, PTL DEF Spec
-----------------------------------------------------------------------------
(* The inductive invariant *)

LEMMA InitInv == Init => JournalInv
<1> SUFFICES ASSUME Init PROVE JournalInv
  OBVIOUS
<1>1. TypeOK
  BY InitType
<1>2. TransactionHoldsLock /\ FreshHead /\ ReceiptsHold /\ OneHeadPerCall
  BY DEF Init, TransactionHoldsLock, FreshHead, ReceiptsHold, OneHeadPerCall,
         InTransaction
<1>3. RowsSpellChain
  BY DEF Init, RowsSpellChain
<1> QED
  BY <1>1, <1>2, <1>3 DEF JournalInv

\* A step that leaves the log, the receipts and the transactions alone.
LEMMA FrameStep ==
    ASSUME JournalInv, UNCHANGED <<rows, lock, pc, stored, prev, receipts>>
    PROVE  /\ TransactionHoldsLock'
           /\ FreshHead'
           /\ RowsSpellChain'
           /\ ReceiptsHold'
           /\ OneHeadPerCall'
BY DEF JournalInv, TransactionHoldsLock, FreshHead, RowsSpellChain,
       ReceiptsHold, OneHeadPerCall, NewHead, PendingRow

\* Only connection c moves.
OnlyMoves(c) ==
    \A d \in Conn \ {c} :
        /\ pc'[d] = pc[d]
        /\ stored'[d] = stored[d]
        /\ prev'[d] = prev[d]

\* A step of c that leaves the log and the receipts alone and does not bring
\* c to the end of its call keeps what holds of them.
LEMMA LogStep ==
    ASSUME JournalInv, NEW c \in Conn, OnlyMoves(c), pc'[c] # "done",
           UNCHANGED <<rows, receipts>>
    PROVE  RowsSpellChain' /\ ReceiptsHold' /\ OneHeadPerCall'
<1>1. RowsSpellChain'
  BY DEF JournalInv, RowsSpellChain
<1>2. ReceiptsHold'
  BY DEF JournalInv, ReceiptsHold
<1>3. ASSUME NEW d \in Conn, pc'[d] = "done"
      PROVE  d # c /\ pc[d] = "done" /\ NewHead(d)' = NewHead(d)
  BY <1>3 DEF OnlyMoves, NewHead, PendingRow
<1>4. OneHeadPerCall'
  BY <1>3 DEF JournalInv, OneHeadPerCall
<1> QED
  BY <1>1, <1>2, <1>4

\* Every step keeps the invariant; Commit is the one that extends the log and
\* Return the one that issues a receipt.
LEMMA NextInv == JournalInv /\ [Next]_vars => JournalInv'
<1> SUFFICES ASSUME JournalInv, [Next]_vars PROVE JournalInv'
  OBVIOUS
<1>T. TypeOK /\ TypeOK'
  BY NextType DEF JournalInv
<1> USE DEF Goto, InCall, InTransaction
<1>1. ASSUME NEW c \in Conn, NEW r \in Record, AppendCall(c, r)
      PROVE  JournalInv'
  <2>1. OnlyMoves(c) /\ pc'[c] # "done"
    BY <1>1, <1>T DEF AppendCall, OnlyMoves, TypeOK
  <2>2. RowsSpellChain' /\ ReceiptsHold' /\ OneHeadPerCall'
    BY <1>1, <2>1, LogStep DEF AppendCall
  <2>3. TransactionHoldsLock' /\ FreshHead'
    BY <1>1, <1>T DEF AppendCall, JournalInv, TransactionHoldsLock, FreshHead, TypeOK
  <2> QED
    BY <1>T, <2>2, <2>3 DEF JournalInv
<1>2. ASSUME NEW c \in Conn, NEW r \in Record, Mutate(c, r)
      PROVE  JournalInv'
  BY <1>2, <1>T, FrameStep DEF Mutate, JournalInv
<1>3. ASSUME NEW c \in Conn, Begin(c)
      PROVE  JournalInv'
  <2>1. OnlyMoves(c) /\ pc'[c] # "done"
    BY <1>3, <1>T DEF Begin, OnlyMoves, TypeOK
  <2>2. RowsSpellChain' /\ ReceiptsHold' /\ OneHeadPerCall'
    BY <1>3, <2>1, LogStep DEF Begin
  <2>3. TransactionHoldsLock' /\ FreshHead'
    BY <1>3, <1>T, JournalAssumption
       DEF Begin, JournalInv, TransactionHoldsLock, FreshHead, TypeOK
  <2> QED
    BY <1>T, <2>2, <2>3 DEF JournalInv
<1>4. ASSUME NEW c \in Conn, BeginRaises(c)
      PROVE  JournalInv'
  <2>1. OnlyMoves(c) /\ pc'[c] # "done"
    BY <1>4, <1>T DEF BeginRaises, Forget, OnlyMoves, TypeOK
  <2>2. RowsSpellChain' /\ ReceiptsHold' /\ OneHeadPerCall'
    BY <1>4, <2>1, LogStep DEF BeginRaises
  <2>3. TransactionHoldsLock' /\ FreshHead'
    BY <1>4, <1>T
       DEF BeginRaises, Forget, JournalInv, TransactionHoldsLock, FreshHead, TypeOK
  <2> QED
    BY <1>T, <2>2, <2>3 DEF JournalInv
<1>5. ASSUME NEW c \in Conn, ReadHead(c)
      PROVE  JournalInv'
  <2>1. OnlyMoves(c) /\ pc'[c] # "done"
    BY <1>5, <1>T DEF ReadHead, OnlyMoves, TypeOK
  <2>2. RowsSpellChain' /\ ReceiptsHold' /\ OneHeadPerCall'
    BY <1>5, <2>1, LogStep DEF ReadHead
  <2>3. TransactionHoldsLock' /\ FreshHead'
    BY <1>5, <1>T
       DEF ReadHead, JournalInv, TransactionHoldsLock, FreshHead, TypeOK
  <2> QED
    BY <1>T, <2>2, <2>3 DEF JournalInv
<1>6. ASSUME NEW c \in Conn, Insert(c)
      PROVE  JournalInv'
  <2>1. OnlyMoves(c) /\ pc'[c] # "done"
    BY <1>6, <1>T DEF Insert, OnlyMoves, TypeOK
  <2>2. RowsSpellChain' /\ ReceiptsHold' /\ OneHeadPerCall'
    BY <1>6, <2>1, LogStep DEF Insert
  <2>3. TransactionHoldsLock' /\ FreshHead'
    BY <1>6, <1>T
       DEF Insert, JournalInv, TransactionHoldsLock, FreshHead, TypeOK
  <2> QED
    BY <1>T, <2>2, <2>3 DEF JournalInv
<1>7. ASSUME NEW c \in Conn, Commit(c)
      PROVE  JournalInv'
  <2> DEFINE row == PendingRow(c)
  <2>1. /\ rows \in Seq(Row)
        /\ row \in Row
        /\ RowRecomputes(row)
        /\ NewHead(c) = Append(prev[c], row.ref)
    BY <1>7, <1>T, PendingRowTyped DEF Commit, TypeOK
  <2>2. rows' = Append(rows, row) /\ Len(rows) \in Nat
    BY <1>7, <2>1, LenProperties DEF Commit
  <2>3. lock = c /\ prev[c] = ChainOf(rows, Len(rows))
    BY <1>7, <2>1, HeadIsChain DEF Commit, JournalInv, FreshHead, RefsOf
  <2>4. row.prev = prev[c] /\ row.jref = NewHead(c)
    BY <1>7, <1>T, EntryIsRow DEF Commit, PendingRow, NewHead, TypeOK
  <2> HIDE DEF row
  <2>5. NewHead(c) = ChainOf(rows', Len(rows'))
    BY <2>1, <2>2, <2>3, AppendRow
  <2>6. RowsSpellChain'
    <3> SUFFICES ASSUME NEW i \in 1 .. Len(rows')
                 PROVE  /\ rows'[i].prev = ChainOf(rows', i - 1)
                        /\ rows'[i].jref = ChainOf(rows', i)
                        /\ RowRecomputes(rows'[i])
      BY DEF RowsSpellChain
    <3>1. CASE i \in 1 .. Len(rows)
      <4>1. rows'[i] = rows[i]
        BY <2>1, <2>2, <3>1, AppendRow
      <4>2. i \in 0 .. Len(rows) /\ i - 1 \in 0 .. Len(rows)
        BY <2>2, <3>1
      <4>3. ChainOf(rows', i) = ChainOf(rows, i)
        BY <2>1, <2>2, <4>2, AppendRow
      <4>4. ChainOf(rows', i - 1) = ChainOf(rows, i - 1)
        BY <2>1, <2>2, <4>2, AppendRow
      <4> QED
        BY <3>1, <4>1, <4>3, <4>4 DEF JournalInv, RowsSpellChain
    <3>2. CASE i = Len(rows) + 1
      <4>1. rows'[i] = row /\ i - 1 = Len(rows) /\ i = Len(rows')
        BY <2>1, <2>2, <3>2, AppendRow
      <4>2. ChainOf(rows', i - 1) = prev[c]
        BY <2>1, <2>2, <2>3, <4>1, AppendRow
      <4> QED
        BY <2>1, <2>4, <2>5, <4>1, <4>2
    <3> QED
      BY <2>1, <2>2, <3>1, <3>2, AppendRow
  <2>7. ASSUME NEW h, Anchors(h, rows)
        PROVE  Anchors(h, rows') /\ h # NewHead(c)
    <3>1. Anchors(h, rows')
      BY <2>1, <2>2, <2>7, AnchorsGrow
    <3>2. PICK n \in 1 .. Len(rows) : h = ChainOf(rows, n)
      BY <2>7 DEF Anchors
    <3>3. Len(h) = n
      BY <2>2, <3>2, ChainLength
    <3>4. Len(NewHead(c)) = Len(rows')
      BY <1>T, <2>2, <2>5, ChainLength, LenProperties DEF TypeOK
    <3>5. Len(rows') = Len(rows) + 1
      BY <2>1, <2>2, AppendRow
    <3> QED
      BY <2>2, <3>1, <3>2, <3>3, <3>4, <3>5
  <2>8. ReceiptsHold'
    BY <1>7, <2>7 DEF Commit, JournalInv, ReceiptsHold
  <2>9. OnlyMoves(c) /\ pc'[c] = "done"
    BY <1>7, <1>T DEF Commit, OnlyMoves, TypeOK
  <2>10. \A d \in Conn : NewHead(d)' = NewHead(d)
    BY <1>7 DEF Commit, NewHead, PendingRow
  <2>11. Anchors(NewHead(c), rows')
    BY <2>1, <2>2, <2>5, AppendRow DEF Anchors
  <2>12. NewHead(c) \notin receipts'
    BY <1>7, <2>7 DEF Commit, JournalInv, ReceiptsHold
  <2>13. ASSUME NEW d \in Conn \ {c}, pc'[d] = "done"
         PROVE  /\ Anchors(NewHead(d), rows')
                /\ NewHead(d) \notin receipts'
                /\ NewHead(d) # NewHead(c)
                /\ \A e \in Conn \ {d} : pc'[e] = "done" => NewHead(e) # NewHead(d)
    <3>1. /\ Anchors(NewHead(d), rows)
          /\ NewHead(d) \notin receipts
          /\ \A e \in Conn \ {d} : pc[e] = "done" => NewHead(e) # NewHead(d)
      BY <2>9, <2>13 DEF OnlyMoves, JournalInv, OneHeadPerCall
    <3>2. Anchors(NewHead(d), rows') /\ NewHead(d) # NewHead(c)
      BY <2>7, <3>1
    <3> QED
      BY <1>7, <2>9, <3>1, <3>2 DEF Commit, OnlyMoves
  <2>14. OneHeadPerCall'
    BY <2>10, <2>11, <2>12, <2>13 DEF OneHeadPerCall
  <2>15. TransactionHoldsLock' /\ FreshHead'
    BY <1>7, <1>T, <2>3 DEF Commit, JournalInv, TransactionHoldsLock, FreshHead, TypeOK
  <2> QED
    BY <1>T, <2>6, <2>8, <2>14, <2>15 DEF JournalInv
<1>8. ASSUME NEW c \in Conn, StepRaises(c)
      PROVE  JournalInv'
  <2>1. OnlyMoves(c) /\ pc'[c] # "done"
    BY <1>8, <1>T DEF StepRaises, OnlyMoves, TypeOK
  <2>2. RowsSpellChain' /\ ReceiptsHold' /\ OneHeadPerCall'
    BY <1>8, <2>1, LogStep DEF StepRaises
  <2>3. TransactionHoldsLock' /\ FreshHead'
    BY <1>8, <1>T
       DEF StepRaises, JournalInv, TransactionHoldsLock, FreshHead, TypeOK
  <2> QED
    BY <1>T, <2>2, <2>3 DEF JournalInv
<1>9. ASSUME NEW c \in Conn, Rollback(c)
      PROVE  JournalInv'
  <2>1. OnlyMoves(c) /\ pc'[c] # "done"
    BY <1>9, <1>T DEF Rollback, Forget, OnlyMoves, TypeOK
  <2>2. RowsSpellChain' /\ ReceiptsHold' /\ OneHeadPerCall'
    BY <1>9, <2>1, LogStep DEF Rollback
  <2>3. TransactionHoldsLock' /\ FreshHead'
    BY <1>9, <1>T
       DEF Rollback, Forget, JournalInv, TransactionHoldsLock, FreshHead, TypeOK
  <2> QED
    BY <1>T, <2>2, <2>3 DEF JournalInv
<1>10. ASSUME NEW c \in Conn, Return(c)
       PROVE  JournalInv'
  <2>1. OnlyMoves(c) /\ pc'[c] # "done"
    BY <1>10, <1>T DEF Return, Forget, OnlyMoves, TypeOK
  <2>2. RowsSpellChain'
    BY <1>10 DEF Return, JournalInv, RowsSpellChain
  <2>3. ReceiptsHold'
    BY <1>10 DEF Return, JournalInv, ReceiptsHold, OneHeadPerCall
  <2>4. ASSUME NEW d \in Conn, pc'[d] = "done"
        PROVE  /\ d # c /\ pc[d] = "done"
               /\ NewHead(d)' = NewHead(d)
               /\ NewHead(d) # NewHead(c)
    <3>1. d # c /\ pc[d] = "done" /\ NewHead(d)' = NewHead(d)
      BY <2>1, <2>4 DEF OnlyMoves, NewHead, PendingRow
    <3> QED
      BY <1>10, <3>1 DEF Return, JournalInv, OneHeadPerCall
  <2>5. OneHeadPerCall'
    BY <1>10, <2>4 DEF Return, JournalInv, OneHeadPerCall
  <2>6. TransactionHoldsLock' /\ FreshHead'
    BY <1>10, <1>T
       DEF Return, Forget, JournalInv, TransactionHoldsLock, FreshHead, TypeOK
  <2> QED
    BY <1>T, <2>2, <2>3, <2>5, <2>6 DEF JournalInv
<1>11. ASSUME NEW c \in Conn, InterruptBegin(c)
       PROVE  JournalInv'
  <2>1. OnlyMoves(c) /\ pc'[c] # "done"
    BY <1>11, <1>T DEF InterruptBegin, Forget, OnlyMoves, TypeOK
  <2>2. RowsSpellChain' /\ ReceiptsHold' /\ OneHeadPerCall'
    BY <1>11, <2>1, LogStep DEF InterruptBegin
  <2>3. TransactionHoldsLock' /\ FreshHead'
    BY <1>11, <1>T, JournalAssumption
       DEF InterruptBegin, Forget, JournalInv, TransactionHoldsLock, FreshHead, TypeOK
  <2> QED
    BY <1>T, <2>2, <2>3 DEF JournalInv
<1>12. ASSUME NEW c \in Conn, InterruptCommit(c)
       PROVE  JournalInv'
  <2>1. OnlyMoves(c) /\ pc'[c] # "done"
    BY <1>12, <1>T DEF InterruptCommit, Forget, OnlyMoves, TypeOK
  <2>2. RowsSpellChain' /\ ReceiptsHold' /\ OneHeadPerCall'
    BY <1>12, <2>1, LogStep DEF InterruptCommit
  <2>3. TransactionHoldsLock' /\ FreshHead'
    BY <1>12, <1>T
       DEF InterruptCommit, Forget, JournalInv, TransactionHoldsLock, FreshHead, TypeOK
  <2> QED
    BY <1>T, <2>2, <2>3 DEF JournalInv
<1>13. ASSUME NEW c \in Conn, Disconnect(c)
       PROVE  JournalInv'
  <2>1. OnlyMoves(c) /\ pc'[c] # "done"
    BY <1>13, <1>T DEF Disconnect, Forget, OnlyMoves, TypeOK
  <2>2. RowsSpellChain' /\ ReceiptsHold' /\ OneHeadPerCall'
    BY <1>13, <2>1, LogStep DEF Disconnect
  <2>3. TransactionHoldsLock' /\ FreshHead'
    BY <1>13, <1>T, JournalAssumption
       DEF Disconnect, Forget, JournalInv, TransactionHoldsLock, FreshHead, TypeOK
  <2> QED
    BY <1>T, <2>2, <2>3 DEF JournalInv
<1>14. ASSUME NEW c \in Conn, Connect(c)
       PROVE  JournalInv'
  <2>1. OnlyMoves(c) /\ pc'[c] # "done"
    BY <1>14, <1>T DEF Connect, OnlyMoves, TypeOK
  <2>2. RowsSpellChain' /\ ReceiptsHold' /\ OneHeadPerCall'
    BY <1>14, <2>1, LogStep DEF Connect
  <2>3. TransactionHoldsLock' /\ FreshHead'
    BY <1>14, <1>T
       DEF Connect, JournalInv, TransactionHoldsLock, FreshHead, TypeOK
  <2> QED
    BY <1>T, <2>2, <2>3 DEF JournalInv
<1>15. ASSUME NEW r \in Reader, ReaderStep(r)
       PROVE  JournalInv'
  <2>1. UNCHANGED <<rows, lock, pc, stored, prev, receipts>>
    BY <1>15 DEF ReaderStep, Fetch, Report, Show, writerVars
  <2> QED
    BY <1>T, <2>1, FrameStep DEF JournalInv
<1>16. CASE UNCHANGED vars
  BY <1>16, <1>T, FrameStep DEF vars, JournalInv
<1> QED
  BY <1>1, <1>2, <1>3, <1>4, <1>5, <1>6, <1>7, <1>8, <1>9, <1>10, <1>11,
     <1>12, <1>13, <1>14, <1>15, <1>16
     DEF Next, ConnStep, CallStep

\* JournalInv holds in every reachable state.
THEOREM JournalInvariant == Spec => []JournalInv
BY InitInv, NextInv, PTL DEF Spec
-----------------------------------------------------------------------------
(* What follows from the invariant *)

\* Whatever append calls interleave, raise, are interrupted or die, a journal
\* with a row in it passes verify: no fork, no gap, no record that does not
\* recompute (Journal.append against Journal.verify).
THEOREM JournalAlwaysVerifies == Spec => []JournalVerifies
<1>1. JournalInv => JournalVerifies
  BY SpelledRowsVerify DEF JournalInv, TypeOK
<1> QED
  BY <1>1, JournalInvariant, PTL

\* The head a transaction of append read is the head its row is linked to.
THEOREM HeadStaysFresh == Spec => []FreshHead
<1>1. JournalInv => FreshHead
  BY DEF JournalInv
<1> QED
  BY <1>1, JournalInvariant, PTL

\* A head that append returned stands for a prefix of the journal for ever.
THEOREM ReceiptsAlwaysHold == Spec => []ReceiptsHold
<1>1. JournalInv => ReceiptsHold
  BY DEF JournalInv
<1> QED
  BY <1>1, JournalInvariant, PTL

\* No two append calls return the same head.
THEOREM HeadsAreUnique == Spec => []OneHeadPerCall
<1>1. JournalInv => OneHeadPerCall
  BY DEF JournalInv
<1> QED
  BY <1>1, JournalInvariant, PTL

-----------------------------------------------------------------------------
(* Readers *)

LEMMA NextReaders ==
    JournalInv /\ ReadersAgree /\ [Next]_vars => ReadersAgree'
<1> SUFFICES ASSUME JournalInv, ReadersAgree, [Next]_vars PROVE ReadersAgree'
  OBVIOUS
<1>T. TypeOK /\ JournalVerifies /\ Len(rows) \in Nat
  BY SpelledRowsVerify, LenProperties DEF JournalInv, TypeOK
<1>1. ASSUME NEW c \in Conn, Commit(c)
      PROVE  ReadersAgree'
  <2>1. rows \in Seq(Row) /\ PendingRow(c) \in Row
    BY <1>1, <1>T, PendingRowTyped DEF Commit, TypeOK, InCall, InTransaction
  <2>2. /\ Len(rows') = Len(rows) + 1
        /\ \A i \in 1 .. Len(rows) : rows'[i] = rows[i]
    BY <1>1, <2>1, AppendRow DEF Commit
  <2>3. UNCHANGED <<rpc, seen>>
    BY <1>1 DEF Commit, readerVars
  <2>4. \A r \in Reader : Len(seen[r]) \in Nat
    BY <1>T, LenProperties DEF TypeOK
  <2> QED
    BY <1>T, <2>2, <2>3, <2>4 DEF ReadersAgree
<1>2. ASSUME NEW c \in Conn, ConnStep(c), ~Commit(c)
      PROVE  ReadersAgree'
  <2>1. UNCHANGED <<rows, rpc, seen>>
    BY <1>2
       DEF ConnStep, CallStep, AppendCall, Mutate, Begin, BeginRaises, ReadHead,
           Insert, StepRaises, Rollback, Return, InterruptBegin,
           InterruptCommit, Disconnect, Connect, readerVars
  <2> QED
    BY <2>1 DEF ReadersAgree
<1>3. ASSUME NEW r \in Reader, Fetch(r)
      PROVE  ReadersAgree'
  BY <1>3, <1>T DEF Fetch, ReadersAgree, JournalVerifies, TypeOK
<1>4. ASSUME NEW r \in Reader, Report(r)
      PROVE  ReadersAgree'
  BY <1>4, <1>T DEF Report, ReadersAgree, TypeOK
<1>5. ASSUME NEW r \in Reader, Show(r)
      PROVE  ReadersAgree'
  BY <1>5, <1>T DEF Show, ReadersAgree, TypeOK
<1>6. CASE UNCHANGED vars
  BY <1>6 DEF vars, ReadersAgree
<1> QED
  BY <1>1, <1>2, <1>3, <1>4, <1>5, <1>6 DEF Next, ReaderStep

\* A verify that runs beside writers only sees committed rows, never fails an
\* intact journal, and what is listed after its verdict extends what it checked.
THEOREM ReadersAlwaysAgree == Spec => []ReadersAgree
<1>1. Init => ReadersAgree
  BY DEF Init, ReadersAgree
<1> QED
  BY <1>1, NextReaders, JournalInvariant, PTL DEF Spec

-----------------------------------------------------------------------------
(* Refinement *)

LEMMA NextRefines == JournalInv /\ [Next]_vars => [Log!LogNext]_(Log!logVars)
<1> SUFFICES ASSUME JournalInv, [Next]_vars PROVE [Log!LogNext]_(Log!logVars)
  OBVIOUS
<1>T. TypeOK /\ rows \in Seq(Row) /\ Len(rows) \in Nat
  BY LenProperties DEF JournalInv, TypeOK
<1>1. ASSUME NEW c \in Conn, Commit(c)
      PROVE  Log!LogNext
  <2>1. PendingRow(c) \in Row
    BY <1>1, <1>T, PendingRowTyped DEF Commit, InCall, InTransaction
  <2>2. RefsOf(rows)' = Append(RefsOf(rows), PendingRow(c).ref)
    BY <1>1, <1>T, <2>1, AppendRow DEF Commit, RefsOf
  <2>3. PendingRow(c).ref \in Ref
    BY <2>1 DEF Row
  <2>4. receipts' = receipts
    BY <1>1 DEF Commit
  <2> QED
    BY <2>2, <2>3, <2>4 DEF Log!LogNext, Log!Enter
<1>2. ASSUME NEW c \in Conn, Return(c)
      PROVE  Log!LogNext
  <2>1. /\ Anchors(NewHead(c), rows)
        /\ NewHead(c) \notin receipts
    BY <1>2 DEF Return, JournalInv, OneHeadPerCall
  <2>2. PICK n \in 1 .. Len(rows) : NewHead(c) = ChainOf(rows, n)
    BY <2>1 DEF Anchors
  <2>3. Len(RefsOf(rows)) = Len(rows)
    BY <1>T, ChainLength DEF RefsOf
  <2>4. SubSeq(RefsOf(rows), 1, n) = ChainOf(rows, n)
    BY <1>T, <2>2 DEF RefsOf, ChainOf
  <2>5. receipts' = receipts \cup {NewHead(c)} /\ RefsOf(rows)' = RefsOf(rows)
    BY <1>2 DEF Return, RefsOf, ChainOf
  <2> QED
    BY <2>1, <2>2, <2>3, <2>4, <2>5 DEF Log!LogNext, Log!Acknowledge
<1>3. ASSUME NEW c \in Conn, ConnStep(c), ~Commit(c), ~Return(c)
      PROVE  UNCHANGED Log!logVars
  <2>1. UNCHANGED <<rows, receipts>>
    BY <1>3
       DEF ConnStep, CallStep, AppendCall, Mutate, Begin, BeginRaises, ReadHead,
           Insert, StepRaises, Rollback, InterruptBegin, InterruptCommit,
           Disconnect, Connect
  <2> QED
    BY <2>1 DEF Log!logVars, RefsOf, ChainOf
<1>4. ASSUME NEW r \in Reader, ReaderStep(r)
      PROVE  UNCHANGED Log!logVars
  BY <1>4 DEF ReaderStep, Fetch, Report, Show, Log!logVars, RefsOf, ChainOf
<1>5. CASE UNCHANGED vars
  BY <1>5 DEF vars, Log!logVars, RefsOf, ChainOf
<1> QED
  BY <1>1, <1>2, <1>3, <1>4, <1>5 DEF Next

\* The Journal implements the append-only audit log: every step of a writer, a
\* reader or a failure is an entry at the end, a receipt for an entry that is
\* there, or invisible.
THEOREM JournalRefinesAuditLog == Spec => ImplementsAuditLog
<1>1. Init => Log!LogInit
  BY DEF Init, Log!LogInit, RefsOf, ChainOf
<1> QED
  BY <1>1, NextRefines, JournalInvariant, PTL
     DEF Spec, ImplementsAuditLog, Log!LogSpec

-----------------------------------------------------------------------------
(* A file that changes hands: verify *)

\* A non-empty set of natural numbers has a least element.
LEMMA LeastNat ==
    ASSUME NEW T, T \subseteq Nat, T # {}
    PROVE  \E n \in T : \A m \in T : n <= m
<1>1. PICK n \in T : \A m \in T : ~(<<m, n>> \in OpToRel(<, Nat))
  BY WFMin, NatLessThanWellFounded
<1>2. \A m \in T : ~(m < n)
  BY <1>1 DEF OpToRel
<1> QED
  BY <1>2

\* In linked rows, whoever wrote them, every journal_ref spells out the
\* record_refs up to its row: look at the first row for which it does not.
LEMMA LinkedRowsSpellTheirChain ==
    ASSUME NEW rs \in Seq(Row), Linked(rs)
    PROVE  \A i \in 1 .. Len(rs) : rs[i].jref = ChainOf(rs, i)
<1> DEFINE Bad == {i \in 1 .. Len(rs) : rs[i].jref # ChainOf(rs, i)}
<1> SUFFICES ASSUME Bad # {} PROVE FALSE
  OBVIOUS
<1>1. PICK n \in Bad : \A m \in Bad : n <= m
  <2>1. Bad \subseteq Nat
    OBVIOUS
  <2> QED
    BY <2>1, LeastNat
<1>2. rs[n].jref = Append(CarriedHead(rs, n), rs[n].ref)
  BY <1>1 DEF Linked, JournalRef
<1>3. CarriedHead(rs, n) = ChainOf(rs, n - 1)
  <2>1. CASE n = 1
    BY <2>1 DEF CarriedHead, ChainOf, GENESIS
  <2>2. CASE n # 1
    BY <1>1, <2>2 DEF CarriedHead
  <2> QED
    BY <2>1, <2>2
<1> QED
  BY <1>1, <1>2, <1>3, ChainStep

\* The head of linked rows is the sequence of their record_refs.
LEMMA LinkedHead ==
    ASSUME NEW rs \in Seq(Row), Linked(rs)
    PROVE  HeadOf(rs) = RefsOf(rs)
<1>1. CASE rs = << >>
  BY <1>1 DEF HeadOf, RefsOf, ChainOf, GENESIS
<1>2. CASE rs # << >>
  <2>1. Len(rs) \in 1 .. Len(rs)
    BY <1>2, LenProperties, EmptySeq
  <2> QED
    BY <1>2, <2>1, LinkedRowsSpellTheirChain DEF HeadOf, RefsOf
<1> QED
  BY <1>1, <1>2

\* A head that linked, recomputing rows carry is the sequence of their refs.
LEMMA PinIsExact ==
    ASSUME file \in Seq(Row), NEW h, VerifiesAt(file, h)
    PROVE  RecordRefs = h
<1>1. h = RefsOf(file)
  BY LinkedHead DEF VerifiesAt, Verifies
<1>2. DOMAIN file = 1 .. Len(file)
  BY LenProperties
<1>3. \A i \in 1 .. Len(file) : file[i].ref = RefOf[file[i].record]
  BY <1>2 DEF VerifiesAt, Verifies, AllRecompute, RowRecomputes
<1> QED
  BY <1>1, <1>2, <1>3 DEF RecordRefs, RefsOf, ChainOf

-----------------------------------------------------------------------------
(* Types *)

LEMMA CustodyInitType == CustodyInit => CustodyTypeOK
<1> SUFFICES ASSUME CustodyInit PROVE CustodyTypeOK
  OBVIOUS
<1>1. file \in Seq(Row) /\ pins \subseteq JournalRefs
  BY EmptySeq DEF CustodyInit
<1>2. relinked \in BOOLEAN
  BY DEF CustodyInit
<1>3. edits \in 0 .. MaxEdits
  BY CustodyAssumption DEF CustodyInit
<1> QED
  BY <1>1, <1>2, <1>3 DEF CustodyTypeOK

LEMMA FileHeadTyped ==
    ASSUME NEW rs \in Seq(Row)
    PROVE  HeadOf(rs) \in JournalRefs
<1>1. CASE rs = << >>
  BY <1>1 DEF HeadOf, GENESIS, JournalRefs
<1>2. CASE rs # << >>
  <2>1. Len(rs) \in 1 .. Len(rs)
    BY <1>2, LenProperties, EmptySeq
  <2>2. rs[Len(rs)] \in Row
    BY <2>1, ElementOfSeq
  <2> QED
    BY <1>2, <2>2 DEF HeadOf, Row
<1> QED
  BY <1>1, <1>2

\* Cutting rows out of a journal, or copying them, leaves rows.
LEMMA SpliceTyped ==
    ASSUME NEW rs \in Seq(Row), NEW i \in 1 .. Len(rs), NEW j \in 1 .. Len(rs)
    PROVE  /\ SubSeq(rs, 1, i - 1) \in Seq(Row)
           /\ SubSeq(rs, i + 1, Len(rs)) \in Seq(Row)
           /\ SubSeq(rs, 1, j - 1) \in Seq(Row)
           /\ SubSeq(rs, j, Len(rs)) \in Seq(Row)
           /\ <<rs[i]>> \in Seq(Row)
<1>1. Len(rs) \in Nat
  BY LenProperties
<1>2. \A k \in 1 .. Len(rs) : rs[k] \in Row
  BY ElementOfSeq
<1>3. \A m \in 1 .. Len(rs) + 1, n \in 0 .. Len(rs) : SubSeq(rs, m, n) \in Seq(Row)
  BY <1>1, <1>2, SubSeqProperties
<1> QED
  BY <1>1, <1>2, <1>3

LEMMA CustodyNextType == CustodyTypeOK /\ [CustodyNext]_custodyVars => CustodyTypeOK'
<1> SUFFICES ASSUME CustodyTypeOK, [CustodyNext]_custodyVars PROVE CustodyTypeOK'
  OBVIOUS
<1>T. file \in Seq(Row) /\ Len(file) \in Nat /\ DOMAIN file = 1 .. Len(file)
  BY LenProperties DEF CustodyTypeOK
<1>E. ASSUME NEW rs \in Seq(Row), Edit(rs)
      PROVE  CustodyTypeOK'
  BY <1>E, CustodyAssumption DEF Edit, CustodyTypeOK
<1>1. ASSUME NEW r \in ValidRecord, AppendEntry(r)
      PROVE  CustodyTypeOK'
  <2>1. /\ EntryFor(r, HeadOf(file)) \in Row
        /\ EntryFor(r, HeadOf(file)).jref \in JournalRefs
    BY <1>T, FileHeadTyped, EntryIsRow DEF Row
  <2>2. file' \in Seq(Row)
    BY <1>1, <1>T, <2>1, AppendRow DEF AppendEntry
  <2> QED
    BY <1>1, <2>1, <2>2 DEF AppendEntry, CustodyTypeOK
<1>2. ASSUME NEW i \in DOMAIN file, Remove(i)
      PROVE  CustodyTypeOK'
  <2>1. SubSeq(file, 1, i - 1) \o SubSeq(file, i + 1, Len(file)) \in Seq(Row)
    BY <1>T, SpliceTyped, ConcatProperties
  <2> QED
    BY <1>2, <2>1, <1>E DEF Remove
<1>3. ASSUME NEW i \in DOMAIN file, NEW j \in DOMAIN file, Exchange(i, j)
      PROVE  CustodyTypeOK'
  <2>1. [file EXCEPT ![i] = file[j], ![j] = file[i]] \in Seq(Row)
    BY <1>T, ElementOfSeq, ExceptSeq
  <2> QED
    BY <1>3, <2>1, <1>E DEF Exchange
<1>4. ASSUME NEW i \in DOMAIN file, NEW j \in DOMAIN file, Duplicate(i, j)
      PROVE  CustodyTypeOK'
  <2>1. SubSeq(file, 1, j - 1) \o <<file[i]>> \o SubSeq(file, j, Len(file)) \in Seq(Row)
    BY <1>T, SpliceTyped, ConcatProperties
  <2> QED
    BY <1>4, <2>1, <1>E DEF Duplicate
<1>5. ASSUME NEW i \in DOMAIN file, NEW r \in Record, ReplaceRecord(i, r)
      PROVE  CustodyTypeOK'
  <2>1. [file[i] EXCEPT !.record = r] \in Row
    <3> DEFINE row == file[i]
    <3>1. row \in Row
      BY <1>T, ElementOfSeq
    <3> HIDE DEF row
    <3>2. [row EXCEPT !.record = r] \in Row
      BY <3>1 DEF Row
    <3> QED
      BY <3>2 DEF row
  <2>2. [file EXCEPT ![i] = [file[i] EXCEPT !.record = r]] \in Seq(Row)
    BY <1>T, <2>1, ExceptSeq
  <2> QED
    BY <1>5, <2>2, <1>E DEF ReplaceRecord
<1>6. ASSUME NEW i \in DOMAIN file, NEW ref \in Ref, NEW label \in Label,
             ReplaceColumns(i, ref, label)
      PROVE  CustodyTypeOK'
  <2>1. [file[i] EXCEPT !.ref = ref, !.label = label] \in Row
    <3> DEFINE row == file[i]
    <3>1. row \in Row
      BY <1>T, ElementOfSeq
    <3> HIDE DEF row
    <3>2. [row EXCEPT !.ref = ref, !.label = label] \in Row
      BY <3>1 DEF Row
    <3> QED
      BY <3>2 DEF row
  <2>2. [file EXCEPT ![i] = [file[i] EXCEPT !.ref = ref, !.label = label]] \in Seq(Row)
    BY <1>T, <2>1, ExceptSeq
  <2> QED
    BY <1>6, <2>2, <1>E DEF ReplaceColumns
<1>7. ASSUME NEW rs \in Forgeries, Relink(rs)
      PROVE  CustodyTypeOK'
  <2>1. PICK n \in 0 .. MaxKept : rs \in [1 .. n -> ValidRecord]
    BY DEF Forgeries
  <2>2. ASSUME NEW i \in 1 .. n
        PROVE  EntryFor(rs[i], [j \in 1 .. i - 1 |-> RefOf[rs[j]]]) \in Row
    <3>1. [j \in 1 .. i - 1 |-> RefOf[rs[j]]] \in JournalRefs
      BY <2>1, CustodyAssumption, RecordAssumption DEF JournalRefs
    <3> QED
      BY <2>1, <3>1, EntryIsRow
  <2>3. file' \in Seq(Row)
    BY <1>7, <2>1, <2>2, CustodyAssumption DEF Relink
  <2> QED
    BY <1>7, <2>3, CustodyAssumption DEF Relink, CustodyTypeOK
<1>8. CASE UNCHANGED custodyVars
  BY <1>8 DEF custodyVars, CustodyTypeOK
<1> QED
  BY <1>1, <1>2, <1>3, <1>4, <1>5, <1>6, <1>7, <1>8 DEF CustodyNext, KeeperStep

\* Whatever the keeper does to the file, every variable keeps its type.
THEOREM CustodyTypeCorrect == CustodySpec => []CustodyTypeOK
BY CustodyInitType, CustodyNextType, PTL DEF CustodySpec

\* verify(expected_head=h) passes only on the journal h was returned for.
THEOREM PinnedVerifyAlwaysExact == CustodySpec => []PinnedVerifyIsExact
<1>1. CustodyTypeOK => PinnedVerifyIsExact
  BY PinIsExact DEF CustodyTypeOK, PinnedVerifyIsExact
<1> QED
  BY <1>1, CustodyTypeCorrect, PTL

-----------------------------------------------------------------------------
(* Without a pin *)

\* Until somebody else computes journal_refs, every journal_ref in the file
\* is one that an append returned.
JrefsPinned == relinked \/ \A k \in 1 .. Len(file) : file[k].jref \in pins

\* A file whose journal_refs all come from the file before.
JrefsFrom(rs) ==
    \A k \in 1 .. Len(rs) : \E m \in 1 .. Len(file) : rs[k].jref = file[m].jref

LEMMA SpliceFrom ==
    ASSUME CustodyTypeOK, NEW i \in DOMAIN file, NEW j \in DOMAIN file
    PROVE  /\ JrefsFrom(SubSeq(file, 1, i - 1) \o SubSeq(file, i + 1, Len(file)))
           /\ JrefsFrom(SubSeq(file, 1, j - 1) \o <<file[i]>> \o SubSeq(file, j, Len(file)))
<1> DEFINE n == Len(file)
<1>1. file \in Seq(Row) /\ n \in Nat /\ DOMAIN file = 1 .. n
  BY LenProperties DEF CustodyTypeOK
<1>2. ASSUME NEW a \in 1 .. n + 1, NEW b \in 0 .. n
      PROVE  /\ SubSeq(file, a, b) \in Seq(Row)
             /\ JrefsFrom(SubSeq(file, a, b))
  <2>1. \A k \in 1 .. n : file[k] \in Row
    BY <1>1, ElementOfSeq
  <2>2. SubSeq(file, a, b) \in Seq(Row)
    BY <1>1, <2>1, SubSeqProperties
  <2> QED
    BY <1>1, <2>2, SubSeqProperties DEF JrefsFrom
<1>3. ASSUME NEW s \in Seq(Row), NEW t \in Seq(Row), JrefsFrom(s), JrefsFrom(t)
      PROVE  s \o t \in Seq(Row) /\ JrefsFrom(s \o t)
  <2>1. /\ s \o t \in Seq(Row)
        /\ Len(s \o t) = Len(s) + Len(t)
        /\ \A k \in 1 .. Len(s) + Len(t) :
              (s \o t)[k] = IF k <= Len(s) THEN s[k] ELSE t[k - Len(s)]
    BY ConcatProperties
  <2>2. Len(s) \in Nat /\ Len(t) \in Nat
    BY LenProperties
  <2>3. ASSUME NEW k \in 1 .. Len(s) + Len(t)
        PROVE  \E m \in 1 .. Len(file) : (s \o t)[k].jref = file[m].jref
    <3>1. CASE k <= Len(s)
      <4>1. (s \o t)[k] = s[k] /\ k \in 1 .. Len(s)
        BY <2>1, <2>2, <3>1
      <4> QED
        BY <1>3, <4>1 DEF JrefsFrom
    <3>2. CASE ~(k <= Len(s))
      <4>1. k - Len(s) \in 1 .. Len(t)
        BY <2>2, <3>2
      <4>2. (s \o t)[k] = t[k - Len(s)]
        BY <2>1, <3>2
      <4>3. \E m \in 1 .. Len(file) : t[k - Len(s)].jref = file[m].jref
        BY <1>3, <4>1 DEF JrefsFrom
      <4> QED
        BY <4>2, <4>3
    <3> QED
      BY <3>1, <3>2
  <2> QED
    BY <2>1, <2>3 DEF JrefsFrom
<1>4. <<file[i]>> \in Seq(Row) /\ JrefsFrom(<<file[i]>>)
  BY <1>1, ElementOfSeq DEF JrefsFrom
<1>5. /\ 1 \in 1 .. n + 1 /\ i + 1 \in 1 .. n + 1 /\ j \in 1 .. n + 1
      /\ i - 1 \in 0 .. n /\ j - 1 \in 0 .. n /\ n \in 0 .. n
  BY <1>1
<1>6. \A a \in 1 .. n + 1, b \in 0 .. n :
        SubSeq(file, a, b) \in Seq(Row) /\ JrefsFrom(SubSeq(file, a, b))
  BY <1>2
<1>7. \A s, t \in Seq(Row) : JrefsFrom(s) /\ JrefsFrom(t) =>
        s \o t \in Seq(Row) /\ JrefsFrom(s \o t)
  BY <1>3
<1>8. JrefsFrom(SubSeq(file, 1, i - 1) \o SubSeq(file, i + 1, Len(file)))
  BY <1>5, <1>6, <1>7
<1>9. /\ SubSeq(file, 1, j - 1) \o <<file[i]>> \in Seq(Row)
      /\ JrefsFrom(SubSeq(file, 1, j - 1) \o <<file[i]>>)
  BY <1>4, <1>5, <1>6, <1>7
<1>10. JrefsFrom(SubSeq(file, 1, j - 1) \o <<file[i]>> \o SubSeq(file, j, Len(file)))
  BY <1>5, <1>6, <1>7, <1>9
<1> QED
  BY <1>8, <1>10

LEMMA JrefsPinnedStep == CustodyTypeOK /\ JrefsPinned /\ [CustodyNext]_custodyVars => JrefsPinned'
<1> SUFFICES ASSUME CustodyTypeOK, JrefsPinned, [CustodyNext]_custodyVars PROVE JrefsPinned'
  OBVIOUS
<1>T. file \in Seq(Row) /\ Len(file) \in Nat /\ DOMAIN file = 1 .. Len(file)
  BY LenProperties DEF CustodyTypeOK
<1>E. ASSUME NEW rs, Edit(rs), JrefsFrom(rs)
      PROVE  JrefsPinned'
  BY <1>E DEF Edit, JrefsFrom, JrefsPinned
<1>1. ASSUME NEW r \in ValidRecord, AppendEntry(r)
      PROVE  JrefsPinned'
  <2> DEFINE entry == EntryFor(r, HeadOf(file))
  <2>1. entry \in Row
    BY <1>T, FileHeadTyped, EntryIsRow
  <2>2. file' = Append(file, entry) /\ pins' = pins \cup {entry.jref}
        /\ relinked' = relinked
    BY <1>1 DEF AppendEntry
  <2> HIDE DEF entry
  <2>3. /\ Len(file') = Len(file) + 1
        /\ \A k \in 1 .. Len(file) : file'[k] = file[k]
        /\ file'[Len(file) + 1] = entry
    BY <1>T, <2>1, <2>2, AppendRow
  <2> QED
    BY <1>T, <2>2, <2>3 DEF JrefsPinned
<1>2. ASSUME NEW i \in DOMAIN file, Remove(i)
      PROVE  JrefsPinned'
  BY <1>2, <1>E, SpliceFrom DEF Remove
<1>3. ASSUME NEW i \in DOMAIN file, NEW j \in DOMAIN file, Exchange(i, j)
      PROVE  JrefsPinned'
  <2>1. JrefsFrom([file EXCEPT ![i] = file[j], ![j] = file[i]])
    BY <1>T DEF JrefsFrom
  <2> QED
    BY <1>3, <2>1, <1>E DEF Exchange
<1>4. ASSUME NEW i \in DOMAIN file, NEW j \in DOMAIN file, Duplicate(i, j)
      PROVE  JrefsPinned'
  BY <1>4, <1>E, SpliceFrom DEF Duplicate
<1>5. ASSUME NEW i \in DOMAIN file, NEW r \in Record, ReplaceRecord(i, r)
      PROVE  JrefsPinned'
  <2>1. [file[i] EXCEPT !.record = r].jref = file[i].jref
    BY <1>T, ElementOfSeq DEF Row
  <2>2. JrefsFrom([file EXCEPT ![i] = [file[i] EXCEPT !.record = r]])
    BY <1>T, <2>1 DEF JrefsFrom
  <2> QED
    BY <1>5, <2>2, <1>E DEF ReplaceRecord
<1>6. ASSUME NEW i \in DOMAIN file, NEW ref \in Ref, NEW label \in Label,
             ReplaceColumns(i, ref, label)
      PROVE  JrefsPinned'
  <2>1. [file[i] EXCEPT !.ref = ref, !.label = label].jref = file[i].jref
    BY <1>T, ElementOfSeq DEF Row
  <2>2. JrefsFrom([file EXCEPT ![i] = [file[i] EXCEPT !.ref = ref, !.label = label]])
    BY <1>T, <2>1 DEF JrefsFrom
  <2> QED
    BY <1>6, <2>2, <1>E DEF ReplaceColumns
<1>7. ASSUME NEW rs \in Forgeries, Relink(rs)
      PROVE  JrefsPinned'
  BY <1>7 DEF Relink, JrefsPinned
<1>8. CASE UNCHANGED custodyVars
  BY <1>8 DEF custodyVars, JrefsPinned
<1> QED
  BY <1>1, <1>2, <1>3, <1>4, <1>5, <1>6, <1>7, <1>8 DEF CustodyNext, KeeperStep

\* Also without a pin, until somebody else computes the links, the journals
\* that verify are those that some append left behind.
THEOREM UnpinnedVerifyAlwaysAPrefix == CustodySpec => []UnpinnedVerifyIsAPrefix
<1>1. CustodyInit => JrefsPinned
  BY DEF CustodyInit, JrefsPinned
<1>2. CustodyTypeOK /\ JrefsPinned => UnpinnedVerifyIsAPrefix
  <2> SUFFICES ASSUME CustodyTypeOK, JrefsPinned, ~relinked, Verifies(file)
               PROVE  RefsOf(file) \in pins
    BY DEF UnpinnedVerifyIsAPrefix
  <2>1. file \in Seq(Row) /\ file # << >> /\ Linked(file)
    BY DEF CustodyTypeOK, Verifies
  <2>2. Len(file) \in 1 .. Len(file)
    BY <2>1, LenProperties, EmptySeq
  <2>3. HeadOf(file) \in pins
    BY <2>1, <2>2 DEF HeadOf, JrefsPinned
  <2> QED
    BY <2>1, <2>3, LinkedHead
<1> QED
  BY <1>1, <1>2, JrefsPinnedStep, CustodyTypeCorrect, PTL DEF CustodySpec
=============================================================================
