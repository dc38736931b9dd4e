---------------------------- MODULE JournalRows ----------------------------
(***************************************************************************)
(* The rows of a runtime Journal and everything `Journal.verify` computes  *)
(* from them (algovoi_keystone_runtime).  This module is pure: Journal     *)
(* adds the connections that write the table, JournalCustody the hands the *)
(* file passes through between two audits.                                 *)
(*                                                                         *)
(* A sha256 reference is represented by its preimage, that is, the hash is *)
(* taken to be collision free.  A journal_ref is keystone_ref({prev,       *)
(* record_ref}) and its first prev is GENESIS, so a journal_ref is the     *)
(* sequence of the record_refs it chains, oldest first.                    *)
(***************************************************************************)
EXTENDS Integers, Sequences

CONSTANTS
    Record,       \* the JSON objects a caller may hand to append
    ValidRecord,  \* the records whose own reference recomputes (verify_record)
    Ref,          \* record references
    Label,        \* the other columns _classify derives: kind, stage, decision
    RefOf,        \* record_ref of a valid record; an execution_ref does not
                  \* cover extra fields, so RefOf is not one-to-one
    LabelOf       \* kind, stage and decision_ref of a valid record; "stage"
                  \* is such an extra field of an execution record

ASSUME RecordAssumption ==
    /\ ValidRecord \subseteq Record
    /\ RefOf \in [ValidRecord -> Ref]
    /\ LabelOf \in [ValidRecord -> Label]

-----------------------------------------------------------------------------
(* References and rows *)

JournalRefs == Seq(Ref)

GENESIS == << >>

\* Fault: the hash leaves the previous head out.
JournalRefAlone(prev, ref) == <<ref>>

\* keystone_ref({"prev": prev, "record_ref": ref})
JournalRef(prev, ref) == Append(prev, ref)

Row == [record: Record, ref: Ref, label: Label,
        prev: JournalRefs, jref: JournalRefs]

\* The row `append` inserts for the valid record r behind the head prev.
EntryFor(r, prev) ==
    [record |-> r, ref |-> RefOf[r], label |-> LabelOf[r],
     prev |-> prev, jref |-> JournalRef(prev, RefOf[r])]

\* The record_refs of the first n rows, in seq order: what journal_ref n
\* stands for in an intact journal.
ChainOf(rs, n) == [i \in 1 .. n |-> rs[i].ref]

\* The record_ref column.
RefsOf(rs) == ChainOf(rs, Len(rs))

\* h is the chain of a non-empty prefix of rs.
Anchors(h, rs) == \E n \in 1 .. Len(rs) : h = ChainOf(rs, n)

HeadOf(rs) == IF rs = << >> THEN GENESIS ELSE rs[Len(rs)].jref

-----------------------------------------------------------------------------
(* Journal.verify *)

\* The `prev` that verify carries into row i.
CarriedHead(rs, i) == IF i = 1 THEN GENESIS ELSE rs[i - 1].jref

\* A row's record recomputes and its columns are those _classify gives.
RowRecomputes(row) ==
    /\ row.record \in ValidRecord
    /\ row.ref = RefOf[row.record]
    /\ row.label = LabelOf[row.record]

AllRecompute(rs) == \A i \in DOMAIN rs : RowRecomputes(rs[i])

\* Fault: the stored journal_ref is taken at its word.
LinkedByPrev(rs) ==
    \A i \in DOMAIN rs : rs[i].prev = CarriedHead(rs, i)

\* Each row names the journal_ref before it and its own hash recomputes.
Linked(rs) ==
    \A i \in DOMAIN rs :
        /\ rs[i].prev = CarriedHead(rs, i)
        /\ rs[i].jref = JournalRef(CarriedHead(rs, i), rs[i].ref)

\* verify().ok without a pin: an empty journal never passes.
Verifies(rs) == rs # << >> /\ AllRecompute(rs) /\ Linked(rs)

\* verify(expected_head=h).ok
VerifiesAt(rs, h) == Verifies(rs) /\ HeadOf(rs) = h
=============================================================================
