--------------------------- MODULE RetentionChain ---------------------------
(***************************************************************************)
(* The retention chain (algovoi_retention_chain): an issuer numbers        *)
(* receipts and gives each record a chain_ref, a custodian keeps the       *)
(* records, and an auditor runs `verify_chain_sequence` on what the        *)
(* custodian hands over, with or without pins.                             *)
(*                                                                         *)
(* There are two kinds of chain_ref.  The legacy one (v1, what the HTTP    *)
(* service computes) covers the record's own fields; the linked one also   *)
(* covers the chain_ref of the record before it.  A chain_ref is what it   *)
(* hashes.  No key is involved, so a custodian can recompute any of them.  *)
(***************************************************************************)
EXTENDS Integers, Sequences

CONSTANTS
    Receipt,    \* receipt hashes
    Issuer,
    MaxLength,  \* bound: records issued
    MaxEdits    \* bound: changes of content made by the custodian

\* The empty string, which stands before the first record.
Empty == << >>

ASSUME RetentionAssumption ==
    /\ Empty \notin Receipt
    /\ MaxLength \in Nat
    /\ MaxEdits \in Nat

VARIABLES
    chain,    \* what the issuer issued
    records,  \* what the custodian has
    edits     \* changes of content made by the custodian so far

vars == <<chain, records, edits>>

-----------------------------------------------------------------------------
(* References *)

\* An argument, or a field of a preimage, that may be left out.
None == << >>
Given(x) == <<x>>

\* The preimage of _chain_ref; a legacy one has no prev_chain_ref.
ChainRef(rec, prevRef) ==
    [chain_seq |-> rec.chain_seq, issuer_id |-> rec.issuer_id,
     prev_receipt_hash |-> rec.prev_receipt_hash,
     receipt_hash |-> rec.receipt_hash, prev_chain_ref |-> prevRef]

\* What the two primitives raise ValueError for, beyond the types of fields:
\* only the first record of a chain has nothing before it.
Computable(rec, prevRef) ==
    /\ rec.chain_seq = 0 <=> rec.prev_receipt_hash = Empty
    /\ rec.receipt_hash # Empty
    /\ prevRef # None => (rec.chain_seq = 0 <=> prevRef = Given(Empty))

\* Fault: a link is only checked against the record itself.
VerifyUnlinked(rec, prevRef) ==
    Computable(rec, prevRef)
    /\ rec.chain_ref \in {ChainRef(rec, p) : p \in {None, rec.chain_ref.prev_chain_ref}}

\* verify_chain_link
VerifyChainLink(rec, prevRef) ==
    Computable(rec, prevRef) /\ rec.chain_ref = ChainRef(rec, prevRef)

\* The chain_ref the i-th record is linked to: that of the one before it.
PrevRef(recs, i) == Given(IF i > 1 THEN recs[i - 1].chain_ref ELSE Empty)

\* Fault: consecutive records need not be consecutively numbered.
AnyNumber(recs, i) == i > 1 => recs[i].prev_receipt_hash = recs[i - 1].receipt_hash

\* The i-th record follows the one before it.
Adjacent(recs, i) ==
    i > 1 => /\ recs[i].chain_seq = recs[i - 1].chain_seq + 1
             /\ recs[i].prev_receipt_hash = recs[i - 1].receipt_hash

\* Fault: the head that is compared is the one of the first record.
FirstIsHead(recs, head) == head \in {None, Given(recs[1].chain_ref)}

\* The comparison with expected_head.
HeadMatches(recs, head) == head \in {None, Given(recs[Len(recs)].chain_ref)}

\* verify_chain_sequence, with its keyword arguments.
VerifyChainSequence(recs, expectedLength, expectedHead, requireGenesis, allowLegacy) ==
    /\ expectedLength \in {None, Given(Len(recs))}
    /\ recs # << >> =>
        /\ requireGenesis => recs[1].chain_seq = 0
        /\ \A i \in DOMAIN recs :
            /\ \/ VerifyChainLink(recs[i], PrevRef(recs, i))
               \/ allowLegacy /\ VerifyChainLink(recs[i], None)
            /\ Adjacent(recs, i)
        /\ HeadMatches(recs, expectedHead)

-----------------------------------------------------------------------------
(* The issuer, the custodian *)

Init == chain = << >> /\ records = << >> /\ edits = 0

\* The record of a receipt at the end of the chain, with a legacy or a linked ref.
RecordFor(receipt, issuer, linked) ==
    LET n == Len(chain)
        rec == [chain_seq |-> n, issuer_id |-> issuer, receipt_hash |-> receipt,
                prev_receipt_hash |-> IF n = 0 THEN Empty ELSE chain[n].receipt_hash,
                chain_ref |-> None]
    IN [rec EXCEPT !.chain_ref =
            ChainRef(rec, IF linked THEN PrevRef(chain, n + 1) ELSE None)]

\* retention_chain_ref and retention_chain_ref_linked, as an issuer calls them.
Issue(receipt, issuer, linked) ==
    /\ Len(chain) < MaxLength
    /\ edits = 0
    /\ chain' = Append(chain, RecordFor(receipt, issuer, linked))
    /\ records' = chain'
    /\ UNCHANGED edits

Edit(recs) ==
    /\ edits < MaxEdits
    /\ edits' = edits + 1
    /\ records' = recs
    /\ UNCHANGED chain

\* The chain_ref of the i-th record is recomputed, alone or linked to what is
\* before it; re-deriving a whole chain is doing so from the first to the last.
Resign(i, prevRef) ==
    /\ records' = [records EXCEPT ![i].chain_ref = ChainRef(records[i], prevRef)]
    /\ UNCHANGED <<chain, edits>>

CustodianStep ==
    \/ \E i \in DOMAIN records :
        \/ \E n \in 0 .. MaxLength : Edit([records EXCEPT ![i].chain_seq = n])
        \/ \E x \in Issuer : Edit([records EXCEPT ![i].issuer_id = x])
        \/ \E h \in Receipt \cup {Empty} : Edit([records EXCEPT ![i].receipt_hash = h])
        \/ \E h \in Receipt \cup {Empty} : Edit([records EXCEPT ![i].prev_receipt_hash = h])
        \/ \E p \in {None, PrevRef(records, i)} : Resign(i, p)
    \/ \E i \in 1 .. Len(records) + 1 : \E j \in i - 1 .. Len(records) :
        Edit(SubSeq(records, i, j))

Next ==
    \/ \E h \in Receipt, x \in Issuer, linked \in BOOLEAN : Issue(h, x, linked)
    \/ CustodianStep

Spec == Init /\ [][Next]_vars

-----------------------------------------------------------------------------
(* Properties *)

Linked(rec) == rec.chain_ref.prev_chain_ref # None

\* What verify_chain_sequence says of the records when head is pinned.
Accepted(head) == VerifyChainSequence(records, None, head, FALSE, FALSE)
AcceptedLegacy(head) == VerifyChainSequence(records, None, head, FALSE, TRUE)

IsRecord(rec) ==
    /\ rec.chain_seq \in 0 .. MaxLength
    /\ rec.issuer_id \in Issuer
    /\ rec.receipt_hash \in Receipt \cup {Empty}
    /\ rec.prev_receipt_hash \in Receipt \cup {Empty}

\* Every variable has its type; chain_refs are whatever was hashed.
TypeOK ==
    /\ \A i \in DOMAIN chain : IsRecord(chain[i]) /\ chain[i].chain_seq < MaxLength
    /\ \A i \in DOMAIN records : IsRecord(records[i])
    /\ Len(chain) <= MaxLength /\ Len(records) <= MaxLength
    /\ edits \in 0 .. MaxEdits

\* The CHANGELOG's "pinning the head transitively commits to every earlier
\* record": records that verify with the ref of an issued record as
\* expected_head are the records issued up to it, whatever the custodian did.
PinnedVerifyIsExact ==
    \A n \in DOMAIN chain :
        records # << >> /\ Accepted(Given(chain[n].chain_ref)) => records = SubSeq(chain, 1, n)

\* What allow_legacy_v1 gives up: a pinned head then stands for its own record
\* and, as long as the issued refs are linked, for the records before it; the
\* first legacy ref ends the commitment.  With require_genesis the number
\* of records is still the issued one.
LegacyPinReachesBack ==
    \A n \in DOMAIN chain :
        records # << >> /\ AcceptedLegacy(Given(chain[n].chain_ref)) =>
            /\ \A k \in 1 .. n :
                (\A j \in k + 1 .. n : Linked(chain[j])) =>
                    /\ Len(records) > n - k
                    /\ records[Len(records) - (n - k)] = chain[k]
            /\ records[1].chain_seq = 0 => Len(records) = n

\* Without any pin, what verifies is one whole chain from its origin: no
\* interior slice, no gap, no repeated or reordered record.
AcceptedFromOrigin ==
    Accepted(None) =>
        \A i \in DOMAIN records :
            /\ records[i].chain_seq = i - 1
            /\ records[i].prev_receipt_hash
                 = IF i = 1 THEN Empty ELSE records[i - 1].receipt_hash

\* What an issuer hands over verifies: any prefix of a linked chain, pinned at
\* its head and length, and any prefix at all with allow_legacy_v1.
IssuedVerifies ==
    \A n \in 0 .. Len(chain) :
        LET issued == SubSeq(chain, 1, n)
            head == IF n = 0 THEN None ELSE Given(chain[n].chain_ref)
        IN /\ (\A i \in 1 .. n : Linked(chain[i]))
                => VerifyChainSequence(issued, Given(n), head, TRUE, FALSE)
           /\ VerifyChainSequence(issued, Given(n), head, TRUE, TRUE)

\* What scripts/acceptance.py checks and the package's README asserts: a chain
\* of the refs of retention_chain_ref, the only ones the service computes,
\* verifies without any option, as the service verifies it.
ServiceVerifiesItsChains ==
    (\A i \in DOMAIN chain : ~Linked(chain[i]))
        => VerifyChainSequence(chain, None, None, FALSE, FALSE)
=============================================================================
