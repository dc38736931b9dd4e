-------------------------- MODULE RetentionProofs ---------------------------
(***************************************************************************)
(* Proofs about RetentionChain: what a verified sequence of records says,  *)
(* whoever wrote them, for any receipts, issuers and bounds.               *)
(***************************************************************************)
EXTENDS RetentionChain, TLAPS, SequenceTheorems, WellFoundedInduction

\* Records whose chain_refs are in R.
RecordOf(R) ==
    [chain_seq: 0 .. MaxLength, issuer_id: Issuer, receipt_hash: Receipt \cup {Empty},
     prev_receipt_hash: Receipt \cup {Empty}, chain_ref: R]

\* Sequences of records, whatever their chain_refs.
Typed(recs) == \E R : recs \in Seq(RecordOf(R))

\* A record has its five fields and no other.
Whole(a) == a = [chain_seq |-> a.chain_seq, issuer_id |-> a.issuer_id,
                 receipt_hash |-> a.receipt_hash,
                 prev_receipt_hash |-> a.prev_receipt_hash, chain_ref |-> a.chain_ref]

LEMMA TypedRecords ==
    ASSUME NEW recs, Typed(recs)
    PROVE  /\ Len(recs) \in Nat
           /\ DOMAIN recs = 1 .. Len(recs)
           /\ recs = [i \in 1 .. Len(recs) |-> recs[i]]
           /\ \A i \in 1 .. Len(recs) : IsRecord(recs[i]) /\ Whole(recs[i])
           /\ recs # << >> <=> Len(recs) > 0
<1>1. PICK R : recs \in Seq(RecordOf(R))
  BY DEF Typed
<1>2. /\ Len(recs) \in Nat
      /\ DOMAIN recs = 1 .. Len(recs)
      /\ recs = [i \in 1 .. Len(recs) |-> recs[i]]
      /\ \A i \in 1 .. Len(recs) : recs[i] \in RecordOf(R)
  BY <1>1, LenProperties, ElementOfSeq
<1>3. recs # << >> <=> Len(recs) > 0
  BY <1>1, <1>2, EmptySeq
<1> QED
  BY <1>2, <1>3 DEF RecordOf, IsRecord, Whole

\* A non-empty set of natural numbers has a least element.
LEMMA LeastNumber ==
    ASSUME NEW T, T \subseteq Nat, T # {}
    PROVE  \E n \in T : \A m \in T : n <= m
<1>1. PICK n \in T : \A m \in T : ~(<<m, n>> \in OpToRel(<, Nat))
  BY WFMin, NatLessThanWellFounded
<1>2. \A m \in T : ~(m < n)
  BY <1>1 DEF OpToRel
<1> QED
  BY <1>2

-----------------------------------------------------------------------------
(* What verify_chain_sequence accepts *)

\* Records that follow one another from a record numbered zero are numbered
\* by their position: look at the first that is not.
LEMMA Numbered ==
    ASSUME NEW recs, Typed(recs), Len(recs) > 0, recs[1].chain_seq = 0,
           \A i \in DOMAIN recs : Adjacent(recs, i)
    PROVE  \A i \in 1 .. Len(recs) : recs[i].chain_seq = i - 1
<1> DEFINE Bad == {i \in 1 .. Len(recs) : recs[i].chain_seq # i - 1}
<1> SUFFICES ASSUME Bad # {} PROVE FALSE
  OBVIOUS
<1>1. PICK n \in Bad : \A m \in Bad : n <= m
  <2>1. Bad \subseteq Nat
    BY TypedRecords
  <2> QED
    BY <2>1, LeastNumber
<1>2. n > 1 /\ n - 1 \in 1 .. Len(recs) /\ n \in DOMAIN recs
  BY <1>1, TypedRecords
<1>3. recs[n - 1].chain_seq = (n - 1) - 1
  BY <1>1, <1>2, SMTT(30)
<1>4. recs[n].chain_seq = recs[n - 1].chain_seq + 1
  BY <1>2 DEF Adjacent
<1> QED
  BY <1>1, <1>2, <1>3, <1>4, TypedRecords

\* Records accepted with linked refs only start at the origin.
LEMMA AcceptedStart ==
    ASSUME NEW recs, NEW head, Typed(recs), recs # << >>,
           VerifyChainSequence(recs, None, head, FALSE, FALSE)
    PROVE  /\ recs[1].chain_seq = 0
           /\ recs[1].prev_receipt_hash = Empty
           /\ \A i \in 1 .. Len(recs) :
                /\ VerifyChainLink(recs[i], PrevRef(recs, i))
                /\ Adjacent(recs, i)
                /\ recs[i].chain_seq = i - 1
           /\ HeadMatches(recs, head)
<1>1. /\ \A i \in 1 .. Len(recs) :
            VerifyChainLink(recs[i], PrevRef(recs, i)) /\ Adjacent(recs, i)
      /\ HeadMatches(recs, head)
      /\ 1 \in 1 .. Len(recs)
  BY TypedRecords DEF VerifyChainSequence
<1>2. Computable(recs[1], Given(Empty))
  BY <1>1 DEF VerifyChainLink, PrevRef
<1>3. recs[1].chain_seq = 0 /\ recs[1].prev_receipt_hash = Empty
  BY <1>2 DEF Computable, Given, None
<1> QED
  BY <1>1, <1>3, Numbered, TypedRecords

-----------------------------------------------------------------------------
(* What a pinned head stands for *)

\* The records of the chain, numbered, each of a receipt and with that of the
\* one before it, and with a ref of one of the two kinds.
Issued ==
    /\ Typed(chain)
    /\ \A i \in 1 .. Len(chain) :
        /\ chain[i].chain_seq = i - 1
        /\ chain[i].receipt_hash \in Receipt
        /\ chain[i].prev_receipt_hash = IF i = 1 THEN Empty ELSE chain[i - 1].receipt_hash
        /\ \/ chain[i].chain_ref = ChainRef(chain[i], None)
           \/ chain[i].chain_ref = ChainRef(chain[i], PrevRef(chain, i))

\* Equal chain_refs, equal records.
LEMMA SameRecord ==
    ASSUME NEW a, NEW b, NEW p, NEW q, Whole(a), Whole(b),
           a.chain_ref = ChainRef(a, p), b.chain_ref = ChainRef(b, q),
           a.chain_ref = b.chain_ref
    PROVE  a = b /\ p = q
<1>1. ChainRef(a, p) = ChainRef(b, q)
  OBVIOUS
<1>2. /\ a.chain_seq = b.chain_seq
      /\ a.issuer_id = b.issuer_id
      /\ a.prev_receipt_hash = b.prev_receipt_hash
      /\ a.receipt_hash = b.receipt_hash
      /\ p = q
  BY <1>1 DEF ChainRef
<1> QED
  BY <1>2 DEF Whole

\* Every record of a verified sequence carries a ref of one of the two kinds.
Referenced(recs) ==
    \A i \in 1 .. Len(recs) :
        VerifyChainLink(recs[i], PrevRef(recs, i)) \/ VerifyChainLink(recs[i], None)

\* A record of the sequence and an issued one with the same ref are the same,
\* and if that ref is linked then so are their predecessors' refs.
LEMMA SameLink ==
    ASSUME Issued, NEW recs, Typed(recs), Referenced(recs),
           NEW i \in 1 .. Len(recs), NEW j \in 1 .. Len(chain),
           recs[i].chain_ref = chain[j].chain_ref
    PROVE  /\ recs[i] = chain[j]
           /\ Linked(chain[j]) /\ j > 1 =>
                i > 1 /\ recs[i - 1].chain_ref = chain[j - 1].chain_ref
<1>1. PICK p \in {None, PrevRef(recs, i)} : VerifyChainLink(recs[i], p)
  BY DEF Referenced
<1>2. PICK q \in {None, PrevRef(chain, j)} : chain[j].chain_ref = ChainRef(chain[j], q)
  BY DEF Issued
<1>3. recs[i] = chain[j] /\ p = q
  <2> DEFINE a == recs[i]
             b == chain[j]
  <2>1. Whole(a) /\ Whole(b) /\ a.chain_ref = b.chain_ref
    BY TypedRecords DEF Issued
  <2>2. a.chain_ref = ChainRef(a, p)
    BY <1>1 DEF VerifyChainLink
  <2>3. b.chain_ref = ChainRef(b, q)
    BY <1>2
  <2> HIDE DEF a, b
  <2>4. a = b /\ p = q
    BY <2>1, <2>2, <2>3, SameRecord
  <2> QED
    BY <2>4 DEF a, b
<1>4. ASSUME Linked(chain[j]), j > 1
      PROVE  i > 1 /\ recs[i - 1].chain_ref = chain[j - 1].chain_ref
  <2>1. q # None
    BY <1>2, <1>4 DEF Linked, ChainRef
  <2>2. p = PrevRef(recs, i) /\ p = PrevRef(chain, j)
    BY <2>1, <1>3, <1>1, <1>2
  <2>3. i > 1
    <3>1. chain[j].chain_seq = j - 1
      BY DEF Issued
    <3>2. recs[i].chain_seq # 0
      BY <3>1, <1>3, <1>4
    <3>3. p # Given(Empty)
      BY <1>1, <3>2, <2>1, <1>3 DEF VerifyChainLink, Computable
    <3> QED
      BY <3>3, <2>2 DEF PrevRef
  <2> QED
    BY <2>2, <2>3, <1>4 DEF PrevRef, Given
<1> QED
  BY <1>3, <1>4

\* The issued refs from the k-th, exclusive, to the n-th are linked.
LinkedFrom(k, n) == \A j \in k + 1 .. n : Linked(chain[j])

\* A pinned head reaches back over the linked refs: look at the distance from
\* the head at which it first does not.
LEMMA ReachesBack ==
    ASSUME Issued, NEW recs, Typed(recs), Referenced(recs), Len(recs) > 0,
           NEW n \in 1 .. Len(chain), HeadMatches(recs, Given(chain[n].chain_ref)),
           NEW k \in 1 .. n, LinkedFrom(k, n)
    PROVE  Len(recs) > n - k /\ recs[Len(recs) - (n - k)] = chain[k]
<1> DEFINE Agree(d) == Len(recs) > d /\ recs[Len(recs) - d] = chain[n - d]
           Bad == {d \in 0 .. n - k : ~Agree(d)}
<1>L. Len(recs) \in Nat /\ Len(chain) \in Nat
  BY TypedRecords DEF Issued
<1>1. SUFFICES ASSUME Bad # {} PROVE FALSE
  <2>1. n - k \in 0 .. n - k /\ n - (n - k) = k
    BY <1>L
  <2> QED
    BY <2>1
<1>2. PICK d \in Bad : \A m \in Bad : d <= m
  <2>1. Bad \subseteq Nat
    BY <1>L
  <2> HIDE DEF Bad
  <2> QED
    BY <1>1, <2>1, LeastNumber
<1>3. Agree(0)
  <2>1. recs[Len(recs)].chain_ref = chain[n].chain_ref
    BY DEF HeadMatches, Given, None
  <2>2. recs[Len(recs)] = chain[n]
    BY <2>1, <1>L, SameLink
  <2> QED
    BY <2>2, <1>L
<1>4. d > 0 /\ d - 1 \in 0 .. n - k /\ Agree(d - 1)
  <2>1. d \in 0 .. n - k /\ ~Agree(d)
    BY <1>2
  <2>2. d # 0
    <3> HIDE DEF Agree
    <3> QED
      BY <2>1, <1>3
  <2>3. d > 0 /\ d - 1 \in 0 .. n - k /\ ~(d <= d - 1)
    BY <2>1, <2>2, <1>L
  <2>4. d - 1 \notin Bad
    <3> HIDE DEF Bad
    <3> QED
      BY <2>3, <1>2
  <2>5. Agree(d - 1)
    <3> HIDE DEF Agree
    <3> QED
      BY <2>3, <2>4
  <2> QED
    BY <2>3, <2>5
<1>5. /\ Len(recs) - (d - 1) \in 1 .. Len(recs)
      /\ n - (d - 1) \in k + 1 .. n
      /\ n - (d - 1) \in 1 .. Len(chain)
      /\ n - (d - 1) > 1
      /\ (n - (d - 1)) - 1 = n - d
      /\ (Len(recs) - (d - 1)) - 1 = Len(recs) - d
  BY <1>2, <1>4, <1>L
<1>6. Len(recs) - (d - 1) > 1 /\ recs[Len(recs) - d].chain_ref = chain[n - d].chain_ref
  <2>1. Linked(chain[n - (d - 1)])
    BY <1>5 DEF LinkedFrom
  <2>2. recs[Len(recs) - (d - 1)].chain_ref = chain[n - (d - 1)].chain_ref
    BY <1>4
  <2> DEFINE i == Len(recs) - (d - 1)
             j == n - (d - 1)
  <2>3. /\ i \in 1 .. Len(recs) /\ j \in 1 .. Len(chain) /\ j > 1
        /\ Linked(chain[j]) /\ recs[i].chain_ref = chain[j].chain_ref
    BY <2>1, <2>2, <1>5
  <2>4. i - 1 = Len(recs) - d /\ j - 1 = n - d
    BY <1>5
  <2> HIDE DEF i, j
  <2>5. i > 1 /\ recs[i - 1].chain_ref = chain[j - 1].chain_ref
    BY <2>3, SameLink
  <2>6. i > 1 /\ recs[Len(recs) - d].chain_ref = chain[n - d].chain_ref
    BY <2>4, <2>5
  <2> QED
    BY <2>6 DEF i
<1>7. Len(recs) - d \in 1 .. Len(recs) /\ n - d \in 1 .. Len(chain)
  BY <1>5, <1>6, <1>2, <1>L
<1>8. recs[Len(recs) - d] = chain[n - d]
  <2>1. PICK i, j : i = Len(recs) - d /\ j = n - d
    OBVIOUS
  <2>2. i \in 1 .. Len(recs) /\ j \in 1 .. Len(chain) /\ recs[i].chain_ref = chain[j].chain_ref
    BY <1>6, <1>7, <2>1
  <2>3. recs[i] = chain[j]
    BY <2>2, SameLink
  <2> QED
    BY <2>1, <2>3
<1> QED
  BY <1>2, <1>7, <1>8, <1>L

\* What the pinned head says when legacy refs are allowed.
LEMMA LegacyPin ==
    ASSUME Issued, Typed(records) PROVE LegacyPinReachesBack
<1> SUFFICES ASSUME NEW n \in DOMAIN chain, records # << >>,
                    AcceptedLegacy(Given(chain[n].chain_ref))
             PROVE  /\ \A k \in 1 .. n :
                        (\A j \in k + 1 .. n : Linked(chain[j])) =>
                            /\ Len(records) > n - k
                            /\ records[Len(records) - (n - k)] = chain[k]
                    /\ records[1].chain_seq = 0 => Len(records) = n
  BY DEF LegacyPinReachesBack
<1>1. /\ Len(records) \in Nat \ {0} /\ Len(chain) \in Nat /\ n \in 1 .. Len(chain)
      /\ DOMAIN records = 1 .. Len(records)
  BY TypedRecords DEF Issued
<1>2. /\ Referenced(records)
      /\ \A i \in DOMAIN records : Adjacent(records, i)
      /\ HeadMatches(records, Given(chain[n].chain_ref))
  BY <1>1 DEF AcceptedLegacy, VerifyChainSequence, Referenced
<1>3. ASSUME NEW k \in 1 .. n, \A j \in k + 1 .. n : Linked(chain[j])
      PROVE  Len(records) > n - k /\ records[Len(records) - (n - k)] = chain[k]
  BY <1>1, <1>2, <1>3, ReachesBack DEF LinkedFrom
<1>4. ASSUME records[1].chain_seq = 0
      PROVE  Len(records) = n
  <2>1. records[Len(records)].chain_seq = Len(records) - 1
    BY <1>1, <1>2, <1>4, Numbered
  <2>2. records[Len(records)] = chain[n]
    <3>1. n \in 1 .. n /\ \A j \in n + 1 .. n : Linked(chain[j])
      BY <1>1
    <3>2. records[Len(records) - (n - n)] = chain[n]
      BY <3>1, <1>3
    <3> QED
      BY <3>2, <1>1
  <2>3. chain[n].chain_seq = n - 1
    BY <1>1 DEF Issued
  <2> QED
    BY <2>1, <2>2, <2>3, <1>1
<1> QED
  BY <1>3, <1>4

\* What the pinned head says by default.
LEMMA Pin ==
    ASSUME Issued, Typed(records) PROVE PinnedVerifyIsExact
<1> SUFFICES ASSUME NEW n \in DOMAIN chain, records # << >>,
                    Accepted(Given(chain[n].chain_ref))
             PROVE  records = SubSeq(chain, 1, n)
  BY DEF PinnedVerifyIsExact
<1>1. /\ Len(records) \in Nat \ {0} /\ Len(chain) \in Nat /\ n \in 1 .. Len(chain)
      /\ records = [i \in 1 .. Len(records) |-> records[i]]
  BY TypedRecords DEF Issued
<1>2. /\ \A i \in 1 .. Len(records) :
            /\ VerifyChainLink(records[i], PrevRef(records, i))
            /\ records[i].chain_seq = i - 1
      /\ HeadMatches(records, Given(chain[n].chain_ref))
      /\ Referenced(records)
  BY AcceptedStart DEF Accepted, Referenced
<1>3. Len(records) = n
  <2>1. records[Len(records)].chain_ref = chain[n].chain_ref
    BY <1>2 DEF HeadMatches, Given, None
  <2>2. records[Len(records)] = chain[n]
    BY <2>1, <1>1, <1>2, SameLink
  <2>3. chain[n].chain_seq = n - 1
    BY <1>1 DEF Issued
  <2> QED
    BY <1>1, <1>2, <2>2, <2>3
<1>4. \A i \in 1 .. n : records[i] = chain[i]
  <2> DEFINE Bad == {d \in 0 .. n - 1 : records[n - d] # chain[n - d]}
  <2>1. SUFFICES ASSUME Bad # {} PROVE FALSE
    <3>1. ASSUME NEW i \in 1 .. n PROVE n - i \in 0 .. n - 1 /\ n - (n - i) = i
      BY <1>1
    <3> QED
      BY <3>1
  <2>2. PICK d \in Bad : \A m \in Bad : d <= m
    <3>1. Bad \subseteq Nat
      BY <1>1
    <3> HIDE DEF Bad
    <3> QED
      BY <2>1, <3>1, LeastNumber
  <2>3. ASSUME NEW j \in (n - d) + 1 .. n
        PROVE  Linked(chain[j])
    <3>1. n - j \in 0 .. n - 1 /\ n - (n - j) = j /\ n - j < d /\ j \in 1 .. n
      BY <1>1, <2>2
    <3>2. records[j] = chain[j]
      BY <3>1, <2>2
    <3>3. records[j].chain_ref = ChainRef(records[j], PrevRef(records, j))
      BY <3>1, <1>2, <1>3 DEF VerifyChainLink
    <3> QED
      BY <3>2, <3>3 DEF Linked, ChainRef, PrevRef, Given, None
  <2>4. n - d \in 1 .. n /\ n - (n - d) = d
    BY <1>1, <2>2
  <2>5. records[Len(records) - (n - (n - d))] = chain[n - d]
    <3> DEFINE k == n - d
    <3>1. k \in 1 .. n /\ LinkedFrom(k, n) /\ Len(records) > 0
      BY <2>3, <2>4, <1>1 DEF LinkedFrom
    <3> HIDE DEF k
    <3>2. records[Len(records) - (n - k)] = chain[k]
      BY <3>1, <1>1, <1>2, ReachesBack
    <3> QED
      BY <3>2 DEF k
  <2> QED
    BY <2>5, <2>4, <2>2, <1>3
<1>5. SubSeq(chain, 1, n) = [i \in 1 .. n |-> chain[i]]
  BY <1>1
<1> QED
  BY <1>1, <1>3, <1>4, <1>5

-----------------------------------------------------------------------------
(* The specification *)

RetentionInv == Issued /\ Typed(records) /\ TypeOK

\* Enlarging the set of refs.
LEMMA TypedLarger ==
    ASSUME NEW R, NEW Q, NEW recs \in Seq(RecordOf(R))
    PROVE  recs \in Seq(RecordOf(R \cup Q)) /\ RecordOf(Q) \subseteq RecordOf(R \cup Q)
<1>1. RecordOf(R) \subseteq RecordOf(R \cup Q) /\ RecordOf(Q) \subseteq RecordOf(R \cup Q)
  BY DEF RecordOf
<1> QED
  BY <1>1, SeqMonotonic

\* Records stay records when one of them is replaced by a record.
LEMMA TypedExcept ==
    ASSUME NEW recs, Typed(recs), NEW i \in 1 .. Len(recs), NEW Q, NEW rec \in RecordOf(Q)
    PROVE  /\ Typed([recs EXCEPT ![i] = rec])
           /\ Len([recs EXCEPT ![i] = rec]) = Len(recs)
<1>1. PICK R : recs \in Seq(RecordOf(R))
  BY DEF Typed
<1>2. recs \in Seq(RecordOf(R \cup Q)) /\ rec \in RecordOf(R \cup Q)
  BY <1>1, TypedLarger
<1> QED
  BY <1>2, ExceptSeq DEF Typed

\* Changing one field of a record leaves a record.
LEMMA FieldChanged ==
    ASSUME NEW recs, Typed(recs), NEW i \in 1 .. Len(recs)
    PROVE  /\ \A n \in 0 .. MaxLength : \E Q : [recs[i] EXCEPT !.chain_seq = n] \in RecordOf(Q)
           /\ \A x \in Issuer : \E Q : [recs[i] EXCEPT !.issuer_id = x] \in RecordOf(Q)
           /\ \A h \in Receipt \cup {Empty} :
                /\ \E Q : [recs[i] EXCEPT !.receipt_hash = h] \in RecordOf(Q)
                /\ \E Q : [recs[i] EXCEPT !.prev_receipt_hash = h] \in RecordOf(Q)
           /\ \A c : \E Q : [recs[i] EXCEPT !.chain_ref = c] \in RecordOf(Q)
<1>1. PICK R : recs[i] \in RecordOf(R)
  BY ElementOfSeq DEF Typed
<1>2. ASSUME NEW c PROVE [recs[i] EXCEPT !.chain_ref = c] \in RecordOf({c})
  BY <1>1 DEF RecordOf
<1>3. /\ \A n \in 0 .. MaxLength : [recs[i] EXCEPT !.chain_seq = n] \in RecordOf(R)
      /\ \A x \in Issuer : [recs[i] EXCEPT !.issuer_id = x] \in RecordOf(R)
      /\ \A h \in Receipt \cup {Empty} :
            /\ [recs[i] EXCEPT !.receipt_hash = h] \in RecordOf(R)
            /\ [recs[i] EXCEPT !.prev_receipt_hash = h] \in RecordOf(R)
  BY <1>1 DEF RecordOf
<1> QED
  BY <1>2, <1>3

LEMMA SliceTyped ==
    ASSUME NEW recs, Typed(recs), NEW i \in 1 .. Len(recs) + 1, NEW j \in i - 1 .. Len(recs)
    PROVE  Typed(SubSeq(recs, i, j)) /\ Len(SubSeq(recs, i, j)) <= Len(recs)
<1>1. PICK R : recs \in Seq(RecordOf(R))
  BY DEF Typed
<1>2. Len(recs) \in Nat /\ \A k \in i .. j : recs[k] \in RecordOf(R)
  BY <1>1, LenProperties, ElementOfSeq
<1>3. /\ SubSeq(recs, i, j) \in Seq(RecordOf(R))
      /\ Len(SubSeq(recs, i, j)) = IF i <= j THEN j - i + 1 ELSE 0
  BY <1>2, SubSeqProperties
<1> QED
  BY <1>2, <1>3 DEF Typed

LEMMA InitInv == Init => RetentionInv
<1> SUFFICES ASSUME Init PROVE RetentionInv
  OBVIOUS
<1>1. Typed(chain) /\ Typed(records) /\ Len(chain) = 0 /\ Len(records) = 0
  BY EmptySeq DEF Init, Typed
<1>2. Issued
  BY <1>1 DEF Issued
<1>3. TypeOK
  BY <1>1, TypedRecords, RetentionAssumption DEF Init, TypeOK
<1> QED
  BY <1>1, <1>2, <1>3 DEF RetentionInv

\* An issued record has a ref of one of the two kinds and the next number.
LEMMA IssueInv ==
    ASSUME RetentionInv, NEW receipt \in Receipt, NEW issuer \in Issuer,
           NEW linked \in BOOLEAN, Issue(receipt, issuer, linked)
    PROVE  RetentionInv'
<1> DEFINE rec == RecordFor(receipt, issuer, linked)
           n == Len(chain) + 1
<1>1. /\ Typed(chain) /\ Len(chain) \in Nat /\ Len(chain) < MaxLength
      /\ DOMAIN chain = 1 .. Len(chain)
      /\ \A i \in 1 .. Len(chain) : IsRecord(chain[i])
  BY TypedRecords DEF RetentionInv, Issued, Issue
<1>2. /\ rec \in RecordOf({rec.chain_ref})
      /\ rec.chain_seq = Len(chain)
      /\ rec.receipt_hash \in Receipt
      /\ rec.prev_receipt_hash = IF n = 1 THEN Empty ELSE chain[n - 1].receipt_hash
      /\ rec.chain_ref = ChainRef(rec, IF linked THEN PrevRef(chain, n) ELSE None)
  <2>1. (IF Len(chain) = 0 THEN Empty ELSE chain[Len(chain)].receipt_hash)
            \in Receipt \cup {Empty}
    BY <1>1 DEF IsRecord
  <2> QED
    BY <1>1, <2>1, RetentionAssumption DEF RecordFor, RecordOf, ChainRef
<1>3. chain' = Append(chain, rec) /\ records' = chain' /\ edits' = edits
  BY DEF Issue
<1> HIDE DEF rec
<1>4. /\ Typed(chain')
      /\ Len(chain') = n
      /\ \A i \in 1 .. Len(chain) : chain'[i] = chain[i]
      /\ chain'[n] = rec
  <2>1. PICK R : chain \in Seq(RecordOf(R))
    BY <1>1 DEF Typed
  <2>2. chain \in Seq(RecordOf(R \cup {rec.chain_ref})) /\ rec \in RecordOf(R \cup {rec.chain_ref})
    BY <2>1, <1>2, TypedLarger
  <2> QED
    BY <2>2, <1>3, AppendProperties DEF Typed
<1>5. Issued'
  <2>1. ASSUME NEW i \in 1 .. Len(chain')
        PROVE  /\ chain'[i].chain_seq = i - 1
               /\ chain'[i].receipt_hash \in Receipt
               /\ chain'[i].prev_receipt_hash
                    = IF i = 1 THEN Empty ELSE chain'[i - 1].receipt_hash
               /\ \/ chain'[i].chain_ref = ChainRef(chain'[i], None)
                  \/ chain'[i].chain_ref = ChainRef(chain'[i], PrevRef(chain', i))
    <3>1. /\ PrevRef(chain', i) = PrevRef(chain, i)
          /\ i > 1 => chain'[i - 1].receipt_hash = chain[i - 1].receipt_hash
      BY <1>1, <1>4 DEF PrevRef
    <3>2. CASE i \in 1 .. Len(chain)
      BY <3>1, <3>2, <1>4, SMTT(30) DEF RetentionInv, Issued
    <3>3. CASE i = n
      BY <3>1, <3>3, <1>1, <1>2, <1>4
    <3> QED
      BY <3>2, <3>3, <1>1, <1>4
  <2> QED
    BY <2>1, <1>4 DEF Issued
<1>6. /\ \A i \in 1 .. n : IsRecord(chain'[i]) /\ chain'[i].chain_seq < MaxLength
      /\ DOMAIN chain' = 1 .. n
  <2>1. \A i \in 1 .. n : IsRecord(chain'[i])
    BY <1>4, TypedRecords
  <2>2. \A i \in 1 .. n : chain'[i].chain_seq < MaxLength
    <3>1. \A i \in 1 .. n : chain'[i].chain_seq = i - 1
      BY <1>4, <1>5 DEF Issued
    <3>2. \A i \in 1 .. n : i - 1 < MaxLength
      BY <1>1, RetentionAssumption
    <3> QED
      BY <3>1, <3>2
  <2> QED
    BY <2>1, <2>2, <1>4, TypedRecords
<1>7. TypeOK'
  <2>1. Len(chain') <= MaxLength
    BY <1>1, <1>4, RetentionAssumption
  <2>2. edits' \in 0 .. MaxEdits
    BY <1>3 DEF TypeOK, RetentionInv
  <2>3. \A i \in DOMAIN chain' : IsRecord(chain'[i]) /\ chain'[i].chain_seq < MaxLength
    BY <1>6
  <2> QED
    BY <2>1, <2>2, <2>3, <1>3 DEF TypeOK
<1> QED
  BY <1>3, <1>4, <1>5, <1>7 DEF RetentionInv

\* Whatever the custodian makes of the records leaves the chain alone.
LEMMA CustodianInv ==
    ASSUME RetentionInv, Typed(records'), Len(records') <= MaxLength,
           chain' = chain, edits' \in 0 .. MaxEdits
    PROVE  RetentionInv'
<1>1. Issued'
  BY DEF RetentionInv, Issued, Typed, PrevRef
<1>2. TypeOK'
  BY TypedRecords DEF RetentionInv, TypeOK
<1> QED
  BY <1>1, <1>2 DEF RetentionInv

LEMMA EditInv ==
    ASSUME RetentionInv, NEW recs, Typed(recs), Len(recs) <= MaxLength, Edit(recs)
    PROVE  RetentionInv'
<1>1. edits' \in 0 .. MaxEdits
  BY RetentionAssumption DEF RetentionInv, TypeOK, Edit
<1> QED
  BY <1>1, CustodianInv DEF Edit

LEMMA NextInv == RetentionInv /\ [Next]_vars => RetentionInv'
<1> SUFFICES ASSUME RetentionInv, [Next]_vars PROVE RetentionInv'
  OBVIOUS
<1>T. /\ Typed(records) /\ Len(records) \in Nat /\ Len(records) <= MaxLength
      /\ DOMAIN records = 1 .. Len(records)
  BY TypedRecords DEF RetentionInv, TypeOK
<1>1. ASSUME NEW i \in DOMAIN records, NEW n \in 0 .. MaxLength,
             Edit([records EXCEPT ![i].chain_seq = n])
      PROVE  RetentionInv'
  <2>1. PICK Q : [records[i] EXCEPT !.chain_seq = n] \in RecordOf(Q)
    BY <1>T, FieldChanged
  <2> QED
    BY <2>1, <1>1, <1>T, TypedExcept, EditInv
<1>2. ASSUME NEW i \in DOMAIN records, NEW x \in Issuer,
             Edit([records EXCEPT ![i].issuer_id = x])
      PROVE  RetentionInv'
  <2>1. PICK Q : [records[i] EXCEPT !.issuer_id = x] \in RecordOf(Q)
    BY <1>T, FieldChanged
  <2> QED
    BY <2>1, <1>2, <1>T, TypedExcept, EditInv
<1>3. ASSUME NEW i \in DOMAIN records, NEW h \in Receipt \cup {Empty},
             Edit([records EXCEPT ![i].receipt_hash = h])
      PROVE  RetentionInv'
  <2>1. PICK Q : [records[i] EXCEPT !.receipt_hash = h] \in RecordOf(Q)
    BY <1>T, FieldChanged
  <2> QED
    BY <2>1, <1>3, <1>T, TypedExcept, EditInv
<1>4. ASSUME NEW i \in DOMAIN records, NEW h \in Receipt \cup {Empty},
             Edit([records EXCEPT ![i].prev_receipt_hash = h])
      PROVE  RetentionInv'
  <2>1. PICK Q : [records[i] EXCEPT !.prev_receipt_hash = h] \in RecordOf(Q)
    BY <1>T, FieldChanged
  <2> QED
    BY <2>1, <1>4, <1>T, TypedExcept, EditInv
<1>5. ASSUME NEW i \in DOMAIN records, NEW p, Resign(i, p)
      PROVE  RetentionInv'
  <2> DEFINE c == ChainRef(records[i], p)
  <2>1. PICK Q : [records[i] EXCEPT !.chain_ref = c] \in RecordOf(Q)
    <3> HIDE DEF c
    <3> QED
      BY <1>T, FieldChanged
  <2>2. /\ records' = [records EXCEPT ![i] = [records[i] EXCEPT !.chain_ref = c]]
        /\ chain' = chain /\ edits' = edits
    BY <1>5 DEF Resign
  <2>3. Typed(records') /\ Len(records') <= MaxLength
    <3> HIDE DEF c
    <3> QED
      BY <2>1, <2>2, <1>T, TypedExcept
  <2> QED
    BY <2>2, <2>3, CustodianInv DEF RetentionInv, TypeOK
<1>6. ASSUME NEW i \in 1 .. Len(records) + 1, NEW j \in i - 1 .. Len(records),
             Edit(SubSeq(records, i, j))
      PROVE  RetentionInv'
  <2>1. Typed(SubSeq(records, i, j)) /\ Len(SubSeq(records, i, j)) <= Len(records)
    BY <1>T, SliceTyped
  <2> DEFINE recs == SubSeq(records, i, j)
  <2>2. Typed(recs) /\ Len(recs) <= Len(records) /\ Edit(recs)
    BY <2>1, <1>6
  <2> HIDE DEF recs
  <2>3. Len(recs) <= MaxLength
    BY <2>2, <1>T, TypedRecords, RetentionAssumption
  <2> QED
    BY <2>2, <2>3, EditInv
<1>7. CASE UNCHANGED vars
  BY <1>7, CustodianInv DEF vars, RetentionInv, TypeOK
<1> QED
  BY <1>1, <1>2, <1>3, <1>4, <1>5, <1>6, <1>7, IssueInv DEF Next, CustodianStep

THEOREM RetentionInvariant == Spec => []RetentionInv
<1> QED
  BY InitInv, NextInv, PTL DEF Spec

\* Every variable keeps its type.
THEOREM RetentionTypeCorrect == Spec => []TypeOK
<1>1. RetentionInv => TypeOK
  BY DEF RetentionInv
<1> QED
  BY <1>1, RetentionInvariant, PTL

\* Records that verify at a pinned head are the issued ones, for chains of any
\* length and any number of changes (verify_chain_sequence, expected_head).
THEOREM PinnedHeadAlwaysExact == Spec => []PinnedVerifyIsExact
<1>1. RetentionInv => PinnedVerifyIsExact
  BY Pin DEF RetentionInv
<1> QED
  BY <1>1, RetentionInvariant, PTL

\* With allow_legacy_v1 the pinned head reaches back to the last legacy ref.
THEOREM LegacyPinAlwaysReachesBack == Spec => []LegacyPinReachesBack
<1>1. RetentionInv => LegacyPinReachesBack
  BY LegacyPin DEF RetentionInv
<1> QED
  BY <1>1, RetentionInvariant, PTL

\* Without a pin, what verifies starts at the origin and has no gap.
THEOREM AcceptedAlwaysFromOrigin == Spec => []AcceptedFromOrigin
<1>1. ASSUME RetentionInv PROVE AcceptedFromOrigin
  <2> SUFFICES ASSUME Accepted(None), NEW i \in DOMAIN records
               PROVE  /\ records[i].chain_seq = i - 1
                      /\ records[i].prev_receipt_hash
                            = IF i = 1 THEN Empty ELSE records[i - 1].receipt_hash
    BY DEF AcceptedFromOrigin
  <2>1. Typed(records) /\ i \in 1 .. Len(records) /\ Len(records) \in Nat /\ records # << >>
    BY <1>1, TypedRecords DEF RetentionInv
  <2>2. /\ records[1].prev_receipt_hash = Empty
        /\ Adjacent(records, i)
        /\ records[i].chain_seq = i - 1
    BY <2>1, AcceptedStart DEF Accepted
  <2> QED
    BY <2>1, <2>2 DEF Adjacent
<1> QED
  BY <1>1, RetentionInvariant, PTL

\* The issued records follow one another, and their refs can be computed and
\* are what verify_chain_link computes: alone or linked, as they were issued.
LEMMA IssuedLinks ==
    ASSUME Issued, NEW i \in 1 .. Len(chain)
    PROVE  /\ VerifyChainLink(chain[i], PrevRef(chain, i)) <=> Linked(chain[i])
           /\ VerifyChainLink(chain[i], None) <=> ~Linked(chain[i])
           /\ Adjacent(chain, i)
<1>1. /\ Len(chain) \in Nat
      /\ chain[i].chain_seq = i - 1
      /\ chain[i].receipt_hash \in Receipt
      /\ chain[i].prev_receipt_hash = IF i = 1 THEN Empty ELSE chain[i - 1].receipt_hash
      /\ i > 1 => /\ chain[i - 1].chain_seq = i - 2
                  /\ chain[i - 1].receipt_hash \in Receipt
                  /\ \E p : chain[i - 1].chain_ref = ChainRef(chain[i - 1], p)
  BY TypedRecords DEF Issued
<1>2. PrevRef(chain, i) # None
  BY DEF PrevRef, Given, None
<1>3. chain[i].chain_seq = 0 <=> i = 1
  BY <1>1
<1>4. chain[i].prev_receipt_hash = Empty <=> i = 1
  BY <1>1, RetentionAssumption
<1>5. PrevRef(chain, i) = Given(Empty) <=> i = 1
  <2>1. ASSUME i > 1
        PROVE  chain[i - 1].chain_ref # Empty
    <3>1. PICK p : chain[i - 1].chain_ref = ChainRef(chain[i - 1], p)
      BY <1>1, <2>1
    <3>2. "chain_seq" \in DOMAIN ChainRef(chain[i - 1], p) /\ "chain_seq" \notin DOMAIN Empty
      BY DEF ChainRef, Empty
    <3> QED
      BY <3>1, <3>2
  <2> QED
    BY <1>1, <2>1 DEF PrevRef, Given
<1>6. /\ Computable(chain[i], None)
      /\ Computable(chain[i], PrevRef(chain, i))
  BY <1>1, <1>2, <1>3, <1>4, <1>5, RetentionAssumption DEF Computable
<1>7. \A p, q : ChainRef(chain[i], p) = ChainRef(chain[i], q) => p = q
  BY DEF ChainRef
<1>8. /\ chain[i].chain_ref = ChainRef(chain[i], None) <=> ~Linked(chain[i])
      /\ chain[i].chain_ref = ChainRef(chain[i], PrevRef(chain, i)) <=> Linked(chain[i])
  <2>1. \A p : ChainRef(chain[i], p).prev_chain_ref = p
    BY DEF ChainRef
  <2>2. \/ chain[i].chain_ref = ChainRef(chain[i], None)
        \/ chain[i].chain_ref = ChainRef(chain[i], PrevRef(chain, i))
    BY DEF Issued
  <2> QED
    BY <1>2, <2>1, <2>2 DEF Linked
<1>9. Adjacent(chain, i)
  BY <1>1 DEF Adjacent
<1> QED
  BY <1>6, <1>8, <1>9 DEF VerifyChainLink

\* What verify_chain_sequence says of the first n issued records.
LEMMA IssuedPrefix ==
    ASSUME Issued, NEW n \in 0 .. Len(chain), NEW head,
           head = IF n = 0 THEN None ELSE Given(chain[n].chain_ref)
    PROVE  /\ (\A i \in 1 .. n : Linked(chain[i]))
                => VerifyChainSequence(SubSeq(chain, 1, n), Given(n), head, TRUE, FALSE)
           /\ VerifyChainSequence(SubSeq(chain, 1, n), Given(n), head, TRUE, TRUE)
<1> DEFINE issued == SubSeq(chain, 1, n)
<1>1. n \in Nat /\ \A i \in 1 .. n : i \in 1 .. Len(chain)
  BY TypedRecords DEF Issued
<1>2. /\ issued = [i \in 1 .. n |-> chain[i]]
      /\ DOMAIN issued = 1 .. n /\ Len(issued) = n
      /\ \A i \in 1 .. n : issued[i] = chain[i]
  BY <1>1
<1>3. issued # << >> <=> n # 0
  BY <1>1, <1>2
<1> HIDE DEF issued
<1>4. \A i \in 1 .. n : /\ PrevRef(issued, i) = PrevRef(chain, i)
                        /\ Adjacent(issued, i)
  <2>1. ASSUME NEW i \in 1 .. n
        PROVE  PrevRef(issued, i) = PrevRef(chain, i) /\ Adjacent(issued, i)
    <3>1. i > 1 => i - 1 \in 1 .. n
      BY <1>1
    <3>2. Adjacent(chain, i)
      BY <1>1, IssuedLinks
    <3> QED
      BY <1>2, <3>1, <3>2 DEF PrevRef, Adjacent
  <2> QED
    BY <2>1
<1>5. \A i \in 1 .. n :
        /\ VerifyChainLink(issued[i], PrevRef(issued, i)) <=> Linked(chain[i])
        /\ VerifyChainLink(issued[i], None) <=> ~Linked(chain[i])
  BY <1>1, <1>2, <1>4, IssuedLinks
<1>6. n # 0 => issued[1].chain_seq = 0 /\ HeadMatches(issued, head)
  <2>1. n # 0 => chain[1].chain_seq = 0
    BY <1>1 DEF Issued
  <2> QED
    BY <1>1, <1>2, <2>1 DEF HeadMatches
<1>7. Given(n) \in {None, Given(Len(issued))}
  BY <1>2
<1>8. VerifyChainSequence(issued, Given(n), head, TRUE, TRUE)
  BY <1>2, <1>3, <1>4, <1>5, <1>6, <1>7 DEF VerifyChainSequence
<1>9. ASSUME \A i \in 1 .. n : Linked(chain[i])
      PROVE  VerifyChainSequence(issued, Given(n), head, TRUE, FALSE)
  <2>1. \A i \in 1 .. n : VerifyChainLink(issued[i], PrevRef(issued, i))
    BY <1>5, <1>9
  <2> QED
    BY <1>2, <1>3, <1>4, <1>6, <1>7, <2>1 DEF VerifyChainSequence
<1> QED
  BY <1>8, <1>9 DEF issued

\* What an issuer hands over verifies, for chains of any length: linked ones,
\* and with allow_legacy_v1 all others (verify_chain_sequence).
THEOREM IssuedAlwaysVerifies == Spec => []IssuedVerifies
<1>1. RetentionInv => IssuedVerifies
  BY IssuedPrefix DEF RetentionInv, IssuedVerifies
<1> QED
  BY <1>1, RetentionInvariant, PTL
=============================================================================
