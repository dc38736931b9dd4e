--------------------------- MODULE EvidenceProofs ---------------------------
(***************************************************************************)
(* Proofs about Evidence, for any words, documents made elsewhere and      *)
(* bounds: what the references an auditor holds fix in the documents that  *)
(* are handed over.                                                        *)
(***************************************************************************)
EXTENDS Evidence, TLAPS, SequenceTheorems, FiniteSetTheorems, WellFoundedInduction

-----------------------------------------------------------------------------
(* Values and references *)

LEMMA Shapes ==
    /\ \A p : IsRef(Ref(p)) /\ Text(Ref(p)) /\ Ref(p) # Malformed /\ Ref(p) # Empty /\ Ref(p) # Mistyped
    /\ \A p, q : Ref(p) = Ref(q) => p = q
    /\ ~ IsRef(Malformed) /\ ~ IsRef(Mistyped) /\ ~ IsRef(Empty) /\ ~ Text(Mistyped) /\ ~ Text(Malformed)
    /\ \A s : ~ IsRef(Str(s)) /\ Str(s) # Mistyped /\ Str(s) # Malformed
    /\ \A s, t : Str(s) = Str(t) => s = t
    /\ \A n : Ms(n) # Mistyped /\ Ms(n) # Malformed
    /\ \A s : Arr(s) # Mistyped /\ Arr(s) # Malformed
    /\ \A s, t : Arr(s) = Arr(t) => s = t
    /\ \A s : s # "" => Text(Str(s))
<1>1. \A p : DOMAIN Ref(p) = {"sha256"} /\ Ref(p).sha256 = p
  BY DEF Ref
<1>2. \A s : DOMAIN Str(s) = {"text"} /\ Str(s).text = s
  BY DEF Str
<1>3. \A s : DOMAIN Arr(s) = {"list"} /\ Arr(s).list = s
  BY DEF Arr
<1>4. \A n : DOMAIN Ms(n) = {"milliseconds"}
  BY DEF Ms
<1>5. DOMAIN Mistyped = {"mistyped"} /\ DOMAIN Malformed = {"malformed"}
  BY DEF Mistyped, Malformed
<1>6. DOMAIN Empty = {"text"} /\ Empty.text = ""
  BY <1>2 DEF Empty
<1>7. \A p : IsRef(Ref(p)) /\ Text(Ref(p)) /\ Ref(p) # Malformed /\ Ref(p) # Empty /\ Ref(p) # Mistyped
  BY <1>1, <1>5, <1>6 DEF IsRef, Text
<1>8. ~ IsRef(Malformed) /\ ~ IsRef(Mistyped) /\ ~ IsRef(Empty) /\ ~ Text(Mistyped) /\ ~ Text(Malformed)
  BY <1>5, <1>6 DEF IsRef, Text
<1>9. \A s : ~ IsRef(Str(s)) /\ Str(s) # Mistyped /\ Str(s) # Malformed
  BY <1>2, <1>5 DEF IsRef
<1>10. \A n : Ms(n) # Mistyped /\ Ms(n) # Malformed
  BY <1>4, <1>5
<1>11. \A s : Arr(s) # Mistyped /\ Arr(s) # Malformed
  BY <1>3, <1>5
<1>12. \A s : s # "" => Text(Str(s))
  BY <1>2, <1>6 DEF Text
<1>13. \A p, q : Ref(p) = Ref(q) => p = q
  BY <1>1
<1>14. \A s, t : Str(s) = Str(t) => s = t
  BY <1>2
<1>15. \A s, t : Arr(s) = Arr(t) => s = t
  BY <1>3
<1> QED
  BY <1>7, <1>8, <1>9, <1>10, <1>11, <1>12, <1>13, <1>14, <1>15

\* ref is the error of a function, or it hashes these fields of the document.
Hashes(ref, d, fields) == ref # Malformed => ref = Ref([f \in fields |-> Get(d, f)])

LEMMA HashHashes ==
    ASSUME NEW d, NEW fields, NEW ok
    PROVE  Hashes(Hash(d, fields, ok), d, fields)
BY DEF Hash, Hashes

LEMMA RefsHash ==
    ASSUME NEW d
    PROVE  /\ Hashes(PassportRef(d), d, PassportFields)
           /\ Hashes(MandateRef(d), d, MandateFields)
           /\ Hashes(PayerRef(d), d, PayerFields)
           /\ Hashes(GateRef(d), d, GateFields)
           /\ Hashes(PolicyBoundRef(d), d, PolicyBoundFields)
           /\ Hashes(GuardrailRef(d), d, DecisionFields)
           /\ Hashes(DecisionRef(d), d, DecisionFields)
           /\ Hashes(ExecutionRef(d), d, ExecutionFields)
           /\ Hashes(ExecutionBinding(d), d, BindingFields)
           /\ Hashes(TrustQueryRef(d), d, TrustFields)
           /\ Hashes(TrustQueryLiteRef(d), d, TrustFields)
           /\ Hashes(CancellationRef(d), d, CancellationFields)
           /\ Hashes(RefundRef(d), d, RefundFields)
           /\ Hashes(RecomputeActionRef(d), d, ActionFields)
           /\ Hashes(DelegationRef(d), WithDefault(d, "prev_delegation_ref", Empty), DelegationFields)
           /\ Hashes(RevocationRef(d), WithDefault(d, "prev_revocation_ref", Empty), RevocationFields)
           /\ Hashes(JourneyRef(d), WithDefault(d, "delegations", Arr(<< >>)), JourneyFields)
BY HashHashes
DEF PassportRef, MandateRef, PayerRef, GateRef, PolicyBoundRef, GuardrailRef, DecisionRef, ExecutionRef,
    ExecutionBinding, TrustQueryRef, TrustQueryLiteRef, CancellationRef, RefundRef, RecomputeActionRef,
    DelegationRef, RevocationRef, JourneyRef

\* Equal references were computed over equal fields.
LEMMA HashPins ==
    ASSUME NEW ref, NEW d, NEW e, NEW fields, ref # Malformed,
           Hashes(ref, d, fields), Hashes(ref, e, fields)
    PROVE  IsRef(ref) /\ \A f \in fields : Get(d, f) = Get(e, f)
<1>1. ref = Ref([f \in fields |-> Get(d, f)]) /\ ref = Ref([f \in fields |-> Get(e, f)])
  BY DEF Hashes
<1>2. [f \in fields |-> Get(d, f)] = [f \in fields |-> Get(e, f)]
  BY <1>1, Shapes
<1> QED
  BY <1>1, <1>2, Shapes

-----------------------------------------------------------------------------
(* Execution keystone records *)

LEMMA WithField ==
    ASSUME NEW d, NEW f, NEW v
    PROVE  /\ DOMAIN With(d, f, v) = DOMAIN d \cup {f}
           /\ With(d, f, v)[f] = v /\ Get(With(d, f, v), f) = v
           /\ \A x : x # f => Get(With(d, f, v), x) = Get(d, x)
           /\ \A x \in DOMAIN d : x # f => With(d, f, v)[x] = d[x]
BY DEF With, Get

LEMMA DecisionPins ==
    ASSUME NEW r, NEW o, DecisionOf(r) = DecisionOf(o), DecisionOf(r) # Malformed
    PROVE  \A f \in {"passport_ref", "mandate_ref", "policy_bound_ref", "verdict"} : Get(r, f) = Get(o, f)
<1> DEFINE doc(x) == [agent_ref |-> Get(x, "passport_ref"), mandate_ref |-> Get(x, "mandate_ref"),
                      policy_bound_ref |-> Get(x, "policy_bound_ref"), verdict |-> Get(x, "verdict")]
<1>1. \A f \in DecisionFields : Get(doc(r), f) = Get(doc(o), f)
  <2> HIDE DEF doc
  <2>1. DecisionRef(doc(r)) = DecisionRef(doc(o)) /\ DecisionRef(doc(r)) # Malformed
    BY DEF DecisionOf, doc
  <2> QED
    BY <2>1, HashPins, RefsHash
<1>2. \A x : /\ Get(doc(x), "agent_ref") = Get(x, "passport_ref")
             /\ Get(doc(x), "mandate_ref") = Get(x, "mandate_ref")
             /\ Get(doc(x), "policy_bound_ref") = Get(x, "policy_bound_ref")
             /\ Get(doc(x), "verdict") = Get(x, "verdict")
  <2> SUFFICES ASSUME NEW x
               PROVE  /\ Get(doc(x), "agent_ref") = Get(x, "passport_ref")
                      /\ Get(doc(x), "mandate_ref") = Get(x, "mandate_ref")
                      /\ Get(doc(x), "policy_bound_ref") = Get(x, "policy_bound_ref")
                      /\ Get(doc(x), "verdict") = Get(x, "verdict")
    OBVIOUS
  <2>1. PICK a : a = Get(x, "passport_ref")
    OBVIOUS
  <2>2. PICK m : m = Get(x, "mandate_ref")
    OBVIOUS
  <2>3. PICK p : p = Get(x, "policy_bound_ref")
    OBVIOUS
  <2>4. PICK v : v = Get(x, "verdict")
    OBVIOUS
  <2>5. doc(x) = [agent_ref |-> a, mandate_ref |-> m, policy_bound_ref |-> p, verdict |-> v]
    BY <2>1, <2>2, <2>3, <2>4
  <2> HIDE DEF doc
  <2> QED
    BY <2>1, <2>2, <2>3, <2>4, <2>5 DEF Get
<1> HIDE DEF doc
<1> QED
  BY <1>1, <1>2 DEF DecisionFields, UpstreamFields

LEMMA ExecutionPins ==
    ASSUME NEW d, NEW e, ExecutionRef(d) = ExecutionRef(e), ExecutionRef(d) # Malformed
    PROVE  \A f \in ExecutionFields : Get(d, f) = Get(e, f)
BY HashPins, RefsHash

\* An execution reference depends on its five fields only.
LEMMA ExecutionRefOfFields ==
    ASSUME NEW d, NEW e, \A f \in ExecutionFields : Get(d, f) = Get(e, f)
    PROVE  ExecutionRef(d) = ExecutionRef(e)
<1>1. [f \in ExecutionFields |-> Get(d, f)] = [f \in ExecutionFields |-> Get(e, f)]
  OBVIOUS
<1>2. /\ Get(d, "decision_ref") = Get(e, "decision_ref")
      /\ Get(d, "action_type") = Get(e, "action_type")
      /\ Get(d, "scope") = Get(e, "scope")
      /\ Get(d, "outcome") = Get(e, "outcome")
      /\ Get(d, "executed_at_ms") = Get(e, "executed_at_ms")
  BY DEF ExecutionFields
<1>3. AllText(d, {"action_type", "scope"}) <=> AllText(e, {"action_type", "scope"})
  BY <1>2 DEF AllText
<1>4. ASSUME NEW members
      PROVE  OneOf(d, "outcome", members) <=> OneOf(e, "outcome", members)
  BY <1>2 DEF OneOf
<1> QED
  BY <1>1, <1>2, <1>3, <1>4 DEF ExecutionRef, Hash

LEMMA TrustPins ==
    ASSUME NEW r, NEW o, TrustQueryOf(r) = TrustQueryOf(o), TrustQueryOf(r) # Malformed
    PROVE  ChainOf(r) = ChainOf(o) /\ Get(r, "trust_outcome") = Get(o, "trust_outcome")
<1> DEFINE doc(x) == [subject_refs |-> ChainOf(x), trust_outcome |-> Get(x, "trust_outcome")]
<1>1. \A f \in TrustFields : Get(doc(r), f) = Get(doc(o), f)
  <2> HIDE DEF doc
  <2>1. TrustQueryRef(doc(r)) = TrustQueryRef(doc(o)) /\ TrustQueryRef(doc(r)) # Malformed
    BY DEF TrustQueryOf, doc
  <2> QED
    BY <2>1, HashPins, RefsHash
<1>2. \A x : Get(doc(x), "subject_refs") = ChainOf(x) /\ Get(doc(x), "trust_outcome") = Get(x, "trust_outcome")
  <2> SUFFICES ASSUME NEW x
               PROVE  /\ Get(doc(x), "subject_refs") = ChainOf(x)
                      /\ Get(doc(x), "trust_outcome") = Get(x, "trust_outcome")
    OBVIOUS
  <2>1. PICK c : c = ChainOf(x)
    OBVIOUS
  <2>2. PICK t : t = Get(x, "trust_outcome")
    OBVIOUS
  <2>3. doc(x) = [subject_refs |-> c, trust_outcome |-> t]
    BY <2>1, <2>2
  <2> HIDE DEF doc
  <2> QED
    BY <2>1, <2>2, <2>3 DEF Get
<1> HIDE DEF doc
<1> QED
  BY <1>1, <1>2 DEF TrustFields

\* The five references of a chain.
LEMMA ChainLists ==
    ASSUME NEW r
    PROVE  \E s : /\ ChainOf(r) = Arr(s) /\ DOMAIN s = 1 .. 5
                  /\ s[1] = Get(r, "passport_ref") /\ s[2] = Get(r, "mandate_ref")
                  /\ s[3] = Get(r, "policy_bound_ref")
                  /\ s[4] = DecisionOf(r) /\ s[5] = ExecutionOf(r)
<1>1. PICK s : s = <<Get(r, "passport_ref"), Get(r, "mandate_ref"), Get(r, "policy_bound_ref"),
                     DecisionOf(r), ExecutionOf(r)>>
  OBVIOUS
<1>2. ChainOf(r) = Arr(s)
  BY <1>1 DEF ChainOf
<1>3. DOMAIN s = 1 .. 5
  BY <1>1
<1> QED
  BY <1>1, <1>2, <1>3

LEMMA ChainPins ==
    ASSUME NEW r, NEW o, ChainOf(r) = ChainOf(o)
    PROVE  /\ \A f \in {"passport_ref", "mandate_ref", "policy_bound_ref"} : Get(r, f) = Get(o, f)
           /\ DecisionOf(r) = DecisionOf(o) /\ ExecutionOf(r) = ExecutionOf(o)
<1>1. PICK s : /\ ChainOf(r) = Arr(s) /\ DOMAIN s = 1 .. 5
               /\ s[1] = Get(r, "passport_ref") /\ s[2] = Get(r, "mandate_ref")
               /\ s[3] = Get(r, "policy_bound_ref")
               /\ s[4] = DecisionOf(r) /\ s[5] = ExecutionOf(r)
  BY ChainLists
<1>2. PICK t : /\ ChainOf(o) = Arr(t) /\ DOMAIN t = 1 .. 5
               /\ t[1] = Get(o, "passport_ref") /\ t[2] = Get(o, "mandate_ref")
               /\ t[3] = Get(o, "policy_bound_ref")
               /\ t[4] = DecisionOf(o) /\ t[5] = ExecutionOf(o)
  BY ChainLists
<1>3. s = t
  BY <1>1, <1>2, Shapes
<1> QED
  BY <1>1, <1>2, <1>3

\* What has a trust query has a decision and an execution.
LEMMA ChainIsRefs ==
    ASSUME NEW r, TrustQueryOf(r) # Malformed
    PROVE  IsRef(DecisionOf(r)) /\ IsRef(ExecutionOf(r)) /\ IsRef(TrustQueryOf(r))
<1> DEFINE doc == [subject_refs |-> ChainOf(r), trust_outcome |-> Get(r, "trust_outcome")]
<1>1. Get(doc, "subject_refs") = ChainOf(r)
  BY DEF Get
<1>2. TrustQueryRef(doc) = TrustQueryOf(r)
  BY DEF TrustQueryOf
<1> HIDE DEF doc
<1>3. IsRefList(ChainOf(r)) /\ IsRef(TrustQueryOf(r))
  BY <1>1, <1>2, HashPins, RefsHash DEF TrustQueryRef, Hash
<1>4. PICK s : ChainOf(r) = Arr(s) /\ DOMAIN s = 1 .. 5 /\ s[4] = DecisionOf(r) /\ s[5] = ExecutionOf(r)
  BY ChainLists
<1>5. \A i \in 1 .. 5 : IsRef(s[i])
  BY <1>3, <1>4 DEF IsRefList, Arr
<1> QED
  BY <1>3, <1>4, <1>5

\* A record that carries what bind_keystone computes from its inputs.
Keystone(r) ==
    /\ BindInputs \cup Rebuilt \subseteq DOMAIN r
    /\ r["decision_ref"] = DecisionOf(r) /\ IsRef(DecisionOf(r))
    /\ r["execution_ref"] = ExecutionOf(r) /\ IsRef(ExecutionOf(r))
    /\ r["trust_query_ref"] = TrustQueryOf(r) /\ IsRef(TrustQueryOf(r))
    /\ r["chain"] = ChainOf(r)

LEMMA BindKeystoneFields ==
    ASSUME NEW r
    PROVE  /\ DOMAIN BindKeystone(r) = BindInputs \cup Rebuilt \cup {"type"}
           /\ BindKeystone(r)["decision_ref"] = DecisionOf(r)
           /\ BindKeystone(r)["execution_ref"] = ExecutionOf(r)
           /\ BindKeystone(r)["trust_query_ref"] = TrustQueryOf(r)
           /\ BindKeystone(r)["chain"] = ChainOf(r)
           /\ \A f \in BindInputs : BindKeystone(r)[f] = Get(r, f)
BY DEF BindKeystone, Rebuilt, BindInputs

LEMMA KeystoneVerified ==
    ASSUME NEW r
    PROVE  VerifyKeystone(r) <=> Keystone(r)
<1>1. ASSUME VerifyKeystone(r)
      PROVE  Keystone(r)
  <2>1. BindInputs \subseteq DOMAIN r /\ TrustQueryOf(r) # Malformed
    BY <1>1 DEF VerifyKeystone, Rebuildable
  <2>2. IsRef(DecisionOf(r)) /\ IsRef(ExecutionOf(r)) /\ IsRef(TrustQueryOf(r))
    BY <2>1, ChainIsRefs
  <2>3. /\ Get(r, "decision_ref") = DecisionOf(r)
        /\ Get(r, "execution_ref") = ExecutionOf(r)
        /\ Get(r, "trust_query_ref") = TrustQueryOf(r)
        /\ Get(r, "chain") = ChainOf(r)
    BY <1>1, BindKeystoneFields DEF VerifyKeystone, Rebuilt
  <2>4. ChainOf(r) # Mistyped
    BY Shapes DEF ChainOf
  <2>5. Rebuilt \subseteq DOMAIN r
    BY <2>2, <2>3, <2>4, Shapes DEF Get, Rebuilt
  <2> QED
    BY <2>1, <2>2, <2>3, <2>5 DEF Keystone, Get, Rebuilt
<1>2. ASSUME Keystone(r)
      PROVE  VerifyKeystone(r)
  <2>1. TrustQueryOf(r) # Malformed
    BY <1>2, Shapes DEF Keystone
  <2>2. \A k \in Rebuilt : Get(r, k) = BindKeystone(r)[k]
    BY <1>2, BindKeystoneFields DEF Keystone, Get, Rebuilt
  <2> QED
    BY <1>2, <2>1, <2>2 DEF VerifyKeystone, Rebuildable, Keystone
<1> QED
  BY <1>1, <1>2

\* The execution reference of a keystone record is the one of its own fields.
LEMMA KeystoneExecution ==
    ASSUME NEW r, Keystone(r)
    PROVE  ExecutionRef(r) = ExecutionOf(r) /\ ExecutionHashes(r)
<1>1. Get(r, "decision_ref") = DecisionOf(r)
  BY DEF Keystone, Get, Rebuilt
<1>2. PICK d : d = DecisionOf(r)
  OBVIOUS
<1>3. Get(With(r, "decision_ref", d), "decision_ref") = d
  BY DEF With, Get
<1>4. \A f : f # "decision_ref" => Get(With(r, "decision_ref", d), f) = Get(r, f)
  BY DEF With, Get
<1>5. \A f \in ExecutionFields : Get(r, f) = Get(With(r, "decision_ref", d), f)
  BY <1>1, <1>2, <1>3, <1>4
<1>6. ExecutionRef(r) = ExecutionRef(With(r, "decision_ref", d))
  BY <1>5, ExecutionRefOfFields
<1>7. ExecutionRef(r) = ExecutionOf(r)
  BY <1>2, <1>6 DEF ExecutionOf
<1> QED
  BY <1>7, Shapes DEF ExecutionHashes, Keystone

-----------------------------------------------------------------------------
(* The validators of records *)

LEMMA SelfRefsCounted ==
    ASSUME NEW r
    PROVE  /\ Cardinality(SelfRefsOf(r)) = 1 => \E k \in SelfRefs : SelfRefsOf(r) = {k}
           /\ SelfRefsOf(r) # {} => Cardinality(SelfRefsOf(r)) = 1 \/ Cardinality(SelfRefsOf(r)) > 1
<1>1. IsFiniteSet(SelfRefs)
  <2>1. IsFiniteSet({"execution_ref"})
    BY FS_Singleton
  <2>2. IsFiniteSet({"execution_ref"} \cup {"behaviour_ref"})
    BY <2>1, FS_AddElement
  <2>3. IsFiniteSet(({"execution_ref"} \cup {"behaviour_ref"}) \cup {"stage_ref"})
    BY <2>2, FS_AddElement
  <2>4. SelfRefs = ({"execution_ref"} \cup {"behaviour_ref"}) \cup {"stage_ref"}
    BY DEF SelfRefs
  <2> QED
    BY <2>3, <2>4
<1>2. PICK S : S = SelfRefsOf(r)
  OBVIOUS
<1>3. S \subseteq SelfRefs
  BY <1>2 DEF SelfRefsOf
<1>4. IsFiniteSet(S)
  BY <1>1, <1>3, FS_Subset
<1>5. Cardinality(S) \in Nat /\ (Cardinality(S) = 0 <=> S = {})
  BY <1>4, FS_CardinalityType, FS_EmptySet
<1>6. Cardinality(S) = 1 => \E k : S = {k}
  BY <1>4, FS_Singleton
<1> QED
  BY <1>2, <1>3, <1>5, <1>6

\* The only self-reference of a verified record.
LEMMA VerifiedRecord ==
    ASSUME NEW r, VerifyRecord(r), NEW k \in SelfRefs, k \in DOMAIN r
    PROVE  /\ \A other \in SelfRefs : other \in DOMAIN r => other = k
           /\ k # "execution_ref" => BodyHashes(r, k)
           /\ k = "execution_ref" => IF IsWrapper(r) THEN Keystone(r) ELSE ExecutionHashes(r)
<1>1. Cardinality(SelfRefsOf(r)) = 1
  BY DEF VerifyRecord
<1>2. PICK key \in SelfRefs : SelfRefsOf(r) = {key}
  BY <1>1, SelfRefsCounted
<1>3. k = key
  BY <1>2 DEF SelfRefsOf
<1>4. \A other \in SelfRefs : other \in DOMAIN r => other = k
  BY <1>2, <1>3 DEF SelfRefsOf
<1>5. k \in SelfRefsOf(r)
  BY DEF SelfRefsOf
<1>6. k # "execution_ref" => BodyHashes(r, k)
  BY <1>5 DEF VerifyRecord
<1>7. k = "execution_ref" => IF IsWrapper(r) THEN VerifyKeystone(r) ELSE ExecutionHashes(r)
  BY <1>5 DEF VerifyRecord
<1> QED
  BY <1>4, <1>6, <1>7, KeystoneVerified

LEMMA KeystoneIsWrapper ==
    ASSUME NEW r, Keystone(r)
    PROVE  IsWrapper(r) /\ "execution_ref" \in SelfRefsOf(r)
BY DEF Keystone, IsWrapper, SelfRefsOf, SelfRefs, Rebuilt

-----------------------------------------------------------------------------
(* Documents, and sequences of them *)

IsDoc(d) == d = [f \in DOMAIN d |-> d[f]]
IsSeq(s) == Len(s) \in Nat /\ s = [i \in 1 .. Len(s) |-> s[i]]

\* A non-empty set of natural numbers has a least element.
LEMMA LeastNat ==
    ASSUME NEW T, T \subseteq Nat, T # {}
    PROVE  \E n \in T : \A m \in T : n <= m
<1>1. PICK n \in T : \A m \in T : ~(<<m, n>> \in OpToRel(<, Nat))
  BY WFMin, NatLessThanWellFounded
<1>2. \A m \in T : ~(m < n)
  BY <1>1 DEF OpToRel
<1> QED
  BY <1>2

LEMMA DocsMade ==
    /\ \A d, f, v : IsDoc(With(d, f, v))
    /\ \A d, fields : IsDoc(Only(d, fields))
    /\ \A r : IsDoc(BindKeystone(r))
    /\ \A docs, step, d : IsDoc(Bound(docs, step, d))
<1>1. \A d, f, v : IsDoc(With(d, f, v))
  BY DEF IsDoc, With
<1>2. \A d, fields : IsDoc(Only(d, fields))
  BY DEF IsDoc, Only
<1>3. \A r : IsDoc(BindKeystone(r))
  BY DEF IsDoc, BindKeystone
<1>4. \A docs, step, d : IsDoc(Bound(docs, step, d))
  BY DEF IsDoc, Bound
<1> QED
  BY <1>1, <1>2, <1>3, <1>4

LEMMA SeqDomain ==
    ASSUME NEW s, IsSeq(s)
    PROVE  Len(s) \in Nat /\ DOMAIN s = 1 .. Len(s)
BY DEF IsSeq

LEMMA SeqOfItself ==
    ASSUME NEW s, IsSeq(s)
    PROVE  s \in Seq({s[i] : i \in 1 .. Len(s)})
<1>1. PICK T : T = {s[i] : i \in 1 .. Len(s)}
  OBVIOUS
<1>2. \A i \in 1 .. Len(s) : s[i] \in T
  BY <1>1
<1>3. PICK n \in Nat : n = Len(s) /\ s = [i \in 1 .. n |-> s[i]]
  BY DEF IsSeq
<1>4. s \in [1 .. n -> T]
  BY <1>2, <1>3
<1>5. s \in Seq(T)
  BY <1>4, SMT
<1> QED
  BY <1>1, <1>5

LEMMA SeqOfIsSeq ==
    ASSUME NEW T, NEW s \in Seq(T)
    PROVE  IsSeq(s)
BY DEF IsSeq

LEMMA EmptyIsSeq == IsSeq(<< >>) /\ Len(<< >>) = 0
BY DEF IsSeq

LEMMA OneIsSeq ==
    ASSUME NEW d
    PROVE  IsSeq(<<d>>) /\ Len(<<d>>) = 1 /\ <<d>>[1] = d
BY DEF IsSeq

LEMMA AppendIsSeq ==
    ASSUME NEW s, IsSeq(s), NEW d
    PROVE  /\ IsSeq(Append(s, d)) /\ Len(Append(s, d)) = Len(s) + 1
           /\ Append(s, d)[Len(s) + 1] = d
           /\ \A i \in 1 .. Len(s) : Append(s, d)[i] = s[i]
<1> DEFINE T == {s[i] : i \in 1 .. Len(s)} \cup {d}
<1>1. s \in Seq({s[i] : i \in 1 .. Len(s)})
  BY SeqOfItself
<1>2. s \in Seq(T) /\ d \in T
  <2>1. {s[i] : i \in 1 .. Len(s)} \subseteq T /\ d \in T
    OBVIOUS
  <2>2. PICK U : U = {s[i] : i \in 1 .. Len(s)}
    OBVIOUS
  <2> HIDE DEF T
  <2> QED
    BY <1>1, <2>1, <2>2
<1> HIDE DEF T
<1>3. /\ Append(s, d) \in Seq(T) /\ Len(Append(s, d)) = Len(s) + 1
      /\ Append(s, d)[Len(s) + 1] = d /\ \A i \in 1 .. Len(s) : Append(s, d)[i] = s[i]
  BY <1>2, AppendProperties
<1> QED
  BY <1>3, SeqOfIsSeq

Replaced(t, s, i, d) == t = [s EXCEPT ![i] = d]

LEMMA ExceptIsSeq ==
    ASSUME NEW s, IsSeq(s), NEW i \in DOMAIN s, NEW d, NEW t, Replaced(t, s, i, d)
    PROVE  /\ IsSeq(t) /\ Len(t) = Len(s) /\ t[i] = d
           /\ \A j \in 1 .. Len(s) : j # i => t[j] = s[j]
<1>1. DOMAIN t = 1 .. Len(s) /\ Len(s) \in Nat /\ t = [j \in 1 .. Len(s) |-> t[j]]
  BY SeqDomain DEF IsSeq, Replaced
<1>2. Len(t) = Len(s)
  BY <1>1
<1>3. t[i] = d /\ \A j \in 1 .. Len(s) : j # i => t[j] = s[j]
  BY SeqDomain DEF Replaced
<1> QED
  BY <1>1, <1>2, <1>3 DEF IsSeq

LEMMA RemoveIsSeq ==
    ASSUME NEW s, IsSeq(s), NEW i \in DOMAIN s, NEW t, t = RemoveAt(s, i)
    PROVE  /\ IsSeq(t) /\ Len(t) <= Len(s)
           /\ \A j \in 1 .. Len(t) : \E k \in 1 .. Len(s) : t[j] = s[k]
<1> DEFINE T == {s[k] : k \in 1 .. Len(s)}
<1>1. s \in Seq(T)
  BY SeqOfItself
<1>2. \A x \in T : \E k \in 1 .. Len(s) : x = s[k]
  OBVIOUS
<1>3. Len(s) \in Nat /\ i \in 1 .. Len(s)
  BY SeqDomain
<1> HIDE DEF T
<1>4. PICK n : n = Len(s)
  OBVIOUS
<1>5. PICK a : a = SubSeq(s, 1, i - 1)
  OBVIOUS
<1>6. PICK b : b = SubSeq(s, i + 1, n)
  OBVIOUS
<1>7. a \in Seq(T) /\ Len(a) = i - 1
  <2>1. \A j \in 1 .. i - 1 : s[j] \in T
    BY <1>1, <1>3
  <2> QED
    BY <1>1, <1>3, <1>5, <2>1, SubSeqProperties
<1>8. b \in Seq(T) /\ Len(b) = n - i
  <2>1. \A j \in i + 1 .. n : s[j] \in T
    BY <1>1, <1>3, <1>4
  <2> QED
    BY <1>1, <1>3, <1>4, <1>6, <2>1, SubSeqProperties
<1>9. a \o b \in Seq(T) /\ Len(a \o b) = Len(a) + Len(b)
  BY <1>7, <1>8, ConcatProperties
<1>10. RemoveAt(s, i) = a \o b
  BY <1>4, <1>5, <1>6 DEF RemoveAt
<1>11. t \in Seq(T) /\ Len(t) = n - 1
  <2>1. t = a \o b
    BY <1>10
  <2>2. t \in Seq(T) /\ Len(t) = Len(a) + Len(b)
    BY <1>9, <2>1
  <2>3. Len(t) = (i - 1) + (n - i) /\ n \in Nat /\ i \in Nat
    BY <1>3, <1>4, <1>7, <1>8, <2>2
  <2> QED
    BY <2>2, <2>3
<1>12. \A j \in 1 .. Len(t) : t[j] \in T
  BY <1>11
<1> QED
  BY <1>2, <1>3, <1>4, <1>11, <1>12, SeqOfIsSeq

-----------------------------------------------------------------------------
(* What every step keeps *)

Shape ==
    /\ kind \in Kind /\ edits \in 0 .. MaxEdits[kind] /\ computed \in BOOLEAN
    /\ IsSeq(issued) /\ IsSeq(held) /\ Len(held) <= Len(issued)
    /\ \A i \in 1 .. Len(issued) : IsDoc(issued[i])
    /\ \A i \in 1 .. Len(held) : IsDoc(held[i])

\* The link that the author makes next.
NextGrant(late) ==
    LET prev == IF issued = << >> THEN Empty ELSE LinkRef(Last(issued))
    IN  IF kind = "delegation"
        THEN [delegator_id |-> Str(Word), delegate_id |-> Str(Word), scope |-> Str(Word),
              not_before_ms |-> Ms(0), not_after_ms |-> Ms(IF late THEN 2 ELSE 1),
              prev_delegation_ref |-> prev]
        ELSE [revoker_id |-> Str(Word), revoked_ref |-> Elsewhere, reason |-> Str("POLICY"),
              revoked_at_ms |-> Ms(IF late THEN 2 ELSE 1), prev_revocation_ref |-> prev]

LEMMA GrantHands ==
    ASSUME Grant
    PROVE  /\ kind \in {"delegation", "revocation"} /\ Untouched
           /\ \E late \in BOOLEAN : Hand(Append(issued, NextGrant(late)))
BY DEF Grant, NextGrant

LEMMA NextGrantIsDoc ==
    ASSUME NEW late \in BOOLEAN
    PROVE  IsDoc(NextGrant(late))
<1>1. PICK prev : prev = IF issued = << >> THEN Empty ELSE LinkRef(Last(issued))
  OBVIOUS
<1>2. PICK w : w = Str(Word)
  OBVIOUS
<1>3. PICK z : z = Ms(0)
  OBVIOUS
<1>4. PICK t : t = Ms(IF late THEN 2 ELSE 1)
  OBVIOUS
<1>5. PICK e : e = Elsewhere
  OBVIOUS
<1>6. PICK p : p = Str("POLICY")
  OBVIOUS
<1>7. IsDoc([delegator_id |-> w, delegate_id |-> w, scope |-> w, not_before_ms |-> z,
             not_after_ms |-> t, prev_delegation_ref |-> prev])
  BY DEF IsDoc
<1>8. IsDoc([revoker_id |-> w, revoked_ref |-> e, reason |-> p, revoked_at_ms |-> t, prev_revocation_ref |-> prev])
  BY DEF IsDoc
<1> QED
  BY <1>1, <1>2, <1>3, <1>4, <1>5, <1>6, <1>7, <1>8 DEF NextGrant

LEMMA AuthorKeepsShape ==
    ASSUME Shape, Bind \/ RecordStage \/ Grant \/ NextStep
    PROVE  Shape'
<1>1. ASSUME NEW d, IsDoc(d), Hand(<<d>>)
      PROVE  Shape'
  BY <1>1, OneIsSeq DEF Shape, Hand
<1>2. ASSUME NEW d, IsDoc(d), Hand(Append(issued, d))
      PROVE  Shape'
  <2>1. PICK docs : docs = Append(issued, d)
    OBVIOUS
  <2>2. IsSeq(docs) /\ Len(docs) = Len(issued) + 1 /\ Len(issued) \in Nat /\ docs[Len(issued) + 1] = d
        /\ \A i \in 1 .. Len(issued) : docs[i] = issued[i]
    BY <2>1, AppendIsSeq, SeqDomain DEF Shape
  <2>3. \A i \in 1 .. Len(docs) : i \in 1 .. Len(issued) \/ i = Len(issued) + 1
    BY <2>2
  <2>4. \A i \in 1 .. Len(docs) : IsDoc(docs[i])
    BY <1>2, <2>2, <2>3 DEF Shape
  <2> QED
    BY <1>2, <2>1, <2>2, <2>4 DEF Shape, Hand
<1>3. CASE Bind
  BY <1>1, <1>3, DocsMade DEF Bind
<1>4. CASE RecordStage
  BY <1>1, <1>4, DocsMade DEF RecordStage, StageRecord
<1>5. CASE Grant
  BY <1>2, <1>5, GrantHands, NextGrantIsDoc
<1>6. CASE NextStep
  BY <1>2, <1>6, DocsMade DEF NextStep
<1> QED
  BY <1>3, <1>4, <1>5, <1>6

\* Where the documents of the custodian come from, and how many there are.
FromHeld(docs) ==
    /\ IsSeq(docs) /\ Len(docs) <= Len(held)
    /\ \A i \in 1 .. Len(docs) : IsDoc(docs[i])

LEMMA OneChanged ==
    ASSUME Shape, NEW i \in DOMAIN held, NEW d, IsDoc(d), NEW docs, Replaced(docs, held, i, d)
    PROVE  FromHeld(docs)
<1>2. /\ IsSeq(docs) /\ Len(docs) = Len(held) /\ docs[i] = d
      /\ \A j \in 1 .. Len(held) : j # i => docs[j] = held[j]
  BY ExceptIsSeq DEF Shape
<1>3. Len(held) \in Nat
  BY SeqDomain DEF Shape
<1>4. \A j \in 1 .. Len(docs) : IsDoc(docs[j])
  BY <1>2 DEF Shape
<1> QED
  BY <1>2, <1>3, <1>4 DEF FromHeld

LEMMA RecomputedIsDoc ==
    ASSUME kind \in Kind, NEW i, NEW d \in Recomputed(i)
    PROVE  IsDoc(d)
<1>1. kind \in {"record", "delegation", "revocation", "lifecycle"}
  BY EvidenceAssumption
<1>2. CASE kind = "record"
  BY <1>2, DocsMade DEF Recomputed
<1>3. CASE kind \in {"delegation", "revocation"}
  BY <1>3, DocsMade DEF Recomputed
<1>4. CASE kind = "lifecycle"
  BY <1>4, DocsMade DEF Recomputed
<1> QED
  BY <1>1, <1>2, <1>3, <1>4

LEMMA CustodianKeepsShape ==
    ASSUME Shape, CustodianStep
    PROVE  Shape' /\ kind' = kind /\ issued' = issued
<1>1. ASSUME NEW docs, FromHeld(docs), Change(docs)
      PROVE  Shape' /\ kind' = kind /\ issued' = issued
  <2>1. MaxEdits[kind] \in Nat
    BY EvidenceAssumption DEF Shape
  <2>2. edits' \in 0 .. MaxEdits[kind]
    BY <1>1, <2>1 DEF Change, Shape
  <2>3. Len(held) \in Nat /\ Len(issued) \in Nat
    BY SeqDomain DEF Shape
  <2>4. IsSeq(docs) /\ Len(docs) <= Len(issued) /\ \A i \in 1 .. Len(docs) : IsDoc(docs[i])
    BY <1>1, <2>3, SeqDomain DEF Shape, FromHeld
  <2> QED
    BY <1>1, <2>2, <2>4 DEF Change, Shape
<1>8. ASSUME NEW i \in DOMAIN held, NEW d, IsDoc(d), Change([held EXCEPT ![i] = d])
      PROVE  Shape' /\ kind' = kind /\ issued' = issued
  <2>1. PICK docs : docs = [held EXCEPT ![i] = d]
    OBVIOUS
  <2>2. FromHeld(docs)
    BY <1>8, <2>1, OneChanged DEF Replaced
  <2> QED
    BY <1>1, <1>8, <2>1, <2>2
<1>2. CASE SetField
  BY <1>2, <1>8, DocsMade DEF SetField
<1>3. CASE DropField
  BY <1>3, <1>8, DocsMade DEF DropField
<1>4. CASE AddField
  BY <1>4, <1>8, DocsMade DEF AddField
<1>5. CASE DropDocument
  <2>1. PICK i \in DOMAIN held : Change(RemoveAt(held, i))
    BY <1>5 DEF DropDocument
  <2>2. PICK docs : docs = RemoveAt(held, i)
    OBVIOUS
  <2>3. IsSeq(docs) /\ Len(docs) <= Len(held)
        /\ \A j \in 1 .. Len(docs) : \E k \in 1 .. Len(held) : docs[j] = held[k]
    BY <2>2, RemoveIsSeq DEF Shape
  <2>4. FromHeld(docs)
    BY <2>3 DEF FromHeld, Shape
  <2> QED
    BY <1>1, <2>1, <2>2, <2>4
<1>6. CASE Exchange
  <2>1. PICK i \in 1 .. Len(held) - 1 : Change([held EXCEPT ![i] = held[i + 1], ![i + 1] = held[i]])
    BY <1>6 DEF Exchange
  <2>2. i \in 1 .. Len(held) /\ i + 1 \in 1 .. Len(held) /\ DOMAIN held = 1 .. Len(held)
    BY <2>1, SeqDomain DEF Shape
  <2>3. PICK once : Replaced(once, held, i, held[i + 1])
    BY DEF Replaced
  <2>4. FromHeld(once) /\ Len(once) = Len(held)
    <3>1. IsDoc(held[i + 1]) /\ IsSeq(held)
      BY <2>2 DEF Shape
    <3>2. PICK next : next = held[i + 1]
      OBVIOUS
    <3>3. Replaced(once, held, i, next) /\ i \in DOMAIN held /\ IsDoc(next)
      BY <2>2, <2>3, <3>1, <3>2
    <3>4. FromHeld(once)
      BY <3>3, OneChanged, Zenon
    <3>5. Len(once) = Len(held)
      BY <3>1, <3>3, ExceptIsSeq, Zenon
    <3> QED
      BY <3>4, <3>5
  <2>5. PICK docs : Replaced(docs, once, i + 1, held[i])
    BY DEF Replaced
  <2>6. /\ IsSeq(docs) /\ Len(docs) = Len(held) /\ docs[i + 1] = held[i]
        /\ \A j \in 1 .. Len(held) : j # i + 1 => docs[j] = once[j]
    BY <2>2, <2>4, <2>5, ExceptIsSeq, SeqDomain DEF FromHeld
  <2>7. FromHeld(docs)
    <3>1. \A j \in 1 .. Len(docs) : IsDoc(docs[j])
      BY <2>2, <2>4, <2>6 DEF FromHeld, Shape
    <3>2. Len(held) \in Nat
      BY SeqDomain DEF Shape
    <3> QED
      BY <2>6, <3>1, <3>2 DEF FromHeld
  <2>8. Change(docs)
    BY <2>1, <2>3, <2>5 DEF Replaced
  <2> QED
    BY <1>1, <2>7, <2>8
<1>7. CASE Recompute
  <2>0. PICK i \in DOMAIN held : \E d \in Recomputed(i) :
            /\ held' = [held EXCEPT ![i] = d] /\ computed' = TRUE
            /\ UNCHANGED <<kind, issued, edits>>
    BY <1>7 DEF Recompute
  <2>1. PICK d \in Recomputed(i) :
            /\ held' = [held EXCEPT ![i] = d] /\ computed' = TRUE
            /\ UNCHANGED <<kind, issued, edits>>
    BY <2>0
  <2>2. IsDoc(d)
    BY RecomputedIsDoc DEF Shape
  <2>3. FromHeld(held')
    BY <2>1, <2>2, OneChanged DEF Replaced
  <2>4. Len(held') <= Len(issued)
    BY <2>3, SeqDomain DEF FromHeld, Shape
  <2> QED
    BY <2>1, <2>3, <2>4 DEF FromHeld, Shape
<1> QED
  BY <1>2, <1>3, <1>4, <1>5, <1>6, <1>7 DEF CustodianStep

LEMMA InitShape ==
    ASSUME Init
    PROVE  Shape
<1>1. MaxEdits[kind] \in Nat
  BY EvidenceAssumption DEF Init
<1>2. edits \in 0 .. MaxEdits[kind] /\ kind \in Kind
  BY <1>1 DEF Init
<1>4. computed \in BOOLEAN
  BY Zenon DEF Init
<1>3. IsSeq(issued) /\ IsSeq(held) /\ Len(held) = 0 /\ Len(issued) = 0
  BY EmptyIsSeq DEF Init
<1> QED
  BY <1>2, <1>3, <1>4 DEF Shape

LEMMA NextKeepsShape ==
    ASSUME Shape, [Next]_vars
    PROVE  Shape'
<1>1. CASE UNCHANGED vars
  BY <1>1 DEF vars, Shape
<1> QED
  BY <1>1, AuthorKeepsShape, CustodianKeepsShape DEF Next

LEMMA AlwaysShape == Spec => []Shape
BY InitShape, NextKeepsShape, PTL DEF Spec

-----------------------------------------------------------------------------
(* What the references of a record pin *)

\* What bind_keystone makes of a record depends on its inputs only.
LEMMA SameInputs ==
    ASSUME NEW r, NEW o, \A f \in BindInputs : Get(r, f) = Get(o, f)
    PROVE  /\ DecisionOf(r) = DecisionOf(o) /\ ExecutionOf(r) = ExecutionOf(o)
           /\ ChainOf(r) = ChainOf(o) /\ TrustQueryOf(r) = TrustQueryOf(o)
<1>1. /\ Get(r, "passport_ref") = Get(o, "passport_ref")
      /\ Get(r, "mandate_ref") = Get(o, "mandate_ref")
      /\ Get(r, "policy_bound_ref") = Get(o, "policy_bound_ref")
      /\ Get(r, "verdict") = Get(o, "verdict")
      /\ Get(r, "trust_outcome") = Get(o, "trust_outcome")
  BY DEF BindInputs
<1>2. DecisionOf(r) = DecisionOf(o)
  BY <1>1 DEF DecisionOf
<1>3. PICK d : d = DecisionOf(r)
  OBVIOUS
<1>4. \A f \in ExecutionFields : Get(With(r, "decision_ref", d), f) = Get(With(o, "decision_ref", d), f)
  <2>1. \A x : Get(With(x, "decision_ref", d), "decision_ref") = d
    BY DEF With, Get
  <2>2. \A x, f : f # "decision_ref" => Get(With(x, "decision_ref", d), f) = Get(x, f)
    BY DEF With, Get
  <2>3. ExecutionFields \subseteq BindInputs \cup {"decision_ref"}
    BY DEF ExecutionFields, BindInputs
  <2> QED
    BY <2>1, <2>2, <2>3
<1>5. ExecutionOf(r) = ExecutionOf(o)
  BY <1>2, <1>3, <1>4, ExecutionRefOfFields DEF ExecutionOf
<1>6. ChainOf(r) = ChainOf(o)
  BY <1>1, <1>2, <1>5 DEF ChainOf
<1>7. TrustQueryOf(r) = TrustQueryOf(o)
  BY <1>1, <1>6 DEF TrustQueryOf
<1> QED
  BY <1>2, <1>5, <1>6, <1>7

\* The record that bind_keystone makes carries what it computes.
LEMMA BoundIsKeystone ==
    ASSUME NEW r, TrustQueryOf(r) # Malformed
    PROVE  Keystone(BindKeystone(r))
<1>1. PICK o : o = BindKeystone(r)
  OBVIOUS
<1>2. /\ DOMAIN o = BindInputs \cup Rebuilt \cup {"type"}
      /\ o["decision_ref"] = DecisionOf(r) /\ o["execution_ref"] = ExecutionOf(r)
      /\ o["trust_query_ref"] = TrustQueryOf(r) /\ o["chain"] = ChainOf(r)
      /\ \A f \in BindInputs : o[f] = Get(r, f)
  BY <1>1, BindKeystoneFields
<1>3. \A f \in BindInputs : Get(o, f) = Get(r, f)
  BY <1>2 DEF Get
<1>4. /\ DecisionOf(o) = DecisionOf(r) /\ ExecutionOf(o) = ExecutionOf(r)
      /\ ChainOf(o) = ChainOf(r) /\ TrustQueryOf(o) = TrustQueryOf(r)
  BY <1>3, SameInputs
<1> QED
  BY <1>1, <1>2, <1>4, ChainIsRefs DEF Keystone

\* The inputs the author binds.
Inputs(verdict) ==
    [passport_ref |-> Elsewhere, mandate_ref |-> Elsewhere, policy_bound_ref |-> Elsewhere,
     verdict |-> Str(verdict), action_type |-> Str(Word), scope |-> Str(Word),
     outcome |-> Str("COMMITTED"), executed_at_ms |-> Ms(1), trust_outcome |-> Str("TRUSTED")]

LEMMA InputsBound ==
    ASSUME NEW verdict \in {"ALLOW", "DENY"}
    PROVE  TrustQueryOf(Inputs(verdict)) # Malformed
<1>1. PICK e : e = Elsewhere
  OBVIOUS
<1>2. PICK w : w = Str(Word)
  OBVIOUS
<1>3. PICK v : v = Str(verdict)
  OBVIOUS
<1>4. PICK o : o = Str("COMMITTED")
  OBVIOUS
<1>5. PICK t : t = Str("TRUSTED")
  OBVIOUS
<1>6. PICK m : m = Ms(1)
  OBVIOUS
<1>7. PICK r : r = Inputs(verdict)
  OBVIOUS
<1>8. r = [passport_ref |-> e, mandate_ref |-> e, policy_bound_ref |-> e, verdict |-> v, action_type |-> w,
           scope |-> w, outcome |-> o, executed_at_ms |-> m, trust_outcome |-> t]
  BY <1>1, <1>2, <1>3, <1>4, <1>5, <1>6, <1>7 DEF Inputs
<1>9. /\ Get(r, "passport_ref") = e /\ Get(r, "mandate_ref") = e /\ Get(r, "policy_bound_ref") = e
      /\ Get(r, "verdict") = v /\ Get(r, "action_type") = w /\ Get(r, "scope") = w
      /\ Get(r, "outcome") = o /\ Get(r, "executed_at_ms") = m /\ Get(r, "trust_outcome") = t
  BY <1>8 DEF Get
<1>10. IsRef(e) /\ Text(w) /\ Time(m)
  <2>1. Time(Ms(1))
    BY DEF Time, Ms
  <2>2. Text(Str(Word))
    BY Shapes, EvidenceAssumption
  <2> QED
    BY <1>1, <1>2, <1>6, <2>1, <2>2, Shapes DEF Elsewhere, Made
<1>11. PICK d : d = DecisionOf(r)
  OBVIOUS
<1>12. IsRef(d)
  <2>1. PICK doc : doc = [agent_ref |-> e, mandate_ref |-> e, policy_bound_ref |-> e, verdict |-> v]
    OBVIOUS
  <2>2. /\ Get(doc, "agent_ref") = e /\ Get(doc, "mandate_ref") = e
        /\ Get(doc, "policy_bound_ref") = e /\ Get(doc, "verdict") = v
    BY <2>1 DEF Get
  <2>3. AllRefs(doc, UpstreamFields) /\ OneOf(doc, "verdict", {"ALLOW", "DENY", "REFER"})
    BY <1>3, <1>10, <2>2 DEF AllRefs, UpstreamFields, OneOf
  <2>4. d = DecisionRef(doc)
    BY <1>9, <1>11, <2>1 DEF DecisionOf
  <2> QED
    BY <2>3, <2>4, Shapes DEF DecisionRef, Hash
<1>13. PICK x : x = ExecutionOf(r)
  OBVIOUS
<1>14. IsRef(x)
  <2>1. PICK doc : doc = With(r, "decision_ref", d)
    OBVIOUS
  <2>2. /\ Get(doc, "decision_ref") = d /\ Get(doc, "action_type") = w /\ Get(doc, "scope") = w
        /\ Get(doc, "outcome") = o /\ Get(doc, "executed_at_ms") = m
    BY <1>9, <2>1 DEF With, Get
  <2>3. x = ExecutionRef(doc)
    BY <1>11, <1>13, <2>1 DEF ExecutionOf
  <2>4. AllText(doc, {"action_type", "scope"})
    BY <1>10, <2>2 DEF AllText
  <2>5. OneOf(doc, "outcome", {"COMMITTED", "SKIPPED", "FAILED", "REVERSED"})
    BY <1>4, <2>2 DEF OneOf
  <2> QED
    BY <1>10, <1>12, <2>2, <2>3, <2>4, <2>5, Shapes DEF ExecutionRef, Hash
<1>15. PICK c : c = ChainOf(r)
  OBVIOUS
<1>16. IsRefList(c) /\ c # Arr(<< >>)
  <2>1. PICK s : s = <<e, e, e, d, x>>
    OBVIOUS
  <2>2. \A i \in DOMAIN s : IsRef(s[i])
    BY <1>10, <1>12, <1>14, <2>1
  <2>3. s # << >>
    BY <2>1
  <2>4. c = Arr(s)
    BY <1>9, <1>11, <1>13, <1>15, <2>1 DEF ChainOf
  <2>5. "list" \in DOMAIN Arr(s) /\ Arr(s).list = s
    BY DEF Arr
  <2> QED
    BY <2>2, <2>3, <2>4, <2>5, Shapes DEF IsRefList
<1>17. TrustQueryOf(r) # Malformed
  <2>1. PICK doc : doc = [subject_refs |-> c, trust_outcome |-> t]
    OBVIOUS
  <2>2. Get(doc, "subject_refs") = c /\ Get(doc, "trust_outcome") = t
    BY <2>1 DEF Get
  <2>3. OneOf(doc, "trust_outcome", TrustOutcomes)
    BY <1>5, <2>2 DEF OneOf, TrustOutcomes
  <2>4. TrustQueryOf(r) = TrustQueryRef(doc)
    BY <1>9, <1>15, <2>1 DEF TrustQueryOf
  <2> QED
    BY <1>16, <2>2, <2>3, <2>4, Shapes DEF TrustQueryRef, Hash
<1> QED
  BY <1>7, <1>17

\* The two kinds of records that are issued.
KeystoneRecord(o) == Keystone(o) /\ DOMAIN o = BindInputs \cup Rebuilt \cup {"type"}
StagedRecord(o) == VerifyRecord(o) /\ "stage_ref" \in DOMAIN o /\ "trust_query_ref" \notin DOMAIN o

RecordIssued ==
    kind = "record" =>
        issued = << >> \/ (Len(issued) = 1 /\ (KeystoneRecord(issued[1]) \/ StagedRecord(issued[1])))

LEMMA RecordIssuedStep ==
    ASSUME Shape, RecordIssued, [Next]_vars
    PROVE  RecordIssued'
<1>1. ASSUME NEW d, Hand(<<d>>), KeystoneRecord(d) \/ StagedRecord(d)
      PROVE  RecordIssued'
  <2>1. issued' = <<d>> /\ Len(<<d>>) = 1 /\ <<d>>[1] = d
    BY <1>1, OneIsSeq DEF Hand
  <2> QED
    BY <1>1, <2>1 DEF RecordIssued
<1>2. CASE Bind
  <2>1. PICK verdict \in {"ALLOW", "DENY"} : Hand(<<BindKeystone(Inputs(verdict))>>)
    BY <1>2 DEF Bind, Inputs
  <2>2. KeystoneRecord(BindKeystone(Inputs(verdict)))
    BY InputsBound, BoundIsKeystone, BindKeystoneFields DEF KeystoneRecord
  <2> QED
    BY <1>1, <2>1, <2>2
<1>3. CASE RecordStage
  <2>1. PICK names \in SUBSET {"decision_ref", "execution_ref", "stage_ref"},
             v \in {Made(x) : x \in Foreign} \cup {Mistyped} :
            /\ StageAccepted([f \in names |-> v])
            /\ Hand(<<StageRecord(Word, [f \in names |-> v])>>)
    BY <1>3 DEF RecordStage
  <2>2. PICK payload : payload = [f \in names |-> v]
    OBVIOUS
  <2>3. PICK o : o = StageRecord(Word, payload)
    OBVIOUS
  <2>4. DOMAIN o = names \cup {"decision_ref", "stage", "stage_ref"}
    BY <2>2, <2>3 DEF StageRecord, With
  <2>5. StagedRecord(o)
    BY <2>1, <2>2, <2>3, <2>4 DEF StagedRecord, StageAccepted
  <2> QED
    BY <1>1, <2>1, <2>2, <2>3, <2>5
<1>4. CASE Grant \/ NextStep
  BY <1>4 DEF Grant, NextStep, Hand, RecordIssued
<1>5. CASE CustodianStep
  BY <1>5, CustodianKeepsShape DEF RecordIssued
<1>6. CASE UNCHANGED vars
  BY <1>6 DEF RecordIssued, vars
<1> QED
  BY <1>2, <1>3, <1>4, <1>5, <1>6 DEF Next

\* A self-reference is no other.
LEMMA SelfRefsDiffer ==
    ASSUME NEW o
    PROVE  /\ KeystoneRecord(o) => "stage_ref" \notin DOMAIN o /\ "behaviour_ref" \notin DOMAIN o
           /\ StagedRecord(o) => "execution_ref" \notin DOMAIN o /\ BodyHashes(o, "stage_ref")
<1>1. KeystoneRecord(o) => "stage_ref" \notin DOMAIN o /\ "behaviour_ref" \notin DOMAIN o
  BY DEF KeystoneRecord, BindInputs, Rebuilt
<1>2. StagedRecord(o) => "execution_ref" \notin DOMAIN o /\ BodyHashes(o, "stage_ref")
  BY VerifiedRecord DEF StagedRecord, SelfRefs
<1> QED
  BY <1>1, <1>2

\* Equal execution references of two keystone records pin what was decided
\* and what was executed.
LEMMA ExecutionOfPins ==
    ASSUME NEW r, NEW o, Keystone(r), Keystone(o), r["execution_ref"] = o["execution_ref"]
    PROVE  \A f \in (BindInputs \ {"trust_outcome"}) \cup {"decision_ref"} : r[f] = o[f]
<1>1. ExecutionRef(r) = ExecutionRef(o) /\ ExecutionRef(r) # Malformed
  BY KeystoneExecution, Shapes DEF Keystone
<1>2. \A f \in ExecutionFields : Get(r, f) = Get(o, f)
  BY <1>1, ExecutionPins
<1>3. Get(r, "decision_ref") = DecisionOf(r) /\ Get(o, "decision_ref") = DecisionOf(o)
  BY DEF Keystone, Get, Rebuilt
<1>4. DecisionOf(r) = DecisionOf(o) /\ DecisionOf(r) # Malformed
  BY <1>2, <1>3, Shapes DEF ExecutionFields, Keystone
<1>5. \A f \in {"passport_ref", "mandate_ref", "policy_bound_ref", "verdict"} : Get(r, f) = Get(o, f)
  BY <1>4, DecisionPins
<1>6. \A f \in BindInputs \cup {"decision_ref"} : Get(r, f) = r[f] /\ Get(o, f) = o[f]
  BY DEF Keystone, Get, Rebuilt
<1>7. ASSUME NEW f \in (BindInputs \ {"trust_outcome"}) \cup {"decision_ref"}
      PROVE  Get(r, f) = Get(o, f)
  BY <1>2, <1>5 DEF BindInputs, ExecutionFields
<1> QED
  BY <1>6, <1>7

LEMMA TrustQueryOfPins ==
    ASSUME NEW r, NEW o, Keystone(r), Keystone(o), r["trust_query_ref"] = o["trust_query_ref"]
    PROVE  \A f \in BindInputs \cup Rebuilt : r[f] = o[f]
<1>1. TrustQueryOf(r) = TrustQueryOf(o) /\ TrustQueryOf(r) # Malformed
  BY Shapes DEF Keystone
<1>2. ChainOf(r) = ChainOf(o) /\ Get(r, "trust_outcome") = Get(o, "trust_outcome")
  BY <1>1, TrustPins
<1>3. ExecutionOf(r) = ExecutionOf(o)
  BY <1>2, ChainPins
<1>4. r["execution_ref"] = o["execution_ref"] /\ r["chain"] = o["chain"]
  BY <1>2, <1>3 DEF Keystone
<1>5. r["trust_outcome"] = o["trust_outcome"]
  BY <1>2 DEF Keystone, Get, BindInputs
<1>6. \A f \in (BindInputs \ {"trust_outcome"}) \cup {"decision_ref"} : r[f] = o[f]
  BY <1>4, ExecutionOfPins
<1> QED
  BY <1>4, <1>5, <1>6 DEF Rebuilt

LEMMA BodyPins ==
    ASSUME NEW r, NEW o, IsDoc(r), IsDoc(o), NEW k, k \in DOMAIN r, k \in DOMAIN o, r[k] = o[k],
           BodyHashes(r, k), BodyHashes(o, k)
    PROVE  r = o
<1>1. Only(r, DOMAIN r \ {k}) = Only(o, DOMAIN o \ {k})
  BY Shapes DEF BodyHashes
<1>2. PICK a : a = Only(r, DOMAIN r \ {k})
  OBVIOUS
<1>3. DOMAIN a = DOMAIN r \ {k} /\ \A x \in DOMAIN r \ {k} : a[x] = r[x]
  BY <1>2 DEF Only
<1>4. DOMAIN a = DOMAIN o \ {k} /\ \A x \in DOMAIN o \ {k} : a[x] = o[x]
  BY <1>1, <1>2 DEF Only
<1>5. DOMAIN r = DOMAIN o
  BY <1>3, <1>4
<1>6. \A x \in DOMAIN r : r[x] = o[x]
  BY <1>3, <1>4, <1>5
<1> QED
  BY <1>5, <1>6 DEF IsDoc

LEMMA RecordsArePinned ==
    ASSUME Shape, RecordIssued
    PROVE  RecordsPinned
<1> SUFFICES ASSUME kind = "record", held # << >>
             PROVE  LET r == held[1]
                        o == issued[1]
                        pinned(f) == f \in DOMAIN o \cap DOMAIN r /\ r[f] = o[f]
                        same(fields) == \A f \in fields : Get(r, f) = o[f]
                        rebuilt == VerifyExit(r) = 0
                    IN  /\ pinned("trust_query_ref")
                           /\ (rebuilt \/ (Validates(held, TRUE) /\ "execution_ref" \in DOMAIN r))
                                => same(BindInputs \cup Rebuilt)
                        /\ pinned("execution_ref") /\ (rebuilt \/ (Validates(held, TRUE) /\ IsWrapper(r)))
                                => same(BindInputs \ {"trust_outcome"})
                        /\ pinned("execution_ref") /\ Validates(held, FALSE) => same(ExecutionFields)
                        /\ pinned("stage_ref") /\ Validates(held, TRUE) => r = o
  BY DEF RecordsPinned
<1>1. 1 \in 1 .. Len(held) /\ 1 \in 1 .. Len(issued)
  <2>1. Len(held) \in Nat /\ Len(issued) \in Nat /\ Len(held) <= Len(issued)
    BY SeqDomain DEF Shape
  <2>2. Len(held) # 0
    <3> SUFFICES ASSUME Len(held) = 0 PROVE FALSE
      OBVIOUS
    <3>1. held = [i \in 1 .. 0 |-> held[i]]
      BY DEF Shape, IsSeq
    <3> QED
      BY <3>1
  <2> QED
    BY <2>1, <2>2
<1>2. PICK r : r = held[1]
  OBVIOUS
<1>3. PICK o : o = issued[1]
  OBVIOUS
<1>4. IsDoc(r) /\ IsDoc(o) /\ (KeystoneRecord(o) \/ StagedRecord(o))
  <2>1. issued # << >>
    BY <1>1, EmptyIsSeq
  <2> QED
    BY <1>1, <1>2, <1>3, <2>1 DEF Shape, RecordIssued
<1>5. ASSUME NEW f \in {"trust_query_ref", "execution_ref"}, f \in DOMAIN o
      PROVE  KeystoneRecord(o) /\ Keystone(o)
  BY <1>4, <1>5, SelfRefsDiffer DEF StagedRecord, KeystoneRecord
<1>R. /\ Validates(held, TRUE) => VerifyRecord(r)
      /\ Validates(held, FALSE) => VerifyFallback(r)
      /\ VerifyExit(r) = 0 => Keystone(r)
  <2>1. 1 \in DOMAIN held
    BY <1>1, SeqDomain DEF Shape
  <2> QED
    BY <1>2, <2>1, KeystoneVerified DEF Validates, VerifyExit
<1>6. ASSUME VerifyExit(r) = 0 \/ (Validates(held, TRUE) /\ "execution_ref" \in DOMAIN r /\ IsWrapper(r))
      PROVE  Keystone(r)
  BY <1>R, <1>6, VerifiedRecord DEF SelfRefs
<1>7. ASSUME "trust_query_ref" \in DOMAIN o \cap DOMAIN r, r["trust_query_ref"] = o["trust_query_ref"],
             VerifyExit(r) = 0 \/ (Validates(held, TRUE) /\ "execution_ref" \in DOMAIN r),
             NEW f \in BindInputs \cup Rebuilt
      PROVE  Get(r, f) = o[f]
  <2>1. IsWrapper(r)
    BY <1>7 DEF IsWrapper
  <2>2. Keystone(r) /\ Keystone(o)
    BY <1>5, <1>6, <1>7, <2>1
  <2>3. f \in DOMAIN r /\ r[f] = o[f]
    BY <1>7, <2>2, TrustQueryOfPins DEF Keystone
  <2> QED
    BY <2>3 DEF Get
<1>8. ASSUME "execution_ref" \in DOMAIN o \cap DOMAIN r, r["execution_ref"] = o["execution_ref"],
             VerifyExit(r) = 0 \/ (Validates(held, TRUE) /\ IsWrapper(r)),
             NEW f \in BindInputs \ {"trust_outcome"}
      PROVE  Get(r, f) = o[f]
  <2>1. Keystone(r) /\ Keystone(o)
    BY <1>5, <1>6, <1>8
  <2>2. f \in DOMAIN r /\ r[f] = o[f]
    BY <1>8, <2>1, ExecutionOfPins DEF Keystone
  <2> QED
    BY <2>2 DEF Get
<1>9. ASSUME "execution_ref" \in DOMAIN o \cap DOMAIN r, r["execution_ref"] = o["execution_ref"],
             Validates(held, FALSE), NEW f \in ExecutionFields
      PROVE  Get(r, f) = o[f]
  <2>1. ExecutionHashes(r)
    BY <1>R, <1>9 DEF VerifyFallback
  <2>2. Keystone(o)
    BY <1>5, <1>9
  <2>3. ExecutionRef(r) = ExecutionRef(o) /\ ExecutionRef(r) # Malformed
    BY <1>9, <2>1, <2>2, KeystoneExecution DEF ExecutionHashes, Keystone
  <2>4. Get(r, f) = Get(o, f)
    BY <1>9, <2>3, ExecutionPins
  <2>5. f \in DOMAIN o
    BY <1>9, <2>2 DEF Keystone, ExecutionFields, BindInputs, Rebuilt
  <2> QED
    BY <2>4, <2>5 DEF Get
<1>10. ASSUME "stage_ref" \in DOMAIN o \cap DOMAIN r, r["stage_ref"] = o["stage_ref"],
              Validates(held, TRUE)
       PROVE  r = o
  <2>1. BodyHashes(o, "stage_ref")
    BY <1>4, <1>10, SelfRefsDiffer
  <2>2. BodyHashes(r, "stage_ref")
    BY <1>R, <1>10, VerifiedRecord DEF SelfRefs
  <2> QED
    BY <1>4, <1>10, <2>1, <2>2, BodyPins
<1> QED
  BY <1>2, <1>3, <1>7, <1>8, <1>9, <1>10

\* A record fixes what its issuer said, as far as the reference the auditor
\* has reaches, whatever a custodian did to it.
THEOREM RecordsAlwaysPinned == Spec => []RecordsPinned
<1>1. Init => RecordIssued
  BY DEF Init, RecordIssued
<1>2. Shape /\ RecordIssued /\ [Next]_vars => RecordIssued'
  BY RecordIssuedStep
<1>3. Shape /\ RecordIssued => RecordsPinned
  BY RecordsArePinned
<1> QED
  BY <1>1, <1>2, <1>3, AlwaysShape, PTL DEF Spec

-----------------------------------------------------------------------------
(* Chains of grants *)

Chained == kind \in {"delegation", "revocation"}
LinkFields == IF kind = "delegation" THEN DelegationFields ELSE RevocationFields

\* A reference to a link hashes the link before, among other fields.
LEMMA LinkHashes ==
    ASSUME NEW env
    PROVE  /\ Hashes(LinkRef(env), WithDefault(env, PrevField, Empty), LinkFields)
           /\ PrevField \in LinkFields
           /\ "elsewhere" \notin LinkFields
           /\ Get(WithDefault(env, PrevField, Empty), PrevField) = PrevOf(env)
<1>1. Hashes(LinkRef(env), WithDefault(env, PrevField, Empty), LinkFields)
  BY RefsHash DEF LinkRef, PrevField, LinkFields
<1>2. PrevField \in LinkFields /\ "elsewhere" \notin LinkFields
  BY DEF PrevField, LinkFields, DelegationFields, RevocationFields
<1>3. \A p : Get(WithDefault(env, p, Empty), p) = IF p \in DOMAIN env THEN env[p] ELSE Empty
  BY DEF Get, WithDefault
<1> QED
  BY <1>1, <1>2, <1>3 DEF PrevOf

LEMMA LinkPins ==
    ASSUME NEW a, NEW b, LinkRef(a) = LinkRef(b), LinkRef(a) # Malformed
    PROVE  PrevOf(a) = PrevOf(b)
<1>1. PICK p : p = PrevField
  OBVIOUS
<1>2. PICK d : d = WithDefault(a, p, Empty)
  OBVIOUS
<1>3. PICK e : e = WithDefault(b, p, Empty)
  OBVIOUS
<1>4. Hashes(LinkRef(a), d, LinkFields) /\ Get(d, p) = PrevOf(a) /\ p \in LinkFields
  BY <1>1, <1>2, LinkHashes
<1>5. Hashes(LinkRef(a), e, LinkFields) /\ Get(e, p) = PrevOf(b)
  BY <1>1, <1>3, LinkHashes
<1> QED
  BY <1>4, <1>5, HashPins

LEMMA LinkIsRef ==
    ASSUME NEW a, LinkRef(a) # Malformed
    PROVE  LinkRef(a) # Empty /\ IsRef(LinkRef(a)) /\ \A x : LinkRef(a) # Made(x)
<1>1. PICK pre : LinkRef(a) = Ref(pre) /\ DOMAIN pre = LinkFields
  <2>1. PICK d : d = WithDefault(a, PrevField, Empty)
    OBVIOUS
  <2>2. LinkRef(a) = Ref([f \in LinkFields |-> Get(d, f)])
    BY <2>1, LinkHashes DEF Hashes
  <2>3. DOMAIN [f \in LinkFields |-> Get(d, f)] = LinkFields
    OBVIOUS
  <2> QED
    BY <2>2, <2>3
<1>2. \A x : pre # [elsewhere |-> x]
  BY <1>1, LinkHashes
<1> QED
  BY <1>1, <1>2, Shapes DEF Made

\* Two chains that verify and meet are one chain up to there.
LEMMA ChainsMeet ==
    ASSUME NEW xs, IsSeq(xs), VerifyChain(xs), NEW ys, IsSeq(ys), VerifyChain(ys)
    PROVE  \A i \in 1 .. Len(xs), j \in 1 .. Len(ys) :
              LinkRef(xs[i]) = LinkRef(ys[j]) =>
                i = j /\ \A k \in 1 .. i : LinkRef(xs[k]) = LinkRef(ys[k])
<1> DEFINE Meet(i) == \A j \in 1 .. Len(ys) :
              LinkRef(xs[i]) = LinkRef(ys[j]) =>
                i = j /\ \A k \in 1 .. i : LinkRef(xs[k]) = LinkRef(ys[k])
           Bad == {i \in 1 .. Len(xs) : ~ Meet(i)}
<1> SUFFICES ASSUME Bad # {} PROVE FALSE
  OBVIOUS
<1>1. DOMAIN xs = 1 .. Len(xs) /\ DOMAIN ys = 1 .. Len(ys) /\ Len(xs) \in Nat /\ Len(ys) \in Nat
  BY SeqDomain
<1>2. PICK i \in Bad : \A k \in Bad : i <= k
  <2>1. Bad \subseteq Nat
    BY <1>1
  <2> QED
    BY <2>1, LeastNat
<1>3. i \in 1 .. Len(xs) /\ ~ Meet(i)
  BY <1>2
<1>4. PICK j \in 1 .. Len(ys) :
        /\ LinkRef(xs[i]) = LinkRef(ys[j])
        /\ ~ (i = j /\ \A k \in 1 .. i : LinkRef(xs[k]) = LinkRef(ys[k]))
  BY <1>3
<1>5. /\ \A k \in 1 .. Len(xs) :
            /\ PrevOf(xs[k]) = IF k = 1 THEN Empty ELSE LinkRef(xs[k - 1])
            /\ LinkRef(xs[k]) # Malformed
      /\ \A k \in 1 .. Len(ys) :
            /\ PrevOf(ys[k]) = IF k = 1 THEN Empty ELSE LinkRef(ys[k - 1])
            /\ LinkRef(ys[k]) # Malformed
  BY <1>1 DEF VerifyChain
<1>6. PrevOf(xs[i]) = PrevOf(ys[j])
  BY <1>3, <1>4, <1>5, LinkPins
<1>7. CASE i = 1
  <2>1. PrevOf(ys[j]) = Empty
    BY <1>3, <1>5, <1>6, <1>7
  <2>2. j = 1
    <3> SUFFICES ASSUME j # 1 PROVE FALSE
      OBVIOUS
    <3>1. j - 1 \in 1 .. Len(ys)
      BY <1>1
    <3>2. LinkRef(ys[j - 1]) # Empty
      BY <1>5, <3>1, LinkIsRef
    <3> QED
      BY <1>5, <2>1, <3>2
  <2>3. \A k \in 1 .. i : k = 1
    BY <1>7
  <2> QED
    BY <1>4, <1>7, <2>2, <2>3
<1>8. CASE i # 1
  <2>1. i - 1 \in 1 .. Len(xs) /\ i - 1 < i
    BY <1>1, <1>3, <1>8
  <2>2. Meet(i - 1)
    <3>1. i - 1 \notin Bad
      BY <1>2, <2>1
    <3> QED
      BY <2>1, <3>1
  <2>3. PrevOf(ys[j]) = LinkRef(xs[i - 1]) /\ LinkRef(xs[i - 1]) # Empty
    BY <1>3, <1>5, <1>6, <1>8, <2>1, LinkIsRef
  <2>4. j # 1
    BY <1>5, <2>3
  <2>5. j - 1 \in 1 .. Len(ys) /\ LinkRef(xs[i - 1]) = LinkRef(ys[j - 1])
    BY <1>1, <1>5, <2>3, <2>4
  <2>6. i - 1 = j - 1 /\ \A k \in 1 .. i - 1 : LinkRef(xs[k]) = LinkRef(ys[k])
    BY <2>2, <2>5
  <2>7. i = j
    BY <2>6, <1>1, <1>3
  <2>8. \A k \in 1 .. i : k \in 1 .. i - 1 \/ k = i
    BY <1>1, <1>3
  <2> QED
    BY <1>4, <2>6, <2>7, <2>8
<1> QED
  BY <1>7, <1>8

\* The link that the author makes next can be referred to.
LEMMA NextGrantLinks ==
    ASSUME NEW late \in BOOLEAN, Chained,
           issued = << >> \/ IsRef(LinkRef(Last(issued)))
    PROVE  /\ LinkRef(NextGrant(late)) # Malformed
           /\ PrevOf(NextGrant(late)) = IF issued = << >> THEN Empty ELSE LinkRef(Last(issued))
<1>1. PICK prev : prev = IF issued = << >> THEN Empty ELSE LinkRef(Last(issued))
  OBVIOUS
<1>2. LinkOk(prev)
  BY <1>1 DEF LinkOk
<1>3. PICK w : w = Str(Word)
  OBVIOUS
<1>4. PICK z : z = Ms(0)
  OBVIOUS
<1>5. PICK t : t = Ms(IF late THEN 2 ELSE 1)
  OBVIOUS
<1>6. PICK e : e = Elsewhere
  OBVIOUS
<1>7. PICK p : p = Str("POLICY")
  OBVIOUS
<1>8. Text(w) /\ IsRef(e) /\ Time(z) /\ Time(t) /\ t.milliseconds > z.milliseconds
  <2>1. Text(w) /\ IsRef(e)
    BY <1>3, <1>6, Shapes, EvidenceAssumption DEF Elsewhere, Made
  <2>2. \A n \in Int : Ms(n).milliseconds = n /\ "milliseconds" \in DOMAIN Ms(n)
    BY DEF Ms
  <2>3. PICK n \in {1, 2} : t = Ms(n)
    BY <1>5
  <2>4. z.milliseconds = 0 /\ t.milliseconds = n
    BY <1>4, <2>2, <2>3
  <2> QED
    BY <1>4, <2>1, <2>2, <2>3, <2>4 DEF Time
<1>9. CASE kind = "delegation"
  <2>1. PICK env : env = [delegator_id |-> w, delegate_id |-> w, scope |-> w, not_before_ms |-> z,
                          not_after_ms |-> t, prev_delegation_ref |-> prev]
    OBVIOUS
  <2>2. env = NextGrant(late)
    BY <1>1, <1>3, <1>4, <1>5, <1>9, <2>1 DEF NextGrant
  <2>3. PICK d : d = WithDefault(env, "prev_delegation_ref", Empty)
    OBVIOUS
  <2>4. d = env
    BY <2>1, <2>3 DEF WithDefault
  <2>5. /\ Get(d, "delegator_id") = w /\ Get(d, "delegate_id") = w /\ Get(d, "scope") = w
        /\ Get(d, "not_before_ms") = z /\ Get(d, "not_after_ms") = t
        /\ d.not_before_ms = z /\ d.not_after_ms = t /\ d.prev_delegation_ref = prev
    BY <2>1, <2>4 DEF Get
  <2>6. AllText(d, {"delegator_id", "delegate_id", "scope"})
    BY <1>8, <2>5 DEF AllText
  <2>7. DelegationRef(env) # Malformed
    BY <1>2, <1>8, <2>3, <2>5, <2>6, Shapes DEF DelegationRef, Hash
  <2>8. PrevOf(env) = prev
    BY <1>9, <2>1 DEF PrevOf, PrevField
  <2> QED
    BY <1>1, <1>9, <2>2, <2>7, <2>8 DEF LinkRef
<1>10. CASE kind = "revocation"
  <2>1. PICK env : env = [revoker_id |-> w, revoked_ref |-> e, reason |-> p, revoked_at_ms |-> t,
                          prev_revocation_ref |-> prev]
    OBVIOUS
  <2>2. env = NextGrant(late)
    BY <1>1, <1>3, <1>5, <1>6, <1>7, <1>10, <2>1 DEF NextGrant
  <2>3. PICK d : d = WithDefault(env, "prev_revocation_ref", Empty)
    OBVIOUS
  <2>4. d = env
    BY <2>1, <2>3 DEF WithDefault
  <2>5. /\ Get(d, "revoker_id") = w /\ Get(d, "revoked_ref") = e /\ Get(d, "reason") = p
        /\ Get(d, "revoked_at_ms") = t /\ d.prev_revocation_ref = prev
    BY <2>1, <2>4 DEF Get
  <2>6. OneOf(d, "reason", {"COMPROMISE", "SUPERSEDED", "POLICY", "EXPIRY", "MANUAL"})
    BY <1>7, <2>5 DEF OneOf
  <2>7. RevocationRef(env) # Malformed
    BY <1>2, <1>8, <2>3, <2>5, <2>6, Shapes DEF RevocationRef, Hash
  <2>8. PrevOf(env) = prev
    BY <1>10, <2>1 DEF PrevOf, PrevField
  <2> QED
    BY <1>1, <1>10, <2>2, <2>7, <2>8 DEF LinkRef
<1> QED
  BY <1>9, <1>10 DEF Chained

ChainIssued == Chained => VerifyChain(issued)

LEMMA ChainGrows ==
    ASSUME Shape, ChainIssued, Grant
    PROVE  \E docs : Hand(docs) /\ IsSeq(docs) /\ VerifyChain(docs)
<1>1. PICK late \in BOOLEAN : Hand(Append(issued, NextGrant(late)))
  BY GrantHands
<1>2. Chained
  BY GrantHands DEF Chained
<1>3. PICK n : n = Len(issued)
  OBVIOUS
<1>4. n \in Nat /\ DOMAIN issued = 1 .. n /\ IsSeq(issued)
  BY <1>3, SeqDomain DEF Shape
<1>5. \A i \in 1 .. n : /\ PrevOf(issued[i]) = IF i = 1 THEN Empty ELSE LinkRef(issued[i - 1])
                        /\ LinkRef(issued[i]) # Malformed
  BY <1>2, <1>4 DEF ChainIssued, VerifyChain
<1>6. issued = << >> <=> n = 0
  <2>1. issued = << >> => n = 0
    BY <1>3, EmptyIsSeq
  <2>2. n = 0 => issued = [i \in 1 .. 0 |-> issued[i]]
    BY <1>3, <1>4 DEF IsSeq
  <2> QED
    BY <2>1, <2>2
<1>7. Last(issued) = issued[n]
  BY <1>3 DEF Last
<1>8. PICK env : env = NextGrant(late)
  OBVIOUS
<1>9. LinkRef(env) # Malformed /\ PrevOf(env) = IF n = 0 THEN Empty ELSE LinkRef(issued[n])
  <2>1. issued = << >> \/ IsRef(LinkRef(Last(issued)))
    <3>1. n # 0 => n \in 1 .. n
      BY <1>4
    <3> QED
      BY <1>5, <1>6, <1>7, <3>1, LinkIsRef
  <2>2. /\ LinkRef(NextGrant(late)) # Malformed
        /\ PrevOf(NextGrant(late)) = IF issued = << >> THEN Empty ELSE LinkRef(Last(issued))
    BY <1>2, <2>1, NextGrantLinks
  <2> QED
    BY <1>6, <1>7, <1>8, <2>2
<1>10. PICK docs : docs = Append(issued, env)
  OBVIOUS
<1>11. /\ IsSeq(docs) /\ Len(docs) = n + 1 /\ docs[n + 1] = env
       /\ \A i \in 1 .. n : docs[i] = issued[i]
  BY <1>3, <1>4, <1>10, AppendIsSeq
<1>12. ASSUME NEW i \in 1 .. n + 1
       PROVE  /\ PrevOf(docs[i]) = IF i = 1 THEN Empty ELSE LinkRef(docs[i - 1])
              /\ LinkRef(docs[i]) # Malformed
  <2>1. CASE i \in 1 .. n
    <3>1. i # 1 => i - 1 \in 1 .. n
      BY <1>4, <2>1
    <3> QED
      BY <1>5, <1>11, <2>1, <3>1
  <2>2. CASE i = n + 1
    <3>1. docs[i] = env /\ i - 1 = n
      BY <1>4, <1>11, <2>2
    <3>2. i = 1 <=> n = 0
      BY <1>4, <2>2
    <3>3. n # 0 => docs[i - 1] = issued[n]
      BY <1>4, <1>11, <3>1
    <3> QED
      BY <1>9, <3>1, <3>2, <3>3
  <2> QED
    BY <1>4, <2>1, <2>2
<1>13. DOMAIN docs = 1 .. n + 1
  BY <1>11, SeqDomain
<1>14. VerifyChain(docs)
  BY <1>12, <1>13 DEF VerifyChain
<1> QED
  BY <1>1, <1>8, <1>10, <1>11, <1>14

LEMMA ChainIssuedStep ==
    ASSUME Shape, ChainIssued, [Next]_vars
    PROVE  ChainIssued'
<1>1. ASSUME NEW docs, VerifyChain(docs), kind' = kind, issued' = docs
      PROVE  ChainIssued'
  BY <1>1 DEF ChainIssued, VerifyChain, PrevOf, PrevField, LinkRef
<1>2. ASSUME kind' = kind, issued' = issued
      PROVE  ChainIssued'
  BY <1>1, <1>2 DEF ChainIssued, Chained
<1>3. CASE Grant
  BY <1>1, <1>3, ChainGrows DEF Hand
<1>4. CASE Bind \/ RecordStage \/ NextStep
  BY <1>4 DEF Bind, RecordStage, NextStep, Hand, ChainIssued, Chained
<1>5. CASE CustodianStep
  BY <1>2, <1>5, CustodianKeepsShape
<1>6. CASE UNCHANGED vars
  BY <1>2, <1>6 DEF vars
<1> QED
  BY <1>3, <1>4, <1>5, <1>6 DEF Next


\* A link that the custodian did not compute: none, one of his own, or one
\* that was issued.
Known(v) ==
    v = Empty \/ v \in Value[PrevField] \/ \E j \in 1 .. Len(issued) : v = LinkRef(issued[j])
AllKnown(docs) == \A i \in 1 .. Len(docs) : Known(PrevOf(docs[i]))

Unlinked == Chained /\ ~ computed => AllKnown(held)

LEMMA SetKeepsKnown ==
    ASSUME NEW d, Known(PrevOf(d)), NEW f \in DOMAIN d, NEW v \in Value[f]
    PROVE  Known(PrevOf(With(d, f, v))) /\ Known(PrevOf(Only(d, DOMAIN d \ {f})))
<1>1. PICK p : p = PrevField
  OBVIOUS
<1>2. PrevOf(With(d, f, v)) = IF p = f THEN v ELSE PrevOf(d)
  BY <1>1 DEF PrevOf, With
<1>3. PrevOf(Only(d, DOMAIN d \ {f})) = IF p = f THEN Empty ELSE PrevOf(d)
  BY <1>1 DEF PrevOf, Only
<1> QED
  BY <1>1, <1>2, <1>3 DEF Known

\* One document replaced by another whose link is known.
LEMMA ReplacedKnown ==
    ASSUME IsSeq(held), AllKnown(held), NEW i \in DOMAIN held, NEW d, Known(PrevOf(d)),
           NEW docs, Replaced(docs, held, i, d)
    PROVE  AllKnown(docs)
<1>1. /\ Len(docs) = Len(held) /\ docs[i] = d
      /\ \A j \in 1 .. Len(held) : j # i => docs[j] = held[j]
  BY ExceptIsSeq
<1> QED
  BY <1>1 DEF AllKnown

\* Whatever the custodian changes, short of computing a link.
LEMMA ChangesKeepKnown ==
    ASSUME Shape, Chained, AllKnown(held), CustodianStep
    PROVE  computed' = TRUE \/ (AllKnown(held') /\ computed' = computed)
<1>1. IsSeq(held) /\ DOMAIN held = 1 .. Len(held) /\ Len(held) \in Nat
  BY SeqDomain DEF Shape
<1>2. ASSUME NEW i \in DOMAIN held, NEW d, Known(PrevOf(d)), Change([held EXCEPT ![i] = d])
      PROVE  AllKnown(held') /\ computed' = computed
  <2>1. Replaced(held', held, i, d) /\ computed' = computed
    BY <1>2 DEF Change, Replaced
  <2> QED
    BY <1>1, <1>2, <2>1, ReplacedKnown
<1>3. \A i \in DOMAIN held : Known(PrevOf(held[i]))
  BY <1>1 DEF AllKnown
<1>4. CASE SetField
  BY <1>2, <1>3, <1>4, SetKeepsKnown DEF SetField
<1>5. CASE DropField
  <2>1. PICK i \in DOMAIN held : \E f \in DOMAIN held[i] :
            Change([held EXCEPT ![i] = Only(@, DOMAIN @ \ {f})])
    BY <1>5 DEF DropField
  <2>2. PICK f \in DOMAIN held[i] : Change([held EXCEPT ![i] = Only(held[i], DOMAIN held[i] \ {f})])
    BY <2>1
  <2>3. PrevOf(Only(held[i], DOMAIN held[i] \ {f})) = IF PrevField = f THEN Empty ELSE PrevOf(held[i])
    BY DEF PrevOf, Only
  <2>4. Known(PrevOf(Only(held[i], DOMAIN held[i] \ {f})))
    BY <1>3, <2>3 DEF Known
  <2> QED
    BY <1>2, <2>2, <2>4
<1>6. CASE AddField
  BY <1>6 DEF AddField, Chained
<1>7. CASE DropDocument
  <2>1. PICK i \in DOMAIN held : Change(RemoveAt(held, i))
    BY <1>7 DEF DropDocument
  <2>2. PICK docs : docs = RemoveAt(held, i)
    OBVIOUS
  <2>3. \A j \in 1 .. Len(docs) : \E k \in 1 .. Len(held) : docs[j] = held[k]
    BY <1>1, <2>2, RemoveIsSeq
  <2>4. AllKnown(docs)
    BY <2>3 DEF AllKnown
  <2> QED
    BY <2>1, <2>2, <2>4 DEF Change
<1>8. CASE Exchange
  <2>1. PICK i \in 1 .. Len(held) - 1 : Change([held EXCEPT ![i] = held[i + 1], ![i + 1] = held[i]])
    BY <1>8 DEF Exchange
  <2>2. i \in 1 .. Len(held) /\ i + 1 \in 1 .. Len(held)
    BY <1>1, <2>1
  <2>3. PICK a : a = held[i]
    OBVIOUS
  <2>4. PICK b : b = held[i + 1]
    OBVIOUS
  <2>5. PICK k \in 1 .. Len(held) : k = i + 1
    BY <2>2
  <2>6. held' = [held EXCEPT ![i] = b, ![k] = a] /\ computed' = computed
    BY <2>1, <2>3, <2>4, <2>5 DEF Change
  <2>7. Known(PrevOf(a)) /\ Known(PrevOf(b))
    BY <1>1, <1>3, <2>2, <2>3, <2>4
  <2>8. DOMAIN held' = 1 .. Len(held)
        /\ \A j \in 1 .. Len(held) : held'[j] = a \/ held'[j] = b \/ held'[j] = held[j]
    BY <1>1, <2>6
  <2>9. Len(held') = Len(held)
    BY <1>1, <2>8
  <2> QED
    BY <1>1, <1>3, <2>6, <2>7, <2>8, <2>9 DEF AllKnown
<1>9. CASE Recompute
  BY <1>9 DEF Recompute
<1> QED
  BY <1>4, <1>5, <1>6, <1>7, <1>8, <1>9 DEF CustodianStep

\* A chain that verifies names no links but its own.
LEMMA VerifiedKnown ==
    ASSUME VerifyChain(issued), IsSeq(issued)
    PROVE  AllKnown(issued)
<1>1. DOMAIN issued = 1 .. Len(issued) /\ Len(issued) \in Nat
  BY SeqDomain
<1>2. ASSUME NEW i \in 1 .. Len(issued)
      PROVE  Known(PrevOf(issued[i]))
  <2>1. PrevOf(issued[i]) = IF i = 1 THEN Empty ELSE LinkRef(issued[i - 1])
    BY <1>1 DEF VerifyChain
  <2>2. i # 1 => i - 1 \in 1 .. Len(issued)
    BY <1>1
  <2> QED
    BY <2>1, <2>2 DEF Known
<1> QED
  BY <1>2 DEF AllKnown

LEMMA UnlinkedStep ==
    ASSUME Shape, ChainIssued, Unlinked, [Next]_vars
    PROVE  Unlinked'
<1>1. Shape' /\ ChainIssued'
  BY NextKeepsShape, ChainIssuedStep
<1>2. ASSUME held' = issued'
      PROVE  Unlinked'
  <2> SUFFICES ASSUME Chained'
               PROVE  AllKnown(held)'
    BY Zenon DEF Unlinked
  <2>1. VerifyChain(issued)' /\ IsSeq(issued)'
    BY <1>1 DEF ChainIssued, Shape
  <2>2. AllKnown(issued)'
    BY <2>1, VerifiedKnown, PTL
  <2> QED
    BY <1>2, <2>2 DEF AllKnown
<1>3. CASE Bind \/ RecordStage \/ Grant \/ NextStep
  <2>1. ASSUME NEW docs, Hand(docs)
        PROVE  held' = issued'
    BY <2>1 DEF Hand
  <2>2. held' = issued'
    BY <1>3, <2>1, GrantHands, Zenon DEF Bind, RecordStage, NextStep
  <2> QED
    BY <1>2, <2>2
<1>4. CASE CustodianStep
  <2>1. kind' = kind /\ issued' = issued
    BY <1>4, CustodianKeepsShape
  <2> SUFFICES ASSUME Chained', ~ computed'
               PROVE  AllKnown(held)'
    BY Zenon DEF Unlinked
  <2>2. Chained
    BY <2>1 DEF Chained
  <2>3. ~ computed
    <3>1. CASE Recompute
      BY <3>1, Zenon DEF Recompute
    <3>2. ASSUME NEW docs, Change(docs)
          PROVE  computed' = computed
      BY <3>2 DEF Change
    <3>3. CASE SetField \/ DropField \/ AddField \/ DropDocument \/ Exchange
      <4>1. computed' = computed
        BY <3>2, <3>3 DEF SetField, DropField, AddField, DropDocument, Exchange
      <4> QED
        BY <4>1, Zenon
    <3> QED
      BY <1>4, <3>1, <3>3 DEF CustodianStep
  <2>4. AllKnown(held)
    BY <2>2, <2>3, Zenon DEF Unlinked
  <2>5. AllKnown(held')
    <3>1. computed' = TRUE \/ (AllKnown(held') /\ computed' = computed)
      BY <1>4, <2>2, <2>4, ChangesKeepKnown
    <3> QED
      BY <3>1, Zenon
  <2> QED
    BY <2>1, <2>5 DEF AllKnown, Known, PrevOf, PrevField, LinkRef
<1>5. CASE UNCHANGED vars
  <2>1. kind' = kind /\ issued' = issued /\ held' = held /\ computed' = computed
    BY <1>5 DEF vars
  <2>2. Chained' <=> Chained
    BY <2>1 DEF Chained
  <2>3. AllKnown(held)' <=> AllKnown(held)
    BY <2>1 DEF AllKnown, Known, PrevOf, PrevField, LinkRef
  <2> QED
    BY <2>1, <2>2, <2>3, Zenon DEF Unlinked
<1> QED
  BY <1>3, <1>4, <1>5 DEF Next

LEMMA ChainsArePinned ==
    ASSUME Shape, ChainIssued, Unlinked
    PROVE  ChainsPinned
<1> SUFFICES ASSUME Chained, held # << >>, VerifyChain(held)
             PROVE  /\ LinkRef(Last(held)) = LinkRef(Last(issued)) =>
                         /\ Len(held) = Len(issued)
                         /\ \A i \in DOMAIN held : LinkRef(held[i]) = LinkRef(issued[i])
                    /\ ~ computed =>
                         \A i \in 1 .. Len(held) - 1 : LinkRef(held[i]) = LinkRef(issued[i])
  BY Zenon DEF ChainsPinned, Chained
<1>1. PICK n : n = Len(held)
  OBVIOUS
<1>2. PICK m : m = Len(issued)
  OBVIOUS
<1>3. n \in Nat /\ m \in Nat /\ n <= m /\ DOMAIN held = 1 .. n /\ DOMAIN issued = 1 .. m
      /\ IsSeq(held) /\ IsSeq(issued)
  BY <1>1, <1>2, SeqDomain DEF Shape
<1>4. n # 0
  <2> SUFFICES ASSUME n = 0 PROVE FALSE
    OBVIOUS
  <2>1. held = [i \in 1 .. 0 |-> held[i]]
    BY <1>1 DEF Shape, IsSeq
  <2> QED
    BY <2>1
<1>5. VerifyChain(issued)
  BY DEF ChainIssued
<1>6. \A i \in 1 .. n, j \in 1 .. m : LinkRef(held[i]) = LinkRef(issued[j]) =>
          i = j /\ \A k \in 1 .. i : LinkRef(held[k]) = LinkRef(issued[k])
  BY <1>1, <1>2, <1>3, <1>5, ChainsMeet
<1>7. Last(held) = held[n] /\ Last(issued) = issued[m] /\ n \in 1 .. n /\ m \in 1 .. m
  BY <1>1, <1>2, <1>3, <1>4 DEF Last
<1>8. LinkRef(Last(held)) = LinkRef(Last(issued)) =>
          n = m /\ \A i \in 1 .. n : LinkRef(held[i]) = LinkRef(issued[i])
  BY <1>6, <1>7
<1>9. ASSUME ~ computed, NEW i \in 1 .. n - 1
      PROVE  LinkRef(held[i]) = LinkRef(issued[i])
  <2>1. i \in 1 .. n /\ i + 1 \in 1 .. n /\ i + 1 # 1 /\ (i + 1) - 1 = i
    BY <1>3
  <2>2. AllKnown(held)
    BY <1>9, Zenon DEF Unlinked
  <2>3. PICK v : v = LinkRef(held[i])
    OBVIOUS
  <2>4. PrevOf(held[i + 1]) = v /\ v # Malformed
    BY <1>3, <2>1, <2>3 DEF VerifyChain
  <2>5. Known(v)
    BY <1>1, <2>1, <2>2, <2>4 DEF AllKnown
  <2>6. v # Empty /\ IsRef(v) /\ \A x : v # Made(x)
    BY <2>3, <2>4, LinkIsRef
  <2>7. v \notin Value[PrevField]
    BY <2>6, EvidenceAssumption DEF PrevField
  <2>8. PICK j \in 1 .. m : v = LinkRef(issued[j])
    BY <1>2, <2>5, <2>6, <2>7 DEF Known
  <2> QED
    BY <1>6, <2>1, <2>3, <2>8
<1> QED
  BY <1>1, <1>2, <1>3, <1>8, <1>9

\* A chain that verifies and ends where the issued one ends is the issued
\* one; if nobody computes links, all but its last link are.
THEOREM ChainsAlwaysPinned == Spec => []ChainsPinned
<1>1. Init => ChainIssued /\ Unlinked
  <2> SUFFICES ASSUME Init PROVE ChainIssued /\ Unlinked
    OBVIOUS
  <2>1. Len(held) = 0 /\ issued = << >>
    BY EmptyIsSeq DEF Init
  <2>2. DOMAIN issued = {} /\ 1 .. Len(held) = {}
    BY <2>1
  <2> QED
    BY <2>2 DEF ChainIssued, Unlinked, VerifyChain, AllKnown
<1>2. Shape /\ ChainIssued /\ Unlinked /\ [Next]_vars => ChainIssued' /\ Unlinked'
  BY ChainIssuedStep, UnlinkedStep
<1>3. Shape /\ ChainIssued /\ Unlinked => ChainsPinned
  BY ChainsArePinned
<1> QED
  BY <1>1, <1>2, <1>3, AlwaysShape, PTL DEF Spec

-----------------------------------------------------------------------------
(* The steps of a lifecycle *)

StepSet == {"passport", "mandate", "policy", "policy_bound", "payer", "gate", "decision", "action",
            "execution", "binding", "trust_query", "cancellation", "refund", "journey"}
Naming == {"policy_bound", "gate", "decision", "execution", "binding", "cancellation", "refund"}
Listing == {"trust_query", "journey"}

LEMMA NamesOf ==
    /\ \A s \in StepSet \ Naming : DOMAIN Names(s) = {}
    /\ DOMAIN Names("policy_bound") = {"policy_ref", "subject_ref"}
    /\ Names("policy_bound")["policy_ref"] = "policy" /\ Names("policy_bound")["subject_ref"] = "mandate"
    /\ DOMAIN Names("gate") = {"payer_ref", "subject_ref"}
    /\ Names("gate")["payer_ref"] = "payer" /\ Names("gate")["subject_ref"] = "policy_bound"
    /\ DOMAIN Names("decision") = {"agent_ref", "mandate_ref", "policy_bound_ref"}
    /\ Names("decision")["agent_ref"] = "passport" /\ Names("decision")["mandate_ref"] = "mandate"
    /\ Names("decision")["policy_bound_ref"] = "policy_bound"
    /\ DOMAIN Names("execution") = {"decision_ref"} /\ Names("execution")["decision_ref"] = "decision"
    /\ DOMAIN Names("binding") = {"execution_ref"} /\ Names("binding")["execution_ref"] = "execution"
    /\ DOMAIN Names("cancellation") = {"mandate_ref"} /\ Names("cancellation")["mandate_ref"] = "mandate"
    /\ DOMAIN Names("refund") = {"subject_ref"} /\ Names("refund")["subject_ref"] = "execution"
<1>1. ASSUME NEW s \in StepSet \ Naming
      PROVE  DOMAIN Names(s) = {}
  <2>1. Names(s) = << >>
    BY DEF Names, StepSet, Naming
  <2> QED
    BY <2>1
<1>2. /\ DOMAIN Names("policy_bound") = {"policy_ref", "subject_ref"}
      /\ Names("policy_bound")["policy_ref"] = "policy" /\ Names("policy_bound")["subject_ref"] = "mandate"
  BY DEF Names
<1>3. /\ DOMAIN Names("gate") = {"payer_ref", "subject_ref"}
      /\ Names("gate")["payer_ref"] = "payer" /\ Names("gate")["subject_ref"] = "policy_bound"
  BY DEF Names
<1>4. /\ DOMAIN Names("decision") = {"agent_ref", "mandate_ref", "policy_bound_ref"}
      /\ Names("decision")["agent_ref"] = "passport" /\ Names("decision")["mandate_ref"] = "mandate"
      /\ Names("decision")["policy_bound_ref"] = "policy_bound"
  BY DEF Names
<1>5. DOMAIN Names("execution") = {"decision_ref"} /\ Names("execution")["decision_ref"] = "decision"
  BY DEF Names
<1>6. DOMAIN Names("binding") = {"execution_ref"} /\ Names("binding")["execution_ref"] = "execution"
  BY DEF Names
<1>7. DOMAIN Names("cancellation") = {"mandate_ref"} /\ Names("cancellation")["mandate_ref"] = "mandate"
  BY DEF Names
<1>8. DOMAIN Names("refund") = {"subject_ref"} /\ Names("refund")["subject_ref"] = "execution"
  BY DEF Names
<1> QED
  BY <1>1, <1>2, <1>3, <1>4, <1>5, <1>6, <1>7, <1>8

LEMMA ListsOf ==
    /\ \A s \in StepSet \ Listing : DOMAIN Lists(s) = {}
    /\ DOMAIN Lists("trust_query") = {"subject_refs"}
    /\ Lists("trust_query")["subject_refs"] = <<"passport", "mandate", "policy_bound", "decision", "execution">>
    /\ DOMAIN Lists("journey") = {"hops"} /\ Lists("journey")["hops"] = <<"execution">>
<1>1. ASSUME NEW s \in StepSet \ Listing
      PROVE  DOMAIN Lists(s) = {}
  <2>1. Lists(s) = << >>
    BY DEF Lists, StepSet, Listing
  <2> QED
    BY <2>1
<1>2. PICK five : five = <<"passport", "mandate", "policy_bound", "decision", "execution">>
  OBVIOUS
<1>3. Lists("trust_query") = [subject_refs |-> five]
  BY <1>2 DEF Lists
<1>4. PICK one : one = <<"execution">>
  OBVIOUS
<1>5. Lists("journey") = [hops |-> one]
  BY <1>4 DEF Lists
<1>6. DOMAIN Lists("trust_query") = {"subject_refs"} /\ Lists("trust_query")["subject_refs"] = five
  BY <1>3
<1>7. DOMAIN Lists("journey") = {"hops"} /\ Lists("journey")["hops"] = one
  BY <1>5
<1> QED
  BY <1>1, <1>2, <1>4, <1>6, <1>7

LEMMA StepsAre ==
    /\ Len(Steps) = 14 /\ DOMAIN Steps = 1 .. 14
    /\ Steps[1] = "passport" /\ Steps[2] = "mandate" /\ Steps[3] = "policy" /\ Steps[4] = "policy_bound"
    /\ Steps[5] = "payer" /\ Steps[6] = "gate" /\ Steps[7] = "decision" /\ Steps[8] = "action"
    /\ Steps[9] = "execution" /\ Steps[10] = "binding" /\ Steps[11] = "trust_query"
    /\ Steps[12] = "cancellation" /\ Steps[13] = "refund" /\ Steps[14] = "journey"
BY DEF Steps

LEMMA StepsDiffer ==
    /\ \A i \in 1 .. 14 : Steps[i] \in StepSet
    /\ \A i, j \in 1 .. 14 : Steps[i] = Steps[j] => i = j
<1>1. \A i \in 1 .. 14 : i \in {1, 2, 3, 4, 5, 6, 7, 8, 9, 10, 11, 12, 13, 14}
  OBVIOUS
<1>2. \A i \in 1 .. 14 : Steps[i] \in StepSet
  BY <1>1, StepsAre DEF StepSet
<1>3. \A i, j \in 1 .. 14 : Steps[i] = Steps[j] => i = j
  BY <1>1, StepsAre
<1> QED
  BY <1>2, <1>3

LEMMA PlaceOf ==
    ASSUME NEW i \in 1 .. 14
    PROVE  Place(Steps[i]) = i
<1>1. \E k \in DOMAIN Steps : Steps[k] = Steps[i]
  BY StepsAre
<1>2. Place(Steps[i]) \in 1 .. 14 /\ Steps[Place(Steps[i])] = Steps[i]
  BY <1>1, StepsAre DEF Place
<1> QED
  BY <1>2, StepsDiffer

Places ==
    /\ Place("passport") = 1 /\ Place("mandate") = 2 /\ Place("policy") = 3 /\ Place("policy_bound") = 4
    /\ Place("payer") = 5 /\ Place("gate") = 6 /\ Place("decision") = 7 /\ Place("action") = 8
    /\ Place("execution") = 9 /\ Place("binding") = 10 /\ Place("trust_query") = 11
    /\ Place("cancellation") = 12 /\ Place("refund") = 13 /\ Place("journey") = 14

LEMMA PlacesAre == Places
<1>1. \A i \in 1 .. 14 : Place(Steps[i]) = i
  BY PlaceOf
<1>2. \A i \in {1, 2, 3, 4, 5, 6, 7, 8, 9, 10, 11, 12, 13, 14} : Place(Steps[i]) = i
  BY <1>1
<1> QED
  BY <1>2, StepsAre DEF Places

\* A document names only documents of earlier steps.
Earlier(s, x) == x \in StepSet /\ Place(x) < Place(s)

LEMMA CitedIs ==
    ASSUME NEW s, NEW x \in Cited(s)
    PROVE  \/ \E f \in DOMAIN Names(s) : x = Names(s)[f]
           \/ \E f \in DOMAIN Lists(s) : \E k \in DOMAIN Lists(s)[f] : x = Lists(s)[f][k]
BY DEF Cited, Range

LEMMA CitedAre ==
    ASSUME NEW s
    PROVE  /\ \A f \in DOMAIN Names(s) : Names(s)[f] \in Cited(s)
           /\ \A f \in DOMAIN Lists(s) : \A k \in DOMAIN Lists(s)[f] : Lists(s)[f][k] \in Cited(s)
BY DEF Cited, Range

LEMMA NamedEarlier == \A s \in StepSet : \A f \in DOMAIN Names(s) : Earlier(s, Names(s)[f])
<1>1. \A s \in Naming : \A f \in DOMAIN Names(s) : Names(s)[f] \in StepSet /\ Place(Names(s)[f]) < Place(s)
  BY NamesOf, PlacesAre DEF Places, Naming, StepSet
<1> QED
  BY <1>1, NamesOf DEF Earlier

LEMMA ListedEarlier ==
    \A s \in StepSet : \A f \in DOMAIN Lists(s) : \A k \in DOMAIN Lists(s)[f] : Earlier(s, Lists(s)[f][k])
<1>1. PICK five : five = Lists("trust_query")["subject_refs"]
  OBVIOUS
<1>2. five = <<"passport", "mandate", "policy_bound", "decision", "execution">>
  BY <1>1, ListsOf
<1>3. \A k \in DOMAIN five : five[k] \in {"passport", "mandate", "policy_bound", "decision", "execution"}
  BY <1>2
<1>4. \A k \in DOMAIN five : Earlier("trust_query", five[k])
  BY <1>3, PlacesAre DEF Places, StepSet, Earlier
<1>5. PICK one : one = Lists("journey")["hops"]
  OBVIOUS
<1>6. one = <<"execution">>
  BY <1>5, ListsOf
<1>7. \A k \in DOMAIN one : one[k] = "execution"
  BY <1>6
<1>8. \A k \in DOMAIN one : Earlier("journey", one[k])
  BY <1>7, PlacesAre DEF Places, StepSet, Earlier
<1> QED
  BY <1>1, <1>4, <1>5, <1>8, ListsOf DEF Listing

LEMMA CitedEarlier == \A s \in StepSet : \A x \in Cited(s) : Earlier(s, x)
BY CitedIs, NamedEarlier, ListedEarlier

LEMMA StepsPlaced ==
    \A s \in StepSet : Place(s) \in 1 .. 14 /\ s = Steps[Place(s)]
BY PlacesAre, StepsAre DEF Places, StepSet

-----------------------------------------------------------------------------
(* The documents of the steps *)

LEMMA RefAtIs ==
    ASSUME NEW d
    PROVE  /\ RefAt("passport", d) = PassportRef(d) /\ RefAt("mandate", d) = MandateRef(d)
           /\ RefAt("policy", d) = PolicyRef(d) /\ RefAt("policy_bound", d) = PolicyBoundRef(d)
           /\ RefAt("payer", d) = PayerRef(d) /\ RefAt("gate", d) = GateRef(d)
           /\ RefAt("decision", d) = GuardrailRef(d) /\ RefAt("action", d) = RecomputeActionRef(d)
           /\ RefAt("execution", d) = ExecutionRef(d) /\ RefAt("binding", d) = ExecutionBinding(d)
           /\ RefAt("trust_query", d) = TrustQueryLiteRef(d)
           /\ RefAt("cancellation", d) = CancellationRef(d)
           /\ RefAt("refund", d) = RefundRef(d) /\ RefAt("journey", d) = JourneyRef(d)
BY DEF RefAt

\* The fields of a document that is issued, which are those that are hashed.
FieldsAt(step) ==
    CASE step = "passport"     -> PassportFields
      [] step = "mandate"      -> MandateFields
      [] step = "policy"       -> {"rules"}
      [] step = "policy_bound" -> PolicyBoundFields
      [] step = "payer"        -> PayerFields
      [] step = "gate"         -> GateFields
      [] step = "decision"     -> DecisionFields
      [] step = "action"       -> ActionFields
      [] step = "execution"    -> ExecutionFields
      [] step = "binding"      -> BindingFields
      [] step = "trust_query"  -> TrustFields
      [] step = "cancellation" -> CancellationFields
      [] step = "refund"       -> RefundFields
      [] step = "journey"      -> JourneyFields

LEMMA FieldsAtIs ==
    /\ FieldsAt("passport") = PassportFields /\ FieldsAt("mandate") = MandateFields
    /\ FieldsAt("policy") = {"rules"} /\ FieldsAt("policy_bound") = PolicyBoundFields
    /\ FieldsAt("payer") = PayerFields /\ FieldsAt("gate") = GateFields
    /\ FieldsAt("decision") = DecisionFields /\ FieldsAt("action") = ActionFields
    /\ FieldsAt("execution") = ExecutionFields /\ FieldsAt("binding") = BindingFields
    /\ FieldsAt("trust_query") = TrustFields /\ FieldsAt("cancellation") = CancellationFields
    /\ FieldsAt("refund") = RefundFields /\ FieldsAt("journey") = JourneyFields
BY DEF FieldsAt

\* The references to a list of steps.
ListIn(docs, steps) == Arr([k \in DOMAIN steps |-> RefIn(docs, steps[k])])

BoundFields(docs, s, c, d) ==
    /\ DOMAIN d = DOMAIN Names(s) \cup DOMAIN Lists(s) \cup DOMAIN c
    /\ \A f \in DOMAIN Names(s) : d[f] = RefIn(docs, Names(s)[f])
    /\ \A f \in DOMAIN Lists(s) \ DOMAIN Names(s) : d[f] = ListIn(docs, Lists(s)[f])
    /\ \A f \in DOMAIN c \ (DOMAIN Names(s) \cup DOMAIN Lists(s)) : d[f] = c[f]

LEMMA BoundIs ==
    ASSUME NEW docs, NEW s, NEW c, NEW d, d = Bound(docs, s, c)
    PROVE  BoundFields(docs, s, c, d)
BY DEF BoundFields, Bound, ListIn

Refers(docs, s) == IsRef(RefIn(docs, s))

LEMMA Words == Text(Str(Word)) /\ IsRef(Elsewhere) /\ Text(Elsewhere) /\ Time(Ms(1))
<1>1. Time(Ms(1))
  BY DEF Time, Ms
<1> QED
  BY <1>1, Shapes, EvidenceAssumption DEF Elsewhere, Made

LEMMA PassportFits ==
    ASSUME NEW docs, NEW d, d = Bound(docs, "passport", Contents("passport"))
    PROVE  IsRef(RefAt("passport", d)) /\ DOMAIN d = FieldsAt("passport")
<1>1. PICK c : c = Contents("passport")
  OBVIOUS
<1>2. DOMAIN c = PassportFields /\ \A f \in PassportFields : c[f] = Str(Word)
  BY <1>1 DEF Contents
<1>3. DOMAIN d = PassportFields /\ \A f \in PassportFields : d[f] = Str(Word)
  <2>1. PICK s : s = "passport"
    OBVIOUS
  <2>2. DOMAIN Names(s) = {}
    BY <2>1, NamesOf DEF StepSet, Naming
  <2>3. DOMAIN Lists(s) = {}
    BY <2>1, ListsOf DEF StepSet, Listing
  <2>4. BoundFields(docs, s, c, d)
    BY <1>1, <2>1, BoundIs
  <2> QED
    BY <1>2, <2>2, <2>3, <2>4 DEF BoundFields
<1>4. AllText(d, PassportFields)
  BY <1>3, Words DEF AllText, Get
<1> QED
  BY <1>3, <1>4, RefAtIs, FieldsAtIs, Shapes DEF PassportRef, Hash

LEMMA MandateFits ==
    ASSUME NEW docs, NEW d, d = Bound(docs, "mandate", Contents("mandate"))
    PROVE  IsRef(RefAt("mandate", d)) /\ DOMAIN d = FieldsAt("mandate")
<1>1. PICK c : c = Contents("mandate")
  OBVIOUS
<1>2. DOMAIN c = MandateFields /\ \A f \in MandateFields : c[f] = Str(Word)
  BY <1>1 DEF Contents
<1>3. DOMAIN d = MandateFields /\ \A f \in MandateFields : d[f] = Str(Word)
  <2>1. PICK s : s = "mandate"
    OBVIOUS
  <2>2. DOMAIN Names(s) = {}
    BY <2>1, NamesOf DEF StepSet, Naming
  <2>3. DOMAIN Lists(s) = {}
    BY <2>1, ListsOf DEF StepSet, Listing
  <2>4. BoundFields(docs, s, c, d)
    BY <1>1, <2>1, BoundIs
  <2> QED
    BY <1>2, <2>2, <2>3, <2>4 DEF BoundFields
<1>4. AllText(d, MandateFields)
  BY <1>3, Words DEF AllText, Get
<1> QED
  BY <1>3, <1>4, RefAtIs, FieldsAtIs, Shapes DEF MandateRef, Hash

LEMMA PolicyFits ==
    ASSUME NEW docs, NEW d, d = Bound(docs, "policy", Contents("policy"))
    PROVE  IsRef(RefAt("policy", d)) /\ DOMAIN d = FieldsAt("policy")
<1>1. PICK c : c = Contents("policy")
  OBVIOUS
<1>2. DOMAIN c = {"rules"}
  BY <1>1 DEF Contents
<1>3. DOMAIN d = {"rules"}
  <2>1. PICK s : s = "policy"
    OBVIOUS
  <2>2. DOMAIN Names(s) = {}
    BY <2>1, NamesOf DEF StepSet, Naming
  <2>3. DOMAIN Lists(s) = {}
    BY <2>1, ListsOf DEF StepSet, Listing
  <2>4. BoundFields(docs, s, c, d)
    BY <1>1, <2>1, BoundIs
  <2> QED
    BY <1>2, <2>2, <2>3, <2>4 DEF BoundFields
<1> QED
  BY <1>3, RefAtIs, FieldsAtIs, Shapes DEF PolicyRef

LEMMA PayerFits ==
    ASSUME NEW docs, NEW d, d = Bound(docs, "payer", Contents("payer"))
    PROVE  IsRef(RefAt("payer", d)) /\ DOMAIN d = FieldsAt("payer")
<1>1. PICK c : c = Contents("payer")
  OBVIOUS
<1>2. DOMAIN c = PayerFields /\ \A f \in PayerFields : c[f] = Str(Word)
  BY <1>1 DEF Contents
<1>3. DOMAIN d = PayerFields /\ \A f \in PayerFields : d[f] = Str(Word)
  <2>1. PICK s : s = "payer"
    OBVIOUS
  <2>2. DOMAIN Names(s) = {}
    BY <2>1, NamesOf DEF StepSet, Naming
  <2>3. DOMAIN Lists(s) = {}
    BY <2>1, ListsOf DEF StepSet, Listing
  <2>4. BoundFields(docs, s, c, d)
    BY <1>1, <2>1, BoundIs
  <2> QED
    BY <1>2, <2>2, <2>3, <2>4 DEF BoundFields
<1>4. AllText(d, PayerFields)
  BY <1>3, Words DEF AllText, Get
<1> QED
  BY <1>3, <1>4, RefAtIs, FieldsAtIs, Shapes DEF PayerRef, Hash

LEMMA ActionFits ==
    ASSUME NEW docs, NEW d, d = Bound(docs, "action", Contents("action"))
    PROVE  IsRef(RefAt("action", d)) /\ DOMAIN d = FieldsAt("action")
<1>1. PICK c : c = Contents("action")
  OBVIOUS
<1>2. PICK w : w = Str(Word)
  OBVIOUS
<1>3. PICK t : t = Ms(1)
  OBVIOUS
<1>4. c = [agent_id |-> w, action_type |-> w, scope |-> w, timestamp_ms |-> t]
  BY <1>1, <1>2, <1>3 DEF Contents
<1>5. DOMAIN d = ActionFields /\ \A f \in ActionFields : Get(d, f) = c[f]
  <2>1. PICK s : s = "action"
    OBVIOUS
  <2>2. DOMAIN Names(s) = {}
    BY <2>1, NamesOf DEF StepSet, Naming
  <2>3. DOMAIN Lists(s) = {}
    BY <2>1, ListsOf DEF StepSet, Listing
  <2>4. BoundFields(docs, s, c, d)
    BY <1>1, <2>1, BoundIs
  <2> QED
    BY <1>4, <2>2, <2>3, <2>4 DEF BoundFields, ActionFields, Get
<1>6. AllText(d, ActionFields \ {"timestamp_ms"})
  BY <1>2, <1>4, <1>5, Words DEF AllText, ActionFields
<1>7. Time(Get(d, "timestamp_ms"))
  BY <1>3, <1>4, <1>5, Words DEF ActionFields
<1> QED
  BY <1>5, <1>6, <1>7, RefAtIs, FieldsAtIs, Shapes DEF RecomputeActionRef, Hash

LEMMA PolicyBoundFits ==
    ASSUME NEW docs, NEW d, d = Bound(docs, "policy_bound", Contents("policy_bound")),
           Refers(docs, "policy"), Refers(docs, "mandate")
    PROVE  IsRef(RefAt("policy_bound", d)) /\ DOMAIN d = FieldsAt("policy_bound")
<1>1. PICK c : c = Contents("policy_bound")
  OBVIOUS
<1>2. DOMAIN c = {}
  <2>1. c = << >>
    BY <1>1 DEF Contents
  <2> QED
    BY <2>1
<1>3. /\ DOMAIN d = PolicyBoundFields
      /\ d["policy_ref"] = RefIn(docs, "policy") /\ d["subject_ref"] = RefIn(docs, "mandate")
  <2>1. PICK s : s = "policy_bound"
    OBVIOUS
  <2>2. /\ DOMAIN Names(s) = {"policy_ref", "subject_ref"}
        /\ Names(s)["policy_ref"] = "policy"
        /\ Names(s)["subject_ref"] = "mandate"
    BY <2>1, NamesOf
  <2>3. DOMAIN Lists(s) = {}
    BY <2>1, ListsOf DEF StepSet, Listing
  <2>4. BoundFields(docs, s, c, d)
    BY <1>1, <2>1, BoundIs
  <2> QED
    BY <1>2, <2>2, <2>3, <2>4 DEF BoundFields, PolicyBoundFields
<1>4. AllRefs(d, PolicyBoundFields)
  BY <1>3 DEF AllRefs, Get, Refers, PolicyBoundFields
<1> QED
  BY <1>3, <1>4, RefAtIs, FieldsAtIs, Shapes DEF PolicyBoundRef, Hash

LEMMA GateFits ==
    ASSUME NEW docs, NEW d, d = Bound(docs, "gate", Contents("gate")),
           Refers(docs, "payer"), Refers(docs, "policy_bound")
    PROVE  IsRef(RefAt("gate", d)) /\ DOMAIN d = FieldsAt("gate")
<1>1. PICK c : c = Contents("gate")
  OBVIOUS
<1>2. DOMAIN c = {"verdict"} /\ c["verdict"] = Str("ALLOW")
  BY <1>1 DEF Contents
<1>3. /\ DOMAIN d = GateFields /\ Get(d, "verdict") = Str("ALLOW")
      /\ Get(d, "payer_ref") = RefIn(docs, "payer") /\ Get(d, "subject_ref") = RefIn(docs, "policy_bound")
  <2>1. PICK s : s = "gate"
    OBVIOUS
  <2>2. /\ DOMAIN Names(s) = {"payer_ref", "subject_ref"}
        /\ Names(s)["payer_ref"] = "payer"
        /\ Names(s)["subject_ref"] = "policy_bound"
    BY <2>1, NamesOf
  <2>3. DOMAIN Lists(s) = {}
    BY <2>1, ListsOf DEF StepSet, Listing
  <2>4. BoundFields(docs, s, c, d)
    BY <1>1, <2>1, BoundIs
  <2> QED
    BY <1>2, <2>2, <2>3, <2>4 DEF BoundFields, GateFields, Get
<1>4. AllRefs(d, {"payer_ref", "subject_ref"}) /\ OneOf(d, "verdict", {"ALLOW", "REFER", "DENY"})
  BY <1>3 DEF AllRefs, OneOf, Refers
<1> QED
  BY <1>3, <1>4, RefAtIs, FieldsAtIs, Shapes DEF GateRef, Hash

LEMMA DecisionFits ==
    ASSUME NEW docs, NEW d, d = Bound(docs, "decision", Contents("decision")),
           Refers(docs, "passport"), Refers(docs, "mandate"), Refers(docs, "policy_bound")
    PROVE  IsRef(RefAt("decision", d)) /\ DOMAIN d = FieldsAt("decision")
<1>1. PICK c : c = Contents("decision")
  OBVIOUS
<1>2. DOMAIN c = {"verdict"} /\ c["verdict"] = Str("ALLOW")
  BY <1>1 DEF Contents
<1>3. /\ DOMAIN d = DecisionFields /\ Get(d, "verdict") = Str("ALLOW")
      /\ Get(d, "agent_ref") = RefIn(docs, "passport") /\ Get(d, "mandate_ref") = RefIn(docs, "mandate")
      /\ Get(d, "policy_bound_ref") = RefIn(docs, "policy_bound")
  <2>1. PICK s : s = "decision"
    OBVIOUS
  <2>2. /\ DOMAIN Names(s) = {"agent_ref", "mandate_ref", "policy_bound_ref"}
        /\ Names(s)["agent_ref"] = "passport"
        /\ Names(s)["mandate_ref"] = "mandate"
        /\ Names(s)["policy_bound_ref"] = "policy_bound"
    BY <2>1, NamesOf
  <2>3. DOMAIN Lists(s) = {}
    BY <2>1, ListsOf DEF StepSet, Listing
  <2>4. BoundFields(docs, s, c, d)
    BY <1>1, <2>1, BoundIs
  <2> QED
    BY <1>2, <2>2, <2>3, <2>4 DEF BoundFields, DecisionFields, UpstreamFields, Get
<1>4. AllRefs(d, UpstreamFields) /\ OneOf(d, "verdict", {"ALLOW", "DENY"})
  BY <1>3 DEF AllRefs, OneOf, Refers, UpstreamFields
<1> QED
  BY <1>3, <1>4, RefAtIs, FieldsAtIs, Shapes DEF GuardrailRef, Hash

LEMMA ExecutionFits ==
    ASSUME NEW docs, NEW d, d = Bound(docs, "execution", Contents("execution")), Refers(docs, "decision")
    PROVE  IsRef(RefAt("execution", d)) /\ DOMAIN d = FieldsAt("execution")
<1>1. PICK c : c = Contents("execution")
  OBVIOUS
<1>2. PICK w : w = Str(Word)
  OBVIOUS
<1>3. PICK t : t = Ms(1)
  OBVIOUS
<1>4. PICK o : o = Str("COMMITTED")
  OBVIOUS
<1>5. c = [action_type |-> w, scope |-> w, outcome |-> o, executed_at_ms |-> t]
  BY <1>1, <1>2, <1>3, <1>4 DEF Contents
<1>6. /\ DOMAIN d = ExecutionFields /\ Get(d, "decision_ref") = RefIn(docs, "decision")
      /\ Get(d, "action_type") = w /\ Get(d, "scope") = w /\ Get(d, "outcome") = o
      /\ Get(d, "executed_at_ms") = t
  <2>1. PICK s : s = "execution"
    OBVIOUS
  <2>2. /\ DOMAIN Names(s) = {"decision_ref"}
        /\ Names(s)["decision_ref"] = "decision"
    BY <2>1, NamesOf
  <2>3. DOMAIN Lists(s) = {}
    BY <2>1, ListsOf DEF StepSet, Listing
  <2>4. BoundFields(docs, s, c, d)
    BY <1>1, <2>1, BoundIs
  <2>5. DOMAIN c = {"action_type", "scope", "outcome", "executed_at_ms"}
    BY <1>5
  <2>6. /\ DOMAIN d = {"decision_ref"} \cup DOMAIN c
        /\ d["decision_ref"] = RefIn(docs, "decision")
        /\ \A f \in DOMAIN c : d[f] = c[f]
    BY <2>2, <2>3, <2>4, <2>5 DEF BoundFields
  <2> QED
    BY <1>5, <2>5, <2>6 DEF ExecutionFields, Get
<1>7. AllText(d, {"action_type", "scope"})
  BY <1>2, <1>6, Words DEF AllText
<1>8. OneOf(d, "outcome", {"COMMITTED", "SKIPPED", "FAILED", "REVERSED"})
  BY <1>4, <1>6 DEF OneOf
<1>9. IsRef(Get(d, "decision_ref")) /\ Time(Get(d, "executed_at_ms"))
  BY <1>3, <1>6, Words DEF Refers
<1> QED
  BY <1>6, <1>7, <1>8, <1>9, RefAtIs, FieldsAtIs, Shapes DEF ExecutionRef, Hash

LEMMA BindingFits ==
    ASSUME NEW docs, NEW d, d = Bound(docs, "binding", Contents("binding")), Refers(docs, "execution")
    PROVE  IsRef(RefAt("binding", d)) /\ DOMAIN d = FieldsAt("binding")
<1>1. PICK c : c = Contents("binding")
  OBVIOUS
<1>2. DOMAIN c = {"settlement_ref", "retention_chain_ref"}
      /\ c["settlement_ref"] = Elsewhere /\ c["retention_chain_ref"] = Elsewhere
  BY <1>1 DEF Contents
<1>3. /\ DOMAIN d = BindingFields /\ Get(d, "execution_ref") = RefIn(docs, "execution")
      /\ Get(d, "settlement_ref") = Elsewhere /\ Get(d, "retention_chain_ref") = Elsewhere
  <2>1. PICK s : s = "binding"
    OBVIOUS
  <2>2. /\ DOMAIN Names(s) = {"execution_ref"}
        /\ Names(s)["execution_ref"] = "execution"
    BY <2>1, NamesOf
  <2>3. DOMAIN Lists(s) = {}
    BY <2>1, ListsOf DEF StepSet, Listing
  <2>4. BoundFields(docs, s, c, d)
    BY <1>1, <2>1, BoundIs
  <2> QED
    BY <1>2, <2>2, <2>3, <2>4 DEF BoundFields, BindingFields, Get
<1>4. AllRefs(d, BindingFields)
  BY <1>3, Words DEF AllRefs, Refers, BindingFields
<1> QED
  BY <1>3, <1>4, RefAtIs, FieldsAtIs, Shapes DEF ExecutionBinding, Hash

LEMMA CancellationFits ==
    ASSUME NEW docs, NEW d, d = Bound(docs, "cancellation", Contents("cancellation")), Refers(docs, "mandate")
    PROVE  IsRef(RefAt("cancellation", d)) /\ DOMAIN d = FieldsAt("cancellation")
<1>1. PICK c : c = Contents("cancellation")
  OBVIOUS
<1>2. DOMAIN c = {"cancellation_reason"} /\ c["cancellation_reason"] = Str("EXPIRED")
  BY <1>1 DEF Contents
<1>3. /\ DOMAIN d = CancellationFields /\ Get(d, "mandate_ref") = RefIn(docs, "mandate")
      /\ Get(d, "cancellation_reason") = Str("EXPIRED")
  <2>1. PICK s : s = "cancellation"
    OBVIOUS
  <2>2. /\ DOMAIN Names(s) = {"mandate_ref"}
        /\ Names(s)["mandate_ref"] = "mandate"
    BY <2>1, NamesOf
  <2>3. DOMAIN Lists(s) = {}
    BY <2>1, ListsOf DEF StepSet, Listing
  <2>4. BoundFields(docs, s, c, d)
    BY <1>1, <2>1, BoundIs
  <2> QED
    BY <1>2, <2>2, <2>3, <2>4 DEF BoundFields, CancellationFields, Get
<1>4. Text(Get(d, "mandate_ref"))
  BY <1>3 DEF Refers, Text
<1>5. OneOf(d, "cancellation_reason",
            {"USER_REQUESTED", "MERCHANT_REQUESTED", "COMPLIANCE_TERMINATED", "EXPIRED"})
  BY <1>3 DEF OneOf
<1> QED
  BY <1>3, <1>4, <1>5, RefAtIs, FieldsAtIs, Shapes DEF CancellationRef, Hash

LEMMA RefundFits ==
    ASSUME NEW docs, NEW d, d = Bound(docs, "refund", Contents("refund")), Refers(docs, "execution")
    PROVE  IsRef(RefAt("refund", d)) /\ DOMAIN d = FieldsAt("refund")
<1>1. PICK c : c = Contents("refund")
  OBVIOUS
<1>2. DOMAIN c = {"refund_amount", "refund_result"}
      /\ c["refund_amount"] = Str(Word) /\ c["refund_result"] = Str("FULL")
  BY <1>1 DEF Contents
<1>3. /\ DOMAIN d = RefundFields /\ Get(d, "subject_ref") = RefIn(docs, "execution")
      /\ Get(d, "refund_amount") = Str(Word) /\ Get(d, "refund_result") = Str("FULL")
  <2>1. PICK s : s = "refund"
    OBVIOUS
  <2>2. /\ DOMAIN Names(s) = {"subject_ref"}
        /\ Names(s)["subject_ref"] = "execution"
    BY <2>1, NamesOf
  <2>3. DOMAIN Lists(s) = {}
    BY <2>1, ListsOf DEF StepSet, Listing
  <2>4. BoundFields(docs, s, c, d)
    BY <1>1, <2>1, BoundIs
  <2> QED
    BY <1>2, <2>2, <2>3, <2>4 DEF BoundFields, RefundFields, Get
<1>4. AllText(d, {"refund_amount", "subject_ref"})
  BY <1>3, Words DEF AllText, Refers, Text
<1>5. OneOf(d, "refund_result", {"FULL", "PARTIAL", "REJECTED"})
  BY <1>3 DEF OneOf
<1> QED
  BY <1>3, <1>4, <1>5, RefAtIs, FieldsAtIs, Shapes DEF RefundRef, Hash

LEMMA TrustQueryFits ==
    ASSUME NEW docs, NEW d, d = Bound(docs, "trust_query", Contents("trust_query")),
           \A s \in {"passport", "mandate", "policy_bound", "decision", "execution"} : Refers(docs, s)
    PROVE  IsRef(RefAt("trust_query", d)) /\ DOMAIN d = FieldsAt("trust_query")
<1>1. PICK c : c = Contents("trust_query")
  OBVIOUS
<1>2. DOMAIN c = {"trust_outcome"} /\ c["trust_outcome"] = Str("TRUSTED")
  BY <1>1 DEF Contents
<1>3. PICK five : five = <<"passport", "mandate", "policy_bound", "decision", "execution">>
  OBVIOUS
<1>4. PICK x : x = ListIn(docs, five)
  OBVIOUS
<1>5. DOMAIN d = TrustFields /\ Get(d, "subject_refs") = x /\ Get(d, "trust_outcome") = Str("TRUSTED")
  <2>1. PICK s : s = "trust_query"
    OBVIOUS
  <2>2. DOMAIN Names(s) = {}
    BY <2>1, NamesOf DEF StepSet, Naming
  <2>3. DOMAIN Lists(s) = {"subject_refs"} /\ Lists(s)["subject_refs"] = five
    BY <1>3, <2>1, ListsOf
  <2>4. BoundFields(docs, s, c, d)
    BY <1>1, <2>1, BoundIs
  <2> QED
    BY <1>2, <1>3, <1>4, <2>2, <2>3, <2>4 DEF BoundFields, TrustFields, Get
<1>6. PICK t : t = [k \in DOMAIN five |-> RefIn(docs, five[k])]
  OBVIOUS
<1>7. x = Arr(t) /\ DOMAIN t = DOMAIN five /\ \A k \in DOMAIN five : t[k] = RefIn(docs, five[k])
  BY <1>4, <1>6 DEF ListIn
<1>8. \A k \in DOMAIN t : Text(t[k])
  <2>1. \A k \in DOMAIN five : five[k] \in {"passport", "mandate", "policy_bound", "decision", "execution"}
    BY <1>3
  <2> QED
    BY <1>7, <2>1 DEF Refers, Text
<1>9. t # << >>
  <2>1. 1 \in DOMAIN five
    BY <1>3
  <2>2. DOMAIN << >> = {}
    OBVIOUS
  <2> QED
    BY <1>7, <2>1, <2>2
<1>10. "list" \in DOMAIN Arr(t) /\ Arr(t).list = t
  BY DEF Arr
<1>11. IsTextList(x) /\ x # Arr(<< >>)
  BY <1>7, <1>8, <1>9, <1>10, Shapes DEF IsTextList
<1>12. OneOf(d, "trust_outcome", TrustOutcomes)
  BY <1>5 DEF OneOf, TrustOutcomes
<1> QED
  BY <1>5, <1>11, <1>12, RefAtIs, FieldsAtIs, Shapes DEF TrustQueryLiteRef, Hash

LEMMA JourneyFits ==
    ASSUME NEW docs, NEW d, d = Bound(docs, "journey", Contents("journey")), Refers(docs, "execution")
    PROVE  /\ IsRef(RefAt("journey", d)) /\ DOMAIN d = FieldsAt("journey")
           /\ d["delegations"] # Arr(<< >>)
<1>1. PICK c : c = Contents("journey")
  OBVIOUS
<1>2. PICK e : e = <<Elsewhere>>
  OBVIOUS
<1>3. PICK g : g = Arr(e)
  OBVIOUS
<1>4. DOMAIN c = {"delegations", "journey_outcome"}
      /\ c["delegations"] = g /\ c["journey_outcome"] = Str("COMPLETE")
  BY <1>1, <1>2, <1>3 DEF Contents
<1>5. PICK one : one = <<"execution">>
  OBVIOUS
<1>6. PICK x : x = ListIn(docs, one)
  OBVIOUS
<1>7. /\ DOMAIN d = JourneyFields
      /\ d["hops"] = x /\ d["delegations"] = g /\ d["journey_outcome"] = Str("COMPLETE")
  <2>1. PICK s : s = "journey"
    OBVIOUS
  <2>2. DOMAIN Names(s) = {}
    BY <2>1, NamesOf DEF StepSet, Naming
  <2>3. DOMAIN Lists(s) = {"hops"} /\ Lists(s)["hops"] = one
    BY <1>5, <2>1, ListsOf
  <2>4. BoundFields(docs, s, c, d)
    BY <1>1, <2>1, BoundIs
  <2> QED
    BY <1>4, <1>5, <1>6, <2>2, <2>3, <2>4 DEF BoundFields, JourneyFields
<1>8. PICK b : b = WithDefault(d, "delegations", Arr(<< >>))
  OBVIOUS
<1>9. b["delegations"] = g /\ Get(b, "hops") = x /\ Get(b, "journey_outcome") = Str("COMPLETE")
  BY <1>7, <1>8 DEF WithDefault, Get, JourneyFields
<1>10. PICK t : t = [k \in DOMAIN one |-> RefIn(docs, one[k])]
  OBVIOUS
<1>11. x = Arr(t) /\ DOMAIN t = {1} /\ t[1] = RefIn(docs, "execution")
  BY <1>5, <1>6, <1>10 DEF ListIn
<1>12. \A s : "list" \in DOMAIN Arr(s) /\ Arr(s).list = s
  BY DEF Arr
<1>13. IsRefList(x) /\ x # Arr(<< >>)
  <2>1. t # << >>
    <3>1. DOMAIN << >> = {}
      OBVIOUS
    <3> QED
      BY <1>11, <3>1
  <2> QED
    BY <1>11, <1>12, <2>1, Shapes DEF IsRefList, Refers
<1>14. IsRefList(g) /\ g # Arr(<< >>)
  <2>1. DOMAIN e = {1} /\ e[1] = Elsewhere /\ e # << >>
    BY <1>2
  <2> QED
    BY <1>3, <1>12, <2>1, Shapes, Words DEF IsRefList
<1>15. OneOf(b, "journey_outcome", {"COMPLETE", "PARTIAL", "ABORTED"})
  BY <1>9 DEF OneOf
<1>16. IsRef(JourneyRef(d))
  BY <1>8, <1>9, <1>13, <1>14, <1>15, Shapes DEF JourneyRef, Hash
<1> QED
  BY <1>7, <1>14, <1>16, RefAtIs, FieldsAtIs

-----------------------------------------------------------------------------
(* Lifecycles *)

\* The first n documents are the ones the author makes.
Filled(docs, n) == \A i \in 1 .. n : docs[i] = Bound(docs, Steps[i], Contents(Steps[i]))

\* The document of a step can be referred to and has the fields of its step.
Fits(docs, s) == Refers(docs, s) /\ DOMAIN docs[Place(s)] = FieldsAt(s)

LEMMA FilledFits ==
    ASSUME NEW docs, NEW n \in 0 .. 14, Filled(docs, n)
    PROVE  \A i \in 1 .. n : Fits(docs, Steps[i])
<1>1. ASSUME NEW s \in StepSet, Place(s) <= n
      PROVE  docs[Place(s)] = Bound(docs, s, Contents(s))
  BY <1>1, StepsPlaced DEF Filled
<1>2. 1 <= n => Fits(docs, "passport")
  <2>1. 1 <= n => docs[1] = Bound(docs, "passport", Contents("passport"))
    BY <1>1, PlacesAre DEF Places, StepSet
  <2> QED
    BY <2>1, PassportFits, PlacesAre DEF Fits, Refers, RefIn, Places
<1>3. 2 <= n => Fits(docs, "mandate")
  <2>1. 2 <= n => docs[2] = Bound(docs, "mandate", Contents("mandate"))
    BY <1>1, PlacesAre DEF Places, StepSet
  <2> QED
    BY <2>1, MandateFits, PlacesAre DEF Fits, Refers, RefIn, Places
<1>4. 3 <= n => Fits(docs, "policy")
  <2>1. 3 <= n => docs[3] = Bound(docs, "policy", Contents("policy"))
    BY <1>1, PlacesAre DEF Places, StepSet
  <2> QED
    BY <2>1, PolicyFits, PlacesAre DEF Fits, Refers, RefIn, Places
<1>5. 4 <= n => Fits(docs, "policy_bound")
  <2>1. 4 <= n => docs[4] = Bound(docs, "policy_bound", Contents("policy_bound"))
    BY <1>1, PlacesAre DEF Places, StepSet
  <2> QED
    BY <1>3, <1>4, <2>1, PolicyBoundFits, PlacesAre DEF Fits, Refers, RefIn, Places
<1>6. 5 <= n => Fits(docs, "payer")
  <2>1. 5 <= n => docs[5] = Bound(docs, "payer", Contents("payer"))
    BY <1>1, PlacesAre DEF Places, StepSet
  <2> QED
    BY <2>1, PayerFits, PlacesAre DEF Fits, Refers, RefIn, Places
<1>7. 6 <= n => Fits(docs, "gate")
  <2>1. 6 <= n => docs[6] = Bound(docs, "gate", Contents("gate"))
    BY <1>1, PlacesAre DEF Places, StepSet
  <2> QED
    BY <1>5, <1>6, <2>1, GateFits, PlacesAre DEF Fits, Refers, RefIn, Places
<1>8. 7 <= n => Fits(docs, "decision")
  <2>1. 7 <= n => docs[7] = Bound(docs, "decision", Contents("decision"))
    BY <1>1, PlacesAre DEF Places, StepSet
  <2> QED
    BY <1>2, <1>3, <1>5, <2>1, DecisionFits, PlacesAre DEF Fits, Refers, RefIn, Places
<1>9. 8 <= n => Fits(docs, "action")
  <2>1. 8 <= n => docs[8] = Bound(docs, "action", Contents("action"))
    BY <1>1, PlacesAre DEF Places, StepSet
  <2> QED
    BY <2>1, ActionFits, PlacesAre DEF Fits, Refers, RefIn, Places
<1>10. 9 <= n => Fits(docs, "execution")
  <2>1. 9 <= n => docs[9] = Bound(docs, "execution", Contents("execution"))
    BY <1>1, PlacesAre DEF Places, StepSet
  <2> QED
    BY <1>8, <2>1, ExecutionFits, PlacesAre DEF Fits, Refers, RefIn, Places
<1>11. 10 <= n => Fits(docs, "binding")
  <2>1. 10 <= n => docs[10] = Bound(docs, "binding", Contents("binding"))
    BY <1>1, PlacesAre DEF Places, StepSet
  <2> QED
    BY <1>10, <2>1, BindingFits, PlacesAre DEF Fits, Refers, RefIn, Places
<1>12. 11 <= n => Fits(docs, "trust_query")
  <2>1. 11 <= n => docs[11] = Bound(docs, "trust_query", Contents("trust_query"))
    BY <1>1, PlacesAre DEF Places, StepSet
  <2> QED
    BY <1>2, <1>3, <1>5, <1>8, <1>10, <2>1, TrustQueryFits, PlacesAre DEF Fits, Refers, RefIn, Places
<1>13. 12 <= n => Fits(docs, "cancellation")
  <2>1. 12 <= n => docs[12] = Bound(docs, "cancellation", Contents("cancellation"))
    BY <1>1, PlacesAre DEF Places, StepSet
  <2> QED
    BY <1>3, <2>1, CancellationFits, PlacesAre DEF Fits, Refers, RefIn, Places
<1>14. 13 <= n => Fits(docs, "refund")
  <2>1. 13 <= n => docs[13] = Bound(docs, "refund", Contents("refund"))
    BY <1>1, PlacesAre DEF Places, StepSet
  <2> QED
    BY <1>10, <2>1, RefundFits, PlacesAre DEF Fits, Refers, RefIn, Places
<1>15. 14 <= n => Fits(docs, "journey")
  <2>1. 14 <= n => docs[14] = Bound(docs, "journey", Contents("journey"))
    BY <1>1, PlacesAre DEF Places, StepSet
  <2> QED
    BY <1>10, <2>1, JourneyFits, PlacesAre DEF Fits, Refers, RefIn, Places
<1> QED
  <2>1. \A i \in 1 .. 14 : i <= n => Fits(docs, Steps[i])
    <3>1. \A i \in 1 .. 14 : i \in {1, 2, 3, 4, 5, 6, 7, 8, 9, 10, 11, 12, 13, 14}
      OBVIOUS
    <3> QED
      BY <3>1, StepsAre, <1>2, <1>3, <1>4, <1>5, <1>6, <1>7, <1>8, <1>9, <1>10, <1>11, <1>12, <1>13, <1>14, <1>15
  <2> QED
    BY <2>1

\* The documents that a step names say the same in both.
Same(docs, others, s) == \A x \in Cited(s) : RefIn(docs, x) = RefIn(others, x)

LEMMA ListSame ==
    ASSUME NEW docs, NEW others, NEW t, \A k \in DOMAIN t : RefIn(docs, t[k]) = RefIn(others, t[k])
    PROVE  ListIn(docs, t) = ListIn(others, t)
<1>1. [k \in DOMAIN t |-> RefIn(docs, t[k])] = [k \in DOMAIN t |-> RefIn(others, t[k])]
  OBVIOUS
<1> QED
  BY <1>1 DEF ListIn

LEMMA BoundSame ==
    ASSUME NEW docs, NEW others, NEW s, NEW c, Same(docs, others, s)
    PROVE  Bound(docs, s, c) = Bound(others, s, c)
<1>1. PICK a : a = Bound(docs, s, c)
  OBVIOUS
<1>2. PICK b : b = Bound(others, s, c)
  OBVIOUS
<1>3. BoundFields(docs, s, c, a) /\ BoundFields(others, s, c, b)
  BY <1>1, <1>2, BoundIs
<1>4. IsDoc(a) /\ IsDoc(b)
  BY <1>1, <1>2, DocsMade
<1>5. \A f \in DOMAIN Names(s) : a[f] = b[f]
  BY <1>3, CitedAre DEF Same, BoundFields
<1>6. ASSUME NEW f \in DOMAIN Lists(s)
      PROVE  ListIn(docs, Lists(s)[f]) = ListIn(others, Lists(s)[f])
  BY CitedAre, ListSame DEF Same
<1>7. \A f \in DOMAIN a : a[f] = b[f]
  BY <1>3, <1>5, <1>6 DEF BoundFields
<1> QED
  BY <1>1, <1>2, <1>3, <1>4, <1>7 DEF BoundFields, IsDoc

\* A document that is bound is bound already.
LEMMA BoundTwice ==
    ASSUME NEW docs, NEW s, NEW c, NEW d, d = Bound(docs, s, c)
    PROVE  Bound(docs, s, d) = d
<1>1. PICK a : a = Bound(docs, s, d)
  OBVIOUS
<1>2. BoundFields(docs, s, d, a) /\ BoundFields(docs, s, c, d)
  BY <1>1, BoundIs
<1>3. IsDoc(a) /\ IsDoc(d)
  BY <1>1, DocsMade
<1> QED
  BY <1>1, <1>2, <1>3 DEF BoundFields, IsDoc

Lifecycle == kind = "lifecycle"

Prepared ==
    Lifecycle =>
        /\ Len(issued) <= 14 /\ Filled(issued, Len(issued))
        /\ Len(held) = Len(issued)
        /\ \A i \in 1 .. Len(held) : DOMAIN held[i] \subseteq DOMAIN issued[i]

LEMMA NextStepFills ==
    ASSUME Shape, Prepared, NextStep
    PROVE  \E docs : Hand(docs) /\ Len(docs) <= 14 /\ Filled(docs, Len(docs))
<1>1. PICK n : n = Len(issued)
  OBVIOUS
<1>2. n \in 0 .. 13 /\ IsSeq(issued) /\ Filled(issued, n)
  <2>1. IsSeq(issued) /\ n \in Nat
    BY <1>1, SeqDomain DEF Shape
  <2>2. Lifecycle /\ n < 14
    BY <1>1, StepsAre DEF NextStep, Lifecycle
  <2>3. Filled(issued, Len(issued))
    BY <2>2, Zenon DEF Prepared
  <2>4. Filled(issued, n)
    BY <1>1, <2>3
  <2> QED
    BY <2>1, <2>2, <2>4
<1>3. PICK s : s = Steps[n + 1]
  OBVIOUS
<1>4. PICK d : d = Bound(issued, s, Contents(s))
  OBVIOUS
<1>5. PICK docs : docs = Append(issued, d)
  OBVIOUS
<1>6. Hand(docs)
  BY <1>1, <1>3, <1>4, <1>5 DEF NextStep
<1>7. Len(docs) = n + 1 /\ docs[n + 1] = d /\ \A i \in 1 .. n : docs[i] = issued[i]
  BY <1>1, <1>2, <1>5, AppendIsSeq
<1>8. ASSUME NEW i \in 1 .. n + 1
      PROVE  Same(docs, issued, Steps[i])
  <2>1. i \in 1 .. 14
    BY <1>2
  <2>2. Steps[i] \in StepSet /\ Place(Steps[i]) = i
    BY <2>1, StepsDiffer, PlaceOf
  <2>3. ASSUME NEW x \in Cited(Steps[i])
        PROVE  RefIn(docs, x) = RefIn(issued, x)
    <3>1. x \in StepSet /\ Place(x) < i
      BY <2>2, CitedEarlier DEF Earlier
    <3>2. Place(x) \in 1 .. n
      BY <1>2, <3>1, StepsPlaced
    <3> QED
      BY <1>7, <3>2 DEF RefIn
  <2> QED
    BY <2>3 DEF Same
<1>9. ASSUME NEW i \in 1 .. n + 1
      PROVE  docs[i] = Bound(issued, Steps[i], Contents(Steps[i]))
  <2>1. i \in 1 .. n \/ i = n + 1
    BY <1>2
  <2> QED
    BY <1>2, <1>3, <1>4, <1>7, <2>1 DEF Filled
<1>10. Filled(docs, n + 1)
  BY <1>8, <1>9, BoundSame DEF Filled
<1> QED
  BY <1>2, <1>6, <1>7, <1>10

LEMMA OneNarrowed ==
    ASSUME Shape, Lifecycle, Prepared, NEW i \in DOMAIN held, NEW d, DOMAIN d \subseteq DOMAIN issued[i],
           NEW docs, Replaced(docs, held, i, d)
    PROVE  /\ Len(docs) = Len(issued)
           /\ \A j \in 1 .. Len(docs) : DOMAIN docs[j] \subseteq DOMAIN issued[j]
<1>1. /\ Len(docs) = Len(held) /\ docs[i] = d
      /\ \A j \in 1 .. Len(held) : j # i => docs[j] = held[j]
  BY ExceptIsSeq DEF Shape
<1> QED
  BY <1>1 DEF Prepared

LEMMA CustodianKeepsPrepared ==
    ASSUME Shape, Lifecycle, Prepared, CustodianStep
    PROVE  /\ Len(held') = Len(issued)
           /\ \A j \in 1 .. Len(held') : DOMAIN held'[j] \subseteq DOMAIN issued[j]
<1>1. DOMAIN held = 1 .. Len(held) /\ Len(held) \in Nat
  BY SeqDomain DEF Shape
<1>2. ASSUME NEW i \in DOMAIN held, NEW d, DOMAIN d \subseteq DOMAIN issued[i], held' = [held EXCEPT ![i] = d]
      PROVE  /\ Len(held') = Len(issued)
             /\ \A j \in 1 .. Len(held') : DOMAIN held'[j] \subseteq DOMAIN issued[j]
  BY <1>2, OneNarrowed DEF Replaced
<1>3. \A i \in DOMAIN held : DOMAIN held[i] \subseteq DOMAIN issued[i]
  BY <1>1 DEF Prepared
<1>4. CASE SetField
  <2>1. PICK i \in DOMAIN held : \E f \in DOMAIN held[i] : \E v \in Value[f] :
            held' = [held EXCEPT ![i] = With(held[i], f, v)]
    BY <1>4 DEF SetField, Change
  <2>2. \A f \in DOMAIN held[i] : \A v : DOMAIN With(held[i], f, v) \subseteq DOMAIN held[i]
    BY DEF With
  <2> QED
    BY <1>2, <1>3, <2>1, <2>2
<1>5. CASE DropField
  <2>1. PICK i \in DOMAIN held : \E f \in DOMAIN held[i] :
            held' = [held EXCEPT ![i] = Only(held[i], DOMAIN held[i] \ {f})]
    BY <1>5 DEF DropField, Change
  <2>2. \A fields : DOMAIN Only(held[i], fields) \subseteq DOMAIN held[i]
    BY DEF Only
  <2> QED
    BY <1>2, <1>3, <2>1, <2>2
<1>6. CASE AddField \/ DropDocument \/ Exchange
  BY <1>6 DEF AddField, DropDocument, Exchange, Lifecycle
<1>7. CASE Recompute
  <2>1. PICK i \in DOMAIN held : \E d \in Recomputed(i) : held' = [held EXCEPT ![i] = d]
    BY <1>7 DEF Recompute
  <2>2. PICK d \in Recomputed(i) : held' = [held EXCEPT ![i] = d]
    BY <2>1
  <2>3. d = Bound(held, Steps[i], held[i])
    BY <2>2 DEF Recomputed, Lifecycle
  <2>4. issued[i] = Bound(issued, Steps[i], Contents(Steps[i]))
    BY <1>1 DEF Prepared, Filled
  <2>5. BoundFields(held, Steps[i], held[i], d)
    BY <2>3, BoundIs
  <2>6. BoundFields(issued, Steps[i], Contents(Steps[i]), issued[i])
    BY <2>4, BoundIs
  <2>7. DOMAIN d \subseteq DOMAIN issued[i]
    BY <1>3, <2>5, <2>6 DEF BoundFields
  <2> QED
    BY <1>2, <2>2, <2>7
<1> QED
  BY <1>4, <1>5, <1>6, <1>7 DEF CustodianStep

LEMMA PreparedStep ==
    ASSUME Shape, Prepared, [Next]_vars
    PROVE  Prepared'
<1>1. CASE NextStep
  <2>1. PICK docs : Hand(docs) /\ Len(docs) <= 14 /\ Filled(docs, Len(docs))
    BY <1>1, NextStepFills
  <2>2. issued' = docs /\ held' = docs
    BY <2>1 DEF Hand
  <2> QED
    BY <2>1, <2>2 DEF Prepared, Filled
<1>2. CASE Bind \/ RecordStage \/ Grant
  BY <1>2 DEF Bind, RecordStage, Grant, Hand, Prepared, Lifecycle
<1>3. CASE CustodianStep
  <2>1. kind' = kind /\ issued' = issued
    BY <1>3, CustodianKeepsShape
  <2>2. Lifecycle => /\ Len(held') = Len(issued)
                     /\ \A j \in 1 .. Len(held') : DOMAIN held'[j] \subseteq DOMAIN issued[j]
    BY <1>3, CustodianKeepsPrepared
  <2> QED
    BY <2>1, <2>2 DEF Prepared, Lifecycle, Filled
<1>4. CASE UNCHANGED vars
  BY <1>4 DEF vars, Prepared, Lifecycle, Filled
<1> QED
  BY <1>1, <1>2, <1>3, <1>4 DEF Next

-----------------------------------------------------------------------------
(* What the author made is well formed *)

LEMMA KeystoneRecordVerified ==
    ASSUME NEW o, KeystoneRecord(o)
    PROVE  VerifyRecord(o)
<1>1. SelfRefsOf(o) = {"execution_ref"}
  BY DEF KeystoneRecord, SelfRefsOf, SelfRefs, BindInputs, Rebuilt
<1>2. Cardinality({"execution_ref"}) = 1
  BY FS_Singleton
<1>3. IsWrapper(o) /\ VerifyKeystone(o)
  BY KeystoneIsWrapper, KeystoneVerified DEF KeystoneRecord
<1> QED
  BY <1>1, <1>2, <1>3 DEF VerifyRecord

LEMMA LifecycleRefers ==
    ASSUME Shape, Prepared, Lifecycle, NEW i \in 1 .. Len(issued)
    PROVE  i \in 1 .. 14 /\ Fits(issued, Steps[i]) /\ Place(Steps[i]) = i
<1>1. PICK n : n = Len(issued)
  OBVIOUS
<1>2. n \in Nat /\ n <= 14
  BY <1>1, SeqDomain DEF Shape, Prepared
<1>3. Filled(issued, n)
  <2>1. Filled(issued, Len(issued))
    BY Zenon DEF Prepared
  <2> QED
    BY <1>1, <2>1
<1>4. n \in 0 .. 14
  BY <1>2
<1>5. Fits(issued, Steps[i])
  BY <1>1, <1>3, <1>4, FilledFits
<1>6. i \in 1 .. 14
  BY <1>1, <1>2
<1> QED
  BY <1>5, <1>6, PlaceOf

LEMMA ShapeIsTyped ==
    ASSUME Shape, RecordIssued, ChainIssued, Prepared
    PROVE  TypeOK
<1>1. Len(issued) \in Nat /\ DOMAIN issued = 1 .. Len(issued)
  BY SeqDomain DEF Shape
<1>2. ASSUME kind = "record", issued # << >>
      PROVE  Validates(issued, TRUE)
  <2>1. Len(issued) = 1 /\ (KeystoneRecord(issued[1]) \/ StagedRecord(issued[1]))
    BY <1>2 DEF RecordIssued
  <2>2. VerifyRecord(issued[1])
    BY <2>1, KeystoneRecordVerified DEF StagedRecord
  <2>3. \A i \in DOMAIN issued : i = 1
    BY <1>1, <2>1
  <2>4. \A i \in DOMAIN issued : VerifyRecord(issued[i])
    BY <2>2, <2>3
  <2> QED
    BY <1>2, <2>4 DEF Validates
<1>3. kind \in {"delegation", "revocation"} => VerifyChain(issued)
  BY DEF ChainIssued, Chained
<1>4. ASSUME kind = "lifecycle", NEW i \in DOMAIN issued
      PROVE  RefAt(Steps[i], issued[i]) # Malformed
  <2>1. Fits(issued, Steps[i]) /\ Place(Steps[i]) = i
    BY <1>1, <1>4, LifecycleRefers DEF Lifecycle
  <2> QED
    BY <2>1, Shapes DEF Fits, Refers, RefIn
<1>5. kind \in Kind /\ edits \in 0 .. MaxEdits[kind] /\ computed \in BOOLEAN /\ Len(held) <= Len(issued)
  BY Zenon DEF Shape
<1> QED
  BY <1>2, <1>3, <1>4, <1>5, Zenon DEF TypeOK

\* Whatever the author made passes every check, and a reference to it can be
\* computed.
THEOREM EvidenceTyped == Spec => []TypeOK
<1>1. Init => RecordIssued /\ ChainIssued /\ Prepared
  <2> SUFFICES ASSUME Init PROVE RecordIssued /\ ChainIssued /\ Prepared
    OBVIOUS
  <2>1. Len(held) = 0 /\ Len(issued) = 0 /\ issued = << >>
    BY EmptyIsSeq DEF Init
  <2>2. DOMAIN issued = {} /\ 1 .. Len(held) = {} /\ 1 .. Len(issued) = {}
    BY <2>1
  <2>3. Filled(issued, Len(issued))
    BY <2>2 DEF Filled
  <2> QED
    BY <2>1, <2>2, <2>3 DEF RecordIssued, ChainIssued, VerifyChain, Prepared
<1>2. Shape /\ RecordIssued /\ ChainIssued /\ Prepared /\ [Next]_vars =>
          RecordIssued' /\ ChainIssued' /\ Prepared'
  BY RecordIssuedStep, ChainIssuedStep, PreparedStep
<1>3. Shape /\ RecordIssued /\ ChainIssued /\ Prepared => TypeOK
  BY ShapeIsTyped
<1> QED
  BY <1>1, <1>2, <1>3, AlwaysShape, PTL DEF Spec

-----------------------------------------------------------------------------
(* What a reference of a lifecycle pins *)

\* The reference to a document that is issued hashes all of its fields.
LEMMA StepHashes ==
    ASSUME NEW s \in StepSet \ {"policy", "journey"}, NEW d
    PROVE  Hashes(RefAt(s, d), d, FieldsAt(s))
<1>1. PICK a : a = s
  OBVIOUS
<1>2. \/ a = "passport" \/ a = "mandate" \/ a = "policy_bound" \/ a = "payer" \/ a = "gate"
      \/ a = "decision" \/ a = "action" \/ a = "execution" \/ a = "binding" \/ a = "trust_query"
      \/ a = "cancellation" \/ a = "refund"
  BY <1>1 DEF StepSet
<1>3. Hashes(RefAt(a, d), d, FieldsAt(a))
  BY <1>2, RefsHash, RefAtIs, FieldsAtIs
<1> QED
  BY <1>1, <1>3

\* One reference, one document: if the fields of a step are all of the first
\* and the second has no others.
LEMMA RefFixes ==
    ASSUME NEW s \in StepSet, NEW o, IsDoc(o), NEW h, IsDoc(h),
           IsRef(RefAt(s, o)), RefAt(s, h) = RefAt(s, o),
           DOMAIN o = FieldsAt(s), DOMAIN h \subseteq DOMAIN o,
           \A f \in DOMAIN o : o[f] # Mistyped,
           s = "journey" => o["delegations"] # Arr(<< >>)
    PROVE  h = o
<1>1. PICK ref : ref = RefAt(s, o)
  OBVIOUS
<1>2. ref # Malformed /\ RefAt(s, h) = ref
  BY <1>1, Shapes
<1>3. CASE s = "policy"
  <2>1. Ref(h) = Ref(o)
    BY <1>3, RefAtIs DEF PolicyRef
  <2> QED
    BY <2>1, Shapes
<1>4. CASE s = "journey"
  <2>1. PICK a : a = WithDefault(o, "delegations", Arr(<< >>))
    OBVIOUS
  <2>2. PICK b : b = WithDefault(h, "delegations", Arr(<< >>))
    OBVIOUS
  <2>3. Hashes(ref, a, JourneyFields) /\ Hashes(ref, b, JourneyFields)
    BY <1>1, <1>2, <1>4, <2>1, <2>2, RefsHash, RefAtIs
  <2>4. \A f \in JourneyFields : Get(a, f) = Get(b, f)
    BY <1>2, <2>3, HashPins
  <2>5. DOMAIN o = JourneyFields /\ "delegations" \in JourneyFields
    BY <1>4, FieldsAtIs DEF JourneyFields
  <2>6. \A f \in JourneyFields : Get(a, f) = o[f]
    BY <2>1, <2>5 DEF Get, WithDefault
  <2>7. /\ \A f \in JourneyFields \ {"delegations"} : Get(b, f) = Get(h, f)
        /\ Get(b, "delegations") = IF "delegations" \in DOMAIN h THEN h["delegations"] ELSE Arr(<< >>)
    BY <2>2 DEF Get, WithDefault
  <2>8. "delegations" \in DOMAIN h /\ h["delegations"] = o["delegations"]
    BY <1>4, <2>4, <2>5, <2>6, <2>7
  <2>9. \A f \in DOMAIN o : f \in DOMAIN h /\ h[f] = o[f]
    BY <2>4, <2>5, <2>6, <2>7, <2>8 DEF Get
  <2> QED
    BY <2>9 DEF IsDoc
<1>5. CASE s \notin {"policy", "journey"}
  <2>1. Hashes(ref, o, FieldsAt(s)) /\ Hashes(ref, h, FieldsAt(s))
    BY <1>1, <1>2, <1>5, StepHashes
  <2>2. \A f \in DOMAIN o : Get(o, f) = Get(h, f)
    BY <1>2, <2>1, HashPins
  <2>3. \A f \in DOMAIN o : f \in DOMAIN h /\ h[f] = o[f]
    BY <2>2 DEF Get
  <2> QED
    BY <2>3 DEF IsDoc
<1> QED
  BY <1>3, <1>4, <1>5

\* No value of a document that is made has a wrong type.
LEMMA ListNotMistyped ==
    ASSUME NEW docs, NEW t
    PROVE  ListIn(docs, t) # Mistyped
BY Shapes DEF ListIn

LEMMA ContentsTyped ==
    ASSUME NEW s \in StepSet
    PROVE  \A f \in DOMAIN Contents(s) : Contents(s)[f] # Mistyped
<1>1. PICK w : w = Str(Word)
  OBVIOUS
<1>2. PICK one : one = Ms(1)
  OBVIOUS
<1>3. PICK e : e = Elsewhere
  OBVIOUS
<1>4. PICK g : g = Arr(<<Elsewhere>>)
  OBVIOUS
<1>5. /\ w # Mistyped /\ one # Mistyped /\ e # Mistyped /\ g # Mistyped
      /\ \A x : Str(x) # Mistyped
  BY <1>1, <1>2, <1>3, <1>4, Shapes DEF Elsewhere, Made
<1>6. CASE s \in {"passport", "mandate", "payer"}
  <2>1. \A f \in DOMAIN Contents(s) : Contents(s)[f] = w
    BY <1>1, <1>6 DEF Contents
  <2> QED
    BY <1>5, <2>1
<1>7. CASE s \in {"policy_bound"}
  <2>1. Contents(s) = << >>
    BY <1>7 DEF Contents
  <2> QED
    BY <2>1
<1>8. CASE s = "policy"
  <2>1. Contents(s) = [rules |-> w]
    BY <1>1, <1>8 DEF Contents
  <2> QED
    BY <1>5, <2>1
<1>9. CASE s \in {"gate", "decision", "trust_query", "cancellation"}
  <2>1. \E x : \/ Contents(s) = [verdict |-> Str(x)] \/ Contents(s) = [trust_outcome |-> Str(x)]
               \/ Contents(s) = [cancellation_reason |-> Str(x)]
    BY <1>9 DEF Contents
  <2>2. PICK x : \/ Contents(s) = [verdict |-> Str(x)] \/ Contents(s) = [trust_outcome |-> Str(x)]
                 \/ Contents(s) = [cancellation_reason |-> Str(x)]
    BY <2>1
  <2>3. PICK v : v = Str(x)
    OBVIOUS
  <2>4. \/ Contents(s) = [verdict |-> v] \/ Contents(s) = [trust_outcome |-> v]
        \/ Contents(s) = [cancellation_reason |-> v]
    BY <2>2, <2>3
  <2> QED
    BY <1>5, <2>3, <2>4
<1>10. CASE s = "action"
  <2>1. Contents(s) = [agent_id |-> w, action_type |-> w, scope |-> w, timestamp_ms |-> one]
    BY <1>1, <1>2, <1>10 DEF Contents
  <2> QED
    BY <1>5, <2>1
<1>11. CASE s = "execution"
  <2>1. PICK o : o = Str("COMMITTED")
    OBVIOUS
  <2>2. Contents(s) = [action_type |-> w, scope |-> w, outcome |-> o, executed_at_ms |-> one]
    BY <1>1, <1>2, <1>11, <2>1 DEF Contents
  <2> QED
    BY <1>5, <2>1, <2>2
<1>12. CASE s = "binding"
  <2>1. Contents(s) = [settlement_ref |-> e, retention_chain_ref |-> e]
    BY <1>3, <1>12 DEF Contents
  <2> QED
    BY <1>5, <2>1
<1>13. CASE s = "refund"
  <2>1. PICK o : o = Str("FULL")
    OBVIOUS
  <2>2. Contents(s) = [refund_amount |-> w, refund_result |-> o]
    BY <1>1, <1>13, <2>1 DEF Contents
  <2> QED
    BY <1>5, <2>1, <2>2
<1>14. CASE s = "journey"
  <2>1. PICK o : o = Str("COMPLETE")
    OBVIOUS
  <2>2. Contents(s) = [delegations |-> g, journey_outcome |-> o]
    BY <1>4, <1>14, <2>1 DEF Contents
  <2> QED
    BY <1>5, <2>1, <2>2
<1> QED
  BY <1>6, <1>7, <1>8, <1>9, <1>10, <1>11, <1>12, <1>13, <1>14 DEF StepSet

LEMMA IssuedTyped ==
    ASSUME Shape, Prepared, Lifecycle, NEW s \in StepSet, Place(s) \in 1 .. Len(issued)
    PROVE  /\ issued[Place(s)] = Bound(issued, s, Contents(s))
           /\ Fits(issued, s) /\ \A x \in Cited(s) : Fits(issued, x)
           /\ \A f \in DOMAIN issued[Place(s)] : issued[Place(s)][f] # Mistyped
<1>1. PICK d : d = issued[Place(s)]
  OBVIOUS
<1>2. d = Bound(issued, s, Contents(s))
  <2>1. Filled(issued, Len(issued))
    BY Zenon DEF Prepared
  <2> QED
    BY <1>1, <2>1, StepsPlaced DEF Filled
<1>3. BoundFields(issued, s, Contents(s), d)
  BY <1>2, BoundIs
<1>4. Fits(issued, s)
  BY LifecycleRefers, StepsPlaced
<1>5. ASSUME NEW x \in Cited(s)
      PROVE  Fits(issued, x)
  <2>1. x \in StepSet /\ Place(x) < Place(s)
    BY CitedEarlier DEF Earlier
  <2>2. Place(x) \in 1 .. Len(issued) /\ x = Steps[Place(x)]
    <3>1. Place(x) \in 1 .. 14 /\ x = Steps[Place(x)]
      BY <2>1, StepsPlaced
    <3>2. Len(issued) \in Nat
      BY SeqDomain DEF Shape
    <3> QED
      BY <2>1, <3>1, <3>2
  <2> QED
    BY <2>2, LifecycleRefers
<1>6. \A x \in Cited(s) : RefIn(issued, x) # Mistyped
  BY <1>5, Shapes DEF Fits, Refers
<1>7. ASSUME NEW f \in DOMAIN d
      PROVE  d[f] # Mistyped
  <2>1. CASE f \in DOMAIN Names(s)
    BY <1>3, <1>6, <2>1, CitedAre DEF BoundFields
  <2>2. CASE f \in DOMAIN Lists(s) \ DOMAIN Names(s)
    BY <1>3, <2>2, ListNotMistyped DEF BoundFields
  <2>3. CASE f \in DOMAIN Contents(s) \ (DOMAIN Names(s) \cup DOMAIN Lists(s))
    BY <1>3, <2>3, ContentsTyped DEF BoundFields
  <2> QED
    BY <1>3, <2>1, <2>2, <2>3 DEF BoundFields
<1> QED
  BY <1>1, <1>2, <1>4, <1>5, <1>7

\* A step of which the auditor has the reference of what is held.
Placed(s) == s \in StepSet /\ Place(s) \in 1 .. Len(issued)
Agrees(s) == Placed(s) /\ RefIn(held, s) = RefIn(issued, s)

LEMMA AgreeingHeld ==
    ASSUME Shape, Prepared, Lifecycle, NEW s, Agrees(s)
    PROVE  held[Place(s)] = issued[Place(s)]
<1>1. PICK i : i = Place(s)
  OBVIOUS
<1>2. i \in 1 .. Len(issued) /\ i \in 1 .. Len(held) /\ s \in StepSet
  BY <1>1 DEF Agrees, Placed, Prepared
<1>3. PICK o : o = issued[i]
  OBVIOUS
<1>4. PICK h : h = held[i]
  OBVIOUS
<1>5. IsDoc(o) /\ IsDoc(h) /\ DOMAIN h \subseteq DOMAIN o
  BY <1>2, <1>3, <1>4 DEF Shape, Prepared
<1>6. RefAt(s, h) = RefAt(s, o)
  BY <1>1, <1>3, <1>4 DEF Agrees, RefIn
<1>7. /\ Fits(issued, s) /\ \A x \in Cited(s) : Fits(issued, x)
      /\ o = Bound(issued, s, Contents(s)) /\ \A f \in DOMAIN o : o[f] # Mistyped
  BY <1>1, <1>2, <1>3, IssuedTyped
<1>8. IsRef(RefAt(s, o)) /\ DOMAIN o = FieldsAt(s)
  BY <1>1, <1>3, <1>7 DEF Fits, Refers, RefIn
<1>9. ASSUME s = "journey"
      PROVE  o["delegations"] # Arr(<< >>)
  <2>1. 1 \in DOMAIN Lists("journey")["hops"] /\ Lists("journey")["hops"][1] = "execution"
    <3>1. PICK one : one = <<"execution">>
      OBVIOUS
    <3>2. 1 \in DOMAIN one /\ one[1] = "execution"
      BY <3>1
    <3> QED
      BY <3>1, <3>2, ListsOf
  <2>2. "execution" \in Cited("journey")
    BY <2>1, CitedAre, ListsOf
  <2>3. Refers(issued, "execution")
    BY <1>7, <1>9, <2>2 DEF Fits
  <2> QED
    BY <1>7, <1>9, <2>3, JourneyFits
<1> QED
  BY <1>1, <1>2, <1>3, <1>4, <1>5, <1>6, <1>7, <1>8, <1>9, RefFixes

LEMMA PlacedSpreads ==
    ASSUME NEW s, Placed(s), Len(issued) \in Nat, NEW x \in Cited(s)
    PROVE  Placed(x)
<1>1. x \in StepSet /\ Place(x) < Place(s)
  BY CitedEarlier DEF Earlier, Placed
<1>2. Place(x) \in 1 .. 14 /\ Place(s) \in 1 .. Len(issued)
  BY <1>1, StepsPlaced DEF Placed
<1> QED
  BY <1>1, <1>2 DEF Placed

\* Every reference in the document of this step names what is held.
Consistent(s) == Bound(held, s, held[Place(s)]) = held[Place(s)]

LEMMA ListPins ==
    ASSUME NEW docs, NEW others, NEW t, ListIn(docs, t) = ListIn(others, t)
    PROVE  \A k \in DOMAIN t : RefIn(docs, t[k]) = RefIn(others, t[k])
<1>1. PICK a : a = [k \in DOMAIN t |-> RefIn(docs, t[k])]
  OBVIOUS
<1>2. PICK b : b = [k \in DOMAIN t |-> RefIn(others, t[k])]
  OBVIOUS
<1>3. a = b
  BY <1>1, <1>2, Shapes DEF ListIn
<1>4. ASSUME NEW k \in DOMAIN t
      PROVE  a[k] = RefIn(docs, t[k]) /\ b[k] = RefIn(others, t[k])
  BY <1>1, <1>2
<1> QED
  BY <1>3, <1>4

LEMMA AgreementSpreads ==
    ASSUME Shape, Prepared, Lifecycle, NEW s, Agrees(s), Consistent(s), NEW x \in Cited(s)
    PROVE  Agrees(x)
<1>1. PICK d : d = issued[Place(s)]
  OBVIOUS
<1>2. held[Place(s)] = d
  BY <1>1, AgreeingHeld
<1>3. d = Bound(held, s, d)
  BY <1>2 DEF Consistent
<1>4. s \in StepSet /\ Place(s) \in 1 .. Len(issued)
  BY DEF Agrees, Placed
<1>5. d = Bound(issued, s, Contents(s))
  BY <1>1, <1>4, IssuedTyped
<1>6. PICK c : c = Contents(s)
  OBVIOUS
<1>7. BoundFields(held, s, d, d) /\ BoundFields(issued, s, c, d)
  BY <1>3, <1>5, <1>6, BoundIs
<1>8. \A f \in DOMAIN Names(s) : RefIn(held, Names(s)[f]) = RefIn(issued, Names(s)[f])
  BY <1>7 DEF BoundFields
<1>9. \A f \in DOMAIN Lists(s) : f \notin DOMAIN Names(s)
  BY <1>4, NamesOf, ListsOf DEF Naming, Listing
<1>10. \A f \in DOMAIN Lists(s) : ListIn(held, Lists(s)[f]) = ListIn(issued, Lists(s)[f])
  BY <1>7, <1>9 DEF BoundFields
<1>11. RefIn(held, x) = RefIn(issued, x)
  BY <1>8, <1>10, CitedIs, ListPins
<1>12. Placed(x)
  BY PlacedSpreads, SeqDomain DEF Agrees, Shape
<1> QED
  BY <1>11, <1>12 DEF Agrees

More(S) == S \cup UNION {Cited(s) : s \in S}

LEMMA BelowIs ==
    ASSUME NEW s
    PROVE  Below(s) = More(More(More(More({s}))))
BY DEF Below, More

LEMMA MoreIs ==
    ASSUME NEW S, NEW x
    PROVE  x \in More(S) <=> x \in S \/ \E s \in S : x \in Cited(s)
BY DEF More

LEMMA MorePlaced ==
    ASSUME NEW S, \A s \in S : Placed(s), Len(issued) \in Nat
    PROVE  \A x \in More(S) : Placed(x)
BY MoreIs, PlacedSpreads

LEMMA MoreAgrees ==
    ASSUME Shape, Prepared, Lifecycle, NEW S, \A s \in S : Agrees(s) /\ Consistent(s)
    PROVE  \A x \in More(S) : Agrees(x)
BY MoreIs, AgreementSpreads

LEMMA LifecycleIsTraced ==
    ASSUME Shape, Prepared
    PROVE  LifecycleTraced
<1> SUFFICES ASSUME Lifecycle, NEW i \in DOMAIN issued
             PROVE  /\ held = issued => Traced(Steps[i])
                    /\ Traced(Steps[i]) =>
                         \A s \in Below(Steps[i]) : held[Place(s)] = issued[Place(s)]
  BY DEF LifecycleTraced, Lifecycle
<1>1. PICK s0 : s0 = Steps[i]
  OBVIOUS
<1>2. Len(issued) \in Nat /\ i \in 1 .. Len(issued)
  BY SeqDomain DEF Shape
<1>3. Placed(s0)
  BY <1>1, <1>2, LifecycleRefers, StepsDiffer DEF Placed
<1>4. PICK S1 : S1 = More({s0})
  OBVIOUS
<1>5. PICK S2 : S2 = More(S1)
  OBVIOUS
<1>6. PICK S3 : S3 = More(S2)
  OBVIOUS
<1>7. PICK S4 : S4 = More(S3)
  OBVIOUS
<1>8. Below(s0) = S4
  BY <1>4, <1>5, <1>6, <1>7, BelowIs
<1>9. {s0} \subseteq S1 /\ S1 \subseteq S2 /\ S2 \subseteq S3 /\ S3 \subseteq S4
  BY <1>4, <1>5, <1>6, <1>7 DEF More
<1>10. ASSUME held = issued
       PROVE  Traced(s0)
  <2>1. \A s \in {s0} : Placed(s)
    BY <1>3
  <2>2. \A s \in S1 : Placed(s)
    BY <1>2, <1>4, <2>1, MorePlaced
  <2>3. \A s \in S2 : Placed(s)
    BY <1>2, <1>5, <2>2, MorePlaced
  <2>4. \A s \in S3 : Placed(s)
    BY <1>2, <1>6, <2>3, MorePlaced
  <2>5. \A s \in S4 : Placed(s)
    BY <1>2, <1>7, <2>4, MorePlaced
  <2>6. ASSUME NEW s \in S4
        PROVE  Bound(held, s, held[Place(s)]) = held[Place(s)]
    <3>1. issued[Place(s)] = Bound(issued, s, Contents(s))
      BY <2>5, IssuedTyped DEF Placed
    <3>2. Bound(issued, s, issued[Place(s)]) = issued[Place(s)]
      BY <3>1, BoundTwice
    <3> QED
      BY <1>10, <3>2
  <2> QED
    BY <1>8, <1>10, <2>6 DEF Traced
<1>11. ASSUME Traced(s0), NEW s \in S4
       PROVE  held[Place(s)] = issued[Place(s)]
  <2>1. \A x \in S4 : Consistent(x)
    BY <1>8, <1>11 DEF Traced, Consistent
  <2>2. \A x \in {s0} : Agrees(x) /\ Consistent(x)
    BY <1>3, <1>9, <1>11, <2>1 DEF Traced, Agrees
  <2>3. \A x \in S1 : Agrees(x) /\ Consistent(x)
    BY <1>4, <1>9, <2>1, <2>2, MoreAgrees
  <2>4. \A x \in S2 : Agrees(x) /\ Consistent(x)
    BY <1>5, <1>9, <2>1, <2>3, MoreAgrees
  <2>5. \A x \in S3 : Agrees(x) /\ Consistent(x)
    BY <1>6, <1>9, <2>1, <2>4, MoreAgrees
  <2>6. \A x \in S4 : Agrees(x)
    BY <1>7, <2>5, MoreAgrees
  <2> QED
    BY <2>6, AgreeingHeld
<1> QED
  BY <1>1, <1>8, <1>10, <1>11

\* How far below a document the passport, a mandate, a policy or a payer is.
Depth(s) ==
    CASE s \in {"policy_bound", "cancellation"} -> 1
      [] s \in {"gate", "decision"} -> 2
      [] s = "execution" -> 3
      [] s \in {"binding", "trust_query", "refund", "journey"} -> 4
      [] OTHER -> 0

LEMMA CitedDepth == \A s \in StepSet : Depth(s) <= 4 /\ \A x \in Cited(s) : Depth(x) < Depth(s)
<1>1. ASSUME NEW s \in StepSet, NEW x \in Cited(s)
      PROVE  Depth(x) < Depth(s)
  <2>1. CASE \E f \in DOMAIN Names(s) : x = Names(s)[f]
    <3>1. s \in Naming
      BY <2>1, NamesOf
    <3> QED
      BY <2>1, <3>1, NamesOf DEF Naming, Depth
  <2>2. CASE \E f \in DOMAIN Lists(s) : \E k \in DOMAIN Lists(s)[f] : x = Lists(s)[f][k]
    <3>1. s \in Listing
      BY <2>2, ListsOf
    <3>2. PICK f \in DOMAIN Lists(s) : \E k \in DOMAIN Lists(s)[f] : x = Lists(s)[f][k]
      BY <2>2
    <3>3. PICK t : t = Lists(s)[f]
      OBVIOUS
    <3>4. t = <<"passport", "mandate", "policy_bound", "decision", "execution">> \/ t = <<"execution">>
      BY <3>1, <3>2, <3>3, ListsOf DEF Listing
    <3>5. x \in {"passport", "mandate", "policy_bound", "decision", "execution"}
      BY <3>2, <3>3, <3>4
    <3> QED
      BY <3>1, <3>5 DEF Listing, Depth
  <2> QED
    BY <2>1, <2>2, CitedIs
<1>2. \A s : Depth(s) \in {0, 1, 2, 3, 4}
  BY DEF Depth
<1> QED
  BY <1>1, <1>2

\* Four rounds reach every document there is below a reference.
LEMMA BelowIsClosed == \A s \in StepSet : \A x \in Below(s) : Cited(x) \subseteq Below(s)
<1> SUFFICES ASSUME NEW s \in StepSet
             PROVE  \A x \in Below(s) : Cited(x) \subseteq Below(s)
  OBVIOUS
<1>1. PICK S0 : S0 = {s}
  OBVIOUS
<1>2. PICK S1 : S1 = More(S0)
  OBVIOUS
<1>3. PICK S2 : S2 = More(S1)
  OBVIOUS
<1>4. PICK S3 : S3 = More(S2)
  OBVIOUS
<1>5. PICK S4 : S4 = More(S3)
  OBVIOUS
<1>6. Below(s) = S4
  BY <1>1, <1>2, <1>3, <1>4, <1>5, BelowIs
<1>7. \A x : Depth(x) \in Nat
  BY DEF Depth
<1>8. ASSUME NEW S, NEW T, T = More(S), NEW n \in Nat, S \subseteq StepSet
      PROVE  /\ T \subseteq StepSet
             /\ \A x \in T : x \in S \/ \E y \in S : x \in Cited(y) /\ Depth(x) < Depth(y)
  BY <1>8, MoreIs, CitedEarlier, CitedDepth DEF Earlier
<1>9. S0 \subseteq StepSet /\ \A x \in S0 : Depth(x) <= 4
  BY <1>1, CitedDepth
<1>10. S1 \subseteq StepSet /\ \A x \in S1 : x \in S0 \/ Depth(x) <= 3
  BY <1>2, <1>7, <1>8, <1>9
<1>11. S2 \subseteq StepSet /\ \A x \in S2 : x \in S1 \/ Depth(x) <= 2
  <2>1. \A x \in S0 : Cited(x) \subseteq S1
    BY <1>2, MoreIs
  <2> QED
    BY <1>3, <1>7, <1>8, <1>10, <2>1
<1>12. S3 \subseteq StepSet /\ \A x \in S3 : x \in S2 \/ Depth(x) <= 1
  <2>1. \A x \in S1 : Cited(x) \subseteq S2
    BY <1>3, MoreIs
  <2> QED
    BY <1>4, <1>7, <1>8, <1>11, <2>1
<1>13. S4 \subseteq StepSet /\ \A x \in S4 : x \in S3 \/ Depth(x) <= 0
  <2>1. \A x \in S2 : Cited(x) \subseteq S3
    BY <1>4, MoreIs
  <2> QED
    BY <1>5, <1>7, <1>8, <1>12, <2>1
<1>14. \A x \in S3 : Cited(x) \subseteq S4
  BY <1>5, MoreIs
<1>15. \A x \in S4 : Depth(x) <= 0 => Cited(x) = {}
  BY <1>7, <1>13, CitedDepth
<1> QED
  BY <1>6, <1>13, <1>14, <1>15

\* A reference of any step pins every document it reaches through others,
\* and what was issued can be traced from it.
THEOREM LifecycleAlwaysTraced == Spec => []LifecycleTraced
<1>1. Init => Prepared
  <2> SUFFICES ASSUME Init PROVE Prepared
    OBVIOUS
  <2>1. Len(held) = 0 /\ Len(issued) = 0
    BY EmptyIsSeq DEF Init
  <2>2. 1 .. Len(held) = {} /\ 1 .. Len(issued) = {}
    BY <2>1
  <2>3. Filled(issued, Len(issued))
    BY <2>2 DEF Filled
  <2> QED
    BY <2>1, <2>2, <2>3 DEF Prepared
<1>2. Shape /\ Prepared /\ [Next]_vars => Prepared'
  BY PreparedStep
<1>3. Shape /\ Prepared => LifecycleTraced
  BY LifecycleIsTraced
<1> QED
  BY <1>1, <1>2, <1>3, AlwaysShape, PTL DEF Spec
=============================================================================
