----------------------------- MODULE ChainProofs ----------------------------
(***************************************************************************)
(* Proofs about ChainVerification, for chains of any length, any names and *)
(* contents and any number of changes by the custodian.                    *)
(***************************************************************************)
EXTENDS ChainVerification, TLAPS, SequenceTheorems, WellFoundedInduction

-----------------------------------------------------------------------------
(* Links *)

\* What a preimage can have for a reference: a name, or a ref spelled out.
IsBind(v) == (\E n \in Name : v = Marker(n)) \/ (\E r : v = Literal(r))

IsLink(x) ==
    /\ x = [name |-> x.name, content |-> x.content, binds |-> x.binds, ref |-> x.ref]
    /\ x.name \in Name
    /\ IsContent(x.content)
    /\ \A j \in DOMAIN x.binds : IsBind(x.binds[j])

\* Sequences of links, whatever their refs.
Typed(ls) == \E S : ls \in Seq(S) /\ \A x \in S : IsLink(x)

LEMMA TypedLinks ==
    ASSUME NEW ls, Typed(ls)
    PROVE  /\ Len(ls) \in Nat
           /\ DOMAIN ls = 1 .. Len(ls)
           /\ \A i \in 1 .. Len(ls) : IsLink(ls[i])
<1>1. PICK S : ls \in Seq(S) /\ \A x \in S : IsLink(x)
  BY DEF Typed
<1> QED
  BY <1>1, LenProperties, ElementOfSeq

\* A set of links, enlarged.
LEMMA TypedWith ==
    ASSUME NEW ls, Typed(ls), NEW x, IsLink(x)
    PROVE  \E S : ls \in Seq(S) /\ x \in S /\ \A y \in S : IsLink(y)
<1>1. PICK S : ls \in Seq(S) /\ \A y \in S : IsLink(y)
  BY DEF Typed
<1>2. ls \in Seq(S \cup {x})
  BY <1>1, SeqMonotonic
<1> QED
  BY <1>1, <1>2

\* A non-empty set of natural numbers has a least element.
LEMMA LeastNat ==
    ASSUME NEW T, T \subseteq Nat, T # {}
    PROVE  \E n \in T : \A m \in T : n <= m
<1>1. PICK n \in T : \A m \in T : ~(<<m, n>> \in OpToRel(<, Nat))
  BY WFMin, NatLessThanWellFounded
<1>2. \A m \in T : ~(m < n)
  BY <1>1 DEF OpToRel
<1> QED
  BY <1>2

\* A marker and a literal are told apart by their field.
LEMMA BindKinds ==
    /\ \A n : "at" \in DOMAIN Marker(n) /\ Marker(n).at = n
    /\ \A r : "at" \notin DOMAIN Literal(r) /\ Literal(r).literal = r
BY DEF Marker, Literal

\* Links with names of their own that refer to earlier links only.
Ordered(ls) ==
    /\ \A i, j \in DOMAIN ls : ls[i].name = ls[j].name => i = j
    /\ \A i \in DOMAIN ls : Binds(ls[i]) \subseteq {ls[j].name : j \in 1 .. i - 1}

\* The link of a name.
LEMMA IndexFinds ==
    ASSUME NEW ls, Ordered(ls), NEW n \in Named(ls)
    PROVE  /\ IndexOf(ls, n) \in DOMAIN ls
           /\ ls[IndexOf(ls, n)].name = n
           /\ \A i \in DOMAIN ls : ls[i].name = n => IndexOf(ls, n) = i
<1>1. PICK i \in DOMAIN ls : ls[i].name = n
  BY DEF Named
<1>2. /\ IndexOf(ls, n) \in DOMAIN ls
      /\ ls[IndexOf(ls, n)].name = n
  BY <1>1 DEF IndexOf
<1> QED
  BY <1>2 DEF Ordered

\* A marker of a link names a link before it.
LEMMA MarkerEarlier ==
    ASSUME NEW ls, Typed(ls), Ordered(ls), NEW i \in 1 .. Len(ls),
           NEW n \in Binds(ls[i])
    PROVE  /\ n \in Named(ls)
           /\ IndexOf(ls, n) \in 1 .. i - 1
           /\ IndexOf(ls, n) \in 1 .. Len(ls)
<1>1. Len(ls) \in Nat /\ DOMAIN ls = 1 .. Len(ls)
  BY TypedLinks
<1>2. PICK j \in 1 .. i - 1 : n = ls[j].name
  BY <1>1 DEF Ordered
<1>3. j \in DOMAIN ls
  BY <1>1, <1>2
<1>4. n \in Named(ls)
  BY <1>2, <1>3 DEF Named
<1>5. IndexOf(ls, n) = j
  BY <1>2, <1>3, <1>4, IndexFinds
<1> QED
  BY <1>1, <1>2, <1>4, <1>5

LEMMA MarkerBinds ==
    ASSUME NEW ls, Typed(ls), NEW i \in 1 .. Len(ls), NEW j \in DOMAIN ls[i].binds,
           "at" \in DOMAIN ls[i].binds[j]
    PROVE  /\ ls[i].binds[j].at \in Binds(ls[i])
           /\ ls[i].binds[j] = Marker(ls[i].binds[j].at)
<1>1. IsBind(ls[i].binds[j])
  BY TypedLinks DEF IsLink
<1>2. PICK n \in Name : ls[i].binds[j] = Marker(n)
  BY <1>1, BindKinds DEF IsBind
<1> QED
  BY <1>2, BindKinds DEF Binds

-----------------------------------------------------------------------------
(* References *)

\* What the i-th link hashes, when the references of the links are ref.
Hashed(ls, ref, i) ==
    [content |-> Canonical(ls[i].content),
     binds |-> [j \in DOMAIN ls[i].binds |->
        IF "at" \in DOMAIN ls[i].binds[j]
        THEN ref[IndexOf(ls, ls[i].binds[j].at)]
        ELSE ls[i].binds[j].literal]]

\* It depends on the references of the links before it.
LEMMA HashedEarlier ==
    ASSUME NEW ls, Typed(ls), Ordered(ls), NEW i \in 1 .. Len(ls), NEW f, NEW g,
           \A k \in 1 .. i - 1 : f[k] = g[k]
    PROVE  Hashed(ls, f, i) = Hashed(ls, g, i)
<1>1. ASSUME NEW j \in DOMAIN ls[i].binds, "at" \in DOMAIN ls[i].binds[j]
      PROVE  f[IndexOf(ls, ls[i].binds[j].at)] = g[IndexOf(ls, ls[i].binds[j].at)]
  BY <1>1, MarkerBinds, MarkerEarlier
<1> QED
  BY <1>1 DEF Hashed

\* The references of the first n links.
LEMMA RefsUpTo ==
    ASSUME NEW ls, Typed(ls), Ordered(ls), NEW n \in 0 .. Len(ls)
    PROVE  \E f : \A i \in 1 .. n : f[i] = Hashed(ls, f, i)
<1> DEFINE Bad == {m \in 0 .. Len(ls) : ~ \E f : \A i \in 1 .. m : f[i] = Hashed(ls, f, i)}
<1> SUFFICES ASSUME Bad # {} PROVE FALSE
  OBVIOUS
<1>L. Len(ls) \in Nat
  BY TypedLinks
<1>1. PICK m \in Bad : \A k \in Bad : m <= k
  <2>1. Bad \subseteq Nat
    BY <1>L
  <2> HIDE DEF Bad
  <2> QED
    BY <2>1, LeastNat
<1>2. m # 0
  BY <1>1
<1>3. m \in 1 .. Len(ls) /\ m - 1 \in 0 .. Len(ls) /\ m - 1 \notin Bad
  <2>1. m \in 0 .. Len(ls)
    OBVIOUS
  <2> HIDE DEF Bad
  <2> QED
    BY <1>L, <1>1, <1>2, <2>1
<1>4. PICK f : \A i \in 1 .. m - 1 : f[i] = Hashed(ls, f, i)
  BY <1>3
<1> DEFINE g == [i \in 1 .. m |-> IF i = m THEN Hashed(ls, f, m) ELSE f[i]]
<1>5. \A i \in 1 .. m - 1 : g[i] = f[i]
  BY <1>3
<1>6. g[m] = Hashed(ls, f, m)
  BY <1>3
<1> HIDE DEF g
<1>7. ASSUME NEW i \in 1 .. m
      PROVE  g[i] = Hashed(ls, g, i)
  <2>1. i \in 1 .. Len(ls) /\ \A k \in 1 .. i - 1 : k \in 1 .. m - 1
    BY <1>L, <1>3
  <2>2. Hashed(ls, g, i) = Hashed(ls, f, i)
    BY <1>5, <2>1, HashedEarlier
  <2>3. g[i] = Hashed(ls, f, i)
    <3>1. CASE i = m
      BY <1>6, <3>1
    <3>2. CASE i # m
      <4>1. i \in 1 .. m - 1
        BY <1>3, <3>2
      <4> QED
        BY <1>4, <1>5, <4>1
    <3> QED
      BY <3>1, <3>2
  <2> QED
    BY <2>2, <2>3
<1> QED
  BY <1>1, <1>7

\* A reference is what it hashes: the content, and the references of the
\* links that it names.
LEMMA RefsHash ==
    ASSUME NEW ls, Typed(ls), Ordered(ls)
    PROVE  /\ DOMAIN Refs(ls) = 1 .. Len(ls)
           /\ \A i \in 1 .. Len(ls) : Refs(ls)[i] = Hashed(ls, Refs(ls), i)
<1>1. Len(ls) \in Nat /\ DOMAIN ls = 1 .. Len(ls)
  BY TypedLinks
<1>2. PICK f : \A i \in 1 .. Len(ls) : f[i] = Hashed(ls, f, i)
  <2>1. Len(ls) \in 0 .. Len(ls)
    BY <1>1
  <2> QED
    BY <2>1, RefsUpTo
<1> DEFINE g == [i \in 1 .. Len(ls) |-> f[i]]
<1>3. g = [i \in DOMAIN ls |-> Hashed(ls, g, i)]
  <2>1. \A i \in 1 .. Len(ls) : g[i] = f[i]
    OBVIOUS
  <2>2. g = [i \in 1 .. Len(ls) |-> g[i]]
    OBVIOUS
  <2> HIDE DEF g
  <2>3. ASSUME NEW i \in 1 .. Len(ls)
        PROVE  g[i] = Hashed(ls, g, i)
    <3>1. \A k \in 1 .. i - 1 : k \in 1 .. Len(ls)
      BY <1>1
    <3>2. Hashed(ls, f, i) = Hashed(ls, g, i)
      BY <2>1, <3>1, HashedEarlier
    <3> QED
      BY <1>2, <2>1, <3>2
  <2> QED
    BY <1>1, <2>2, <2>3
<1>4. Refs(ls) = CHOOSE h : h = [i \in DOMAIN ls |-> Hashed(ls, h, i)]
  BY DEF Refs, Hashed
<1>5. Refs(ls) = [i \in DOMAIN ls |-> Hashed(ls, Refs(ls), i)]
  <2> HIDE DEF g
  <2> QED
    BY <1>3, <1>4
<1> QED
  BY <1>1, <1>5

\* What a reference has of its link.
LEMMA RefParts ==
    ASSUME NEW ls, Typed(ls), Ordered(ls), NEW i \in 1 .. Len(ls)
    PROVE  /\ Refs(ls)[i].content = Canonical(ls[i].content)
           /\ DOMAIN Refs(ls)[i].binds = DOMAIN ls[i].binds
<1>1. PICK refs : refs = Refs(ls)
  OBVIOUS
<1>2. PICK ref : ref = Hashed(ls, refs, i)
  OBVIOUS
<1>3. refs[i] = ref
  BY <1>1, <1>2, RefsHash
<1>4. /\ ref.content = Canonical(ls[i].content)
      /\ DOMAIN ref.binds = DOMAIN ls[i].binds
  BY <1>2 DEF Hashed
<1> QED
  BY <1>1, <1>3, <1>4

\* Equal references, equal contents, and equal references wherever one of
\* the two names a link.
LEMMA SameRef ==
    ASSUME NEW ls, Typed(ls), Ordered(ls), NEW i \in 1 .. Len(ls),
           NEW ks, Typed(ks), Ordered(ks), NEW k \in 1 .. Len(ks),
           Refs(ls)[i] = Refs(ks)[k]
    PROVE  /\ Canonical(ls[i].content) = Canonical(ks[k].content)
           /\ DOMAIN ls[i].binds = DOMAIN ks[k].binds
           /\ \A j \in DOMAIN ls[i].binds : Refs(ls)[i].binds[j] = Refs(ks)[k].binds[j]
<1>1. /\ Refs(ls)[i].content = Canonical(ls[i].content)
      /\ DOMAIN Refs(ls)[i].binds = DOMAIN ls[i].binds
  BY RefParts
<1>2. /\ Refs(ks)[k].content = Canonical(ks[k].content)
      /\ DOMAIN Refs(ks)[k].binds = DOMAIN ks[k].binds
  BY RefParts
<1> QED
  BY <1>1, <1>2

\* What is hashed for a marker.
LEMMA RefOfMarker ==
    ASSUME NEW ls, Typed(ls), Ordered(ls), NEW i \in 1 .. Len(ls), NEW j \in DOMAIN ls[i].binds,
           NEW n, ls[i].binds[j] = Marker(n)
    PROVE  /\ Refs(ls)[i].binds[j] = Refs(ls)[IndexOf(ls, n)]
           /\ n \in Binds(ls[i])
<1>1. "at" \in DOMAIN ls[i].binds[j] /\ ls[i].binds[j].at = n
  BY BindKinds
<1>2. Refs(ls)[i] = Hashed(ls, Refs(ls), i)
  BY RefsHash
<1> QED
  BY <1>1, <1>2, MarkerBinds DEF Hashed

-----------------------------------------------------------------------------
(* Reach *)

\* What the i-th link reaches, when the other links reach what r says.
Reaching(ls, r, i) == {i} \cup UNION {r[IndexOf(ls, n)] : n \in Binds(ls[i])}

LEMMA ReachingEarlier ==
    ASSUME NEW ls, Typed(ls), Ordered(ls), NEW i \in 1 .. Len(ls), NEW f, NEW g,
           \A k \in 1 .. i - 1 : f[k] = g[k]
    PROVE  Reaching(ls, f, i) = Reaching(ls, g, i)
<1>1. \A n \in Binds(ls[i]) : f[IndexOf(ls, n)] = g[IndexOf(ls, n)]
  BY MarkerEarlier
<1> QED
  BY <1>1 DEF Reaching

LEMMA ReachUpTo ==
    ASSUME NEW ls, Typed(ls), Ordered(ls), NEW n \in 0 .. Len(ls)
    PROVE  \E f : \A i \in 1 .. n : f[i] = Reaching(ls, f, i)
<1> DEFINE Bad == {m \in 0 .. Len(ls) : ~ \E f : \A i \in 1 .. m : f[i] = Reaching(ls, f, i)}
<1> SUFFICES ASSUME Bad # {} PROVE FALSE
  OBVIOUS
<1>L. Len(ls) \in Nat
  BY TypedLinks
<1>1. PICK m \in Bad : \A k \in Bad : m <= k
  <2>1. Bad \subseteq Nat
    BY <1>L
  <2> HIDE DEF Bad
  <2> QED
    BY <2>1, LeastNat
<1>2. m # 0
  BY <1>1
<1>3. m \in 1 .. Len(ls) /\ m - 1 \in 0 .. Len(ls) /\ m - 1 \notin Bad
  <2>1. m \in 0 .. Len(ls)
    OBVIOUS
  <2> HIDE DEF Bad
  <2> QED
    BY <1>L, <1>1, <1>2, <2>1
<1>4. PICK f : \A i \in 1 .. m - 1 : f[i] = Reaching(ls, f, i)
  BY <1>3
<1> DEFINE g == [i \in 1 .. m |-> IF i = m THEN Reaching(ls, f, m) ELSE f[i]]
<1>5. \A i \in 1 .. m - 1 : g[i] = f[i]
  BY <1>3
<1>6. g[m] = Reaching(ls, f, m)
  BY <1>3
<1> HIDE DEF g
<1>7. ASSUME NEW i \in 1 .. m
      PROVE  g[i] = Reaching(ls, g, i)
  <2>1. i \in 1 .. Len(ls) /\ \A k \in 1 .. i - 1 : k \in 1 .. m - 1
    BY <1>L, <1>3
  <2>2. Reaching(ls, g, i) = Reaching(ls, f, i)
    BY <1>5, <2>1, ReachingEarlier
  <2>3. g[i] = Reaching(ls, f, i)
    <3>1. CASE i = m
      BY <1>6, <3>1
    <3>2. CASE i # m
      <4>1. i \in 1 .. m - 1
        BY <1>3, <3>2
      <4> QED
        BY <1>4, <1>5, <4>1
    <3> QED
      BY <3>1, <3>2
  <2> QED
    BY <2>2, <2>3
<1> QED
  BY <1>1, <1>7

\* A link reaches itself and what the links that it names reach.
LEMMA ReachUnfolds ==
    ASSUME NEW ls, Typed(ls), Ordered(ls), NEW i \in 1 .. Len(ls)
    PROVE  Reach(ls, i) = {i} \cup UNION {Reach(ls, IndexOf(ls, n)) : n \in Binds(ls[i])}
<1>1. Len(ls) \in Nat /\ DOMAIN ls = 1 .. Len(ls)
  BY TypedLinks
<1>2. PICK f : \A k \in 1 .. Len(ls) : f[k] = Reaching(ls, f, k)
  <2>1. Len(ls) \in 0 .. Len(ls)
    BY <1>1
  <2> QED
    BY <2>1, ReachUpTo
<1> DEFINE g == [k \in 1 .. Len(ls) |-> f[k]]
           reach == CHOOSE h : h = [k \in DOMAIN ls |-> Reaching(ls, h, k)]
<1>3. g = [k \in DOMAIN ls |-> Reaching(ls, g, k)]
  <2>1. \A k \in 1 .. Len(ls) : g[k] = f[k]
    OBVIOUS
  <2>2. g = [k \in 1 .. Len(ls) |-> g[k]]
    OBVIOUS
  <2> HIDE DEF g
  <2>3. ASSUME NEW k \in 1 .. Len(ls)
        PROVE  g[k] = Reaching(ls, g, k)
    <3>1. \A x \in 1 .. k - 1 : x \in 1 .. Len(ls)
      BY <1>1
    <3>2. Reaching(ls, f, k) = Reaching(ls, g, k)
      BY <2>1, <3>1, ReachingEarlier
    <3> QED
      BY <1>2, <2>1, <3>2
  <2> QED
    BY <1>1, <2>2, <2>3
<1>4. \A k : Reach(ls, k) = reach[k]
  BY DEF Reach, Reaching
<1>5. reach = [k \in DOMAIN ls |-> Reaching(ls, reach, k)]
  <2> HIDE DEF g
  <2> QED
    BY <1>3
<1> HIDE DEF reach
<1>6. reach[i] = Reaching(ls, reach, i)
  BY <1>1, <1>5
<1> QED
  BY <1>4, <1>6 DEF Reaching

LEMMA ReachInside ==
    ASSUME NEW ls, Typed(ls), Ordered(ls)
    PROVE  \A i \in 1 .. Len(ls) : i \in Reach(ls, i) /\ Reach(ls, i) \subseteq 1 .. Len(ls)
<1> DEFINE Bad == {i \in 1 .. Len(ls) : ~(Reach(ls, i) \subseteq 1 .. Len(ls))}
<1>1. \A i \in 1 .. Len(ls) : i \in Reach(ls, i)
  BY ReachUnfolds
<1> SUFFICES ASSUME Bad # {} PROVE FALSE
  BY <1>1
<1>2. PICK i \in Bad : \A k \in Bad : i <= k
  <2>1. Bad \subseteq Nat
    OBVIOUS
  <2> HIDE DEF Bad
  <2> QED
    BY <2>1, LeastNat
<1>3. i \in 1 .. Len(ls) /\ Len(ls) \in Nat
  BY TypedLinks
<1>4. ASSUME NEW n \in Binds(ls[i])
      PROVE  Reach(ls, IndexOf(ls, n)) \subseteq 1 .. Len(ls)
  <2>1. IndexOf(ls, n) \in 1 .. i - 1 /\ IndexOf(ls, n) \in 1 .. Len(ls)
    BY <1>3, MarkerEarlier
  <2>2. ~(i <= IndexOf(ls, n))
    BY <1>3, <2>1
  <2>3. IndexOf(ls, n) \notin Bad
    <3> HIDE DEF Bad
    <3> QED
      BY <1>2, <2>2
  <2> QED
    BY <2>1, <2>3
<1>5. Reach(ls, i) \subseteq 1 .. Len(ls)
  BY <1>3, <1>4, ReachUnfolds
<1> QED
  BY <1>5

-----------------------------------------------------------------------------
(* Chains that differ in their contents *)

\* Two chains whose first n links have the same names and binds.
Alike(ls, ks, n) ==
    /\ n <= Len(ls) /\ n <= Len(ks)
    /\ \A i \in 1 .. n : ls[i].name = ks[i].name /\ ls[i].binds = ks[i].binds

LEMMA SameIndex ==
    ASSUME NEW ls, Typed(ls), Ordered(ls), NEW ks, Typed(ks), Ordered(ks),
           NEW n \in Nat, Alike(ls, ks, n), NEW i \in 1 .. n, NEW m \in Binds(ls[i])
    PROVE  /\ m \in Binds(ks[i])
           /\ IndexOf(ls, m) = IndexOf(ks, m)
           /\ IndexOf(ls, m) \in 1 .. i - 1
<1>1. /\ Len(ls) \in Nat /\ Len(ks) \in Nat
      /\ DOMAIN ls = 1 .. Len(ls) /\ DOMAIN ks = 1 .. Len(ks)
      /\ i \in 1 .. Len(ls) /\ i \in 1 .. Len(ks)
  BY TypedLinks DEF Alike
<1>2. m \in Binds(ks[i])
  BY DEF Alike, Binds
<1>3. /\ m \in Named(ls) /\ IndexOf(ls, m) \in 1 .. i - 1
      /\ m \in Named(ks)
  BY <1>1, <1>2, MarkerEarlier
<1>4. ls[IndexOf(ls, m)].name = m
  BY <1>3, IndexFinds
<1>5. IndexOf(ls, m) \in 1 .. n /\ IndexOf(ls, m) \in 1 .. Len(ks)
  BY <1>1, <1>3
<1>6. ks[IndexOf(ls, m)].name = m
  BY <1>4, <1>5 DEF Alike
<1>7. IndexOf(ks, m) = IndexOf(ls, m)
  BY <1>1, <1>3, <1>5, <1>6, IndexFinds
<1> QED
  BY <1>2, <1>3, <1>7

\* The links of which the contents differ.
Differ(ls, ks) == {i \in 1 .. Len(ls) : Canonical(ls[i].content) # Canonical(ks[i].content)}

\* One step: references are equal when the contents are and the references of
\* all links that are named are.
LEMMA AlikeStep ==
    ASSUME NEW ls, Typed(ls), Ordered(ls), NEW ks, Typed(ks), Ordered(ks),
           NEW n \in Nat, Alike(ls, ks, n), NEW i \in 1 .. n
    PROVE  Refs(ls)[i] = Refs(ks)[i]
            <=> /\ Canonical(ls[i].content) = Canonical(ks[i].content)
                /\ \A m \in Binds(ls[i]) :
                    Refs(ls)[IndexOf(ls, m)] = Refs(ks)[IndexOf(ls, m)]
<1>1. i \in 1 .. Len(ls) /\ i \in 1 .. Len(ks) /\ ls[i].binds = ks[i].binds
  BY TypedLinks DEF Alike
<1>2. ASSUME Refs(ls)[i] = Refs(ks)[i]
      PROVE  /\ Canonical(ls[i].content) = Canonical(ks[i].content)
             /\ \A m \in Binds(ls[i]) :
                    Refs(ls)[IndexOf(ls, m)] = Refs(ks)[IndexOf(ls, m)]
  <2>1. /\ Canonical(ls[i].content) = Canonical(ks[i].content)
        /\ \A j \in DOMAIN ls[i].binds : Refs(ls)[i].binds[j] = Refs(ks)[i].binds[j]
    BY <1>1, <1>2, SameRef
  <2>2. ASSUME NEW m \in Binds(ls[i])
        PROVE  Refs(ls)[IndexOf(ls, m)] = Refs(ks)[IndexOf(ls, m)]
    <3>1. PICK j \in DOMAIN ls[i].binds : ls[i].binds[j] = Marker(m)
      BY DEF Binds
    <3>2. /\ Refs(ls)[i].binds[j] = Refs(ls)[IndexOf(ls, m)]
          /\ Refs(ks)[i].binds[j] = Refs(ks)[IndexOf(ks, m)]
      BY <1>1, <3>1, RefOfMarker
    <3> QED
      BY <2>1, <3>1, <3>2, SameIndex
  <2> QED
    BY <2>1, <2>2
<1>3. ASSUME Canonical(ls[i].content) = Canonical(ks[i].content),
             \A m \in Binds(ls[i]) : Refs(ls)[IndexOf(ls, m)] = Refs(ks)[IndexOf(ls, m)]
      PROVE  Refs(ls)[i] = Refs(ks)[i]
  <2>1. ASSUME NEW j \in DOMAIN ls[i].binds, "at" \in DOMAIN ls[i].binds[j]
        PROVE  Refs(ls)[IndexOf(ls, ls[i].binds[j].at)] = Refs(ks)[IndexOf(ks, ls[i].binds[j].at)]
    <3>1. ls[i].binds[j].at \in Binds(ls[i])
      BY <1>1, <2>1, MarkerBinds
    <3> QED
      BY <1>3, <3>1, SameIndex
  <2>2. Hashed(ls, Refs(ls), i) = Hashed(ks, Refs(ks), i)
    BY <1>1, <1>3, <2>1 DEF Hashed
  <2> QED
    BY <1>1, <2>2, RefsHash
<1> QED
  BY <1>2, <1>3

\* The same content, the same reference, whatever comes behind.
SameContent(ls, ks, n) == \A i \in 1 .. n : ls[i].content = ks[i].content

LEMMA SameContentSameRef ==
    ASSUME NEW ls, Typed(ls), Ordered(ls), NEW ks, Typed(ks), Ordered(ks),
           NEW n \in Nat, Alike(ls, ks, n), SameContent(ls, ks, n)
    PROVE  \A i \in 1 .. n : Refs(ls)[i] = Refs(ks)[i]
<1> DEFINE Bad == {i \in 1 .. n : Refs(ls)[i] # Refs(ks)[i]}
<1> SUFFICES ASSUME Bad # {} PROVE FALSE
  OBVIOUS
<1>1. PICK i \in Bad : \A k \in Bad : i <= k
  <2>1. Bad \subseteq Nat
    OBVIOUS
  <2> HIDE DEF Bad
  <2> QED
    BY <2>1, LeastNat
<1>2. i \in 1 .. n /\ \A k \in 1 .. i - 1 : k \in 1 .. n /\ k \notin Bad
  <2>1. i \in 1 .. n
    OBVIOUS
  <2>2. \A k \in 1 .. i - 1 : k \in 1 .. n /\ ~(i <= k)
    BY <2>1
  <2> HIDE DEF Bad
  <2> QED
    BY <1>1, <2>1, <2>2
<1>3. \A m \in Binds(ls[i]) : Refs(ls)[IndexOf(ls, m)] = Refs(ks)[IndexOf(ls, m)]
  <2>1. \A m \in Binds(ls[i]) : IndexOf(ls, m) \in 1 .. i - 1
    BY <1>2, SameIndex
  <2> QED
    BY <1>2, <2>1
<1>4. Refs(ls)[i] = Refs(ks)[i]
  BY <1>2, <1>3, AlikeStep DEF SameContent
<1> QED
  BY <1>4

\* The links whose references differ are those that reach a difference.
LEMMA DivergesAt ==
    ASSUME NEW ls, Typed(ls), Ordered(ls), NEW ks, Typed(ks), Ordered(ks),
           Alike(ls, ks, Len(ls))
    PROVE  \A i \in 1 .. Len(ls) :
            Refs(ls)[i] = Refs(ks)[i] <=> Reach(ls, i) \cap Differ(ls, ks) = {}
<1> DEFINE Right(i) == Refs(ls)[i] = Refs(ks)[i] <=> Reach(ls, i) \cap Differ(ls, ks) = {}
           Bad == {i \in 1 .. Len(ls) : ~Right(i)}
<1> SUFFICES ASSUME Bad # {} PROVE FALSE
  OBVIOUS
<1>L. Len(ls) \in Nat
  BY TypedLinks
<1>1. PICK i \in Bad : \A k \in Bad : i <= k
  <2>1. Bad \subseteq Nat
    OBVIOUS
  <2> HIDE DEF Bad
  <2> QED
    BY <2>1, LeastNat
<1>2. i \in 1 .. Len(ls) /\ ~Right(i)
  OBVIOUS
<1>3. \A k \in 1 .. i - 1 : Right(k)
  <2>1. \A k \in 1 .. i - 1 : k \in 1 .. Len(ls) /\ ~(i <= k)
    BY <1>L, <1>2
  <2>2. \A k \in 1 .. i - 1 : k \notin Bad
    <3> HIDE DEF Bad
    <3> QED
      BY <1>1, <2>1
  <2> HIDE DEF Right
  <2> QED
    BY <2>1, <2>2
<1>4. \A m \in Binds(ls[i]) : Right(IndexOf(ls, m))
  <2>1. \A m \in Binds(ls[i]) : IndexOf(ls, m) \in 1 .. i - 1
    BY <1>2, MarkerEarlier
  <2> HIDE DEF Right
  <2> QED
    BY <1>3, <2>1
<1>5. Refs(ls)[i] = Refs(ks)[i]
        <=> /\ i \notin Differ(ls, ks)
            /\ \A m \in Binds(ls[i]) : Refs(ls)[IndexOf(ls, m)] = Refs(ks)[IndexOf(ls, m)]
  BY <1>L, <1>2, AlikeStep DEF Differ
<1>6. Reach(ls, i) \cap Differ(ls, ks) = {}
        <=> /\ i \notin Differ(ls, ks)
            /\ \A m \in Binds(ls[i]) : Reach(ls, IndexOf(ls, m)) \cap Differ(ls, ks) = {}
  <2>1. Reach(ls, i) = {i} \cup UNION {Reach(ls, IndexOf(ls, m)) : m \in Binds(ls[i])}
    BY <1>2, ReachUnfolds
  <2> QED
    BY <2>1
<1> QED
  BY <1>2, <1>4, <1>5, <1>6

-----------------------------------------------------------------------------
(* What a reference commits to *)

\* The references of the links that the i-th reaches.
RefsReached(ls, i) == {Refs(ls)[x] : x \in Reach(ls, i)}

\* A link that spells no ref out.
OnlyMarkers(link) == \A j \in DOMAIN link.binds : "at" \in DOMAIN link.binds[j]

\* Of two links with one reference, the second names a link wherever the first
\* does, if it spells no ref out, and one of the same reference.
LEMMA NamesTheSame ==
    ASSUME NEW ls, Typed(ls), Ordered(ls), NEW i \in 1 .. Len(ls),
           NEW ks, Typed(ks), Ordered(ks), NEW k \in 1 .. Len(ks),
           Refs(ls)[i] = Refs(ks)[k], OnlyMarkers(ks[k]), NEW m \in Binds(ls[i])
    PROVE  \E h \in Binds(ks[k]) : Refs(ls)[IndexOf(ls, m)] = Refs(ks)[IndexOf(ks, h)]
<1>1. PICK j \in DOMAIN ls[i].binds : ls[i].binds[j] = Marker(m)
  BY DEF Binds
<1>2. /\ j \in DOMAIN ks[k].binds
      /\ Refs(ls)[i].binds[j] = Refs(ks)[k].binds[j]
  <2>1. DOMAIN ls[i].binds = DOMAIN ks[k].binds
    BY SameRef
  <2>2. \A x \in DOMAIN ls[i].binds : Refs(ls)[i].binds[x] = Refs(ks)[k].binds[x]
    BY SameRef
  <2> QED
    BY <2>1, <2>2, Zenon
<1>3. "at" \in DOMAIN ks[k].binds[j]
  BY <1>2 DEF OnlyMarkers
<1>4. PICK h \in Binds(ks[k]) : ks[k].binds[j] = Marker(h)
  BY <1>2, <1>3, MarkerBinds, ZenonT(60)
<1>5. Refs(ls)[i].binds[j] = Refs(ls)[IndexOf(ls, m)]
  BY <1>1, RefOfMarker, Zenon
<1>6. Refs(ks)[k].binds[j] = Refs(ks)[IndexOf(ks, h)]
  BY <1>2, <1>4, RefOfMarker, Zenon
<1> QED
  BY <1>2, <1>5, <1>6, Zenon

\* What the links reach that a link names, it reaches.
LEMMA ReachesBeyond ==
    ASSUME NEW ls, Typed(ls), Ordered(ls), NEW i \in 1 .. Len(ls)
    PROVE  /\ Refs(ls)[i] \in RefsReached(ls, i)
           /\ \A m \in Binds(ls[i]) :
                /\ Reach(ls, IndexOf(ls, m)) \subseteq Reach(ls, i)
                /\ RefsReached(ls, IndexOf(ls, m)) \subseteq RefsReached(ls, i)
           /\ \A r \in RefsReached(ls, i) :
                \/ r = Refs(ls)[i]
                \/ \E m \in Binds(ls[i]) : r \in RefsReached(ls, IndexOf(ls, m))
<1>1. Reach(ls, i) = {i} \cup UNION {Reach(ls, IndexOf(ls, n)) : n \in Binds(ls[i])}
  BY ReachUnfolds, Zenon
<1>2. \A m \in Binds(ls[i]) : Reach(ls, IndexOf(ls, m)) \subseteq Reach(ls, i)
  BY <1>1
<1>3. \A x \in Reach(ls, i) : x = i \/ \E m \in Binds(ls[i]) : x \in Reach(ls, IndexOf(ls, m))
  BY <1>1
<1>4. i \in Reach(ls, i)
  BY <1>1
<1> QED
  BY <1>2, <1>3, <1>4, Zenon DEF RefsReached

\* The first of two links with one reference reaches what the second reaches,
\* by reference, or less where a ref was spelled out.
LEMMA Commits ==
    ASSUME NEW ls, Typed(ls), Ordered(ls), NEW ks, Typed(ks), Ordered(ks),
           \A k \in 1 .. Len(ks) : OnlyMarkers(ks[k])
    PROVE  \A i \in 1 .. Len(ls) : \A k \in 1 .. Len(ks) :
            Refs(ls)[i] = Refs(ks)[k] =>
                /\ RefsReached(ls, i) \subseteq RefsReached(ks, k)
                /\ (\A x \in Reach(ls, i) : OnlyMarkers(ls[x]))
                    => RefsReached(ls, i) = RefsReached(ks, k)
<1> DEFINE Right(i, k) ==
             Refs(ls)[i] = Refs(ks)[k] =>
                /\ RefsReached(ls, i) \subseteq RefsReached(ks, k)
                /\ (\A x \in Reach(ls, i) : OnlyMarkers(ls[x]))
                    => RefsReached(ls, i) = RefsReached(ks, k)
           Bad == {i \in 1 .. Len(ls) : \E k \in 1 .. Len(ks) : ~Right(i, k)}
<1> SUFFICES ASSUME Bad # {} PROVE FALSE
  OBVIOUS
<1>L. Len(ls) \in Nat
  BY TypedLinks, Zenon
<1>1. PICK i \in Bad : \A k \in Bad : i <= k
  <2>1. Bad \subseteq Nat
    OBVIOUS
  <2> HIDE DEF Bad
  <2> QED
    BY <2>1, LeastNat, Zenon
<1>2. i \in 1 .. Len(ls)
  OBVIOUS
<1>3. PICK k \in 1 .. Len(ks) : ~Right(i, k)
  OBVIOUS
<1>4. \A x \in 1 .. i - 1 : \A y \in 1 .. Len(ks) : Right(x, y)
  <2>1. \A x \in 1 .. i - 1 : x \in 1 .. Len(ls) /\ ~(i <= x)
    BY <1>2, <1>L
  <2>2. \A x \in 1 .. i - 1 : x \notin Bad
    <3> HIDE DEF Bad
    <3> QED
      BY <2>1, <1>1
  <2> QED
    BY <2>1, <2>2
<1> HIDE DEF Bad
<1>5. Refs(ls)[i] = Refs(ks)[k]
  BY <1>3
<1>6. \A m \in Binds(ls[i]) : \A y \in 1 .. Len(ks) : Right(IndexOf(ls, m), y)
  <2>1. \A m \in Binds(ls[i]) : IndexOf(ls, m) \in 1 .. i - 1
    BY <1>2, MarkerEarlier, Zenon
  <2> HIDE DEF Right
  <2> QED
    BY <1>4, <2>1, Zenon
<1>7. \A h \in Binds(ks[k]) : IndexOf(ks, h) \in 1 .. Len(ks)
  BY MarkerEarlier, Zenon
<1>8. RefsReached(ls, i) \subseteq RefsReached(ks, k)
  <2> SUFFICES ASSUME NEW r \in RefsReached(ls, i)
               PROVE  r \in RefsReached(ks, k)
    OBVIOUS
  <2>0. OnlyMarkers(ks[k])
    OBVIOUS
  <2>1. CASE r = Refs(ls)[i]
    BY <2>1, <1>5, ReachesBeyond, Zenon
  <2>2. ASSUME NEW m \in Binds(ls[i]), r \in RefsReached(ls, IndexOf(ls, m))
        PROVE  r \in RefsReached(ks, k)
    <3>1. PICK h \in Binds(ks[k]) : Refs(ls)[IndexOf(ls, m)] = Refs(ks)[IndexOf(ks, h)]
      <4>1. /\ Typed(ls) /\ Ordered(ls) /\ m \in Binds(ls[i])
            /\ Typed(ks) /\ Ordered(ks) /\ k \in 1 .. Len(ks)
        OBVIOUS
      <4> QED
        BY <1>2, <1>5, <2>0, <4>1, NamesTheSame, SMTT(60)
    <3>2. RefsReached(ls, IndexOf(ls, m)) \subseteq RefsReached(ks, IndexOf(ks, h))
      BY <1>6, <1>7, <3>1, Zenon
    <3>3. RefsReached(ks, IndexOf(ks, h)) \subseteq RefsReached(ks, k)
      BY ReachesBeyond, Zenon
    <3> QED
      BY <2>2, <3>2, <3>3
  <2> QED
    BY <1>2, <2>1, <2>2, ReachesBeyond, Zenon
<1>9. ASSUME \A x \in Reach(ls, i) : OnlyMarkers(ls[x])
      PROVE  RefsReached(ks, k) \subseteq RefsReached(ls, i)
  <2> SUFFICES ASSUME NEW r \in RefsReached(ks, k)
               PROVE  r \in RefsReached(ls, i)
    OBVIOUS
  <2>1. CASE r = Refs(ks)[k]
    BY <2>1, <1>2, <1>5, ReachesBeyond, Zenon
  <2>2. ASSUME NEW h \in Binds(ks[k]), r \in RefsReached(ks, IndexOf(ks, h))
        PROVE  r \in RefsReached(ls, i)
    <3>0. OnlyMarkers(ls[i])
      BY <1>2, <1>9, ReachInside, Zenon
    <3>1. PICK m \in Binds(ls[i]) : Refs(ks)[IndexOf(ks, h)] = Refs(ls)[IndexOf(ls, m)]
      <4>1. Refs(ks)[k] = Refs(ls)[i]
        BY <1>5
      <4>2. k \in 1 .. Len(ks) /\ Typed(ks) /\ Ordered(ks) /\ h \in Binds(ks[k])
        OBVIOUS
      <4>3. Typed(ls) /\ Ordered(ls)
        OBVIOUS
      <4> QED
        BY <1>2, <3>0, <4>1, <4>2, <4>3, NamesTheSame, SMTT(60)
    <3>2. Reach(ls, IndexOf(ls, m)) \subseteq Reach(ls, i)
      BY <1>2, ReachesBeyond, Zenon
    <3>3. \A x \in Reach(ls, IndexOf(ls, m)) : OnlyMarkers(ls[x])
      BY <3>2, <1>9
    <3>4. RefsReached(ls, IndexOf(ls, m)) = RefsReached(ks, IndexOf(ks, h))
      BY <1>6, <1>7, <3>1, <3>3, Zenon
    <3>5. RefsReached(ls, IndexOf(ls, m)) \subseteq RefsReached(ls, i)
      BY <1>2, ReachesBeyond, Zenon
    <3> QED
      BY <2>2, <3>4, <3>5
  <2> QED
    BY <2>1, <2>2, ReachesBeyond, Zenon
<1>10. Right(i, k)
  BY <1>8, <1>9
<1> QED
  BY <1>3, <1>10

-----------------------------------------------------------------------------
(* The invariant *)

\* One link replaced.
LEMMA Replaced ==
    ASSUME NEW ls, Typed(ls), NEW i \in 1 .. Len(ls), NEW x, IsLink(x)
    PROVE  /\ Typed([ls EXCEPT ![i] = x])
           /\ Len([ls EXCEPT ![i] = x]) = Len(ls)
           /\ \A k \in 1 .. Len(ls) : [ls EXCEPT ![i] = x][k] = IF k = i THEN x ELSE ls[k]
<1>1. PICK S : ls \in Seq(S) /\ x \in S /\ \A y \in S : IsLink(y)
  BY TypedWith, Zenon
<1>2. [ls EXCEPT ![i] = x] \in Seq(S)
  BY <1>1
<1>3. /\ Len([ls EXCEPT ![i] = x]) = Len(ls)
      /\ \A k \in 1 .. Len(ls) : [ls EXCEPT ![i] = x][k] = IF k = i THEN x ELSE ls[k]
  BY <1>1
<1> QED
  BY <1>1, <1>2, <1>3, Zenon DEF Typed

\* A link, its parts replaced.
LEMMA LinkParts ==
    ASSUME NEW x, IsLink(x)
    PROVE  /\ \A c : IsContent(c) =>
                /\ IsLink([x EXCEPT !.content = c])
                /\ [x EXCEPT !.content = c].name = x.name
                /\ [x EXCEPT !.content = c].binds = x.binds
                /\ [x EXCEPT !.content = c].ref = x.ref
           /\ \A n \in Name : IsLink([x EXCEPT !.name = n])
           /\ \A r : /\ IsLink([x EXCEPT !.ref = r])
                     /\ [x EXCEPT !.ref = r].name = x.name
                     /\ [x EXCEPT !.ref = r].content = x.content
                     /\ [x EXCEPT !.ref = r].binds = x.binds
                     /\ [x EXCEPT !.ref = r].ref = r
           /\ \A j \in DOMAIN x.binds : \A v : IsBind(v) => IsLink([x EXCEPT !.binds[j] = v])
<1>1. PICK n, c, b, r : x = [name |-> n, content |-> c, binds |-> b, ref |-> r]
  BY DEF IsLink
<1>2. n \in Name /\ IsContent(c) /\ \A j \in DOMAIN b : IsBind(b[j])
  BY <1>1 DEF IsLink
<1>3. ASSUME NEW d, IsContent(d)
      PROVE  /\ IsLink([x EXCEPT !.content = d])
             /\ [x EXCEPT !.content = d].name = x.name
             /\ [x EXCEPT !.content = d].binds = x.binds
             /\ [x EXCEPT !.content = d].ref = x.ref
  <2>1. [x EXCEPT !.content = d] = [name |-> n, content |-> d, binds |-> b, ref |-> r]
    BY <1>1
  <2> QED
    BY <1>1, <1>2, <1>3, <2>1 DEF IsLink
<1>4. ASSUME NEW m \in Name
      PROVE  IsLink([x EXCEPT !.name = m])
  <2>1. [x EXCEPT !.name = m] = [name |-> m, content |-> c, binds |-> b, ref |-> r]
    BY <1>1
  <2> QED
    BY <1>2, <2>1 DEF IsLink
<1>5. ASSUME NEW s
      PROVE  /\ IsLink([x EXCEPT !.ref = s])
             /\ [x EXCEPT !.ref = s].name = x.name
             /\ [x EXCEPT !.ref = s].content = x.content
             /\ [x EXCEPT !.ref = s].binds = x.binds
             /\ [x EXCEPT !.ref = s].ref = s
  <2>1. [x EXCEPT !.ref = s] = [name |-> n, content |-> c, binds |-> b, ref |-> s]
    BY <1>1
  <2> QED
    BY <1>1, <1>2, <2>1 DEF IsLink
<1>6. ASSUME NEW j \in DOMAIN x.binds, NEW v, IsBind(v)
      PROVE  IsLink([x EXCEPT !.binds[j] = v])
  <2>1. [x EXCEPT !.binds[j] = v]
            = [name |-> n, content |-> c, binds |-> [b EXCEPT ![j] = v], ref |-> r]
    BY <1>1
  <2>2. \A k \in DOMAIN [b EXCEPT ![j] = v] : IsBind([b EXCEPT ![j] = v][k])
    BY <1>2, <1>6
  <2> QED
    BY <1>2, <2>1, <2>2 DEF IsLink
<1> QED
  BY <1>3, <1>4, <1>5, <1>6

\* A content stays one when a number is written the other way.
LEMMA RewrittenContent ==
    ASSUME NEW c, IsContent(c), NEW f
    PROVE  IsContent(Rewritten(c, f))
<1>1. PICK d : d = Rewritten(c, f)
  OBVIOUS
<1>2. DOMAIN d = DOMAIN c \cup {"floats"} /\ \A x \in DOMAIN c : x # "floats" => d[x] = c[x]
  BY <1>1 DEF Rewritten
<1>3. "floats" \notin Numbers
  BY DEF Numbers
<1>4. \A x \in Numbers \cap DOMAIN d : d[x] \in Int
  BY <1>2, <1>3 DEF IsContent
<1>5. "scope" \in DOMAIN d => "scope" \in DOMAIN c /\ d["scope"] = c["scope"]
  BY <1>2
<1>6. "scope" \in DOMAIN d => IsScope(d["scope"])
  BY <1>5 DEF IsContent
<1> QED
  BY <1>1, <1>4, <1>6 DEF IsContent

\* A link more.
LEMMA Extended ==
    ASSUME NEW ss, Typed(ss), Ordered(ss), NEW x, IsLink(x),
           x.name \notin Named(ss), Binds(x) \subseteq Named(ss)
    PROVE  /\ Typed(Append(ss, x)) /\ Ordered(Append(ss, x))
           /\ Len(Append(ss, x)) = Len(ss) + 1
           /\ \A i \in 1 .. Len(ss) : Append(ss, x)[i] = ss[i]
           /\ Append(ss, x)[Len(ss) + 1] = x
<1>1. PICK S : ss \in Seq(S) /\ x \in S /\ \A y \in S : IsLink(y)
  BY TypedWith, Zenon
<1>2. PICK ls : ls = Append(ss, x)
  OBVIOUS
<1>3. /\ ls \in Seq(S)
      /\ Len(ls) = Len(ss) + 1 /\ Len(ss) \in Nat
      /\ DOMAIN ls = 1 .. Len(ss) + 1 /\ DOMAIN ss = 1 .. Len(ss)
      /\ \A i \in 1 .. Len(ss) : ls[i] = ss[i]
      /\ ls[Len(ss) + 1] = x
  BY <1>1, <1>2
<1>4. Typed(ls)
  BY <1>1, <1>3, Zenon DEF Typed
<1>5. \A i, j \in DOMAIN ls : ls[i].name = ls[j].name => i = j
  <2>1. \A i \in 1 .. Len(ss) : ss[i].name # x.name
    BY <1>3 DEF Named
  <2>2. \A i, j \in 1 .. Len(ss) : ss[i].name = ss[j].name => i = j
    BY <1>3 DEF Ordered
  <2>3. \A i \in DOMAIN ls : i \in 1 .. Len(ss) \/ i = Len(ss) + 1
    BY <1>3
  <2> QED
    BY <1>3, <2>1, <2>2, <2>3
<1>6. ASSUME NEW i \in DOMAIN ls
      PROVE  Binds(ls[i]) \subseteq {ls[j].name : j \in 1 .. i - 1}
  <2>1. CASE i \in 1 .. Len(ss)
    <3>1. Binds(ss[i]) \subseteq {ss[j].name : j \in 1 .. i - 1}
      BY <1>3, <2>1 DEF Ordered
    <3>2. \A j \in 1 .. i - 1 : j \in 1 .. Len(ss)
      BY <1>3, <2>1
    <3>3. \A j \in 1 .. i - 1 : ls[j].name = ss[j].name
      BY <1>3, <3>2
    <3> QED
      BY <1>3, <2>1, <3>1, <3>3
  <2>2. CASE i = Len(ss) + 1
    <3>1. i - 1 = Len(ss)
      BY <1>3, <2>2
    <3>2. Named(ss) = {ls[j].name : j \in 1 .. i - 1}
      BY <1>3, <3>1 DEF Named
    <3> QED
      BY <1>3, <2>2, <3>2
  <2> QED
    BY <1>3, <2>1, <2>2
<1>7. Ordered(ls)
  BY <1>5, <1>6, Zenon DEF Ordered
<1> QED
  BY <1>2, <1>3, <1>4, <1>7

\* One ref declared anew.
Redeclares(ks, ls, i, r) == ks = [ls EXCEPT ![i].ref = r]

LEMMA Redeclared ==
    ASSUME NEW ls, Typed(ls), Ordered(ls), NEW i \in 1 .. Len(ls), NEW r,
           NEW ks, Redeclares(ks, ls, i, r)
    PROVE  /\ Typed(ks) /\ Ordered(ks) /\ Len(ks) = Len(ls)
           /\ \A k \in 1 .. Len(ls) : k # i => ks[k] = ls[k]
           /\ ks[i].ref = r
           /\ \A k \in 1 .. Len(ls) : /\ ks[k].name = ls[k].name
                                      /\ ks[k].content = ls[k].content
                                      /\ ks[k].binds = ls[k].binds
           /\ \A k \in 1 .. Len(ls) : Refs(ks)[k] = Refs(ls)[k]
<1>1. Len(ls) \in Nat /\ DOMAIN ls = 1 .. Len(ls) /\ IsLink(ls[i])
  BY TypedLinks, Zenon
<1>2. PICK x : x = [ls[i] EXCEPT !.ref = r]
  OBVIOUS
<1>3. /\ IsLink(x) /\ x.name = ls[i].name /\ x.content = ls[i].content
      /\ x.binds = ls[i].binds /\ x.ref = r
  <2>1. PICK y : y = ls[i]
    OBVIOUS
  <2>2. IsLink(y) /\ x = [y EXCEPT !.ref = r]
    BY <1>1, <1>2, <2>1
  <2>3. /\ IsLink([y EXCEPT !.ref = r])
        /\ [y EXCEPT !.ref = r].name = y.name
        /\ [y EXCEPT !.ref = r].content = y.content
        /\ [y EXCEPT !.ref = r].binds = y.binds
        /\ [y EXCEPT !.ref = r].ref = r
    BY <2>2, LinkParts, ZenonT(60)
  <2> QED
    BY <2>1, <2>2, <2>3, Zenon
<1>4. ks = [ls EXCEPT ![i] = x]
  BY <1>2 DEF Redeclares
<1>5. /\ Typed(ks) /\ Len(ks) = Len(ls)
      /\ \A k \in 1 .. Len(ls) : ks[k] = IF k = i THEN x ELSE ls[k]
  <2>1. /\ Typed([ls EXCEPT ![i] = x])
        /\ Len([ls EXCEPT ![i] = x]) = Len(ls)
        /\ \A k \in 1 .. Len(ls) : [ls EXCEPT ![i] = x][k] = IF k = i THEN x ELSE ls[k]
    BY <1>3, Replaced, ZenonT(60)
  <2> QED
    BY <1>4, <2>1, Zenon
<1>6. \A k \in 1 .. Len(ls) : /\ ks[k].name = ls[k].name
                              /\ ks[k].content = ls[k].content
                              /\ ks[k].binds = ls[k].binds
  BY <1>3, <1>5
<1>7. DOMAIN ks = 1 .. Len(ls)
  BY <1>5, TypedLinks
<1>8. \A k, j \in DOMAIN ks : ks[k].name = ks[j].name => k = j
  BY <1>1, <1>6, <1>7 DEF Ordered
<1>9. ASSUME NEW k \in DOMAIN ks
      PROVE  Binds(ks[k]) \subseteq {ks[j].name : j \in 1 .. k - 1}
  <2>1. k \in 1 .. Len(ls) /\ \A j \in 1 .. k - 1 : j \in 1 .. Len(ls)
    BY <1>1, <1>7
  <2>2. {ks[j].name : j \in 1 .. k - 1} = {ls[j].name : j \in 1 .. k - 1}
    BY <1>6, <2>1
  <2>3. Binds(ks[k]) = Binds(ls[k])
    BY <1>6, <2>1 DEF Binds
  <2> QED
    BY <1>1, <2>1, <2>2, <2>3 DEF Ordered
<1>10. Ordered(ks)
  BY <1>8, <1>9, Zenon DEF Ordered
<1>11. Alike(ls, ks, Len(ls)) /\ SameContent(ls, ks, Len(ls))
  BY <1>1, <1>5, <1>6 DEF Alike, SameContent
<1>12. \A k \in 1 .. Len(ls) : Refs(ls)[k] = Refs(ks)[k]
  BY <1>1, <1>5, <1>10, <1>11, SameContentSameRef
<1> QED
  BY <1>3, <1>5, <1>6, <1>10, <1>12

\* A chain as an author leaves it: every link declares the reference it
\* recomputes to, and spells none out.
Authored(ss) ==
    /\ Typed(ss) /\ Ordered(ss)
    /\ \A i \in 1 .. Len(ss) : OnlyMarkers(ss[i]) /\ ss[i].ref = Given(Refs(ss)[i])

ChainInv == Authored(signed) /\ Typed(links)

\* What Compose makes of such a chain.
LEMMA Composed ==
    ASSUME NEW ss, Authored(ss), NEW x, IsLink(x), OnlyMarkers(x),
           NEW ls, Typed(ls), Ordered(ls), Len(ls) = Len(ss) + 1,
           \A i \in 1 .. Len(ss) : ls[i] = ss[i],
           ls[Len(ls)] = x,
           NEW ks, Typed(ks), Ordered(ks), Len(ks) = Len(ls),
           \A k \in 1 .. Len(ls) : k # Len(ls) => ks[k] = ls[k],
           ks[Len(ls)].binds = x.binds,
           \A k \in 1 .. Len(ls) : Refs(ks)[k] = Refs(ls)[k],
           ks[Len(ls)].ref = Given(Refs(ls)[Len(ls)])
    PROVE  Authored(ks)
<1>1. /\ Typed(ss) /\ Ordered(ss)
      /\ \A i \in 1 .. Len(ss) : OnlyMarkers(ss[i]) /\ ss[i].ref = Given(Refs(ss)[i])
  BY DEF Authored
<1>2. Len(ss) \in Nat
  BY <1>1, TypedLinks
<1>3. Alike(ss, ls, Len(ss)) /\ SameContent(ss, ls, Len(ss))
  BY <1>2 DEF Alike, SameContent
<1>4. \A k \in 1 .. Len(ss) : Refs(ss)[k] = Refs(ls)[k]
  BY <1>1, <1>2, <1>3, SameContentSameRef
<1>5. ASSUME NEW k \in 1 .. Len(ls)
      PROVE  OnlyMarkers(ks[k]) /\ ks[k].ref = Given(Refs(ks)[k])
  <2>1. CASE k = Len(ls)
    <3>1. ks[k].binds = x.binds
      BY <2>1
    <3>2. OnlyMarkers(ks[k])
      BY <3>1, Zenon DEF OnlyMarkers
    <3> QED
      BY <2>1, <3>2
  <2>2. CASE k \in 1 .. Len(ss)
    <3>1. k # Len(ls)
      BY <1>2, <2>2
    <3>2. ks[k] = ss[k]
      BY <2>2, <3>1
    <3>3. Refs(ks)[k] = Refs(ss)[k]
      BY <1>4, <2>2
    <3> QED
      BY <1>1, <2>2, <3>2, <3>3
  <2> QED
    BY <1>2, <2>1, <2>2
<1> QED
  BY <1>5 DEF Authored

LEMMA ChainInvInit == Init => ChainInv
<1> SUFFICES ASSUME Init PROVE ChainInv
  OBVIOUS
<1>1. PICK e : e = << >>
  OBVIOUS
<1>2. e \in Seq({}) /\ Len(e) = 0 /\ DOMAIN e = {}
  BY <1>1
<1>3. Typed(e)
  BY <1>2 DEF Typed
<1>4. Ordered(e)
  BY <1>2 DEF Ordered
<1>5. Authored(e)
  BY <1>2, <1>3, <1>4 DEF Authored
<1>6. signed = e /\ links = e
  BY <1>1 DEF Init
<1> QED
  BY <1>3, <1>5, <1>6, Zenon DEF ChainInv

\* What a new link binds: links that are there.
LEMMA BindsThere ==
    ASSUME ChainInv, NEW binds \in BindLists, NEW x, x.binds = binds
    PROVE  /\ \A j \in DOMAIN binds : IsBind(binds[j])
           /\ OnlyMarkers(x)
           /\ Binds(x) \subseteq Named(signed)
<1>1. \A n \in Named(signed) : n \in Name
  <2>1. PICK ss : ss = signed
    OBVIOUS
  <2>2. Typed(ss)
    BY <2>1 DEF ChainInv, Authored
  <2>3. DOMAIN ss = 1 .. Len(ss) /\ \A i \in 1 .. Len(ss) : IsLink(ss[i])
    BY <2>2, TypedLinks, Zenon
  <2> QED
    BY <2>1, <2>3 DEF Named, IsLink
<1>2. \A j \in DOMAIN binds : \E n \in Named(signed) : binds[j] = Marker(n)
  BY DEF BindLists, Markers
<1>3. \A j \in DOMAIN binds : IsBind(binds[j])
  BY <1>1, <1>2, Zenon DEF IsBind
<1>4. \A j \in DOMAIN binds : "at" \in DOMAIN binds[j] /\ binds[j].at \in Named(signed)
  BY <1>2, BindKinds
<1>5. \A n : (\E j \in DOMAIN binds : binds[j] = Marker(n)) => n \in Named(signed)
  BY <1>4, BindKinds
<1> QED
  BY <1>3, <1>4, <1>5 DEF OnlyMarkers, Binds

LEMMA ComposeKeeps ==
    ASSUME ChainInv, NEW n \in Name, NEW c \in Content, NEW binds \in BindLists,
           Compose(n, c, binds)
    PROVE  ChainInv'
<1>1. PICK ss : ss = signed
  OBVIOUS
<1>2. PICK x : x = [name |-> n, content |-> c, binds |-> binds, ref |-> None]
  OBVIOUS
<1>3. x.name = n /\ x.content = c /\ x.binds = binds
  BY <1>2
<1>4. /\ \A j \in DOMAIN binds : IsBind(binds[j])
      /\ OnlyMarkers(x)
      /\ Binds(x) \subseteq Named(signed)
  BY <1>3, BindsThere, Zenon
<1>5. IsLink(x)
  <2>1. x = [name |-> x.name, content |-> x.content, binds |-> x.binds, ref |-> x.ref]
    BY <1>2
  <2>2. IsContent(c)
    BY ChainAssumption
  <2> QED
    BY <1>3, <1>4, <2>1, <2>2, Zenon DEF IsLink
<1>6. PICK ls : ls = Append(ss, x)
  OBVIOUS
<1>7. PICK ks : ks = [ls EXCEPT ![Len(ls)].ref = Given(Refs(ls)[Len(ls)])]
  OBVIOUS
<1>8. /\ n \notin Named(ss)
      /\ signed' = ks /\ links' = ks
  BY <1>1, <1>2, <1>6, <1>7 DEF Compose
<1>9. Authored(ss) /\ Typed(ss) /\ Ordered(ss)
  BY <1>1 DEF ChainInv, Authored
<1>10. /\ Typed(ls) /\ Ordered(ls)
       /\ Len(ls) = Len(ss) + 1
       /\ \A i \in 1 .. Len(ss) : ls[i] = ss[i]
       /\ ls[Len(ss) + 1] = x
  BY <1>1, <1>3, <1>4, <1>5, <1>6, <1>8, <1>9, Extended
<1>11. PICK r : r = Given(Refs(ls)[Len(ls)])
  OBVIOUS
<1>12. Len(ls) \in 1 .. Len(ls) /\ ls[Len(ls)] = x
  <2>1. Len(ss) \in Nat
    BY <1>9, TypedLinks, Zenon
  <2> QED
    BY <1>10, <2>1
<1>13. Redeclares(ks, ls, Len(ls), r)
  BY <1>7, <1>11 DEF Redeclares
<1>14. /\ Typed(ks) /\ Ordered(ks) /\ Len(ks) = Len(ls)
       /\ \A k \in 1 .. Len(ls) : k # Len(ls) => ks[k] = ls[k]
       /\ ks[Len(ls)].ref = r
       /\ ks[Len(ls)].binds = ls[Len(ls)].binds
       /\ \A k \in 1 .. Len(ls) : Refs(ks)[k] = Refs(ls)[k]
  BY <1>10, <1>12, <1>13, Redeclared
<1>15. Authored(ks)
  BY <1>4, <1>5, <1>9, <1>10, <1>11, <1>12, <1>14, Composed
<1> QED
  BY <1>8, <1>14, <1>15, Zenon DEF ChainInv

LEMMA EditKeeps ==
    ASSUME ChainInv, NEW ls, Typed(ls), Edit(ls)
    PROVE  ChainInv'
<1>1. PICK ss : ss = signed
  OBVIOUS
<1>2. Authored(ss)
  BY <1>1 DEF ChainInv
<1>3. signed' = ss /\ links' = ls
  BY <1>1 DEF Edit
<1> QED
  BY <1>2, <1>3, Zenon DEF ChainInv

LEMMA RemovedLink ==
    ASSUME NEW ls, Typed(ls), NEW i \in 1 .. Len(ls)
    PROVE  Typed(SubSeq(ls, 1, i - 1) \o SubSeq(ls, i + 1, Len(ls)))
<1>1. PICK S : ls \in Seq(S) /\ \A y \in S : IsLink(y)
  BY Zenon DEF Typed
<1>2. Len(ls) \in Nat
  BY <1>1
<1>3. SubSeq(ls, 1, i - 1) \in Seq(S)
  <2>1. \A k \in 1 .. i - 1 : ls[k] \in S
    BY <1>1, <1>2
  <2>2. i - 1 \in Int /\ 1 \in Int
    BY <1>2
  <2> QED
    BY <1>1, <1>2, <2>1, <2>2, SubSeqProperties
<1>4. SubSeq(ls, i + 1, Len(ls)) \in Seq(S)
  <2>1. \A k \in i + 1 .. Len(ls) : ls[k] \in S
    BY <1>1, <1>2
  <2>2. i + 1 \in Int /\ Len(ls) \in Int
    BY <1>2
  <2> QED
    BY <1>1, <1>2, <2>1, <2>2, SubSeqProperties
<1>5. SubSeq(ls, 1, i - 1) \o SubSeq(ls, i + 1, Len(ls)) \in Seq(S)
  BY <1>3, <1>4
<1> QED
  BY <1>1, <1>5, Zenon DEF Typed

LEMMA CustodianKeeps == ChainInv /\ CustodianStep => ChainInv'
<1> SUFFICES ASSUME ChainInv, CustodianStep PROVE ChainInv'
  OBVIOUS
<1>t. PICK ls : ls = links
  OBVIOUS
<1>s. PICK ss : ss = signed
  OBVIOUS
<1>1. /\ Typed(ls) /\ Len(ls) \in Nat /\ DOMAIN ls = 1 .. Len(ls)
      /\ \A i \in 1 .. Len(ls) : IsLink(ls[i])
  BY <1>t, TypedLinks, Zenon DEF ChainInv
<1>2. /\ DOMAIN ss = 1 .. Len(ss)
      /\ \A i \in 1 .. Len(ss) : IsLink(ss[i])
  BY <1>s, TypedLinks, Zenon DEF ChainInv, Authored
<1>3. ASSUME NEW i \in 1 .. Len(ls), NEW c, IsContent(c), Edit([ls EXCEPT ![i].content = c])
      PROVE  ChainInv'
  <2>1. PICK x : x = ls[i]
    OBVIOUS
  <2>2. IsLink([x EXCEPT !.content = c])
    BY <1>1, <1>3, <2>1, LinkParts
  <2>3. PICK y : y = [x EXCEPT !.content = c]
    OBVIOUS
  <2>4. [ls EXCEPT ![i].content = c] = [ls EXCEPT ![i] = y]
    BY <2>1, <2>3
  <2>5. Typed([ls EXCEPT ![i] = y])
    BY <1>1, <2>2, <2>3, Replaced, Zenon
  <2> QED
    BY <1>3, <2>4, <2>5, EditKeeps, Zenon
<1>4. ASSUME NEW i \in 1 .. Len(ls), NEW f,
             Edit([ls EXCEPT ![i].content = Rewritten(@, f)])
      PROVE  ChainInv'
  <2>1. IsContent(ls[i].content)
    BY <1>1 DEF IsLink
  <2>2. PICK c : c = Rewritten(ls[i].content, f)
    OBVIOUS
  <2>3. IsContent(c)
    BY <2>1, <2>2, RewrittenContent, Zenon
  <2>4. [ls EXCEPT ![i].content = Rewritten(@, f)] = [ls EXCEPT ![i].content = c]
    BY <2>2
  <2> QED
    BY <1>3, <1>4, <2>3, <2>4
<1>5. ASSUME NEW i \in 1 .. Len(ls), NEW j \in DOMAIN ls[i].binds,
             NEW v \in Markers \cup {Literal(Refs(signed)[k]) : k \in DOMAIN signed},
             Edit([ls EXCEPT ![i].binds[j] = v])
      PROVE  ChainInv'
  <2>1. IsBind(v)
    <3>1. CASE \E k \in DOMAIN signed : v = Literal(Refs(signed)[k])
      BY <3>1, Zenon DEF IsBind
    <3>2. CASE v \in Markers
      <4>1. PICK n \in Named(ss) : v = Marker(n)
        BY <1>s, <3>2 DEF Markers
      <4>2. n \in Name
        BY <1>2, <4>1 DEF Named, IsLink
      <4> QED
        BY <4>1, <4>2, Zenon DEF IsBind
    <3> QED
      BY <3>1, <3>2
  <2>2. PICK x : x = ls[i]
    OBVIOUS
  <2>3. IsLink(x) /\ j \in DOMAIN x.binds
    BY <1>1, <2>2
  <2>4. PICK y : y = [x EXCEPT !.binds[j] = v]
    OBVIOUS
  <2>5. IsLink(y)
    BY <2>1, <2>3, <2>4, LinkParts
  <2>6. [ls EXCEPT ![i].binds[j] = v] = [ls EXCEPT ![i] = y]
    BY <2>2, <2>4
  <2>7. Typed([ls EXCEPT ![i] = y])
    BY <1>1, <2>5, Replaced, Zenon
  <2> QED
    BY <1>5, <2>6, <2>7, EditKeeps, Zenon
<1>6. ASSUME NEW i \in 1 .. Len(ls),
             Edit(SubSeq(ls, 1, i - 1) \o SubSeq(ls, i + 1, Len(ls)))
      PROVE  ChainInv'
  BY <1>1, <1>6, RemovedLink, EditKeeps, Zenon
<1>7. ASSUME NEW i \in 1 .. Len(ls), NEW j \in 1 .. i - 1, Edit(Exchanged(ls, i, j))
      PROVE  ChainInv'
  <2>1. j \in 1 .. Len(ls)
    BY <1>1
  <2>2. PICK x, y : x = ls[i] /\ y = ls[j]
    OBVIOUS
  <2>3. IsLink(x) /\ IsLink(y)
    BY <1>1, <2>1, <2>2
  <2>4. PICK ks : ks = [ls EXCEPT ![i] = y]
    OBVIOUS
  <2>5. Typed(ks) /\ Len(ks) = Len(ls)
    BY <1>1, <2>3, <2>4, Replaced, Zenon
  <2>6. Typed([ks EXCEPT ![j] = x])
    BY <2>1, <2>3, <2>5, Replaced, Zenon
  <2>7. Exchanged(ls, i, j) = [ks EXCEPT ![j] = x]
    BY <2>2, <2>4 DEF Exchanged
  <2> QED
    BY <1>7, <2>6, <2>7, EditKeeps, Zenon
<1>8. ASSUME NEW i \in 1 .. Len(ls), NEW j \in 1 .. i - 1,
             Edit([ls EXCEPT ![i].name = ls[j].name, ![j].name = ls[i].name])
      PROVE  ChainInv'
  <2>1. j \in 1 .. Len(ls) /\ i # j
    BY <1>1
  <2>2. PICK x, y : x = ls[i] /\ y = ls[j]
    OBVIOUS
  <2>3. IsLink(x) /\ IsLink(y) /\ x.name \in Name /\ y.name \in Name
    BY <1>1, <2>1, <2>2 DEF IsLink
  <2>4. PICK xn, yn : xn = [x EXCEPT !.name = y.name] /\ yn = [y EXCEPT !.name = x.name]
    OBVIOUS
  <2>5. IsLink(xn) /\ IsLink(yn)
    BY <2>3, <2>4, LinkParts
  <2>6. PICK ks : ks = [ls EXCEPT ![i] = xn]
    OBVIOUS
  <2>7. Typed(ks) /\ Len(ks) = Len(ls)
    BY <1>1, <2>5, <2>6, Replaced, Zenon
  <2>8. Typed([ks EXCEPT ![j] = yn])
    BY <2>1, <2>5, <2>7, Replaced, Zenon
  <2>9. [ls EXCEPT ![i].name = ls[j].name, ![j].name = ls[i].name] = [ks EXCEPT ![j] = yn]
    BY <2>1, <2>2, <2>4, <2>6
  <2> QED
    BY <1>8, <2>8, <2>9, EditKeeps, Zenon
<1>9. ASSUME NEW i \in 1 .. Len(ls), NEW r, Edit([ls EXCEPT ![i].ref = r])
      PROVE  ChainInv'
  <2>1. PICK x : x = ls[i]
    OBVIOUS
  <2>2. PICK y : y = [x EXCEPT !.ref = r]
    OBVIOUS
  <2>3. IsLink(y)
    BY <1>1, <2>1, <2>2, LinkParts
  <2>4. [ls EXCEPT ![i].ref = r] = [ls EXCEPT ![i] = y]
    BY <2>1, <2>2
  <2>5. Typed([ls EXCEPT ![i] = y])
    BY <1>1, <2>3, Replaced, Zenon
  <2> QED
    BY <1>9, <2>4, <2>5, EditKeeps, Zenon
<1>10. \A c \in Content : IsContent(c)
  BY ChainAssumption
<1>11. CASE WellFormed(ls) /\ \E i \in DOMAIN ls :
                \E ref \in {None, Given(Refs(ls)[i])} : Edit([ls EXCEPT ![i].ref = ref])
  BY <1>1, <1>9, <1>11, Zenon
<1>12. ASSUME NEW i \in DOMAIN ls,
        \/ \E c \in Content : Edit([ls EXCEPT ![i].content = c])
        \/ \E f \in NumberFields \cap DOMAIN ls[i].content :
            Edit([ls EXCEPT ![i].content = Rewritten(@, f)])
        \/ \E j \in DOMAIN ls[i].binds :
            \E v \in Markers \cup {Literal(Refs(signed)[k]) : k \in DOMAIN signed} :
                Edit([ls EXCEPT ![i].binds[j] = v])
        \/ Edit(SubSeq(ls, 1, i - 1) \o SubSeq(ls, i + 1, Len(ls)))
        \/ \E j \in 1 .. i - 1 :
            \/ Edit(Exchanged(ls, i, j))
            \/ Edit([ls EXCEPT ![i].name = ls[j].name, ![j].name = ls[i].name])
       PROVE  ChainInv'
  <2>1. i \in 1 .. Len(ls)
    BY <1>1, Zenon
  <2>2. CASE \E c \in Content : Edit([ls EXCEPT ![i].content = c])
    BY <1>3, <1>10, <2>1, <2>2, Zenon
  <2>3. CASE \E f \in NumberFields \cap DOMAIN ls[i].content :
                Edit([ls EXCEPT ![i].content = Rewritten(@, f)])
    <3>1. PICK f : Edit([ls EXCEPT ![i].content = Rewritten(@, f)])
      BY <2>3, Zenon
    <3> QED
      BY <1>4, <2>1, <3>1, Zenon
  <2>4. CASE \E j \in DOMAIN ls[i].binds :
                \E v \in Markers \cup {Literal(Refs(signed)[k]) : k \in DOMAIN signed} :
                    Edit([ls EXCEPT ![i].binds[j] = v])
    BY <1>5, <2>1, <2>4, Zenon
  <2>5. CASE Edit(SubSeq(ls, 1, i - 1) \o SubSeq(ls, i + 1, Len(ls)))
    BY <1>6, <2>1, <2>5, Zenon
  <2>6. CASE \E j \in 1 .. i - 1 :
                \/ Edit(Exchanged(ls, i, j))
                \/ Edit([ls EXCEPT ![i].name = ls[j].name, ![j].name = ls[i].name])
    BY <1>7, <1>8, <2>1, <2>6, Zenon
  <2> QED
    BY <1>12, <2>2, <2>3, <2>4, <2>5, <2>6, Zenon
<1> QED
  BY <1>t, <1>11, <1>12, Zenon DEF CustodianStep

LEMMA ChainInvStep == ChainInv /\ [Next]_vars => ChainInv'
<1> SUFFICES ASSUME ChainInv, [Next]_vars PROVE ChainInv'
  OBVIOUS
<1>1. ASSUME NEW n \in Name, NEW c \in Content, NEW binds \in BindLists, Compose(n, c, binds)
      PROVE  ChainInv'
  BY <1>1, ComposeKeeps, Zenon
<1>2. CASE CustodianStep
  BY <1>2, CustodianKeeps, Zenon
<1>3. CASE UNCHANGED vars
  BY <1>3 DEF vars, ChainInv
<1> QED
  BY <1>1, <1>2, <1>3, Zenon DEF Next

LEMMA ChainInvariant == Spec => []ChainInv
<1>1. Init => ChainInv
  BY ChainInvInit
<1>2. ChainInv /\ [Next]_vars => ChainInv'
  BY ChainInvStep
<1> QED
  BY <1>1, <1>2, PTL DEF Spec

-----------------------------------------------------------------------------
(* Properties *)

\* The links of which a chain, its contents changed, no longer declares the
\* reference are those that reach a change.
LEMMA TamperedAt ==
    ASSUME NEW ss, Authored(ss), NEW ls, Typed(ls), Len(ls) = Len(ss),
           \A i \in 1 .. Len(ss) : ls[i] = [ss[i] EXCEPT !.content = ls[i].content]
    PROVE  \A i \in 1 .. Len(ls) : LinkOk(ls, i) <=> Reach(ls, i) \cap Differ(ls, ss) = {}
<1>1. /\ Typed(ss) /\ Ordered(ss)
      /\ \A i \in 1 .. Len(ss) : ss[i].ref = Given(Refs(ss)[i])
  BY DEF Authored
<1>2. /\ Len(ls) \in Nat /\ DOMAIN ls = 1 .. Len(ls) /\ DOMAIN ss = 1 .. Len(ls)
      /\ \A i \in 1 .. Len(ls) : IsLink(ss[i]) /\ IsLink(ls[i])
  BY <1>1, TypedLinks
<1>3. ASSUME NEW i \in 1 .. Len(ls)
      PROVE  ls[i].name = ss[i].name /\ ls[i].binds = ss[i].binds /\ ls[i].ref = ss[i].ref
  <2>1. PICK x, c : x = ss[i] /\ c = ls[i].content
    OBVIOUS
  <2>2. IsLink(x) /\ IsContent(c)
    BY <1>2, <2>1 DEF IsLink
  <2>3. ls[i] = [x EXCEPT !.content = c]
    BY <2>1
  <2>4. /\ [x EXCEPT !.content = c].name = x.name
        /\ [x EXCEPT !.content = c].binds = x.binds
        /\ [x EXCEPT !.content = c].ref = x.ref
    BY <2>2, LinkParts, Zenon
  <2> QED
    BY <2>1, <2>3, <2>4, Zenon
<1>4. Ordered(ls)
  <2>1. \A i, j \in DOMAIN ls : ls[i].name = ls[j].name => i = j
    BY <1>1, <1>2, <1>3 DEF Ordered
  <2>2. ASSUME NEW i \in DOMAIN ls
        PROVE  Binds(ls[i]) \subseteq {ls[j].name : j \in 1 .. i - 1}
    <3>1. i \in 1 .. Len(ls) /\ \A j \in 1 .. i - 1 : j \in 1 .. Len(ls)
      BY <1>2
    <3>2. {ls[j].name : j \in 1 .. i - 1} = {ss[j].name : j \in 1 .. i - 1}
      BY <1>3, <3>1
    <3>3. Binds(ls[i]) = Binds(ss[i])
      BY <1>3, <3>1 DEF Binds
    <3> QED
      BY <1>1, <1>2, <3>1, <3>2, <3>3 DEF Ordered
  <2> QED
    BY <2>1, <2>2, Zenon DEF Ordered
<1>5. Alike(ls, ss, Len(ls))
  BY <1>2, <1>3 DEF Alike
<1>6. \A i \in 1 .. Len(ls) : Refs(ls)[i] = Refs(ss)[i] <=> Reach(ls, i) \cap Differ(ls, ss) = {}
  BY <1>1, <1>4, <1>5, DivergesAt, Zenon
<1>7. ASSUME NEW i \in 1 .. Len(ls)
      PROVE  LinkOk(ls, i) <=> Refs(ls)[i] = Refs(ss)[i]
  <2>1. PICK p, q : p = Refs(ls)[i] /\ q = Refs(ss)[i]
    OBVIOUS
  <2>2. ls[i].ref = <<q>>
    BY <1>1, <1>3, <2>1 DEF Given
  <2>3. LinkOk(ls, i) <=> ls[i].ref \in {<< >>, <<p>>}
    BY <2>1 DEF LinkOk, None, Given
  <2>4. <<q>> # << >> /\ (<<q>> = <<p>> <=> p = q)
    OBVIOUS
  <2> QED
    BY <2>1, <2>2, <2>3, <2>4
<1> QED
  BY <1>6, <1>7

\* When only contents were changed, exactly the links that reach a change stop
\* matching their declared refs (verify_chain, for any chain).
THEOREM TamperingDiverges == Spec => []TamperDiverges
<1>1. ChainInv => TamperDiverges
  <2> SUFFICES ASSUME ChainInv, Len(links) = Len(signed),
                      \A i \in DOMAIN signed :
                        links[i] = [signed[i] EXCEPT !.content = links[i].content]
               PROVE  \A i \in DOMAIN links : LinkOk(links, i) <=> Reach(links, i) \cap Changed = {}
    BY DEF TamperDiverges
  <2>1. PICK ss, ls : ss = signed /\ ls = links
    OBVIOUS
  <2>2. Authored(ss) /\ Typed(ss) /\ Typed(ls)
    BY <2>1 DEF ChainInv, Authored
  <2>3. DOMAIN ss = 1 .. Len(ss) /\ DOMAIN ls = 1 .. Len(ls)
    BY <2>2, TypedLinks, Zenon
  <2>4. Len(ls) = Len(ss)
        /\ \A i \in 1 .. Len(ss) : ls[i] = [ss[i] EXCEPT !.content = ls[i].content]
    BY <2>1, <2>3
  <2>5. \A i \in 1 .. Len(ls) : LinkOk(ls, i) <=> Reach(ls, i) \cap Differ(ls, ss) = {}
    BY <2>2, <2>4, TamperedAt
  <2>6. Changed = Differ(ls, ss)
    BY <2>1, <2>3, <2>4 DEF Changed, Differ
  <2> QED
    BY <2>1, <2>3, <2>5, <2>6
<1> QED
  BY <1>1, ChainInvariant, PTL

\* A pinned link the chain verifies with is there, with the reference it had.
LEMMA VerifiedLinks ==
    ASSUME ChainInv, NEW n \in Verified
    PROVE  /\ Typed(links) /\ Ordered(links)
           /\ Typed(signed) /\ Ordered(signed)
           /\ n \in Named(links) /\ n \in Named(signed)
           /\ IndexOf(links, n) \in 1 .. Len(links)
           /\ IndexOf(signed, n) \in 1 .. Len(signed)
           /\ RefOf(links, n) = RefOf(signed, n)
<1>1. PICK ss, ls : ss = signed /\ ls = links
  OBVIOUS
<1>2. Typed(ss) /\ Ordered(ss) /\ Typed(ls)
  BY <1>1 DEF ChainInv, Authored
<1>3. n \in Named(ss) /\ VerifyChain(ls, {}, Pins({n}))
  BY <1>1 DEF Verified
<1>4. Ordered(ls)
  BY <1>3 DEF VerifyChain, WellFormed, Ordered
<1>5. n \in DOMAIN Pins({n}) /\ Pins({n})[n] = RefOf(ss, n)
  BY <1>1 DEF Pins
<1>6. n \in Named(ls) /\ RefOf(ls, n) = RefOf(ss, n)
  BY <1>3, <1>5 DEF VerifyChain, PinHolds
<1>7. IndexOf(ls, n) \in DOMAIN ls /\ IndexOf(ss, n) \in DOMAIN ss
  BY <1>2, <1>3, <1>4, <1>6, IndexFinds, Zenon
<1>8. IndexOf(ls, n) \in 1 .. Len(ls) /\ IndexOf(ss, n) \in 1 .. Len(ss)
  BY <1>2, <1>7, TypedLinks, Zenon
<1> QED
  BY <1>1, <1>2, <1>3, <1>4, <1>6, <1>8, Zenon

\* One pinned link commits to everything it binds, through any number of links
\* and whatever they are called now (_resolve and _pin_results).
THEOREM PinsAlwaysCommit == Spec => []PinnedCommits
<1>1. ChainInv => PinnedCommits
  <2> SUFFICES ASSUME ChainInv, NEW n \in Verified
               PROVE  /\ Reached(links, n) \subseteq Reached(signed, n)
                      /\ (\A i \in Reach(links, IndexOf(links, n)) : \A j \in DOMAIN links[i].binds :
                            "at" \in DOMAIN links[i].binds[j])
                          => Reached(links, n) = Reached(signed, n)
    BY DEF PinnedCommits
  <2>1. PICK ss, ls : ss = signed /\ ls = links
    OBVIOUS
  <2>2. PICK i, k : i = IndexOf(ls, n) /\ k = IndexOf(ss, n)
    OBVIOUS
  <2>3. /\ Typed(ls) /\ Ordered(ls) /\ Typed(ss) /\ Ordered(ss)
        /\ i \in 1 .. Len(ls) /\ k \in 1 .. Len(ss)
        /\ Refs(ls)[i] = Refs(ss)[k]
    BY <2>1, <2>2, VerifiedLinks DEF RefOf
  <2>4. \A x \in 1 .. Len(ss) : OnlyMarkers(ss[x])
    BY <2>1 DEF ChainInv, Authored
  <2>5. /\ RefsReached(ls, i) \subseteq RefsReached(ss, k)
        /\ (\A x \in Reach(ls, i) : OnlyMarkers(ls[x]))
            => RefsReached(ls, i) = RefsReached(ss, k)
    BY <2>3, <2>4, Commits
  <2>6. Reached(links, n) = RefsReached(ls, i) /\ Reached(signed, n) = RefsReached(ss, k)
    BY <2>1, <2>2 DEF Reached, RefsReached
  <2>7. (\A x \in Reach(links, IndexOf(links, n)) : \A j \in DOMAIN links[x].binds :
            "at" \in DOMAIN links[x].binds[j])
         => \A x \in Reach(ls, i) : OnlyMarkers(ls[x])
    BY <2>1, <2>2 DEF OnlyMarkers
  <2> QED
    BY <2>5, <2>6, <2>7
<1> QED
  BY <1>1, ChainInvariant, PTL

\* A journey that verifies with its ref and its hops pinned binds every hop in
\* the composed chain as well (the journey assertion).
THEOREM JourneysAlwaysCover == Spec => []JourneyCovers
<1>1. ChainInv => JourneyCovers
  <2> SUFFICES ASSUME ChainInv, NEW n \in Verified, NEW h \in Verified, NEW k \in Verified,
                      VerifyChain(links, {[kind |-> "journey", ref |-> n, hops |-> <<h, k>>]},
                                  Pins({n, h, k})),
                      NEW hop \in {h, k}
               PROVE  \E j \in DOMAIN RefOf(signed, n).binds :
                        RefOf(signed, n).binds[j] = RefOf(signed, hop)
    BY Zenon DEF JourneyCovers
  <2>1. PICK ls, i : ls = links /\ i = IndexOf(ls, n)
    OBVIOUS
  <2>2. /\ Typed(ls) /\ Ordered(ls) /\ i \in 1 .. Len(ls)
        /\ Refs(ls)[i] = RefOf(signed, n)
    BY <2>1, VerifiedLinks DEF RefOf
  <2>3. RefOf(ls, hop) = RefOf(signed, hop)
    <3>1. hop \in Verified
      OBVIOUS
    <3> QED
      BY <2>1, <3>1, VerifiedLinks, Zenon
  <2>4. hop \in Binds(ls[i])
    <3>1. PICK a : a = [kind |-> "journey", ref |-> n, hops |-> <<h, k>>]
      OBVIOUS
    <3>2. a.kind = "journey" /\ a.ref = n /\ a.hops = <<h, k>>
      BY <3>1
    <3>3. Holds(ls, a)
      BY <2>1, <3>1 DEF VerifyChain
    <3>4. Journey(ls, n, <<h, k>>)
      BY <3>2, <3>3 DEF Holds
    <3>5. \A x \in 1 .. 2 : <<h, k>>[x] \in Binds(ls[i])
      BY <2>1, <3>4 DEF Journey
    <3> QED
      BY <3>5
  <2>5. PICK j \in DOMAIN ls[i].binds : ls[i].binds[j] = Marker(hop)
    BY <2>4 DEF Binds
  <2>6. Refs(ls)[i].binds[j] = RefOf(ls, hop)
    BY <2>2, <2>5, RefOfMarker, Zenon DEF RefOf
  <2>7. j \in DOMAIN Refs(ls)[i].binds
    BY <2>2, <2>5, RefParts
  <2> QED
    BY <2>2, <2>3, <2>6, <2>7, Zenon
<1> QED
  BY <1>1, ChainInvariant, PTL

-----------------------------------------------------------------------------
(* Assertions *)

LEMMA LinkContents ==
    ASSUME ChainInv
    PROVE  /\ \A i \in DOMAIN links : IsContent(links[i].content)
           /\ \A i \in DOMAIN signed : IsContent(signed[i].content)
<1>1. PICK ss, ls : ss = signed /\ ls = links
  OBVIOUS
<1>2. Typed(ss) /\ Typed(ls)
  BY <1>1 DEF ChainInv, Authored
<1>3. \A i \in DOMAIN ls : IsContent(ls[i].content)
  BY <1>2, TypedLinks DEF IsLink
<1>4. \A i \in DOMAIN ss : IsContent(ss[i].content)
  BY <1>2, TypedLinks DEF IsLink
<1> QED
  BY <1>1, <1>3, <1>4

\* The sum of two executions.
LEMMA TotalOfTwo ==
    ASSUME NEW es, Len(es) = 2,
           es[1].amount_minor \in Int, es[2].amount_minor \in Int
    PROVE  Total(es) = es[1].amount_minor + es[2].amount_minor
<1> DEFINE Sum(sum) == [i \in 0 .. Len(es) |->
                IF i = 0 THEN 0 ELSE sum[i - 1] + es[i].amount_minor]
           total == CHOOSE sum : sum = Sum(sum)
<1>1. PICK a, b : a = es[1].amount_minor /\ b = es[2].amount_minor
  OBVIOUS
<1>2. PICK g : g = [i \in 0 .. 2 |-> IF i = 0 THEN 0 ELSE IF i = 1 THEN a ELSE a + b]
  OBVIOUS
<1>3. g = Sum(g)
  <2>1. ASSUME NEW i \in 0 .. 2
        PROVE  g[i] = IF i = 0 THEN 0 ELSE g[i - 1] + es[i].amount_minor
    <3>1. g[0] = 0 /\ g[1] = a /\ g[2] = a + b
      BY <1>2
    <3>2. i = 0 \/ i = 1 \/ i = 2
      OBVIOUS
    <3>3. CASE i = 0
      BY <3>1, <3>3
    <3>4. CASE i = 1
      BY <1>1, <3>1, <3>4
    <3>5. CASE i = 2
      BY <1>1, <3>1, <3>5
    <3> QED
      BY <3>2, <3>3, <3>4, <3>5
  <2>2. g = [i \in 0 .. 2 |-> g[i]]
    BY <1>2
  <2>3. g = [i \in 0 .. 2 |-> IF i = 0 THEN 0 ELSE g[i - 1] + es[i].amount_minor]
    BY <2>1, <2>2
  <2> QED
    BY <2>3
<1>4. total = Sum(total)
  <2> HIDE DEF Sum
  <2> QED
    BY <1>3
<1>5. Total(es) = total[Len(es)]
  BY Zenon DEF Total
<1>6. total[0] = 0 /\ total[1] = total[0] + a /\ total[2] = total[1] + b
  <2> HIDE DEF total
  <2>1. total = [i \in 0 .. 2 |-> IF i = 0 THEN 0 ELSE total[i - 1] + es[i].amount_minor]
    BY <1>4
  <2>2. PICK t : t = total
    OBVIOUS
  <2>3. \A i \in 0 .. 2 : t[i] = IF i = 0 THEN 0 ELSE t[i - 1] + es[i].amount_minor
    BY <2>1, <2>2
  <2>4. t[0] = 0
    BY <2>3
  <2>5. t[1] = t[0] + a
    BY <1>1, <2>3
  <2>6. t[2] = t[1] + b
    BY <1>1, <2>3
  <2> QED
    BY <2>2, <2>4, <2>5, <2>6
<1> HIDE DEF total
<1> QED
  BY <1>1, <1>5, <1>6

\* What recurring_cap compares, of two executions.
LEMMA RecurringOfTwo ==
    ASSUME NEW authority, NEW policy, NEW es, Len(es) = 2, DOMAIN es = 1 .. 2,
           IsContent(es[1]), IsContent(es[2])
    PROVE  RecurringCap(authority, policy, es)
            <=> /\ AuthorityOk(authority, policy)
                /\ CycleOk(authority, es[1]) /\ CycleOk(authority, es[2])
                /\ es[1].amount_minor + es[2].amount_minor <= authority.cap_amount_minor
<1>1. \A e : IsContent(e) /\ CycleOk(authority, e) => e.amount_minor \in Int
  BY DEF IsContent, CycleOk, Positive, Numbers
<1>2. (\A i \in DOMAIN es : CycleOk(authority, es[i]))
        <=> CycleOk(authority, es[1]) /\ CycleOk(authority, es[2])
  <2>1. \A i \in DOMAIN es : i = 1 \/ i = 2
    OBVIOUS
  <2>2. 1 \in DOMAIN es /\ 2 \in DOMAIN es
    OBVIOUS
  <2> QED
    BY <2>1, <2>2, Zenon
<1>3. CycleOk(authority, es[1]) /\ CycleOk(authority, es[2])
        => Total(es) = es[1].amount_minor + es[2].amount_minor
  BY <1>1, TotalOfTwo
<1> QED
  BY <1>2, <1>3, Zenon DEF RecurringCap

\* What a recurring authority allows bounds its executions (recurring_cap).
THEOREM RecurringAlwaysBounded == Spec => []RecurringBounded
<1>1. ChainInv => RecurringBounded
  <2> SUFFICES ASSUME ChainInv, NEW x \in DOMAIN links, NEW p \in DOMAIN links,
                      NEW y \in DOMAIN links, NEW z \in DOMAIN links,
                      RecurringCap(links[x].content, links[p].content,
                                   <<links[y].content, links[z].content>>)
               PROVE  LET authority == links[x].content
                          es == <<links[y].content, links[z].content>>
                      IN /\ es[1].amount_minor + es[2].amount_minor <= authority.cap_amount_minor
                         /\ \A e \in {es[1], es[2]} :
                            /\ e.amount_minor \in 1 .. links[p].content.max_amount
                            /\ e.executed_at_ms <= authority.expires_at
    BY Zenon DEF RecurringBounded
  <2>1. PICK authority, policy, d, e :
            /\ authority = links[x].content /\ policy = links[p].content
            /\ d = links[y].content /\ e = links[z].content
    OBVIOUS
  <2>2. IsContent(authority) /\ IsContent(policy) /\ IsContent(d) /\ IsContent(e)
    BY <2>1, LinkContents
  <2>3. PICK es : es = <<d, e>>
    OBVIOUS
  <2>4. Len(es) = 2 /\ DOMAIN es = 1 .. 2 /\ es[1] = d /\ es[2] = e
    BY <2>3
  <2>5. RecurringCap(authority, policy, es)
    BY <2>1, <2>3
  <2>6. /\ AuthorityOk(authority, policy)
        /\ CycleOk(authority, d) /\ CycleOk(authority, e)
        /\ d.amount_minor + e.amount_minor <= authority.cap_amount_minor
    BY <2>2, <2>4, <2>5, RecurringOfTwo
  <2>7. ASSUME NEW c, IsContent(c), CycleOk(authority, c)
        PROVE  /\ c.amount_minor \in 1 .. policy.max_amount
               /\ c.executed_at_ms <= authority.expires_at
    <3>1. /\ c.amount_minor \in Int /\ c.amount_minor > 0
          /\ c.amount_minor <= authority.per_cycle_amount_minor
          /\ c.executed_at_ms <= authority.expires_at
      BY <2>7 DEF CycleOk, Positive, IsContent, Numbers
    <3>2. /\ authority.per_cycle_amount_minor \in Int /\ policy.max_amount \in Int
          /\ authority.per_cycle_amount_minor <= policy.max_amount
      BY <2>2, <2>6 DEF AuthorityOk, Positive, IsContent, Numbers
    <3> QED
      BY <3>1, <3>2
  <2> QED
    BY <2>1, <2>2, <2>6, <2>7
<1> QED
  BY <1>1, ChainInvariant, PTL

-----------------------------------------------------------------------------
(* Assertions about pinned links *)

\* Contents of one canonical form differ in how their numbers are written.
LEMMA SameFields ==
    ASSUME NEW c, NEW d, Canonical(c) = Canonical(d), NEW f, f # "floats"
    PROVE  /\ f \in DOMAIN c <=> f \in DOMAIN d
           /\ f \in DOMAIN c => c[f] = d[f]
<1>1. /\ DOMAIN Canonical(c) = DOMAIN c \ {"floats"}
      /\ DOMAIN Canonical(d) = DOMAIN d \ {"floats"}
  BY Zenon DEF Canonical
<1>2. f \in DOMAIN c <=> f \in DOMAIN d
  BY <1>1
<1>3. ASSUME f \in DOMAIN c
      PROVE  c[f] = d[f]
  <2>1. Canonical(c)[f] = c[f] /\ Canonical(d)[f] = d[f]
    BY <1>2, <1>3 DEF Canonical
  <2> QED
    BY <2>1
<1> QED
  BY <1>2, <1>3

\* A pinned link has the content it had, but for how numbers are written.
LEMMA VerifiedContents ==
    ASSUME ChainInv, NEW n \in Verified
    PROVE  /\ n \in Named(links) /\ n \in Named(signed)
           /\ Canonical(ContentOf(links, n)) = Canonical(ContentOf(signed, n))
           /\ IsContent(ContentOf(links, n)) /\ IsContent(ContentOf(signed, n))
<1>1. PICK ss, ls : ss = signed /\ ls = links
  OBVIOUS
<1>2. PICK i, k : i = IndexOf(ls, n) /\ k = IndexOf(ss, n)
  OBVIOUS
<1>3. /\ Typed(ls) /\ Ordered(ls) /\ Typed(ss) /\ Ordered(ss)
      /\ i \in 1 .. Len(ls) /\ k \in 1 .. Len(ss)
      /\ Refs(ls)[i] = Refs(ss)[k]
      /\ n \in Named(ls) /\ n \in Named(ss)
  BY <1>1, <1>2, VerifiedLinks DEF RefOf
<1>4. Canonical(ls[i].content) = Canonical(ss[k].content)
  BY <1>3, SameRef
<1>5. IsContent(ls[i].content) /\ IsContent(ss[k].content)
  BY <1>3, TypedLinks DEF IsLink
<1> QED
  BY <1>1, <1>2, <1>3, <1>4, <1>5, Zenon DEF ContentOf

LEMMA SameScopes ==
    ASSUME NEW c, NEW d, Canonical(c) = Canonical(d),
           NEW cc, NEW dd, Canonical(cc) = Canonical(dd)
    PROVE  ScopeSubset(c, cc) <=> ScopeSubset(d, dd)
<1>1. /\ "scope" \in DOMAIN c <=> "scope" \in DOMAIN d
      /\ "scope" \in DOMAIN c => c.scope = d.scope
  BY SameFields
<1>2. /\ "scope" \in DOMAIN cc <=> "scope" \in DOMAIN dd
      /\ "scope" \in DOMAIN cc => cc.scope = dd.scope
  BY SameFields
<1> QED
  BY <1>1, <1>2 DEF ScopeSubset

\* A content that has every number in the one form.
Unfloated(c) == Field(c, "floats", {}) = {}

LEMMA SameWindow ==
    ASSUME NEW c, NEW d, Canonical(c) = Canonical(d), Unfloated(c), Unfloated(d), NEW t
    PROVE  TimeWithin(t, c) <=> TimeWithin(t, d)
<1>1. \A f : Integral(c, f) /\ Integral(d, f)
  BY DEF Unfloated, Integral
<1>2. \A f \in {"not_before_ms", "not_after_ms"} :
        (f \in DOMAIN c <=> f \in DOMAIN d) /\ (f \in DOMAIN c => c[f] = d[f])
  BY SameFields
<1>3. (\A f \in {"not_before_ms", "not_after_ms"} : f \in DOMAIN c /\ Integral(c, f))
        <=> \A f \in {"not_before_ms", "not_after_ms"} : f \in DOMAIN d /\ Integral(d, f)
  BY <1>1, <1>2, Zenon
<1>4. (\A f \in {"not_before_ms", "not_after_ms"} : f \in DOMAIN c /\ Integral(c, f))
        => c["not_before_ms"] = d["not_before_ms"] /\ c["not_after_ms"] = d["not_after_ms"]
  BY <1>2
<1> QED
  BY <1>3, <1>4 DEF TimeWithin

LEMMA SameRevocation ==
    ASSUME NEW c, NEW d, Canonical(c) = Canonical(d), Unfloated(c), Unfloated(d), NEW t
    PROVE  NotRevoked(t, c) <=> NotRevoked(t, d)
<1>1. \A f : Integral(c, f) /\ Integral(d, f)
  BY DEF Unfloated, Integral
<1>2. /\ "revoked_at_ms" \in DOMAIN c <=> "revoked_at_ms" \in DOMAIN d
      /\ "revoked_at_ms" \in DOMAIN c => c["revoked_at_ms"] = d["revoked_at_ms"]
  BY SameFields
<1> QED
  BY <1>1, <1>2 DEF NotRevoked

LEMMA SamePositive ==
    ASSUME NEW c, NEW d, Canonical(c) = Canonical(d), NEW f, f # "floats"
    PROVE  /\ Positive(c, f) <=> Positive(d, f)
           /\ Positive(c, f) => c[f] = d[f]
  BY SameFields DEF Positive

LEMMA SameAuthority ==
    ASSUME NEW c, NEW d, Canonical(c) = Canonical(d),
           NEW cc, NEW dd, Canonical(cc) = Canonical(dd)
    PROVE  /\ AuthorityOk(c, cc) <=> AuthorityOk(d, dd)
           /\ AuthorityOk(c, cc) =>
                /\ c.per_cycle_amount_minor = d.per_cycle_amount_minor
                /\ c.cap_amount_minor = d.cap_amount_minor
                /\ c.expires_at = d.expires_at
<1>1. /\ Positive(c, "per_cycle_amount_minor") <=> Positive(d, "per_cycle_amount_minor")
      /\ Positive(c, "per_cycle_amount_minor")
            => c["per_cycle_amount_minor"] = d["per_cycle_amount_minor"]
  BY SamePositive
<1>2. /\ Positive(c, "cap_amount_minor") <=> Positive(d, "cap_amount_minor")
      /\ Positive(c, "cap_amount_minor") => c["cap_amount_minor"] = d["cap_amount_minor"]
  BY SamePositive
<1>3. /\ Positive(cc, "max_amount") <=> Positive(dd, "max_amount")
      /\ Positive(cc, "max_amount") => cc["max_amount"] = dd["max_amount"]
  BY SamePositive
<1>4. /\ "expires_at" \in DOMAIN c <=> "expires_at" \in DOMAIN d
      /\ "expires_at" \in DOMAIN c => c["expires_at"] = d["expires_at"]
  BY SameFields
<1> QED
  BY <1>1, <1>2, <1>3, <1>4 DEF AuthorityOk

LEMMA SameCycle ==
    ASSUME NEW c, NEW d, c.per_cycle_amount_minor = d.per_cycle_amount_minor,
           c.expires_at = d.expires_at,
           NEW e, NEW f, Canonical(e) = Canonical(f)
    PROVE  /\ CycleOk(c, e) <=> CycleOk(d, f)
           /\ CycleOk(c, e) => e.amount_minor = f.amount_minor
<1>1. /\ Positive(e, "amount_minor") <=> Positive(f, "amount_minor")
      /\ Positive(e, "amount_minor") => e["amount_minor"] = f["amount_minor"]
  BY SamePositive
<1>2. /\ Positive(e, "executed_at_ms") <=> Positive(f, "executed_at_ms")
      /\ Positive(e, "executed_at_ms") => e["executed_at_ms"] = f["executed_at_ms"]
  BY SamePositive
<1> QED
  BY <1>1, <1>2 DEF CycleOk

LEMMA SameRecurring ==
    ASSUME NEW c, NEW d, Canonical(c) = Canonical(d),
           NEW cc, NEW dd, Canonical(cc) = Canonical(dd),
           NEW es, Len(es) = 2, DOMAIN es = 1 .. 2, IsContent(es[1]), IsContent(es[2]),
           NEW fs, Len(fs) = 2, DOMAIN fs = 1 .. 2, IsContent(fs[1]), IsContent(fs[2]),
           Canonical(es[1]) = Canonical(fs[1]), Canonical(es[2]) = Canonical(fs[2])
    PROVE  RecurringCap(c, cc, es) <=> RecurringCap(d, dd, fs)
<1>1. RecurringCap(c, cc, es)
        <=> /\ AuthorityOk(c, cc)
            /\ CycleOk(c, es[1]) /\ CycleOk(c, es[2])
            /\ es[1].amount_minor + es[2].amount_minor <= c.cap_amount_minor
  BY RecurringOfTwo
<1>2. RecurringCap(d, dd, fs)
        <=> /\ AuthorityOk(d, dd)
            /\ CycleOk(d, fs[1]) /\ CycleOk(d, fs[2])
            /\ fs[1].amount_minor + fs[2].amount_minor <= d.cap_amount_minor
  BY RecurringOfTwo
<1>3. /\ AuthorityOk(c, cc) <=> AuthorityOk(d, dd)
      /\ AuthorityOk(c, cc) =>
            /\ c.per_cycle_amount_minor = d.per_cycle_amount_minor
            /\ c.cap_amount_minor = d.cap_amount_minor
            /\ c.expires_at = d.expires_at
  BY SameAuthority
<1>4. CASE AuthorityOk(c, cc)
  <2>1. /\ CycleOk(c, es[1]) <=> CycleOk(d, fs[1])
        /\ CycleOk(c, es[1]) => es[1].amount_minor = fs[1].amount_minor
    BY <1>3, <1>4, SameCycle
  <2>2. /\ CycleOk(c, es[2]) <=> CycleOk(d, fs[2])
        /\ CycleOk(c, es[2]) => es[2].amount_minor = fs[2].amount_minor
    BY <1>3, <1>4, SameCycle
  <2> QED
    BY <1>1, <1>2, <1>3, <1>4, <2>1, <2>2
<1>5. CASE ~AuthorityOk(c, cc)
  BY <1>1, <1>2, <1>3, <1>5
<1> QED
  BY <1>4, <1>5

\* What PinnedAssertionsHold says of one assertion.
Unaffected(a) ==
    /\ Applies(links, a) <=> Applies(signed, a)
    /\ Applies(signed, a) =>
        \/ Holds(links, a) <=> Holds(signed, a)
        \/ a.kind \in {"time_within", "not_revoked"} /\ (Floats(links, a) \/ Floats(signed, a))

LEMMA ScopeUnaffected ==
    ASSUME ChainInv, NEW x \in Verified, NEW y \in Verified, NEW a,
           a = [kind |-> "scope_subset", inner |-> x, outer |-> y]
    PROVE  Unaffected(a)
<1>1. PICK ls, ss : ls = links /\ ss = signed
  OBVIOUS
<1>2. a.kind = "scope_subset" /\ a.inner = x /\ a.outer = y
  OBVIOUS
<1>3. Subjects(a) = {x, y} /\ Paths(a) = {}
  BY <1>2 DEF Subjects, Paths
<1>4. /\ x \in Named(ls) /\ x \in Named(ss) /\ y \in Named(ls) /\ y \in Named(ss)
      /\ Canonical(ContentOf(ls, x)) = Canonical(ContentOf(ss, x))
      /\ Canonical(ContentOf(ls, y)) = Canonical(ContentOf(ss, y))
  BY <1>1, VerifiedContents
<1>5. Applies(ls, a) /\ Applies(ss, a)
  BY <1>3, <1>4 DEF Applies
<1>6. /\ Holds(ls, a) <=> ScopeSubset(ContentOf(ls, x), ContentOf(ls, y))
      /\ Holds(ss, a) <=> ScopeSubset(ContentOf(ss, x), ContentOf(ss, y))
  BY <1>2 DEF Holds
<1>7. Holds(ls, a) <=> Holds(ss, a)
  BY <1>4, <1>6, SameScopes
<1> QED
  BY <1>1, <1>5, <1>7 DEF Unaffected

\* A path to a field is no path to what refers to a link.
LEMMA PathKinds ==
    /\ \A n, f : "field" \in DOMAIN Path(n, f) /\ "bind" \notin DOMAIN Path(n, f)
    /\ \A n, j : "bind" \in DOMAIN BindPath(n, j) /\ "field" \notin DOMAIN BindPath(n, j)
BY DEF Path, BindPath

LEMMA FieldUnaffected ==
    ASSUME ChainInv, NEW x \in Verified, NEW y \in Verified, NEW a,
           a = [kind |-> "field_equals", a |-> Path(x, "max_amount"), b |-> Path(y, "amount_minor")]
    PROVE  Unaffected(a)
<1>1. PICK ls, ss : ls = links /\ ss = signed
  OBVIOUS
<1>2. PICK p, q : p = Path(x, "max_amount") /\ q = Path(y, "amount_minor")
  OBVIOUS
<1>3. /\ p.link = x /\ p.field = "max_amount" /\ q.link = y /\ q.field = "amount_minor"
      /\ "field" \in DOMAIN p /\ "bind" \notin DOMAIN p
      /\ "field" \in DOMAIN q /\ "bind" \notin DOMAIN q
  BY <1>2, PathKinds DEF Path
<1>4. a.kind = "field_equals" /\ a.a = p /\ a.b = q
  BY <1>2
<1>5. Subjects(a) = {x, y} /\ Paths(a) = {p, q}
  BY <1>3, <1>4 DEF Subjects, Paths
<1>6. PICK c, d, cc, dd : /\ c = ContentOf(ls, x) /\ d = ContentOf(ss, x)
                          /\ cc = ContentOf(ls, y) /\ dd = ContentOf(ss, y)
  OBVIOUS
<1>7. /\ x \in Named(ls) /\ x \in Named(ss) /\ y \in Named(ls) /\ y \in Named(ss)
      /\ Canonical(c) = Canonical(d) /\ Canonical(cc) = Canonical(dd)
  BY <1>1, <1>6, VerifiedContents
<1>8. /\ "max_amount" \in DOMAIN c <=> "max_amount" \in DOMAIN d
      /\ "max_amount" \in DOMAIN c => c["max_amount"] = d["max_amount"]
  BY <1>7, SameFields
<1>9. /\ "amount_minor" \in DOMAIN cc <=> "amount_minor" \in DOMAIN dd
      /\ "amount_minor" \in DOMAIN cc => cc["amount_minor"] = dd["amount_minor"]
  BY <1>7, SameFields
<1>10. /\ Applies(ls, a) <=> "max_amount" \in DOMAIN c /\ "amount_minor" \in DOMAIN cc
       /\ Applies(ss, a) <=> "max_amount" \in DOMAIN d /\ "amount_minor" \in DOMAIN dd
  BY <1>3, <1>5, <1>6, <1>7 DEF Applies
<1>11. /\ Holds(ls, a) <=> c["max_amount"] = cc["amount_minor"]
       /\ Holds(ss, a) <=> d["max_amount"] = dd["amount_minor"]
  BY <1>3, <1>4, <1>6 DEF Holds, At
<1> QED
  BY <1>1, <1>8, <1>9, <1>10, <1>11 DEF Unaffected

LEMMA TimeUnaffected ==
    ASSUME ChainInv, NEW x \in Verified, NEW y \in Verified, NEW a,
           \/ a = [kind |-> "time_within", time |-> Path(x, "executed_at_ms"), window |-> y]
           \/ a = [kind |-> "not_revoked", action |-> x, time |-> Path(x, "executed_at_ms"),
                   revocation |-> y]
    PROVE  Unaffected(a)
<1>1. PICK ls, ss : ls = links /\ ss = signed
  OBVIOUS
<1>2. PICK p : p = Path(x, "executed_at_ms")
  OBVIOUS
<1>3. /\ p.link = x /\ p.field = "executed_at_ms"
      /\ "field" \in DOMAIN p /\ "bind" \notin DOMAIN p
  BY <1>2, PathKinds DEF Path
<1>4. /\ a.kind \in {"time_within", "not_revoked"} /\ a.time = p
      /\ a.kind = "time_within" => a.window = y
      /\ a.kind = "not_revoked" => a.action = x /\ a.revocation = y
  BY <1>2
<1>5. Subjects(a) = {x, y} /\ Paths(a) = {p}
  BY <1>3, <1>4 DEF Subjects, Paths
<1>6. PICK c, d, cc, dd : /\ c = ContentOf(ls, x) /\ d = ContentOf(ss, x)
                          /\ cc = ContentOf(ls, y) /\ dd = ContentOf(ss, y)
  OBVIOUS
<1>7. /\ x \in Named(ls) /\ x \in Named(ss) /\ y \in Named(ls) /\ y \in Named(ss)
      /\ Canonical(c) = Canonical(d) /\ Canonical(cc) = Canonical(dd)
  BY <1>1, <1>6, VerifiedContents
<1>8. /\ "executed_at_ms" \in DOMAIN c <=> "executed_at_ms" \in DOMAIN d
      /\ "executed_at_ms" \in DOMAIN c => c["executed_at_ms"] = d["executed_at_ms"]
  BY <1>7, SameFields
<1>9. /\ Applies(ls, a) <=> "executed_at_ms" \in DOMAIN c
      /\ Applies(ss, a) <=> "executed_at_ms" \in DOMAIN d
  BY <1>3, <1>5, <1>6, <1>7 DEF Applies
<1>10. /\ Floats(ls, a) <=> ~Unfloated(c) \/ ~Unfloated(cc)
       /\ Floats(ss, a) <=> ~Unfloated(d) \/ ~Unfloated(dd)
  BY <1>5, <1>6 DEF Floats, Unfloated
<1>11. ASSUME Unfloated(c), Unfloated(cc), Unfloated(d), Unfloated(dd),
              "executed_at_ms" \in DOMAIN c
       PROVE  Holds(ls, a) <=> Holds(ss, a)
  <2>1. PICK t : t = c["executed_at_ms"]
    OBVIOUS
  <2>2. At(ls, p) = t /\ At(ss, p) = t
    BY <1>3, <1>6, <1>8, <1>11, <2>1 DEF At
  <2>3. IntegralAt(ls, p) /\ IntegralAt(ss, p)
    <3>1. "field" \in DOMAIN p
      BY <1>2 DEF Path
    <3> QED
      BY <1>3, <1>6, <1>11, <3>1 DEF IntegralAt, Integral, Unfloated
  <2>4. CASE a.kind = "time_within"
    <3>1. Holds(ls, a) <=> IntegralAt(ls, p) /\ TimeWithin(t, cc)
      BY <1>4, <1>6, <2>2, <2>4 DEF Holds
    <3>2. Holds(ss, a) <=> IntegralAt(ss, p) /\ TimeWithin(t, dd)
      BY <1>4, <1>6, <2>2, <2>4 DEF Holds
    <3>3. TimeWithin(t, cc) <=> TimeWithin(t, dd)
      BY <1>7, <1>11, SameWindow
    <3> QED
      BY <2>3, <3>1, <3>2, <3>3
  <2>5. CASE a.kind = "not_revoked"
    <3>1. Holds(ls, a) <=> IntegralAt(ls, p) /\ NotRevoked(t, cc)
      BY <1>4, <1>6, <2>2, <2>5 DEF Holds
    <3>2. Holds(ss, a) <=> IntegralAt(ss, p) /\ NotRevoked(t, dd)
      BY <1>4, <1>6, <2>2, <2>5 DEF Holds
    <3>3. NotRevoked(t, cc) <=> NotRevoked(t, dd)
      BY <1>7, <1>11, SameRevocation
    <3> QED
      BY <2>3, <3>1, <3>2, <3>3
  <2> QED
    BY <1>4, <2>4, <2>5
<1> QED
  BY <1>1, <1>4, <1>8, <1>9, <1>10, <1>11 DEF Unaffected

LEMMA RecurringUnaffected ==
    ASSUME ChainInv, NEW x \in Verified, NEW y \in Verified, NEW z \in Verified, NEW a,
           a = [kind |-> "recurring_cap", authority |-> x, policy |-> x, executions |-> <<y, z>>]
    PROVE  Unaffected(a)
<1>1. PICK ls, ss : ls = links /\ ss = signed
  OBVIOUS
<1>2. /\ a.kind = "recurring_cap" /\ a.authority = x /\ a.policy = x
      /\ a.executions = <<y, z>>
  OBVIOUS
<1>3. /\ DOMAIN a.executions = 1 .. 2
      /\ a.executions[1] = y /\ a.executions[2] = z
  BY <1>2
<1>4. Paths(a) = {}
  BY <1>2 DEF Paths
<1>5. Subjects(a) \subseteq {x, y, z}
  <2>1. Subjects(a) = {x} \cup {a.executions[i] : i \in 1 .. 2}
    BY <1>2, <1>3 DEF Subjects
  <2>2. \A i \in 1 .. 2 : a.executions[i] \in {y, z}
    BY <1>3
  <2> QED
    BY <2>1, <2>2
<1>6. /\ \A n \in {x, y, z} :
            /\ n \in Named(ls) /\ n \in Named(ss)
            /\ Canonical(ContentOf(ls, n)) = Canonical(ContentOf(ss, n))
            /\ IsContent(ContentOf(ls, n)) /\ IsContent(ContentOf(ss, n))
  BY <1>1, VerifiedContents
<1>7. Applies(ls, a) /\ Applies(ss, a)
  BY <1>4, <1>5, <1>6 DEF Applies
<1>8. PICK es, fs : /\ es = [i \in DOMAIN a.executions |-> ContentOf(ls, a.executions[i])]
                    /\ fs = [i \in DOMAIN a.executions |-> ContentOf(ss, a.executions[i])]
  OBVIOUS
<1>9. /\ Len(es) = 2 /\ DOMAIN es = 1 .. 2
      /\ es[1] = ContentOf(ls, y) /\ es[2] = ContentOf(ls, z)
      /\ Len(fs) = 2 /\ DOMAIN fs = 1 .. 2
      /\ fs[1] = ContentOf(ss, y) /\ fs[2] = ContentOf(ss, z)
  BY <1>3, <1>8
<1>10. /\ Holds(ls, a) <=> RecurringCap(ContentOf(ls, x), ContentOf(ls, x), es)
       /\ Holds(ss, a) <=> RecurringCap(ContentOf(ss, x), ContentOf(ss, x), fs)
  BY <1>2, <1>8 DEF Holds
<1>11. Holds(ls, a) <=> Holds(ss, a)
  BY <1>6, <1>9, <1>10, SameRecurring
<1> QED
  BY <1>1, <1>7, <1>11 DEF Unaffected

LEMMA AssertionKinds ==
    ASSUME NEW ns, NEW a \in ContentAssertions(ns)
    PROVE  \/ \E x \in ns, y \in ns : a \in AboutTwo(x, y)
           \/ \E x \in ns, y \in ns, z \in ns : a = AboutThree(x, y, z)
  BY DEF ContentAssertions

\* What is hashed for what refers to a link, whichever way it is written.
LEMMA RefOfBind ==
    ASSUME NEW ls, Typed(ls), Ordered(ls), NEW i \in 1 .. Len(ls), NEW j \in DOMAIN ls[i].binds
    PROVE  Refs(ls)[i].binds[j] =
            IF "at" \in DOMAIN ls[i].binds[j]
            THEN Refs(ls)[IndexOf(ls, ls[i].binds[j].at)]
            ELSE ls[i].binds[j].literal
<1>1. Refs(ls)[i] = Hashed(ls, Refs(ls), i)
  BY RefsHash
<1> QED
  BY <1>1 DEF Hashed

\* A pinned link refers to what it referred to.
LEMMA VerifiedBinds ==
    ASSUME ChainInv, NEW n \in Verified
    PROVE  /\ n \in Named(links) /\ n \in Named(signed)
           /\ IndexOf(links, n) \in 1 .. Len(links)
           /\ DOMAIN BindsOf(links, n) = DOMAIN BindsOf(signed, n)
           /\ \A j \in DOMAIN BindsOf(links, n) :
                Refs(links)[IndexOf(links, n)].binds[j] = RefOf(signed, n).binds[j]
<1>1. PICK ss, ls : ss = signed /\ ls = links
  OBVIOUS
<1>2. PICK i, k : i = IndexOf(ls, n) /\ k = IndexOf(ss, n)
  OBVIOUS
<1>3. /\ Typed(ls) /\ Ordered(ls) /\ Typed(ss) /\ Ordered(ss)
      /\ i \in 1 .. Len(ls) /\ k \in 1 .. Len(ss)
      /\ Refs(ls)[i] = Refs(ss)[k]
      /\ n \in Named(ls) /\ n \in Named(ss)
  BY <1>1, <1>2, VerifiedLinks DEF RefOf
<1>4. /\ DOMAIN ls[i].binds = DOMAIN ss[k].binds
      /\ \A j \in DOMAIN ls[i].binds : Refs(ls)[i].binds[j] = Refs(ss)[k].binds[j]
  BY <1>3, SameRef
<1> QED
  BY <1>1, <1>2, <1>3, <1>4, Zenon DEF BindsOf, RefOf

\* What PinnedAssertionsHold says of an assertion about references.
Compared(a) ==
    /\ Applies(links, a) <=> Applies(signed, a)
    /\ Applies(links, a) /\ Holds(links, a) =>
        ReferenceAt(signed, a.a) = ReferenceAt(signed, a.b)

LEMMA ReferencesCompared ==
    ASSUME ChainInv, NEW x \in Verified, NEW y \in Verified, NEW j, NEW k, NEW a,
           a = [kind |-> "field_equals", a |-> BindPath(x, j), b |-> BindPath(y, k)]
    PROVE  Compared(a)
<1>1. PICK ls, ss : ls = links /\ ss = signed
  OBVIOUS
<1>2. PICK p, q : p = BindPath(x, j) /\ q = BindPath(y, k)
  OBVIOUS
<1>3. /\ p.link = x /\ p.bind = j /\ "bind" \in DOMAIN p /\ "field" \notin DOMAIN p
      /\ q.link = y /\ q.bind = k /\ "bind" \in DOMAIN q /\ "field" \notin DOMAIN q
  BY <1>2, PathKinds DEF BindPath
<1>4. a.kind = "field_equals" /\ a.a = p /\ a.b = q
  BY <1>2
<1>5. Subjects(a) = {x, y} /\ Paths(a) = {p, q}
  BY <1>3, <1>4 DEF Subjects, Paths
<1>6. /\ x \in Named(ls) /\ x \in Named(ss) /\ y \in Named(ls) /\ y \in Named(ss)
      /\ DOMAIN BindsOf(ls, x) = DOMAIN BindsOf(ss, x)
      /\ DOMAIN BindsOf(ls, y) = DOMAIN BindsOf(ss, y)
  BY <1>1, VerifiedBinds
<1>7. /\ Applies(ls, a) <=> j \in DOMAIN BindsOf(ls, x) /\ k \in DOMAIN BindsOf(ls, y)
      /\ Applies(ss, a) <=> j \in DOMAIN BindsOf(ss, x) /\ k \in DOMAIN BindsOf(ss, y)
  BY <1>3, <1>5, <1>6 DEF Applies
<1>8. Holds(ls, a) <=> BindsOf(ls, x)[j] = BindsOf(ls, y)[k]
  BY <1>3, <1>4 DEF Holds, At
<1>9. /\ ReferenceAt(ss, p) = RefOf(ss, x).binds[j]
      /\ ReferenceAt(ss, q) = RefOf(ss, y).binds[k]
  BY <1>3 DEF ReferenceAt
<1>10. ASSUME Applies(ls, a), Holds(ls, a)
       PROVE  ReferenceAt(ss, p) = ReferenceAt(ss, q)
  <2>1. PICK u, v : u = IndexOf(ls, x) /\ v = IndexOf(ls, y)
    OBVIOUS
  <2>2. /\ BindsOf(ls, x) = ls[u].binds /\ BindsOf(ls, y) = ls[v].binds
        /\ j \in DOMAIN ls[u].binds /\ k \in DOMAIN ls[v].binds
        /\ ls[u].binds[j] = ls[v].binds[k]
    BY <1>7, <1>8, <1>10, <2>1 DEF BindsOf
  <2>3. Typed(ls) /\ Ordered(ls) /\ u \in 1 .. Len(ls) /\ v \in 1 .. Len(ls)
    BY <1>1, <2>1, VerifiedLinks
  <2>4. Refs(ls)[u].binds[j] = Refs(ls)[v].binds[k]
    BY <2>2, <2>3, RefOfBind
  <2>5. /\ Refs(ls)[u].binds[j] = RefOf(ss, x).binds[j]
        /\ Refs(ls)[v].binds[k] = RefOf(ss, y).binds[k]
    BY <1>1, <2>1, <2>2, VerifiedBinds
  <2> QED
    BY <1>9, <2>4, <2>5
<1> QED
  BY <1>1, <1>4, <1>6, <1>7, <1>10 DEF Compared

\* An assertion about pinned links means what it meant when they were pinned,
\* but for times written as floats; two references that field_equals finds
\* equal are equal in the composed chain (_assert and _get).
THEOREM PinnedAssertionsAlwaysHold == Spec => []PinnedAssertionsHold
<1>1. ChainInv => PinnedAssertionsHold
  <2>1. ASSUME ChainInv, NEW a \in ContentAssertions(Verified)
        PROVE  Unaffected(a)
    <3>1. CASE \E x \in Verified, y \in Verified : a \in AboutTwo(x, y)
      <4>1. PICK x \in Verified, y \in Verified : a \in AboutTwo(x, y)
        BY <3>1
      <4> QED
        BY <2>1, <4>1, ScopeUnaffected, FieldUnaffected, TimeUnaffected, Zenon DEF AboutTwo
    <3>2. CASE \E x \in Verified, y \in Verified, z \in Verified : a = AboutThree(x, y, z)
      <4>1. PICK x \in Verified, y \in Verified, z \in Verified : a = AboutThree(x, y, z)
        BY <3>2
      <4> QED
        BY <2>1, <4>1, RecurringUnaffected, Zenon DEF AboutThree
    <3> QED
      BY <3>1, <3>2, AssertionKinds, ZenonT(60)
  <2>2. ASSUME ChainInv, NEW a \in ReferenceAssertions(Verified)
        PROVE  Compared(a)
    <3>1. PICK x \in Verified, y \in Verified, j \in 1 .. 2, k \in 1 .. 2 :
            a = [kind |-> "field_equals", a |-> BindPath(x, j), b |-> BindPath(y, k)]
      BY DEF ReferenceAssertions
    <3> QED
      BY <2>2, <3>1, ReferencesCompared, Zenon
  <2> QED
    BY <2>1, <2>2, Zenon DEF PinnedAssertionsHold, Unaffected, Compared
<1> QED
  BY <1>1, ChainInvariant, PTL

=============================================================================
