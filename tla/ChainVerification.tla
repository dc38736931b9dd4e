------------------------- MODULE ChainVerification --------------------------
(***************************************************************************)
(* `verify_chain` (algovoi_keystone.verify): links that refer to earlier   *)
(* links by @name, declared refs, pinned refs and assertions.  An author   *)
(* composes a chain, a custodian changes it, a third party verifies it.    *)
(*                                                                         *)
(* A preimage is its content (the fields an assertion can look at) and its *)
(* binds (the fields that refer to other links: a marker, or a ref spelled *)
(* out).  A reference is what it hashes: the content, and for each marker  *)
(* the reference of the link it names.  A link's name is in no reference,  *)
(* nor is whether a number is written 1 or 1.0: the canonical form has 1.  *)
(* The numbers of a content that are written the second way are `floats`.  *)
(***************************************************************************)
EXTENDS Integers, Sequences, FiniteSets

CONSTANTS
    Name,      \* link names
    Content,   \* contents: functions from some fields to values
    Act,       \* things one may want to do, to say what a scope permits
    MaxSafe,   \* _MAX_SAFE_INT
    MaxLinks,  \* bound: links composed
    MaxEdits   \* bound: changes made by the custodian

\* The fields of a content that are numbers.
Numbers ==
    {"not_before_ms", "not_after_ms", "executed_at_ms", "revoked_at_ms", "expires_at",
     "amount_minor", "max_amount", "per_cycle_amount_minor", "cap_amount_minor"}

\* What scope_contains compares: a path and an amount.
IsScope(s) ==
    /\ "resource" \in DOMAIN s => s.resource \in Seq(STRING)
    /\ "max_amount" \in DOMAIN s => s.max_amount \in Int

\* A content, as far as assertions look at it.
IsContent(c) ==
    /\ \A f \in Numbers \cap DOMAIN c : c[f] \in Int
    /\ "scope" \in DOMAIN c => IsScope(c.scope)

ASSUME ChainAssumption ==
    /\ {MaxSafe, MaxLinks, MaxEdits} \subseteq Nat
    /\ \A c \in Content : IsContent(c)
    /\ \A act \in Act : act.resource \in Seq(STRING) /\ act.amount \in Int

VARIABLES
    signed,  \* the chain as composed
    links,   \* the chain as presented
    edits    \* changes made by the custodian so far

vars == <<signed, links, edits>>

None == << >>
Given(x) == <<x>>

Marker(n) == [at |-> n]
Literal(ref) == [literal |-> ref]

Named(ls) == {ls[i].name : i \in DOMAIN ls}
IndexOf(ls, n) == CHOOSE i \in DOMAIN ls : ls[i].name = n
ContentOf(ls, n) == ls[IndexOf(ls, n)].content

\* What is hashed of a content: its numbers in canonical form.
Canonical(c) == [f \in DOMAIN c \ {"floats"} |-> c[f]]

\* _binds: the links this preimage refers to by name.
Binds(link) == {n \in Name : \E j \in DOMAIN link.binds : link.binds[j] = Marker(n)}

\* Fault: a marker is hashed as it is written.
RefsByName(ls) ==
    [i \in DOMAIN ls |-> [content |-> Canonical(ls[i].content), binds |-> ls[i].binds]]

\* _resolve and _ref: the reference of each link, in order.
Refs(ls) ==
    LET ref[i \in DOMAIN ls] ==
            [content |-> Canonical(ls[i].content),
             binds |-> [j \in DOMAIN ls[i].binds |->
                IF "at" \in DOMAIN ls[i].binds[j]
                THEN ref[IndexOf(ls, ls[i].binds[j].at)]
                ELSE ls[i].binds[j].literal]]
    IN ref

RefOf(ls, n) == Refs(ls)[IndexOf(ls, n)]

\* What verify_chain does not refuse with KeystoneError: links with names of
\* their own that refer to earlier links only.
WellFormed(ls) ==
    /\ ls # << >>
    /\ \A i, j \in DOMAIN ls : ls[i].name = ls[j].name => i = j
    /\ \A i \in DOMAIN ls : Binds(ls[i]) \subseteq {ls[j].name : j \in 1 .. i - 1}

\* A link recomputes to the ref it declares, if it does.
LinkOk(ls, i) == ls[i].ref \in {None, Given(Refs(ls)[i])}

\* Fault: the pinned ref may be that of any link.
PinAnywhere(ls, n, want) == \E m \in Named(ls) : RefOf(ls, m) = want

\* _pin_results
PinHolds(ls, n, want) == n \in Named(ls) /\ RefOf(ls, n) = want

-----------------------------------------------------------------------------
(* Assertions *)

Field(c, f, default) == IF f \in DOMAIN c THEN c[f] ELSE default
Within(path, sub) == Len(path) <= Len(sub) /\ SubSeq(sub, 1, Len(path)) = path

\* scope_contains, for scopes that are objects
ScopeContains(outer, inner) ==
    /\ "resource" \in DOMAIN outer => Within(outer.resource, Field(inner, "resource", << >>))
    /\ "max_amount" \in DOMAIN outer =>
        "max_amount" \in DOMAIN inner /\ inner.max_amount <= outer.max_amount
    /\ \A dim \in {"capabilities", "jurisdictions"} \cap DOMAIN outer :
        Field(inner, dim, {}) \subseteq outer[dim]

\* scope_subset; two links without a scope have equal scopes
ScopeSubset(inner, outer) ==
    IF "scope" \in DOMAIN outer /\ "scope" \in DOMAIN inner
    THEN ScopeContains(outer.scope, inner.scope)
    ELSE "scope" \notin DOMAIN outer /\ "scope" \notin DOMAIN inner

\* isinstance(v, int), of a field that is there
Integral(c, f) == f \notin Field(c, "floats", {})

\* time_within, for a time that is an integer
TimeWithin(time, window) ==
    /\ \A f \in {"not_before_ms", "not_after_ms"} : f \in DOMAIN window /\ Integral(window, f)
    /\ window.not_before_ms <= time
    /\ time <= window.not_after_ms

\* not_revoked, for a time that is an integer
NotRevoked(time, revocation) ==
    "revoked_at_ms" \in DOMAIN revocation /\ Integral(revocation, "revoked_at_ms") /\ time < revocation.revoked_at_ms

\* Fault: one hop is enough.
JourneySomeHop(ls, ref, hops) ==
    \E i \in DOMAIN hops : hops[i] \in Binds(ls[IndexOf(ls, ref)]) \cap Named(ls)

\* journey: the link binds every declared hop, and there are some
Journey(ls, ref, hops) ==
    /\ hops # << >>
    /\ \A i \in DOMAIN hops : hops[i] \in Binds(ls[IndexOf(ls, ref)]) \cap Named(ls)

\* _pos_intish, for a field that may be missing
Positive(c, f) == f \in DOMAIN c /\ 0 < c[f] /\ c[f] <= MaxSafe

\* The sum the loop of recurring_cap arrives at.
Total(es) ==
    LET sum[i \in 0 .. Len(es)] == IF i = 0 THEN 0 ELSE sum[i - 1] + es[i].amount_minor
    IN sum[Len(es)]

\* The authority is complete and within its policy.
AuthorityOk(authority, policy) ==
    /\ Positive(authority, "per_cycle_amount_minor") /\ Positive(authority, "cap_amount_minor")
    /\ Positive(policy, "max_amount")
    /\ "expires_at" \in DOMAIN authority
    /\ authority.per_cycle_amount_minor <= policy.max_amount

\* An execution is within the cycle and the window.
CycleOk(authority, e) ==
    /\ Positive(e, "amount_minor") /\ Positive(e, "executed_at_ms")
    /\ e.amount_minor <= authority.per_cycle_amount_minor
    /\ e.executed_at_ms <= authority.expires_at

\* Fault: each execution is compared with the period cap, not their sum.
EachUnderCap(authority, policy, es) ==
    /\ AuthorityOk(authority, policy)
    /\ \A i \in DOMAIN es :
        CycleOk(authority, es[i]) /\ es[i].amount_minor <= authority.cap_amount_minor

\* recurring_cap
RecurringCap(authority, policy, es) ==
    /\ AuthorityOk(authority, policy)
    /\ \A i \in DOMAIN es : CycleOk(authority, es[i])
    /\ Total(es) <= authority.cap_amount_minor

\* The paths of an assertion: to a field of the content, or to one that refers
\* to another link.
Path(n, f) == [link |-> n, field |-> f]
BindPath(n, j) == [link |-> n, bind |-> j]

\* The links an assertion cannot do without, and the paths _get must find.
Subjects(a) ==
    CASE a.kind = "scope_subset" -> {a.inner, a.outer}
      [] a.kind = "field_equals" -> {a.a.link, a.b.link}
      [] a.kind = "time_within" -> {a.window, a.time.link}
      [] a.kind = "not_revoked" -> {a.action, a.revocation, a.time.link}
      [] a.kind = "journey" -> {a.ref}
      [] a.kind = "recurring_cap" ->
            {a.authority, a.policy} \cup {a.executions[i] : i \in DOMAIN a.executions}

Paths(a) ==
    CASE a.kind = "field_equals" -> {a.a, a.b}
      [] a.kind \in {"time_within", "not_revoked"} -> {a.time}
      [] OTHER -> {}

BindsOf(ls, n) == ls[IndexOf(ls, n)].binds

\* _assert does not raise KeystoneError.
Applies(ls, a) ==
    /\ Subjects(a) \subseteq Named(ls)
    /\ \A p \in Paths(a) :
        \/ "field" \in DOMAIN p /\ p.field \in DOMAIN ContentOf(ls, p.link)
        \/ "bind" \in DOMAIN p /\ p.bind \in DOMAIN BindsOf(ls, p.link)

\* _get: of a field that refers to a link, what is written there.
At(ls, path) ==
    IF "bind" \in DOMAIN path
    THEN BindsOf(ls, path.link)[path.bind]
    ELSE ContentOf(ls, path.link)[path.field]

\* isinstance(t, int): what refers to a link is a string.
IntegralAt(ls, path) ==
    "field" \in DOMAIN path /\ Integral(ContentOf(ls, path.link), path.field)

\* _assert
Holds(ls, a) ==
    CASE a.kind = "scope_subset" -> ScopeSubset(ContentOf(ls, a.inner), ContentOf(ls, a.outer))
      [] a.kind = "field_equals" -> At(ls, a.a) = At(ls, a.b)
      [] a.kind = "time_within" -> IntegralAt(ls, a.time) /\ TimeWithin(At(ls, a.time), ContentOf(ls, a.window))
      [] a.kind = "not_revoked" -> IntegralAt(ls, a.time) /\ NotRevoked(At(ls, a.time), ContentOf(ls, a.revocation))
      [] a.kind = "journey" -> Journey(ls, a.ref, a.hops)
      [] a.kind = "recurring_cap" ->
            RecurringCap(ContentOf(ls, a.authority), ContentOf(ls, a.policy),
                         [i \in DOMAIN a.executions |-> ContentOf(ls, a.executions[i])])

\* verify_chain returns a result that is ok.
VerifyChain(ls, assertions, expect) ==
    /\ WellFormed(ls)
    /\ \A i \in DOMAIN ls : LinkOk(ls, i)
    /\ \A n \in DOMAIN expect : PinHolds(ls, n, expect[n])
    /\ \A a \in assertions : Applies(ls, a) /\ Holds(ls, a)

-----------------------------------------------------------------------------
(* The author, the custodian *)

Init == signed = << >> /\ links = << >> /\ edits = 0

\* The next link of the chain, declaring the ref it recomputes to.
Compose(n, c, binds) ==
    LET ls == Append(signed, [name |-> n, content |-> c, binds |-> binds, ref |-> None]) IN
    /\ edits = 0
    /\ Len(signed) < MaxLinks
    /\ n \notin Named(signed)
    /\ signed' = [ls EXCEPT ![Len(ls)].ref = Given(Refs(ls)[Len(ls)])]
    /\ links' = signed'
    /\ UNCHANGED edits

\* What a link can bind: up to two of the links before it.
Markers == {Marker(n) : n \in Named(signed)}
BindLists == {<< >>} \cup {<<v>> : v \in Markers} \cup {<<v, w>> : v, w \in Markers}

Edit(ls) ==
    /\ edits < MaxEdits
    /\ edits' = edits + 1
    /\ links' = ls
    /\ UNCHANGED signed

\* The fields whose type an assertion looks at, and one it does not.
NumberFields == {"not_before_ms", "not_after_ms", "executed_at_ms", "revoked_at_ms", "amount_minor"}

\* A content with one number written the other way.
Rewritten(c, f) ==
    [x \in DOMAIN c \cup {"floats"} |->
        IF x # "floats" THEN c[x]
        ELSE IF Integral(c, f) THEN Field(c, "floats", {}) \cup {f} ELSE c.floats \ {f}]

Exchanged(ls, i, j) == [ls EXCEPT ![i] = ls[j], ![j] = ls[i]]

CustodianStep ==
    \/ \E i \in DOMAIN links :
        \/ \E c \in Content : Edit([links EXCEPT ![i].content = c])
        \/ \E f \in NumberFields \cap DOMAIN links[i].content :
            Edit([links EXCEPT ![i].content = Rewritten(@, f)])
        \/ \E j \in DOMAIN links[i].binds :
            \E v \in Markers \cup {Literal(Refs(signed)[k]) : k \in DOMAIN signed} :
                Edit([links EXCEPT ![i].binds[j] = v])
        \/ Edit(SubSeq(links, 1, i - 1) \o SubSeq(links, i + 1, Len(links)))
        \/ \E j \in 1 .. i - 1 :
            \/ Edit(Exchanged(links, i, j))
            \/ Edit([links EXCEPT ![i].name = links[j].name, ![j].name = links[i].name])
    \/ WellFormed(links) /\ \E i \in DOMAIN links :
        \E ref \in {None, Given(Refs(links)[i])} : Edit([links EXCEPT ![i].ref = ref])

Next ==
    \/ \E n \in Name, c \in Content, binds \in BindLists : Compose(n, c, binds)
    \/ CustodianStep

Spec == Init /\ [][Next]_vars

-----------------------------------------------------------------------------
(* Properties *)

\* The links that the i-th binds, directly or through others, and itself.
Reach(ls, i) ==
    LET reach[j \in DOMAIN ls] ==
            {j} \cup UNION {reach[IndexOf(ls, n)] : n \in Binds(ls[j])}
    IN reach[i]

Changed == {i \in DOMAIN signed : Canonical(links[i].content) # Canonical(signed[i].content)}

\* "Tamper any link and that link, and every link that binds it, diverge", and
\* no other: when only contents were changed, the links that stop matching
\* their declared refs are those that reach a change.
TamperDiverges ==
    (/\ Len(links) = Len(signed)
     /\ \A i \in DOMAIN signed : links[i] = [signed[i] EXCEPT !.content = links[i].content])
        => \A i \in DOMAIN links : LinkOk(links, i) <=> Reach(links, i) \cap Changed = {}

Reached(ls, n) == {Refs(ls)[i] : i \in Reach(ls, IndexOf(ls, n))}

\* The pins a third party holds: refs of composed links.
Pins(ns) == [n \in ns |-> RefOf(signed, n)]

\* The links the chain verifies with, their ref pinned; any set of them may be
\* pinned together.
Verified == {n \in Named(signed) : VerifyChain(links, {}, Pins({n}))}

\* One pinned link commits to everything it binds, through any number of
\* links and whatever they are called now: the links it reaches are composed
\* ones that it reached, and all of them unless a ref was spelled out.
PinnedCommits ==
    \A n \in Verified :
        /\ Reached(links, n) \subseteq Reached(signed, n)
        /\ (\A i \in Reach(links, IndexOf(links, n)) : \A j \in DOMAIN links[i].binds :
                "at" \in DOMAIN links[i].binds[j])
            => Reached(links, n) = Reached(signed, n)

\* Assertions about the contents of two links, or three.
AboutTwo(x, y) ==
    {[kind |-> "scope_subset", inner |-> x, outer |-> y],
     [kind |-> "field_equals", a |-> Path(x, "max_amount"), b |-> Path(y, "amount_minor")],
     [kind |-> "time_within", time |-> Path(x, "executed_at_ms"), window |-> y],
     [kind |-> "not_revoked", action |-> x, time |-> Path(x, "executed_at_ms"), revocation |-> y]}

AboutThree(x, y, z) ==
    [kind |-> "recurring_cap", authority |-> x, policy |-> x, executions |-> <<y, z>>]

ContentAssertions(ns) ==
    (UNION {AboutTwo(x, y) : x, y \in ns}) \cup {AboutThree(x, y, z) : x, y, z \in ns}

\* Some number of a link that an assertion looks at is written as a float.
Floats(ls, a) == \E n \in Subjects(a) : Field(ContentOf(ls, n), "floats", {}) # {}

\* Assertions that two fields refer to the same link; a link has up to two.
ReferenceAssertions(ns) ==
    {[kind |-> "field_equals", a |-> BindPath(x, j), b |-> BindPath(y, k)] :
        x, y \in ns, j, k \in 1 .. 2}

\* The reference that is hashed at a path.
ReferenceAt(ls, path) == RefOf(ls, path.link).binds[path.bind]

\* An assertion about pinned links means what it meant when they were pinned,
\* whatever else was changed and whoever bears which name in between.  But for
\* two things, which change a verdict and no reference.  time_within and
\* not_revoked refuse a time that is written as a float.  And field_equals
\* compares references as they are written: two that it finds equal are equal
\* in the composed chain, but equal ones that are written differently, a
\* marker and a ref spelled out or two names, it does not find equal.
PinnedAssertionsHold ==
    /\ \A a \in ContentAssertions(Verified) :
        /\ Applies(links, a) <=> Applies(signed, a)
        /\ Applies(signed, a) =>
            \/ Holds(links, a) <=> Holds(signed, a)
            \/ a.kind \in {"time_within", "not_revoked"} /\ (Floats(links, a) \/ Floats(signed, a))
    /\ \A a \in ReferenceAssertions(Verified) :
        /\ Applies(links, a) <=> Applies(signed, a)
        /\ Applies(links, a) /\ Holds(links, a) =>
            ReferenceAt(signed, a.a) = ReferenceAt(signed, a.b)

\* A journey that verifies with its ref and its hops pinned binds every hop in
\* the composed chain as well: no hop is omitted, none replaced.
JourneyCovers ==
    \A n, h, k \in Verified :
        VerifyChain(links, {[kind |-> "journey", ref |-> n, hops |-> <<h, k>>]}, Pins({n, h, k}))
            => \A hop \in {h, k} :
                \E j \in DOMAIN RefOf(signed, n).binds :
                    RefOf(signed, n).binds[j] = RefOf(signed, hop)

\* What a scope permits; a dimension it does not have is not constrained.
Permits(scope, act) ==
    /\ "resource" \in DOMAIN scope => Within(scope.resource, act.resource)
    /\ "max_amount" \in DOMAIN scope => act.amount <= scope.max_amount
    /\ "jurisdictions" \in DOMAIN scope => act.jurisdiction \in scope.jurisdictions

Permitted(c) == {act \in Act : "scope" \in DOMAIN c => Permits(c.scope, act)}

\* What scope_contains says of itself: fail-closed where the outer scope
\* constrains a dimension the inner one does not demonstrate it stays within,
\* so that the inner scope of a verified scope_subset widened nothing.
ScopeNeverWidened ==
    \A x, y \in Named(links) :
        VerifyChain(links, {[kind |-> "scope_subset", inner |-> x, outer |-> y]}, << >>)
            => Permitted(ContentOf(links, x)) \subseteq Permitted(ContentOf(links, y))

\* Executions that recurring_cap accepts stay, together, inside the authority,
\* and each inside its policy and its window.
RecurringBounded ==
    \A x, p, y, z \in DOMAIN links :
        LET authority == links[x].content
            es == <<links[y].content, links[z].content>>
        IN RecurringCap(authority, links[p].content, es) =>
            /\ es[1].amount_minor + es[2].amount_minor <= authority.cap_amount_minor
            /\ \A e \in {es[1], es[2]} :
                /\ e.amount_minor \in 1 .. links[p].content.max_amount
                /\ e.executed_at_ms <= authority.expires_at

=============================================================================
