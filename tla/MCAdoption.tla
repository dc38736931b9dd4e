----------------------------- MODULE MCAdoption -----------------------------
(***************************************************************************)
(* Projects for the guardrail in all variations: the manifest with a pin,  *)
(* a range, the name of another ecosystem or none; up to three NOTICE      *)
(* files in two places; prose that quotes the pin; the vectors in a test   *)
(* directory or in one that is skipped.  And, against the copying of       *)
(* anchors between scripts, one complete project for every single anchor   *)
(* of every package.                                                       *)
(***************************************************************************)
EXTENDS Adoption, TLC

At(dir, stem, suffix) == [dir |-> dir, name |-> <<stem, suffix>>]

Manifest == At(<< >>, "requirements", ".txt")
ReadMe == At(<< >>, "README", ".md")
Notice == At(<< >>, "NOTICE", "")
NoticeMd == At(<< >>, "NOTICE", ".md")
DocsNotice == At(<<"docs">>, "NOTICE", "")
Vectors == At(<<"tests", "vectors">>, "vectors", ".json")
Vendored == At(<<"node_modules", "vectors">>, "vectors", ".json")
CsProject == At(<< >>, "app", ".csproj")

Guardrail == SpendGuardrail.package
Named == {AlgoVoi, <<"named", Guardrail>>}

\* A file without content is not there.
Present(f) == [p \in {q \in DOMAIN f : f[q] # {}} |-> f[p]]

Varied ==
    {Present(manifest @@ notices @@ vectors) :
        manifest \in [{Manifest} -> {{}} \cup {{<<form, Guardrail>>} : form \in {"==", ">=", "@algovoi/"}}],
        notices \in [{Notice, NoticeMd, DocsNotice} -> {{}, {AlgoVoi}, Named}],
        vectors \in {(p :> {<<"anchor", "b3594e">>}) : p \in {Vectors, Vendored}}}

Prose == (ReadMe :> {<<"==", Guardrail>>})
      @@ (CsProject :> {<<"AlgoVoi.", Guardrail>>})
      @@ (Manifest :> {<<"~=", "algovoi-policy-binding">>, <<">=", Guardrail>>})
      @@ (Vectors :> {<<"anchor", "792a5b">>, AlgoVoi}) @@ (Notice :> Named)

Complete(s, anchor) ==
    (Manifest :> {<<"~=", s.package>>, anchor}) @@ (Notice :> {<<"named", s.package>>})

MCSubmission ==
    [p \in {s.package : s \in Scripts} |->
        (UNION {{Complete(s, anchor) : anchor \in s.anchors} : s \in {x \in Scripts : x.package = p}})
        \cup IF p = Guardrail THEN Varied \cup {Prose} ELSE {}]

Given(project, lockfile, notice) == [project |-> project, lockfile |-> lockfile, notice |-> notice]

MCOption ==
    {Given(TRUE, Missing, Missing), Given(FALSE, Manifest, Missing), Given(FALSE, CsProject, NoticeMd),
     Given(FALSE, Manifest, Notice)}
=============================================================================
