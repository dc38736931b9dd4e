--------------------------- MODULE AdoptionProofs ---------------------------
(***************************************************************************)
(* Proofs about Adoption, for any scripts' submissions, command lines and  *)
(* number of changes: what a key was issued on, and that the verdict does  *)
(* not depend on the order in which files are read.                        *)
(***************************************************************************)
EXTENDS Adoption, TLAPS

CheckSet == {"dependency", "anchor", "notice", "pin"}

LEMMA ChecksAre ==
    /\ ToSet(Checks) = CheckSet
    /\ \A i \in DOMAIN Checks : Checks[i] \in CheckSet
BY DEF ToSet, Checks, CheckSet

\* A line that a check looks for is a line.
LEMMA NothingMatchesNothing ==
    ASSUME NEW check \in CheckSet
    PROVE  ~Match(check, {})
BY DEF Match, Has, CheckSet

\* Whatever a check finds, it finds in more lines as well.
LEMMA MatchMonotone ==
    ASSUME NEW check \in CheckSet, NEW few, NEW many, few \subseteq many, Match(check, few)
    PROVE  Match(check, many)
BY DEF Match, Has, CheckSet

-----------------------------------------------------------------------------
(* What a key was issued on *)

\* Where a check takes its files from, as far as names say.
Kin(check, f) ==
    CASE check = "notice" -> f.name \in NoticeNames \/ f = option.notice
      [] check = "anchor" -> f \in listed
      [] check \in {"dependency", "pin"} -> f \in listed /\ IsLockfile(f)

\* A file that once had what the check looks for.
Evidence(check) == \E f \in DOMAIN seen : Kin(check, f) /\ Match(check, seen[f])

SeenAll == \A f \in DOMAIN tree : f \in DOMAIN seen /\ tree[f] \subseteq seen[f]
TodoKin == IF at \in CheckSet THEN \A f \in todo : Kin(at, f) ELSE todo = {}

EvidenceInv ==
    /\ at \in CheckSet \cup {"start", "done"}
    /\ SeenAll
    /\ TodoKin
    /\ at = "start" => \A check \in CheckSet : ~result[check]
    /\ DOMAIN result = CheckSet
    /\ \A check \in CheckSet : result[check] => Evidence(check)

LEMMA EvidenceAtFirst == Init => EvidenceInv
BY ChecksAre DEF Init, EvidenceInv, SeenAll, TodoKin, CheckSet

LEMMA EvidenceStart ==
    ASSUME EvidenceInv, Start
    PROVE  EvidenceInv'
<1> USE DEF EvidenceInv
<1>1. SeenAll'
  BY DEF Start, SeenAll
<1>2. TodoKin'
  BY DEF Start, TodoKin, Kin, CheckSet, IsLockfile
<1>3. \A check \in CheckSet : ~result'[check]
  BY DEF Start
<1> QED
  BY <1>1, <1>2, <1>3 DEF Start, CheckSet

LEMMA EvidenceRead ==
    ASSUME EvidenceInv, NEW f, NEW lines, ReadFile(f, lines), lines \subseteq Content(f)
    PROVE  EvidenceInv'
<1>1. at \in CheckSet /\ Kin(at, f)
  BY DEF EvidenceInv, TodoKin, ReadFile
<1>2. SeenAll'
  BY DEF EvidenceInv, ReadFile, SeenAll
<1>3. TodoKin'
  <2>1. todo' \subseteq todo
    BY DEF ReadFile
  <2> QED
    BY <1>1, <2>1 DEF EvidenceInv, ReadFile, TodoKin, Kin, IsLockfile
<1>4. Match(at, lines) => Evidence(at)
  <2> SUFFICES ASSUME Match(at, lines) PROVE Evidence(at)
    OBVIOUS
  <2>1. lines # {}
    BY <1>1, NothingMatchesNothing
  <2>2. f \in DOMAIN seen /\ lines \subseteq seen[f]
    BY <2>1 DEF EvidenceInv, SeenAll, Content
  <2>3. Match(at, seen[f])
    BY <1>1, <2>2, MatchMonotone
  <2> QED
    BY <1>1, <2>2, <2>3 DEF Evidence
<1>5. \A check \in CheckSet : Evidence(check)' <=> Evidence(check)
  BY DEF ReadFile, Evidence, Kin, IsLockfile, Match, Has
<1>6. \A check \in CheckSet : result'[check] => Evidence(check)
  BY <1>1, <1>4 DEF EvidenceInv, ReadFile
<1>7. DOMAIN result' = CheckSet /\ at' = at /\ at # "start"
  BY <1>1 DEF EvidenceInv, ReadFile, CheckSet
<1> QED
  BY <1>1, <1>2, <1>3, <1>5, <1>6, <1>7 DEF EvidenceInv

LEMMA EvidenceNextCheck ==
    ASSUME EvidenceInv, NextCheck
    PROVE  EvidenceInv'
<1>1. PICK i \in DOMAIN Checks : Checks[i] = at
  BY ChecksAre DEF NextCheck, ToSet
<1> DEFINE k == CHOOSE j \in DOMAIN Checks : Checks[j] = at
<1>2. k \in DOMAIN Checks
  BY <1>1
<1>3. IF k = Len(Checks) THEN at' = "done" /\ todo' = {}
      ELSE at' = Checks[k + 1] /\ todo' = FilesFor(at')
  BY DEF NextCheck
<1> HIDE DEF k
<1>4. at' \in CheckSet \/ (at' = "done" /\ todo' = {})
  <2>1. DOMAIN Checks = 1 .. 4 /\ Len(Checks) = 4
    BY DEF Checks
  <2> QED
    BY <1>2, <1>3, <2>1, ChecksAre
<1>5. SeenAll'
  BY DEF NextCheck, EvidenceInv, SeenAll
<1>6. TodoKin'
  <2>1. CASE at' = "done"
    BY <1>4, <2>1 DEF TodoKin, CheckSet
  <2>2. CASE at' \in CheckSet
    <3>1. todo' = FilesFor(at')
      BY <1>3, <2>2 DEF CheckSet
    <3> QED
      BY <2>2, <3>1 DEF NextCheck, FilesFor, Notices, TodoKin, Kin, IsLockfile, CheckSet
  <2> QED
    BY <1>4, <2>1, <2>2
<1>7. \A check \in CheckSet : Evidence(check)' <=> Evidence(check)
  BY DEF NextCheck, Evidence, Kin, IsLockfile, Match, Has
<1> QED
  BY <1>4, <1>5, <1>6, <1>7 DEF EvidenceInv, NextCheck, CheckSet

LEMMA EvidenceEdit ==
    ASSUME EvidenceInv, Edit
    PROVE  EvidenceInv'
<1>1. at \in CheckSet
  BY ChecksAre DEF Edit
<1>2. DOMAIN seen' = DOMAIN seen /\ \A f \in DOMAIN seen : seen[f] \subseteq seen'[f]
  BY DEF Edit
<1>3. SeenAll'
  <2>1. DOMAIN tree' \subseteq DOMAIN tree
    BY DEF Edit
  <2>2. \A f \in DOMAIN tree' : f \in DOMAIN seen' /\ tree'[f] \subseteq seen'[f]
    BY <2>1 DEF Edit, EvidenceInv, SeenAll
  <2> QED
    BY <2>2 DEF SeenAll
<1>4. TodoKin'
  BY <1>1 DEF Edit, EvidenceInv, TodoKin, Kin, IsLockfile
<1>5. \A check \in CheckSet : Evidence(check) => Evidence(check)'
  <2> SUFFICES ASSUME NEW check \in CheckSet, NEW f \in DOMAIN seen, Kin(check, f),
                      Match(check, seen[f])
               PROVE  Evidence(check)'
    BY DEF Evidence
  <2>1. Match(check, seen'[f])
    BY <1>2, MatchMonotone
  <2>2. Match(check, seen[f])' 
    BY <2>1 DEF Match, Has, Edit
  <2>3. Kin(check, f)'
    BY DEF Kin, IsLockfile, Edit
  <2> QED
    BY <1>2, <2>2, <2>3 DEF Evidence
<1> QED
  BY <1>1, <1>3, <1>4, <1>5 DEF EvidenceInv, Edit, CheckSet

LEMMA EvidenceKept == EvidenceInv /\ [Next]_vars => EvidenceInv'
<1> SUFFICES ASSUME EvidenceInv, [Next]_vars PROVE EvidenceInv'
  OBVIOUS
<1>1. CASE Start
  BY <1>1, EvidenceStart
<1>2. CASE Read
  BY <1>2, EvidenceRead DEF Read
<1>3. CASE ReadFails
  BY <1>3, EvidenceRead DEF ReadFails
<1>4. CASE NextCheck
  BY <1>4, EvidenceNextCheck
<1>5. CASE Edit
  BY <1>5, EvidenceEdit
<1>6. CASE UNCHANGED vars
  <2>1. SeenAll' /\ TodoKin'
    BY <1>6 DEF vars, EvidenceInv, SeenAll, TodoKin, Kin, IsLockfile
  <2>2. \A check \in CheckSet : Evidence(check)' <=> Evidence(check)
    BY <1>6 DEF vars, Evidence, Kin, IsLockfile, Match, Has
  <2> QED
    BY <1>6, <2>1, <2>2 DEF vars, EvidenceInv
<1> QED
  BY <1>1, <1>2, <1>3, <1>4, <1>5, <1>6 DEF Next

\* The invariant behind the evidence: every check that has passed has had a
\* file of its kind with what it looks for, at that moment or before.
THEOREM EvidenceInvariant == Spec => []EvidenceInv
BY EvidenceAtFirst, EvidenceKept, PTL DEF Spec

\* A key is never issued without evidence for each of the four checks,
\* whatever is changed or unreadable between the reads.
THEOREM KeysAlwaysIssuedOnEvidence == Spec => []IssuedOnEvidence
<1>1. EvidenceInv => IssuedOnEvidence
  <2> SUFFICES ASSUME EvidenceInv, Issued PROVE IssuedOnEvidence
    BY DEF IssuedOnEvidence
  <2>1. \A check \in CheckSet : result[check]
    BY DEF Issued, ExitCode, EvidenceInv
  <2>2. \A check \in CheckSet : Evidence(check)
    BY <2>1 DEF EvidenceInv
  <2> QED
    BY <2>2 DEF CheckSet, Evidence, Kin, Match, IssuedOnEvidence
<1> QED
  BY <1>1, EvidenceInvariant, PTL

-----------------------------------------------------------------------------
(* The order of the reads *)

\* The checks that are over and those that have not begun.
Past ==
    CASE at = "anchor" -> {"dependency"}
      [] at = "notice" -> {"dependency", "anchor"}
      [] at = "pin"    -> {"dependency", "anchor", "notice"}
      [] at = "done"   -> CheckSet
      [] OTHER         -> {}
Ahead == CheckSet \ (Past \cup {at})

\* What a check should find.
Found(check) ==
    \E f \in IF check = "notice" THEN Deciding ELSE FilesFor(check) : Match(check, Content(f))

\* How far the check of the NOTICE files is: none of those read mentions
\* AlgoVoi, or one that decides did.
NoticeProgress ==
    IF \A f \in Notices \ todo : ~MentionsAlgoVoi(Content(f))
    THEN /\ ~result["notice"]
         /\ \A f \in Notices \ todo, g \in todo : Rank(f) <= Rank(g)
    ELSE /\ todo = {}
         /\ \E f \in Deciding : result["notice"] <=> Match("notice", Content(f))

\* How far another check is: no match among those read is missed.
FileProgress ==
    /\ result[at] => Found(at)
    /\ \A f \in FilesFor(at) \ todo : Match(at, Content(f)) => result[at]

Progress ==
    at \in CheckSet =>
        /\ todo \subseteq FilesFor(at)
        /\ IF at = "notice" THEN NoticeProgress ELSE FileProgress

Regular == edits = 0 /\ ~NoticesDisagree

OrderInv ==
    /\ edits \in Nat
    /\ at \in CheckSet \cup {"start", "done"}
    /\ result \in [CheckSet -> BOOLEAN]
    /\ at \notin CheckSet => todo = {}
    /\ Regular =>
        /\ \A check \in Past : result[check] <=> Found(check)
        /\ \A check \in Ahead : ~result[check]
        /\ Progress

LEMMA RanksTotal ==
    \A f, g : Rank(f) \in 0 .. 2 /\ Rank(g) \in 0 .. 2 /\ (Rank(f) <= Rank(g) \/ Rank(g) <= Rank(f))
BY DEF Rank

LEMMA NamedMentions ==
    ASSUME NEW lines, Match("notice", lines)
    PROVE  MentionsAlgoVoi(lines)
BY DEF Match, Has, MentionsAlgoVoi

LEMMA OrderAtFirst == Init => OrderInv
<1> SUFFICES ASSUME Init PROVE OrderInv
  OBVIOUS
<1>1. result = [check \in CheckSet |-> FALSE]
  BY ChecksAre DEF Init
<1>2. Past = {} /\ at = "start"
  BY DEF Init, Past
<1> QED
  BY <1>1, <1>2 DEF Init, OrderInv, CheckSet, Ahead, Progress

\* The files of a check that is not concerned stay where they are.
LEMMA FoundFrame ==
    ASSUME UNCHANGED <<script, option, tree, listed>>
    PROVE  /\ Regular' <=> edits' = 0 /\ ~NoticesDisagree
           /\ \A check : Found(check)' <=> Found(check)
           /\ \A check : FilesFor(check)' = FilesFor(check)
           /\ Notices' = Notices /\ Deciding' = Deciding
           /\ \A f : Content(f)' = Content(f) /\ Rank(f)' = Rank(f)
           /\ \A check, lines : Match(check, lines)' <=> Match(check, lines)
           /\ \A lines : MentionsAlgoVoi(lines)' <=> MentionsAlgoVoi(lines)
<1>1. Notices' = Notices
  BY DEF Notices, Skipped
<1>2. \A f : Content(f)' = Content(f) /\ Rank(f)' = Rank(f)
  BY DEF Content, Rank
<1>3. \A check, lines : Match(check, lines)' <=> Match(check, lines)
  BY DEF Match, Has
<1>4. \A lines : MentionsAlgoVoi(lines)' <=> MentionsAlgoVoi(lines)
  BY DEF MentionsAlgoVoi
<1>5. Deciding' = Deciding
  BY <1>1, <1>2, <1>4 DEF Deciding
<1>6. \A check : FilesFor(check)' = FilesFor(check)
  BY <1>1 DEF FilesFor, IsLockfile
<1>7. Regular' <=> edits' = 0 /\ ~NoticesDisagree
  BY <1>2, <1>3, <1>5 DEF Regular, NoticesDisagree
<1>8. \A check : Found(check)' <=> Found(check)
  BY <1>2, <1>3, <1>5, <1>6 DEF Found
<1> QED
  BY <1>1, <1>2, <1>3, <1>4, <1>5, <1>6, <1>7, <1>8

LEMMA OrderStart ==
    ASSUME OrderInv, Start
    PROVE  OrderInv'
<1>1. \A check \in CheckSet : Regular' => ~result[check]
  <2>1. Regular' => Regular
    BY DEF Start, Regular, NoticesDisagree, Deciding, Notices, Skipped, Content, Rank, Match, Has, MentionsAlgoVoi
  <2> QED
    BY <2>1 DEF OrderInv, Start, Past, Ahead, CheckSet
<1>2. at' = "dependency" /\ Past' = {} /\ result' = result /\ edits' = edits
  BY DEF Start, Past
<1>3. todo' = FilesFor("dependency")'
  BY DEF Start, FilesFor, IsLockfile
<1>4. Regular' => Progress'
  BY <1>1, <1>2, <1>3 DEF Progress, FileProgress, CheckSet
<1> QED
  BY <1>1, <1>2, <1>4 DEF OrderInv, CheckSet, Ahead

LEMMA OrderRead ==
    ASSUME OrderInv, Read
    PROVE  OrderInv'
<1>1. PICK f \in todo : ReadFile(f, Content(f)) /\ UNCHANGED edits
  BY DEF Read
<1> DEFINE found == Match(at, Content(f))
<1>2. at \in CheckSet /\ at' = at /\ Past' = Past /\ Ahead' = Ahead
  BY <1>1 DEF OrderInv, ReadFile, Past, Ahead
<1>3. /\ result' = [result EXCEPT ![at] = @ \/ found]
      /\ todo' = IF Settles(at, Content(f)) THEN {} ELSE todo \ {f}
  BY <1>1 DEF ReadFile
<1>4. at \notin Past /\ at \notin Ahead
  BY <1>2 DEF Past, Ahead, CheckSet
<1>5. UNCHANGED <<script, option, tree, listed>>
  BY <1>1 DEF ReadFile
<1>6. Regular' <=> Regular
  BY <1>1, <1>5, FoundFrame DEF Regular
<1> HIDE DEF found
<1>7. ASSUME Regular PROVE Progress'
  <2>1. Progress
    BY <1>7 DEF OrderInv
  <2>2. todo' \subseteq FilesFor(at)
    BY <1>2, <1>3, <2>1 DEF Progress
  <2>3. CASE at # "notice"
    <3>1. FileProgress
      BY <1>2, <2>1, <2>3 DEF Progress
    <3>2. f \in FilesFor(at)
      BY <1>1, <1>2, <2>1 DEF Progress
    <3>3. result'[at] => Found(at)
      BY <1>2, <1>3, <2>3, <3>1, <3>2 DEF FileProgress, Found, found, OrderInv
    <3>4. ASSUME NEW g \in FilesFor(at) \ todo', Match(at, Content(g))
          PROVE  result'[at]
      <4>1. CASE Settles(at, Content(f))
        BY <1>2, <1>3, <2>3, <4>1 DEF Settles, found, OrderInv
      <4>2. CASE ~Settles(at, Content(f)) /\ g = f
        BY <1>2, <1>3, <3>4, <4>2 DEF found, OrderInv
      <4>3. CASE ~Settles(at, Content(f)) /\ g # f
        BY <1>2, <1>3, <3>1, <3>4, <4>3 DEF FileProgress, OrderInv
      <4> QED
        BY <4>1, <4>2, <4>3
    <3>5. FileProgress'
      BY <1>2, <1>5, <3>3, <3>4, FoundFrame DEF FileProgress
    <3> QED
      BY <1>2, <1>5, <2>2, <2>3, <3>5, FoundFrame DEF Progress
  <2>4. CASE at = "notice"
    <3>1. NoticeProgress
      BY <1>2, <2>1, <2>4 DEF Progress
    <3>2. /\ \A g \in Notices \ todo : ~MentionsAlgoVoi(Content(g))
          /\ ~result["notice"]
          /\ \A g \in Notices \ todo, h \in todo : Rank(g) <= Rank(h)
      BY <1>1, <3>1 DEF NoticeProgress
    <3>3. f \in Notices /\ todo \subseteq Notices
      BY <1>1, <1>2, <2>1, <2>4 DEF Progress, FilesFor
    <3>4. \A g \in todo : Rank(f) <= Rank(g)
      BY <1>1, <2>4 DEF ReadFile
    <3>5. CASE MentionsAlgoVoi(Content(f))
      <4>1. todo' = {}
        BY <1>3, <2>4, <3>5 DEF Settles
      <4>2. f \in Deciding
        BY <3>2, <3>3, <3>4, <3>5 DEF Deciding
      <4>3. result'["notice"] <=> Match("notice", Content(f))
        BY <1>2, <1>3, <2>4, <3>2 DEF found, OrderInv, CheckSet
      <4>4. NoticeProgress'
        BY <1>5, <3>3, <3>5, <4>1, <4>2, <4>3, FoundFrame DEF NoticeProgress
      <4> QED
        BY <1>2, <1>5, <2>2, <2>4, <4>4, FoundFrame DEF Progress
    <3>6. CASE ~MentionsAlgoVoi(Content(f))
      <4>1. ~found
        BY <2>4, <3>6, NamedMentions DEF found
      <4>2. todo' = todo \ {f}
        BY <1>3, <2>4, <3>6 DEF Settles
      <4>3. ~result'["notice"]
        BY <1>2, <1>3, <2>4, <3>2, <4>1 DEF OrderInv, CheckSet
      <4>4. \A g \in Notices \ todo' : ~MentionsAlgoVoi(Content(g))
        BY <3>2, <3>6, <4>2
      <4>5. \A g \in Notices \ todo', h \in todo' : Rank(g) <= Rank(h)
        BY <3>2, <3>4, <4>2
      <4>6. NoticeProgress'
        BY <1>5, <4>3, <4>4, <4>5, FoundFrame DEF NoticeProgress
      <4> QED
        BY <1>2, <1>5, <2>2, <2>4, <4>6, FoundFrame DEF Progress
    <3> QED
      BY <3>5, <3>6
  <2> QED
    BY <2>3, <2>4
<1>8. ASSUME Regular
      PROVE  /\ \A check \in Past' : result'[check] <=> Found(check)'
             /\ \A check \in Ahead' : ~result'[check]
  <2>1. \A check \in Past : check # at /\ check \in CheckSet
    BY <1>4 DEF Past, CheckSet
  <2>2. \A check \in Ahead : check # at /\ check \in CheckSet
    BY <1>4 DEF Ahead
  <2> QED
    BY <1>2, <1>3, <1>5, <1>8, <2>1, <2>2, FoundFrame DEF OrderInv
<1>9. result' \in [CheckSet -> BOOLEAN]
  BY <1>2, <1>3 DEF OrderInv, found, Match, Has, CheckSet
<1> QED
  BY <1>1, <1>2, <1>6, <1>7, <1>8, <1>9 DEF OrderInv

\* A check that has no file left to read has found what it should.
LEMMA CheckComplete ==
    ASSUME OrderInv, Regular, at \in CheckSet, todo = {}
    PROVE  result[at] <=> Found(at)
<1>1. Progress
  BY DEF OrderInv
<1>2. CASE at # "notice"
  BY <1>1, <1>2 DEF Progress, FileProgress, Found
<1>3. CASE at = "notice"
  <2>1. NoticeProgress
    BY <1>1, <1>3 DEF Progress
  <2>2. CASE \A f \in Notices : ~MentionsAlgoVoi(Content(f))
    <3>1. Deciding = {}
      BY <2>2 DEF Deciding
    <3> QED
      BY <1>3, <2>1, <2>2, <3>1 DEF NoticeProgress, Found
  <2>3. CASE ~ \A f \in Notices : ~MentionsAlgoVoi(Content(f))
    <3>1. PICK f \in Deciding : result["notice"] <=> Match("notice", Content(f))
      BY <2>1, <2>3 DEF NoticeProgress
    <3>2. \A g \in Deciding : Match("notice", Content(g)) => Match("notice", Content(f))
      BY <3>1 DEF Regular, NoticesDisagree
    <3> QED
      BY <1>3, <3>1, <3>2 DEF Found
  <2> QED
    BY <2>2, <2>3
<1> QED
  BY <1>2, <1>3

LEMMA OrderNextCheck ==
    ASSUME OrderInv, NextCheck
    PROVE  OrderInv'
<1>1. at \in CheckSet /\ todo = {}
  BY ChecksAre DEF NextCheck
<1> DEFINE k == CHOOSE j \in DOMAIN Checks : Checks[j] = at
<1>2. k \in DOMAIN Checks /\ Checks[k] = at
  BY <1>1, ChecksAre DEF ToSet
<1>3. IF k = Len(Checks) THEN at' = "done" /\ todo' = {}
      ELSE at' = Checks[k + 1] /\ todo' = FilesFor(at')
  BY DEF NextCheck
<1> HIDE DEF k
<1>4. k \in 1 .. 4 /\ Len(Checks) = 4 /\ Checks[1] = "dependency" /\ Checks[2] = "anchor"
      /\ Checks[3] = "notice" /\ Checks[4] = "pin"
  BY <1>2 DEF Checks
<1>5. /\ at = "dependency" => at' = "anchor"
      /\ at = "anchor" => at' = "notice"
      /\ at = "notice" => at' = "pin"
      /\ at = "pin" => at' = "done"
  BY <1>2, <1>3, <1>4
<1>6. Past' = Past \cup {at} /\ Ahead' = Ahead \ {at'}
  BY <1>1, <1>5 DEF Past, Ahead, CheckSet
<1>7. UNCHANGED <<script, option, tree, listed>> /\ result' = result /\ edits' = edits
  BY DEF NextCheck
<1>8. at' \in CheckSet => todo' = FilesFor(at')
  BY <1>3 DEF CheckSet
<1>9. at' \in CheckSet => at' \in Ahead
  BY <1>1, <1>5 DEF Past, Ahead, CheckSet
<1>10. Regular' <=> Regular
  BY <1>7, FoundFrame DEF Regular
<1>11. ASSUME Regular, at' \in CheckSet PROVE Progress'
  <2>1. ~result'[at']
    BY <1>7, <1>9, <1>11 DEF OrderInv
  <2>2. todo' = FilesFor(at)'
    BY <1>7, <1>8, <1>11, FoundFrame DEF FilesFor, Notices, Skipped, IsLockfile
  <2>3. CASE at' # "notice"
    BY <2>1, <2>2, <2>3 DEF Progress, FileProgress
  <2>4. CASE at' = "notice"
    <3>1. Notices' = todo'
      BY <2>2, <2>4 DEF FilesFor
    <3> QED
      BY <2>1, <2>2, <2>4, <3>1 DEF Progress, NoticeProgress
  <2> QED
    BY <2>3, <2>4
<1>12. Regular => \A check \in Past' : result'[check] <=> Found(check)'
  BY <1>1, <1>6, <1>7, CheckComplete, FoundFrame DEF OrderInv
<1>13. Regular => \A check \in Ahead' : ~result'[check]
  BY <1>6, <1>7 DEF OrderInv
<1>14. at' \in CheckSet \cup {"start", "done"} /\ (at' \notin CheckSet => todo' = {})
  <2>1. at' \in CheckSet \/ (at = "pin" /\ at' = "done")
    BY <1>1, <1>5 DEF CheckSet
  <2>2. at = "pin" => todo' = {}
    BY <1>2, <1>3, <1>4
  <2> QED
    BY <2>1, <2>2
<1>15. Regular => Progress'
  BY <1>11 DEF Progress
<1> QED
  BY <1>7, <1>10, <1>12, <1>13, <1>14, <1>15 DEF OrderInv

\* Once the project has changed, or a file was unreadable, nothing is left to show.
LEMMA OrderIrregular ==
    ASSUME OrderInv, ReadFails \/ Edit
    PROVE  OrderInv'
<1>1. edits' # 0 /\ edits' \in Nat
  BY DEF OrderInv, ReadFails, Edit
<1>2. at' = at
  BY DEF ReadFails, ReadFile, Edit
<1>3. result' \in [CheckSet -> BOOLEAN] /\ at \in CheckSet
  <2>1. CASE ReadFails
    BY <2>1 DEF ReadFails, ReadFile, OrderInv, Match, Has, CheckSet
  <2>2. CASE Edit
    BY <2>2, ChecksAre DEF Edit, OrderInv
  <2> QED
    BY <2>1, <2>2
<1> QED
  BY <1>1, <1>2, <1>3 DEF OrderInv, Regular

LEMMA OrderKept == OrderInv /\ [Next]_vars => OrderInv'
<1> SUFFICES ASSUME OrderInv, [Next]_vars PROVE OrderInv'
  OBVIOUS
<1>1. CASE UNCHANGED vars
  <2>1. UNCHANGED <<script, option, tree, at, listed, todo, result, edits>>
    BY <1>1 DEF vars
  <2>2. Regular' <=> Regular
    BY <2>1, FoundFrame DEF Regular
  <2>3. Past' = Past /\ Ahead' = Ahead
    BY <2>1 DEF Past, Ahead
  <2>4. Progress => Progress'
    BY <2>1, FoundFrame DEF Progress, FileProgress, NoticeProgress
  <2> QED
    BY <2>1, <2>2, <2>3, <2>4, FoundFrame DEF OrderInv
<1>2. Start \/ Read \/ NextCheck \/ ReadFails \/ Edit => OrderInv'
  BY OrderStart, OrderRead, OrderNextCheck, OrderIrregular
<1> QED
  BY <1>1, <1>2 DEF Next

\* A project that does not change gets the verdict its files deserve, in
\* whatever order they are listed and read, if its NOTICE files agree.
THEOREM VerdictAlwaysReproducible == Spec => []VerdictReproducible
<1>1. OrderInv => VerdictReproducible
  <2> SUFFICES ASSUME OrderInv, at = "done", Regular PROVE Issued <=> Qualifies
    BY DEF VerdictReproducible, Regular
  <2>1. \A check \in CheckSet : result[check] <=> Found(check)
    BY DEF OrderInv, Past
  <2>2. Issued <=> \A check \in CheckSet : result[check]
    BY DEF OrderInv, Issued, ExitCode
  <2>3. Qualifies <=> \A check \in CheckSet : Found(check)
    BY DEF Qualifies, Found, CheckSet
  <2> QED
    BY <2>1, <2>2, <2>3
<1> QED
  BY <1>1, OrderAtFirst, OrderKept, PTL DEF Spec

-----------------------------------------------------------------------------
(* Whose anchors are whose *)

\* The pairs of scripts that share an anchor.
Sharing == {<<SpendGuardrail, AgentPassport>>, <<SpendGuardrail, PaymentMandate>>}

LEMMA AnchorsShared ==
    ASSUME NEW s \in Scripts, NEW t \in Scripts, s # t, NEW a \in s.anchors, a \in t.anchors
    PROVE  <<s, t>> \in Sharing \/ <<t, s>> \in Sharing
BY DEF Scripts, Script, Sharing, AgentPassport, CancellationReceipt, ComplianceGate, CompositeTrustQuery,
       Delegation, PaymentMandate, PolicyBinding, RecomputeDrift, RefundReceipt, RetentionChain,
       SpendGuardrail, SubstrateGuard

LEMMA AnchorsAreLines ==
    ASSUME NEW s \in Scripts, NEW a \in s.anchors
    PROVE  a[1] = "anchor"
BY DEF Scripts, Script, AgentPassport, CancellationReceipt, ComplianceGate, CompositeTrustQuery,
       Delegation, PaymentMandate, PolicyBinding, RecomputeDrift, RefundReceipt, RetentionChain,
       SpendGuardrail, SubstrateGuard

\* Nothing else has been in a file while nothing changes.
SeenInv == edits \in Nat /\ script \in Scripts /\ (edits = 0 => seen = tree)

LEMMA SeenKept == Init /\ [][Next]_vars => []SeenInv
<1>1. Init => SeenInv
  BY DEF Init, SeenInv
<1>2. SeenInv /\ [Next]_vars => SeenInv'
  BY DEF SeenInv, Next, vars, Start, Read, ReadFile, ReadFails, NextCheck, Edit
<1> QED
  BY <1>1, <1>2, PTL

\* Whoever has the vectors of one package only passes the anchor check of no
\* other script, but for the two packages whose anchors the guardrail has.
THEOREM AnchorsAlwaysTellApart == Spec => []AnchorsTellApart
<1>1. EvidenceInv /\ SeenInv => AnchorsTellApart
  <2> SUFFICES ASSUME EvidenceInv, SeenInv, edits = 0, result["anchor"],
                      NEW other \in Scripts \ {script},
                      {line \in UNION {tree[f] : f \in DOMAIN tree} : line[1] = "anchor"}
                          \subseteq other.anchors
               PROVE  \/ script = SpendGuardrail /\ other \in {AgentPassport, PaymentMandate}
                      \/ other = SpendGuardrail /\ script \in {AgentPassport, PaymentMandate}
    BY DEF AnchorsTellApart
  <2>1. Evidence("anchor")
    BY DEF EvidenceInv, CheckSet
  <2>2. PICK f \in DOMAIN tree : tree[f] \cap script.anchors # {}
    BY <2>1 DEF Evidence, Match, SeenInv
  <2>3. PICK a \in tree[f] : a \in script.anchors
    BY <2>2
  <2>4. a[1] = "anchor"
    BY <2>3, AnchorsAreLines DEF SeenInv
  <2>5. a \in other.anchors
    BY <2>3, <2>4
  <2>6. <<script, other>> \in Sharing \/ <<other, script>> \in Sharing
    BY <2>3, <2>5, AnchorsShared DEF SeenInv
  <2>7. \/ script = SpendGuardrail /\ other = AgentPassport
        \/ script = SpendGuardrail /\ other = PaymentMandate
        \/ other = SpendGuardrail /\ script = AgentPassport
        \/ other = SpendGuardrail /\ script = PaymentMandate
    BY <2>6 DEF Sharing
  <2> QED
    BY <2>7
<1> QED
  BY <1>1, EvidenceInvariant, SeenKept, PTL DEF Spec
=============================================================================
