--------------------------- MODULE JournalCustody ---------------------------
(***************************************************************************)
(* What `Journal.verify` says about a journal file that was out of our     *)
(* hands.  Writers append (one whole, successful append is one step here:  *)
(* Journal shows that it is one) and note the head each append returns;    *)
(* between appends whoever keeps the file removes, reorders and copies     *)
(* rows, edits columns, or replaces the file by a freshly linked journal.  *)
(* The keeper is external: these are the changes the tests make by hand.   *)
(***************************************************************************)
EXTENDS JournalRows

CONSTANTS
    MaxKept,     \* bound: the longest chain an append extends
    MaxEdits     \* bound: changes made by the keeper of the file

ASSUME CustodyAssumption == MaxKept \in Nat /\ MaxEdits \in Nat

VARIABLES
    file,      \* the rows in the file
    pins,      \* the heads append has returned
    relinked,  \* the keeper has computed journal_refs of his own
    edits      \* changes made by the keeper so far

custodyVars == <<file, pins, relinked, edits>>

CustodyInit ==
    /\ file = << >>
    /\ pins = {}
    /\ relinked = FALSE
    /\ edits = 0

\* append(record): it links to whatever head it finds and does not verify.
AppendEntry(r) ==
    LET entry == EntryFor(r, HeadOf(file)) IN
    /\ Len(HeadOf(file)) < MaxKept
    /\ file' = Append(file, entry)
    /\ pins' = pins \cup {entry.jref}
    /\ UNCHANGED <<relinked, edits>>

-----------------------------------------------------------------------------
(* The keeper of the file *)

Edit(rs) ==
    /\ edits < MaxEdits
    /\ edits' = edits + 1
    /\ file' = rs
    /\ UNCHANGED <<pins, relinked>>

Remove(i) == Edit(SubSeq(file, 1, i - 1) \o SubSeq(file, i + 1, Len(file)))

Exchange(i, j) == Edit([file EXCEPT ![i] = file[j], ![j] = file[i]])

\* A copy of row i in front of row j.
Duplicate(i, j) ==
    Edit(SubSeq(file, 1, j - 1) \o <<file[i]>> \o SubSeq(file, j, Len(file)))

ReplaceRecord(i, r) == Edit([file EXCEPT ![i] = [file[i] EXCEPT !.record = r]])

ReplaceColumns(i, ref, label) ==
    Edit([file EXCEPT ![i] = [file[i] EXCEPT !.ref = ref, !.label = label]])

\* The file is replaced by a journal of the records rs, correctly linked.
Relink(rs) ==
    /\ edits < MaxEdits
    /\ edits' = edits + 1
    /\ relinked' = TRUE
    /\ file' = [i \in DOMAIN rs |->
                  EntryFor(rs[i], [j \in 1 .. i - 1 |-> RefOf[rs[j]]])]
    /\ UNCHANGED pins

\* Record sequences the keeper may link.
Forgeries == UNION {[1 .. n -> ValidRecord] : n \in 0 .. MaxKept}

KeeperStep ==
    \/ \E i \in DOMAIN file :
        \/ Remove(i)
        \/ \E j \in DOMAIN file : Exchange(i, j) \/ Duplicate(i, j)
        \/ \E r \in Record : ReplaceRecord(i, r)
        \/ \E ref \in Ref, label \in Label : ReplaceColumns(i, ref, label)
    \/ \E rs \in Forgeries : Relink(rs)

CustodyNext == (\E r \in ValidRecord : AppendEntry(r)) \/ KeeperStep

CustodySpec == CustodyInit /\ [][CustodyNext]_custodyVars

-----------------------------------------------------------------------------
(* Properties *)

\* Every variable has its type, whoever wrote the rows.
CustodyTypeOK ==
    /\ file \in Seq(Row)
    /\ pins \subseteq JournalRefs
    /\ relinked \in BOOLEAN
    /\ edits \in 0 .. MaxEdits

\* The references the records themselves recompute to.
RecordRefs == [i \in DOMAIN file |-> RefOf[file[i].record]]

\* A journal that verifies at a head append once returned holds, one for one
\* and in order, records of exactly the references that head stands for,
\* however the file was changed, re-linked or extended in between:
\* verify(expected_head=...) and the README's "pin the head".
PinnedVerifyIsExact ==
    \A h \in pins : VerifiesAt(file, h) => RecordRefs = h

\* Without a pin: as long as nobody recomputes the links, the only journals
\* that verify are those some append left behind.  Rows cannot be inserted,
\* reordered or removed, other than by dropping the newest ones.
UnpinnedVerifyIsAPrefix ==
    ~relinked /\ Verifies(file) => RefsOf(file) \in pins
=============================================================================
