----------------------------- MODULE MCJournal ------------------------------
(***************************************************************************)
(* Two writers and one reader on one journal, and the journal in the hands *)
(* of its keeper.  Of the four records two have the same reference (an     *)
(* execution record with and without a "stage" field its reference does    *)
(* not cover) and one fails verify_record.  The two halves share the       *)
(* records and nothing else: a behaviour takes the steps of one of them    *)
(* while the other is as it was at the start.  No symmetry: one of the     *)
(* properties is a liveness property.                                      *)
(***************************************************************************)
EXTENDS Journal, JournalCustody, TLC

CONSTANTS c1, c2, r1, execution, executionExtra, behaviour, broken

MCConn == {c1, c2}
MCReader == {r1}
MCRecord == {execution, executionExtra, behaviour, broken}
MCValid == {execution, executionExtra, behaviour}
MCRef == {execution, behaviour}
MCLabel == {"execution", "mandate", "behaviour"}
MCRefOf == (execution :> execution) @@ (executionExtra :> execution)
           @@ (behaviour :> behaviour)
MCLabelOf == (execution :> "execution") @@ (executionExtra :> "mandate")
             @@ (behaviour :> "behaviour")

MCInit == Init /\ CustodyInit

MCNext ==
    \/ CustodyInit /\ Next /\ UNCHANGED custodyVars
    \/ Init /\ CustodyNext /\ UNCHANGED vars

MCSpec ==
    /\ MCInit
    /\ [][MCNext]_<<vars, custodyVars>>
    /\ \A c \in Conn : WF_vars(CallStep(c))
=============================================================================
