--------------------------- MODULE MCGuardedWrite ---------------------------
(***************************************************************************)
(* A write, an asynchronous write whose coroutine settles, and a read, all *)
(* on the thread of the Journal.                                           *)
(***************************************************************************)
EXTENDS GuardedWrite, TLC

CONSTANTS w, aw, rd

AsyncCall == {w, aw, rd}
AsyncKindOf == (w :> "write") @@ (aw :> "async") @@ (rd :> "read")
AsyncThreadOf == [c \in AsyncCall |-> "main"]
=============================================================================
