-------------------------- MODULE MCPanelSessions ---------------------------
(***************************************************************************)
(* Two concurrent requests from three addresses, two of which can be       *)
(* tracked, and a table of two sessions.                                   *)
(***************************************************************************)
EXTENDS PanelSessions, TLC

CONSTANTS r1, r2, a1, a2, a3

MCRequest == {r1, r2}
MCIP == {a1, a2, a3}

\* Requests, and addresses, are interchangeable.
PanelSymmetry == Permutations(MCRequest) \cup Permutations(MCIP)
=============================================================================
