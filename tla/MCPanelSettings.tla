-------------------------- MODULE MCPanelSettings ---------------------------
(***************************************************************************)
(* Two concurrent requests; pip installs and removes the open edition of   *)
(* the decision step and two distributions with bolt-ons: one that         *)
(* declares the decision step under another ref; and one with four: the    *)
(* decision's ref, the ref of the other one, the name of that step again,  *)
(* and a malformed name.                                                   *)
(***************************************************************************)
EXTENDS PanelSettings

CONSTANTS r1, r2

MCRequest == {r1, r2}

Descriptor(dist, step, ref, order, package) ==
    [dist |-> dist, step |-> step, ref |-> ref, order |-> order, packages |-> <<package>>]

MCBoltOn ==
    << Descriptor("acme-decision", "decision", "acme_ref", 5, "acme-decision"),
       Descriptor("acme-risk", "risk", "guardrail_ref", 5000, "acme-risk"),
       Descriptor("acme-risk", "audit", "acme_ref", -1, "acme-audit"),
       Descriptor("acme-risk", "audit", "other_ref", 7, "acme-trail"),
       Descriptor("acme-risk", Malformed, "odd_ref", 9, "acme-odd") >>

MCInstalled == {"acme-risk"}
MCInstallable == {"algovoi-spend-guardrail-lite", "acme-decision"}

RequestSymmetry == Permutations(MCRequest)
=============================================================================
