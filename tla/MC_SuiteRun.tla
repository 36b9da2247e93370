----------------------------- MODULE MC_SuiteRun -----------------------------
(***************************************************************************)
(* Instances of SuiteRun for TLC: the whole suite and a selection of it,   *)
(* one mode and all of them, fresh and resumed.                            *)
(***************************************************************************)
EXTENDS SuiteRun

Whole(r) == [modes |-> Modes, scenarios |-> Scenarios, resume |-> r]
Part(m, s, r) == [modes |-> {m}, scenarios |-> {s}, resume |-> r]

\* Every staleness scenario suspends and drifts, where the agent looks.
MCDrifted == {m \in Modes : m # "no_revalidation"} \X Stale

MCLaunches ==
  {Whole(r) : r \in BOOLEAN}
    \cup {Part("full", s, r) : s \in Scenarios, r \in BOOLEAN}
=============================================================================
