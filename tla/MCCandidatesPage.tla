-------------------------- MODULE MCCandidatesPage --------------------------
(* Small instances of CandidatesPage for TLC: two people, the second not    *)
(* found yet.                                                                *)
EXTENDS CandidatesPage

TwoRanked   == <<"ada", "bob">>
OneKnown    == {"ada"}
GroupOfEach == [p \in {"ada", "bob"} |-> IF p = "bob" THEN "managers" ELSE "peers"]
Tight       == [perDay |-> 1, perRun |-> 1]
Loose       == [perDay |-> 2, perRun |-> 2]
TwoSettings == {Tight, Loose}
=============================================================================
