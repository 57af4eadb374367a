----------------------------- MODULE MCTeamRuns -----------------------------
(* Small instances of TeamRuns for TLC.                                      *)
EXTENDS TeamRuns, TLC

CONSTANTS q1, q2, q3, w1, k1, k2

OneRequest == {q1}
ThreeRequests == {q1, q2, q3}
OneWorkspace == {w1}
NoneOf == {}
AllInW1 == [q \in Requests |-> w1]
Retried == [q \in Requests |-> IF q = q3 THEN k2 ELSE k1]
=============================================================================
