---------------------------- MODULE MCAgentTurn ----------------------------
(* Instances of AgentTurn for TLC: one session, three calls.               *)
EXTENDS AgentTurn, TLC

CONSTANTS s1, c1, c2, c3, r1, r2, ch1, m1

MCVersions == Requests \cup Saves

\* The first two calls deliver the same request twice.
TwiceAndAnother == c1 :> r1 @@ c2 :> r1 @@ c3 :> r2
InSession == [r \in {r1, r2} |-> s1]
PressSame == [r \in {r1, r2} |-> ch1]
PressNone == [r \in {r1, r2} |-> NoChoice]
============================================================================
