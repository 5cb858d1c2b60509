-------------------------- MODULE MCRunnerSessions --------------------------
(* Two callers of one prefix with different plans, or three with two plans. *)
EXTENDS RunnerSessions, TLC
CONSTANTS o1, o2, o3, p1, planA, planB, wine
MCNone == {}
MCOne == {o1}
MCTwo == {o2}
MCThree == {o3}
MCOps2 == {o1, o2}
MCOps3 == {o1, o2, o3}
MCPrefixes == {p1}
MCOpPrefix == [o \in Ops |-> p1]
MCOpRunner == [o \in Ops |-> wine]
MCOpPlan == [o \in Ops |-> IF o = o2 THEN planB ELSE planA]
=============================================================================
