-------------------------- MODULE MCWorkflowEngine --------------------------
(* Four calls of two fingerprints in two frames.  a1, a2 and a3 share the      *)
(* fingerprint k1, of which the resumed run has left two results, and a1 and   *)
(* a2 the frame f1.  a4 is the call the agent cap refuses when it comes last.  *)
EXTENDS WorkflowEngine

CONSTANTS a1, a2, a3, a4, f1, f2, k1, k2, o1, o2

MCAgents   == {a1, a2, a3, a4}
MCKeys     == {k1, k2}
MCKeyOf    == [a \in MCAgents |-> IF a = a4 THEN k2 ELSE k1]
MCFrames   == {f1, f2}
MCFrameOf  == [a \in MCAgents |-> IF a \in {a1, a2} THEN f1 ELSE f2]
MCUsage    == {2}
MCOld      == {o1, o2}
MCPrevious == [k \in MCKeys |-> IF k = k1 THEN <<o1, o2>> ELSE <<>>]

\* The smaller instance: three calls, one of them in a frame of its own.
FewAgents   == {a1, a2, a3}
FewKeyOf    == [a \in FewAgents |-> k1]
FewFrameOf  == [a \in FewAgents |-> IF a = a3 THEN f2 ELSE f1]
FewPrevious == [k \in MCKeys |-> IF k = k1 THEN <<o1>> ELSE <<>>]
=============================================================================
