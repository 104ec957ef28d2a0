---------------------------- MODULE MC_AgentTools ----------------------------
(***************************************************************************)
(* Model values for TLC's run of AgentTools.                               *)
(***************************************************************************)
EXTENDS AgentTools, TLC

CONSTANTS w1, w2

TwoWorkflows == {w1, w2}

Pair(s, t) == w1 :> s @@ w2 :> t
Llm(t)     == [tool |-> "llm", timed |-> t]
Tool(t)    == [tool |-> "tool", timed |-> t]
To(w)      == [tool |-> "handoff", target |-> w]
Plain(t)   == [tool |-> t]

\* Steps that compete for the pool, a handoff to a step with a timeout and to one that
\* pauses, a loop of handoffs, and the memory.
FivePrograms ==
    {Pair(Llm(TRUE), Llm(FALSE)), Pair(To(w2), Tool(TRUE)), Pair(To(w2), To(w1)),
     Pair(To(w2), Plain("approval")), Pair(Plain("memory_write"), Plain("memory_read"))}

PooledModel(p) == p[w1].tool = "llm"
Circle(p)      == p[w1].tool = "handoff" /\ p[w2].tool = "handoff"
Memory(p)      == p[w1].tool = "memory_write"

\* A circle that a replay is part of needs a fourth run before it is closed, a handoff has
\* a second child after a retry or a crash, and the memory a writer and a reader.
\* Calls on the pool have the largest space, and few runs will do for them.
ManyRows == [p \in FivePrograms |->
                IF Circle(p) THEN 4 ELSE IF PooledModel(p) THEN 1 ELSE IF Memory(p) THEN 2 ELSE 3]
Starts   == [p \in FivePrograms |-> IF Circle(p) \/ Memory(p) THEN 2 ELSE 1]
=============================================================================
