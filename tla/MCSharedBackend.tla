--------------------------- MODULE MCSharedBackend ---------------------------
(* The backend and its rate limiter for TLC.  The backend's AcquireToken    *)
(* stands for one whole acquire of the limiter, so a behaviour follows one  *)
(* of the two.                                                              *)
EXTENDS SharedBackend, RateLimiter

CONSTANTS t1, t2, t3, a, b

MCThreads == {t1, t2, t3}
MCCallers == {t1, t2}
MCKeys == {a, b}

\* ForkDB asks for one slot at a time or for the parts of an account at once;
\* the order of a slice decides where its scan stops.
PairAndSingle == {<<a, b>>, <<b>>}

VARIABLE part    \* which of the two the behaviour follows

MCInit == Init /\ LimiterInit /\ part \in {"backend", "limiter"}
MCNext ==
    \/ part = "backend" /\ Next /\ UNCHANGED <<limiterVars, part>>
    \/ part = "limiter" /\ LimiterNext /\ UNCHANGED <<vars, part>>
MCVars == <<vars, limiterVars, part>>

\* The clock runs, and a thread inside acquire is not suspended for ever;
\* nobody has to call acquire.
LimiterFairness ==
    /\ WF_limiterVars(part = "limiter" /\ Tick)
    /\ \A t \in Callers : WF_limiterVars(part = "limiter" /\ at[t] # "idle" /\ AcquireStep(t))

MCSpec == MCInit /\ [][MCNext]_MCVars /\ Fairness /\ LimiterFairness
=============================================================================
