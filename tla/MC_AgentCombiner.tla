-------------------------- MODULE MC_AgentCombiner --------------------------
(* Two writer threads and three additions: enough for a CAS to lose to a   *)
(* reset's exchange, a thread to exit inside a reader's loop, and a        *)
(* restarted thread to attach a fresh agent.                               *)
EXTENDS AgentCombiner, TLC

CONSTANTS t1, t2

MCThreads == {t1, t2}
MCMaxAdds == 3
MCMaxGens == 2
Symm == Permutations(MCThreads)
=============================================================================
