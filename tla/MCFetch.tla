------------------------------- MODULE MCFetch -------------------------------
(* Hosts, and the options of the fetches, for ConcurrentFetch. *)
EXTENDS ConcurrentFetch

CONSTANTS pub, lan, name

MCHosts == {pub, lan, name}
MCPlan == [start |-> pub, policy |-> "safe", maxRedirects |-> 0, retries |-> 0,
           rotates |-> TRUE, delays |-> FALSE, blocks |-> TRUE, robots |-> TRUE]
MCTwice == [MCPlan EXCEPT !.delays = TRUE, !.rotates = FALSE, !.robots = FALSE,
                          !.blocks = FALSE, !.start = lan]
MCOnce == [MCPlan EXCEPT !.policy = "none", !.retries = 1, !.start = name,
                         !.rotates = FALSE, !.robots = FALSE, !.blocks = FALSE]
\* The third request is to an address that is refused at once.
MCRefused == [MCPlan EXCEPT !.start = lan, !.retries = 1]
MCPlans == {MCPlan, MCTwice, MCOnce, MCRefused}
\* The first two differ in nothing but their numbers: their plans come in one order, and
\* MCTwice, the one with a timer, once.
MCPairs == {<<MCPlan, MCPlan>>, <<MCPlan, MCTwice>>, <<MCPlan, MCOnce>>,
            <<MCTwice, MCOnce>>, <<MCOnce, MCOnce>>}
MCInit == CInit /\ <<plan[1], plan[2]>> \in MCPairs /\ plan[3] = MCRefused
MCSpec == MCInit /\ [][CNext]_allVars /\ CFairness
=============================================================================
