-------------------------- MODULE MCCircuitBreaker --------------------------
(* A small instance of CircuitBreaker: one provider under several          *)
(* configurations, three exchange slots.                                   *)
EXTENDS CircuitBreaker, TLC

Policy(f, c, n) == [failThr |-> f, succThr |-> c, cooldown |-> 1, maxConc |-> n]

\* Serial traffic gets time enough for the cap on the backoff to bind: the
\* cooldowns 1, 2, 4, 8 and 16 are over at 31, and the next one is 16 again.
MCPolicies == {Policy(2, 1, 0), Policy(1, 2, 3), Policy(2, 2, 1)}

MCMaxRequests == [q \in MCPolicies |-> IF q.maxConc = 1 THEN 7 ELSE 6]
MCMaxNow      == [q \in MCPolicies |-> IF q.maxConc = 1 THEN 33 ELSE 5]

\* The slots are interchangeable, and every property is a safety property.
SlotSymmetry == Permutations(Slots)

=============================================================================
