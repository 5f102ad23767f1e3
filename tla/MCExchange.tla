----------------------------- MODULE MCExchange -----------------------------
(* A small instance of Exchange: two connections, a route of two targets    *)
(* over two providers, a few configurations that differ in what they allow. *)
EXTENDS Exchange, TLC

Chat(stream) == [family |-> "chat", stream |-> stream]

Provider(failThr, maxConc, streams) ==
  [ failThr |-> failThr, succThr |-> 1, cooldown |-> 1, maxConc |-> maxConc,
    enabled |-> TRUE, families |-> {"chat"}, streams |-> streams ]

Route(policy, targets, attempts) ==
  [ policy |-> policy, targets |-> targets, families |-> {"chat"},
    maxAttempts |-> attempts, retryable |-> {"connect_failed", "http_503"} ]

To(q, prio) == [prov |-> q, prio |-> prio]

\* Fallback over a serial provider that opens at its first failure; a
\* rotation in which one provider cannot stream; and a route that names the
\* same provider twice, which the configuration allows.
MCConfigs ==
  { [ ceiling |-> 2,
      route |-> Route(PRIORITY, <<To(1, 1), To(2, 2)>>, 2),
      prov  |-> <<Provider(1, 1, TRUE), Provider(2, 0, TRUE)>> ],
    [ ceiling |-> 1,
      route |-> Route(ROUND_ROBIN, <<To(1, 1), To(2, 1)>>, 2),
      prov  |-> <<Provider(1, 1, TRUE), Provider(1, 1, FALSE)>> ],
    [ ceiling |-> 1,
      route |-> Route(LEAST_LATENCY, <<To(1, 1), To(1, 2), To(2, 1)>>, 2),
      prov  |-> <<Provider(2, 0, TRUE), Provider(1, 0, TRUE)>> ] }

\* For liveness: fallback, and nothing else that multiplies the states.
LiveConfigs == {f \in MCConfigs : f.route.policy = PRIORITY}
LiveKinds   == {Chat(TRUE)}

\* Connections are interchangeable; not used where liveness is checked.
ConnSymmetry == Permutations(Conns)

MCKinds == {Chat(TRUE), Chat(FALSE), [family |-> "responses", stream |-> FALSE]}

=============================================================================
