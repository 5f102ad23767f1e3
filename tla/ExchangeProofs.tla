--------------------------- MODULE ExchangeProofs ---------------------------
(***************************************************************************)
(* Exchange, for every configuration, every finite set of connections and  *)
(* whatever the bounds.  What has to be carried along besides the          *)
(* invariants themselves (ExchangeInv): an exchange is in flight exactly   *)
(* while it holds its claim, on a target of the route; no head goes out    *)
(* before a status; what the client has been sent is empty until it does.  *)
(* The sizes in ClaimsAreHeld and EngineCountsExchanges change by one      *)
(* connection at a time, so they need the arithmetic of adding and         *)
(* removing an element and no induction.  The ledger lemmas compose: a     *)
(* fallback is a release, a scan and a claim; a fallback that cannot be    *)
(* set up is the same and a release once more.                             *)
(***************************************************************************)
EXTENDS Exchange, RoutingProofs, SequenceTheorems

----------------------------------------------------------------------------
(* The configuration.                                                       *)

\* The daemon runs with one of the configurations.
Configured ==
  \E f \in Configs : route = f.route /\ prov = f.prov /\ ceiling = f.ceiling

\* What is known of it.
LEMMA ConfigFacts ==
  ASSUME Configured
  PROVE  /\ ceiling \in Nat
         /\ Providers \subseteq Int /\ Operated \subseteq Providers
         /\ route.targets \in Seq(TargetRecords(prov))
         /\ route.maxAttempts \in Nat
         /\ \A q \in Providers :
              /\ prov[q].failThr \in Nat /\ prov[q].cooldown \in Nat
              /\ prov[q].maxConc \in Nat
BY ExchangeAssumption DEF Configured, Providers

\* A target of the route names a provider.
LEMMA TargetsName ==
  ASSUME Configured, NEW t \in DOMAIN route.targets
  PROVE  Prov(t) \in Providers /\ t \in Nat
<1>1. route.targets \in Seq(TargetRecords(prov))
  BY ConfigFacts
<1>2. route.targets[t] \in TargetRecords(prov) /\ t \in Nat
  BY <1>1
<1> QED
  BY <1>2 DEF TargetRecords, Prov, Providers

----------------------------------------------------------------------------
(* The operators on one exchange.                                           *)

\* A kind of request exists, so AnyKind is one.
LEMMA AnyKindType == AnyKind \in Kinds
BY ExchangeAssumption DEF AnyKind

\* A fresh record.
LEMMA NewExchangeType ==
  ASSUME NEW kind \in Kinds
  PROVE  NewExchange(kind) \in Exchanges
BY DEF NewExchange, Exchanges

\* A record whose attempt has been torn down.
LEMMA TornDownFields ==
  ASSUME NEW xr \in Exchanges
  PROVE  LET y == TornDown(xr) IN
           /\ y \in Exchanges
           /\ ~y.counted /\ y.body = "empty" /\ ~y.carry
           /\ y.state = xr.state /\ y.kind = xr.kind /\ y.target = xr.target
           /\ y.tried = xr.tried /\ y.attempt = xr.attempt
           /\ y.began = xr.began /\ y.status = xr.status
           /\ y.headSent = xr.headSent /\ y.overflow = xr.overflow
BY DEF TornDown, Exchanges

\* A record that has claimed its next target.
LEMMA ClaimFields ==
  ASSUME NEW xr \in Exchanges, NEW a, a.target \in Nat, now \in Nat
  PROVE  LET y == Claim(a, xr) IN
           /\ y \in Exchanges
           /\ y.counted /\ y.target = a.target /\ y.began = now
           /\ y.tried = xr.tried \cup {a.target} /\ y.attempt = xr.attempt + 1
           /\ y.probe = IsProbe(a.hs[Prov(a.target)])
           /\ y.state = xr.state /\ y.kind = xr.kind /\ y.status = xr.status
           /\ y.headSent = xr.headSent /\ y.overflow = xr.overflow
           /\ y.body = xr.body /\ y.carry = xr.carry
<1> DEFINE n == xr.attempt + 1
           t == xr.tried \cup {a.target}
           p == IsProbe(a.hs[Prov(a.target)])
<1>1. n \in Nat /\ t \in SUBSET Nat /\ p \in BOOLEAN
  BY DEF Exchanges, IsProbe
<1>2. Claim(a, xr) =
        [xr EXCEPT !.target = a.target, !.tried = t, !.attempt = n,
                   !.counted = TRUE, !.probe = p, !.began = now]
  BY Zenon DEF Claim
<1> HIDE DEF n, t, p
<1> DEFINE w == [xr EXCEPT !.target = a.target, !.tried = t, !.attempt = n]
<1>3. /\ w \in Exchanges
      /\ w.target = a.target /\ w.tried = t /\ w.attempt = n
      /\ w.state = xr.state /\ w.kind = xr.kind /\ w.status = xr.status
      /\ w.headSent = xr.headSent /\ w.overflow = xr.overflow
      /\ w.body = xr.body /\ w.carry = xr.carry
  BY <1>1 DEF Exchanges
<1>4. Claim(a, xr) = [w EXCEPT !.counted = TRUE, !.probe = p, !.began = now]
  BY Zenon, <1>2
<1> HIDE DEF w
<1>5. LET y == Claim(a, xr) IN
        /\ y \in Exchanges
        /\ y.counted /\ y.target = w.target /\ y.began = now
        /\ y.tried = w.tried /\ y.attempt = w.attempt /\ y.probe = p
        /\ y.state = w.state /\ y.kind = w.kind /\ y.status = w.status
        /\ y.headSent = w.headSent /\ y.overflow = w.overflow
        /\ y.body = w.body /\ y.carry = w.carry
  BY <1>1, <1>3, <1>4 DEF Exchanges
<1> QED
  BY <1>3, <1>5 DEF n, t, p

\* A record whose transfer is in flight.
LEMMA LaunchedFields ==
  ASSUME NEW xr \in Exchanges
  PROVE  LET y == Launched(xr) IN
           /\ y \in Exchanges
           /\ y.state = "active" /\ y.status = 0 /\ ~y.sse
           /\ y.counted = xr.counted /\ y.target = xr.target
           /\ y.began = xr.began /\ y.tried = xr.tried
           /\ y.attempt = xr.attempt /\ y.probe = xr.probe /\ y.kind = xr.kind
           /\ y.headSent = xr.headSent /\ y.overflow = xr.overflow
           /\ y.body = xr.body /\ y.carry = xr.carry
BY DEF Launched, Exchanges

----------------------------------------------------------------------------
(* The operators on the providers' states.                                  *)

\* A record whose claim, if it has one, can be given back.
Sound(xr) ==
  /\ xr \in Exchanges
  /\ xr.counted => xr.target \in DOMAIN route.targets
  /\ xr.began <= now

\* A release touches the claimed provider alone, takes one slot and at most one
\* probe back, and nothing when there is no claim.
LEMMA ReleaseFields ==
  ASSUME Configured, now \in Nat, NEW h \in [Providers -> ProviderState],
         NEW xr, Sound(xr), NEW verdict
  PROVE  LET r == Release(h, xr, verdict)
             q == Prov(xr.target)
             e == End(h[q], xr.probe)
         IN  /\ r \in [Providers -> ProviderState]
             /\ ~xr.counted => r = h
             /\ xr.counted =>
                  /\ r[q].active = e.active
                  /\ r[q].probes = e.probes \/ r[q].probes = 0
                  /\ \A p \in Providers \ {q} : r[p] = h[p]
<1>1. CASE ~xr.counted
  BY <1>1 DEF Release
<1>2. CASE xr.counted
  <2> DEFINE q == Prov(xr.target)
             e == End(h[q], xr.probe)
             l == 1000 * (now - xr.began)
             v == CASE verdict = "cancelled" -> e
                    [] verdict = OK -> Success(e, prov[q], l)
                    [] OTHER -> Failure(e, prov[q], now)
  <2>1. q \in Providers
    BY <1>2, TargetsName DEF Sound
  <2>2. xr.probe \in BOOLEAN /\ xr.began \in Nat /\ xr.began <= now
    BY DEF Sound, Exchanges
  <2>3. e \in ProviderState
    <3>1. h[q] \in ProviderState
      BY <2>1
    <3> HIDE DEF q
    <3> QED
      BY <2>2, <3>1, EndFields
  <2>4. l \in Nat
    BY <2>2
  <2>5. prov[q].failThr \in Nat /\ prov[q].cooldown \in Nat
    BY <2>1, ConfigFacts
  <2>6. Release(h, xr, verdict) = [h EXCEPT ![q] = v]
    BY <1>2 DEF Release
  <2>7. v = e \/ v = Success(e, prov[q], l) \/ v = Failure(e, prov[q], now)
    OBVIOUS
  <2> HIDE DEF q, e, l, v
  <2>8. /\ Success(e, prov[q], l) \in ProviderState
        /\ Success(e, prov[q], l).active = e.active
        /\ Success(e, prov[q], l).probes = e.probes
    BY <2>3, <2>4, SuccessFields
  <2>9. /\ Failure(e, prov[q], now) \in ProviderState
        /\ Failure(e, prov[q], now).active = e.active
        /\ \/ Failure(e, prov[q], now).probes = e.probes
           \/ Failure(e, prov[q], now).probes = 0
    <3>1. ASSUME NEW st \in ProviderState
          PROVE  /\ Failure(st, prov[q], now) \in ProviderState
                 /\ Failure(st, prov[q], now).active = st.active
                 /\ \/ Failure(st, prov[q], now).probes = st.probes
                    \/ Failure(st, prov[q], now).probes = 0
      BY <2>5, FailureFields
    <3> QED
      BY <2>3, <3>1
  <2>10. /\ v \in ProviderState /\ v.active = e.active
         /\ v.probes = e.probes \/ v.probes = 0
    BY <2>3, <2>7, <2>8, <2>9
  <2> QED
    BY <1>2, <2>1, <2>6, <2>10 DEF q, e
<1> QED
  BY <1>1, <1>2

\* A choice of af_prov_attempt_start: a target that was not tried and whose
\* provider, as the scan left it, admits one more; or none.
LEMMA AttemptFields ==
  ASSUME Configured, now \in Nat, cursor \in Nat,
         NEW h \in [Providers -> ProviderState], NEW xr
  PROVE  LET a == Attempt(h, xr) IN
           /\ a.hs \in [Providers -> ProviderState]
           /\ a.cursor \in Nat
           /\ \A q \in Providers :
                /\ a.hs[q].active = h[q].active
                /\ a.hs[q].probes = h[q].probes \/ a.hs[q].probes = 0
           /\ \/ a.target = 0
              \/ /\ a.target \in DOMAIN route.targets \ xr.tried
                 /\ Admissible(a.hs[Prov(a.target)], prov[Prov(a.target)])
<1> DEFINE scanned == Scanned(route, prov, xr.kind, xr.tried)
           fresh == Refreshed(h, route, scanned, now)
           cands == Candidates(fresh, route, prov, scanned)
           next == IF route.policy = ROUND_ROBIN /\ cands # <<>>
                     THEN cursor + 1 ELSE cursor
           k == Select(route.policy, cands, next)
           target == IF cands = <<>> THEN 0 ELSE cands[k].index
<1>1. Attempt(h, xr) = [hs |-> fresh, cursor |-> next, target |-> target]
  BY DEF Attempt
<1>2. scanned \in SUBSET (DOMAIN route.targets \ xr.tried)
  BY DEF Scanned
<1> HIDE DEF scanned
<1>3. /\ fresh \in [Providers -> ProviderState]
      /\ \A q \in Providers : /\ fresh[q].active = h[q].active
                              /\ fresh[q].probes = h[q].probes \/ fresh[q].probes = 0
  BY RefreshedFields
<1> HIDE DEF fresh
<1>4. /\ cands \in Seq(CandidateRecord)
      /\ \A j \in DOMAIN cands :
           /\ cands[j].index \in scanned
           /\ Admissible(fresh[Prov(cands[j].index)], prov[Prov(cands[j].index)])
      /\ \A i, j \in DOMAIN cands : i # j => cands[i].index # cands[j].index
  <2>1. /\ fresh \in [DOMAIN prov -> ProviderState] /\ DOMAIN prov \subseteq Int
        /\ route.targets \in Seq(TargetRecords(prov))
        /\ scanned \in SUBSET DOMAIN route.targets
    BY <1>2, <1>3, ConfigFacts DEF Providers
  <2>2. /\ cands \in Seq(CandidateRecord)
        /\ \A j \in DOMAIN cands :
             LET i == cands[j].index IN
               /\ i \in scanned
               /\ Admissible(fresh[route.targets[i].prov],
                             prov[route.targets[i].prov])
        /\ \A i, j \in DOMAIN cands : i # j => cands[i].index # cands[j].index
    BY <2>1, CandidatesAreAdmissible
  <2> HIDE DEF cands
  <2> QED
    BY <2>2 DEF Prov
<1> HIDE DEF cands
<1>5. next \in Nat
  OBVIOUS
<1> HIDE DEF next
<1>6. cands # <<>> => k \in DOMAIN cands
  BY <1>4, <1>5, SelectIsACandidate
<1> HIDE DEF k
<1>7. \/ target = 0
      \/ /\ target \in DOMAIN route.targets \ xr.tried
         /\ Admissible(fresh[Prov(target)], prov[Prov(target)])
  BY <1>2, <1>4, <1>6
<1> HIDE DEF target
<1> QED
  BY <1>1, <1>3, <1>5, <1>7

----------------------------------------------------------------------------
(* The ledger: what the providers count against what the exchanges hold.    *)

\* The exchanges of xs that hold a slot of provider q, and its probes.
HoldersIn(xs, q) == {c \in Conns : xs[c].counted /\ Prov(xs[c].target) = q}
ProbersIn(xs, q) == {c \in HoldersIn(xs, q) : xs[c].probe}

Ledger(h, xs) ==
  \A q \in Providers :
    /\ h[q].active = Cardinality(HoldersIn(xs, q))
    /\ h[q].probes <= Cardinality(ProbersIn(xs, q))
    /\ prov[q].maxConc = 0 \/ h[q].active <= prov[q].maxConc

\* Sets of connections are finite, and so are their sizes.
LEMMA HoldersFinite ==
  ASSUME NEW xs, NEW q
  PROVE  /\ IsFiniteSet(HoldersIn(xs, q)) /\ IsFiniteSet(ProbersIn(xs, q))
         /\ Cardinality(HoldersIn(xs, q)) \in Nat
         /\ Cardinality(ProbersIn(xs, q)) \in Nat
<1>1. IsFiniteSet(HoldersIn(xs, q))
  BY ExchangeAssumption, FS_Subset DEF HoldersIn
<1>2. IsFiniteSet(ProbersIn(xs, q))
  BY <1>1, FS_Subset DEF ProbersIn
<1> QED
  BY <1>1, <1>2, FS_CardinalityType

\* A scan keeps the ledger: it counts the same slots, and no more probes.
LEMMA LedgerScan ==
  ASSUME NEW xs, NEW h \in [Providers -> ProviderState],
         NEW g \in [Providers -> ProviderState], Ledger(h, xs),
         \A q \in Providers : /\ g[q].active = h[q].active
                              /\ g[q].probes = h[q].probes \/ g[q].probes = 0
  PROVE  Ledger(g, xs)
<1> SUFFICES ASSUME NEW q \in Providers
             PROVE  /\ g[q].active = Cardinality(HoldersIn(xs, q))
                    /\ g[q].probes <= Cardinality(ProbersIn(xs, q))
                    /\ prov[q].maxConc = 0 \/ g[q].active <= prov[q].maxConc
  BY DEF Ledger
<1>1. Cardinality(ProbersIn(xs, q)) \in Nat
  BY HoldersFinite
<1> QED
  BY <1>1 DEF Ledger

\* A release keeps the ledger, whatever the record becomes without its claim.
LEMMA LedgerRelease ==
  ASSUME Configured, now \in Nat, NEW h \in [Providers -> ProviderState],
         NEW xs, DOMAIN xs = Conns, NEW c \in Conns, Sound(xs[c]),
         NEW y, ~y.counted, NEW verdict, Ledger(h, xs)
  PROVE  Ledger(Release(h, xs[c], verdict), [xs EXCEPT ![c] = y])
<1> DEFINE r == Release(h, xs[c], verdict)
           ys == [xs EXCEPT ![c] = y]
           p == Prov(xs[c].target)
<1>1. /\ r \in [Providers -> ProviderState]
      /\ ~xs[c].counted => r = h
      /\ xs[c].counted =>
           /\ r[p].active = End(h[p], xs[c].probe).active
           /\ r[p].probes = End(h[p], xs[c].probe).probes \/ r[p].probes = 0
           /\ \A q \in Providers \ {p} : r[q] = h[q]
  BY ReleaseFields
<1> HIDE DEF r
<1>2. \A q : /\ HoldersIn(ys, q) = HoldersIn(xs, q) \ {c}
             /\ ProbersIn(ys, q) = ProbersIn(xs, q) \ {c}
  BY DEF HoldersIn, ProbersIn
<1> HIDE DEF ys
<1> SUFFICES ASSUME NEW q \in Providers
             PROVE  /\ r[q].active = Cardinality(HoldersIn(ys, q))
                    /\ r[q].probes <= Cardinality(ProbersIn(ys, q))
                    /\ prov[q].maxConc = 0 \/ r[q].active <= prov[q].maxConc
  BY DEF Ledger, ys, r
<1>3. /\ h[q].active = Cardinality(HoldersIn(xs, q))
      /\ h[q].probes <= Cardinality(ProbersIn(xs, q))
      /\ prov[q].maxConc = 0 \/ h[q].active <= prov[q].maxConc
  BY DEF Ledger
<1>4. CASE ~(xs[c].counted /\ q = p)
  <2>1. c \notin HoldersIn(xs, q) /\ c \notin ProbersIn(xs, q)
    BY <1>4 DEF HoldersIn, ProbersIn
  <2>2. HoldersIn(ys, q) = HoldersIn(xs, q) /\ ProbersIn(ys, q) = ProbersIn(xs, q)
    BY <1>2, <2>1
  <2>3. r[q] = h[q]
    BY <1>1, <1>4
  <2> QED
    BY <1>3, <2>2, <2>3
<1>5. CASE xs[c].counted /\ q = p
  <2> DEFINE n == Cardinality(HoldersIn(xs, q))
             m == Cardinality(ProbersIn(xs, q))
  <2>1. c \in HoldersIn(xs, q) /\ (c \in ProbersIn(xs, q) <=> xs[c].probe)
    BY <1>5 DEF HoldersIn, ProbersIn
  <2>2. n \in Nat /\ m \in Nat
    BY HoldersFinite
  <2>3. Cardinality(HoldersIn(ys, q)) = n - 1
    BY <1>2, <2>1, HoldersFinite, FS_RemoveElement
  <2>4. /\ xs[c].probe => Cardinality(ProbersIn(ys, q)) = m - 1
        /\ ~xs[c].probe => Cardinality(ProbersIn(ys, q)) = m
    BY <1>2, <2>1, HoldersFinite, FS_RemoveElement
  <2>5. Cardinality(HoldersIn(ys, q)) \in Nat /\ Cardinality(ProbersIn(ys, q)) \in Nat
    BY HoldersFinite
  <2>6. h[q] \in ProviderState /\ xs[c].probe \in BOOLEAN /\ prov[q].maxConc \in Nat
    BY ConfigFacts DEF Sound, Exchanges
  <2> DEFINE e == End(h[q], xs[c].probe)
  <2>7. /\ h[q].active \in Nat /\ h[q].probes \in Nat
        /\ e.active = IF h[q].active > 0 THEN h[q].active - 1 ELSE h[q].active
        /\ e.probes = IF xs[c].probe /\ h[q].probes > 0 THEN h[q].probes - 1
                      ELSE h[q].probes
    <3>1. h[q].active \in Nat /\ h[q].probes \in Nat
      BY <2>6 DEF ProviderState
    <3> QED
      BY <2>6, <3>1, EndFields
  <2>8. r[q].active = e.active /\ (r[q].probes = e.probes \/ r[q].probes = 0)
    BY <1>1, <1>5
  <2> HIDE DEF e, n, m
  <2>9. h[q].active = n /\ h[q].probes <= m
    BY <1>3 DEF n, m
  <2>10. r[q].active = Cardinality(HoldersIn(ys, q))
    BY <2>2, <2>3, <2>5, <2>7, <2>8, <2>9
  <2>11. r[q].probes <= Cardinality(ProbersIn(ys, q))
    <3>1. CASE xs[c].probe
      BY <2>2, <2>4, <2>5, <2>7, <2>8, <2>9, <3>1
    <3>2. CASE ~xs[c].probe
      BY <2>2, <2>4, <2>5, <2>7, <2>8, <2>9, <3>2
    <3> QED
      BY <3>1, <3>2
  <2>12. prov[q].maxConc = 0 \/ r[q].active <= prov[q].maxConc
    BY <1>3, <2>2, <2>3, <2>6, <2>9, <2>10
  <2> QED
    BY <2>10, <2>11, <2>12
<1> QED
  BY <1>4, <1>5

\* A claim keeps the ledger: the provider admits one more, and the new holder
\* is a probe exactly when the provider counted one.
LEMMA LedgerClaim ==
  ASSUME Configured, NEW a, a.hs \in [Providers -> ProviderState],
         a.target \in DOMAIN route.targets,
         Admissible(a.hs[Prov(a.target)], prov[Prov(a.target)]),
         NEW xs, DOMAIN xs = Conns, NEW c \in Conns, ~xs[c].counted,
         NEW y, y.counted, y.target = a.target,
         y.probe = IsProbe(a.hs[Prov(a.target)]), Ledger(a.hs, xs)
  PROVE  /\ ClaimedHealth(a) \in [Providers -> ProviderState]
         /\ Ledger(ClaimedHealth(a), [xs EXCEPT ![c] = y])
<1> DEFINE p == Prov(a.target)
           h == a.hs
           r == ClaimedHealth(a)
           ys == [xs EXCEPT ![c] = y]
<1>1. p \in Providers /\ h[p] \in ProviderState
  BY TargetsName
<1>2. r = [h EXCEPT ![p] = Begin(h[p])]
  BY DEF ClaimedHealth
<1>3. /\ Begin(h[p]) \in ProviderState
      /\ Begin(h[p]).active = h[p].active + 1
      /\ Begin(h[p]).probes = IF IsProbe(h[p]) THEN h[p].probes + 1 ELSE h[p].probes
  <2> HIDE DEF h, p
  <2> QED
    BY <1>1, BeginFields
<1>4. ys[c] = y /\ \A d \in Conns \ {c} : ys[d] = xs[d]
  OBVIOUS
<1>5. /\ HoldersIn(ys, p) = HoldersIn(xs, p) \cup {c}
      /\ ProbersIn(ys, p) = IF IsProbe(h[p]) THEN ProbersIn(xs, p) \cup {c}
                            ELSE ProbersIn(xs, p)
      /\ c \notin HoldersIn(xs, p) /\ c \notin ProbersIn(xs, p)
  <2>1. HoldersIn(ys, p) = HoldersIn(xs, p) \cup {c} /\ c \notin HoldersIn(xs, p)
    BY <1>4 DEF HoldersIn
  <2>2. c \notin ProbersIn(xs, p)
    BY <2>1 DEF ProbersIn
  <2>3. y.probe <=> IsProbe(h[p])
    OBVIOUS
  <2>4. ProbersIn(ys, p) = IF IsProbe(h[p]) THEN ProbersIn(xs, p) \cup {c}
                           ELSE ProbersIn(xs, p)
    <3> HIDE DEF ys, p, h
    <3> QED
      BY <1>4, <2>1, <2>3 DEF ProbersIn, HoldersIn
  <2> QED
    BY <2>1, <2>2, <2>4
<1>6. \A q \in Providers \ {p} : /\ HoldersIn(ys, q) = HoldersIn(xs, q)
                                 /\ ProbersIn(ys, q) = ProbersIn(xs, q)
  BY <1>4 DEF HoldersIn, ProbersIn
<1> HIDE DEF ys
<1>7. r \in [Providers -> ProviderState]
  BY <1>1, <1>2, <1>3
<1>8. Ledger(r, ys)
  <2> SUFFICES ASSUME NEW q \in Providers
               PROVE  /\ r[q].active = Cardinality(HoldersIn(ys, q))
                      /\ r[q].probes <= Cardinality(ProbersIn(ys, q))
                      /\ prov[q].maxConc = 0 \/ r[q].active <= prov[q].maxConc
    BY DEF Ledger
  <2>1. /\ h[q].active = Cardinality(HoldersIn(xs, q))
        /\ h[q].probes <= Cardinality(ProbersIn(xs, q))
        /\ prov[q].maxConc = 0 \/ h[q].active <= prov[q].maxConc
    BY DEF Ledger
  <2>2. CASE q # p
    BY <1>2, <1>6, <2>1, <2>2
  <2>3. CASE q = p
    <3>1. r[q] = Begin(h[p])
      BY <1>1, <1>2, <2>3
    <3>2. Cardinality(HoldersIn(ys, q)) = Cardinality(HoldersIn(xs, q)) + 1
      BY <1>5, <2>3, HoldersFinite, FS_AddElement
    <3>3. /\ IsProbe(h[p]) => Cardinality(ProbersIn(ys, q)) =
                                Cardinality(ProbersIn(xs, q)) + 1
          /\ ~IsProbe(h[p]) => Cardinality(ProbersIn(ys, q)) =
                                 Cardinality(ProbersIn(xs, q))
      BY <1>5, <2>3, HoldersFinite, FS_AddElement
    <3>4. /\ Cardinality(HoldersIn(xs, q)) \in Nat
          /\ Cardinality(ProbersIn(xs, q)) \in Nat
      BY HoldersFinite
    <3>5. h[p].active \in Nat /\ h[p].probes \in Nat
      BY <1>1 DEF ProviderState
    <3>6. prov[q].maxConc \in Nat /\ (prov[q].maxConc = 0 \/ h[p].active < prov[q].maxConc)
      BY <2>3, ConfigFacts DEF Admissible
    <3> HIDE DEF h, r, p
    <3> QED
      BY <1>3, <2>1, <2>3, <3>1, <3>2, <3>3, <3>4, <3>5, <3>6
  <2> QED
    BY <2>2, <2>3
<1> QED
  BY <1>7, <1>8 DEF ys

\* A claim that is given back in the same step, as the code does when an
\* attempt cannot be set up.
LEMMA LedgerClaimReleased ==
  ASSUME Configured, now \in Nat, NEW a, a.hs \in [Providers -> ProviderState],
         a.target \in DOMAIN route.targets,
         Admissible(a.hs[Prov(a.target)], prov[Prov(a.target)]),
         NEW xs, DOMAIN xs = Conns, NEW c \in Conns, ~xs[c].counted,
         NEW xr \in Exchanges, NEW y, ~y.counted, NEW verdict, Ledger(a.hs, xs)
  PROVE  LET r == Release(ClaimedHealth(a), Claim(a, xr), verdict) IN
           /\ r \in [Providers -> ProviderState]
           /\ Ledger(r, [xs EXCEPT ![c] = y])
<1> DEFINE z == Claim(a, xr)
           zs == [xs EXCEPT ![c] = z]
           h == ClaimedHealth(a)
<1>1. a.target \in Nat
  BY TargetsName
<1>2. /\ z \in Exchanges /\ z.counted /\ z.target = a.target /\ z.began = now
      /\ z.probe = IsProbe(a.hs[Prov(a.target)])
  BY <1>1, ClaimFields
<1> HIDE DEF z
<1>3. h \in [Providers -> ProviderState] /\ Ledger(h, zs)
  BY <1>2, LedgerClaim
<1>4. Sound(z)
  BY <1>2 DEF Sound
<1>5. DOMAIN zs = Conns /\ zs[c] = z /\ [zs EXCEPT ![c] = y] = [xs EXCEPT ![c] = y]
  OBVIOUS
<1> HIDE DEF zs, h
<1>6. Release(h, z, verdict) \in [Providers -> ProviderState]
  BY <1>3, <1>4, ReleaseFields
<1>7. Ledger(Release(h, zs[c], verdict), [zs EXCEPT ![c] = y])
  BY <1>3, <1>4, <1>5, LedgerRelease
<1> QED
  BY <1>5, <1>6, <1>7 DEF z, h

----------------------------------------------------------------------------
(* The inductive invariant.                                                 *)

\* A record in the table: in flight exactly while it holds its claim, on a
\* target of the route, begun in the past, no head before a status.
Recorded(xr) ==
  /\ Sound(xr)
  /\ xr.state \in {"free", "active"}
  /\ xr.counted <=> xr.state = "active"
  /\ xr.tried \subseteq DOMAIN route.targets
  /\ xr.status = 0 => ~xr.headSent

\* What the client of an exchange in flight has been sent: the start of its
\* target's stream once the head is out, and nothing before.
Opening(xr, o) ==
  LET q == Prov(xr.target) IN
    IF xr.headSent THEN o \in {<<StreamHead(q)>>, <<StreamHead(q), Chunk(q)>>}
    ELSE o = <<>>

\* What a client has been sent when its exchange is over.
Finished(o) ==
  \/ Len(o) <= 1
  \/ \E q \in Providers :
       /\ \A i \in 1 .. Len(o) : o[i].by = q
       /\ o[1] = StreamHead(q)
       /\ \A i \in 2 .. Len(o) - 1 : o[i] = Chunk(q)
       /\ o[Len(o)] = Last(q)

Told(xr, o) == IF xr.state = "active" THEN Opening(xr, o) ELSE Finished(o)

LiveConns == {c \in Conns : x[c].state # "free"}

ExchangeInv ==
  /\ Configured
  /\ TypeOK
  /\ out = [c \in Conns |-> out[c]]
  /\ Ledger(hs, x)
  /\ active = Cardinality(LiveConns) /\ active <= ceiling
  /\ \A c \in Conns : Recorded(x[c]) /\ Told(x[c], out[c])

\* It implies the invariants the runs check.
LEMMA InvImplies ==
  ExchangeInv => /\ TypeOK /\ ClaimsAreHeld
                 /\ EngineCountsExchanges /\ OneAnswerOneVoice
<1> SUFFICES ASSUME ExchangeInv
             PROVE  TypeOK /\ ClaimsAreHeld /\ EngineCountsExchanges
                    /\ OneAnswerOneVoice
  OBVIOUS
<1>1. TypeOK
  BY DEF ExchangeInv
<1>2. ClaimsAreHeld
  <2>1. \A q : Holders(q) = HoldersIn(x, q)
    BY DEF Holders, HoldersIn
  <2> QED
    BY <2>1 DEF ExchangeInv, Ledger, ClaimsAreHeld, ProbersIn
<1>3. EngineCountsExchanges
  BY DEF ExchangeInv, LiveConns, EngineCountsExchanges, Live
<1>4. OneAnswerOneVoice
  <2> SUFFICES ASSUME NEW c \in Conns
               PROVE  IF Live(c) THEN out[c] \in Streams(Prov(x[c].target))
                      ELSE Finished(out[c])
    BY DEF OneAnswerOneVoice, Finished
  <2>1. Recorded(x[c]) /\ Told(x[c], out[c])
    BY DEF ExchangeInv
  <2> QED
    BY <2>1 DEF Recorded, Told, Opening, Streams, Live
<1> QED
  BY <1>1, <1>2, <1>3, <1>4

\* It holds when the daemon starts.
LEMMA InvInit == Init => ExchangeInv
<1> SUFFICES ASSUME Init
             PROVE  ExchangeInv
  OBVIOUS
<1>1. Configured
  BY DEF Init, Configured
<1> DEFINE n == NewExchange(AnyKind)
<1>2. n \in Exchanges
  BY AnyKindType, NewExchangeType
<1>3. /\ n.state = "free" /\ ~n.counted /\ n.began = 0 /\ n.tried = {}
      /\ ~n.headSent
  BY DEF NewExchange
<1>4. /\ hs = [q \in Providers |-> NewState] /\ disabled = {} /\ cursor = 0
      /\ active = 0 /\ x = [c \in Conns |-> n] /\ out = [c \in Conns |-> <<>>]
      /\ reqs = 0 /\ now = 0
  BY DEF Init
<1> HIDE DEF n
<1>5. TypeOK
  BY <1>2, <1>3, <1>4, NewStateType DEF TypeOK
<1>6. Ledger(hs, x)
  <2> SUFFICES ASSUME NEW q \in Providers
               PROVE  /\ hs[q].active = Cardinality(HoldersIn(x, q))
                      /\ hs[q].probes <= Cardinality(ProbersIn(x, q))
                      /\ prov[q].maxConc = 0 \/ hs[q].active <= prov[q].maxConc
    BY DEF Ledger
  <2>1. HoldersIn(x, q) = {} /\ ProbersIn(x, q) = {}
    BY <1>3, <1>4 DEF HoldersIn, ProbersIn
  <2>2. hs[q].active = 0 /\ hs[q].probes = 0
    BY <1>4 DEF NewState
  <2>3. prov[q].maxConc \in Nat
    BY <1>1, ConfigFacts
  <2> QED
    BY <2>1, <2>2, <2>3, FS_EmptySet
<1>7. active = Cardinality(LiveConns) /\ active <= ceiling
  <2>1. LiveConns = {}
    BY <1>3, <1>4 DEF LiveConns
  <2> QED
    BY <1>1, <1>4, <2>1, FS_EmptySet, ConfigFacts
<1>8. ASSUME NEW c \in Conns
      PROVE  Recorded(x[c]) /\ Told(x[c], out[c])
  BY <1>2, <1>3, <1>4 DEF Recorded, Sound, Told, Finished
<1> QED
  BY <1>1, <1>4, <1>5, <1>6, <1>7, <1>8 DEF ExchangeInv

----------------------------------------------------------------------------
(* Steps.                                                                   *)

\* A step that writes the record and the answer of one connection, given what
\* the step leaves: the ledger, the slot count, the record and the answer.
LEMMA OneRecord ==
  ASSUME ExchangeInv, NEW c \in Conns, NEW y, NEW o,
         x' = [x EXCEPT ![c] = y], out' = [out EXCEPT ![c] = o],
         UNCHANGED <<config, disabled, now>>,
         cursor' \in Nat, reqs' \in Nat,
         hs' \in [Providers -> ProviderState], Ledger(hs', x'),
         Recorded(y), Told(y, o),
         \/ y.state = x[c].state /\ active' = active
         \/ /\ x[c].state = "free" /\ y.state = "active"
            /\ active < ceiling /\ active' = active + 1
         \/ x[c].state = "active" /\ y.state = "free" /\ active' = active - 1
  PROVE  ExchangeInv'
<1>1. /\ route' = route /\ prov' = prov /\ ceiling' = ceiling
      /\ disabled' = disabled /\ now' = now
  BY DEF config
<1>2. Configured'
  BY <1>1 DEF ExchangeInv, Configured
<1>3. /\ x \in [Conns -> Exchanges] /\ y \in Exchanges
      /\ x'[c] = y /\ \A d \in Conns \ {c} : x'[d] = x[d]
      /\ x' \in [Conns -> Exchanges]
  BY DEF ExchangeInv, TypeOK, Recorded, Sound
<1>4. /\ out' = [d \in Conns |-> out'[d]] /\ out'[c] = o
      /\ \A d \in Conns \ {c} : out'[d] = out[d]
  BY DEF ExchangeInv
<1>5. active' = Cardinality(LiveConns') /\ active' <= ceiling' /\ active' \in Nat
  <2> DEFINE L == LiveConns
             n == Cardinality(L)
  <2>1. IsFiniteSet(L) /\ n \in Nat
    BY ExchangeAssumption, FS_Subset, FS_CardinalityType DEF LiveConns
  <2>2. LiveConns' = IF y.state # "free" THEN L \cup {c} ELSE L \ {c}
    BY <1>3 DEF LiveConns
  <2>3. c \in L <=> x[c].state # "free"
    BY DEF LiveConns
  <2>4. active = n /\ active <= ceiling /\ ceiling \in Nat /\ active \in Nat
    BY ConfigFacts DEF ExchangeInv, TypeOK
  <2> HIDE DEF L
  <2>5. CASE y.state = x[c].state /\ active' = active
    <3>1. LiveConns' = L
      BY <2>2, <2>3, <2>5
    <3> QED
      BY <1>1, <2>4, <2>5, <3>1
  <2>6. CASE x[c].state = "free" /\ y.state = "active"
             /\ active < ceiling /\ active' = active + 1
    <3>1. Cardinality(LiveConns') = n + 1
      BY <2>1, <2>2, <2>3, <2>6, FS_AddElement
    <3> QED
      BY <1>1, <2>4, <2>6, <3>1
  <2>7. CASE x[c].state = "active" /\ y.state = "free" /\ active' = active - 1
    <3>1. LiveConns' = L \ {c} /\ c \in L
      BY <2>2, <2>3, <2>7
    <3>2. Cardinality(L \ {c}) = n - 1 /\ Cardinality(L \ {c}) \in Nat
      BY <2>1, <3>1, FS_RemoveElement, FS_CardinalityType
    <3> QED
      BY <1>1, <2>4, <2>7, <3>1, <3>2
  <2> QED
    BY <2>5, <2>6, <2>7
<1>6. \A d \in Conns : Recorded(x'[d]) /\ Told(x'[d], out'[d])
  BY <1>3, <1>4 DEF ExchangeInv
<1>7. \A d \in Conns : (Recorded(x[d]) /\ Told(x[d], out[d]))'
  <2> SUFFICES ASSUME NEW d \in Conns
               PROVE  (Recorded(x[d]) /\ Told(x[d], out[d]))'
    OBVIOUS
  <2>1. Recorded(x[d])'
    BY <1>1, <1>6 DEF Recorded, Sound
  <2>2. Told(x[d], out[d])'
    BY <1>1, <1>6 DEF Told, Opening, Finished, Prov, Providers
  <2> QED
    BY <2>1, <2>2
<1>8. Ledger(hs, x)'
  BY <1>1 DEF Ledger, HoldersIn, ProbersIn, Providers, Prov
<1>9. TypeOK'
  <2>1. \A d \in Conns : x'[d].tried \subseteq DOMAIN route'.targets
    BY <1>1, <1>6 DEF Recorded
  <2> QED
    BY <1>1, <1>3, <1>5, <2>1 DEF ExchangeInv, TypeOK, Providers
<1> QED
  BY <1>2, <1>4, <1>5, <1>7, <1>8, <1>9 DEF ExchangeInv

\* The facts of the invariant that the steps of one connection use.
LEMMA InvFacts ==
  ASSUME ExchangeInv, NEW c \in Conns
  PROVE  /\ Configured /\ Ledger(hs, x)
         /\ hs \in [Providers -> ProviderState] /\ DOMAIN x = Conns
         /\ now \in Nat /\ cursor \in Nat /\ reqs \in Nat
         /\ Recorded(x[c]) /\ Sound(x[c]) /\ x[c] \in Exchanges
         /\ Told(x[c], out[c]) /\ x = [x EXCEPT ![c] = x[c]]
BY DEF ExchangeInv, TypeOK, Recorded, Sound

\* A disposed record is sound, free and holds nothing.
LEMMA DisposedRecord ==
  ASSUME Configured, now \in Nat, NEW xr
  PROVE  LET y == Disposed(xr) IN
           /\ Recorded(y) /\ ~y.counted /\ y.state = "free"
<1> DEFINE y == NewExchange(AnyKind)
<1>1. y \in Exchanges
  BY AnyKindType, NewExchangeType
<1>2. /\ ~y.counted /\ y.state = "free" /\ y.began = 0 /\ y.tried = {}
      /\ ~y.headSent
  BY DEF NewExchange
<1>3. Disposed(xr) = y
  BY DEF Disposed
<1> HIDE DEF y
<1> QED
  BY <1>1, <1>2, <1>3 DEF Recorded, Sound

\* The first two messages of a stream.
LEMMA TwoMessages ==
  ASSUME NEW a, NEW b
  PROVE  <<a>> \o <<b>> = <<a, b>>
<1> DEFINE S == {a, b}
           u == <<a>>
           v == <<b>>
           w == u \o v
<1>1. /\ u \in Seq(S) /\ Len(u) = 1 /\ u[1] = a
      /\ v \in Seq(S) /\ Len(v) = 1 /\ v[1] = b
  OBVIOUS
<1> HIDE DEF S, u, v
<1>2. w \in Seq(S) /\ Len(w) = 2 /\ w[1] = a /\ w[2] = b
  BY <1>1, ConcatProperties
<1> HIDE DEF w
<1>3. w = <<a, b>>
  BY <1>2
<1> QED
  BY <1>3 DEF w, u, v

\* What finishes an answer that was begun: a terminator, perhaps after a last
\* event, when the head is out; one message when it is not.
LEMMA ReplyFinishes ==
  ASSUME Configured, NEW xr, xr.headSent => xr.target \in DOMAIN route.targets,
         NEW o, Opening(xr, o), NEW transport
  PROVE  Finished(o \o Reply(xr, transport))
<1>1. CASE ~xr.headSent
  <2>1. o = <<>>
    BY <1>1 DEF Opening
  <2>2. \E m : Reply(xr, transport) = <<m>>
    BY <1>1 DEF Reply
  <2>3. PICK m : Reply(xr, transport) = <<m>>
    BY <2>2
  <2>4. o \o Reply(xr, transport) = <<m>>
    BY <2>1, <2>3
  <2>5. Len(<<m>>) = 1
    OBVIOUS
  <2> QED
    BY <2>4, <2>5 DEF Finished
<1>2. CASE xr.headSent
  <2> DEFINE q == Prov(xr.target)
             H == StreamHead(q)
             K == Chunk(q)
             E == Last(q)
  <2>1. q \in Providers
    BY <1>2, TargetsName
  <2>2. o = <<H>> \/ o = <<H, K>>
    BY <1>2 DEF Opening
  <2> DEFINE r == Reply(xr, transport)
             z == o \o r
             M == {H, K, E}
  <2>3. H.by = q /\ K.by = q /\ E.by = q
    BY DEF StreamHead, Chunk, Last
  <2>4. r = <<K>> \o <<E>> \/ r = <<>> \o <<E>>
    BY <1>2 DEF Reply
  <2> HIDE DEF H, K, E, q, r
  <2>5. /\ o \in Seq(M) /\ Len(o) \in 1 .. 2 /\ o[1] = H
        /\ Len(o) = 2 => o[2] = K
    <3>1. CASE o = <<H>>
      BY <3>1
    <3>2. CASE o = <<H, K>>
      BY <3>2
    <3> QED
      BY <2>2, <3>1, <3>2
  <2>6. /\ r \in Seq(M) /\ Len(r) \in 1 .. 2 /\ r[Len(r)] = E
        /\ Len(r) = 2 => r[1] = K
    <3>1. CASE r = <<K>> \o <<E>>
      <4>1. r = <<K, E>>
        BY <3>1, TwoMessages
      <4> QED
        BY <4>1
    <3>2. CASE r = <<>> \o <<E>>
      <4>1. r = <<E>>
        BY <3>2
      <4> QED
        BY <4>1
    <3> QED
      BY <2>4, <3>1, <3>2
  <2> HIDE DEF M
  <2>7. /\ z \in Seq(M) /\ Len(z) = Len(o) + Len(r)
        /\ \A i \in 1 .. Len(o) + Len(r) :
             z[i] = IF i <= Len(o) THEN o[i] ELSE r[i - Len(o)]
    BY <2>5, <2>6, ConcatProperties DEF r
  <2> HIDE DEF z
  <2>8. \A i \in 1 .. Len(z) : z[i].by = q
    <3>1. \A i \in 1 .. Len(z) : z[i] \in M
      BY <2>7
    <3> QED
      BY <2>3, <3>1 DEF M
  <2>9. /\ Len(o) = 1 \/ Len(o) = 2
        /\ Len(r) = 1 \/ Len(r) = 2
        /\ Len(z) = Len(o) + Len(r)
    BY <2>5, <2>6, <2>7
  <2> DEFINE m == Len(o)
             n == Len(r)
  <2> HIDE DEF m, n
  <2>10. /\ m = 1 \/ m = 2
         /\ n = 1 \/ n = 2
         /\ Len(z) = m + n
    BY <2>9 DEF m, n
  <2>11. \A i \in 1 .. m + n : z[i] = IF i <= m THEN o[i] ELSE r[i - m]
    BY <2>7 DEF m, n
  <2>12. z[1] = H
    <3>1. 1 \in 1 .. m + n /\ 1 <= m
      BY <2>10
    <3>2. z[1] = o[1]
      BY <2>11, <3>1
    <3> QED
      BY <2>5, <3>2
  <2>13. ASSUME NEW i \in 2 .. Len(z) - 1
         PROVE  z[i] = K
    <3>1. i \in 1 .. m + n
      BY <2>10
    <3>2. CASE i <= m
      <4>1. i = 2 /\ m = 2
        BY <2>10, <3>2
      <4>2. z[i] = o[i]
        BY <2>11, <3>1, <3>2
      <4> QED
        BY <2>5, <4>1, <4>2 DEF m
    <3>3. CASE ~(i <= m)
      <4>1. i - m = 1 /\ n = 2
        BY <2>10, <3>3
      <4>2. z[i] = r[i - m]
        BY <2>11, <3>1, <3>3
      <4> QED
        BY <2>6, <4>1, <4>2 DEF n
    <3> QED
      BY <3>2, <3>3
  <2>14. z[Len(z)] = E
    <3>1. m + n \in 1 .. m + n /\ ~(m + n <= m) /\ (m + n) - m = n
      BY <2>10
    <3>2. z[m + n] = r[(m + n) - m]
      BY <2>11, <3>1
    <3> QED
      BY <2>6, <2>10, <3>1, <3>2 DEF n
  <2> QED
    BY <2>1, <2>8, <2>12, <2>13, <2>14 DEF Finished, z, H, K, E, r
<1> QED
  BY <1>1, <1>2

\* A refusal answers with one message and touches nothing else of the exchange.
LEMMA RefusalStep ==
  ASSUME ExchangeInv, NEW c \in Conns, NEW m, Arrives(c), Restart(c, <<m>>),
         UNCHANGED <<config, disabled, active, x, now>>, cursor' \in Nat,
         hs' \in [Providers -> ProviderState], Ledger(hs', x)
  PROVE  ExchangeInv'
<1>1. x' = [x EXCEPT ![c] = x[c]] /\ Ledger(hs', x') /\ x' = x
  BY InvFacts
<1>2. out' = [out EXCEPT ![c] = <<m>>]
  BY DEF Restart
<1>3. Recorded(x[c]) /\ x[c].state = "free" /\ reqs' \in Nat
  BY InvFacts DEF Arrives
<1>4. Told(x[c], <<m>>)
  BY <1>3 DEF Told, Finished
<1>5. active' = active
  OBVIOUS
<1> QED
  BY <1>1, <1>2, <1>3, <1>4, <1>5, OneRecord

\* af_prov_exchange_start, all of its endings.
LEMMA StartSteps ==
  ASSUME ExchangeInv, NEW c \in Conns, NEW kind \in Kinds
  PROVE  /\ RefuseCapacity(c) => ExchangeInv'
         /\ RefuseFamily(c, kind) => ExchangeInv'
         /\ RefuseStart(c, kind) => ExchangeInv'
         /\ Start(c, kind) => ExchangeInv'
<1>0. /\ Configured /\ Ledger(hs, x)
      /\ hs \in [Providers -> ProviderState] /\ DOMAIN x = Conns
      /\ now \in Nat /\ cursor \in Nat /\ reqs \in Nat
      /\ Recorded(x[c]) /\ x = [x EXCEPT ![c] = x[c]]
  BY InvFacts
<1> DEFINE n == NewExchange(kind)
           a == Attempt(hs, n)
<1>1. n \in Exchanges
  BY NewExchangeType
<1>2. n.tried = {} /\ ~n.headSent /\ n.attempt = 0
  BY DEF NewExchange
<1> HIDE DEF n
<1>3. /\ a.hs \in [Providers -> ProviderState] /\ a.cursor \in Nat
      /\ \A q \in Providers :
           /\ a.hs[q].active = hs[q].active
           /\ a.hs[q].probes = hs[q].probes \/ a.hs[q].probes = 0
      /\ a.target # 0 =>
           /\ a.target \in DOMAIN route.targets \ n.tried
           /\ Admissible(a.hs[Prov(a.target)], prov[Prov(a.target)])
  BY <1>0, AttemptFields
<1> HIDE DEF a
<1>4. Ledger(a.hs, x)
  BY <1>0, <1>3, LedgerScan
<1>5. ASSUME RefuseCapacity(c)
      PROVE  ExchangeInv'
  BY <1>0, <1>5, RefusalStep DEF RefuseCapacity
<1>6. ASSUME RefuseFamily(c, kind)
      PROVE  ExchangeInv'
  BY <1>0, <1>6, RefusalStep DEF RefuseFamily
<1>7. ASSUME RefuseStart(c, kind)
      PROVE  ExchangeInv'
  <2>1. /\ Arrives(c) /\ cursor' = a.cursor
        /\ UNCHANGED <<config, disabled, active, x, now>>
        /\ \/ /\ a.target = 0 /\ hs' = a.hs
              /\ Restart(c, <<Error("no_eligible_target")>>)
           \/ /\ a.target # 0
              /\ hs' = Release(ClaimedHealth(a), Claim(a, n), "cancelled")
              /\ Restart(c, <<Error("internal_error")>>)
    BY <1>7 DEF RefuseStart, a, n
  <2>2. CASE a.target = 0
    BY <1>3, <1>4, <2>1, <2>2, RefusalStep
  <2>3. CASE a.target # 0
    <3>1. ~x[c].counted
      BY <1>0, <2>1 DEF Arrives, Recorded
    <3>2. a.target \in DOMAIN route.targets
      BY <1>3, <2>3
    <3>3. Admissible(a.hs[Prov(a.target)], prov[Prov(a.target)])
      BY <1>3, <2>3
    <3>4. hs' = Release(ClaimedHealth(a), Claim(a, n), "cancelled")
      BY <2>1, <2>3
    <3>5. \A y : ~y.counted => /\ hs' \in [Providers -> ProviderState]
                              /\ Ledger(hs', [x EXCEPT ![c] = y])
      BY <1>0, <1>1, <1>3, <1>4, <3>1, <3>2, <3>3, <3>4, LedgerClaimReleased
    <3>6. hs' \in [Providers -> ProviderState] /\ Ledger(hs', [x EXCEPT ![c] = x[c]])
      BY <3>1, <3>5
    <3> QED
      BY <1>0, <1>3, <2>1, <2>3, <3>6, RefusalStep
  <2> QED
    BY <2>2, <2>3
<1>8. ASSUME Start(c, kind)
      PROVE  ExchangeInv'
  <2> DEFINE z == Claim(a, n)
             y == Launched(z)
  <2>1. /\ Arrives(c) /\ active < ceiling /\ a.target # 0 /\ cursor' = a.cursor
        /\ hs' = ClaimedHealth(a) /\ x' = [x EXCEPT ![c] = y]
        /\ active' = active + 1 /\ Restart(c, <<>>)
        /\ UNCHANGED <<config, disabled, now>>
    BY <1>8 DEF Start, a, n
  <2>2. a.target \in DOMAIN route.targets /\ a.target \in Nat
    BY <1>0, <1>3, <2>1, TargetsName
  <2>3. /\ z \in Exchanges /\ z.counted /\ z.target = a.target /\ z.began = now
        /\ z.probe = IsProbe(a.hs[Prov(a.target)])
        /\ z.tried = n.tried \cup {a.target} /\ z.headSent = n.headSent
    BY <1>0, <1>1, <2>2, ClaimFields
  <2> HIDE DEF z
  <2>4. /\ y \in Exchanges /\ y.counted /\ y.target = a.target /\ y.began = now
        /\ y.probe = IsProbe(a.hs[Prov(a.target)])
        /\ y.tried = {a.target} /\ ~y.headSent
        /\ y.state = "active" /\ y.status = 0
    BY <1>2, <2>3, LaunchedFields
  <2> HIDE DEF y
  <2>5. x[c].state = "free" /\ ~x[c].counted
    BY <1>0, <2>1 DEF Arrives, Recorded
  <2>6. /\ hs' \in [Providers -> ProviderState]
        /\ Ledger(hs', x')
    BY <1>0, <1>3, <1>4, <2>1, <2>2, <2>4, <2>5, LedgerClaim
  <2>7. Recorded(y)
    BY <1>0, <2>2, <2>4 DEF Recorded, Sound
  <2>8. Told(y, <<>>)
    BY <2>4 DEF Told, Opening
  <2>9. out' = [out EXCEPT ![c] = <<>>] /\ reqs' \in Nat /\ cursor' \in Nat
    BY <1>0, <1>3, <2>1 DEF Restart, Arrives
  <2> QED
    BY <2>1, <2>4, <2>5, <2>6, <2>7, <2>8, <2>9, OneRecord
<1> QED
  BY <1>5, <1>6, <1>7, <1>8

\* A step that changes an exchange in flight, but not its claim.
LEMMA TransferStep ==
  ASSUME ExchangeInv, NEW c \in Conns, x[c].state = "active", NEW y, NEW o,
         x' = [x EXCEPT ![c] = y], out' = [out EXCEPT ![c] = o],
         UNCHANGED <<config, hs, disabled, cursor, active, reqs, now>>,
         y \in Exchanges,
         y.state = "active" /\ y.counted /\ y.target = x[c].target,
         y.probe = x[c].probe /\ y.began = x[c].began /\ y.tried = x[c].tried,
         y.status = 0 => ~y.headSent, Opening(y, o)
  PROVE  ExchangeInv'
<1>1. /\ Configured /\ Ledger(hs, x) /\ hs \in [Providers -> ProviderState]
      /\ cursor \in Nat /\ reqs \in Nat /\ Recorded(x[c]) /\ DOMAIN x = Conns
  BY InvFacts
<1>2. x'[c] = y /\ \A d \in Conns \ {c} : x'[d] = x[d]
  BY <1>1
<1>3. x[c].counted
  BY <1>1 DEF Recorded
<1>4. \A q : HoldersIn(x', q) = HoldersIn(x, q) /\ ProbersIn(x', q) = ProbersIn(x, q)
  <2> SUFFICES ASSUME NEW q
               PROVE  /\ HoldersIn(x', q) = HoldersIn(x, q)
                      /\ ProbersIn(x', q) = ProbersIn(x, q)
    OBVIOUS
  <2>1. \A d \in Conns : /\ x'[d].counted <=> x[d].counted
                         /\ x'[d].target = x[d].target
                         /\ x'[d].probe = x[d].probe
    BY <1>2, <1>3
  <2>2. HoldersIn(x', q) = HoldersIn(x, q)
    BY <2>1 DEF HoldersIn
  <2> QED
    BY <2>1, <2>2 DEF ProbersIn, HoldersIn
<1>5. Ledger(hs', x')
  BY <1>1, <1>4 DEF Ledger
<1>6. Recorded(y)
  BY <1>1, <1>3 DEF Recorded, Sound
<1>7. Told(y, o)
  BY DEF Told
<1> QED
  BY <1>1, <1>5, <1>6, <1>7, OneRecord

\* af_prov_headers_complete.
LEMMA HeadersStep ==
  ASSUME ExchangeInv, NEW c \in Conns, NEW status \in Statuses,
         NEW sse \in BOOLEAN, Headers(c, status, sse)
  PROVE  ExchangeInv'
<1> DEFINE xr == x[c]
           q == Prov(xr.target)
           commit == xr.kind.stream /\ sse /\ Is2xx(status)
           y == [xr EXCEPT !.status = status, !.sse = sse, !.headSent = commit]
           o == out[c] \o (IF commit THEN <<StreamHead(q)>> ELSE <<>>)
<1>1. /\ xr \in Exchanges /\ Recorded(xr) /\ Told(xr, out[c]) /\ DOMAIN x = Conns
  BY InvFacts
<1>2. xr.state = "active" /\ xr.status = 0
      /\ UNCHANGED <<config, hs, disabled, cursor, active, reqs, now>>
  BY DEF Headers
<1>3. x' = [x EXCEPT ![c] = y]
  BY <1>1 DEF Headers
<1>4. out' = [out EXCEPT ![c] = o]
  BY DEF Headers, Answer
<1>5. status \in Nat /\ (status = 0 => ~commit)
  BY ExchangeAssumption DEF Is2xx
<1>5a. commit \in BOOLEAN
  OBVIOUS
<1>6. xr.counted /\ ~xr.headSent /\ out[c] = <<>>
  BY <1>1, <1>2 DEF Recorded, Told, Opening
<1> HIDE DEF commit
<1>7. o = IF commit THEN <<StreamHead(q)>> ELSE <<>>
  BY <1>6
<1> HIDE DEF xr
<1>8. /\ y \in Exchanges /\ y.state = "active" /\ y.counted
      /\ y.target = xr.target /\ y.probe = xr.probe /\ y.began = xr.began
      /\ y.tried = xr.tried /\ y.status = status /\ y.headSent = commit
  BY <1>1, <1>2, <1>5, <1>5a, <1>6 DEF Exchanges
<1>9. y.status = 0 => ~y.headSent
  <2> HIDE DEF y
  <2> QED
    BY <1>5, <1>8
<1>10. Opening(y, o)
  <2> HIDE DEF y, o
  <2> QED
    BY <1>7, <1>8 DEF Opening
<1> HIDE DEF y, o
<1> QED
  BY <1>2, <1>3, <1>4, <1>8, <1>9, <1>10, TransferStep DEF xr

\* af_prov_on_write after the head.
LEMMA StreamWriteStep ==
  ASSUME ExchangeInv, NEW c \in Conns, NEW piece, StreamWrite(c, piece)
  PROVE  ExchangeInv'
<1> DEFINE xr == x[c]
           q == Prov(xr.target)
<1>1. /\ xr \in Exchanges /\ Recorded(xr) /\ Told(xr, out[c]) /\ DOMAIN x = Conns
      /\ out = [d \in Conns |-> out[d]]
  BY InvFacts DEF ExchangeInv
<1>2. xr.state = "active" /\ xr.headSent
      /\ UNCHANGED <<config, hs, disabled, cursor, active, reqs, now>>
  BY DEF StreamWrite
<1>3. xr.counted /\ xr.status # 0 /\ Opening(xr, out[c])
  BY <1>1, <1>2 DEF Recorded, Told
<1>4. out = [out EXCEPT ![c] = out[c]]
  BY <1>1
<1> DEFINE Same(y) ==
             /\ y \in Exchanges /\ y.state = "active" /\ y.counted
             /\ y.target = xr.target /\ y.probe = xr.probe /\ y.began = xr.began
             /\ y.tried = xr.tried /\ y.status = xr.status /\ y.headSent
<1>5. CASE Len(out[c]) < 2 /\ x' = [x EXCEPT ![c].carry = FALSE]
           /\ Answer(c, <<Chunk(q)>>)
  <2> DEFINE y == [xr EXCEPT !.carry = FALSE]
             o == out[c] \o <<Chunk(q)>>
  <2>1. x' = [x EXCEPT ![c] = y] /\ out' = [out EXCEPT ![c] = o]
    BY <1>1, <1>5 DEF Answer
  <2>2. Same(y)
    BY <1>1, <1>2, <1>3 DEF Exchanges
  <2>3. out[c] = <<StreamHead(q)>>
    <3> HIDE DEF q
    <3>1. out[c] = <<StreamHead(q)>> \/ out[c] = <<StreamHead(q), Chunk(q)>>
      BY <1>2, <1>3 DEF Opening, q
    <3> QED
      BY <1>5, <3>1
  <2>4. o = <<StreamHead(q), Chunk(q)>>
    BY <2>3, TwoMessages
  <2> HIDE DEF y, o
  <2>5. Opening(y, o)
    BY <2>2, <2>4 DEF Opening
  <2> QED
    BY <1>2, <1>3, <2>1, <2>2, <2>5, TransferStep
<1>6. CASE x' = [x EXCEPT ![c].carry = TRUE] /\ UNCHANGED out
  <2> DEFINE y == [xr EXCEPT !.carry = TRUE]
  <2>1. x' = [x EXCEPT ![c] = y] /\ out' = [out EXCEPT ![c] = out[c]]
    BY <1>1, <1>4, <1>6
  <2>2. Same(y)
    BY <1>1, <1>2, <1>3 DEF Exchanges
  <2> HIDE DEF y
  <2>3. Opening(y, out[c])
    BY <1>2, <1>3, <2>2 DEF Opening
  <2> QED
    BY <1>2, <1>3, <2>1, <2>2, <2>3, TransferStep
<1>7. CASE x' = [x EXCEPT ![c].overflow = TRUE] /\ UNCHANGED out
  <2> DEFINE y == [xr EXCEPT !.overflow = TRUE]
  <2>1. x' = [x EXCEPT ![c] = y] /\ out' = [out EXCEPT ![c] = out[c]]
    BY <1>1, <1>4, <1>7
  <2>2. Same(y)
    BY <1>1, <1>2, <1>3 DEF Exchanges
  <2> HIDE DEF y
  <2>3. Opening(y, out[c])
    BY <1>2, <1>3, <2>2 DEF Opening
  <2> QED
    BY <1>2, <1>3, <2>1, <2>2, <2>3, TransferStep
<1> QED
  BY <1>5, <1>6, <1>7 DEF StreamWrite

\* af_prov_on_write before any head.
LEMMA BufferWriteStep ==
  ASSUME ExchangeInv, NEW c \in Conns, NEW body \in Bodies, BufferWrite(c, body)
  PROVE  ExchangeInv'
<1> DEFINE xr == x[c]
<1>1. /\ xr \in Exchanges /\ Recorded(xr) /\ Told(xr, out[c]) /\ DOMAIN x = Conns
      /\ out = [d \in Conns |-> out[d]]
  BY InvFacts DEF ExchangeInv
<1>2. xr.state = "active" /\ ~xr.headSent
      /\ UNCHANGED <<config, hs, disabled, cursor, active, out, reqs, now>>
  BY DEF BufferWrite
<1>3. xr.counted /\ Opening(xr, out[c])
  BY <1>1, <1>2 DEF Recorded, Told
<1>4. out' = [out EXCEPT ![c] = out[c]] /\ body \in BodyKinds
  BY <1>1, <1>2, ExchangeAssumption
<1> DEFINE Same(y) ==
             /\ y \in Exchanges /\ y.state = "active" /\ y.counted
             /\ y.target = xr.target /\ y.probe = xr.probe /\ y.began = xr.began
             /\ y.tried = xr.tried /\ ~y.headSent
<1>5. ASSUME NEW y, x' = [x EXCEPT ![c] = y], Same(y)
      PROVE  ExchangeInv'
  <2>1. Opening(y, out[c])
    BY <1>2, <1>3, <1>5 DEF Opening
  <2> QED
    BY <1>2, <1>4, <1>5, <2>1, TransferStep
<1>6. CASE x' = [x EXCEPT ![c].body = body]
  <2> DEFINE y == [xr EXCEPT !.body = body]
  <2>1. x' = [x EXCEPT ![c] = y]
    BY <1>1, <1>6
  <2>2. Same(y)
    BY <1>1, <1>2, <1>3, <1>4 DEF Exchanges
  <2> HIDE DEF y, Same
  <2> QED
    BY <1>5, <2>1, <2>2
<1>7. CASE x' = [x EXCEPT ![c].overflow = TRUE]
  <2> DEFINE y == [xr EXCEPT !.overflow = TRUE]
  <2>1. x' = [x EXCEPT ![c] = y]
    BY <1>1, <1>7
  <2>2. Same(y)
    BY <1>1, <1>2, <1>3 DEF Exchanges
  <2> HIDE DEF y, Same
  <2> QED
    BY <1>5, <2>1, <2>2
<1> QED
  BY <1>6, <1>7 DEF BufferWrite

\* The exchange is disposed of: its answer is finished, its ledger balanced.
LEMMA DisposeStep ==
  ASSUME ExchangeInv, NEW c \in Conns, x[c].state = "active", Dispose(c), NEW o,
         out' = [out EXCEPT ![c] = o], Finished(o),
         UNCHANGED <<config, disabled, reqs, now>>, cursor' \in Nat,
         hs' \in [Providers -> ProviderState],
         Ledger(hs', [x EXCEPT ![c] = Disposed(x[c])])
  PROVE  ExchangeInv'
<1> DEFINE y == Disposed(x[c])
<1>1. x' = [x EXCEPT ![c] = y] /\ active' = active - 1
  BY DEF Dispose, SlotReturned
<1>2. Configured /\ now \in Nat /\ reqs \in Nat
  BY InvFacts
<1>3. Recorded(y) /\ y.state = "free"
  BY <1>2, DisposedRecord
<1> HIDE DEF y
<1>4. Told(y, o)
  BY <1>3 DEF Told
<1>5. Ledger(hs', x')
  BY <1>1 DEF y
<1> QED
  BY <1>1, <1>2, <1>3, <1>4, <1>5, OneRecord

\* af_prov_exchange_finish without a further attempt, and af_prov_conn_detach.
LEMMA FinishStep ==
  ASSUME ExchangeInv, NEW c \in Conns, NEW code, NEW connected,
         Finish(c, code, connected) \/ Disconnect(c)
  PROVE  ExchangeInv'
<1> DEFINE y == Disposed(x[c])
<1>1. /\ Configured /\ Ledger(hs, x) /\ now \in Nat /\ cursor \in Nat
      /\ hs \in [Providers -> ProviderState] /\ DOMAIN x = Conns
      /\ Recorded(x[c]) /\ Sound(x[c]) /\ Told(x[c], out[c])
  BY InvFacts
<1>2. x[c].state = "active"
  BY DEF Finish, Disconnect
<1>3. ~y.counted
  BY <1>1, DisposedRecord
<1>4. \A v : /\ Release(hs, x[c], v) \in [Providers -> ProviderState]
             /\ Ledger(Release(hs, x[c], v), [x EXCEPT ![c] = y])
  <2> HIDE DEF y
  <2> QED
    BY <1>1, <1>3, ReleaseFields, LedgerRelease
<1>5. CASE Finish(c, code, connected)
  <2> DEFINE tr == Transport(code, connected)
             v == Verdict(x[c], tr)
             o == out[c] \o Reply(x[c], tr)
  <2>1. /\ hs' = Release(hs, x[c], v) /\ Dispose(c)
        /\ out' = [out EXCEPT ![c] = o]
        /\ UNCHANGED <<config, disabled, cursor, reqs, now>>
    BY <1>5 DEF Finish, Answer
  <2>2. Opening(x[c], out[c]) /\ x[c].target \in DOMAIN route.targets
    BY <1>1, <1>2 DEF Told, Recorded, Sound
  <2>3. Finished(o)
    BY <1>1, <2>2, ReplyFinishes
  <2> HIDE DEF tr, v, o
  <2> QED
    BY <1>1, <1>2, <1>4, <2>1, <2>3, DisposeStep
<1>6. CASE Disconnect(c)
  <2>1. /\ hs' = Release(hs, x[c], "cancelled") /\ Dispose(c)
        /\ out' = [out EXCEPT ![c] = <<>>]
        /\ UNCHANGED <<config, disabled, cursor, reqs, now>>
    BY <1>6 DEF Disconnect, Restart
  <2>2. Finished(<<>>)
    BY DEF Finished
  <2> QED
    BY <1>1, <1>2, <1>4, <2>1, <2>2, DisposeStep
<1> QED
  BY <1>5, <1>6

\* What both endings of a fallback start from: the failed attempt is released
\* and torn down, the selector has been asked again.
LEMMA FallbackFacts ==
  ASSUME ExchangeInv, NEW c \in Conns, x[c].state = "active", ~x[c].headSent,
         NEW verdict
  PROVE  LET torn == TornDown(x[c])
             a == Attempt(Release(hs, x[c], verdict), torn)
         IN  /\ torn \in Exchanges /\ ~torn.counted /\ ~torn.headSent
             /\ torn.tried = x[c].tried /\ torn.attempt = x[c].attempt
             /\ torn.body = "empty"
             /\ a.hs \in [Providers -> ProviderState] /\ a.cursor \in Nat
             /\ Ledger(a.hs, [x EXCEPT ![c] = torn])
             /\ a.target # 0 =>
                  /\ a.target \in Nat
                  /\ a.target \in DOMAIN route.targets \ torn.tried
                  /\ Admissible(a.hs[Prov(a.target)], prov[Prov(a.target)])
<1>1. /\ Configured /\ Ledger(hs, x) /\ now \in Nat /\ cursor \in Nat
      /\ hs \in [Providers -> ProviderState] /\ DOMAIN x = Conns
      /\ Sound(x[c]) /\ x[c] \in Exchanges
  BY InvFacts
<1> DEFINE torn == TornDown(x[c])
           h == Release(hs, x[c], verdict)
           a == Attempt(h, torn)
<1>2. /\ torn \in Exchanges /\ ~torn.counted /\ ~torn.headSent
      /\ torn.tried = x[c].tried /\ torn.attempt = x[c].attempt
      /\ torn.body = "empty"
  BY <1>1, TornDownFields
<1> HIDE DEF torn
<1>3. h \in [Providers -> ProviderState]
  BY <1>1, ReleaseFields
<1>4. Ledger(h, [x EXCEPT ![c] = torn])
  BY <1>1, <1>2, LedgerRelease
<1> HIDE DEF h
<1>5. /\ a.hs \in [Providers -> ProviderState] /\ a.cursor \in Nat
      /\ \A q \in Providers :
           /\ a.hs[q].active = h[q].active
           /\ a.hs[q].probes = h[q].probes \/ a.hs[q].probes = 0
      /\ a.target # 0 =>
           /\ a.target \in DOMAIN route.targets \ torn.tried
           /\ Admissible(a.hs[Prov(a.target)], prov[Prov(a.target)])
  BY <1>1, <1>3, AttemptFields
<1> HIDE DEF a
<1>6. Ledger(a.hs, [x EXCEPT ![c] = torn])
  BY <1>3, <1>4, <1>5, LedgerScan
<1>7. a.target # 0 => a.target \in Nat
  BY <1>1, <1>5, TargetsName
<1> QED
  BY <1>2, <1>5, <1>6, <1>7 DEF torn, h, a

\* af_prov_exchange_finish that starts the next attempt: the record goes to
\* another target, with the answer still empty.
LEMMA FallBackRecord ==
  ASSUME ExchangeInv, NEW c \in Conns, NEW code, NEW connected,
         FallBack(c, code, connected)
  PROVE  /\ x[c].state = "active" /\ ~x[c].headSent
         /\ x[c].attempt < route.maxAttempts
         /\ \E y : /\ x' = [x EXCEPT ![c] = y]
                   /\ hs' \in [Providers -> ProviderState] /\ Ledger(hs', x')
                   /\ cursor' \in Nat
                   /\ y \in Exchanges /\ y.counted /\ y.began = now
                   /\ y.state = "active" /\ y.status = 0 /\ ~y.headSent
                   /\ y.target \in DOMAIN route.targets \ x[c].tried
                   /\ y.tried = x[c].tried \cup {y.target}
                   /\ y.attempt = x[c].attempt + 1 /\ y.body = "empty"
<1> DEFINE verdict == Verdict(x[c], Transport(code, connected))
           torn == TornDown(x[c])
           a == Attempt(Release(hs, x[c], verdict), torn)
           z == Claim(a, torn)
           y == Launched(z)
<1>1. /\ x[c].state = "active" /\ MayFallBack(x[c], verdict)
      /\ a.target # 0 /\ cursor' = a.cursor /\ hs' = ClaimedHealth(a)
      /\ x' = [x EXCEPT ![c] = y]
  BY DEF FallBack
<1>2. ~x[c].headSent /\ x[c].attempt < route.maxAttempts
  BY <1>1 DEF MayFallBack
<1> HIDE DEF verdict
<1>3. Configured /\ now \in Nat /\ DOMAIN x = Conns
  BY InvFacts
<1>4. /\ torn \in Exchanges /\ ~torn.counted /\ ~torn.headSent
      /\ torn.tried = x[c].tried /\ torn.attempt = x[c].attempt
      /\ torn.body = "empty"
      /\ a.hs \in [Providers -> ProviderState] /\ a.cursor \in Nat
      /\ Ledger(a.hs, [x EXCEPT ![c] = torn])
      /\ a.target # 0 =>
           /\ a.target \in Nat
           /\ a.target \in DOMAIN route.targets \ torn.tried
           /\ Admissible(a.hs[Prov(a.target)], prov[Prov(a.target)])
  BY <1>1, <1>2, FallbackFacts
<1> HIDE DEF torn, a
<1>5. a.target \in Nat /\ a.target \in DOMAIN route.targets \ x[c].tried
  BY <1>1, <1>4
<1>6. /\ z \in Exchanges /\ z.counted /\ z.target = a.target /\ z.began = now
      /\ z.probe = IsProbe(a.hs[Prov(a.target)])
      /\ z.tried = torn.tried \cup {a.target} /\ z.headSent = torn.headSent
      /\ z.attempt = torn.attempt + 1 /\ z.body = torn.body
  BY <1>3, <1>4, <1>5, ClaimFields
<1> HIDE DEF z
<1>7. /\ y \in Exchanges /\ y.counted = z.counted /\ y.target = z.target
      /\ y.began = z.began /\ y.probe = z.probe /\ y.tried = z.tried
      /\ y.headSent = z.headSent /\ y.attempt = z.attempt /\ y.body = z.body
      /\ y.state = "active" /\ y.status = 0
  BY <1>6, LaunchedFields
<1> HIDE DEF y
<1> DEFINE xs == [x EXCEPT ![c] = torn]
<1>8. DOMAIN xs = Conns /\ ~xs[c].counted /\ x' = [xs EXCEPT ![c] = y]
  BY <1>1, <1>3, <1>4
<1> HIDE DEF xs
<1>9. Ledger(a.hs, xs) /\ y.counted /\ y.target = a.target
      /\ y.probe = IsProbe(a.hs[Prov(a.target)])
  BY <1>4, <1>6, <1>7 DEF xs
<1>10. Admissible(a.hs[Prov(a.target)], prov[Prov(a.target)])
  BY <1>1, <1>4
<1>11. hs' \in [Providers -> ProviderState] /\ Ledger(hs', x')
  <2>1. a.hs \in [Providers -> ProviderState] /\ a.target \in DOMAIN route.targets
    BY <1>4, <1>5
  <2>2. DOMAIN xs = Conns /\ ~xs[c].counted
    BY <1>8
  <2>3. /\ ClaimedHealth(a) \in [Providers -> ProviderState]
        /\ Ledger(ClaimedHealth(a), [xs EXCEPT ![c] = y])
    BY <1>3, <1>9, <1>10, <2>1, <2>2, LedgerClaim
  <2> QED
    BY <1>1, <1>8, <2>3
<1>12. /\ y.began = now /\ ~y.headSent /\ y.body = "empty"
       /\ y.target \in DOMAIN route.targets \ x[c].tried
       /\ y.tried = x[c].tried \cup {y.target}
       /\ y.attempt = x[c].attempt + 1
  BY <1>4, <1>5, <1>6, <1>7
<1> QED
  BY <1>1, <1>2, <1>4, <1>7, <1>9, <1>11, <1>12

LEMMA FallBackStep ==
  ASSUME ExchangeInv, NEW c \in Conns, NEW code, NEW connected,
         FallBack(c, code, connected)
  PROVE  ExchangeInv'
<1>1. PICK y : /\ x' = [x EXCEPT ![c] = y]
               /\ hs' \in [Providers -> ProviderState] /\ Ledger(hs', x')
               /\ cursor' \in Nat
               /\ y \in Exchanges /\ y.counted /\ y.began = now
               /\ y.state = "active" /\ y.status = 0 /\ ~y.headSent
               /\ y.target \in DOMAIN route.targets \ x[c].tried
               /\ y.tried = x[c].tried \cup {y.target}
               /\ y.attempt = x[c].attempt + 1 /\ y.body = "empty"
  BY FallBackRecord, Zenon
<1>2. x[c].state = "active" /\ ~x[c].headSent
  BY FallBackRecord
<1>3. /\ now \in Nat /\ reqs \in Nat /\ Recorded(x[c]) /\ Told(x[c], out[c])
      /\ out = [d \in Conns |-> out[d]]
  BY InvFacts DEF ExchangeInv
<1>4. UNCHANGED <<config, disabled, active, out, reqs, now>>
  BY DEF FallBack
<1>5. out' = [out EXCEPT ![c] = out[c]] /\ reqs' \in Nat /\ active' = active
      /\ UNCHANGED <<config, disabled, now>>
  BY <1>3, <1>4
<1>6. Recorded(y)
  BY <1>1, <1>3 DEF Recorded, Sound
<1>7. Told(y, out[c])
  BY <1>1, <1>2, <1>3 DEF Told, Opening
<1> QED
  BY <1>1, <1>2, <1>5, <1>6, <1>7, OneRecord

\* .fallback_exhausted: the first failure is answered, the second claim, if
\* there was one, is given back.
LEMMA FallbackExhaustedStep ==
  ASSUME ExchangeInv, NEW c \in Conns, NEW code, NEW connected,
         FallbackExhausted(c, code, connected)
  PROVE  ExchangeInv'
<1> DEFINE tr == Transport(code, connected)
           verdict == Verdict(x[c], tr)
           torn == TornDown(x[c])
           a == Attempt(Release(hs, x[c], verdict), torn)
           z == Claim(a, torn)
<1>1. /\ x[c].state = "active" /\ MayFallBack(x[c], verdict) /\ cursor' = a.cursor
      /\ \/ /\ a.target = 0 /\ hs' = a.hs /\ Answer(c, Reply(torn, tr))
         \/ /\ a.target # 0 /\ hs' = Release(ClaimedHealth(a), z, verdict)
            /\ Answer(c, Reply(z, tr))
      /\ Dispose(c) /\ UNCHANGED <<config, disabled, reqs, now>>
  BY DEF FallbackExhausted
<1>2. ~x[c].headSent
  BY <1>1 DEF MayFallBack
<1> HIDE DEF verdict, tr
<1>3. Configured /\ now \in Nat /\ DOMAIN x = Conns /\ Told(x[c], out[c])
  BY InvFacts
<1>4. /\ torn \in Exchanges /\ ~torn.counted /\ ~torn.headSent
      /\ a.hs \in [Providers -> ProviderState] /\ a.cursor \in Nat
      /\ Ledger(a.hs, [x EXCEPT ![c] = torn])
      /\ a.target # 0 =>
           /\ a.target \in Nat
           /\ a.target \in DOMAIN route.targets \ torn.tried
           /\ Admissible(a.hs[Prov(a.target)], prov[Prov(a.target)])
  BY <1>1, <1>2, FallbackFacts
<1> HIDE DEF torn, a
<1>5. out[c] = <<>>
  BY <1>1, <1>2, <1>3 DEF Told, Opening
<1> DEFINE xs == [x EXCEPT ![c] = torn]
           d == Disposed(x[c])
<1>6. /\ DOMAIN xs = Conns /\ ~xs[c].counted
      /\ [xs EXCEPT ![c] = d] = [x EXCEPT ![c] = d]
  BY <1>3, <1>4
<1>7. ~d.counted
  BY <1>3, DisposedRecord
<1>8. CASE a.target = 0
  <2> DEFINE o == out[c] \o Reply(torn, tr)
  <2>1. hs' = a.hs /\ out' = [out EXCEPT ![c] = o]
    BY <1>1, <1>8 DEF Answer
  <2>2. Opening(torn, out[c])
    BY <1>4, <1>5 DEF Opening
  <2>3. Finished(o)
    BY <1>3, <1>4, <2>2, ReplyFinishes
  <2> HIDE DEF o
  <2>4. \A q : /\ HoldersIn([x EXCEPT ![c] = d], q) = HoldersIn(xs, q)
               /\ ProbersIn([x EXCEPT ![c] = d], q) = ProbersIn(xs, q)
    <3> HIDE DEF d
    <3> QED
      BY <1>3, <1>4, <1>7 DEF HoldersIn, ProbersIn
  <2>5. Ledger(hs', [x EXCEPT ![c] = d])
    <3> HIDE DEF d
    <3> QED
      BY <1>4, <2>1, <2>4 DEF Ledger
  <2> QED
    BY <1>1, <1>4, <2>1, <2>3, <2>5, DisposeStep
<1>9. CASE a.target # 0
  <2> DEFINE o == out[c] \o Reply(z, tr)
  <2>1. hs' = Release(ClaimedHealth(a), z, verdict) /\ out' = [out EXCEPT ![c] = o]
    BY <1>1, <1>9 DEF Answer
  <2>2. z \in Exchanges /\ z.headSent = torn.headSent
    BY <1>3, <1>4, <1>9, ClaimFields
  <2>3. ~z.headSent
    BY <1>4, <2>2
  <2>4. Finished(o)
    <3> HIDE DEF z
    <3>1. Opening(z, out[c])
      BY <1>5, <2>3 DEF Opening
    <3> QED
      BY <1>3, <2>3, <3>1, ReplyFinishes
  <2> HIDE DEF o
  <2>5. /\ a.target \in DOMAIN route.targets
        /\ Admissible(a.hs[Prov(a.target)], prov[Prov(a.target)])
    BY <1>4, <1>9
  <2>6. Ledger(a.hs, xs)
    BY <1>4
  <2>7. /\ hs' \in [Providers -> ProviderState]
        /\ Ledger(hs', [xs EXCEPT ![c] = d])
    <3> HIDE DEF xs, d
    <3> QED
      BY <1>3, <1>4, <1>6, <1>7, <2>1, <2>5, <2>6, LedgerClaimReleased
  <2> QED
    BY <1>1, <1>4, <1>6, <2>1, <2>4, <2>7, DisposeStep
<1> QED
  BY <1>8, <1>9

\* A step of no connection: an operator's command, or the clock.
LEMMA QuietStep ==
  ASSUME ExchangeInv,
         UNCHANGED <<config, cursor, active, x, out, reqs>>,
         disabled' \subseteq Providers, now' \in Nat, now <= now',
         hs' \in [Providers -> ProviderState], Ledger(hs', x)
  PROVE  ExchangeInv'
<1>1. route' = route /\ prov' = prov /\ ceiling' = ceiling
      /\ cursor' = cursor /\ active' = active /\ x' = x /\ out' = out
      /\ reqs' = reqs
  BY DEF config
<1>2. Configured'
  BY <1>1 DEF ExchangeInv, Configured
<1>3. TypeOK'
  BY <1>1 DEF ExchangeInv, TypeOK, Providers
<1>4. Ledger(hs, x)'
  BY <1>1 DEF Ledger, HoldersIn, ProbersIn, Providers, Prov
<1>5. (active = Cardinality(LiveConns) /\ active <= ceiling)'
  BY <1>1 DEF ExchangeInv, LiveConns
<1>6. ASSUME NEW c \in Conns
      PROVE  Recorded(x[c])' /\ Told(x[c], out[c])'
  <2>1. /\ Recorded(x[c]) /\ Told(x[c], out[c]) /\ now \in Nat
        /\ x[c].began \in Nat /\ x[c].began <= now
    BY InvFacts DEF Sound, Exchanges
  <2>2. x[c].began <= now'
    BY <2>1
  <2>3. Recorded(x[c])'
    BY <1>1, <2>1, <2>2 DEF Recorded, Sound
  <2>4. Told(x[c], out[c])'
    BY <1>1, <2>1 DEF Told, Opening, Finished, Prov, Providers
  <2> QED
    BY <2>3, <2>4
<1>7. (out = [c \in Conns |-> out[c]])'
  BY <1>1 DEF ExchangeInv
<1> QED
  BY <1>2, <1>3, <1>4, <1>5, <1>6, <1>7 DEF ExchangeInv

\* provider.disable, provider.enable and the clock.
LEMMA QuietSteps ==
  ASSUME ExchangeInv
  PROVE  /\ \A q \in Operated : SetProviderState(q) => ExchangeInv'
         /\ Tick => ExchangeInv'
         /\ UNCHANGED vars => ExchangeInv'
<1>1. /\ Configured /\ hs \in [Providers -> ProviderState] /\ now \in Nat
      /\ disabled \subseteq Providers /\ Ledger(hs, x)
  BY DEF ExchangeInv, TypeOK
<1>2. ASSUME NEW q \in Operated, SetProviderState(q)
      PROVE  ExchangeInv'
  <2>1. q \in Providers /\ hs[q] \in ProviderState
    BY <1>1, ConfigFacts
  <2>2. /\ Refresh(hs[q], now) \in ProviderState
        /\ Refresh(hs[q], now).active = hs[q].active
        /\ \/ Refresh(hs[q], now).probes = hs[q].probes
           \/ Refresh(hs[q], now).probes = 0
    BY <1>1, <2>1, RefreshFields
  <2>3. hs' = [hs EXCEPT ![q] = Refresh(hs[q], now)]
    BY <1>2 DEF SetProviderState
  <2>4. /\ hs' \in [Providers -> ProviderState]
        /\ \A p \in Providers :
             /\ hs'[p].active = hs[p].active
             /\ hs'[p].probes = hs[p].probes \/ hs'[p].probes = 0
    BY <1>1, <2>1, <2>2, <2>3
  <2>5. Ledger(hs', x)
    BY <1>1, <2>4, LedgerScan
  <2>6. /\ UNCHANGED <<config, cursor, active, x, out, reqs>> /\ now' = now
        /\ disabled' \subseteq Providers
    BY <1>1, <1>2, <2>1 DEF SetProviderState
  <2>7. now' \in Nat /\ now <= now'
    BY <1>1, <2>6
  <2> QED
    BY <2>4, <2>5, <2>6, <2>7, QuietStep
<1>3. ASSUME Tick
      PROVE  ExchangeInv'
  BY <1>1, <1>3, QuietStep DEF Tick
<1>4. ASSUME UNCHANGED vars
      PROVE  ExchangeInv'
  BY <1>1, <1>4, QuietStep DEF vars
<1> QED
  BY <1>2, <1>3, <1>4

\* The invariant is inductive.
LEMMA ExchangeInvariance == Spec => []ExchangeInv
<1>1. ASSUME ExchangeInv, [Next]_vars
      PROVE  ExchangeInv'
  <2>1. CASE UNCHANGED vars
    BY <1>1, <2>1, QuietSteps
  <2>2. CASE Tick
    BY <1>1, <2>2, QuietSteps
  <2>3. CASE \E q \in Operated : SetProviderState(q)
    BY <1>1, <2>3, QuietSteps
  <2>4. ASSUME NEW c \in Conns, RefuseCapacity(c)
        PROVE  ExchangeInv'
    BY <1>1, <2>4, AnyKindType, StartSteps
  <2>5. ASSUME NEW c \in Conns, NEW kind \in Kinds,
               RefuseFamily(c, kind) \/ RefuseStart(c, kind) \/ Start(c, kind)
        PROVE  ExchangeInv'
    BY <1>1, <2>5, StartSteps
  <2>6. ASSUME NEW c \in Conns, NEW status \in Statuses, NEW sse \in BOOLEAN,
               Headers(c, status, sse)
        PROVE  ExchangeInv'
    BY <1>1, <2>6, HeadersStep
  <2>7. ASSUME NEW c \in Conns, NEW piece, StreamWrite(c, piece)
        PROVE  ExchangeInv'
    BY <1>1, <2>7, StreamWriteStep
  <2>8. ASSUME NEW c \in Conns, NEW body \in Bodies, BufferWrite(c, body)
        PROVE  ExchangeInv'
    BY <1>1, <2>8, BufferWriteStep
  <2>9. ASSUME NEW c \in Conns, Complete(c)
        PROVE  ExchangeInv'
    <3>1. PICK code \in CurlResults, connected \in BOOLEAN :
               \/ Finish(c, code, connected)
               \/ FallBack(c, code, connected)
               \/ FallbackExhausted(c, code, connected)
      BY <2>9 DEF Complete
    <3> QED
      BY <1>1, <3>1, FinishStep, FallBackStep, FallbackExhaustedStep
  <2>10. ASSUME NEW c \in Conns, Disconnect(c)
         PROVE  ExchangeInv'
    BY <1>1, <2>10, FinishStep
  <2> QED
    BY <1>1, <2>1, <2>2, <2>3, <2>4, <2>5, <2>6, <2>7, <2>8, <2>9, <2>10 DEF Next
<1> QED
  BY InvInit, <1>1, PTL DEF Spec

----------------------------------------------------------------------------
(* The theorems.                                                            *)

(***************************************************************************)
(* Every variable keeps its type, and an exchange has tried only targets   *)
(* of its route, for every configuration and every number of connections,  *)
(* requests and milliseconds.                                              *)
(***************************************************************************)
THEOREM TypeCorrect == Spec => []TypeOK
BY ExchangeInvariance, InvImplies, PTL

(***************************************************************************)
(* The ledger: what a provider counts as in flight is what the exchanges   *)
(* hold, claimed probes included, and stays within max_concurrency         *)
(* (af_prov_attempt_release: once per attempt, however it ended).          *)
(***************************************************************************)
THEOREM ClaimsHeld == Spec => []ClaimsAreHeld
BY ExchangeInvariance, InvImplies, PTL

(***************************************************************************)
(* PE_ACTIVE is the number of exchanges in flight, at most the ceiling     *)
(* (af_prov_slot_alloc, af_prov_slot_release).                             *)
(***************************************************************************)
THEOREM EngineCounts == Spec => []EngineCountsExchanges
BY ExchangeInvariance, InvImplies, PTL

(***************************************************************************)
(* A request is answered once and by one voice: the commit barrier of      *)
(* af_prov_may_fall_back and af_prov_exchange_finish keeps the responses   *)
(* of different attempts apart.                                            *)
(***************************************************************************)
THEOREM OneVoice == Spec => []OneAnswerOneVoice
BY ExchangeInvariance, InvImplies, PTL

\* One step: an exchange in flight that begins another attempt falls back.
LEMMA FreshStep ==
  ASSUME ExchangeInv, [Next]_vars, NEW c \in Conns,
         Live(c), Live(c)', x[c].attempt # x'[c].attempt
  PROVE  /\ ~x[c].headSent
         /\ x'[c].target \notin x[c].tried
         /\ x'[c].attempt <= route.maxAttempts
         /\ x'[c].body = "empty" /\ x'[c].status = 0
<1>1. /\ x \in [Conns -> Exchanges] /\ Configured /\ x[c] \in Exchanges
      /\ x[c].attempt \in Nat /\ route.maxAttempts \in Nat
  BY ConfigFacts DEF ExchangeInv, TypeOK, Exchanges
<1>2. x' # x
  OBVIOUS
<1>3. ASSUME NEW d \in Conns, NEW y, x' = [x EXCEPT ![d] = y]
      PROVE  d = c /\ x'[c] = y
  BY <1>1, <1>3
<1>4. ASSUME NEW d \in Conns, Dispose(d)
      PROVE  FALSE
  <2>1. x' = [x EXCEPT ![d] = Disposed(x[d])]
    BY <1>4 DEF Dispose
  <2>2. d = c /\ x'[c] = NewExchange(AnyKind)
    BY <1>3, <2>1 DEF Disposed
  <2>3. x'[c].state = "free"
    BY <2>2 DEF NewExchange
  <2> QED
    BY <2>3 DEF Live
<1>5. ASSUME NEW d \in Conns, NEW y, x' = [x EXCEPT ![d] = y],
             y.attempt = x[d].attempt
      PROVE  FALSE
  BY <1>3, <1>5
<1>6. PICK d \in Conns, code \in CurlResults, connected \in BOOLEAN :
        FallBack(d, code, connected)
  <2>1. ~Tick /\ ~\E q \in Operated : SetProviderState(q)
    BY <1>2 DEF Tick, SetProviderState
  <2>2. ~UNCHANGED vars
    BY <1>2 DEF vars
  <2>3. ASSUME NEW d \in Conns, NEW kind \in Kinds
        PROVE  ~RefuseCapacity(d) /\ ~RefuseFamily(d, kind) /\ ~RefuseStart(d, kind)
    BY <1>2 DEF RefuseCapacity, RefuseFamily, RefuseStart
  <2>4. ASSUME NEW d \in Conns, NEW kind \in Kinds, Start(d, kind)
        PROVE  FALSE
    <3>1. x[d].state = "free" /\ \E y : x' = [x EXCEPT ![d] = y]
      BY <2>4 DEF Start, Arrives
    <3>2. d = c
      BY <1>3, <3>1
    <3> QED
      BY <3>1, <3>2 DEF Live
  <2>5. ASSUME NEW d \in Conns, NEW status \in Statuses, NEW sse \in BOOLEAN,
               Headers(d, status, sse)
        PROVE  FALSE
    <3> DEFINE commit == x[d].kind.stream /\ sse /\ Is2xx(status)
               y == [x[d] EXCEPT !.status = status, !.sse = sse, !.headSent = commit]
    <3>1. x' = [x EXCEPT ![d] = y]
      BY <1>1, <2>5 DEF Headers
    <3> HIDE DEF commit
    <3>2. x[d] \in Exchanges
      BY <1>1
    <3>3. y.attempt = x[d].attempt
      BY <3>2 DEF Exchanges
    <3> HIDE DEF y
    <3> QED
      BY <1>5, <3>1, <3>3
  <2>6. ASSUME NEW d \in Conns, NEW piece, StreamWrite(d, piece)
        PROVE  FALSE
    <3> DEFINE y(v) == [x[d] EXCEPT !.carry = v]
               z == [x[d] EXCEPT !.overflow = TRUE]
    <3>1. \/ x' = [x EXCEPT ![d] = y(FALSE)] \/ x' = [x EXCEPT ![d] = y(TRUE)]
          \/ x' = [x EXCEPT ![d] = z]
      BY <1>1, <2>6 DEF StreamWrite
    <3>2. x[d] \in Exchanges
      BY <1>1
    <3>3. /\ y(FALSE).attempt = x[d].attempt /\ y(TRUE).attempt = x[d].attempt
          /\ z.attempt = x[d].attempt
      BY <3>2 DEF Exchanges
    <3> HIDE DEF y, z
    <3> QED
      BY <1>5, <3>1, <3>3
  <2>7. ASSUME NEW d \in Conns, NEW body \in Bodies, BufferWrite(d, body)
        PROVE  FALSE
    <3> DEFINE y == [x[d] EXCEPT !.body = body]
               z == [x[d] EXCEPT !.overflow = TRUE]
    <3>1. x' = [x EXCEPT ![d] = y] \/ x' = [x EXCEPT ![d] = z]
      BY <1>1, <2>7 DEF BufferWrite
    <3>2. x[d] \in Exchanges
      BY <1>1
    <3>3. y.attempt = x[d].attempt /\ z.attempt = x[d].attempt
      BY <3>2 DEF Exchanges
    <3> HIDE DEF y, z
    <3> QED
      BY <1>5, <3>1, <3>3
  <2>8. ASSUME NEW d \in Conns
        PROVE  /\ ~Disconnect(d)
               /\ \A code, connected : /\ ~Finish(d, code, connected)
                                       /\ ~FallbackExhausted(d, code, connected)
    BY <1>4 DEF Disconnect, Finish, FallbackExhausted
  <2>9. \E d \in Conns : Complete(d)
    BY <2>1, <2>2, <2>3, <2>4, <2>5, <2>6, <2>7, <2>8, AnyKindType DEF Next
  <2>10. \E d \in Conns, code \in CurlResults, connected \in BOOLEAN :
           FallBack(d, code, connected)
    BY <2>8, <2>9 DEF Complete
  <2> QED
    BY <2>10
<1>7. PICK y : /\ x' = [x EXCEPT ![d] = y]
               /\ hs' \in [Providers -> ProviderState] /\ Ledger(hs', x')
               /\ cursor' \in Nat
               /\ y \in Exchanges /\ y.counted /\ y.began = now
               /\ y.state = "active" /\ y.status = 0 /\ ~y.headSent
               /\ y.target \in DOMAIN route.targets \ x[d].tried
               /\ y.tried = x[d].tried \cup {y.target}
               /\ y.attempt = x[d].attempt + 1 /\ y.body = "empty"
  BY <1>6, FallBackRecord, Zenon
<1>8. ~x[d].headSent /\ x[d].attempt < route.maxAttempts
  BY <1>6, FallBackRecord
<1>9. d = c /\ x'[c] = y
  BY <1>3, <1>7
<1>10. y.attempt <= route.maxAttempts
  BY <1>1, <1>7, <1>8, <1>9
<1> QED
  BY <1>7, <1>8, <1>9, <1>10

(***************************************************************************)
(* Another attempt is begun only before the head is sent, on a target that *)
(* was not tried, within the route's attempts, and with nothing of the     *)
(* earlier answer (af_prov_may_fall_back, af_prov_attempt_start).          *)
(***************************************************************************)
THEOREM FreshAttempts == Spec => AttemptsAreFresh
<1> DEFINE A == \A c \in Conns :
                  (Live(c) /\ Live(c)' /\ x[c].attempt # x[c]'.attempt) =>
                    /\ ~x[c].headSent
                    /\ x[c]'.target \notin x[c].tried
                    /\ x[c]'.attempt <= route.maxAttempts
                    /\ x[c]'.body = "empty" /\ x[c]'.status = 0
<1>1. ASSUME ExchangeInv, [Next]_vars
      PROVE  A
  BY <1>1, FreshStep
<1> HIDE DEF A
<1>2. Spec => [][A]_vars
  BY ExchangeInvariance, <1>1, PTL DEF Spec
<1> QED
  BY <1>2 DEF AttemptsAreFresh, A

----------------------------------------------------------------------------
(* The circuits of the providers, while exchanges of the whole gateway run  *)
(* through them: what CircuitBreaker shows of one provider whose attempts   *)
(* come and go by themselves holds of each of them here, where a completion *)
(* may release one provider, refresh all of a route and claim another.      *)

Circuits(h, t) == \A q \in Providers : Steady(h[q], prov[q], t)

\* The numbers of a configured provider.
LEMMA ProviderNumbers ==
  ASSUME Configured, NEW q \in Providers
  PROVE  Numbers(prov[q])
BY ConfigFacts DEF Numbers

\* A release keeps every circuit steady, whatever the verdict.
LEMMA CircuitsRelease ==
  ASSUME Configured, now \in Nat, NEW h \in [Providers -> ProviderState],
         NEW xr, Sound(xr), NEW verdict, Circuits(h, now)
  PROVE  Circuits(Release(h, xr, verdict), now)
<1>1. CASE ~xr.counted
  BY <1>1 DEF Release
<1>2. CASE xr.counted
  <2> DEFINE q == Prov(xr.target)
             e == End(h[q], xr.probe)
             l == 1000 * (now - xr.began)
             v == CASE verdict = "cancelled" -> e
                    [] verdict = OK -> Success(e, prov[q], l)
                    [] OTHER -> Failure(e, prov[q], now)
  <2>1. q \in Providers
    BY <1>2, TargetsName DEF Sound
  <2>2. xr.probe \in BOOLEAN /\ l \in Nat
    BY DEF Sound, Exchanges
  <2>3. Numbers(prov[q]) /\ Steady(h[q], prov[q], now)
    BY <2>1, ProviderNumbers DEF Circuits
  <2>4. Release(h, xr, verdict) = [h EXCEPT ![q] = v]
    BY <1>2 DEF Release
  <2>5. v = e \/ v = Success(e, prov[q], l) \/ v = Failure(e, prov[q], now)
    OBVIOUS
  <2>6. Steady(e, prov[q], now)
    <3> HIDE DEF q
    <3> QED
      BY <2>2, <2>3, EndSteady
  <2> HIDE DEF q, e, l, v
  <2>7. /\ Steady(Success(e, prov[q], l), prov[q], now)
        /\ Steady(Failure(e, prov[q], now), prov[q], now)
    BY <2>2, <2>3, <2>6, SuccessSteady, FailureSteady
  <2>8. Steady(v, prov[q], now)
    BY <2>5, <2>6, <2>7
  <2>9. \A r \in Providers : [h EXCEPT ![q] = v][r] = IF r = q THEN v ELSE h[r]
    OBVIOUS
  <2> QED
    BY <2>4, <2>8, <2>9 DEF Circuits
<1> QED
  BY <1>1, <1>2

\* A scan refreshes the circuits it passes.
LEMMA CircuitsScan ==
  ASSUME Configured, now \in Nat, NEW h \in [Providers -> ProviderState],
         NEW xr, Circuits(h, now)
  PROVE  Circuits(Attempt(h, xr).hs, now)
<1> DEFINE f == Refreshed(h, route, Scanned(route, prov, xr.kind, xr.tried), now)
<1>1. Attempt(h, xr).hs = f
  BY DEF Attempt
<1>2. \A q \in Providers : f[q] = h[q] \/ f[q] = Refresh(h[q], now)
  BY RefreshedFields
<1> HIDE DEF f
<1>3. ASSUME NEW q \in Providers
      PROVE  Steady(f[q], prov[q], now)
  <2>1. Numbers(prov[q]) /\ Steady(h[q], prov[q], now)
    BY ProviderNumbers DEF Circuits
  <2>2. Steady(Refresh(h[q], now), prov[q], now)
    BY <2>1, RefreshSteady
  <2> QED
    BY <1>2, <2>1, <2>2
<1> QED
  BY <1>1, <1>3 DEF Circuits

\* A claim is made on a circuit that admits it.
LEMMA CircuitsClaim ==
  ASSUME Configured, now \in Nat, NEW a, a.hs \in [Providers -> ProviderState],
         a.target \in DOMAIN route.targets,
         Admissible(a.hs[Prov(a.target)], prov[Prov(a.target)]),
         Circuits(a.hs, now)
  PROVE  Circuits(ClaimedHealth(a), now)
<1> DEFINE q == Prov(a.target)
           b == Begin(a.hs[q])
<1>1. q \in Providers
  BY TargetsName
<1>2. Numbers(prov[q]) /\ Steady(a.hs[q], prov[q], now)
  BY <1>1, ProviderNumbers DEF Circuits
<1>3. Admit(a.hs[q])
  BY DEF Admissible
<1>4. ClaimedHealth(a) = [a.hs EXCEPT ![q] = b]
  BY DEF ClaimedHealth
<1> HIDE DEF q
<1>5. Steady(b, prov[q], now)
  BY <1>2, <1>3, BeginSteady
<1> HIDE DEF b
<1>6. \A r \in Providers : [a.hs EXCEPT ![q] = b][r] = IF r = q THEN b ELSE a.hs[r]
  BY <1>1
<1> QED
  BY <1>4, <1>5, <1>6 DEF Circuits

\* A claim given back in the same step.
LEMMA CircuitsClaimReleased ==
  ASSUME Configured, now \in Nat, NEW a, a.hs \in [Providers -> ProviderState],
         a.target \in DOMAIN route.targets,
         Admissible(a.hs[Prov(a.target)], prov[Prov(a.target)]),
         NEW xr \in Exchanges, NEW verdict, Circuits(a.hs, now)
  PROVE  Circuits(Release(ClaimedHealth(a), Claim(a, xr), verdict), now)
<1> DEFINE z == Claim(a, xr)
           h == ClaimedHealth(a)
<1>1. a.target \in Nat /\ Prov(a.target) \in Providers
  BY TargetsName
<1>2. z \in Exchanges /\ z.target = a.target /\ z.began = now
  BY <1>1, ClaimFields
<1> HIDE DEF z
<1>3. Sound(z)
  BY <1>2 DEF Sound
<1>4. h \in [Providers -> ProviderState]
  <2>1. Begin(a.hs[Prov(a.target)]) \in ProviderState
    BY <1>1, BeginFields
  <2> QED
    BY <1>1, <2>1 DEF ClaimedHealth
<1>5. Circuits(h, now)
  BY CircuitsClaim
<1> HIDE DEF h
<1>6. Circuits(Release(h, z, verdict), now)
  BY <1>3, <1>4, <1>5, CircuitsRelease
<1> QED
  BY <1>6 DEF h, z

\* Every step keeps them.
LEMMA CircuitsStep ==
  ASSUME ExchangeInv, Circuits(hs, now), [Next]_vars
  PROVE  Circuits(hs, now)'
<1>0. /\ Configured /\ now \in Nat /\ cursor \in Nat
      /\ hs \in [Providers -> ProviderState]
  BY DEF ExchangeInv, TypeOK
<1>1. prov' = prov
  <2>1. ASSUME NEW c \in Conns, Complete(c)
        PROVE  UNCHANGED config
    BY <2>1, Zenon DEF Complete, Finish, FallBack, FallbackExhausted
  <2>2. ASSUME NEW c \in Conns, NEW kind \in Kinds,
               \/ RefuseCapacity(c) \/ RefuseFamily(c, kind)
               \/ RefuseStart(c, kind) \/ Start(c, kind)
        PROVE  UNCHANGED config
    BY <2>2, Zenon DEF RefuseCapacity, RefuseFamily, RefuseStart, Start
  <2>3. ASSUME NEW c \in Conns, NEW status, NEW sse, NEW piece, NEW body,
               \/ Headers(c, status, sse) \/ StreamWrite(c, piece)
               \/ BufferWrite(c, body) \/ Disconnect(c)
        PROVE  UNCHANGED config
    BY <2>3, Zenon DEF Headers, StreamWrite, BufferWrite, Disconnect
  <2>4. CASE Tick \/ (\E q \in Operated : SetProviderState(q)) \/ UNCHANGED vars
    BY <2>4 DEF Tick, SetProviderState, vars, config
  <2> QED
    BY <2>1, <2>2, <2>3, <2>4, AnyKindType DEF Next, config
<1>2. ASSUME Circuits(hs', now), now' = now
      PROVE  Circuits(hs, now)'
  BY <1>1, <1>2 DEF Circuits, Providers
<1>3. CASE UNCHANGED <<hs, now>>
  BY <1>2, <1>3
<1>4. CASE Tick
  <2>1. hs' = hs /\ now' = now + 1
    BY <1>4 DEF Tick
  <2>2. ASSUME NEW q \in Providers
        PROVE  Steady(hs[q], prov[q], now + 1)
    BY <1>0, ProviderNumbers, LaterSteady DEF Circuits
  <2> QED
    BY <1>1, <2>1, <2>2 DEF Circuits, Providers
<1>5. ASSUME NEW p \in Operated, SetProviderState(p)
      PROVE  Circuits(hs, now)'
  <2>1. hs' = [hs EXCEPT ![p] = Refresh(hs[p], now)] /\ now' = now
    BY <1>5 DEF SetProviderState
  <2>2. ASSUME NEW q \in Providers
        PROVE  Steady(hs'[q], prov[q], now)
    <3>1. Steady(hs[q], prov[q], now) /\ Steady(Refresh(hs[q], now), prov[q], now)
      BY <1>0, ProviderNumbers, RefreshSteady DEF Circuits
    <3>2. hs'[q] = hs[q] \/ hs'[q] = Refresh(hs[q], now)
      BY <1>0, <2>1
    <3> QED
      BY <3>1, <3>2
  <2> QED
    BY <1>2, <2>1, <2>2 DEF Circuits
<1>6. ASSUME NEW c \in Conns, NEW kind \in Kinds, RefuseStart(c, kind) \/ Start(c, kind)
      PROVE  Circuits(hs, now)'
  <2> DEFINE n == NewExchange(kind)
             a == Attempt(hs, n)
  <2>1. /\ now' = now
        /\ \/ hs' = a.hs
           \/ a.target # 0 /\ hs' = Release(ClaimedHealth(a), Claim(a, n), "cancelled")
           \/ a.target # 0 /\ hs' = ClaimedHealth(a)
    BY <1>6 DEF RefuseStart, Start
  <2>2. n \in Exchanges
    BY NewExchangeType
  <2> HIDE DEF n
  <2>3. /\ a.hs \in [Providers -> ProviderState]
        /\ a.target # 0 =>
             /\ a.target \in DOMAIN route.targets
             /\ Admissible(a.hs[Prov(a.target)], prov[Prov(a.target)])
    BY <1>0, AttemptFields
  <2>4. Circuits(a.hs, now)
    BY <1>0, CircuitsScan
  <2> HIDE DEF a
  <2>5. a.target # 0 =>
          /\ Circuits(ClaimedHealth(a), now)
          /\ Circuits(Release(ClaimedHealth(a), Claim(a, n), "cancelled"), now)
    BY <1>0, <2>2, <2>3, <2>4, CircuitsClaim, CircuitsClaimReleased
  <2> QED
    BY <1>2, <2>1, <2>4, <2>5
<1>7. ASSUME NEW c \in Conns, NEW code, NEW connected,
             Finish(c, code, connected) \/ Disconnect(c)
      PROVE  Circuits(hs, now)'
  <2>1. now' = now /\ \E v : hs' = Release(hs, x[c], v)
    BY <1>7 DEF Finish, Disconnect
  <2>2. Sound(x[c])
    BY InvFacts
  <2> QED
    BY <1>0, <1>2, <2>1, <2>2, CircuitsRelease
<1>8. ASSUME NEW c \in Conns, NEW code, NEW connected,
             FallBack(c, code, connected) \/ FallbackExhausted(c, code, connected)
      PROVE  Circuits(hs, now)'
  <2> DEFINE verdict == Verdict(x[c], Transport(code, connected))
             torn == TornDown(x[c])
             h == Release(hs, x[c], verdict)
             a == Attempt(h, torn)
  <2>1. /\ now' = now /\ x[c].state = "active" /\ MayFallBack(x[c], verdict)
        /\ \/ hs' = a.hs
           \/ a.target # 0 /\ hs' = Release(ClaimedHealth(a), Claim(a, torn), verdict)
           \/ a.target # 0 /\ hs' = ClaimedHealth(a)
    BY <1>8 DEF FallBack, FallbackExhausted
  <2>2. ~x[c].headSent
    BY <2>1 DEF MayFallBack
  <2> HIDE DEF verdict
  <2>3. Sound(x[c])
    BY InvFacts
  <2>4. h \in [Providers -> ProviderState] /\ Circuits(h, now)
    BY <1>0, <2>3, ReleaseFields, CircuitsRelease
  <2>5. /\ torn \in Exchanges
        /\ a.hs \in [Providers -> ProviderState]
        /\ a.target # 0 =>
             /\ a.target \in DOMAIN route.targets
             /\ Admissible(a.hs[Prov(a.target)], prov[Prov(a.target)])
    BY <2>1, <2>2, FallbackFacts
  <2> HIDE DEF h, torn
  <2>6. Circuits(a.hs, now)
    BY <1>0, <2>4, CircuitsScan
  <2> HIDE DEF a
  <2>7. a.target # 0 =>
          /\ Circuits(ClaimedHealth(a), now)
          /\ Circuits(Release(ClaimedHealth(a), Claim(a, torn), verdict), now)
    BY <1>0, <2>5, <2>6, CircuitsClaim, CircuitsClaimReleased
  <2> QED
    BY <1>2, <2>1, <2>6, <2>7
<1>9. ASSUME NEW c \in Conns, Complete(c)
      PROVE  Circuits(hs, now)'
  BY <1>7, <1>8, <1>9 DEF Complete
<1> QED
  BY <1>3, <1>4, <1>5, <1>6, <1>7, <1>9
  DEF Next, vars, RefuseCapacity, RefuseFamily, Headers, StreamWrite, BufferWrite

(***************************************************************************)
(* No provider is lost for good, and none is misjudged, by what the        *)
(* exchanges do to it together: an open circuit is due within sixteen      *)
(* cooldowns, a half-open one whose probe has ended, by whatever path of   *)
(* which exchange, admits another, and its health is what its counters say *)
(* (routing_health.asm, under af_prov_exchange_finish and its fallbacks).  *)
(***************************************************************************)
CircuitsRecover ==
  \A q \in Providers :
    /\ hs[q].health = OPEN =>
         /\ hs[q].openUntil <= now + AF_HEALTH_MAX_BACKOFF * Cooldown(prov[q])
         /\ hs[q].backoff >= Cooldown(prov[q])
    /\ hs[q].health = HALF_OPEN /\ (\A c \in Holders(q) : ~x[c].probe)
         => Admit(hs[q])
    /\ hs[q].health = HEALTHY => hs[q].failures = 0 /\ hs[q].backoff = 0
    /\ hs[q].health = DEGRADED => hs[q].failures < FailThr(prov[q])

(***************************************************************************)
(* For every configuration and any number of connections: the circuits     *)
(* recover in the composed gateway as they do alone.                       *)
(***************************************************************************)
THEOREM CircuitsHold == Spec => []CircuitsRecover
<1>1. Init => Circuits(hs, now)
  <2> SUFFICES ASSUME Init, NEW q \in Providers
               PROVE  Steady(hs[q], prov[q], now)
    BY DEF Circuits
  <2>1. Configured
    BY DEF Init, Configured
  <2>2. hs[q] = NewState /\ now = 0
    BY DEF Init
  <2> QED
    BY <2>1, <2>2, ProviderNumbers, NewStateSteady
<1>2. ASSUME ExchangeInv, Circuits(hs, now)
      PROVE  CircuitsRecover
  <2> SUFFICES ASSUME NEW q \in Providers, hs[q].health = HALF_OPEN,
                      \A c \in Holders(q) : ~x[c].probe
               PROVE  Admit(hs[q])
    BY <1>2 DEF CircuitsRecover, Circuits, Steady
  <2>1. HoldersIn(x, q) = Holders(q)
    BY DEF Holders, HoldersIn
  <2>2. ProbersIn(x, q) = {}
    BY <2>1 DEF ProbersIn
  <2>3. hs[q].probes <= 0
    BY <1>2, <2>2, FS_EmptySet DEF ExchangeInv, Ledger
  <2>4. hs[q].probes \in {0, 1}
    BY <1>2 DEF Circuits, Steady
  <2> QED
    BY <2>3, <2>4 DEF Admit, AF_HALF_OPEN_PROBES
<1>3. ASSUME ExchangeInv, Circuits(hs, now), [Next]_vars
      PROVE  Circuits(hs, now)'
  BY <1>3, CircuitsStep
<1>4. Spec => []Circuits(hs, now)
  BY ExchangeInvariance, <1>1, <1>3, PTL DEF Spec
<1> QED
  BY ExchangeInvariance, <1>2, <1>4, PTL

=============================================================================
