------------------------------ MODULE Exchange ------------------------------
(***************************************************************************)
(* Generation requests on their way through the gateway: admission by the  *)
(* provider engine, choice of a target, the transfer, fallback, and the    *)
(* answer.  src/providers/provider_exchange.asm and the slot table of      *)
(* src/providers/provider_engine.asm, over the health of every provider    *)
(* (ProviderHealth), the selector (RouteSelect) and the failure tables     *)
(* (ProviderError).                                                        *)
(*                                                                         *)
(* The daemon is one thread: every callback below is one step.  The steps  *)
(* of different connections interleave.  A connection has at most one      *)
(* exchange (HC_F_UPSTREAM suspends its parser), so an exchange is named   *)
(* by its connection.  Left out: what curl itself does, the bytes of the   *)
(* messages, interim 1xx blocks (nothing they store outlives the next      *)
(* status line), and backpressure.                                         *)
(***************************************************************************)
EXTENDS RouteSelect, ProviderError

CONSTANTS
  Conns,        \* client connections
  Configs,      \* configurations: records [route, prov, ceiling]
  Kinds,        \* request kinds: records [family, stream]
  Statuses,     \* final response statuses a provider may send
  CurlResults,  \* how libcurl may report a transfer
  Bodies,       \* what a provider may answer with, see BodyKinds
  Operated,     \* providers the operator disables and enables
  MaxRequests,  \* bound: requests started
  MaxNow        \* bound: the clock, in milliseconds

VARIABLES
  route, prov,  \* the configuration; constant while the daemon runs
  ceiling,      \* PE_MAX_ACTIVE, likewise
  hs,           \* hs[q]: af_prov_state of provider q
  disabled,     \* provider_health.operator_disabled, in the database
  cursor,       \* the route's round-robin cursor
  active,       \* PE_ACTIVE
  x,            \* x[c]: the exchange of connection c
  out,          \* out[c]: what was queued for c's current request
  reqs, now

config == <<route, prov, ceiling>>

vars == <<config, hs, disabled, cursor, active, x, out, reqs, now>>

Providers == DOMAIN prov
Prov(t)   == route.targets[t].prov

\* An upstream body: a JSON object, something else, or an object too large for
\* the response buffer, or one that fits it but not the outbox with its head.
BodyKinds == {"object", "junk", "large", "brim"}
Objects   == {"object", "large", "brim"}

\* What a validated configuration gives: every target names a provider that is
\* configured, every number is a natural one; the operator's commands name a
\* provider that is configured.  The connections are finitely many.
ASSUME ExchangeAssumption ==
  /\ IsFiniteSet(Conns)
  /\ \A f \in Configs :
       /\ f.ceiling \in Nat
       /\ DOMAIN f.prov \subseteq Int /\ Operated \subseteq DOMAIN f.prov
       /\ f.route.targets \in Seq(TargetRecords(f.prov))
       /\ f.route.maxAttempts \in Nat
       /\ \A q \in DOMAIN f.prov :
            /\ f.prov[q].failThr \in Nat /\ f.prov[q].cooldown \in Nat
            /\ f.prov[q].maxConc \in Nat
  /\ Kinds # {} /\ Statuses \subseteq Nat /\ Bodies \subseteq BodyKinds

\* af_prov_exchange.  AF_PX_F_COMMITTED is headSent: its other store, in
\* af_prov_deliver_buffered, is followed at once by the disposal.
Exchanges ==
  [ state: {"free", "active", "finishing"}, kind: Kinds,
    target: Nat, tried: SUBSET Nat, attempt: Nat, counted: BOOLEAN,
    probe: BOOLEAN, began: Nat, status: Nat, sse: BOOLEAN,
    body: BodyKinds \cup {"empty"}, carry: BOOLEAN, headSent: BOOLEAN,
    overflow: BOOLEAN ]

NewExchange(kind) ==
  [ state |-> "free", kind |-> kind, target |-> 0, tried |-> {},
    attempt |-> 0, counted |-> FALSE, probe |-> FALSE, began |-> 0,
    status |-> 0, sse |-> FALSE, body |-> "empty", carry |-> FALSE,
    headSent |-> FALSE, overflow |-> FALSE ]

AnyKind == CHOOSE k \in Kinds : TRUE

\* What is queued for the client.  By zero is the gateway itself.
StreamHead(q) == [what |-> "head", by |-> q, id |-> OK]
Chunk(q)  == [what |-> "chunk", by |-> q, id |-> OK]
Last(q)   == [what |-> "last",  by |-> q, id |-> OK]
Whole(q)  == [what |-> "whole", by |-> q, id |-> OK]
Short(q)  == [what |-> "short", by |-> q, id |-> OK]
Error(id) == [what |-> "error", by |-> 0, id |-> id]

Init ==
  /\ \E f \in Configs :
       route = f.route /\ prov = f.prov /\ ceiling = f.ceiling
  /\ hs = [q \in Providers |-> NewState]
  /\ disabled = {}
  /\ cursor = 0
  /\ active = 0
  /\ x = [c \in Conns |-> NewExchange(AnyKind)]
  /\ out = [c \in Conns |-> <<>>]
  /\ reqs = 0
  /\ now = 0

----------------------------------------------------------------------------
(* Mutants.                                                                *)

\* The claim is not given back when the client cancels.
ReleaseUnlessCancelled(h, xr, verdict) ==
  IF ~xr.counted \/ verdict = "cancelled" THEN h
  ELSE LET q == Prov(xr.target)
           e == End(h[q], xr.probe)
       IN  [h EXCEPT ![q] = IF verdict = OK
                              THEN Success(e, prov[q], 1000 * (now - xr.began))
                              ELSE Failure(e, prov[q], now)]

\* A disposal that leaves the record in the table.
DisposedKeepsRecord(xr) == [xr EXCEPT !.state = "finishing", !.counted = FALSE]

\* The slot of a committed stream is not returned.
SlotKeptByStreams(xr) == IF xr.headSent THEN active ELSE active - 1

\* The slot is returned by the release and again by the disposal.
SlotReturnedTwice(xr) == IF xr.counted THEN active - 2 ELSE active - 1

----------------------------------------------------------------------------
\* af_prov_attempt_release: the claim flag makes it once per attempt.
Release(h, xr, verdict) ==
  IF ~xr.counted THEN h
  ELSE LET q == Prov(xr.target)
           e == End(h[q], xr.probe)
       IN  [h EXCEPT ![q] =
              CASE verdict = "cancelled" -> e
                [] verdict = OK -> Success(e, prov[q], 1000 * (now - xr.began))
                [] OTHER -> Failure(e, prov[q], now)]

\* The commit barrier.  The client is present and has not cancelled:
\* af_prov_conn_detach disposes of the exchange in the step that would say so.
MayFallBack(xr, verdict) ==
  /\ ~xr.headSent
  /\ xr.attempt < route.maxAttempts
  /\ IsRetryable(verdict, route.retryable)

\* af_prov_attempt_teardown, on an attempt that has been released.
TornDown(xr) ==
  [xr EXCEPT !.counted = FALSE, !.body = "empty", !.carry = FALSE]

\* The record after af_prov_exchange_dispose, and PE_ACTIVE after it.
Disposed(xr) == NewExchange(AnyKind)
SlotReturned(xr) == active - 1

\* The choice made by one call of af_prov_attempt_start over the health h: the
\* refreshed health, the candidates, the target.
Attempt(h, xr) ==
  LET scanned == Scanned(route, prov, xr.kind, xr.tried)
      fresh   == Refreshed(h, route, scanned, now)
      cands   == Candidates(fresh, route, prov, scanned)
      next    == IF route.policy = ROUND_ROBIN /\ cands # <<>>
                   THEN cursor + 1 ELSE cursor
  IN  [ hs |-> fresh, cursor |-> next,
        target |-> IF cands = <<>> THEN 0
                   ELSE cands[Select(route.policy, cands, next)].index ]

\* The attempt is recorded before anything can fail: tried set, claim, count.
Claim(a, xr) ==
  [xr EXCEPT !.target = a.target, !.tried = @ \cup {a.target},
             !.attempt = @ + 1, !.counted = TRUE,
             !.probe = IsProbe(a.hs[Prov(a.target)]), !.began = now]

ClaimedHealth(a) == [a.hs EXCEPT ![Prov(a.target)] = Begin(@)]

\* The transfer is in flight, with none of an earlier attempt's answer.
Launched(xr) == [xr EXCEPT !.state = "active", !.status = 0, !.sse = FALSE]

----------------------------------------------------------------------------
Answer(c, messages) == out' = [out EXCEPT ![c] = @ \o messages]

Restart(c, messages) == out' = [out EXCEPT ![c] = messages]

\* A request reaches af_prov_exchange_start.
Arrives(c) == x[c].state = "free" /\ reqs < MaxRequests /\ reqs' = reqs + 1

RefuseCapacity(c) ==
  /\ Arrives(c)
  /\ active >= ceiling
  /\ Restart(c, <<Error("route_concurrency_exhausted")>>)
  /\ UNCHANGED <<config, hs, disabled, cursor, active, x, now>>

RefuseFamily(c, kind) ==
  /\ Arrives(c)
  /\ active < ceiling
  /\ kind.family \notin route.families
  /\ Restart(c, <<Error("no_eligible_target")>>)
  /\ UNCHANGED <<config, hs, disabled, cursor, active, x, now>>

\* No target, or the attempt could not be set up (URL, body, credential,
\* handle): the exchange is disposed of, which releases its claim as cancelled.
RefuseStart(c, kind) ==
  /\ Arrives(c)
  /\ active < ceiling
  /\ kind.family \in route.families
  /\ \E a \in {Attempt(hs, NewExchange(kind))} :
       /\ cursor' = a.cursor
       /\ \/ /\ a.target = 0
             /\ hs' = a.hs
             /\ Restart(c, <<Error("no_eligible_target")>>)
          \/ /\ a.target # 0
             /\ hs' = Release(ClaimedHealth(a), Claim(a, NewExchange(kind)),
                              "cancelled")
             /\ Restart(c, <<Error("internal_error")>>)
  /\ UNCHANGED <<config, disabled, active, x, now>>

Start(c, kind) ==
  /\ Arrives(c)
  /\ active < ceiling
  /\ kind.family \in route.families
  /\ \E a \in {Attempt(hs, NewExchange(kind))} :
       /\ a.target # 0
       /\ cursor' = a.cursor
       /\ hs' = ClaimedHealth(a)
       /\ x' = [x EXCEPT ![c] = Launched(Claim(a, NewExchange(kind)))]
  /\ active' = active + 1
  /\ Restart(c, <<>>)
  /\ UNCHANGED <<config, disabled, now>>

----------------------------------------------------------------------------
\* af_prov_headers_complete: a streamed 2xx commits here, nothing else does.
Headers(c, status, sse) ==
  /\ x[c].state = "active" /\ x[c].status = 0
  /\ LET commit == x[c].kind.stream /\ sse /\ Is2xx(status) IN
       /\ x' = [x EXCEPT ![c].status = status, ![c].sse = sse,
                         ![c].headSent = commit]
       /\ Answer(c, IF commit THEN <<StreamHead(Prov(x[c].target))>> ELSE <<>>)
  /\ UNCHANGED <<config, hs, disabled, cursor, active, reqs, now>>

\* af_prov_on_write after the head: complete events go out at once, the rest is
\* carried, an event over the limit ends the transfer.  (Two messages are
\* enough to tell every order apart: the bound on events.)
StreamWrite(c, piece) ==
  /\ x[c].state = "active" /\ x[c].headSent /\ ~x[c].overflow
  /\ \/ /\ piece = "event" /\ Len(out[c]) < 2
        /\ x' = [x EXCEPT ![c].carry = FALSE]
        /\ Answer(c, <<Chunk(Prov(x[c].target))>>)
     \/ /\ piece = "partial"
        /\ x' = [x EXCEPT ![c].carry = TRUE]
        /\ UNCHANGED out
     \/ /\ piece = "oversize"
        /\ x' = [x EXCEPT ![c].overflow = TRUE]
        /\ UNCHANGED out
  /\ UNCHANGED <<config, hs, disabled, cursor, active, reqs, now>>

\* af_prov_on_write before any head: the body is held, up to its ceiling.
BufferWrite(c, body) ==
  /\ x[c].state = "active" /\ x[c].status # 0
  /\ ~x[c].headSent /\ ~x[c].overflow /\ x[c].body = "empty"
  /\ \/ x' = [x EXCEPT ![c].body = body]
     \/ x' = [x EXCEPT ![c].overflow = TRUE]
  /\ UNCHANGED <<config, hs, disabled, cursor, active, out, reqs, now>>

----------------------------------------------------------------------------
\* libcurl's side of a completion: it succeeds only with a response, reports a
\* write error exactly when our callback refused the bytes, and fails to
\* resolve, connect or handshake only before any header.
Reports(xr, code, connected) ==
  /\ (code = "write") = xr.overflow
  /\ code = OK => xr.status # 0
  /\ code \notin {OK, "write", "timedout", "recv", "send", "partial_file",
                  "other"} => xr.status = 0
  /\ connected \/ (code = "timedout" /\ xr.status = 0)

Transport(code, connected) == ClassifyCurl(code, connected)

Verdict(xr, transport) ==
  IF transport = OK THEN ClassifyStatus(xr.status) ELSE transport

\* af_prov_deliver_buffered, with the error it answers instead.
Delivered(xr) ==
  LET q == Prov(xr.target) IN
    IF xr.body \notin Objects /\ ~Is2xx(xr.status)
      THEN Error("invalid_upstream_response")
    ELSE IF xr.body = "large" THEN Error("invalid_upstream_response")
    ELSE IF xr.body = "brim" THEN Short(q)
    ELSE Whole(q)

\* Mutant: a stream that failed is answered with an error, its head or not.
ReplyErrorAfterHead(xr, transport) ==
  IF transport # OK THEN <<Error(ErrorId(Verdict(xr, transport)))>>
  ELSE IF xr.headSent THEN <<Last(Prov(xr.target))>>
  ELSE <<Delivered(xr)>>

\* What af_prov_exchange_finish queues once no further attempt is made.
Reply(xr, transport) ==
  LET q == Prov(xr.target) IN
    IF xr.headSent
      THEN (IF xr.carry /\ ~xr.overflow THEN <<Chunk(q)>> ELSE <<>>) \o <<Last(q)>>
    ELSE IF transport # OK THEN <<Error(ErrorId(Verdict(xr, transport)))>>
    ELSE <<Delivered(xr)>>

Dispose(c) ==
  /\ x' = [x EXCEPT ![c] = Disposed(@)]
  /\ active' = SlotReturned(x[c])

\* af_prov_exchange_finish in its three endings.  The connection is answerable
\* again afterwards; a pipelined request it may hold is the next Start.
Finish(c, code, connected) ==
  LET transport == Transport(code, connected)
      verdict   == Verdict(x[c], transport)
  IN  /\ x[c].state = "active"
      /\ Reports(x[c], code, connected)
      /\ ~MayFallBack(x[c], verdict)
      /\ hs' = Release(hs, x[c], verdict)
      /\ Answer(c, Reply(x[c], transport))
      /\ Dispose(c)
      /\ UNCHANGED <<config, disabled, cursor, reqs, now>>

FallBack(c, code, connected) ==
  LET verdict == Verdict(x[c], Transport(code, connected))
      torn    == TornDown(x[c])
  IN  /\ x[c].state = "active"
      /\ Reports(x[c], code, connected)
      /\ MayFallBack(x[c], verdict)
      /\ \E a \in {Attempt(Release(hs, x[c], verdict), torn)} :
           /\ a.target # 0
           /\ cursor' = a.cursor
           /\ hs' = ClaimedHealth(a)
           /\ x' = [x EXCEPT ![c] = Launched(Claim(a, torn))]
      /\ UNCHANGED <<config, disabled, active, out, reqs, now>>

\* .fallback_exhausted: no other target, or its attempt could not be set up.
\* The verdict released and the reply are the first failure's; the exchange
\* has already been torn down, and may already be the next target's.
FallbackExhausted(c, code, connected) ==
  LET transport == Transport(code, connected)
      verdict   == Verdict(x[c], transport)
      torn      == TornDown(x[c])
  IN  /\ x[c].state = "active"
      /\ Reports(x[c], code, connected)
      /\ MayFallBack(x[c], verdict)
      /\ \E a \in {Attempt(Release(hs, x[c], verdict), torn)} :
           /\ cursor' = a.cursor
           /\ \/ /\ a.target = 0
                 /\ hs' = a.hs
                 /\ Answer(c, Reply(torn, transport))
              \/ /\ a.target # 0
                 /\ hs' = Release(ClaimedHealth(a), Claim(a, torn), verdict)
                 /\ Answer(c, Reply(Claim(a, torn), transport))
      /\ Dispose(c)
      /\ UNCHANGED <<config, disabled, reqs, now>>

\* The client hangs up, or the listener is shut down: af_prov_conn_detach.
Disconnect(c) ==
  /\ x[c].state = "active"
  /\ hs' = Release(hs, x[c], "cancelled")
  /\ Dispose(c)
  /\ Restart(c, <<>>)
  /\ UNCHANGED <<config, disabled, cursor, reqs, now>>

----------------------------------------------------------------------------
\* provider.disable and provider.enable: the database, and the record written
\* back to the operator, which refreshes the circuit it reports.
SetProviderState(q) ==
  /\ disabled' \in {disabled \cup {q}, disabled \ {q}}
  /\ hs' = [hs EXCEPT ![q] = Refresh(@, now)]
  /\ UNCHANGED <<config, cursor, active, x, out, reqs, now>>

Tick ==
  /\ now < MaxNow
  /\ now' = now + 1
  /\ UNCHANGED <<config, hs, disabled, cursor, active, x, out, reqs>>

Complete(c) ==
  /\ x[c].state = "active"
  /\ \E code \in CurlResults, connected \in BOOLEAN :
       \/ Finish(c, code, connected)
       \/ FallBack(c, code, connected)
       \/ FallbackExhausted(c, code, connected)

Next ==
  \/ Tick
  \/ \E q \in Operated : SetProviderState(q)
  \/ \E c \in Conns :
       \/ RefuseCapacity(c)
       \/ \E kind \in Kinds : \/ RefuseFamily(c, kind)
                              \/ RefuseStart(c, kind)
                              \/ Start(c, kind)
       \/ \E status \in Statuses, sse \in BOOLEAN : Headers(c, status, sse)
       \/ \E piece \in {"event", "partial", "oversize"} : StreamWrite(c, piece)
       \/ \E body \in Bodies : BufferWrite(c, body)
       \/ Complete(c)
       \/ Disconnect(c)

\* Every transfer has a total timeout (CURLOPT_TIMEOUT_MS, the provider's
\* request_ms), so libcurl ends each one whatever the provider does.
Fairness == \A c \in Conns : WF_vars(Complete(c))

Spec == Init /\ [][Next]_vars

FairSpec == Spec /\ Fairness
----------------------------------------------------------------------------
TypeOK ==
  /\ hs \in [Providers -> ProviderState]
  /\ disabled \subseteq Providers
  /\ cursor \in Nat /\ active \in Nat /\ reqs \in Nat /\ now \in Nat
  /\ x \in [Conns -> Exchanges]
  /\ \A c \in Conns : x[c].tried \subseteq DOMAIN route.targets

Live(c) == x[c].state # "free"

\* The exchanges that hold a concurrency slot of provider q.
Holders(q) == {c \in Conns : x[c].counted /\ Prov(x[c].target) = q}

(***************************************************************************)
(* Every concurrency slot of every provider is held by exactly one attempt *)
(* in flight, never more than max_concurrency are, and a claimed half-open *)
(* probe is one of them: across completions,                               *)
(* fallbacks (which release one provider and claim another in one step),   *)
(* attempts that could not be set up, and clients that leave               *)
(* (af_prov_attempt_release, "exactly once per attempt however the attempt *)
(* ended").                                                                *)
(***************************************************************************)
ClaimsAreHeld ==
  \A q \in Providers :
    /\ hs[q].active = Cardinality(Holders(q))
    /\ hs[q].probes <= Cardinality({c \in Holders(q) : x[c].probe})
    /\ prov[q].maxConc = 0 \/ hs[q].active <= prov[q].maxConc

(***************************************************************************)
(* PE_ACTIVE counts the exchanges in flight and stays within its ceiling,  *)
(* so a gateway that has been at capacity accepts requests again           *)
(* (af_prov_slot_alloc, af_prov_slot_release).                             *)
(***************************************************************************)
EngineCountsExchanges ==
  /\ active = Cardinality({c \in Conns : Live(c)})
  /\ active <= ceiling

\* The responses a client may have been sent so far: one whole message or one
\* error, or the start of one stream, all of it from one provider.
Streams(q) == {<<>>, <<StreamHead(q)>>, <<StreamHead(q), Chunk(q)>>}

(***************************************************************************)
(* A request is answered once, by one provider or by the gateway: whatever *)
(* the attempts and fallbacks, nothing of one attempt's response is mixed  *)
(* with another's, a stream has one head, first, and one terminator, last; *)
(* a request in flight has been sent nothing but the start of its current  *)
(* target's stream (docs/API_CONTRACT.md 8, the commit barrier).           *)
(***************************************************************************)
OneAnswerOneVoice ==
  \A c \in Conns :
    IF Live(c)
      THEN out[c] \in Streams(Prov(x[c].target))
      ELSE \/ Len(out[c]) <= 1
           \/ \E q \in Providers :
                /\ \A i \in 1 .. Len(out[c]) : out[c][i].by = q
                /\ out[c][1] = StreamHead(q)
                /\ \A i \in 2 .. Len(out[c]) - 1 : out[c][i] = Chunk(q)
                /\ out[c][Len(out[c])] = Last(q)

(***************************************************************************)
(* An exchange never returns to a target it tried, makes no more attempts  *)
(* than the route allows, and once its head is sent stays with its target  *)
(* to the end (af_prov_attempt_start, "a target that was attempted is      *)
(* never offered to this request again"; af_prov_may_fall_back).           *)
(***************************************************************************)
AttemptsAreFresh ==
  [][\A c \in Conns :
       (Live(c) /\ Live(c)' /\ x[c].attempt # x[c]'.attempt) =>
         /\ ~x[c].headSent
         /\ x[c]'.target \notin x[c].tried
         /\ x[c]'.attempt <= route.maxAttempts
         /\ x[c]'.body = "empty" /\ x[c]'.status = 0]_vars

(***************************************************************************)
(* Every request that reached a provider ends: it is answered, or its      *)
(* client has left, however many targets it falls back through.            *)
(***************************************************************************)
EveryRequestEnds == \A c \in Conns : Live(c) ~> ~Live(c)

----------------------------------------------------------------------------
(* What the documents and comments promise and the code does not do.       *)

(***************************************************************************)
(* docs/TECHNICAL_WHITEPAPER_KR.md, circuit breaker: a manually disabled   *)
(* provider is sent no request, whatever its health.                       *)
(***************************************************************************)
DisabledGetsNothing ==
  [][\A q \in disabled : hs[q]'.requests = hs[q].requests]_vars

(***************************************************************************)
(* docs/API_CONTRACT.md 7 and .fallback_exhausted: an upstream error whose *)
(* body is a JSON object is relayed; the client of an exhausted fallback   *)
(* is answered with the failure that made it one.                          *)
(***************************************************************************)
ErrorBodyIsRelayed ==
  [][\A c \in Conns :
       /\ x[c].body = "object"
       /\ Finish(c, OK, TRUE) \/ FallbackExhausted(c, OK, TRUE)
       => out[c]' = <<Whole(Prov(x[c].target))>>]_vars

(***************************************************************************)
(* A failure is charged to a provider that had an attempt to fail.         *)
(***************************************************************************)
ChargedProviderWasAsked ==
  [][\A q \in Providers :
       hs[q]'.failed # hs[q].failed => Holders(q) # {}]_vars

=============================================================================
