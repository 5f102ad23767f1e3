------------------------------ MODULE McpChild ------------------------------
(* One supervised MCP stdio server, as the record af_mcp_child keeps it, and *)
(* the supervisor's steps on that record.  Every operator is a handler or a  *)
(* part of one: it takes the record and gives the record (or, where the      *)
(* kernel or the allocator decides, the set of records) it may leave behind. *)
(*                                                                           *)
(* Time is relative: a deadline is the time that is left, a recorded restart *)
(* is its age.  Elapse makes one unit pass.                                  *)
EXTENDS Listing

CONSTANTS
  MaxRestarts,     \* restart.max_restarts
  Window,          \* restart.window_ms
  BaseBackoff,     \* restart.backoff_ms
  MaxBackoff,      \* restart.max_backoff_ms
  Grace,           \* shutdown_grace_ms
  TermWait,        \* AF_MCP_TERM_WAIT_MS
  StartupTimeout,  \* startup_timeout_ms
  RequestTimeout,  \* timeouts.request_ms
  MaxCalls,        \* AF_MCP_MAX_CALLS
  Lists            \* the list calls of one inventory, in the order they are
                   \* sent: tools, which decides readiness, and the optional
                   \* ones, which all behave alike

\* What a validated configuration gives.  There are slots to spare for the
\* list calls and one tool test (eight, for three lists).
ASSUME McpAssumption ==
  /\ MaxRestarts \in Nat /\ Window \in Nat \ {0}
  /\ BaseBackoff \in Nat \ {0} /\ MaxBackoff \in Nat /\ BaseBackoff <= MaxBackoff
  /\ Grace \in Nat /\ TermWait \in Nat \ {0}
  /\ StartupTimeout \in Nat \ {0} /\ RequestTimeout \in Nat \ {0}
  /\ Lists \in Seq({"tools", "resources", "prompts"}) /\ Lists[1] = "tools"
  /\ \A i, j \in DOMAIN Lists : Lists[i] = Lists[j] => i = j
  /\ MaxCalls \in Nat /\ Len(Lists) + 1 < MaxCalls

Modes == {"never", "on_failure", "always"}

States == {"stopped", "starting", "probing", "ready", "degraded", "failed",
           "restarting", "crash_loop", "disabled"}

\* The flags that outlive a process; start clears every other one.
LongLived == {"MANUAL_STOP", "LEGACY_NEXT"}

\* STDIN_OPEN is "stdin" \in pipes; REAPED, PROBED and DISCARDING are never
\* read, and ERR_TRUNCATED concerns the captured stderr text only.
Flags == LongLived \cup
  {"STOPPING", "RESTART_AFTER_STOP", "TERM_SENT", "MANUAL_RESTART", "EOF",
   "PROCESS_FAILURE", "LISTED", "TOOLS_CURRENT"}

\* The flags of a stop under way, cleared together when it is over.
StopFlags == {"STOPPING", "RESTART_AFTER_STOP", "TERM_SENT", "MANUAL_RESTART"}

\* MC_NEXT_START = 0: not armed as a shutdown deadline, due as a restart.
NoDeadline == -1

Kinds == {"discover", "initialize", "tools", "resources", "prompts", "tool_test"}

\* af_mcp_child_init.
ChildInit(cfg) ==
  [ cfg      |-> cfg,
    state    |-> IF cfg.enabled THEN "stopped" ELSE "disabled",
    pid      |-> FALSE,          \* MC_PID > 0
    pgid     |-> FALSE,          \* MC_PGID > 0
    started  |-> FALSE,          \* MC_STARTS > 0
    clean    |-> TRUE,           \* MC_LAST_EXIT = 0
    flags    |-> {},
    pipes    |-> {},             \* our ends that are open
    outbox   |-> FALSE,          \* bytes wait in MC_OUTBOX
    era      |-> "unknown",
    tools    |-> FALSE,          \* MC_TOOLS holds an inventory
    calls    |-> {},
    nextId   |-> 0,
    next     |-> NoDeadline,     \* MC_NEXT_START
    history  |-> << >>,          \* MC_RESTART_HISTORY, as ages
    backoff  |-> 0 ]

Has(c, flag) == flag \in c.flags

----------------------------------------------------------------------------
(* Ending a process.                                                        *)

\* Mutant: the era outlives the process it was decided for.
InvalidateKeepsEra(c) ==
  [c EXCEPT !.calls = {}, !.tools = FALSE,
            !.flags = @ \ {"LISTED", "TOOLS_CURRENT"}]

\* af_mcp_invalidate_process_view: what was learnt from a process goes as
\* soon as the process is being stopped, not when it is replaced.
Invalidate(c) ==
  [c EXCEPT !.calls = {}, !.era = "unknown", !.tools = FALSE,
            !.flags = @ \ {"LISTED", "TOOLS_CURRENT"}]

\* af_mcp_close_stdin.
CloseStdin(c) == [c EXCEPT !.pipes = @ \ {"stdin"}]

\* af_mcp_arm_shutdown_grace.
ArmGrace(c) == [c EXCEPT !.next = Grace]

\* Mutant: the group is forgotten although it could not be killed.
TeardownForgets(c, killed) == Invalidate([c EXCEPT !.pgid = FALSE, !.pipes = {}])

\* af_mcp_teardown.  The group is retired only when SIGKILL was accepted, or
\* found nobody; a refused kill leaves it owned for the next sweep.
Teardown(c, killed) ==
  Invalidate([c EXCEPT !.pgid = @ /\ ~killed, !.pipes = {}])

\* af_mcp_reap, when wait4 collected the leader.
Reaped(c, clean) == [c EXCEPT !.pid = FALSE, !.clean = clean]

\* af_mcp_drop_pipe_source.
DropPipe(c, pipe) == [c EXCEPT !.pipes = @ \ {pipe}]

----------------------------------------------------------------------------
(* The restart budget.                                                      *)

\* The restarts inside the closed window [now - window, now].
Recent(c) ==
  LET h == c.history IN Keep(h, {i \in DOMAIN h : h[i] <= Window})

\* Mutant: the doubling has no ceiling.
BackoffUncapped(c) ==
  LET last == IF Recent(c) = << >> THEN 0 ELSE c.backoff
  IN  IF last = 0 THEN BaseBackoff ELSE 2 * last

\* An empty window is a new incident: the backoff begins at its base again.
Backoff(c) ==
  LET last == IF Recent(c) = << >> THEN 0 ELSE c.backoff
      want == IF last = 0 THEN BaseBackoff ELSE 2 * last
  IN  IF want <= MaxBackoff THEN want ELSE MaxBackoff

\* Mutant: a restart that is neither counted nor delayed.
RestartUnbudgeted(c) ==
  IF c.cfg.mode = "never" THEN c
  ELSE [c EXCEPT !.state = "restarting", !.next = NoDeadline]

\* af_mcp_schedule_restart.  With restart.mode = never the state stays what
\* the caller made it.
ScheduleRestart(c) ==
  IF c.cfg.mode = "never"
  THEN c
  ELSE IF Len(Recent(c)) >= MaxRestarts
  THEN [c EXCEPT !.history = Recent(c), !.state = "crash_loop",
                 !.backoff = IF Recent(c) = << >> THEN 0 ELSE @]
  ELSE [c EXCEPT !.history = Append(Recent(c), 0), !.state = "restarting",
                 !.backoff = Backoff(c), !.next = Backoff(c)]

\* A restart that neither spends budget nor waits: the operator's, and the
\* one that completes the decision for the legacy era.
RestartNow(c) == [c EXCEPT !.state = "restarting", !.next = NoDeadline]

\* af_mcp_child_failed.  A live process is stopped first; the budget is spent
\* by the sweep that collects it.
ChildFailed(c, why) ==
  LET blamed  == [c EXCEPT !.flags = IF why = "EOF" THEN @
                                     ELSE @ \cup {"PROCESS_FAILURE"}]
      failed  == Invalidate([blamed EXCEPT !.state = "failed"])
      stopping ==
        [failed EXCEPT !.flags = (@ \cup {"STOPPING", "RESTART_AFTER_STOP"})
                                 \ {"TERM_SENT"}]
  IN  IF c.state \in {"crash_loop", "disabled"} THEN c
      ELSE IF Has(c, "STOPPING") THEN blamed
      ELSE IF Has(c, "MANUAL_STOP") THEN failed
      ELSE IF c.pid THEN ArmGrace(CloseStdin(stopping))
      ELSE IF Has(c, "LEGACY_NEXT") THEN RestartNow(failed)
      ELSE ScheduleRestart(failed)

----------------------------------------------------------------------------
(* The pending calls.                                                       *)

\* Mutant: the slot of a finished call is not given back.
ReleaseNothing(c, k) == c

\* A call that is answered or timed out stays until its owner releases it.
CallsOf(c, kind) == {k \in c.calls : k.kind = kind}
Free(c)          == MaxCalls - Cardinality(c.calls)
Release(c, k)    == [c EXCEPT !.calls = @ \ {k}]

NewCall(id, kind) ==
  [ id |-> id, kind |-> kind, done |-> FALSE, status |-> "none",
    left |-> IF kind \in {"discover", "initialize"} THEN StartupTimeout
             ELSE RequestTimeout ]

\* af_mcp_call_alloc and af_mcp_request: the identifier is used up even when
\* the frame cannot be queued, and then the call is released again.
Requests(c, kind) ==
  LET tried == [c EXCEPT !.nextId = @ + 1]
      sent  == [tried EXCEPT !.calls = @ \cup {NewCall(tried.nextId, kind)}]
  IN  IF Free(c) <= 0 THEN {[ok |-> FALSE, c |-> c]}
      ELSE {[ok |-> FALSE, c |-> [tried EXCEPT !.outbox = b]] : b \in BOOLEAN}
           \cup (IF "stdin" \in c.pipes
                 THEN {[ok |-> TRUE, c |-> [sent EXCEPT !.outbox = b]] : b \in BOOLEAN}
                 ELSE {})

\* An inventory for which i requests were made and none is kept, and one for
\* which all were.
Begun(c, i, b) ==
  [c EXCEPT !.flags = @ \ {"TOOLS_CURRENT"}, !.nextId = @ + i, !.outbox = b]

Listed(c, b) ==
  [Begun(c, Len(Lists), b) EXCEPT
     !.flags = @ \cup {"LISTED"},
     !.calls = @ \cup {NewCall(c.nextId + i, Lists[i]) : i \in 1..Len(Lists)}]

\* af_mcp_begin_inventory: three requests or none; the ones already sent are
\* released again when a later one fails.
Inventories(c) ==
  LET n     == Len(Lists)
      tries == {i \in 1..n : i <= Free(c)}
  IN  IF Has(c, "LISTED") THEN {[ok |-> TRUE, c |-> c]}
      ELSE {[ok |-> FALSE, c |-> Begun(c, i, b)] : i \in tries, b \in BOOLEAN}
           \cup (IF Free(c) < n
                 THEN {[ok |-> FALSE, c |-> Begun(c, Cardinality(tries), b)] : b \in BOOLEAN}
                 ELSE {})
           \cup (IF Free(c) >= n /\ "stdin" \in c.pipes
                 THEN {[ok |-> TRUE, c |-> Listed(c, b)] : b \in BOOLEAN}
                 ELSE {})

\* Mutant: a response is matched to a call that was already retired.
AnsweredAgain(c, id, status) ==
  [c EXCEPT !.calls =
     {IF k.id = id THEN [k EXCEPT !.done = TRUE, !.status = status] ELSE k : k \in @}]

\* af_mcp_on_message for a response: it completes the pending call of its
\* identifier; a retired or unknown one is counted as unmatched.
Answered(c, id, status) ==
  [c EXCEPT !.calls =
     {IF k.id = id /\ ~k.done THEN [k EXCEPT !.done = TRUE, !.status = status]
      ELSE k : k \in @}]

\* Mutant: the deadline itself is not yet late enough.
ExpiredStrictly(c) == {k \in c.calls : ~k.done /\ k.left < 0}

\* The calls whose deadline has passed, and af_mcp_sweep_calls on them: they
\* are retired whether or not the cancellation could be sent.
Expired(c) == {k \in c.calls : ~k.done /\ k.left = 0}

Retired(c) ==
  [c EXCEPT !.calls =
     {IF k \in Expired(c) THEN [k EXCEPT !.done = TRUE, !.status = "timeout"]
      ELSE k : k \in @}]

\* af_mcp_sweep_calls and the sweep's use of it.  A cancellation that cannot
\* be sent ends the process; legacy initialize is never cancelled.
SweptCalls(c) ==
  IF \A k \in Expired(c) : k.kind = "initialize"
  THEN {[ok |-> TRUE, c |-> Retired(c)]}
  ELSE {[ok |-> TRUE, c |-> [Retired(c) EXCEPT !.outbox = b]] : b \in BOOLEAN}
       \cup {[ok |-> FALSE, c |-> ChildFailed(Retired(c), "WRITE")]}

----------------------------------------------------------------------------
(* The era decision and the inventory: af_mcp_advance.                      *)

Failures(c, why) == {ChildFailed(c, why)}

\* An era is chosen and the inventory asked for, or the process is failed.
\* For legacy the initialized notification is sent first, and may fail too.
Chosen(c, k, era) ==
  LET decided == [Release(c, k) EXCEPT !.era = era]
  IN  {IF r.ok THEN [r.c EXCEPT !.state = "ready"] ELSE ChildFailed(r.c, "PROTOCOL")
       : r \in Inventories(decided)}
      \cup Failures(decided, "WRITE")

\* The modern probe has been answered or has timed out.  Only a completed
\* refusal may be followed by initialize in the same process.
AfterDiscover(c, k) ==
  LET over == Release(c, k)
  IN  CASE k.status = "ok" -> Chosen(c, k, "modern")
        [] k.status # "ok" /\ ~c.cfg.legacy -> Failures(over, "ERA")
        [] k.status = "timeout" /\ c.cfg.legacy ->
             Failures([over EXCEPT !.flags = @ \cup {"LEGACY_NEXT"}], "TIMEOUT")
        [] OTHER ->
             {IF r.ok THEN r.c ELSE ChildFailed(r.c, "PROTOCOL")
              : r \in Requests(over, "initialize")}

AfterInitialize(c, k) ==
  IF k.status = "ok" THEN Chosen(c, k, "legacy")
  ELSE Failures(Release(c, k), "VERSION")

\* .probing: the discover call first, then the initialize call.
Probe(c) ==
  LET waiting == IF CallsOf(c, "discover") # {} THEN CallsOf(c, "discover")
                 ELSE CallsOf(c, "initialize")
  IN  IF waiting = {} THEN Failures(c, "PROTOCOL")
      ELSE LET k == CHOOSE k \in waiting : TRUE
           IN  IF ~k.done THEN {c}
               ELSE IF k.kind = "discover" THEN AfterDiscover(c, k)
               ELSE AfterInitialize(c, k)

\* af_mcp_collect_list on the three lists: only tools/list decides readiness;
\* a failed optional list leaves its old cache and the state alone.
Collect(c) ==
  LET got   == {k \in c.calls : k.done /\ k.kind \in {Lists[i] : i \in DOMAIN Lists}}
      tools == {k \in got : k.kind = "tools"}
      rest  == [c EXCEPT !.calls = @ \ got]
  IN  IF tools = {} THEN rest
      ELSE IF \E k \in tools : k.status = "ok"
      THEN [rest EXCEPT !.tools = TRUE, !.state = "ready",
                        !.flags = @ \cup {"TOOLS_CURRENT"}]
      ELSE [rest EXCEPT !.state = "degraded", !.flags = @ \ {"TOOLS_CURRENT"}]

Advance(c) ==
  IF c.state = "probing" THEN Probe(c)
  ELSE IF c.state \in {"ready", "degraded"} THEN {Collect(c)}
  ELSE {c}

----------------------------------------------------------------------------
(* Starting.                                                                *)

\* Mutant: only the state is looked at.
StartableByState(c) == c.state \notin {"crash_loop", "disabled"}

\* The refusals of af_mcp_start.
Startable(c) == c.state \notin {"crash_loop", "disabled"} /\ ~c.pid /\ ~c.pgid

\* What af_mcp_start clears before it spawns; LEGACY_NEXT is consumed here.
Cleared(c) ==
  [c EXCEPT !.flags = @ \cap {"MANUAL_STOP"}, !.era = "unknown", !.nextId = 0,
            !.next = NoDeadline, !.calls = {}, !.outbox = FALSE,
            !.tools = FALSE, !.state = "starting"]

\* .spawn_failed: nothing runs.
NotSpawned(c) == ScheduleRestart([Cleared(c) EXCEPT !.state = "failed"])

\* .register_failed: the process is killed and collected before start returns,
\* with its group; it is taken not to have changed its user by then.
NotRegistered(c) ==
  ScheduleRestart([Cleared(c) EXCEPT !.state = "failed", !.started = TRUE,
                                     !.clean = FALSE])

\* af_mcp_spawn succeeded and both pipes are registered: the first request is
\* the modern probe, or initialize after a probe that timed out.
Spawned(c) ==
  LET live == [Cleared(c) EXCEPT
                 !.state = "probing", !.pid = TRUE, !.pgid = TRUE,
                 !.started = TRUE, !.pipes = {"stdin", "stdout", "stderr"}]
      kind == IF Has(c, "LEGACY_NEXT") THEN "initialize" ELSE "discover"
  IN  {IF r.ok THEN r.c ELSE ChildFailed(r.c, "PROTOCOL") : r \in Requests(live, kind)}

\* Readiness of a required server: af_mcp_required_counts.
RequiredReady(c) ==
  c.state = "ready" /\ ~Has(c, "STOPPING") /\ Has(c, "TOOLS_CURRENT")

\* One unit of the monotonic clock.  An age past the window never comes back.
Elapse(c) ==
  [c EXCEPT !.next = IF @ > 0 THEN @ - 1 ELSE @,
            !.history = [i \in DOMAIN @ |-> IF @[i] <= Window THEN @[i] + 1 ELSE @[i]],
            !.calls = {[k EXCEPT !.left = IF @ > 0 THEN @ - 1 ELSE 0] : k \in @}]
=============================================================================
