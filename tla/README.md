# AsmFlow in TLA+

AsmFlow is a local gateway for OpenAI-compatible providers and a supervisor of
MCP servers, written in x86-64 assembly.  One process, one thread, one epoll
loop: everything below is a callback of that loop, and what makes the program
hard is the order in which callbacks of different connections, transfers,
timers, children and operators arrive.  This directory models the parts whose
correctness depends on that order, checks them with TLC on small instances and
proves the central ones with TLAPS.  It also models the Python scripts that
decide whether a tree is good (the milestone gates, the repository validation,
the ABI audit): a verdict is only worth what they can tell apart.

## 1. The system

| Component | State it keeps | Operations | Talks to |
|---|---|---|---|
| Circuit breaker (`src/routing/routing_health.asm`) | one record per provider: health, failure and success counts, deadline, backoff, claimed slots, probes, latency average | refresh, admit, begin, end, success, failure | read by the selector and `providers.list`; driven by exchanges |
| Route selection (`src/routing/routing_select.asm`) | a round-robin cursor per route | candidates (six filters), select (three policies) | the breaker's records, the configuration snapshot |
| Provider exchange (`src/providers/provider_exchange.asm`) | one record per request in flight: target, tried set, attempt, claim, status, buffers, what was committed | start, attempt, headers, write, finish, fallback, detach, dispose | selector, breaker, engine, client connection |
| Provider engine (`src/providers/provider_engine.asm`) | the slot table, `PE_ACTIVE`, libcurl's sockets and timer | alloc, release, reap, socket and timer callbacks | libcurl, event loop |
| Failure tables (`src/providers/provider_error.asm`) | none | classify a CURLcode or status, retryable, error id | exchange |
| SSE forwarding, adapters (`provider_sse.asm`, `provider_adapter.asm`) | a carry buffer | push, flush; build URL, headers and body | exchange |
| HTTP listener (`src/http/`) | connection slots: parser, inbox, outbox, flags, idle deadline | accept, read, parse, respond, write, sweep, resume, shutdown | event loop, endpoints, exchange |
| MCP supervisor and calls (`src/mcp/`) | one record per child: state, process, restart window, deadlines; a table of pending calls; framing buffers; for HTTP servers transfer slots and generations | start, stop, restart, reap, tick, call, response, timeout | event loop, control methods, storage |
| Control plane (`src/control/`) | socket file, client slots, inbox and outbox | accept, frame, dispatch, reply, drop | storage, supervisor, breaker |
| Storage (`src/storage/`) | the SQLite database | open, migrate, sync, read and write, backup | control methods, daemon |
| Event loop and daemon (`src/platform/linux_x86_64/`) | the source table; the phases of start-up and shut-down | add, modify, remove, dispatch; signals, drain, unwind | everything |
| Configuration, JSON, memory, core (`src/config`, `src/json`, `src/memory`, `src/core`) | none between calls (buffers and arenas have ceilings) | load and validate, parse, format, allocate | everything |
| Milestone gates (`scripts/gate_m*.py`, `Makefile`) | one sticky `FAILED` per run | checks, each a sequence of questions about sources, binaries and tool output; suites as child processes; exit status | the tree, `nm`, `readelf`, `make`, unittest |
| Repository validation (`scripts/validate_repo.py`) | none | layout, licences, examples, fixtures, script modes, macro names | the tree, `git` |
| ABI audit (`scripts/abi_audit.py`, `include/abi.inc`) | functions judged, problems | disassemble, collect the symbols to audit, judge prologue, epilogue and writes | `objdump`, `nm`, the C sources |
| Console and CLI (`src/tui`), FFI shims (`src/ffi`) | presentation state; none | render; one-for-one library calls | control socket; libraries |

Which behaviours are hard, and what makes each part correct:

* **Overlapping attempts against one provider.**  Outcomes arrive in any order
  and long after the circuit changed.  Counters must balance, a half-open
  circuit must be probeable, cooldowns bounded, health in agreement with the
  counters.
* **Fallback.**  One step releases one provider, tears down an answer, claims
  another provider; any of it may fail half-way; nothing may be spliced into a
  response that has started.
* **Cancellation.**  A client leaves in any phase; claim, slot and exchange are
  returned exactly once and nothing is recorded against the provider.
* **Operators.**  Commands change the database while the request path reads the
  configuration snapshot.
* **Selection.**  Ties, unmeasured and half-open targets, a cursor that outgrows
  a changing candidate count.
* **Supervised processes.**  A child exits, closes a pipe, forks helpers or
  answers late at any point of a stop, a restart or an era switch.  No process
  is doubled or forgotten, nothing learnt from one outlives it, restarts stay
  within their budget, and the operator's stop and the crash-loop latch hold.
* **Gates.**  A green gate must mean that every check was made and every suite
  tested something.  A check can return early, go on after a failure or raise,
  and a suite can run nothing, skip every test or never end; none of it may
  lead to the line "gate passed".
* **The audit.**  A function it accepts must preserve the callee-saved registers
  on every path, a function it should judge must not escape it, and code
  written with the macros must not be refused.
* **Backpressure, drain, slot reuse in an event batch, interrupted
  migrations:** hazards of the parts not modelled yet; `PROJECT.json` lists
  each at its line.

## 2. Modules

| Module | Models | How state and actions correspond |
|---|---|---|
| `ProviderHealth` | `routing_health.asm` | `af_prov_state` is a record; each `af_health_*` routine is an operator from record to record, in the order of its stores |
| `CircuitBreaker` | the breaker as exchanges drive it | `s` is the provider's record, `att` what each exchange carries of its attempt; `BeginAttempt` is refresh, filters 4 and 5 and `af_health_begin` (one turn of the loop), `End...` the three verdicts of `af_prov_attempt_release`, `Look` a read that refreshes |
| `CircuitContract` | the documented state machine (abstract) | health, deadline and whether the probe is out; no attempts |
| `RouteSelect` | `routing_select.asm`, what it chooses | the filters as sets, the comparisons as predicates, the choice as the candidate that beats all others |
| `RouteScan` | `routing_select.asm`, the loops | `Walk` is one turn of the candidate loop, `EndWalk` the head of `af_route_select`, `Scan` one comparison |
| `ProviderError` | `provider_error.asm` | the tables as functions |
| `Exchange` | `provider_exchange.asm`, the slot table of `provider_engine.asm`, the refusals of `http_endpoints.asm`, `provider.enable/disable` | `x[c]` is `af_prov_exchange` of connection `c`, `hs` every provider's record, `active` is `PE_ACTIVE`, `out[c]` what was queued for the client; one action per callback |
| `McpChild` | one stdio child: `mcp_supervisor.asm`, `mcp_era.asm`, `mcp_rpc.asm` | `af_mcp_child` is a record, each handler an operator from the record to the record or records it may leave; a deadline is the time left, a recorded restart its age |
| `McpSupervisor` | the child among its process, pipes, operator, timer and daemon; `mcp_process.asm`, `mcp_frame.asm`, the MCP methods of `control_methods.asm` | `child` is the record, `proc` the kernel's side (leader, helpers, what the server speaks), `daemon` and `polls` the synchronous shutdown; `Sweep` is one tick, phase by phase; `On...` the pipe callbacks; the operator's commands, one action each; `Shutdown`, `Drain`, `Down` are `af_mcp_sup_shutdown`; `halted`, `spawns` and `lost` are history |
| `GateClauses` | what the checks are made of | a clause is a run of questions with the same consequences: on a no the check returns (`Stop`), goes on (`Go`) or ends the script (`Quit`), and it may raise what nobody handles (`OrRaises`) |
| `GateM1`, `GateM3` ... `GateM11`, `ValidateRepo` | one script each | a check is the sequence of its clauses; `main` the checks in its order, `SUITES` the suites, `run_suite` what the script makes of a suite's outcome |
| `GateRun` | one run of a script, directly or under `make` | `ck`, `cl`, `sk` are where the run is, `failed` is `FAILED`, `exit` its end; `ClausePasses`, `ClauseFails`, `Traceback`, `CheckEnds`, `SuiteEnds`, `MakeTarget`, `Finish` the steps; `weak`, `oks`, `passed` are history |
| `AbiAudit` | `abi_audit.py`, the macros of `abi.inc`, and the processor | `way` and `blocks` are an exported function and how it stands in the tree, `seen` and `verdict` the audit's; after an accepting `audit` the function is called: `Push`, `Pop`, `Unwinds`, `Compute`, `Jump`, `Returns`, `RunsOn` execute it on `regs` and `stack` |
| `Listing` | the compacting loops of `af_route_candidates` and of the restart history | `InOrder` lists the indices that stay, `Keep` the entries at them |
| `ListingProofs`, `RoutingProofs` | - | lemmas about the operators of `Listing`, and of `ProviderHealth` and `RouteSelect` |
| `CircuitBreakerProofs`, `RouteScanProofs`, `ExchangeProofs`, `McpSupervisorProofs`, `GateRunProofs`, `AbiAuditProofs` | - | the theorems about the specifications of those names |
| `MC...` | - | constants for TLC |

`CircuitBreaker` and `Exchange` use the same `ProviderHealth`; `Exchange`
composes it with `RouteSelect` and `ProviderError`; `RouteScan` shows that the
loop of the code computes the `Select` that `Exchange` uses.

Abstractions.  Time is in milliseconds.  Identifiers are integers in the
bytewise order of the strings.  Bodies and events are a kind each (a JSON
object, something else, one too large); their text is not modelled.  `disabled`
is never a stored health: the console derives it.  Configuration reload is not
reachable while the daemon runs, so a configuration is constant.  The 64-bit
counters cannot overflow within the configured ranges (thresholds to 100,
cooldown to an hour, `max_concurrency` to 4096).  In `Exchange`, interim 1xx
blocks (nothing they store survives the next status line) and backpressure are
left out; what libcurl may report is `Reports`.  In `McpSupervisor` there is one
child (children share only the timer, which sweeps them in turn), a read of
stdout delivers one response, a failed allocation is one of the failures of the
step it occurs in, and a group kill may be refused only while helpers outlive
their leader.  A `wait4` that fails and the Streamable HTTP transport are left
out; a server speaks one era.

In the gates the answer to a question about the tree is the environment's
choice: what a check searches for and how well the search answers it (comments,
slices that run on, lists that are short of a name) is left out, what the
script does with the answer is kept.  A loop over names is part of its clause.

In the audit one narrower name stands for all aliases of a register, `f` for
any exported function, a conditional jump skips the block after its own (there
are no backward jumps and no calls), and a value is the caller's, a stack depth,
the return address or anything else.  `mov`, `xchg`, `push` and `pop` carry
values, a store through `rbp` or `[rsp+0]` changes the word of the stack it
addresses, the saved registers and the return address included; any other
pointer is taken to point elsewhere, and what is loaded from memory is nothing
the caller wants back.  `rsp` is moved by `push`, `pop`, the `sub` of `AF_ENTER`
and the `lea` of `AF_LEAVE` only (`AuditAssumption`), as `include/abi.inc:17`
says.

`AcceptedPreserves` speaks of the functions that deserve what the audit takes on
trust, and `OnTrust` says what that is.  The audit does not look at: stores
into the frame and writes of `rbp` after the prologue; the order of the six
pops, which it sorts (`abi_audit.py:251`); pops anywhere else; a tail jump, which
is no `ret`; a second `lea rsp`; the second operand of `xchg`; and mnemonics that
are not on its list, for which `movabs` stands.  Functions with such faults are
among those of the instance and are accepted by the modelled audit as by the
real one.

## 3. Runs

| Run | Question | Result |
|---|---|---|
| `circuit` | one provider, up to three overlapping attempts, every order of outcomes, any passage of time | passes: slots balance, a half-open circuit with no probe out admits one, cooldowns bounded by sixteen times the base, health agrees with the counters, and with `max_concurrency` 1 every step is a step of `CircuitContract` |
| `cooldown` | does an open circuit stay open until its deadline? | violated: a late success zeroes the failure count of the open circuit and a late failure then stores `degraded` |
| `route_scan` | do the loops choose what `tests/route_oracle.py` chooses? | passes for every route of up to three targets |
| `exchange` | two connections through admission, routing, transfer, fallback, streaming, disconnects, operator commands | passes: claims and slots balance, one answer from one voice, a retry is a fresh target before the commit barrier |
| `exchange_live` | does every request end? | passes, under the fairness below |
| `mcp_supervisor` | one MCP stdio server that exits, forks, answers late, corrupts its stream or ignores signals, against the operator and the daemon's shutdown | passes: one process at a time and none forgotten, the view of a process ends with it, few calls, restarts within the budget, SIGKILL before the shutdown gives up, stop and latch kept, a clean exit rests, a retired call stays retired |
| `mcp_live` | does every stop, era decision and scheduled restart come to an end? | passes, under the fairness below |
| `error_body` | is an upstream JSON error relayed when the fallback finds nothing? | violated: the teardown has already cleared the body |
| `gates` | what does a green gate mean, for each of the eleven scripts, every way its checks can answer and every outcome of the suites? | passes: every check ran to its end and every suite was found good, a suite that counts ran tests and skipped none (M3's parity suite excepted), and a gate whose children have limits ends |
| `make_gate` | does the same hold of `make gate-mN`, which CI runs? | violated: make looks at the exit status of unittest, which is 0 when no test ran or every one was skipped, and the script is run with `--skip-suites` |
| `abi_audit` | is what the audit accepts right as far as it looks, complete, and without false alarms? | passes for every function of up to four blocks, where no C file declares it |
| `abi_declared` | the same with a declaration in a C file | violated: `C_FUNC_RE` takes the declaration for a definition and the function is never audited |

The violations are disagreements between the code and its documents or
comments; `findings` in `PROJECT.json` quotes the lines.  Properties checked by
passing runs are the ones the code does keep under the same interleavings.
Three further disagreements are stated by definitions that no run checks:
`AtMostOneProbe` of `CircuitBreaker` (a late failure in half-open zeroes the
probe counter while the probe is out, so a second one is admitted, against
`docs/API_CONTRACT.md:308`), `ChargedProviderWasAsked` of `Exchange` (a second
target whose attempt cannot be set up is charged with the first one's failure)
and `DisabledGetsNothing` of `Exchange` (the selector reads only the configured
flag, not `operator_disabled`).

Also seen, without a property.  The audit promises of every function that
writes a callee-saved register that it "must open with the exact AF_ENTER
prologue and close every return path with the AF_LEAVE epilogue"
(`scripts/abi_audit.py:13-15`) and accepts the faults `OnTrust` lists: a leaf with
`xchg rax, rbx`, a framed function whose pops are in another order or that leaves
by a tail jump without any.  Several gates establish less than they say:
`gate_m1.py:203` looks for warnings in an incremental build that may have had
nothing to do, and its line 178 takes the word `(FLAGS)` for `-z now`; `gate_m3.py:279-286`
takes any non-zero exit for the refusal it asks for; `gate_m4.py:39-47` accepts
a native run whose filter selects no test, and its lines 154-155 scan
`tests` and four directories where lines 75-78 speak of all runtime code outside
storage; the list of impure calls at `gate_m7.py:127-137` is short of
`af_health_refresh`, which `routing_select.asm:186` calls.

Bounds.  `circuit`: three slots, three configurations (unbounded concurrency
with threshold 2; threshold 1 with two successes to close; serial), 6 or 7
attempts and 5 or 33 milliseconds: three overlapping attempts are enough for a
straggler of each verdict beside a probe, and serial traffic reaches the
capped backoff (cooldowns 1, 2, 4, 8, 16, 16).  `route_scan`: all routes of at
most three targets over two priorities, two latencies and unmeasured, cursors
0, 1 and 5; the proofs remove the bound.  `exchange`: two connections, three
requests, one tick, statuses 200 and 503, one transport failure of each
retryable class, and three configurations (priority with fallback, round robin
with a provider that cannot stream, least latency with one provider named
twice); the engine has room for both requests in the first, where they contend
for a serial provider, and for one in the others, where the second request
meets the ceiling.  A stream is at most a head, two pieces and a terminator, enough to
order any two of them.  `exchange_live` adds every kind of body.  Exchange runs
do not check for deadlock: the bound on requests stops the model.
`mcp_supervisor`: every delay is one unit and the window two, so that a grace, a
deadline or an age can be before, at and past its limit; two restarts in the
budget reach the doubled and capped backoff and the latch; two lists (tools,
which decides readiness, and one optional) and identifiers up to five allow one
refresh or tool test beside the start-up calls; five call slots are one more
than a server can ever use.  The configurations are a server restarted after
failures that may be legacy, one that is never restarted and may not, and a
disabled one.  `mcp_live` has a server that is always restarted, one list and a
budget of one.  These runs do not check for
deadlock: the daemon ends.
`gates` has no bound: the scripts are the whole scripts, and a run of a gate is
finite.  It checks for deadlock; a run that has ended stutters.  `abi_audit`
uses seventeen blocks (the two macros; a forgotten push or pop, a pop into another
register, swapped pushes, an early return; writes by full and narrower name; a
store into a local and a read; a tail call; a branch; and, passed by the audit,
pops in another order before a return and before a tail call, a store over a
saved register, `xchg` and `movabs`) in functions of up to four, enough for a
prologue, a branch over a mistake and a return; the audit and the machine stop,
so deadlock is not checked.

Fairness.  For a gate, the interpreter goes on (`WF_vars(Next)`): every suite of
the scripts in `Timed` is run with a `timeout=`, and no claim is made for the
others or for make.  In the exchange only the completion of a transfer is assumed to happen
(`WF_vars(Complete(c))`): every transfer carries `CURLOPT_TIMEOUT_MS`, so
libcurl reports each one whatever the provider does.  For the supervisor: the
250 ms timer fires (`Sweep`), the clock runs (`Pass`), the shutdown loop
proceeds, a process that was sent SIGKILL dies (`Dies`), and helpers that could
not be killed once do not stay for ever (`HelpersExit`), the transient refusal
that the comment at `.no_child` of the sweep describes.  A server is never
assumed to answer, exit or heed SIGTERM.  Arrivals, disconnects, the ticks of
the exchange runs and operators are never assumed; `StopEnds` and `WaitEnds`
name the operator as the one who can put an end off by asking again.

## 4. Proofs

For every set of slots, configuration and bound (`SlotsAssumption`,
`LatenciesAssumption`, `PoliciesAssumption`, `BoundsAssumption`),
`CircuitBreakerProofs` shows `Spec => []P` for `TypeOK`, `SlotsMatchAttempts`,
`ProbeNeverLockedOut`, `RecoveryIsBounded` and `HealthMatchesCounters`.  None of
the last three is inductive.  The probe counter is claimed, decremented and
zeroed by different routines, so that it may be *below* the number of probes in
flight but never above: `ProbeIsHeld` says that a counted probe is one some
attempt holds.  A deadline is bounded only because the backoff is, and the
backoff of a closed or half-open circuit matters for the next opening:
`Steady(s, p, now)` relates health, counts, backoff and deadline in every state,
open or not.  `IInv` is `TypeOK`, `Steady`, `SlotsMatchAttempts` and
`ProbeIsHeld`.  The layers are: what each operator of `ProviderHealth` does to
each field and that each keeps `Steady` (`RoutingProofs`), that beginning and
ending an attempt keep the counts in step with the set of attempts (finite
cardinalities), one case per action, and the temporal step.

`SerialRefines` shows the refinement of the documented state machine,
`SerialMeetsContract`, for every configuration: with `max_concurrency` 1 each
step is a step of `CircuitContract` or leaves its state alone.  Whether a probe
is out is read off the attempts, so the proof needs more than `IInv`: with one
attempt at a time nothing is in flight against an open circuit, the attempt of a
half-open one is its probe and there is none otherwise, and a half-open circuit
still carries the backoff the next opening doubles (`InStep`).  It fails with
more attempts, which is what the run `cooldown` shows.  `SerialStart` gives the
initial states.

`RouteScanProofs` shows, for routes of any length and any cursor
(`TargetListsAssumption`, `CursorsAssumption`), that the scan ends on what
`Select` chooses, that only and some eligible target is chosen when there is
one, that half-open and unmeasured targets come last under least latency, that
the choice is the one of `tests/route_oracle.py` (`ChoiceIsTheOracles`), and
`TypeOK`.  The inductive invariant `LoopInv` says that the candidates are the
eligible targets walked so far in increasing index order, and that the best so
far beats every other candidate of the prefix.  Totality and transitivity of the
comparison on distinct indices carry it through a step; asymmetry makes the
`CHOOSE` of `Select` unique.

That a finite set can be listed in order, and that a strict total order on one
has a first member, need no induction.  `ListingProofs` gets them by counting: the number of predecessors is an
injection of an n-element set into `0 .. n - 1`, so it takes every value, and the
k-th member is the one with k - 1 predecessors.  `Candidates` therefore lists the
admissible targets with `InOrder`, and the supervisor's `Recent` and `Aged` the
restarts that stay with `Keep`: definitions that TLC evaluates and the proofs
use.  `Num(s, a)`, the number of entries up to `a`, is what the proofs know of
such a list: what it is after an entry is appended, dropped or aged.

`ExchangeProofs` shows, for every configuration, every finite set of connections
and whatever the bounds on requests, bodies and time (`ExchangeAssumption`, and
the constants' own assumptions), `TypeOK`, `ClaimsAreHeld`,
`EngineCountsExchanges`, `OneAnswerOneVoice` and the action property
`AttemptsAreFresh`.  `ExchangeInv` adds to them that an exchange is in flight
exactly while it holds its claim, on a target of its route it has marked as
tried; that no head is sent before a status is known; and that nothing was sent
before the head.  The two sums over connections change one connection at a time,
so each step needs the cardinality of a set with one member more or less.  The
claims are kept as a ledger with one lemma per entry, release, claim and scan,
and the paths that made the property worth stating compose them: a fallback is
a release, a scan and a claim; a fallback whose new attempt cannot be set up is
the same and a release once more; a disconnect is a release without a verdict.

`CircuitsHold` carries the guarantees of the breaker into the composed gateway.
`CircuitBreaker` has one provider and attempts that come and go by themselves;
in `Exchange` one completion may release a provider, refresh every provider of
the route and claim another or the same one again through a second target, all
in one step.  Each circuit still stays `Steady`, because release, scan and claim
each keep it so, and with the ledger of probes this gives `CircuitsRecover` for
every provider.  No run lists it; TLC checked it on the instance of `MCExchange`
before it was proved.

`McpSupervisorProofs` shows, for every set of configurations, budget, backoff,
timeout, grace and list of inventories, the invariants `TypeOK`, `OneProcess`,
`NothingForgotten`, `ViewIsLive`, `CallsAreFew`, `SpawnsAreBounded` and
`ShutdownInsists` and the action properties `StopIsKept`, `LatchHolds`,
`CleanExitRests` and `RetiredStaysRetired`. Assumed are `SupervisorAssumption`
(a grace within the largest accepted, a positive wait for SIGKILL) and
`McpAssumption` (a positive window, backoff, SIGTERM wait and timeouts, a grace
that may be zero; each inventory is asked for once; the calls of a start-up and
one test fit the table with a slot to spare, 3 + 1 < 8 in `include/mcp.inc`).
None of the properties is inductive.  `SupInv` says of child and process
together:

* what exists is owned (`Owns`): a leader exactly while the child has a pid, a
  group while there may be helpers.  This is what makes `Startable` enough for
  `OneProcess`;
* either nothing is known of any process (`Blank`), or there is a `Session`: the
  child runs and is not being stopped, era and state belong together, the era
  is the one the process speaks, and every call has an identifier and a kind of
  its own, of the kinds its state allows; an accepted answer to a probe is what
  this process could have said;
* a latched or disabled child has no process; a stop of the operator is still
  flagged, in a state no sweep starts from (`Resting`);
* during the daemon's shutdown the turns left outlast the deadlines still to
  come (`InTime`).

The handlers are compositions of a few routines, and so are the proofs: one
lemma per routine of the child says what it leaves, a handler that leaves the
process alone yields a child that is `Handled`, the end of a process goes through
`Ended`, `Bare` and `Rested`, and the phases of the timer are put together at the
end.  Each action then gives `SupInv'` and `Lawful`, what the four action
properties say of a step.

`SpawnsAreBounded` is a bound on history, the ages of the processes started
since the operator's last word, by what the child has recorded.  `BudgetInv`
says for every age up to the window that the processes started within it are at
most `Worth`: two for each restart recorded within it, plus `Slack`, what the
current start may have used.  `Slack` is 0 while a start is scheduled, 1 while
the modern probe is open or the legacy retry is due, and 2 otherwise.  A routine
that starts nothing does not lower the account (`Frugal`): scheduling a restart
appends an entry, worth two, just where the slack falls to 0, and is refused at
`MaxRestarts`, where the child is latched instead.  A fork raises it by one
(`Paying`), a command of the operator opens a new account (the shutdown closes
it), and a unit of time shifts both counts by one age.  At the age of the whole
window this is the property.  It has to hold at every age, because an entry and
the older processes it accounts for leave the window at different times.

`GateRunProofs` shows `PassIsComplete` for any scripts, suites and rules of
judgment (`ScriptAssumption`), not only the ones in this tree.  It is not
inductive: the invariant says of every moment that, as long as nothing has
failed, the checks that ran to their end are exactly the ones passed by and the
suites found good exactly the ones behind.  `SuitesReal` (`SuitesAreReal`) holds
for any list of suites with `run_suite` as each script has it: `WhatIsGood` goes
through the nine functions.

`AbiAuditProofs` is about functions of any number of blocks (`AuditAssumption`:
blocks of the instructions the machine has, in which only jumps and returns are
without operands and `rsp` is moved as above).

* `AuditCovers`: the audit passes only over what it has judged, if no C file
  declares an assembly function at the start of a line.
* `MacrosAccepted`: no false alarms.  A function that opens with `AF_ENTER` and
  returns through `AF_LEAVE` is accepted at any length, since every return in the
  flattened code is the last instruction of a block that pops all six registers.
* `AcceptedPreserve`: `AcceptedPreserves` at any length, if no C file declares an
  assembly function.  There are two invariants for the two kinds of function the
  audit tells apart.  `LInv`, of a leaf: nothing runs before it is accepted,
  what was accepted writes no callee-saved register, and none has changed.
  `FrameInv`, of a function with the prologue: what the stack and `rbp` are at
  each instruction.  Before the i-th instruction of `AF_ENTER` the first part of
  the frame is built (`Entering`); in the body the seven saved words are at the
  bottom of the stack, something is above them and `rbp` points at them (`Based`),
  whatever was pushed, stored elsewhere or jumped over; inside the six pops before
  an exit either the frame is taken apart as far as the pops have come, or
  control jumped in, or the stack was not unwound, and the words still to be
  popped are too many for the exit to find the return address (`Taken`): such
  a function crashes and does not return.
* `FramedReturn`: `include/abi.inc` says that the macros make the register
  invariants "true by construction".  Of code that opens with `AF_ENTER`, keeps
  out of its frame and restores in order before every exit, the same invariant
  gives that it never returns a register changed, whatever the audit did with it;
  and if the whole of `AF_LEAVE` stands before every exit and no block begins
  inside (`Tidy`), it pops no empty stack and returns to nobody but its caller:
  what the macros cannot prevent is a body that runs past its end.

Code is the concatenation of blocks, so these proofs have to know in which block
an instruction stands and what follows it.  That is induction over sequences,
and the library's induction theorems take an operator, which the provers cannot
instantiate.  `SetInduction` states induction with a set instead of a predicate,
from the well-foundedness of `<` on the naturals, and is enough: a set of
naturals that holds 0 and is closed under successor is all of them.
`FlattenEntry` and `FlattenPlace` say what `FlattenSeq` computes.

Only model-checked, and why:

* liveness (`EveryRequestEnds`, `StopEnds`, `WaitEnds`, `EveryGateEnds`), which is
  outside the prover, as are `ENABLED` and `RECURSIVE` operators;
* that the lists of checks and suites of this tree satisfy `ScriptAssumption`,
  which TLC evaluates.

## 5. Not modelled, and the plan

Not worth modelling: configuration validation (one document, read once, with an
oracle of its own), JSON and formatting, arenas and allocation, the console's
presentation, the library shims.  Of the scripts: what the checks search
for and how well a search answers it, the character scanners that strip comments, the text of
`objdump`, `nm` and `readelf`, and tools that hang.

Planned, in this order:

1. `EventLoop`: the source table and a batch of events whose slots are freed
   and reused while it is dispatched.
2. `HttpConn`, then `SseStream` with the bounded outbox: keep-alive and
   pipelining behind a suspended parser, idle sweep, `EPOLLOUT`, pause and
   resume, responses that do not fit.
3. MCP over HTTP beside `McpSupervisor`: transfer slots, adapter generations,
   cancellation against completion; line framing at its ceiling; and whether a
   restart asked for during an era switch probes the modern era first, as
   `docs/MCP_COMPATIBILITY.md` says of a manual restart.
4. `ControlConn`, `Storage` (migrations and backup with crashes), `Daemon`
   (signals, drain deadline, unwinding), and an abstract gateway contract that
   `Exchange` implements.
