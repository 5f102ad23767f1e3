---------------------------- MODULE McpSupervisor ----------------------------
(* The supervisor of one stdio server against everything that moves around   *)
(* it: the process and its helpers, the pipes, the operator on the control   *)
(* socket, the clock, and the daemon's own shutdown.  Children share nothing *)
(* but the timer that sweeps them one after the other, so one is enough.     *)
EXTENDS McpChild

CONSTANTS
  Configs,    \* the configurations the daemon may be started with
  GraceMax,   \* AF_MCP_SHUTDOWN_GRACE_MAX_MS, the largest grace accepted
  KillWait,   \* the two seconds af_mcp_sup_shutdown leaves for SIGKILL
  MaxId       \* bound: an operator's request takes no identifier past it

ASSUME SupervisorAssumption ==
  /\ \A f \in Configs : /\ DOMAIN f = {"enabled", "mode", "legacy"}
                        /\ f.enabled \in BOOLEAN /\ f.legacy \in BOOLEAN
                        /\ f.mode \in Modes
  /\ GraceMax \in Nat /\ Grace <= GraceMax
  /\ KillWait \in Nat \ {0} /\ MaxId \in Nat

VARIABLES
  child,    \* the af_mcp_child
  proc,     \* the kernel's side: the leader, its group, what it speaks
  daemon,   \* running, draining (af_mcp_sup_shutdown), down
  polls,    \* what is left of the shutdown loop's attempts
  halted,   \* history: the operator's last accepted word was stop
  spawns,   \* history: ages of the processes started since the operator last
            \* intervened, within one window
  lost      \* history: a process was started over one that still existed

vars == <<child, proc, daemon, polls, halted, spawns, lost>>

Eras    == {"modern", "legacy"}
Zombies == {"clean", "bad"}        \* exited, not yet waited for
NoProc  == [leader |-> "none", helpers |-> FALSE, speaks |-> "none"]

\* af_mcp_sup_init.
Init ==
  /\ child \in {ChildInit(f) : f \in Configs}
  /\ proc = NoProc
  /\ daemon = "running" /\ polls = 0
  /\ halted = FALSE /\ spawns = << >> /\ lost = FALSE

----------------------------------------------------------------------------
(* What a handler may leave behind: the child, the process, whether it      *)
(* forked, and whether it did so over a process that still existed.         *)

Outcome(c, p) == [c |-> c, p |-> p, forked |-> FALSE, over |-> FALSE]
Exists(p)     == p.leader # "none" \/ p.helpers

\* kill(-pgid, SIGKILL) can be refused when only helpers are left, which may
\* have changed their user; no member at all is ESRCH, which is success.
KillOutcomes(p) == IF p.helpers /\ p.leader = "none" THEN BOOLEAN ELSE {TRUE}

Killed(p, ok) ==
  IF ~ok THEN p
  ELSE [p EXCEPT !.helpers = FALSE, !.leader = IF @ = "alive" THEN "killed" ELSE @]

\* af_mcp_teardown once the leader has been collected, or was never there.
TornDown(c, p) ==
  IF c.pgid THEN {Outcome(Teardown(c, ok), Killed(p, ok)) : ok \in KillOutcomes(p)}
  ELSE {Outcome(Teardown(c, TRUE), p)}

\* wait4 and then teardown.
Collected(c, p) ==
  TornDown(Reaped(c, p.leader = "clean"), [p EXCEPT !.leader = "none", !.speaks = "none"])

\* af_mcp_start.
Starts(c, p) ==
  IF ~Startable(c) THEN {Outcome(c, p)}
  ELSE {Outcome(NotSpawned(c), p),
        [c |-> NotRegistered(c), p |-> p, forked |-> TRUE, over |-> Exists(p)]}
       \cup {[c |-> d, forked |-> TRUE, over |-> Exists(p),
              p |-> [leader |-> "alive", helpers |-> FALSE, speaks |-> s]]
             : d \in Spawned(c), s \in Eras}

\* The end of a stop that does not restart.
Stopped(c) == [c EXCEPT !.state = "stopped", !.flags = @ \ StopFlags]

\* af_mcp_stop with manual = 1.
Stops(c, p) ==
  LET asked == CloseStdin(Invalidate(
                 [c EXCEPT !.state = "stopped",
                           !.flags = (@ \cup {"STOPPING", "MANUAL_STOP"})
                                     \ {"TERM_SENT", "LEGACY_NEXT"}]))
      gone  == IF ~c.pid THEN TornDown(asked, p) ELSE Collected(asked, p)
  IN  IF c.pid /\ p.leader \notin Zombies THEN {Outcome(ArmGrace(asked), p)}
      ELSE {Outcome(Stopped(r.c), r.p) : r \in gone}

\* Mutant: SIGTERM is repeated, SIGKILL never sent.
EscalatedPolitely(c, p) ==
  IF ~(Has(c, "STOPPING") /\ c.pid /\ c.next = 0) THEN Outcome(c, p)
  ELSE Outcome([c EXCEPT !.flags = @ \cup {"TERM_SENT"}, !.next = TermWait], p)

\* af_mcp_advance_shutdown: the grace over, SIGTERM; the wait over, SIGKILL.
\* What SIGTERM does is the process's business.
Escalated(c, p) ==
  IF ~(Has(c, "STOPPING") /\ c.pid /\ c.next = 0) THEN Outcome(c, p)
  ELSE IF Has(c, "TERM_SENT")
  THEN Outcome(c, Killed(p, TRUE))
  ELSE Outcome([c EXCEPT !.flags = @ \cup {"TERM_SENT"}, !.next = TermWait], p)

----------------------------------------------------------------------------
(* af_mcp_sweep_child, phase by phase.                                      *)

\* Mutant: on_failure is taken for always.
CleanExitUnlessNever(c) == c.clean /\ c.cfg.mode = "never"

CleanExit(c) == c.clean /\ c.cfg.mode # "always"

\* What becomes of a child whose process has just been collected.
AfterExit(c) ==
  LET over == [c EXCEPT !.flags = @ \ StopFlags]
  IN  IF ~Has(c, "STOPPING")
      THEN IF CleanExit(c) THEN [c EXCEPT !.state = "stopped"]
           ELSE ChildFailed(c, "SPAWN")
      ELSE IF ~Has(c, "RESTART_AFTER_STOP") \/ Has(c, "MANUAL_STOP") THEN Stopped(c)
      ELSE IF Has(c, "LEGACY_NEXT") \/ Has(c, "MANUAL_RESTART") THEN RestartNow(over)
      ELSE IF Has(c, "EOF") /\ ~Has(c, "PROCESS_FAILURE") /\ CleanExit(c)
      THEN Stopped(c)
      ELSE ScheduleRestart(over)

\* Collect the leader, or move its shutdown on.
SweepProcess(c, p) ==
  IF ~c.pid THEN {Outcome(c, p)}
  ELSE IF p.leader \in Zombies
  THEN {Outcome(AfterExit(r.c), r.p) : r \in Collected(c, p)}
  ELSE {Escalated(c, p)}

\* .no_child: a group that outlived its leader is killed again.
SweepGroup(c, p) == IF ~c.pid /\ c.pgid THEN TornDown(c, p) ELSE {Outcome(c, p)}

\* What stdin did not take is offered again.
SweepOutbox(c) ==
  IF "stdin" \in c.pipes /\ c.outbox
  THEN {[c EXCEPT !.outbox = FALSE], c, ChildFailed(c, "WRITE")}
  ELSE {c}

SweepSession(c) ==
  UNION {IF r.ok THEN Advance(r.c) ELSE {r.c} : r \in SweptCalls(c)}

\* Mutant: the first start does not ask whether the operator stopped it.
StartIsDueAnyway(c) ==
  \/ c.state = "restarting" /\ c.next <= 0
  \/ c.state = "stopped" /\ ~c.started

\* A restart that is due, or the first start.
StartIsDue(c) ==
  \/ c.state = "restarting" /\ c.next <= 0
  \/ c.state = "stopped" /\ ~Has(c, "MANUAL_STOP") /\ ~c.started

SweepStart(c, p) == IF StartIsDue(c) THEN Starts(c, p) ELSE {Outcome(c, p)}

\* Nothing more is done while the old group is still owned.
Sweeps(c, p) ==
  UNION {IF ~g.c.pid /\ g.c.pgid THEN {g}
         ELSE UNION {SweepStart(d, g.p) : d \in UNION {SweepSession(b) : b \in SweepOutbox(g.c)}}
         : g \in UNION {SweepGroup(r.c, r.p) : r \in SweepProcess(c, p)}}

----------------------------------------------------------------------------
(* The actions.                                                             *)

\* Apply an outcome and keep the history of it.
Apply(r) ==
  /\ child' = r.c /\ proc' = r.p
  /\ spawns' = IF r.forked THEN Append(spawns, 0) ELSE spawns
  /\ lost' = (lost \/ r.over)

\* The timer: af_mcp_on_tick.
Sweep ==
  /\ daemon = "running"
  /\ \E r \in Sweeps(child, proc) : Apply(r)
  /\ UNCHANGED <<daemon, polls, halted>>

\* A handler that touches the child alone.
Handle(c) ==
  /\ daemon = "running" /\ child' = c
  /\ UNCHANGED <<proc, daemon, polls, halted, spawns, lost>>

\* What a server can answer to a request of that kind.  "refused" is an error,
\* a result that cannot be stored, or one the validators of mcp_era reject.
Statuses(kind) ==
  {"refused"} \cup
  (IF (kind = "discover" => proc.speaks = "modern")
      /\ (kind = "initialize" => proc.speaks = "legacy")
   THEN {"ok"} ELSE {})

\* af_mcp_on_stdout: a response, perhaps late or repeated; ...
OnResponse ==
  /\ "stdout" \in child.pipes
  /\ \E k \in child.calls : \E st \in Statuses(k.kind) :
       \E c \in Advance(Answered(child, k.id, st)) : Handle(c)

\* ... a line that is no JSON-RPC message, or a failed read; ...
OnCorruption ==
  /\ "stdout" \in child.pipes
  /\ Handle(ChildFailed(DropPipe(child, "stdout"), "PROTOCOL"))

\* ... the end of the stream.
OnEof ==
  /\ "stdout" \in child.pipes
  /\ Handle(ChildFailed(DropPipe([child EXCEPT !.flags = @ \cup {"EOF"}], "stdout"), "EOF"))

\* af_mcp_on_stderr: only a failed read fails the child.
OnStderr ==
  /\ "stderr" \in child.pipes
  /\ \E c \in {DropPipe(child, "stderr"), ChildFailed(DropPipe(child, "stderr"), "READ")} :
       Handle(c)

----------------------------------------------------------------------------
(* The operator: af_ctl_mcp_action.  A refused command changes nothing.     *)

\* Mutant: only a disabled server refuses.
LatchedIfDisabled(c) == c.state = "disabled"

Latched(c) == c.state \in {"crash_loop", "disabled"}

\* The history of an accepted command.
Accepted(stop) == halted' = stop /\ spawns' = << >> /\ UNCHANGED <<daemon, polls>>

ManualStart ==
  /\ daemon = "running" /\ ~Latched(child) /\ ~child.pid
  /\ \E r \in Starts([child EXCEPT !.flags = @ \ {"MANUAL_STOP"}], proc) :
       child' = r.c /\ proc' = r.p /\ lost' = (lost \/ r.over)
  /\ Accepted(FALSE)

ManualStop ==
  /\ daemon = "running" /\ ~Latched(child)
  /\ \E r \in Stops(child, proc) : child' = r.c /\ proc' = r.p
  /\ Accepted(TRUE) /\ UNCHANGED lost

\* A live process is stopped first; the sweep that collects it restarts it.
ManualRestart ==
  LET wanted == [child EXCEPT !.flags = @ \ {"MANUAL_STOP"}]
      stopping ==
        [wanted EXCEPT !.state = "restarting",
           !.flags = (@ \cup {"STOPPING", "RESTART_AFTER_STOP", "MANUAL_RESTART"})
                     \ {"TERM_SENT"}]
  IN  /\ daemon = "running" /\ ~Latched(child)
      /\ child' = IF child.pid THEN ArmGrace(CloseStdin(Invalidate(stopping)))
                  ELSE RestartNow(Invalidate([wanted EXCEPT !.flags = @ \ StopFlags]))
      /\ Accepted(FALSE) /\ UNCHANGED <<proc, lost>>

\* af_mcp_reset.
Reset ==
  /\ daemon = "running" /\ child.state = "crash_loop" /\ ~child.pid /\ ~child.pgid
  /\ child' = RestartNow([child EXCEPT
                !.history = << >>, !.backoff = 0,
                !.flags = @ \ (StopFlags \cup LongLived)])
  /\ Accepted(FALSE) /\ UNCHANGED <<proc, lost>>

\* af_mcp_refresh_inventory: refused while a list call is pending.
Discover ==
  LET listCalls == {k \in child.calls : k.kind \in {Lists[i] : i \in DOMAIN Lists}}
      fresh == [child EXCEPT !.calls = @ \ listCalls, !.flags = @ \ {"LISTED"}]
  IN  /\ child.state \in {"ready", "degraded"}
      /\ \A k \in listCalls : k.done
      /\ child.nextId + Len(Lists) <= MaxId
      /\ \E r \in Inventories(fresh) :
           Handle(IF r.ok \/ r.c.state # "ready" THEN r.c
                  ELSE [r.c EXCEPT !.state = "degraded"])

\* af_ctl_m_mcp_tool_test: one test is kept, and the next one replaces it even
\* when its parameters cannot be built.
ToolTest ==
  LET previous == CallsOf(child, "tool_test")
      fresh == [child EXCEPT !.calls = @ \ previous]
  IN  /\ RequiredReady(child) /\ child.tools
      /\ \A k \in previous : k.done
      /\ child.nextId < MaxId
      /\ \E c \in {fresh} \cup {r.c : r \in Requests(fresh, "tool_test")} : Handle(c)

Operator == ManualStart \/ ManualStop \/ ManualRestart \/ Reset \/ Discover \/ ToolTest

----------------------------------------------------------------------------
(* The processes and the clock.                                             *)

World == UNCHANGED <<child, daemon, polls, halted, spawns, lost>>

\* The server exits by itself, whatever made it.
Exit ==
  /\ proc.leader = "alive"
  /\ \E how \in Zombies : proc' = [proc EXCEPT !.leader = how]
  /\ World

\* It starts a helper in its own group.
Fork == proc.leader = "alive" /\ proc' = [proc EXCEPT !.helpers = TRUE] /\ World

HelpersExit == proc.helpers /\ proc' = [proc EXCEPT !.helpers = FALSE] /\ World

\* A process that was sent SIGKILL dies.
Dies == proc.leader = "killed" /\ proc' = [proc EXCEPT !.leader = "bad"] /\ World

Aged(s) ==
  LET t == [i \in DOMAIN s |-> s[i] + 1] IN Keep(t, {i \in DOMAIN t : t[i] <= Window})

Pass ==
  /\ daemon = "running"
  /\ child' = Elapse(child) /\ spawns' = Aged(spawns)
  /\ UNCHANGED <<proc, daemon, polls, halted, lost>>

----------------------------------------------------------------------------
(* af_mcp_sup_shutdown: the loop has stopped, nothing but this runs.        *)

Shutdown ==
  /\ daemon = "running" /\ daemon' = "draining"
  /\ polls' = GraceMax + TermWait + KillWait
  /\ \E r \in (IF Latched(child) THEN {Outcome(child, proc)} ELSE Stops(child, proc)) :
       child' = r.c /\ proc' = r.p
  /\ halted' = TRUE /\ spawns' = << >> /\ UNCHANGED lost

\* One turn of the wait: the leader is collected, or its stop moves on and the
\* turn ends with a pause, in which time passes.
Drain ==
  /\ daemon = "draining" /\ child.pid /\ polls > 0
  /\ \/ /\ proc.leader \in Zombies
        /\ \E r \in Collected(child, proc) : child' = r.c /\ proc' = r.p
        /\ UNCHANGED polls
     \/ /\ proc.leader \notin Zombies
        /\ LET r == Escalated(child, proc) IN child' = Elapse(r.c) /\ proc' = r.p
        /\ polls' = polls - 1
  /\ UNCHANGED <<daemon, halted, spawns, lost>>

\* .release: whatever is left is torn down, and the daemon goes on to exit.
Down ==
  /\ daemon = "draining" /\ (~child.pid \/ polls = 0) /\ daemon' = "down"
  /\ \E r \in TornDown(child, proc) :
       child' = r.c /\ proc' = r.p
  /\ UNCHANGED <<polls, halted, spawns, lost>>

Next ==
  \/ Sweep \/ OnResponse \/ OnCorruption \/ OnEof \/ OnStderr
  \/ Operator
  \/ Exit \/ Fork \/ HelpersExit \/ Dies \/ Pass
  \/ Shutdown \/ Drain \/ Down

\* The timer fires and the clock runs; a killed process dies; a helper that
\* once could not be killed does not stay for ever.
Fairness ==
  /\ WF_vars(Sweep) /\ WF_vars(Pass) /\ WF_vars(Dies) /\ WF_vars(HelpersExit)
  /\ WF_vars(Drain) /\ WF_vars(Down)

Spec == Init /\ [][Next]_vars

FairSpec == Spec /\ Fairness

----------------------------------------------------------------------------
(* Properties.                                                              *)

Calls ==
  [id : Nat \ {0}, kind : Kinds, done : BOOLEAN,
   status : {"none", "ok", "refused", "timeout"}, left : Nat]

\* The type invariant.
TypeOK ==
  /\ child.cfg \in Configs /\ child.state \in States
  /\ child.pid \in BOOLEAN /\ child.pgid \in BOOLEAN
  /\ child.started \in BOOLEAN /\ child.clean \in BOOLEAN
  /\ child.flags \subseteq Flags
  /\ child.pipes \subseteq {"stdin", "stdout", "stderr"}
  /\ child.outbox \in BOOLEAN /\ child.tools \in BOOLEAN
  /\ child.era \in Eras \cup {"unknown"}
  /\ child.calls \subseteq Calls /\ child.nextId \in Nat
  /\ child.next \in Int /\ child.next >= NoDeadline
  /\ child.history \in Seq(0..(Window + 1)) /\ child.backoff \in 0..MaxBackoff
  /\ proc.leader \in {"none", "alive", "killed"} \cup Zombies
  /\ proc.helpers \in BOOLEAN /\ proc.speaks \in Eras \cup {"none"}
  /\ daemon \in {"running", "draining", "down"} /\ polls \in Nat
  /\ halted \in BOOLEAN /\ lost \in BOOLEAN /\ spawns \in Seq(0..Window)

\* One server, one process: af_mcp_start never runs over a leader that has
\* not been collected or a group that may still have members, although an
\* operator's restart leaves a child "restarting", with a deadline that
\* passes, while its old process is still alive.
OneProcess == ~lost

\* Nothing is forgotten: a leader that exists is one the child can still wait
\* for, and helpers are in a group the child still owns, so that no exit path
\* leaves a zombie or an orphan.
NothingForgotten ==
  daemon # "down" => /\ proc.leader # "none" => child.pid
                     /\ proc.helpers => child.pgid

\* Era, inventory, calls and readiness are about the process that runs now
\* and is not being stopped, and the era is one this very process speaks.
ViewIsLive ==
  (\/ child.era # "unknown" \/ child.calls # {} \/ child.tools
   \/ child.state \in {"probing", "ready", "degraded"} \/ RequiredReady(child))
  => /\ child.pid /\ ~Has(child, "STOPPING") /\ "stdin" \in child.pipes
     /\ child.era = "unknown" <=> child.state = "probing"
     /\ child.era # "unknown" => child.era = proc.speaks
     /\ Has(child, "TOOLS_CURRENT") => child.tools /\ child.state = "ready"

\* The eight slots are never all in use, at most one call of a kind is known,
\* and the modern probe and initialize are never both in flight.
CallsAreFew ==
  /\ \A k, l \in child.calls : k.kind = l.kind \/ k.id = l.id => k = l
  /\ Cardinality(child.calls) < MaxCalls
  /\ CallsOf(child, "discover") = {} \/ CallsOf(child, "initialize") = {}

\* Without the operator, the processes started within one window are at most
\* twice the budget and the first one: each may be probed again as legacy.
SpawnsAreBounded == Len(spawns) <= 2 * (MaxRestarts + 1)

\* By the time the daemon's shutdown gives up waiting it has sent SIGKILL.
ShutdownInsists == daemon = "draining" /\ polls = 0 => proc.leader # "alive"

\* A server the operator stopped is not started again by anything but the
\* operator, whatever failure, exit or era switch was under way.
StopIsKept ==
  [][halted /\ halted' => ~(proc.leader = "none" /\ proc'.leader = "alive")]_vars

\* The crash-loop latch is opened by mcp.reset_crash_loop and nothing else,
\* and nothing is started under it.
LatchHolds ==
  [][child.state = "crash_loop" =>
       (child'.state = "crash_loop" /\ proc'.leader = "none") \/ Reset]_vars

\* A server that ends by itself with status zero is restarted only under
\* restart.mode = always, whether its exit or its end of file is seen first.
CleanExitRests ==
  [][/\ proc.leader = "clean" /\ proc'.leader # "clean" /\ daemon = "running"
     /\ child.cfg.mode # "always"
     /\ child.flags \cap {"PROCESS_FAILURE", "MANUAL_RESTART", "LEGACY_NEXT"} = {}
     => child'.state = "stopped"]_vars

\* An answered or timed-out call keeps its outcome: a late or repeated
\* response is not matched to it.
RetiredStaysRetired ==
  [][\A k \in child.calls, l \in child'.calls :
       proc.leader # "none" /\ proc'.leader # "none" /\ k.done /\ k.id = l.id
       => l.done /\ l.status = k.status]_vars

\* A stop that was begun ends with the process collected, unless the operator
\* keeps asking, which starts the grace again.
StopEnds ==
  <>[](Has(child, "STOPPING") /\ daemon # "down")
  => []<><<ManualStop \/ ManualRestart>>_vars

\* No server stays undecided for ever, and a scheduled restart is attempted:
\* a server that only ever waits is one whose start keeps failing, or whose
\* restart the operator keeps asking for.
WaitEnds ==
  /\ []<>~(child.state = "probing" /\ daemon = "running")
  /\ <>[](child.state = "restarting" /\ daemon = "running")
     => []<><<ManualRestart \/ (Sweep /\ child.next <= 0 /\ child'.next > 0)>>_vars
=============================================================================
