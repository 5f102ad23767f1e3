------------------------- MODULE McpSupervisorProofs ------------------------
(* What the supervisor keeps true of one server, for every configuration,    *)
(* budget, timeout and list of inventories.                                  *)
(*                                                                           *)
(* SupInv ties the child to the kernel's process.  Owns: whatever exists is  *)
(* owned.  Blank or a session: era, calls and inventory are about the        *)
(* process that runs now, or there are none.  The clock of a shutdown: the   *)
(* turns left outlast the deadlines still to come.                           *)
(*                                                                           *)
(* A handler is a composition of the same few routines, so the proof is too. *)
(* A routine that leaves the process alone yields a child that is Handled; a *)
(* process's end goes through Ended, Bare and Rested; a start through        *)
(* Starts; the timer's phases are put together under Sweeping.  One lemma    *)
(* per routine says which of these its outcomes are; one step per action     *)
(* then gives SupInv' and Lawful, the conjunction of what the four action    *)
(* properties say of a step.  The calls are a set that is counted, never     *)
(* listed: each has a kind of its own and Lists has one of each.             *)
(*                                                                           *)
(* The last part is about the restart budget.  BudgetInv says that every     *)
(* process started since the operator's last word is accounted for: two by   *)
(* each restart recorded after it that the window still holds, and Slack by  *)
(* the stage the current start is in.  The routines are Frugal, a fork is    *)
(* Paying, and a unit of time ages both counts alike.                        *)
EXTENDS McpSupervisor, ListingProofs

----------------------------------------------------------------------------
(* The inductive invariant.                                                 *)

\* The record of a child has these fields, whatever they hold.
ChildFields ==
  {"cfg", "state", "pid", "pgid", "started", "clean", "flags", "pipes",
   "outbox", "era", "tools", "calls", "nextId", "next", "history", "backoff"}

IsChild(c) == c = [f \in ChildFields |-> c[f]]

Procs ==
  [leader : {"none", "alive", "killed"} \cup Zombies, helpers : BOOLEAN,
   speaks : Eras \cup {"none"}]

LiveStates == {"probing", "ready", "degraded"}
ListKinds  == {Lists[i] : i \in DOMAIN Lists}

\* The child has a leader to wait for exactly while there is one, and a group
\* to kill while there may be anybody in it.
Owns(c, p) ==
  /\ c.pid <=> p.leader # "none"
  /\ c.pid => c.pgid
  /\ p.helpers => c.pgid

\* Nothing is known of any process.
Blank(c) ==
  c.era = "unknown" /\ c.calls = {} /\ ~c.tools /\ c.state \notin LiveStates

\* The calls of a session: each of its own identifier, below the next one, and
\* of its own kind; an answer to the probe or to initialize is the process's.
Tracked(c, p) ==
  /\ c.calls \subseteq Calls
  /\ \A k \in c.calls : k.id <= c.nextId
  /\ \A k, l \in c.calls : k.id = l.id \/ k.kind = l.kind => k = l
  /\ \A k, l \in c.calls : k.kind = "discover" => l.kind # "initialize"
  /\ \A k \in c.calls :
       k.kind \in IF c.state = "probing" THEN {"discover", "initialize"}
                  ELSE ListKinds \cup {"tool_test"}
  /\ \A k \in c.calls : k.status = "ok" =>
       /\ k.kind = "discover" => p.speaks = "modern"
       /\ k.kind = "initialize" => p.speaks = "legacy"

\* What is known is known of the process that runs and is not being stopped.
Session(c, p) ==
  /\ c.pid /\ "stdin" \in c.pipes
  /\ "STOPPING" \notin c.flags /\ "LEGACY_NEXT" \notin c.flags
  /\ \/ c.state = "probing" /\ c.era = "unknown"
     \/ c.state \in {"ready", "degraded"} /\ c.era \in Eras /\ c.era = p.speaks
  /\ "TOOLS_CURRENT" \in c.flags => c.tools /\ c.state = "ready"
  /\ Tracked(c, p)

Typed(c) ==
  /\ IsChild(c)
  /\ c.pid \in BOOLEAN /\ c.pgid \in BOOLEAN /\ c.tools \in BOOLEAN
  /\ c.nextId \in Nat /\ c.next \in Int /\ c.next >= NoDeadline
  /\ c.backoff \in Nat

\* A child and a process that go together.
Fit(c, p) ==
  /\ Typed(c) /\ p \in Procs
  /\ c.state \in {"crash_loop", "disabled"} => ~c.pid /\ p.leader = "none"
  /\ Blank(c) \/ Session(c, p)
  /\ c.pid => c.started
  /\ "RESTART_AFTER_STOP" \in c.flags =>
       c.flags \cap {"EOF", "PROCESS_FAILURE", "MANUAL_RESTART"} # {}

\* Stopped by the operator, whatever has failed since.
Resting(c) == "MANUAL_STOP" \in c.flags /\ c.state \in {"stopped", "failed"}

\* The turns of the shutdown loop that are left reach the SIGKILL.
InTime(c, n) ==
  /\ "STOPPING" \in c.flags /\ c.next >= 0
  /\ n >= c.next + 1 + (IF "TERM_SENT" \in c.flags THEN 0 ELSE TermWait)

SupInv ==
  /\ Fit(child, proc)
  /\ daemon \in {"running", "draining", "down"} /\ polls \in Nat
  /\ daemon # "down" => Owns(child, proc)
  /\ ~lost
  /\ halted /\ daemon = "running" => Resting(child)
  /\ daemon # "running" => child.state \notin LiveStates
  /\ daemon = "draining" /\ proc.leader = "alive" => InTime(child, polls)

----------------------------------------------------------------------------
(* The operators on one child.                                              *)

\* What no handler but a start and a collection touches.
SameProcess(c, d) ==
  /\ d.pid = c.pid /\ d.pgid = c.pgid /\ d.started = c.started
  /\ d.cfg = c.cfg /\ d.clean = c.clean

\* A stop of the operator and the latch survive.
Stays(c, d) ==
  /\ Resting(c) => Resting(d)
  /\ c.state = "crash_loop" => d.state = "crash_loop"

\* af_mcp_invalidate_process_view.
LEMMA InvalidateFields ==
  ASSUME NEW c, Typed(c)
  PROVE  LET d == Invalidate(c) IN
           /\ Typed(d) /\ SameProcess(c, d)
           /\ d.era = "unknown" /\ d.calls = {} /\ d.tools = FALSE
           /\ d.state = c.state /\ d.next = c.next /\ d.pipes = c.pipes
           /\ d.nextId = c.nextId
           /\ d.flags = c.flags \ {"LISTED", "TOOLS_CURRENT"}
BY DEF Invalidate, Typed, IsChild, ChildFields, SameProcess

\* The next backoff is positive and at most the ceiling.
LEMMA BackoffType ==
  ASSUME NEW c, c.backoff \in Nat
  PROVE  Backoff(c) \in 1 .. MaxBackoff
BY McpAssumption DEF Backoff

\* af_mcp_schedule_restart.
LEMMA ScheduleFields ==
  ASSUME NEW c, Typed(c)
  PROVE  LET d == ScheduleRestart(c) IN
           /\ Typed(d) /\ SameProcess(c, d)
           /\ d.era = c.era /\ d.calls = c.calls /\ d.tools = c.tools
           /\ d.flags = c.flags /\ d.pipes = c.pipes /\ d.nextId = c.nextId
           /\ \/ d.state = c.state
              \/ d.state = "crash_loop"
              \/ d.state = "restarting" /\ d.next > 0
<1> DEFINE h == Recent(c)
           b == Backoff(c)
           r == IF h = << >> THEN 0 ELSE c.backoff
           d == ScheduleRestart(c)
           Same == /\ IsChild(d) /\ SameProcess(c, d)
                   /\ d.era = c.era /\ d.calls = c.calls /\ d.tools = c.tools
                   /\ d.flags = c.flags /\ d.pipes = c.pipes
                   /\ d.nextId = c.nextId
<1>1. b \in Nat /\ b > 0 /\ r \in Nat
  BY BackoffType, McpAssumption DEF Typed
<1>2. \/ d = c
      \/ d = [c EXCEPT !.history = h, !.state = "crash_loop", !.backoff = r]
      \/ d = [c EXCEPT !.history = Append(h, 0), !.state = "restarting",
                       !.backoff = b, !.next = b]
  BY DEF ScheduleRestart
<1> HIDE DEF d, h, b, r
<1>3. CASE d = c
  BY <1>3 DEF SameProcess, d
<1>4. CASE d = [c EXCEPT !.history = h, !.state = "crash_loop", !.backoff = r]
  <2>1. Same /\ d.state = "crash_loop" /\ d.next = c.next /\ d.backoff = r
    BY <1>4 DEF Typed, IsChild, ChildFields, SameProcess
  <2>2. Typed(d)
    BY <1>1, <2>1 DEF Typed, SameProcess
  <2> QED
    BY <2>1, <2>2 DEF d
<1>5. CASE d = [c EXCEPT !.history = Append(h, 0), !.state = "restarting",
                         !.backoff = b, !.next = b]
  <2>1. Same /\ d.state = "restarting" /\ d.next = b /\ d.backoff = b
    BY <1>5 DEF Typed, IsChild, ChildFields, SameProcess
  <2>2. Typed(d)
    BY <1>1, <2>1 DEF Typed, SameProcess, NoDeadline
  <2> QED
    BY <1>1, <2>1, <2>2 DEF d
<1> QED
  BY <1>2, <1>3, <1>4, <1>5

\* A restart that does not wait.
LEMMA RestartNowFields ==
  ASSUME NEW c, Typed(c)
  PROVE  LET d == RestartNow(c) IN
           /\ Typed(d) /\ SameProcess(c, d)
           /\ d.era = c.era /\ d.calls = c.calls /\ d.tools = c.tools
           /\ d.flags = c.flags /\ d.pipes = c.pipes /\ d.nextId = c.nextId
           /\ d.state = "restarting" /\ d.next = NoDeadline
<1> DEFINE d == RestartNow(c)
<1>1. /\ IsChild(d) /\ SameProcess(c, d)
      /\ d.era = c.era /\ d.calls = c.calls /\ d.tools = c.tools
      /\ d.flags = c.flags /\ d.pipes = c.pipes /\ d.nextId = c.nextId
      /\ d.state = "restarting" /\ d.next = NoDeadline /\ d.backoff = c.backoff
  BY DEF RestartNow, Typed, IsChild, ChildFields, SameProcess
<1> HIDE DEF d
<1>2. Typed(d)
  BY <1>1 DEF Typed, SameProcess, NoDeadline
<1> QED
  BY <1>1, <1>2 DEF d

\* A child and its process that go together, perhaps in the middle of a
\* handler that is about to fail the child.
Loose(c, p) ==
  /\ Typed(c) /\ p \in Procs /\ Owns(c, p)
  /\ c.state \in {"crash_loop", "disabled"} => ~c.pid
  /\ c.state \in {"crash_loop", "disabled"} \/ "STOPPING" \in c.flags => Blank(c)
  /\ c.pid => c.started
  /\ "RESTART_AFTER_STOP" \in c.flags =>
       c.flags \cap {"EOF", "PROCESS_FAILURE", "MANUAL_RESTART"} # {}

Safe(c, p) == Fit(c, p) /\ Owns(c, p)

LEMMA SafeIsLoose == ASSUME NEW c, NEW p, Safe(c, p) PROVE Loose(c, p)
BY DEF Safe, Fit, Loose, Session, Owns

\* af_mcp_child_failed: what was known of the process is gone.
LEMMA ChildFailedSafe ==
  ASSUME NEW c, NEW p, Loose(c, p), NEW why, why = "EOF" => "EOF" \in c.flags
  PROVE  LET d == ChildFailed(c, why) IN
           /\ Safe(d, p) /\ Blank(d) /\ SameProcess(c, d) /\ Stays(c, d)
           /\ d.nextId = c.nextId
<1> DEFINE blamed == [c EXCEPT !.flags = IF why = "EOF" THEN @
                                         ELSE @ \cup {"PROCESS_FAILURE"}]
           dead == [blamed EXCEPT !.state = "failed"]
           failed == Invalidate(dead)
           stopping ==
             [failed EXCEPT !.flags = (@ \cup {"STOPPING", "RESTART_AFTER_STOP"})
                                      \ {"TERM_SENT"}]
           halting == ArmGrace(CloseStdin(stopping))
           d == ChildFailed(c, why)
<1>1. \/ c.state \in {"crash_loop", "disabled"} /\ d = c
      \/ c.state \notin {"crash_loop", "disabled"} /\ Has(c, "STOPPING") /\ d = blamed
      \/ /\ c.state \notin {"crash_loop", "disabled"} /\ ~Has(c, "STOPPING")
         /\ Has(c, "MANUAL_STOP") /\ d = failed
      \/ /\ c.state \notin {"crash_loop", "disabled"} /\ ~Has(c, "STOPPING")
         /\ ~Has(c, "MANUAL_STOP") /\ c.pid /\ d = halting
      \/ /\ c.state \notin {"crash_loop", "disabled"} /\ ~Has(c, "STOPPING")
         /\ ~Has(c, "MANUAL_STOP") /\ ~c.pid
         /\ d = RestartNow(failed) \/ d = ScheduleRestart(failed)
  BY DEF ChildFailed
<1>2. /\ Typed(blamed) /\ SameProcess(c, blamed) /\ blamed.state = c.state
      /\ blamed.era = c.era /\ blamed.calls = c.calls /\ blamed.tools = c.tools
      /\ blamed.pipes = c.pipes /\ blamed.nextId = c.nextId
      /\ blamed.flags = IF why = "EOF" THEN c.flags ELSE c.flags \cup {"PROCESS_FAILURE"}
  BY DEF Loose, Typed, IsChild, ChildFields, SameProcess
<1>3. blamed.flags \cap {"EOF", "PROCESS_FAILURE"} # {}
  BY <1>2
<1> HIDE DEF blamed
<1>4. /\ Typed(dead) /\ SameProcess(blamed, dead) /\ dead.state = "failed"
      /\ dead.flags = blamed.flags /\ dead.pipes = blamed.pipes
      /\ dead.nextId = blamed.nextId
  BY <1>2 DEF Typed, IsChild, ChildFields, SameProcess
<1> HIDE DEF dead
<1>5. /\ Typed(failed) /\ SameProcess(dead, failed) /\ Blank(failed)
      /\ failed.flags = blamed.flags \ {"LISTED", "TOOLS_CURRENT"}
      /\ failed.state = "failed" /\ failed.nextId = dead.nextId
  BY <1>4, InvalidateFields DEF Blank, LiveStates
<1> HIDE DEF failed
<1>6. /\ SameProcess(c, failed) /\ failed.flags \cap {"EOF", "PROCESS_FAILURE"} # {}
      /\ Has(c, "MANUAL_STOP") => Has(failed, "MANUAL_STOP")
      /\ failed.nextId = c.nextId
  BY <1>2, <1>3, <1>4, <1>5 DEF SameProcess, Has
<1>7. CASE c.state \in {"crash_loop", "disabled"} /\ d = c
  BY <1>7 DEF Loose, Safe, Fit, Stays, SameProcess, Owns
<1>8. CASE c.state \notin {"crash_loop", "disabled"} /\ Has(c, "STOPPING") /\ d = blamed
  <2>1. Blank(c)
    BY <1>8 DEF Loose, Has
  <2>2. Blank(blamed)
    BY <1>2, <2>1 DEF Blank
  <2>3. Safe(blamed, p)
    BY <1>2, <1>3, <1>8, <2>2 DEF Loose, Safe, Fit, Owns, SameProcess
  <2>4. Stays(c, blamed)
    BY <1>2, <1>8 DEF Stays, Resting
  <2> HIDE DEF d
  <2>5. Safe(d, p) /\ Blank(d) /\ SameProcess(c, d) /\ Stays(c, d)
        /\ d.nextId = c.nextId
    BY <1>2, <1>8, <2>2, <2>3, <2>4
  <2> QED
    BY <2>5 DEF d
<1>9. Safe(failed, p)
  BY <1>5, <1>6 DEF Loose, Safe, Fit, Owns, SameProcess
<1>10. CASE /\ c.state \notin {"crash_loop", "disabled"} /\ ~Has(c, "STOPPING")
            /\ Has(c, "MANUAL_STOP") /\ d = failed
  <2>1. Stays(c, failed)
    BY <1>5, <1>6, <1>10 DEF Stays, Resting, Has
  <2> HIDE DEF d
  <2>2. Safe(d, p) /\ Blank(d) /\ SameProcess(c, d) /\ Stays(c, d)
        /\ d.nextId = c.nextId
    BY <1>5, <1>6, <1>9, <1>10, <2>1
  <2> QED
    BY <2>2 DEF d
<1>11. CASE /\ c.state \notin {"crash_loop", "disabled"} /\ ~Has(c, "STOPPING")
            /\ ~Has(c, "MANUAL_STOP") /\ c.pid /\ d = halting
  <2>1. /\ IsChild(halting) /\ SameProcess(failed, halting)
        /\ halting.state = failed.state /\ halting.next = Grace
        /\ halting.era = failed.era /\ halting.calls = failed.calls
        /\ halting.tools = failed.tools /\ halting.nextId = failed.nextId
        /\ halting.backoff = failed.backoff
        /\ halting.flags = (failed.flags \cup {"STOPPING", "RESTART_AFTER_STOP"})
                           \ {"TERM_SENT"}
    BY <1>5 DEF ArmGrace, CloseStdin, Typed, IsChild, ChildFields, SameProcess
  <2> HIDE DEF halting
  <2>1a. Typed(halting) /\ Blank(halting)
    BY <1>5, <2>1, McpAssumption DEF Typed, SameProcess, Blank, NoDeadline
  <2>2. Safe(halting, p) /\ SameProcess(c, halting)
    BY <1>5, <1>6, <2>1, <2>1a DEF Loose, Safe, Fit, Owns, SameProcess
  <2>3. Stays(c, halting)
    BY <1>11 DEF Stays, Resting, Has
  <2> HIDE DEF d
  <2>4. Safe(d, p) /\ Blank(d) /\ SameProcess(c, d) /\ Stays(c, d)
        /\ d.nextId = c.nextId
    BY <1>6, <1>11, <2>1, <2>1a, <2>2, <2>3
  <2> QED
    BY <2>4 DEF d
<1>12. CASE /\ c.state \notin {"crash_loop", "disabled"} /\ ~Has(c, "STOPPING")
            /\ ~Has(c, "MANUAL_STOP") /\ ~c.pid
            /\ d = RestartNow(failed) \/ d = ScheduleRestart(failed)
  <2>1. /\ Typed(RestartNow(failed)) /\ SameProcess(failed, RestartNow(failed))
        /\ Blank(RestartNow(failed)) /\ RestartNow(failed).flags = failed.flags
        /\ RestartNow(failed).nextId = failed.nextId
    BY <1>5, RestartNowFields DEF Blank, LiveStates
  <2>2. /\ Typed(ScheduleRestart(failed))
        /\ SameProcess(failed, ScheduleRestart(failed))
        /\ Blank(ScheduleRestart(failed))
        /\ ScheduleRestart(failed).flags = failed.flags
        /\ ScheduleRestart(failed).nextId = failed.nextId
    BY <1>5, ScheduleFields DEF Blank, LiveStates
  <2>3. Typed(d) /\ SameProcess(failed, d) /\ Blank(d) /\ d.flags = failed.flags
        /\ d.nextId = failed.nextId
    <3> HIDE DEF d
    <3> QED
      BY <1>12, <2>1, <2>2
  <2> HIDE DEF d
  <2>4. Safe(d, p) /\ SameProcess(c, d)
    BY <1>6, <1>12, <2>3 DEF Loose, Safe, Fit, Owns, SameProcess
  <2>5. Stays(c, d)
    BY <1>12 DEF Stays, Resting, Has
  <2> QED
    BY <1>6, <2>3, <2>4, <2>5 DEF d
<1> HIDE DEF d, halting
<1> QED
  BY <1>1, <1>7, <1>8, <1>10, <1>11, <1>12 DEF d

----------------------------------------------------------------------------
(* The calls.                                                               *)

\* A later set of calls: every call in it is newer than the earlier ones, or
\* is one of them with its outcome, if it had one.
Later(c, d) ==
  /\ d.nextId >= c.nextId
  /\ \A l \in d.calls :
       \/ l.id > c.nextId
       \/ \E k \in c.calls :
            k.id = l.id /\ (k.done => l.done /\ l.status = k.status)

\* A handler that left the process alone took c to d.
Handled(c, p, d) ==
  Safe(d, p) /\ SameProcess(c, d) /\ Stays(c, d) /\ Later(c, d)

LEMMA LaterSelf ==
  ASSUME NEW c, NEW d, c.nextId \in Nat, d.nextId \in Nat,
         d.calls \subseteq c.calls, d.nextId >= c.nextId
  PROVE  Later(c, d)
BY DEF Later

LEMMA HandledSelf ==
  ASSUME NEW c, NEW p, Safe(c, p)
  PROVE  Handled(c, p, c)
<1>1. c.nextId \in Nat
  BY DEF Safe, Fit, Typed
<1>2. Later(c, c)
  BY <1>1, LaterSelf
<1> QED
  BY <1>2 DEF Handled, SameProcess, Stays

LEMMA LaterTransitive ==
  ASSUME NEW c, NEW d, NEW e, Later(c, d), Later(d, e),
         c.nextId \in Nat, d.nextId \in Nat, e.nextId \in Nat,
         \A l \in e.calls : l.id \in Nat
  PROVE  Later(c, e)
<1>1. e.nextId >= c.nextId
  BY DEF Later
<1>2. ASSUME NEW l \in e.calls
      PROVE  \/ l.id > c.nextId
             \/ \E k \in c.calls :
                  k.id = l.id /\ (k.done => l.done /\ l.status = k.status)
  <2>1. CASE l.id > d.nextId
    BY <2>1 DEF Later
  <2>2. CASE \E k \in d.calls :
               k.id = l.id /\ (k.done => l.done /\ l.status = k.status)
    <3>1. PICK k \in d.calls :
               k.id = l.id /\ (k.done => l.done /\ l.status = k.status)
      BY <2>2
    <3>2. \/ k.id > c.nextId
          \/ \E j \in c.calls :
               j.id = k.id /\ (j.done => k.done /\ k.status = j.status)
      BY DEF Later
    <3> QED
      BY <3>1, <3>2
  <2> QED
    BY <2>1, <2>2 DEF Later
<1> QED
  BY <1>1, <1>2 DEF Later

\* In a child that goes with its process, calls are calls.
LEMMA SafeCalls ==
  ASSUME NEW c, NEW p, Safe(c, p)
  PROVE  /\ c.nextId \in Nat /\ Typed(c)
         /\ \A l \in c.calls : l \in Calls /\ l.id \in Nat
BY DEF Safe, Fit, Typed, Blank, Session, Tracked, Calls

LEMMA HandledTransitive ==
  ASSUME NEW c, NEW d, NEW e, NEW p, c.nextId \in Nat,
         Handled(c, p, d), Handled(d, p, e)
  PROVE  Handled(c, p, e)
<1>1. /\ d.nextId \in Nat /\ e.nextId \in Nat
      /\ \A l \in e.calls : l.id \in Nat
  BY SafeCalls DEF Handled
<1>2. Later(c, e)
  BY <1>1, LaterTransitive DEF Handled
<1> QED
  BY <1>2 DEF Handled, SameProcess, Stays

\* af_mcp_child_failed, as a handler.
LEMMA ChildFailedHandled ==
  ASSUME NEW c, NEW p, Loose(c, p), NEW why, why = "EOF" => "EOF" \in c.flags
  PROVE  Handled(c, p, ChildFailed(c, why)) /\ Blank(ChildFailed(c, why))
<1> DEFINE d == ChildFailed(c, why)
<1>1. /\ Safe(d, p) /\ Blank(d) /\ SameProcess(c, d) /\ Stays(c, d)
      /\ d.nextId = c.nextId
  BY ChildFailedSafe
<1> HIDE DEF d
<1>2. c.nextId \in Nat
  BY DEF Loose, Typed
<1>3. Later(c, d)
  BY <1>1, <1>2, LaterSelf DEF Blank
<1> QED
  BY <1>1, <1>3 DEF Handled, d

\* A handler that touches nothing but the calls.
SameButCalls(c, d) ==
  /\ SameProcess(c, d)
  /\ d.state = c.state /\ d.era = c.era /\ d.tools = c.tools
  /\ d.flags = c.flags /\ d.pipes = c.pipes

LEMMA CallsHandled ==
  ASSUME NEW c, NEW p, Safe(c, p), NEW d, Typed(d), SameButCalls(c, d),
         Later(c, d), Session(c, p) => Tracked(d, p), Blank(c) => d.calls = {}
  PROVE  Handled(c, p, d)
<1>1. Blank(d) \/ Session(d, p)
  <2>1. CASE Blank(c)
    BY <2>1 DEF Blank, SameButCalls
  <2>2. CASE Session(c, p)
    BY <2>2 DEF Session, SameButCalls, SameProcess
  <2> QED
    BY <2>1, <2>2 DEF Safe, Fit
<1>2. Safe(d, p)
  BY <1>1 DEF Safe, Fit, Owns, SameButCalls, SameProcess
<1> QED
  BY <1>2 DEF Handled, Stays, Resting, SameButCalls

\* Calls that are updated one by one, none of them wrongly to "ok".
LEMMA MappedCalls ==
  ASSUME NEW c, NEW p, Tracked(c, p), NEW g \in [c.calls -> Calls], NEW d,
         c.nextId \in Nat,
         d.calls = {g[k] : k \in c.calls},
         d.state = c.state, d.nextId = c.nextId,
         \A k \in c.calls :
           /\ g[k].id = k.id /\ g[k].kind = k.kind
           /\ k.done => g[k].done /\ g[k].status = k.status
           /\ g[k].status = "ok" =>
                \/ k.status = "ok"
                \/ /\ k.kind = "discover" => p.speaks = "modern"
                   /\ k.kind = "initialize" => p.speaks = "legacy"
  PROVE  Tracked(d, p) /\ Later(c, d)
<1>1. \A l \in d.calls : \E k \in c.calls : l = g[k]
  OBVIOUS
<1>2. d.calls \subseteq Calls
  BY <1>1
<1>3. \A k \in d.calls : k.id <= d.nextId
  BY <1>1 DEF Tracked
<1>4. ASSUME NEW k \in d.calls, NEW l \in d.calls, k.id = l.id \/ k.kind = l.kind
      PROVE  k = l
  <2>1. PICK j \in c.calls : k = g[j]
    BY <1>1
  <2>2. PICK i \in c.calls : l = g[i]
    BY <1>1
  <2>3. j.id = i.id \/ j.kind = i.kind
    BY <1>4, <2>1, <2>2
  <2>4. j = i
    BY <2>3 DEF Tracked
  <2> QED
    BY <2>1, <2>2, <2>4
<1>5. \A k, l \in d.calls : k.kind = "discover" => l.kind # "initialize"
  BY <1>1 DEF Tracked
<1>6. \A k \in d.calls :
        k.kind \in IF d.state = "probing" THEN {"discover", "initialize"}
                   ELSE ListKinds \cup {"tool_test"}
  BY <1>1 DEF Tracked
<1>7. \A k \in d.calls : k.status = "ok" =>
        /\ k.kind = "discover" => p.speaks = "modern"
        /\ k.kind = "initialize" => p.speaks = "legacy"
  BY <1>1 DEF Tracked
<1>8. Tracked(d, p)
  BY <1>2, <1>3, <1>4, <1>5, <1>6, <1>7 DEF Tracked
<1>9. Later(c, d)
  BY <1>1 DEF Later
<1> QED
  BY <1>8, <1>9

\* Some calls are released.
LEMMA FewerCalls ==
  ASSUME NEW c, NEW p, Tracked(c, p), NEW d, d.calls \subseteq c.calls,
         d.nextId >= c.nextId, c.nextId \in Nat, d.nextId \in Nat,
         d.state = c.state \/ ({c.state, d.state} \subseteq {"ready", "degraded"})
  PROVE  Tracked(d, p) /\ Later(c, d)
<1>1. \A k \in c.calls : k.id \in Nat
  BY DEF Tracked, Calls
<1>2. Tracked(d, p)
  BY <1>1 DEF Tracked
<1> QED
  BY <1>2, LaterSelf

\* A fresh call.
LEMMA NewCallFields ==
  ASSUME NEW id \in Nat \ {0}, NEW kind \in Kinds
  PROVE  LET k == NewCall(id, kind) IN
           /\ k \in Calls /\ k.id = id /\ k.kind = kind
           /\ k.status = "none" /\ ~k.done
<1> DEFINE left == IF kind \in {"discover", "initialize"} THEN StartupTimeout
                   ELSE RequestTimeout
<1>1. left \in Nat
  BY McpAssumption
<1>2. NewCall(id, kind) = [id |-> id, kind |-> kind, done |-> FALSE,
                           status |-> "none", left |-> left]
  BY DEF NewCall
<1> HIDE DEF left
<1> QED
  BY <1>1, <1>2 DEF Calls

\* af_mcp_request.
LEMMA RequestsFields ==
  ASSUME NEW c, Typed(c), NEW kind, NEW r \in Requests(c, kind)
  PROVE  /\ Typed(r.c) /\ SameButCalls(c, r.c)
         /\ \/ /\ r.ok = FALSE /\ r.c.calls = c.calls
               /\ r.c.nextId \in {c.nextId, c.nextId + 1}
            \/ /\ r.ok = TRUE /\ r.c.nextId = c.nextId + 1
               /\ r.c.calls = c.calls \cup {NewCall(c.nextId + 1, kind)}
<1> DEFINE n == c.nextId + 1
           tried(b) == [[c EXCEPT !.nextId = n] EXCEPT !.outbox = b]
           new == c.calls \cup {NewCall(n, kind)}
           sent(b) == [[[c EXCEPT !.nextId = n] EXCEPT !.calls = new]
                         EXCEPT !.outbox = b]
<1>1. [c EXCEPT !.nextId = n].nextId = n
      /\ [c EXCEPT !.nextId = n].calls = c.calls
  BY DEF Typed, IsChild, ChildFields
<1>2. \/ r = [ok |-> FALSE, c |-> c]
      \/ \E b \in BOOLEAN : r = [ok |-> FALSE, c |-> tried(b)]
      \/ \E b \in BOOLEAN : r = [ok |-> TRUE, c |-> sent(b)]
  BY <1>1 DEF Requests
<1>3. n \in Nat
  BY DEF Typed
<1> HIDE DEF n, new
<1>4. ASSUME NEW b
      PROVE  /\ IsChild(tried(b)) /\ SameButCalls(c, tried(b))
             /\ tried(b).calls = c.calls /\ tried(b).nextId = n
             /\ tried(b).backoff = c.backoff /\ tried(b).next = c.next
  BY DEF Typed, IsChild, ChildFields, SameButCalls, SameProcess
<1>5. ASSUME NEW b
      PROVE  /\ IsChild(sent(b)) /\ SameButCalls(c, sent(b))
             /\ sent(b).calls = new /\ sent(b).nextId = n
             /\ sent(b).backoff = c.backoff /\ sent(b).next = c.next
  BY DEF Typed, IsChild, ChildFields, SameButCalls, SameProcess
<1> HIDE DEF tried, sent
<1>6. ASSUME NEW b
      PROVE  Typed(tried(b)) /\ Typed(sent(b))
  BY <1>3, <1>4, <1>5 DEF Typed, SameButCalls, SameProcess
<1>7. CASE r = [ok |-> FALSE, c |-> c]
  BY <1>7 DEF SameButCalls, SameProcess
<1>8. ASSUME NEW b \in BOOLEAN, r = [ok |-> FALSE, c |-> tried(b)]
      PROVE  /\ Typed(r.c) /\ SameButCalls(c, r.c)
             /\ r.ok = FALSE /\ r.c.calls = c.calls /\ r.c.nextId = n
  BY <1>4, <1>6, <1>8
<1>9. ASSUME NEW b \in BOOLEAN, r = [ok |-> TRUE, c |-> sent(b)]
      PROVE  /\ Typed(r.c) /\ SameButCalls(c, r.c)
             /\ r.ok = TRUE /\ r.c.calls = new /\ r.c.nextId = n
  BY <1>5, <1>6, <1>9
<1> QED
  BY <1>2, <1>7, <1>8, <1>9 DEF n, new

\* One more call: its kind is new to the session and allowed in its state.
LEMMA OneMoreCall ==
  ASSUME NEW c, NEW p, Tracked(c, p), NEW kind \in Kinds, NEW d,
         c.nextId \in Nat, d.nextId = c.nextId + 1, d.state = c.state,
         d.calls = c.calls \cup {NewCall(c.nextId + 1, kind)},
         \A k \in c.calls : k.kind # kind,
         kind \in {"discover", "initialize"} => c.calls = {},
         kind \in IF c.state = "probing" THEN {"discover", "initialize"}
                  ELSE ListKinds \cup {"tool_test"}
  PROVE  Tracked(d, p) /\ Later(c, d)
<1> DEFINE n == NewCall(c.nextId + 1, kind)
<1>1. /\ n \in Calls /\ n.id = c.nextId + 1 /\ n.kind = kind
      /\ n.status = "none" /\ ~n.done
  BY NewCallFields
<1> HIDE DEF n
<1>2. d.calls = c.calls \cup {n}
  BY DEF n
<1>3. \A k \in c.calls : k.id \in Nat /\ k.id <= c.nextId
  BY DEF Tracked, Calls
<1>4. d.calls \subseteq Calls /\ \A k \in d.calls : k.id <= d.nextId
  BY <1>1, <1>2, <1>3 DEF Tracked
<1>5. \A k, l \in d.calls : k.id = l.id \/ k.kind = l.kind => k = l
  BY <1>1, <1>2, <1>3 DEF Tracked
<1>6. \A k, l \in d.calls : k.kind = "discover" => l.kind # "initialize"
  BY <1>1, <1>2 DEF Tracked
<1>7. \A k \in d.calls :
        /\ k.kind \in IF d.state = "probing" THEN {"discover", "initialize"}
                      ELSE ListKinds \cup {"tool_test"}
        /\ k.status = "ok" => /\ k.kind = "discover" => p.speaks = "modern"
                              /\ k.kind = "initialize" => p.speaks = "legacy"
  BY <1>1, <1>2 DEF Tracked
<1>8. Tracked(d, p)
  BY <1>4, <1>5, <1>6, <1>7 DEF Tracked
<1>9. Later(c, d)
  BY <1>1, <1>2 DEF Later
<1> QED
  BY <1>8, <1>9

----------------------------------------------------------------------------
(* The inventory.                                                           *)

\* The list calls of one inventory.
ListCalls(c) == {NewCall(c.nextId + i, Lists[i]) : i \in 1 .. Len(Lists)}

\* A handler that touches nothing but the calls and the inventory's flags.
SameButLists(c, d) ==
  /\ SameProcess(c, d)
  /\ d.state = c.state /\ d.era = c.era /\ d.tools = c.tools
  /\ d.pipes = c.pipes /\ d.next = c.next
  /\ d.flags \subseteq c.flags \cup {"LISTED"}
  /\ c.flags \ {"TOOLS_CURRENT"} \subseteq d.flags

\* af_mcp_begin_inventory: all of the list calls or none of them.
LEMMA InventoriesFields ==
  ASSUME NEW c, Typed(c), NEW r \in Inventories(c)
  PROVE  /\ Typed(r.c) /\ SameButLists(c, r.c) /\ r.c.nextId >= c.nextId
         /\ \/ r.ok = TRUE /\ r.c = c
            \/ /\ r.ok = FALSE /\ r.c.calls = c.calls
               /\ "TOOLS_CURRENT" \notin r.c.flags
            \/ /\ r.ok = TRUE /\ r.c.calls = c.calls \cup ListCalls(c)
               /\ r.c.nextId = c.nextId + Len(Lists)
               /\ "TOOLS_CURRENT" \notin r.c.flags
<1> DEFINE n == Len(Lists)
           flags == c.flags \ {"TOOLS_CURRENT"}
           calls == c.calls \cup ListCalls(c)
           tries == {i \in 1 .. n : i <= Free(c)}
<1>1. n \in Nat
  BY McpAssumption
<1>2. Cardinality(tries) \in Nat /\ \A i \in tries : i \in Nat
  <2>1. IsFiniteSet(1 .. n)
    BY <1>1, FS_Interval
  <2> QED
    BY <2>1, FS_Subset, FS_CardinalityType
<1>3. \/ r = [ok |-> TRUE, c |-> c]
      \/ \E i \in Nat, b \in BOOLEAN : r = [ok |-> FALSE, c |-> Begun(c, i, b)]
      \/ \E b \in BOOLEAN : r = [ok |-> TRUE, c |-> Listed(c, b)]
  <2>1. Inventories(c) =
          IF Has(c, "LISTED") THEN {[ok |-> TRUE, c |-> c]}
          ELSE {[ok |-> FALSE, c |-> Begun(c, i, b)] : i \in tries, b \in BOOLEAN}
               \cup (IF Free(c) < n
                     THEN {[ok |-> FALSE, c |-> Begun(c, Cardinality(tries), b)]
                             : b \in BOOLEAN}
                     ELSE {})
               \cup (IF Free(c) >= n /\ "stdin" \in c.pipes
                     THEN {[ok |-> TRUE, c |-> Listed(c, b)] : b \in BOOLEAN}
                     ELSE {})
    BY DEF Inventories
  <2> HIDE DEF tries, n
  <2> QED
    BY <1>2, <2>1
<1> HIDE DEF n, calls, flags
<1>4. ASSUME NEW i \in Nat, NEW b
      PROVE  LET d == Begun(c, i, b) IN
               /\ IsChild(d) /\ SameProcess(c, d)
               /\ d.state = c.state /\ d.era = c.era /\ d.tools = c.tools
               /\ d.pipes = c.pipes /\ d.next = c.next /\ d.backoff = c.backoff
               /\ d.nextId = c.nextId + i /\ d.calls = c.calls /\ d.flags = flags
  BY DEF Begun, Typed, IsChild, ChildFields, SameProcess, flags
<1>5. ASSUME NEW b
      PROVE  LET d == Listed(c, b) IN
               /\ IsChild(d) /\ SameProcess(c, d)
               /\ d.state = c.state /\ d.era = c.era /\ d.tools = c.tools
               /\ d.pipes = c.pipes /\ d.next = c.next /\ d.backoff = c.backoff
               /\ d.nextId = c.nextId + n /\ d.calls = calls
               /\ d.flags = flags \cup {"LISTED"}
  <2> DEFINE u == Begun(c, n, b)
             d == Listed(c, b)
  <2>1. /\ IsChild(u) /\ SameProcess(c, u)
        /\ u.state = c.state /\ u.era = c.era /\ u.tools = c.tools
        /\ u.pipes = c.pipes /\ u.next = c.next /\ u.backoff = c.backoff
        /\ u.nextId = c.nextId + n /\ u.calls = c.calls /\ u.flags = flags
    BY <1>1, <1>4
  <2>2. d = [u EXCEPT !.flags = u.flags \cup {"LISTED"},
                      !.calls = u.calls \cup ListCalls(c)]
    BY Zenon DEF Listed, ListCalls, n
  <2> HIDE DEF u, d
  <2>3. /\ IsChild(d) /\ SameProcess(u, d)
        /\ d.state = u.state /\ d.era = u.era /\ d.tools = u.tools
        /\ d.pipes = u.pipes /\ d.next = u.next /\ d.backoff = u.backoff
        /\ d.nextId = u.nextId /\ d.calls = u.calls \cup ListCalls(c)
        /\ d.flags = u.flags \cup {"LISTED"}
    BY <2>1, <2>2 DEF IsChild, ChildFields, SameProcess
  <2>4. SameProcess(c, d)
    BY <2>1, <2>3 DEF SameProcess
  <2> QED
    BY <2>1, <2>3, <2>4 DEF d, calls
<1>6. ASSUME NEW i \in Nat, NEW b
      PROVE  /\ Typed(Begun(c, i, b)) /\ SameButLists(c, Begun(c, i, b))
             /\ Begun(c, i, b).nextId >= c.nextId
  BY <1>4 DEF Typed, SameProcess, SameButLists, flags
<1>7. ASSUME NEW b
      PROVE  /\ Typed(Listed(c, b)) /\ SameButLists(c, Listed(c, b))
             /\ Listed(c, b).nextId >= c.nextId
             /\ "TOOLS_CURRENT" \notin Listed(c, b).flags
  BY <1>1, <1>5 DEF Typed, SameProcess, SameButLists, flags
<1>8. CASE r = [ok |-> TRUE, c |-> c]
  BY <1>8 DEF SameButLists, SameProcess, Typed
<1>9. ASSUME NEW i \in Nat, NEW b \in BOOLEAN,
             r = [ok |-> FALSE, c |-> Begun(c, i, b)]
      PROVE  /\ Typed(r.c) /\ SameButLists(c, r.c) /\ r.c.nextId >= c.nextId
             /\ r.ok = FALSE /\ r.c.calls = c.calls
             /\ "TOOLS_CURRENT" \notin r.c.flags
  BY <1>4, <1>6, <1>9 DEF flags
<1>10. ASSUME NEW b \in BOOLEAN, r = [ok |-> TRUE, c |-> Listed(c, b)]
       PROVE  /\ Typed(r.c) /\ SameButLists(c, r.c) /\ r.c.nextId >= c.nextId
              /\ r.ok = TRUE /\ r.c.calls = calls /\ r.c.nextId = c.nextId + n
              /\ "TOOLS_CURRENT" \notin r.c.flags
  BY <1>5, <1>7, <1>10
<1> QED
  BY <1>3, <1>8, <1>9, <1>10 DEF n, calls

\* The list calls, added to calls of other kinds.
LEMMA ListedCalls ==
  ASSUME NEW c, NEW p, Tracked(c, p), NEW d, c.nextId \in Nat,
         d.calls = c.calls \cup ListCalls(c),
         d.nextId = c.nextId + Len(Lists),
         \A k \in c.calls : k.kind = "tool_test",
         d.state \in {"ready", "degraded"}
  PROVE  Tracked(d, p) /\ Later(c, d)
<1> DEFINE n == Len(Lists)
           new(i) == NewCall(c.nextId + i, Lists[i])
<1>1. /\ n \in Nat
      /\ \A i \in 1 .. n : /\ Lists[i] \in {"tools", "resources", "prompts"}
                           /\ i \in Nat \ {0} /\ i <= n
      /\ \A i, j \in 1 .. n : Lists[i] = Lists[j] => i = j
      /\ DOMAIN Lists = 1 .. n
  BY McpAssumption
<1>2. ASSUME NEW i \in 1 .. n
      PROVE  /\ new(i) \in Calls /\ new(i).id = c.nextId + i
             /\ new(i).kind = Lists[i] /\ new(i).kind \in ListKinds
             /\ new(i).status = "none"
             /\ new(i).kind \in {"tools", "resources", "prompts"}
  <2>1. c.nextId + i \in Nat \ {0} /\ Lists[i] \in Kinds /\ Lists[i] \in ListKinds
    BY <1>1 DEF Kinds, ListKinds
  <2> QED
    BY <1>1, <2>1, NewCallFields
<1>3. d.calls = c.calls \cup {new(i) : i \in 1 .. n}
  BY DEF ListCalls
<1> HIDE DEF new, n
<1>4. \A k \in d.calls : k \in c.calls \/ \E i \in 1 .. n : k = new(i)
  BY <1>3
<1>5. \A k \in c.calls : k \in Calls /\ k.id \in Nat /\ k.id <= c.nextId
  BY DEF Tracked, Calls
<1>6. d.nextId = c.nextId + n
  BY DEF n
<1>7. \A k \in d.calls : k \in Calls /\ k.id <= d.nextId
  BY <1>1, <1>2, <1>4, <1>5, <1>6
<1>8. ASSUME NEW k \in d.calls, NEW l \in d.calls, k.id = l.id \/ k.kind = l.kind
      PROVE  k = l
  <2>1. CASE k \in c.calls /\ l \in c.calls
    BY <1>8, <2>1 DEF Tracked
  <2>2. ASSUME NEW j \in c.calls, NEW i \in 1 .. n
        PROVE  j.id # new(i).id /\ j.kind # new(i).kind
    BY <1>1, <1>2, <1>5
  <2>3. ASSUME NEW j \in 1 .. n, NEW i \in 1 .. n,
               new(j).id = new(i).id \/ new(j).kind = new(i).kind
        PROVE  j = i
    BY <1>1, <1>2, <2>3
  <2> QED
    BY <1>4, <1>8, <2>1, <2>2, <2>3
<1>9. \A k \in d.calls : k.kind \in ListKinds \cup {"tool_test"} /\ k.kind # "discover"
                         /\ k.kind # "initialize"
  BY <1>2, <1>4
<1>10. Tracked(d, p)
  BY <1>7, <1>8, <1>9 DEF Tracked
<1>11. Later(c, d)
  <2>1. \A k \in c.calls : \E j \in c.calls :
          j.id = k.id /\ (j.done => k.done /\ k.status = j.status)
    OBVIOUS
  <2>2. \A i \in 1 .. n : new(i).id > c.nextId
    BY <1>1, <1>2
  <2>3. d.nextId >= c.nextId
    BY <1>1, <1>6
  <2> QED
    BY <1>4, <2>1, <2>2, <2>3 DEF Later
<1> QED
  BY <1>10, <1>11

----------------------------------------------------------------------------
(* The era decision: af_mcp_advance.                                        *)

\* In a live state nothing has to be kept of a stop or a latch.
LEMMA LiveStays ==
  ASSUME NEW c, NEW d, c.state \in LiveStates
  PROVE  Stays(c, d)
BY DEF Stays, Resting, LiveStates

\* A session that is safe.
LEMMA SessionIsSafe ==
  ASSUME NEW c, NEW p, Safe(c, p), NEW d, Typed(d), SameProcess(c, d),
         d.state \in LiveStates, Session(d, p),
         d.flags \cap {"EOF", "PROCESS_FAILURE", "MANUAL_RESTART"} =
           c.flags \cap {"EOF", "PROCESS_FAILURE", "MANUAL_RESTART"},
         "RESTART_AFTER_STOP" \in d.flags => "RESTART_AFTER_STOP" \in c.flags
  PROVE  Safe(d, p)
BY DEF Safe, Fit, Owns, SameProcess, LiveStates

\* While the era is open there is at most one call.
LEMMA ProbingCalls ==
  ASSUME NEW c, NEW p, Session(c, p), c.state = "probing", NEW k \in c.calls
  PROVE  c.calls = {k}
BY DEF Session, Tracked

\* A call is released.
LEMMA ReleaseFields ==
  ASSUME NEW c, Typed(c), NEW k
  PROVE  LET d == Release(c, k) IN
           /\ Typed(d) /\ SameButCalls(c, d)
           /\ d.calls = c.calls \ {k} /\ d.nextId = c.nextId
BY DEF Release, Typed, IsChild, ChildFields, SameButCalls, SameProcess

\* The era is chosen.
LEMMA ChosenHandled ==
  ASSUME NEW c, NEW p, Safe(c, p), Session(c, p), c.state = "probing",
         NEW k \in c.calls, NEW era \in Eras, era = p.speaks,
         NEW d \in Chosen(c, k, era)
  PROVE  Handled(c, p, d)
<1> DEFINE over == Release(c, k)
           decided == [over EXCEPT !.era = era]
<1>1. /\ Typed(over) /\ SameButCalls(c, over)
      /\ over.calls = {} /\ over.nextId = c.nextId
  BY ReleaseFields, ProbingCalls DEF Safe, Fit
<1> HIDE DEF over
<1>2. /\ Typed(decided) /\ SameProcess(over, decided)
      /\ decided.era = era /\ decided.state = over.state
      /\ decided.tools = over.tools /\ decided.flags = over.flags
      /\ decided.pipes = over.pipes /\ decided.next = over.next
      /\ decided.calls = over.calls /\ decided.nextId = over.nextId
  BY <1>1 DEF Typed, IsChild, ChildFields, SameProcess
<1>3. /\ SameProcess(c, decided) /\ decided.state = "probing"
      /\ decided.flags = c.flags /\ decided.pipes = c.pipes
      /\ decided.calls = {} /\ decided.nextId = c.nextId
  BY <1>1, <1>2 DEF SameButCalls, SameProcess
<1>4. \/ d = ChildFailed(decided, "WRITE")
      \/ \E r \in Inventories(decided) :
           d = IF r.ok THEN [r.c EXCEPT !.state = "ready"]
               ELSE ChildFailed(r.c, "PROTOCOL")
  BY DEF Chosen, Failures, over
<1> HIDE DEF decided
<1>5. c.nextId \in Nat
  BY DEF Safe, Fit, Typed
<1>6. ASSUME NEW e, Typed(e), SameProcess(c, e), e.state = "probing",
             e.flags \subseteq c.flags \cup {"LISTED"},
             c.flags \ {"TOOLS_CURRENT"} \subseteq e.flags,
             e.calls = {}, e.nextId >= c.nextId, NEW why, why # "EOF"
      PROVE  Handled(c, p, ChildFailed(e, why))
  <2>1. Loose(e, p)
    BY <1>6 DEF Loose, Safe, Fit, Owns, SameProcess, Session
  <2>2. Handled(e, p, ChildFailed(e, why))
    BY <1>6, <2>1, ChildFailedHandled
  <2> DEFINE f == ChildFailed(e, why)
  <2> HIDE DEF f
  <2>3. e.nextId \in Nat /\ f.nextId \in Nat /\ \A l \in f.calls : l.id \in Nat
    BY <1>6, <2>2, SafeCalls DEF Typed, Handled, f
  <2>4. Later(c, e)
    BY <1>5, <1>6, <2>3, LaterSelf
  <2>5. Later(c, f)
    BY <1>5, <2>2, <2>3, <2>4, LaterTransitive DEF Handled, f
  <2>6. Stays(c, f)
    BY LiveStays DEF LiveStates
  <2>7. Safe(f, p) /\ SameProcess(c, f)
    BY <1>6, <2>2 DEF Handled, SameProcess, f
  <2> QED
    BY <2>5, <2>6, <2>7 DEF Handled, f
<1>7. CASE d = ChildFailed(decided, "WRITE")
  <2>1. decided.nextId >= c.nextId /\ Typed(decided)
    BY <1>2, <1>3, <1>5
  <2> QED
    BY <1>3, <1>6, <1>7, <2>1
<1>8. ASSUME NEW r \in Inventories(decided),
             d = IF r.ok THEN [r.c EXCEPT !.state = "ready"]
                 ELSE ChildFailed(r.c, "PROTOCOL")
      PROVE  Handled(c, p, d)
  <2>1. /\ Typed(r.c) /\ SameButLists(decided, r.c)
        /\ r.c.nextId >= decided.nextId
        /\ \/ r.ok = TRUE /\ r.c = decided
           \/ /\ r.ok = FALSE /\ r.c.calls = decided.calls
              /\ "TOOLS_CURRENT" \notin r.c.flags
           \/ /\ r.ok = TRUE /\ r.c.calls = decided.calls \cup ListCalls(decided)
              /\ r.c.nextId = decided.nextId + Len(Lists)
              /\ "TOOLS_CURRENT" \notin r.c.flags
    BY <1>2, InventoriesFields
  <2>2. /\ SameProcess(c, r.c) /\ r.c.state = "probing" /\ r.c.era = era
        /\ r.c.flags \subseteq c.flags \cup {"LISTED"}
        /\ c.flags \ {"TOOLS_CURRENT"} \subseteq r.c.flags
        /\ r.c.pipes = c.pipes /\ r.c.nextId >= c.nextId
    BY <1>2, <1>3, <2>1 DEF SameButLists, SameProcess
  <2>3. CASE r.ok = FALSE
    BY <1>3, <1>6, <1>8, <2>1, <2>2, <2>3
  <2>4. CASE r.ok = TRUE
    <3>1. d = [r.c EXCEPT !.state = "ready"]
      BY <1>8, <2>4
    <3>2. /\ Typed(d) /\ SameProcess(r.c, d) /\ d.state = "ready"
          /\ d.era = r.c.era /\ d.flags = r.c.flags /\ d.pipes = r.c.pipes
          /\ d.calls = r.c.calls /\ d.nextId = r.c.nextId
      BY <2>1, <3>1 DEF Typed, IsChild, ChildFields, SameProcess
    <3>3. "TOOLS_CURRENT" \notin d.flags
      BY <1>3, <2>1, <2>4, <3>2 DEF Session
    <3>4. Tracked(decided, p)
      BY <1>3 DEF Tracked
    <3>5. Tracked(d, p) /\ Later(decided, d)
      <4>1. CASE r.c = decided
        <5>1. d.calls = {} /\ d.nextId = decided.nextId
          BY <1>3, <3>2, <4>1
        <5> QED
          BY <1>3, <1>5, <5>1, LaterSelf DEF Tracked
      <4>2. CASE r.c.calls = decided.calls \cup ListCalls(decided)
                 /\ r.c.nextId = decided.nextId + Len(Lists)
        <5>1. /\ d.calls = decided.calls \cup ListCalls(decided)
              /\ d.nextId = decided.nextId + Len(Lists)
              /\ decided.nextId \in Nat /\ \A j \in decided.calls : j.kind = "tool_test"
              /\ d.state \in {"ready", "degraded"}
          BY <1>3, <1>5, <3>2, <4>2
        <5> QED
          BY <3>4, <5>1, ListedCalls
      <4> QED
        BY <2>1, <2>4, <4>1, <4>2
    <3>6. Later(c, d)
      BY <1>3, <3>5 DEF Later
    <3>7. Session(d, p) /\ SameProcess(c, d)
      BY <2>2, <3>2, <3>3, <3>5 DEF Session, SameProcess
    <3>8. Safe(d, p)
      <4>1. d.flags \subseteq c.flags \cup {"LISTED"}
            /\ c.flags \ {"TOOLS_CURRENT"} \subseteq d.flags
        BY <2>2, <3>2
      <4> QED
        BY <3>2, <3>7, <4>1, SessionIsSafe DEF LiveStates
    <3>9. Stays(c, d)
      BY LiveStays DEF LiveStates
    <3> QED
      BY <3>6, <3>7, <3>8, <3>9 DEF Handled
  <2> QED
    BY <2>1, <2>3, <2>4
<1> QED
  BY <1>4, <1>7, <1>8

\* A failure in the middle of the decision.
LEMMA ProbeFails ==
  ASSUME NEW c, NEW p, Safe(c, p), Session(c, p), c.state = "probing",
         NEW e, Typed(e), SameProcess(c, e), e.state = "probing",
         c.flags \subseteq e.flags, e.flags \subseteq c.flags \cup {"LEGACY_NEXT"},
         e.calls \subseteq c.calls, e.nextId >= c.nextId, NEW why, why # "EOF"
  PROVE  Handled(c, p, ChildFailed(e, why))
<1>1. c.nextId \in Nat /\ e.nextId \in Nat
  BY DEF Safe, Fit, Typed
<1>2. Loose(e, p)
  BY DEF Loose, Safe, Fit, Owns, SameProcess, Session
<1> DEFINE f == ChildFailed(e, why)
<1>3. Handled(e, p, f)
  BY <1>2, ChildFailedHandled
<1> HIDE DEF f
<1>4. f.nextId \in Nat /\ \A l \in f.calls : l.id \in Nat
  BY <1>3, SafeCalls DEF Handled
<1>5. Later(c, e)
  BY <1>1, LaterSelf
<1>6. Later(c, f)
  BY <1>1, <1>3, <1>4, <1>5, LaterTransitive DEF Handled
<1>7. Stays(c, f)
  BY LiveStays DEF LiveStates
<1>8. Safe(f, p) /\ SameProcess(c, f)
  BY <1>3 DEF Handled, SameProcess
<1> QED
  BY <1>6, <1>7, <1>8 DEF Handled, f

\* The modern probe is over.
LEMMA AfterDiscoverHandled ==
  ASSUME NEW c, NEW p, Safe(c, p), Session(c, p), c.state = "probing",
         NEW k \in c.calls, k.kind = "discover", NEW d \in AfterDiscover(c, k)
  PROVE  Handled(c, p, d)
<1> DEFINE over == Release(c, k)
           late == [over EXCEPT !.flags = @ \cup {"LEGACY_NEXT"}]
<1>1. /\ Typed(over) /\ SameButCalls(c, over)
      /\ over.calls = {} /\ over.nextId = c.nextId
  BY ReleaseFields, ProbingCalls DEF Safe, Fit
<1>2. c.nextId \in Nat
  BY DEF Safe, Fit, Typed
<1>3. \/ k.status = "ok" /\ d \in Chosen(c, k, "modern")
      \/ d = ChildFailed(over, "ERA")
      \/ d = ChildFailed(late, "TIMEOUT")
      \/ \E r \in Requests(over, "initialize") :
           d = IF r.ok THEN r.c ELSE ChildFailed(r.c, "PROTOCOL")
  BY DEF AfterDiscover, Failures
<1> HIDE DEF over
<1>4. /\ SameProcess(c, over) /\ over.state = "probing" /\ over.flags = c.flags
      /\ over.era = c.era /\ over.tools = c.tools /\ over.pipes = c.pipes
  BY <1>1 DEF SameButCalls
<1>5. CASE k.status = "ok" /\ d \in Chosen(c, k, "modern")
  <2>1. p.speaks = "modern"
    BY <1>5 DEF Session, Tracked
  <2> QED
    BY <1>5, <2>1, ChosenHandled DEF Eras
<1>6. CASE d = ChildFailed(over, "ERA")
  <2>1. over.nextId >= c.nextId
    BY <1>1, <1>2
  <2> QED
    BY <1>1, <1>4, <1>6, <2>1, ProbeFails
<1>7. CASE d = ChildFailed(late, "TIMEOUT")
  <2>1. /\ Typed(late) /\ SameProcess(over, late) /\ late.state = over.state
        /\ late.flags = over.flags \cup {"LEGACY_NEXT"}
        /\ late.calls = over.calls /\ late.nextId = over.nextId
    BY <1>1 DEF Typed, IsChild, ChildFields, SameProcess
  <2> HIDE DEF late
  <2>2. SameProcess(c, late) /\ late.nextId >= c.nextId
    BY <1>1, <1>2, <1>4, <2>1 DEF SameProcess
  <2> QED
    BY <1>1, <1>4, <1>7, <2>1, <2>2, ProbeFails
<1>8. ASSUME NEW r \in Requests(over, "initialize"),
             d = IF r.ok THEN r.c ELSE ChildFailed(r.c, "PROTOCOL")
      PROVE  Handled(c, p, d)
  <2>1. /\ Typed(r.c) /\ SameButCalls(over, r.c)
        /\ \/ /\ r.ok = FALSE /\ r.c.calls = over.calls
              /\ r.c.nextId \in {over.nextId, over.nextId + 1}
           \/ /\ r.ok = TRUE /\ r.c.nextId = over.nextId + 1
              /\ r.c.calls = over.calls \cup {NewCall(over.nextId + 1, "initialize")}
    BY <1>1, RequestsFields
  <2>2. /\ SameProcess(c, r.c) /\ r.c.state = "probing" /\ r.c.flags = c.flags
        /\ r.c.era = c.era /\ r.c.tools = c.tools /\ r.c.pipes = c.pipes
        /\ r.c.nextId >= c.nextId
    BY <1>1, <1>2, <1>4, <2>1 DEF SameButCalls, SameProcess
  <2>3. CASE r.ok = FALSE
    <3>1. r.c.calls \subseteq c.calls
      BY <1>1, <2>1, <2>3
    <3>2. d = ChildFailed(r.c, "PROTOCOL")
      BY <1>8, <2>3
    <3> QED
      BY <2>1, <2>2, <3>1, <3>2, ProbeFails
  <2>4. CASE r.ok = TRUE
    <3>1. d = r.c
      BY <1>8, <2>4
    <3>2. Tracked(over, p)
      BY <1>1 DEF Tracked
    <3>3. Tracked(d, p) /\ Later(over, d)
      <4>1. /\ d.nextId = over.nextId + 1 /\ d.state = over.state
            /\ d.calls = over.calls \cup {NewCall(over.nextId + 1, "initialize")}
            /\ over.nextId \in Nat /\ over.calls = {} /\ over.state = "probing"
        BY <1>1, <1>2, <1>4, <2>1, <2>2, <2>4, <3>1
      <4>2. "initialize" \in Kinds
        BY DEF Kinds
      <4> QED
        BY <3>2, <4>1, <4>2, OneMoreCall
    <3>4. Later(c, d)
      BY <1>1, <3>3 DEF Later
    <3>5. Session(d, p)
      BY <2>2, <3>1, <3>3 DEF Session, SameProcess
    <3>6. Safe(d, p)
      BY <2>1, <2>2, <3>1, <3>5, SessionIsSafe DEF LiveStates
    <3>7. Stays(c, d)
      BY LiveStays DEF LiveStates
    <3> QED
      BY <2>2, <3>1, <3>4, <3>6, <3>7 DEF Handled
  <2> QED
    BY <2>1, <2>3, <2>4
<1> QED
  BY <1>3, <1>5, <1>6, <1>7, <1>8

\* Legacy initialize is over.
LEMMA AfterInitializeHandled ==
  ASSUME NEW c, NEW p, Safe(c, p), Session(c, p), c.state = "probing",
         NEW k \in c.calls, k.kind = "initialize", NEW d \in AfterInitialize(c, k)
  PROVE  Handled(c, p, d)
<1> DEFINE over == Release(c, k)
<1>1. /\ Typed(over) /\ SameButCalls(c, over)
      /\ over.calls = c.calls \ {k} /\ over.nextId = c.nextId
  BY ReleaseFields DEF Safe, Fit
<1>2. c.nextId \in Nat
  BY DEF Safe, Fit, Typed
<1>3. CASE k.status = "ok"
  <2>1. p.speaks = "legacy"
    BY <1>3 DEF Session, Tracked
  <2>2. d \in Chosen(c, k, "legacy")
    BY <1>3 DEF AfterInitialize
  <2> QED
    BY <2>1, <2>2, ChosenHandled DEF Eras
<1>4. CASE k.status # "ok"
  <2>1. d = ChildFailed(over, "VERSION")
    BY <1>4 DEF AfterInitialize, Failures
  <2> HIDE DEF over
  <2>2. /\ SameProcess(c, over) /\ over.state = "probing" /\ over.flags = c.flags
        /\ over.calls \subseteq c.calls /\ over.nextId >= c.nextId
    BY <1>1, <1>2 DEF SameButCalls
  <2> QED
    BY <1>1, <2>1, <2>2, ProbeFails
<1> QED
  BY <1>3, <1>4

\* .probing.
LEMMA ProbeHandled ==
  ASSUME NEW c, NEW p, Safe(c, p), Session(c, p), c.state = "probing",
         NEW d \in Probe(c)
  PROVE  Handled(c, p, d)
<1> DEFINE waiting == IF CallsOf(c, "discover") # {} THEN CallsOf(c, "discover")
                      ELSE CallsOf(c, "initialize")
           k == CHOOSE k \in waiting : TRUE
<1>1. CASE waiting = {}
  <2>1. d = ChildFailed(c, "PROTOCOL")
    BY <1>1 DEF Probe, Failures
  <2>2. Typed(c) /\ SameProcess(c, c) /\ c.nextId >= c.nextId
    BY DEF Safe, Fit, Typed, SameProcess
  <2> QED
    BY <2>1, <2>2, ProbeFails
<1>2. CASE waiting # {}
  <2>1. k \in waiting
    BY <1>2
  <2>2. \/ d = c
        \/ k.kind = "discover" /\ d \in AfterDiscover(c, k)
        \/ k.kind # "discover" /\ d \in AfterInitialize(c, k)
    BY <1>2 DEF Probe
  <2> HIDE DEF k
  <2>3. k \in c.calls /\ k.kind \in {"discover", "initialize"}
    BY <2>1 DEF CallsOf
  <2> HIDE DEF waiting
  <2>4. CASE d = c
    BY <2>4, HandledSelf
  <2>5. CASE k.kind = "discover" /\ d \in AfterDiscover(c, k)
    BY <2>3, <2>5, AfterDiscoverHandled
  <2>6. CASE k.kind # "discover" /\ d \in AfterInitialize(c, k)
    BY <2>3, <2>6, AfterInitializeHandled
  <2> QED
    BY <2>2, <2>4, <2>5, <2>6
<1> QED
  BY <1>1, <1>2

\* af_mcp_collect_list.
LEMMA CollectHandled ==
  ASSUME NEW c, NEW p, Safe(c, p), Session(c, p),
         c.state \in {"ready", "degraded"}
  PROVE  Handled(c, p, Collect(c))
<1> DEFINE got == {k \in c.calls : k.done /\ k.kind \in {Lists[i] : i \in DOMAIN Lists}}
           tools == {k \in got : k.kind = "tools"}
           rest == [c EXCEPT !.calls = @ \ got]
           good == [rest EXCEPT !.tools = TRUE, !.state = "ready",
                                !.flags = @ \cup {"TOOLS_CURRENT"}]
           bad == [rest EXCEPT !.state = "degraded", !.flags = @ \ {"TOOLS_CURRENT"}]
           d == Collect(c)
<1>1. d = rest \/ d = good \/ d = bad
  BY DEF Collect
<1>2. got \subseteq c.calls /\ Typed(c) /\ c.nextId \in Nat
  BY DEF Safe, Fit, Typed
<1> HIDE DEF got
<1>3. /\ Typed(rest) /\ SameButCalls(c, rest) /\ rest.calls = c.calls \ got
      /\ rest.nextId = c.nextId
  BY <1>2 DEF Typed, IsChild, ChildFields, SameButCalls, SameProcess
<1> HIDE DEF rest
<1>4. /\ Typed(good) /\ SameProcess(rest, good) /\ good.calls = rest.calls
      /\ good.nextId = rest.nextId /\ good.state = "ready" /\ good.tools = TRUE
      /\ good.era = rest.era /\ good.pipes = rest.pipes
      /\ good.flags = rest.flags \cup {"TOOLS_CURRENT"}
  BY <1>3 DEF Typed, IsChild, ChildFields, SameProcess
<1>5. /\ Typed(bad) /\ SameProcess(rest, bad) /\ bad.calls = rest.calls
      /\ bad.nextId = rest.nextId /\ bad.state = "degraded"
      /\ bad.era = rest.era /\ bad.pipes = rest.pipes
      /\ bad.flags = rest.flags \ {"TOOLS_CURRENT"}
  BY <1>3 DEF Typed, IsChild, ChildFields, SameProcess
<1> HIDE DEF good, bad, d
<1>6. /\ Typed(d) /\ SameProcess(c, d) /\ d.calls \subseteq c.calls
      /\ d.nextId = c.nextId /\ d.state \in {"ready", "degraded"}
      /\ d.era = c.era /\ d.pipes = c.pipes
      /\ d.flags \ {"TOOLS_CURRENT"} = c.flags \ {"TOOLS_CURRENT"}
      /\ "TOOLS_CURRENT" \in d.flags => d.tools /\ d.state = "ready"
  <2>1. CASE d = rest
    BY <1>3, <2>1 DEF SameButCalls, Session
  <2>2. CASE d = good
    BY <1>3, <1>4, <2>2 DEF SameButCalls, SameProcess
  <2>3. CASE d = bad
    BY <1>3, <1>5, <2>3 DEF SameButCalls, SameProcess
  <2> QED
    BY <1>1, <2>1, <2>2, <2>3
<1>7. Tracked(d, p) /\ Later(c, d)
  <2>1. Tracked(c, p)
    BY DEF Session
  <2>2. d.state = c.state \/ {c.state, d.state} \subseteq {"ready", "degraded"}
    BY <1>6
  <2>3. d.nextId \in Nat /\ d.nextId >= c.nextId
    BY <1>2, <1>6
  <2> QED
    BY <1>2, <1>6, <2>1, <2>2, <2>3, FewerCalls
<1>8. /\ "STOPPING" \in d.flags <=> "STOPPING" \in c.flags
      /\ "LEGACY_NEXT" \in d.flags <=> "LEGACY_NEXT" \in c.flags
      /\ "RESTART_AFTER_STOP" \in d.flags <=> "RESTART_AFTER_STOP" \in c.flags
      /\ d.flags \cap {"EOF", "PROCESS_FAILURE", "MANUAL_RESTART"} =
           c.flags \cap {"EOF", "PROCESS_FAILURE", "MANUAL_RESTART"}
  BY <1>6
<1>9. Session(d, p)
  <2>1. d.pid /\ "stdin" \in d.pipes /\ d.era \in Eras /\ d.era = p.speaks
    BY <1>6 DEF Session, SameProcess
  <2> QED
    BY <1>6, <1>7, <1>8, <2>1 DEF Session
<1>10. Safe(d, p)
  BY <1>6, <1>8, <1>9, SessionIsSafe DEF LiveStates
<1>11. Stays(c, d)
  BY LiveStays DEF LiveStates
<1> QED
  BY <1>6, <1>7, <1>10, <1>11 DEF Handled, d

\* af_mcp_advance.
LEMMA AdvanceHandled ==
  ASSUME NEW c, NEW p, Safe(c, p), NEW d \in Advance(c)
  PROVE  Handled(c, p, d)
<1>1. c.state \in LiveStates => Session(c, p)
  BY DEF Safe, Fit, Blank
<1>2. CASE c.state = "probing"
  BY <1>1, <1>2, ProbeHandled DEF Advance, LiveStates
<1>3. CASE c.state \in {"ready", "degraded"}
  BY <1>1, <1>3, CollectHandled DEF Advance, LiveStates
<1>4. CASE c.state \notin LiveStates
  BY <1>4, HandledSelf DEF Advance, LiveStates
<1> QED
  BY <1>2, <1>3, <1>4 DEF LiveStates


----------------------------------------------------------------------------
(* The handlers that leave the process alone.                               *)

\* Calls that are updated one by one in a child that goes with its process.
LEMMA UpdateHandled ==
  ASSUME NEW c, NEW p, Safe(c, p), NEW d, Typed(d), SameButCalls(c, d),
         d.nextId = c.nextId, NEW g \in [c.calls -> Calls],
         d.calls = {g[k] : k \in c.calls},
         \A k \in c.calls :
           /\ g[k].id = k.id /\ g[k].kind = k.kind
           /\ k.done => g[k].done /\ g[k].status = k.status
           /\ g[k].status = "ok" =>
                \/ k.status = "ok"
                \/ /\ k.kind = "discover" => p.speaks = "modern"
                   /\ k.kind = "initialize" => p.speaks = "legacy"
  PROVE  Handled(c, p, d)
<1>1. c.nextId \in Nat /\ d.state = c.state
  BY SafeCalls DEF SameButCalls
<1>2. CASE Session(c, p)
  <2>1. Tracked(c, p)
    BY <1>2 DEF Session
  <2>2. Tracked(d, p) /\ Later(c, d)
    BY <1>1, <2>1, MappedCalls
  <2>3. ~Blank(c)
    BY <1>2 DEF Session, Blank, LiveStates
  <2> QED
    BY <2>2, <2>3, CallsHandled
<1>3. CASE ~Session(c, p)
  <2>1. Blank(c)
    BY <1>3 DEF Safe, Fit
  <2>2. d.calls = {}
    BY <2>1 DEF Blank
  <2>3. Later(c, d)
    BY <1>1, <2>2, LaterSelf
  <2> QED
    BY <1>3, <2>2, <2>3, CallsHandled
<1> QED
  BY <1>2, <1>3

\* The calls whose time is over are retired.
LEMMA RetiredHandled ==
  ASSUME NEW c, NEW p, Safe(c, p)
  PROVE  Handled(c, p, Retired(c))
<1> DEFINE d == Retired(c)
           g == [k \in c.calls |->
                  IF k \in Expired(c) THEN [k EXCEPT !.done = TRUE, !.status = "timeout"]
                  ELSE k]
           calls == {g[k] : k \in c.calls}
<1>1. \A k \in c.calls : k \in Calls
  BY SafeCalls
<1>2. Typed(c)
  BY SafeCalls
<1>3. \A k \in Expired(c) : ~k.done
  BY DEF Expired
<1>4. d = [c EXCEPT !.calls = calls]
  <2>1. calls = {IF k \in Expired(c)
                 THEN [k EXCEPT !.done = TRUE, !.status = "timeout"]
                 ELSE k : k \in c.calls}
    OBVIOUS
  <2> QED
    BY <2>1, Zenon DEF Retired
<1> HIDE DEF calls, d
<1>5. /\ Typed(d) /\ SameButCalls(c, d) /\ d.nextId = c.nextId /\ d.calls = calls
  BY <1>2, <1>4 DEF Typed, IsChild, ChildFields, SameButCalls, SameProcess
<1>6. g \in [c.calls -> Calls]
  BY <1>1 DEF Calls
<1>7. \A k \in c.calls :
        /\ g[k].id = k.id /\ g[k].kind = k.kind
        /\ k.done => g[k].done /\ g[k].status = k.status
        /\ g[k].status = "ok" => k.status = "ok"
  BY <1>1, <1>3 DEF Calls
<1> HIDE DEF g
<1> QED
  BY <1>5, <1>6, <1>7, UpdateHandled DEF calls, d

\* A response is matched: af_mcp_on_message.
LEMMA AnsweredHandled ==
  ASSUME NEW c, NEW p, Safe(c, p), NEW q \in c.calls,
         NEW st \in {"refused", "ok"},
         st = "ok" => /\ q.kind = "discover" => p.speaks = "modern"
                      /\ q.kind = "initialize" => p.speaks = "legacy"
  PROVE  Handled(c, p, Answered(c, q.id, st))
<1> DEFINE d == Answered(c, q.id, st)
           g == [k \in c.calls |->
                  IF k.id = q.id /\ ~k.done THEN [k EXCEPT !.done = TRUE, !.status = st]
                  ELSE k]
           calls == {g[k] : k \in c.calls}
<1>1. \A k \in c.calls : k \in Calls
  BY SafeCalls
<1>2. Typed(c)
  BY SafeCalls
<1>3. \A k \in c.calls : k.id = q.id => k = q
  BY DEF Safe, Fit, Blank, Session, Tracked
<1>4. d = [c EXCEPT !.calls = calls]
  <2>1. calls = {IF k.id = q.id /\ ~k.done
                 THEN [k EXCEPT !.done = TRUE, !.status = st]
                 ELSE k : k \in c.calls}
    OBVIOUS
  <2> QED
    BY <2>1, Zenon DEF Answered
<1> HIDE DEF calls, d
<1>5. /\ Typed(d) /\ SameButCalls(c, d) /\ d.nextId = c.nextId /\ d.calls = calls
  BY <1>2, <1>4 DEF Typed, IsChild, ChildFields, SameButCalls, SameProcess
<1>6. g \in [c.calls -> Calls]
  <2>1. st \in {"none", "ok", "refused", "timeout"}
    OBVIOUS
  <2>2. \A k \in Calls : [k EXCEPT !.done = TRUE, !.status = st] \in Calls
    BY <2>1 DEF Calls
  <2> QED
    BY <1>1, <2>2
<1>7. \A k \in c.calls :
        /\ g[k].id = k.id /\ g[k].kind = k.kind
        /\ k.done => g[k].done /\ g[k].status = k.status
        /\ g[k].status = "ok" =>
             \/ k.status = "ok"
             \/ /\ k.kind = "discover" => p.speaks = "modern"
                /\ k.kind = "initialize" => p.speaks = "legacy"
  BY <1>1, <1>3 DEF Calls
<1> HIDE DEF g
<1> QED
  BY <1>5, <1>6, <1>7, UpdateHandled DEF calls, d

\* Time passes.
LEMMA ElapseHandled ==
  ASSUME NEW c, NEW p, Safe(c, p)
  PROVE  LET d == Elapse(c) IN
           /\ Handled(c, p, d) /\ d.flags = c.flags /\ d.state = c.state
           /\ d.next = IF c.next > 0 THEN c.next - 1 ELSE c.next
<1> DEFINE d == Elapse(c)
           g == [k \in c.calls |-> [k EXCEPT !.left = IF @ > 0 THEN @ - 1 ELSE 0]]
           calls == {g[k] : k \in c.calls}
           h == [i \in DOMAIN c.history |->
                  IF c.history[i] <= Window THEN c.history[i] + 1 ELSE c.history[i]]
           n == IF c.next > 0 THEN c.next - 1 ELSE c.next
<1>1. \A k \in c.calls : k \in Calls
  BY SafeCalls
<1>2. Typed(c)
  BY SafeCalls
<1>3. n \in Int /\ n >= NoDeadline
  BY <1>2 DEF Typed, NoDeadline
<1>4. d = [c EXCEPT !.next = n, !.history = h, !.calls = calls]
  <2>1. calls = {[k EXCEPT !.left = IF @ > 0 THEN @ - 1 ELSE 0] : k \in c.calls}
    OBVIOUS
  <2> HIDE DEF calls
  <2> QED
    BY <2>1, Zenon DEF Elapse
<1> HIDE DEF calls, d, h, n
<1>5. /\ IsChild(d) /\ SameButCalls(c, d) /\ d.nextId = c.nextId /\ d.calls = calls
      /\ d.next = n /\ d.backoff = c.backoff
  BY <1>2, <1>4 DEF Typed, IsChild, ChildFields, SameButCalls, SameProcess
<1>6. Typed(d)
  BY <1>2, <1>3, <1>5 DEF Typed, SameButCalls, SameProcess
<1>7. g \in [c.calls -> Calls]
  BY <1>1 DEF Calls
<1>8. \A k \in c.calls :
        /\ g[k].id = k.id /\ g[k].kind = k.kind
        /\ k.done => g[k].done /\ g[k].status = k.status
        /\ g[k].status = "ok" => k.status = "ok"
  BY <1>1 DEF Calls
<1> HIDE DEF g
<1>9. Handled(c, p, d)
  BY <1>5, <1>6, <1>7, <1>8, UpdateHandled DEF calls
<1> QED
  BY <1>5, <1>9 DEF SameButCalls, d, n

\* A handler that at most closes a pipe other than stdin, or notes its end.
LEMMA RestHandled ==
  ASSUME NEW c, NEW p, Safe(c, p), NEW d, Typed(d), SameProcess(c, d),
         d.state = c.state, d.era = c.era, d.tools = c.tools,
         d.calls = c.calls, d.nextId = c.nextId,
         "stdin" \in c.pipes => "stdin" \in d.pipes,
         c.flags \subseteq d.flags, d.flags \subseteq c.flags \cup {"EOF"}
  PROVE  Handled(c, p, d)
<1>1. Later(c, d)
  <2>1. c.nextId \in Nat
    BY SafeCalls
  <2> QED
    BY <2>1, LaterSelf
<1>2. Tracked(c, p) => Tracked(d, p)
  BY DEF Tracked
<1>3. Blank(d) \/ Session(d, p)
  BY <1>2 DEF Safe, Fit, Blank, Session, SameProcess
<1>4. Safe(d, p)
  BY <1>3 DEF Safe, Fit, Owns, SameProcess
<1>5. Stays(c, d)
  BY DEF Stays, Resting
<1> QED
  BY <1>1, <1>4, <1>5 DEF Handled

\* What waits in the outbox matters to nothing else.
LEMMA OutboxHandled ==
  ASSUME NEW c, NEW p, Safe(c, p), NEW b
  PROVE  Handled(c, p, [c EXCEPT !.outbox = b])
<1> DEFINE d == [c EXCEPT !.outbox = b]
<1>1. Typed(c)
  BY SafeCalls
<1>2. /\ Typed(d) /\ SameProcess(c, d)
      /\ d.state = c.state /\ d.era = c.era /\ d.tools = c.tools
      /\ d.calls = c.calls /\ d.nextId = c.nextId
      /\ d.pipes = c.pipes /\ d.flags = c.flags
  BY <1>1 DEF Typed, IsChild, ChildFields, SameProcess
<1> HIDE DEF d
<1>3. Handled(c, p, d)
  BY <1>2, RestHandled
<1> QED
  BY <1>3 DEF d

\* af_mcp_drop_pipe_source, with or without the end of the stream.
LEMMA DropHandled ==
  ASSUME NEW c, NEW p, Safe(c, p), NEW pipe, pipe # "stdin"
  PROVE  /\ Handled(c, p, DropPipe(c, pipe))
         /\ LET e == DropPipe([c EXCEPT !.flags = @ \cup {"EOF"}], pipe)
            IN  Handled(c, p, e) /\ "EOF" \in e.flags
<1> DEFINE d == DropPipe(c, pipe)
           f == [c EXCEPT !.flags = @ \cup {"EOF"}]
           e == DropPipe(f, pipe)
<1>1. Typed(c)
  BY SafeCalls
<1>2. /\ Typed(d) /\ SameProcess(c, d)
      /\ d.state = c.state /\ d.era = c.era /\ d.tools = c.tools
      /\ d.calls = c.calls /\ d.nextId = c.nextId
      /\ d.pipes = c.pipes \ {pipe} /\ d.flags = c.flags
  BY <1>1 DEF DropPipe, Typed, IsChild, ChildFields, SameProcess
<1> HIDE DEF d
<1>3. Handled(c, p, d)
  BY <1>2, RestHandled
<1>4. /\ Typed(f) /\ SameProcess(c, f)
      /\ f.state = c.state /\ f.era = c.era /\ f.tools = c.tools
      /\ f.calls = c.calls /\ f.nextId = c.nextId
      /\ f.pipes = c.pipes /\ f.flags = c.flags \cup {"EOF"}
  BY <1>1 DEF Typed, IsChild, ChildFields, SameProcess
<1> HIDE DEF f
<1>5. /\ Typed(e) /\ SameProcess(f, e)
      /\ e.state = f.state /\ e.era = f.era /\ e.tools = f.tools
      /\ e.calls = f.calls /\ e.nextId = f.nextId
      /\ e.pipes = f.pipes \ {pipe} /\ e.flags = f.flags
  BY <1>4 DEF DropPipe, Typed, IsChild, ChildFields, SameProcess
<1> HIDE DEF e
<1>6. SameProcess(c, e)
  BY <1>4, <1>5 DEF SameProcess
<1>7. Handled(c, p, e) /\ "EOF" \in e.flags
  BY <1>4, <1>5, <1>6, RestHandled
<1> QED
  BY <1>3, <1>7 DEF d, e, f

\* A failure after another handler.
LEMMA FailedHandled ==
  ASSUME NEW c, NEW p, c.nextId \in Nat, NEW d, Handled(c, p, d), NEW why,
         why = "EOF" => "EOF" \in d.flags
  PROVE  Handled(c, p, ChildFailed(d, why))
<1>1. Loose(d, p)
  BY SafeIsLoose DEF Handled
<1>2. Handled(d, p, ChildFailed(d, why))
  BY <1>1, ChildFailedHandled
<1> QED
  BY <1>2, HandledTransitive

\* af_mcp_sweep_calls.
LEMMA SweptCallsHandled ==
  ASSUME NEW c, NEW p, Safe(c, p), NEW r \in SweptCalls(c)
  PROVE  Handled(c, p, r.c)
<1> DEFINE d == Retired(c)
<1>1. c.nextId \in Nat
  BY SafeCalls
<1>2. Handled(c, p, d)
  BY RetiredHandled
<1>3. \/ r.c = d
      \/ \E b \in BOOLEAN : r.c = [d EXCEPT !.outbox = b]
      \/ r.c = ChildFailed(d, "WRITE")
  BY DEF SweptCalls
<1> HIDE DEF d
<1>4. ASSUME NEW b \in BOOLEAN
      PROVE  Handled(c, p, [d EXCEPT !.outbox = b])
  <2>1. Handled(d, p, [d EXCEPT !.outbox = b])
    BY <1>2, OutboxHandled DEF Handled
  <2> QED
    BY <1>1, <1>2, <2>1, HandledTransitive
<1>5. Handled(c, p, ChildFailed(d, "WRITE"))
  BY <1>1, <1>2, FailedHandled
<1> QED
  BY <1>2, <1>3, <1>4, <1>5

\* What stdin did not take.
LEMMA SweepOutboxHandled ==
  ASSUME NEW c, NEW p, Safe(c, p), NEW d \in SweepOutbox(c)
  PROVE  Handled(c, p, d)
<1>1. c.nextId \in Nat
  BY SafeCalls
<1>2. Handled(c, p, c) /\ Handled(c, p, [c EXCEPT !.outbox = FALSE])
  BY HandledSelf, OutboxHandled
<1>3. Handled(c, p, ChildFailed(c, "WRITE"))
  BY <1>1, <1>2, FailedHandled
<1> QED
  BY <1>2, <1>3 DEF SweepOutbox

\* The calls and then the decision.
LEMMA SweepSessionHandled ==
  ASSUME NEW c, NEW p, Safe(c, p), NEW d \in SweepSession(c)
  PROVE  Handled(c, p, d)
<1>1. PICK r \in SweptCalls(c) : d \in IF r.ok THEN Advance(r.c) ELSE {r.c}
  BY DEF SweepSession
<1>2. Handled(c, p, r.c) /\ c.nextId \in Nat
  BY SweptCallsHandled, SafeCalls
<1>3. CASE d \in Advance(r.c)
  <2>1. Handled(r.c, p, d)
    BY <1>2, <1>3, AdvanceHandled DEF Handled
  <2> QED
    BY <1>2, <2>1, HandledTransitive
<1>4. CASE d = r.c
  BY <1>2, <1>4
<1> QED
  BY <1>1, <1>3, <1>4

\* mcp.tool_test.
LEMMA ToolTestHandled ==
  ASSUME NEW c, NEW p, Safe(c, p), c.state = "ready",
         NEW fresh, Typed(fresh), SameButCalls(c, fresh), fresh.nextId = c.nextId,
         fresh.calls = c.calls \ CallsOf(c, "tool_test"),
         NEW d \in {fresh} \cup {r.c : r \in Requests(fresh, "tool_test")}
  PROVE  Handled(c, p, d)
<1>1. Typed(c) /\ c.nextId \in Nat
  BY SafeCalls
<1>3. Session(c, p) /\ Tracked(c, p) /\ ~Blank(c)
  BY DEF Safe, Fit, Blank, LiveStates, Session
<1>4. Tracked(fresh, p) /\ Later(c, fresh) /\ \A k \in fresh.calls : k.kind # "tool_test"
  <2>1. /\ fresh.calls \subseteq c.calls /\ fresh.state = c.state
        /\ fresh.nextId \in Nat /\ fresh.nextId >= c.nextId
    BY <1>1 DEF SameButCalls
  <2>2. Tracked(fresh, p) /\ Later(c, fresh)
    BY <1>1, <1>3, <2>1, FewerCalls
  <2> QED
    BY <2>2 DEF CallsOf
<1>5. CASE d = fresh
  BY <1>3, <1>4, <1>5, CallsHandled
<1>6. ASSUME NEW r \in Requests(fresh, "tool_test"), d = r.c
      PROVE  Handled(c, p, d)
  <2>1. /\ Typed(d) /\ SameButCalls(fresh, d)
        /\ \/ d.calls = fresh.calls /\ d.nextId \in {fresh.nextId, fresh.nextId + 1}
           \/ /\ d.nextId = fresh.nextId + 1
              /\ d.calls = fresh.calls \cup {NewCall(fresh.nextId + 1, "tool_test")}
    <3>1. /\ Typed(r.c) /\ SameButCalls(fresh, r.c)
          /\ \/ /\ r.ok = FALSE /\ r.c.calls = fresh.calls
                /\ r.c.nextId \in {fresh.nextId, fresh.nextId + 1}
             \/ /\ r.ok = TRUE /\ r.c.nextId = fresh.nextId + 1
                /\ r.c.calls = fresh.calls \cup {NewCall(fresh.nextId + 1, "tool_test")}
      BY RequestsFields
    <3> QED
      BY <1>6, <3>1
  <2>2. Tracked(d, p) /\ Later(fresh, d)
    <3>1. CASE d.calls = fresh.calls /\ d.nextId \in {fresh.nextId, fresh.nextId + 1}
      <4>1. /\ d.nextId \in Nat /\ fresh.nextId \in Nat /\ d.nextId >= fresh.nextId
            /\ d.calls \subseteq fresh.calls /\ d.state = fresh.state
        BY <1>1, <2>1, <3>1 DEF SameButCalls
      <4> QED
        BY <1>4, <4>1, FewerCalls
    <3>2. CASE /\ d.nextId = fresh.nextId + 1
               /\ d.calls = fresh.calls \cup {NewCall(fresh.nextId + 1, "tool_test")}
      <4>1. "tool_test" \in Kinds /\ fresh.nextId \in Nat /\ d.state = fresh.state
            /\ fresh.state = "ready"
        BY <1>1, <2>1 DEF Kinds, SameButCalls
      <4> QED
        BY <1>4, <3>2, <4>1, OneMoreCall
    <3> QED
      BY <2>1, <3>1, <3>2
  <2>3. SameButCalls(c, d) /\ Later(c, d)
    BY <1>4, <2>1, <2>2 DEF SameButCalls, SameProcess, Later
  <2> QED
    BY <1>3, <2>1, <2>2, <2>3, CallsHandled
<1> QED
  BY <1>5, <1>6

\* mcp.discover.
LEMMA DiscoverHandled ==
  ASSUME NEW c, NEW p, Safe(c, p), c.state \in {"ready", "degraded"},
         NEW fresh, Typed(fresh), SameProcess(c, fresh), fresh.state = c.state,
         fresh.era = c.era, fresh.tools = c.tools, fresh.pipes = c.pipes,
         fresh.flags = c.flags \ {"LISTED"}, fresh.nextId = c.nextId,
         fresh.calls = c.calls \ {k \in c.calls : k.kind \in ListKinds},
         NEW r \in Inventories(fresh),
         NEW d, d = IF r.ok \/ r.c.state # "ready" THEN r.c
                    ELSE [r.c EXCEPT !.state = "degraded"]
  PROVE  Handled(c, p, d)
<1>1. Typed(c) /\ c.nextId \in Nat
  BY SafeCalls
<1>3. Session(c, p) /\ Tracked(c, p)
  BY DEF Safe, Fit, Blank, LiveStates, Session
<1>4. Tracked(fresh, p) /\ Later(c, fresh) /\ \A k \in fresh.calls : k.kind = "tool_test"
  <2>1. /\ fresh.calls \subseteq c.calls
        /\ fresh.nextId \in Nat /\ fresh.nextId >= c.nextId
    BY <1>1
  <2>2. Tracked(fresh, p) /\ Later(c, fresh)
    BY <1>1, <1>3, <2>1, FewerCalls
  <2>3. \A k \in c.calls : k.kind \in ListKinds \cup {"tool_test"}
    BY <1>3 DEF Tracked
  <2> QED
    BY <2>2, <2>3
<1>5. /\ Typed(r.c) /\ SameButLists(fresh, r.c) /\ r.c.nextId >= fresh.nextId
      /\ \/ r.ok = TRUE /\ r.c = fresh
         \/ /\ r.ok = FALSE /\ r.c.calls = fresh.calls
            /\ "TOOLS_CURRENT" \notin r.c.flags
         \/ /\ r.ok = TRUE /\ r.c.calls = fresh.calls \cup ListCalls(fresh)
            /\ r.c.nextId = fresh.nextId + Len(Lists)
            /\ "TOOLS_CURRENT" \notin r.c.flags
  BY InventoriesFields
<1>6. /\ Typed(d) /\ SameProcess(r.c, d) /\ d.era = r.c.era /\ d.tools = r.c.tools
      /\ d.pipes = r.c.pipes /\ d.flags = r.c.flags /\ d.calls = r.c.calls
      /\ d.nextId = r.c.nextId
      /\ \/ d.state = r.c.state
         \/ d.state = "degraded" /\ r.ok # TRUE
  <2>1. CASE d = r.c
    BY <1>5, <2>1 DEF SameProcess
  <2>2. CASE d = [r.c EXCEPT !.state = "degraded"] /\ r.ok # TRUE
    BY <1>5, <2>2 DEF Typed, IsChild, ChildFields, SameProcess
  <2> QED
    BY <2>1, <2>2
<1>7. /\ SameProcess(c, d) /\ d.era = c.era /\ d.tools = c.tools /\ d.pipes = c.pipes
      /\ d.state \in {"ready", "degraded"}
      /\ d.flags \subseteq c.flags \cup {"LISTED"}
      /\ c.flags \ {"TOOLS_CURRENT", "LISTED"} \subseteq d.flags
  BY <1>5, <1>6 DEF SameButLists, SameProcess
<1>8. "TOOLS_CURRENT" \in d.flags => d.tools /\ d.state = "ready"
  <2>1. CASE r.ok = TRUE /\ r.c = fresh
    BY <1>3, <1>6, <2>1 DEF Session
  <2>2. CASE "TOOLS_CURRENT" \notin r.c.flags
    BY <1>6, <2>2
  <2> QED
    BY <1>5, <2>1, <2>2
<1>9. Tracked(d, p) /\ Later(fresh, d)
  <2>1. CASE d.calls = fresh.calls
    <3>1. /\ d.nextId \in Nat /\ fresh.nextId \in Nat /\ d.nextId >= fresh.nextId
          /\ d.calls \subseteq fresh.calls
          /\ {fresh.state, d.state} \subseteq {"ready", "degraded"}
      BY <1>1, <1>5, <1>6, <1>7, <2>1 DEF Typed
    <3> QED
      BY <1>4, <3>1, FewerCalls
  <2>2. CASE /\ d.calls = fresh.calls \cup ListCalls(fresh)
             /\ d.nextId = fresh.nextId + Len(Lists)
    <3>1. fresh.nextId \in Nat
      BY <1>1
    <3> QED
      BY <1>4, <1>7, <2>2, <3>1, ListedCalls, Zenon
  <2> QED
    BY <1>5, <1>6, <2>1, <2>2
<1>10. Later(c, d)
  BY <1>4, <1>9 DEF Later
<1>11. Session(d, p)
  BY <1>3, <1>7, <1>8, <1>9 DEF Session, SameProcess
<1>12. Safe(d, p)
  BY <1>6, <1>7, <1>11, SessionIsSafe DEF LiveStates
<1>13. Stays(c, d)
  BY LiveStays DEF LiveStates
<1> QED
  BY <1>7, <1>10, <1>12, <1>13 DEF Handled

----------------------------------------------------------------------------
(* A process ends.                                                          *)

\* What a teardown keeps of the child, and what it leaves.
Ended(c, d) ==
  /\ Typed(d) /\ d.started = c.started /\ d.cfg = c.cfg /\ d.state = c.state
  /\ d.next = c.next /\ d.nextId = c.nextId
  /\ d.era = "unknown" /\ d.calls = {} /\ d.tools = FALSE /\ d.pipes = {}
  /\ d.flags = c.flags \ {"LISTED", "TOOLS_CURRENT"}

\* af_mcp_teardown: a group that may have members stays owned.
LEMMA TornDownFields ==
  ASSUME NEW c, Typed(c), NEW p \in Procs, p.helpers => c.pgid,
         NEW r \in TornDown(c, p)
  PROVE  /\ Ended(c, r.c) /\ r.c.pid = c.pid /\ r.c.clean = c.clean
         /\ r.c.pgid => c.pgid
         /\ r.p \in Procs /\ (r.p.helpers => r.c.pgid)
         /\ r.p.leader = IF r.p.leader = "killed" THEN "killed" ELSE p.leader
         /\ r.p.leader = "none" <=> p.leader = "none"
         /\ ~r.over
<1>1. ASSUME NEW killed \in BOOLEAN
      PROVE  LET d == Teardown(c, killed) IN
               /\ Ended(c, d) /\ d.pid = c.pid /\ d.clean = c.clean
               /\ d.pgid = (c.pgid /\ ~killed)
  <2> DEFINE g == c.pgid /\ ~killed
             u == [c EXCEPT !.pgid = g, !.pipes = {}]
  <2>1. g \in BOOLEAN
    OBVIOUS
  <2>2. Teardown(c, killed) = Invalidate(u)
    BY DEF Teardown
  <2> HIDE DEF g
  <2>3. /\ Typed(u) /\ u.pgid = g /\ u.pipes = {} /\ u.pid = c.pid
        /\ u.started = c.started /\ u.cfg = c.cfg /\ u.clean = c.clean
        /\ u.state = c.state /\ u.next = c.next /\ u.nextId = c.nextId
        /\ u.flags = c.flags
    BY <2>1 DEF Typed, IsChild, ChildFields
  <2> HIDE DEF u
  <2>4. Ended(c, Invalidate(u))
        /\ Invalidate(u).pid = c.pid /\ Invalidate(u).clean = c.clean
        /\ Invalidate(u).pgid = g
    BY <2>3, InvalidateFields DEF Ended, SameProcess
  <2> QED
    BY <2>2, <2>4 DEF g
<1>2. CASE c.pgid
  <2>1. PICK ok \in KillOutcomes(p) : r = Outcome(Teardown(c, ok), Killed(p, ok))
    BY <1>2 DEF TornDown
  <2>2. ok \in BOOLEAN
    BY <2>1 DEF KillOutcomes
  <2>3. r.c = Teardown(c, ok) /\ r.p = Killed(p, ok)
        /\ ~r.over
    BY <2>1 DEF Outcome
  <2>4. CASE ok
    <3>1. /\ r.p \in Procs /\ ~r.p.helpers
          /\ r.p.leader = IF p.leader = "alive" THEN "killed" ELSE p.leader
      BY <2>3, <2>4 DEF Killed, Procs
    <3> QED
      BY <1>1, <1>2, <2>2, <2>3, <2>4, <3>1
  <2>5. CASE ~ok
    <3>1. r.p = p
      BY <2>3, <2>5 DEF Killed
    <3> QED
      BY <1>1, <1>2, <2>2, <2>3, <2>5, <3>1
  <2> QED
    BY <2>4, <2>5
<1>3. CASE ~c.pgid
  <2>1. r = Outcome(Teardown(c, TRUE), p)
    BY <1>3 DEF TornDown
  <2>2. r.c = Teardown(c, TRUE) /\ r.p = p /\ ~r.over
    BY <2>1 DEF Outcome
  <2> QED
    BY <1>1, <1>3, <2>2
<1> QED
  BY <1>2, <1>3

\* wait4 and then teardown.
LEMMA CollectedFields ==
  ASSUME NEW c, Typed(c), NEW p \in Procs, p.helpers => c.pgid,
         NEW r \in Collected(c, p)
  PROVE  /\ Ended(c, r.c) /\ ~r.c.pid /\ r.c.clean = (p.leader = "clean")
         /\ r.p \in Procs /\ r.p.leader = "none" /\ (r.p.helpers => r.c.pgid)
         /\ ~r.over
<1> DEFINE e == (p.leader = "clean")
           d == Reaped(c, e)
           q == [p EXCEPT !.leader = "none", !.speaks = "none"]
<1>1. r \in TornDown(d, q)
  BY DEF Collected
<1> HIDE DEF e
<1>2. /\ Typed(d) /\ d.pid = FALSE /\ d.clean = e /\ d.pgid = c.pgid
      /\ d.started = c.started /\ d.cfg = c.cfg /\ d.state = c.state
      /\ d.next = c.next /\ d.nextId = c.nextId /\ d.flags = c.flags
  BY DEF Reaped, Typed, IsChild, ChildFields
<1>3. q \in Procs /\ q.leader = "none" /\ q.helpers = p.helpers
  BY DEF Procs, Eras
<1> HIDE DEF d, q
<1>4. q.helpers => d.pgid
  BY <1>2, <1>3
<1>5. /\ Ended(d, r.c) /\ r.c.pid = d.pid /\ r.c.clean = d.clean
      /\ r.p \in Procs /\ (r.p.helpers => r.c.pgid)
      /\ r.p.leader = "none" <=> q.leader = "none"
      /\ ~r.over
  BY <1>1, <1>2, <1>3, <1>4, TornDownFields, Zenon
<1> QED
  BY <1>2, <1>3, <1>5 DEF Ended, e

\* A child whose process has just been collected and torn down.
Bare(c, p) ==
  /\ Typed(c) /\ p \in Procs /\ ~c.pid /\ p.leader = "none"
  /\ p.helpers => c.pgid
  /\ c.era = "unknown" /\ c.calls = {} /\ ~c.tools /\ c.pipes = {}
  /\ "RESTART_AFTER_STOP" \in c.flags =>
       c.flags \cap {"EOF", "PROCESS_FAILURE", "MANUAL_RESTART"} # {}

\* The same with nothing left to decide.
Rested(c, p) == Safe(c, p) /\ Blank(c) /\ ~c.pid /\ c.pipes = {}

LEMMA BareRests ==
  ASSUME NEW c, NEW p, Bare(c, p), c.state \notin LiveStates
  PROVE  Rested(c, p)
BY DEF Bare, Rested, Safe, Fit, Owns, Blank

\* The end of a stop that does not restart.
LEMMA StoppedRests ==
  ASSUME NEW c, NEW p, Bare(c, p)
  PROVE  LET d == Stopped(c) IN
           /\ Rested(d, p) /\ d.state = "stopped" /\ d.started = c.started
           /\ d.flags = c.flags \ StopFlags /\ d.calls = {}
<1> DEFINE d == Stopped(c)
<1>1. /\ Typed(d) /\ SameProcess(c, d) /\ d.state = "stopped"
      /\ d.flags = c.flags \ StopFlags /\ d.era = c.era /\ d.calls = c.calls
      /\ d.tools = c.tools /\ d.pipes = c.pipes
  BY DEF Bare, Stopped, Typed, IsChild, ChildFields, SameProcess
<1> HIDE DEF d
<1>2. Bare(d, p)
  BY <1>1 DEF Bare, SameProcess, StopFlags
<1>3. Rested(d, p)
  BY <1>1, <1>2, BareRests DEF LiveStates
<1> QED
  BY <1>1, <1>2, <1>3 DEF SameProcess, d, Bare

\* A failure found when there is no process: a restart that is due at once is
\* the one that completes the era decision.
LEMMA FailedBare ==
  ASSUME NEW c, NEW p, Bare(c, p), "STOPPING" \notin c.flags
  PROVE  LET d == ChildFailed(c, "SPAWN") IN
           /\ Rested(d, p) /\ d.started = c.started
           /\ Resting(c) => Resting(d)
           /\ d.state = "restarting" /\ d.next <= 0 => "LEGACY_NEXT" \in c.flags
<1> DEFINE blamed == [c EXCEPT !.flags = @ \cup {"PROCESS_FAILURE"}]
           dead == [blamed EXCEPT !.state = "failed"]
           failed == Invalidate(dead)
           d == ChildFailed(c, "SPAWN")
<1>1. \/ c.state \in {"crash_loop", "disabled"} /\ d = c
      \/ d = failed
      \/ "LEGACY_NEXT" \in c.flags /\ d = RestartNow(failed)
      \/ d = ScheduleRestart(failed)
  BY DEF ChildFailed, Has, Bare
<1>2. Typed(c)
  BY DEF Bare
<1>3. Typed(dead) /\ dead.state = "failed" /\ dead.pipes = c.pipes
  <2>1. Typed(blamed) /\ blamed.pipes = c.pipes
    BY <1>2 DEF Typed, IsChild, ChildFields
  <2> HIDE DEF blamed
  <2> QED
    BY <2>1 DEF Typed, IsChild, ChildFields
<1> HIDE DEF dead
<1>4. Typed(failed) /\ failed.state = "failed" /\ failed.pipes = c.pipes
  BY <1>3, InvalidateFields
<1> HIDE DEF failed
<1>5. Loose(c, p)
  BY DEF Bare, Loose, Owns, Blank, LiveStates
<1>6. Handled(c, p, d) /\ Blank(d)
  BY <1>5, ChildFailedHandled
<1>7. /\ RestartNow(failed).pipes = c.pipes
      /\ ScheduleRestart(failed).pipes = c.pipes
      /\ ScheduleRestart(failed).state = "restarting" => ScheduleRestart(failed).next > 0
      /\ ScheduleRestart(failed).next \in Int
  BY <1>4, RestartNowFields, ScheduleFields DEF Typed
<1> HIDE DEF d
<1>8. d.pipes = c.pipes /\ d.next \in Int
      /\ (d.state = "restarting" /\ d.next <= 0 => "LEGACY_NEXT" \in c.flags)
  <2>1. d.next \in Int
    BY <1>6, SafeCalls DEF Handled, Typed
  <2> QED
    BY <1>1, <1>4, <1>7, <2>1
<1>9. Rested(d, p) /\ d.started = c.started /\ (Resting(c) => Resting(d))
  BY <1>6, <1>8 DEF Rested, Handled, SameProcess, Stays, Bare
<1> QED
  BY <1>8, <1>9 DEF d

\* What becomes of a child whose process has been collected.  A restart that
\* is due at once was asked for before; a clean end rests.
LEMMA AfterExitRests ==
  ASSUME NEW c, NEW p, Bare(c, p), "STOPPING" \in c.flags => c.state \notin LiveStates
  PROVE  LET d == AfterExit(c) IN
           /\ Rested(d, p) /\ d.started = c.started
           /\ Resting(c) => Resting(d)
           /\ d.state = "restarting" /\ d.next <= 0
                => "STOPPING" \in c.flags \/ "LEGACY_NEXT" \in c.flags
           /\ /\ c.clean /\ c.cfg.mode # "always"
              /\ c.flags \cap {"PROCESS_FAILURE", "MANUAL_RESTART", "LEGACY_NEXT"} = {}
              => d.state = "stopped"
<1> DEFINE over == [c EXCEPT !.flags = @ \ StopFlags]
           d == AfterExit(c)
           Clean == /\ c.clean /\ c.cfg.mode # "always"
                    /\ c.flags \cap {"PROCESS_FAILURE", "MANUAL_RESTART", "LEGACY_NEXT"} = {}
<1>1. /\ Typed(over) /\ SameProcess(c, over) /\ over.state = c.state
      /\ over.flags = c.flags \ StopFlags /\ over.era = c.era
      /\ over.calls = c.calls /\ over.tools = c.tools /\ over.pipes = c.pipes
  BY DEF Bare, Typed, IsChild, ChildFields, SameProcess
<1>2. /\ "STOPPING" \notin c.flags =>
            \/ CleanExit(c) /\ d = [c EXCEPT !.state = "stopped"]
            \/ ~CleanExit(c) /\ d = ChildFailed(c, "SPAWN")
      /\ "STOPPING" \in c.flags =>
            \/ d = Stopped(c)
            \/ /\ "RESTART_AFTER_STOP" \in c.flags /\ "MANUAL_STOP" \notin c.flags
               /\ c.flags \cap {"LEGACY_NEXT", "MANUAL_RESTART"} # {}
               /\ d = RestartNow(over)
            \/ /\ "RESTART_AFTER_STOP" \in c.flags /\ "MANUAL_STOP" \notin c.flags
               /\ "EOF" \notin c.flags \/ "PROCESS_FAILURE" \in c.flags \/ ~CleanExit(c)
               /\ d = ScheduleRestart(over)
  BY DEF AfterExit, Has
<1> HIDE DEF over
<1>3. Bare(over, p)
  BY <1>1 DEF Bare, SameProcess, StopFlags
<1>4. CASE "STOPPING" \notin c.flags /\ CleanExit(c) /\ d = [c EXCEPT !.state = "stopped"]
  <2>1. /\ Typed(d) /\ SameProcess(c, d) /\ d.state = "stopped"
        /\ d.flags = c.flags /\ d.era = c.era
        /\ d.calls = c.calls /\ d.tools = c.tools /\ d.pipes = c.pipes
    <3> HIDE DEF d
    <3> QED
      BY <1>4 DEF Bare, Typed, IsChild, ChildFields, SameProcess
  <2> HIDE DEF d
  <2>2. Bare(d, p)
    BY <2>1 DEF Bare, SameProcess
  <2>3. Rested(d, p)
    BY <2>1, <2>2, BareRests DEF LiveStates
  <2> QED
    BY <2>1, <2>3 DEF SameProcess, Resting, d
<1>5. CASE "STOPPING" \notin c.flags /\ ~CleanExit(c) /\ d = ChildFailed(c, "SPAWN")
  <2>1. ~Clean
    BY <1>5 DEF CleanExit
  <2> HIDE DEF Clean, d
  <2>2. /\ Rested(d, p) /\ d.started = c.started /\ (Resting(c) => Resting(d))
        /\ d.state = "restarting" /\ d.next <= 0 => "LEGACY_NEXT" \in c.flags
    BY <1>5, FailedBare
  <2> QED
    BY <2>1, <2>2 DEF d, Clean
<1>6. CASE "STOPPING" \in c.flags /\ d = Stopped(c)
  <2> HIDE DEF d
  <2>1. /\ Rested(d, p) /\ d.state = "stopped" /\ d.started = c.started
        /\ d.flags = c.flags \ StopFlags
    BY <1>6, StoppedRests
  <2>2. Resting(c) => Resting(d)
    BY <2>1 DEF Resting, StopFlags
  <2> QED
    BY <2>1, <2>2 DEF d
<1>7. CASE /\ "STOPPING" \in c.flags /\ "RESTART_AFTER_STOP" \in c.flags
           /\ "MANUAL_STOP" \notin c.flags
           /\ c.flags \cap {"LEGACY_NEXT", "MANUAL_RESTART"} # {}
           /\ d = RestartNow(over)
  <2> HIDE DEF d
  <2>1. Bare(d, p) /\ SameProcess(over, d) /\ d.state = "restarting"
    BY <1>3, <1>7, RestartNowFields DEF Bare, SameProcess
  <2>2. Rested(d, p)
    BY <2>1, BareRests DEF LiveStates
  <2>3. ~Clean /\ ~Resting(c)
    BY <1>7 DEF Resting
  <2> HIDE DEF Clean
  <2> QED
    BY <1>1, <1>7, <2>1, <2>2, <2>3 DEF SameProcess, d, Clean
<1>8. CASE /\ "STOPPING" \in c.flags /\ "RESTART_AFTER_STOP" \in c.flags
           /\ "MANUAL_STOP" \notin c.flags
           /\ "EOF" \notin c.flags \/ "PROCESS_FAILURE" \in c.flags \/ ~CleanExit(c)
           /\ d = ScheduleRestart(over)
  <2> HIDE DEF d
  <2>1. /\ Bare(d, p) /\ SameProcess(over, d)
        /\ d.state \in {c.state, "crash_loop", "restarting"}
    BY <1>1, <1>3, <1>8, ScheduleFields DEF Bare, SameProcess
  <2>2. ~Clean /\ ~Resting(c)
    BY <1>8 DEF Resting, Bare, CleanExit
  <2> HIDE DEF Clean
  <2>3. c.state \notin LiveStates => Rested(d, p)
    BY <2>1, BareRests DEF LiveStates
  <2> QED
    BY <1>1, <1>8, <2>1, <2>2, <2>3 DEF SameProcess, d, Clean
<1> QED
  BY <1>2, <1>4, <1>5, <1>6, <1>7, <1>8

\* af_mcp_stop by the operator or by the daemon's shutdown.
LEMMA StopsRests ==
  ASSUME NEW c, NEW p, Safe(c, p), c.state \notin {"crash_loop", "disabled"},
         NEW r \in Stops(c, p)
  PROVE  /\ Safe(r.c, r.p) /\ Resting(r.c) /\ r.c.calls = {} /\ r.c.state = "stopped"
         /\ p.leader = "none" => r.p.leader = "none"
         /\ r.p.leader = "alive" => /\ "STOPPING" \in r.c.flags /\ r.c.next = Grace
                                    /\ "TERM_SENT" \notin r.c.flags
<1> DEFINE flags == (c.flags \cup {"STOPPING", "MANUAL_STOP"})
                    \ {"TERM_SENT", "LEGACY_NEXT"}
           u == [c EXCEPT !.state = "stopped", !.flags = flags]
           v == Invalidate(u)
           asked == CloseStdin(v)
           gone == IF ~c.pid THEN TornDown(asked, p) ELSE Collected(asked, p)
<1>1. \/ c.pid /\ p.leader \notin Zombies /\ r = Outcome(ArmGrace(asked), p)
      \/ /\ ~(c.pid /\ p.leader \notin Zombies)
         /\ \E s \in gone : r = Outcome(Stopped(s.c), s.p)
  BY DEF Stops
<1>2. Typed(c) /\ p \in Procs /\ (p.helpers => c.pgid)
  BY DEF Safe, Fit, Owns
<1> HIDE DEF flags
<1>3. /\ Typed(u) /\ SameProcess(c, u) /\ u.state = "stopped" /\ u.flags = flags
  BY <1>2 DEF Typed, IsChild, ChildFields, SameProcess
<1> HIDE DEF u
<1>4. /\ Typed(v) /\ SameProcess(u, v) /\ v.state = "stopped"
      /\ v.flags = flags \ {"LISTED", "TOOLS_CURRENT"}
      /\ v.era = "unknown" /\ v.calls = {} /\ v.tools = FALSE
  BY <1>3, InvalidateFields
<1> HIDE DEF v
<1>5. /\ Typed(asked) /\ SameProcess(v, asked) /\ asked.state = v.state
      /\ asked.flags = v.flags /\ asked.era = v.era /\ asked.calls = v.calls
      /\ asked.tools = v.tools
  BY <1>4 DEF CloseStdin, Typed, IsChild, ChildFields, SameProcess
<1> HIDE DEF asked
<1>6. /\ SameProcess(c, asked) /\ asked.state = "stopped" /\ asked.era = "unknown"
      /\ asked.calls = {} /\ ~asked.tools
      /\ "MANUAL_STOP" \in asked.flags /\ "STOPPING" \in asked.flags
      /\ "TERM_SENT" \notin asked.flags
      /\ "RESTART_AFTER_STOP" \in asked.flags =>
           asked.flags \cap {"EOF", "PROCESS_FAILURE", "MANUAL_RESTART"} # {}
  <2>1. SameProcess(c, asked)
    BY <1>3, <1>4, <1>5 DEF SameProcess
  <2> QED
    BY <1>4, <1>5, <2>1 DEF flags, Safe, Fit
<1>7. CASE c.pid /\ p.leader \notin Zombies /\ r = Outcome(ArmGrace(asked), p)
  <2> DEFINE d == ArmGrace(asked)
  <2>1. r.c = d /\ r.p = p
    BY <1>7 DEF Outcome
  <2>2. /\ IsChild(d) /\ SameProcess(asked, d) /\ d.state = asked.state
        /\ d.flags = asked.flags /\ d.era = asked.era /\ d.calls = asked.calls
        /\ d.tools = asked.tools /\ d.next = Grace /\ d.nextId = asked.nextId
        /\ d.backoff = asked.backoff
    BY <1>5 DEF ArmGrace, Typed, IsChild, ChildFields, SameProcess
  <2> HIDE DEF d
  <2>3. Typed(d)
    BY <1>5, <2>2, McpAssumption DEF Typed, SameProcess, NoDeadline
  <2>4. Safe(d, p) /\ Resting(d)
    BY <1>6, <2>2, <2>3 DEF Safe, Fit, Owns, Blank, LiveStates, SameProcess, Resting
  <2> QED
    BY <1>6, <2>1, <2>2, <2>4
<1>8. CASE /\ ~(c.pid /\ p.leader \notin Zombies)
           /\ \E s \in gone : r = Outcome(Stopped(s.c), s.p)
  <2>1. PICK s \in gone : r = Outcome(Stopped(s.c), s.p)
    BY <1>8
  <2>2. r.c = Stopped(s.c) /\ r.p = s.p
    BY <2>1 DEF Outcome
  <2>3. p.helpers => asked.pgid
    BY <1>2, <1>6 DEF SameProcess
  <2>4. Ended(asked, s.c) /\ ~s.c.pid /\ s.p \in Procs /\ s.p.leader = "none"
        /\ (s.p.helpers => s.c.pgid)
    <3>1. CASE ~c.pid
      <4>1. p.leader = "none"
        BY <3>1 DEF Safe, Owns
      <4>2. s \in TornDown(asked, p)
        BY <2>1, <3>1
      <4> QED
        BY <1>2, <1>5, <1>6, <2>3, <3>1, <4>1, <4>2, TornDownFields DEF SameProcess
    <3>2. CASE c.pid
      <4>1. s \in Collected(asked, p)
        BY <2>1, <3>2
      <4> QED
        BY <1>2, <1>5, <2>3, <4>1, CollectedFields
    <3> QED
      BY <3>1, <3>2
  <2>5. Bare(s.c, s.p)
    BY <1>6, <2>4 DEF Bare, Ended
  <2>6. /\ Rested(r.c, r.p) /\ r.c.state = "stopped" /\ r.c.calls = {}
        /\ r.c.flags = s.c.flags \ StopFlags
    BY <2>2, <2>5, StoppedRests
  <2>7. "MANUAL_STOP" \in r.c.flags
    BY <1>6, <2>4, <2>6 DEF Ended, StopFlags
  <2> QED
    BY <2>2, <2>4, <2>6, <2>7 DEF Rested, Resting
<1> QED
  BY <1>1, <1>7, <1>8

\* af_mcp_advance_shutdown.
LEMMA EscalatedHandled ==
  ASSUME NEW c, NEW p, Safe(c, p)
  PROVE  LET r == Escalated(c, p) IN
           /\ Safe(r.c, r.p) /\ Handled(c, p, r.c)
           /\ ~r.over
           /\ r.p.leader \in {p.leader, "killed"}
           /\ p.leader = "none" => r.p.leader = "none"
           /\ r.c.state = c.state /\ r.c.calls = c.calls
           /\ \/ r.c.next = c.next /\ r.c.flags = c.flags
                 /\ (r.p.leader = "alive" => ~("STOPPING" \in c.flags /\ c.next = 0))
              \/ /\ c.next = 0 /\ "TERM_SENT" \notin c.flags
                 /\ r.c.next = TermWait /\ r.c.flags = c.flags \cup {"TERM_SENT"}
<1> DEFINE r == Escalated(c, p)
           d == [c EXCEPT !.flags = @ \cup {"TERM_SENT"}, !.next = TermWait]
           due == Has(c, "STOPPING") /\ c.pid /\ c.next = 0
<1>1. Typed(c) /\ p \in Procs /\ (c.pid <=> p.leader # "none") /\ (c.pid => c.pgid)
  BY DEF Safe, Fit, Owns
<1>2. CASE ~due
  <2>1. r = Outcome(c, p)
    BY <1>2 DEF Escalated
  <2>2. r.c = c /\ r.p = p /\ ~r.over
    BY <2>1 DEF Outcome
  <2>3. p.leader = "alive" => ~("STOPPING" \in c.flags /\ c.next = 0)
    BY <1>1, <1>2 DEF Has
  <2> HIDE DEF r
  <2>4. Safe(r.c, r.p) /\ Handled(c, p, r.c)
    BY <2>2, HandledSelf
  <2> QED
    BY <2>2, <2>3, <2>4 DEF r
<1>3. CASE due /\ "TERM_SENT" \in c.flags
  <2>1. r = Outcome(c, Killed(p, TRUE))
    BY <1>3 DEF Escalated, Has
  <2>2. r.c = c /\ r.p = Killed(p, TRUE) /\ ~r.over
    BY <2>1 DEF Outcome
  <2> HIDE DEF r
  <2>3. /\ r.p \in Procs /\ ~r.p.helpers /\ r.p.speaks = p.speaks
        /\ r.p.leader = IF p.leader = "alive" THEN "killed" ELSE p.leader
    BY <1>1, <2>2 DEF Killed, Procs
  <2>4. c.pid /\ Blank(c)
    BY <1>3 DEF Safe, Fit, Session, Has
  <2>5. Safe(r.c, r.p)
    BY <2>2, <2>3, <2>4 DEF Safe, Fit, Owns
  <2>6. Handled(c, p, c)
    BY HandledSelf
  <2> QED
    BY <2>2, <2>3, <2>5, <2>6 DEF r
<1>4. CASE due /\ "TERM_SENT" \notin c.flags
  <2>1. r = Outcome(d, p)
    BY <1>4 DEF Escalated, Has
  <2>2. r.c = d /\ r.p = p /\ ~r.over
    BY <2>1 DEF Outcome
  <2>3. /\ IsChild(d) /\ SameProcess(c, d) /\ d.state = c.state
        /\ d.flags = c.flags \cup {"TERM_SENT"} /\ d.era = c.era /\ d.calls = c.calls
        /\ d.tools = c.tools /\ d.next = TermWait /\ d.nextId = c.nextId
        /\ d.backoff = c.backoff
    BY <1>1 DEF Typed, IsChild, ChildFields, SameProcess
  <2> HIDE DEF r, d
  <2>4. Typed(d)
    BY <1>1, <2>3, McpAssumption DEF Typed, SameProcess, NoDeadline
  <2>5. Blank(c)
    BY <1>4 DEF Safe, Fit, Session, Has
  <2>6. Blank(d)
    BY <2>3, <2>5 DEF Blank
  <2>7. Safe(d, p) /\ Stays(c, d)
    BY <2>3, <2>4, <2>6 DEF Safe, Fit, Owns, SameProcess, Stays, Resting
  <2>8. Later(c, d)
    <3>1. c.nextId \in Nat
      BY <1>1 DEF Typed
    <3> QED
      BY <2>3, <3>1, LaterSelf
  <2>9. Handled(c, p, d)
    BY <2>3, <2>7, <2>8 DEF Handled
  <2> QED
    BY <1>4, <2>2, <2>3, <2>7, <2>9 DEF r
<1> QED
  BY <1>2, <1>3, <1>4

----------------------------------------------------------------------------
(* A process starts: af_mcp_start.                                          *)

\* What af_mcp_start clears.
LEMMA ClearedFields ==
  ASSUME NEW c, Typed(c)
  PROVE  LET d == Cleared(c) IN
           /\ Typed(d) /\ SameProcess(c, d) /\ d.state = "starting"
           /\ d.flags = c.flags \cap {"MANUAL_STOP"}
           /\ d.era = "unknown" /\ d.calls = {} /\ d.tools = FALSE /\ d.nextId = 0
<1> DEFINE d == Cleared(c)
<1>1. /\ IsChild(d) /\ SameProcess(c, d) /\ d.state = "starting"
      /\ d.flags = c.flags \cap {"MANUAL_STOP"} /\ d.backoff = c.backoff
      /\ d.era = "unknown" /\ d.calls = {} /\ d.tools = FALSE /\ d.nextId = 0
      /\ d.next = NoDeadline
  BY DEF Cleared, Typed, IsChild, ChildFields, SameProcess
<1> HIDE DEF d
<1>2. d.tools \in BOOLEAN /\ d.nextId \in Nat /\ d.next \in Int /\ d.next >= NoDeadline
  <2>1. d.tools \in BOOLEAN
    BY <1>1, Zenon
  <2>2. d.nextId \in Nat /\ d.next \in Int /\ d.next >= NoDeadline
    BY <1>1 DEF NoDeadline
  <2> QED
    BY <2>1, <2>2
<1>3. d.pid \in BOOLEAN /\ d.pgid \in BOOLEAN /\ d.backoff \in Nat
  BY <1>1 DEF Typed, SameProcess
<1>4. Typed(d)
  BY <1>1, <1>2, <1>3 DEF Typed
<1> QED
  BY <1>1, <1>4 DEF d

\* A start that left no process.
LEMMA NoStartSafe ==
  ASSUME NEW c, NEW p, Safe(c, p), ~c.pid, NEW e, Typed(e), ~e.pid, e.pgid = c.pgid,
         e.state = "failed", e.flags \subseteq {"MANUAL_STOP"},
         e.era = "unknown", e.calls = {}, e.tools = FALSE
  PROVE  Safe(ScheduleRestart(e), p)
<1> DEFINE d == ScheduleRestart(e)
<1>1. /\ Typed(d) /\ SameProcess(e, d)
      /\ d.era = "unknown" /\ d.calls = {} /\ d.tools = FALSE
      /\ d.flags = e.flags /\ d.state \in {"failed", "crash_loop", "restarting"}
  BY ScheduleFields
<1> HIDE DEF d
<1>2. Safe(d, p)
  BY <1>1 DEF Safe, Fit, Owns, SameProcess, Blank, LiveStates
<1> QED
  BY <1>2 DEF d

\* A start that left one: the first request is sent, or the process is failed.
LEMMA SpawnedSafe ==
  ASSUME NEW c, NEW p, Safe(c, p), NEW d \in Spawned(c), NEW s \in Eras
  PROVE  Safe(d, [leader |-> "alive", helpers |-> FALSE, speaks |-> s])
<1> DEFINE q == [leader |-> "alive", helpers |-> FALSE, speaks |-> s]
           e == Cleared(c)
           pipes == {"stdin", "stdout", "stderr"}
           live == [e EXCEPT !.state = "probing", !.pid = TRUE, !.pgid = TRUE,
                             !.started = TRUE, !.pipes = pipes]
           kind == IF Has(c, "LEGACY_NEXT") THEN "initialize" ELSE "discover"
<1>1. PICK r \in Requests(live, kind) :
        d = IF r.ok THEN r.c ELSE ChildFailed(r.c, "PROTOCOL")
  BY DEF Spawned
<1>2. kind \in {"initialize", "discover"} /\ kind \in Kinds
  BY DEF Kinds
<1>3. q \in Procs /\ q.leader = "alive" /\ q.helpers = FALSE /\ q.speaks = s
  BY DEF Procs
<1> HIDE DEF q, kind
<1>4. Typed(c)
  BY SafeCalls
<1>5. /\ Typed(e) /\ e.flags = c.flags \cap {"MANUAL_STOP"}
      /\ e.era = "unknown" /\ e.calls = {} /\ e.tools = FALSE /\ e.nextId = 0
  BY <1>4, ClearedFields
<1> HIDE DEF e
<1>6. /\ Typed(live) /\ live.state = "probing" /\ live.pid = TRUE /\ live.pgid = TRUE
      /\ live.started = TRUE /\ live.flags = e.flags /\ live.era = e.era
      /\ live.calls = e.calls /\ live.tools = e.tools /\ live.nextId = e.nextId
      /\ live.pipes = pipes
  <2> HIDE DEF pipes
  <2> QED
    BY <1>5 DEF Typed, IsChild, ChildFields
<1> HIDE DEF live
<1>7. Tracked(live, q)
  BY <1>5, <1>6 DEF Tracked
<1>8. Session(live, q)
  BY <1>5, <1>6, <1>7 DEF Session
<1>9. Safe(live, q)
  BY <1>3, <1>5, <1>6, <1>8 DEF Safe, Fit, Owns
<1>10. /\ Typed(r.c) /\ SameButCalls(live, r.c)
       /\ \/ /\ r.ok = FALSE /\ r.c.calls = live.calls
             /\ r.c.nextId \in {live.nextId, live.nextId + 1}
          \/ /\ r.ok = TRUE /\ r.c.nextId = live.nextId + 1
             /\ r.c.calls = live.calls \cup {NewCall(live.nextId + 1, kind)}
  BY <1>6, RequestsFields
<1>11. CASE r.ok = FALSE
  <2>1. d = ChildFailed(r.c, "PROTOCOL")
    BY <1>1, <1>11
  <2>2. /\ r.c.calls \subseteq live.calls /\ r.c.nextId >= live.nextId
        /\ SameProcess(live, r.c) /\ r.c.state = "probing" /\ r.c.flags = live.flags
    BY <1>5, <1>6, <1>10, <1>11 DEF SameButCalls
  <2>3. Handled(live, q, d)
    BY <1>6, <1>8, <1>9, <1>10, <2>1, <2>2, ProbeFails
  <2> QED
    BY <2>3 DEF Handled, q
<1>12. CASE r.ok = TRUE
  <2>1. d = r.c
    BY <1>1, <1>12
  <2>2. /\ d.nextId = live.nextId + 1 /\ d.state = live.state
        /\ d.calls = live.calls \cup {NewCall(live.nextId + 1, kind)}
        /\ live.nextId \in Nat /\ live.calls = {} /\ live.state = "probing"
    BY <1>5, <1>6, <1>10, <1>12, <2>1 DEF SameButCalls
  <2>3. Tracked(d, q)
    BY <1>2, <1>7, <2>2, OneMoreCall
  <2>4. Session(d, q)
    BY <1>8, <1>10, <2>1, <2>3 DEF Session, SameButCalls, SameProcess
  <2>5. Safe(d, q)
    BY <1>6, <1>9, <1>10, <2>1, <2>4, SessionIsSafe DEF SameButCalls, LiveStates
  <2> QED
    BY <2>5 DEF q
<1> QED
  BY <1>10, <1>11, <1>12

\* af_mcp_start: never over a process.
LEMMA StartsSafe ==
  ASSUME NEW c, NEW p, Safe(c, p), NEW r \in Starts(c, p)
  PROVE  /\ Safe(r.c, r.p) /\ ~r.over
         /\ \/ r.c = c /\ r.p = p
            \/ Startable(c) /\ p.leader = "none"
<1>1. CASE ~Startable(c)
  <2>1. r = Outcome(c, p)
    BY <1>1 DEF Starts
  <2> QED
    BY <2>1 DEF Outcome
<1>2. CASE Startable(c)
  <2>1. /\ ~c.pid /\ ~c.pgid /\ p.leader = "none" /\ ~p.helpers /\ p \in Procs
        /\ c.state \notin {"crash_loop", "disabled"} /\ Typed(c)
    BY <1>2 DEF Startable, Safe, Fit, Owns
  <2>2. Exists(p) = FALSE
    BY <2>1 DEF Exists
  <2>3. \/ r = Outcome(NotSpawned(c), p)
        \/ r = [c |-> NotRegistered(c), p |-> p, forked |-> TRUE, over |-> Exists(p)]
        \/ \E d \in Spawned(c), s \in Eras :
             r = [c |-> d, forked |-> TRUE, over |-> Exists(p),
                  p |-> [leader |-> "alive", helpers |-> FALSE, speaks |-> s]]
    BY <1>2 DEF Starts
  <2> DEFINE e == Cleared(c)
             u == [e EXCEPT !.state = "failed"]
             v == [e EXCEPT !.state = "failed", !.started = TRUE, !.clean = FALSE]
  <2>4. NotSpawned(c) = ScheduleRestart(u) /\ NotRegistered(c) = ScheduleRestart(v)
    BY DEF NotSpawned, NotRegistered
  <2>5. /\ Typed(e) /\ SameProcess(c, e) /\ e.flags = c.flags \cap {"MANUAL_STOP"}
        /\ e.era = "unknown" /\ e.calls = {} /\ e.tools = FALSE
    BY <2>1, ClearedFields
  <2> HIDE DEF e
  <2>6. /\ Typed(u) /\ u.pid = e.pid /\ u.pgid = e.pgid /\ u.state = "failed"
        /\ u.flags = e.flags /\ u.era = e.era /\ u.calls = e.calls /\ u.tools = e.tools
    BY <2>5 DEF Typed, IsChild, ChildFields
  <2>7. /\ Typed(v) /\ v.pid = e.pid /\ v.pgid = e.pgid /\ v.state = "failed"
        /\ v.flags = e.flags /\ v.era = e.era /\ v.calls = e.calls /\ v.tools = e.tools
    BY <2>5 DEF Typed, IsChild, ChildFields
  <2> HIDE DEF u, v
  <2>8. Safe(NotSpawned(c), p) /\ Safe(NotRegistered(c), p)
    <3>1. /\ ~u.pid /\ u.pgid = c.pgid /\ u.flags \subseteq {"MANUAL_STOP"}
          /\ u.era = "unknown" /\ u.calls = {} /\ u.tools = FALSE
      BY <2>1, <2>5, <2>6 DEF SameProcess
    <3>2. /\ ~v.pid /\ v.pgid = c.pgid /\ v.flags \subseteq {"MANUAL_STOP"}
          /\ v.era = "unknown" /\ v.calls = {} /\ v.tools = FALSE
      BY <2>1, <2>5, <2>7 DEF SameProcess
    <3>3. Safe(ScheduleRestart(u), p)
      BY <2>1, <2>6, <3>1, NoStartSafe, Zenon
    <3>4. Safe(ScheduleRestart(v), p)
      BY <2>1, <2>7, <3>2, NoStartSafe, Zenon
    <3> QED
      BY <2>4, <3>3, <3>4
  <2>9. CASE r = Outcome(NotSpawned(c), p)
    BY <1>2, <2>1, <2>8, <2>9 DEF Outcome
  <2>10. CASE r = [c |-> NotRegistered(c), p |-> p, forked |-> TRUE, over |-> Exists(p)]
    BY <1>2, <2>1, <2>2, <2>8, <2>10
  <2>11. CASE \E d \in Spawned(c), s \in Eras :
             r = [c |-> d, forked |-> TRUE, over |-> Exists(p),
                  p |-> [leader |-> "alive", helpers |-> FALSE, speaks |-> s]]
    BY <1>2, <2>1, <2>2, <2>11, SpawnedSafe
  <2> QED
    BY <2>3, <2>9, <2>10, <2>11
<1> QED
  BY <1>1, <1>2

----------------------------------------------------------------------------
(* af_mcp_sweep_child.                                                      *)

\* A child at rest is not touched before the start.
LEMMA RestedIsQuiet ==
  ASSUME NEW c, NEW p, Rested(c, p), NEW b \in SweepOutbox(c), NEW d \in SweepSession(b)
  PROVE  d = c
<1>1. b = c
  BY DEF SweepOutbox, Rested
<1>2. Expired(c) = {} /\ Typed(c) /\ c.calls = {} /\ c.state \notin LiveStates
  BY SafeCalls DEF Expired, Rested, Blank
<1>3. Retired(c) = c
  <2>1. {IF k \in Expired(c) THEN [k EXCEPT !.done = TRUE, !.status = "timeout"]
         ELSE k : k \in c.calls} = {}
    BY <1>2
  <2>2. Retired(c) = [c EXCEPT !.calls = {}]
    BY <2>1 DEF Retired
  <2> QED
    BY <1>2, <2>2 DEF Typed, IsChild, ChildFields
<1>4. SweptCalls(c) = {[ok |-> TRUE, c |-> c]}
  BY <1>2, <1>3 DEF SweptCalls
<1>5. d \in Advance(c)
  BY <1>1, <1>4 DEF SweepSession
<1> QED
  BY <1>2, <1>5 DEF Advance, LiveStates

\* .no_child: nothing but the group is given up.
LEMMA SweepGroupSafe ==
  ASSUME NEW c, NEW p, Safe(c, p), ~c.pid, NEW g \in SweepGroup(c, p)
  PROVE  /\ Safe(g.c, g.p) /\ ~g.c.pid /\ g.p.leader = "none" /\ ~g.over
         /\ Rested(c, p) => Rested(g.c, g.p)
         /\ g.c.state = c.state /\ g.c.next = c.next /\ g.c.started = c.started
         /\ "MANUAL_STOP" \in g.c.flags <=> "MANUAL_STOP" \in c.flags
<1>1. p.leader = "none" /\ Typed(c) /\ p \in Procs
  BY DEF Safe, Fit, Owns
<1>2. CASE ~c.pgid
  <2>1. g = Outcome(c, p)
    BY <1>2 DEF SweepGroup
  <2>2. g.c = c /\ g.p = p /\ ~g.over
    BY <2>1 DEF Outcome
  <2> QED
    BY <1>1, <2>2
<1>3. CASE c.pgid
  <2>1. g \in TornDown(c, p)
    BY <1>3 DEF SweepGroup
  <2>2. /\ Ended(c, g.c) /\ g.c.pid = c.pid
        /\ g.p \in Procs /\ (g.p.helpers => g.c.pgid)
        /\ g.p.leader = "none" <=> p.leader = "none"
        /\ ~g.over
    BY <1>1, <1>3, <2>1, TornDownFields
  <2>3. Bare(g.c, g.p)
    BY <1>1, <2>2 DEF Bare, Ended, Safe, Fit
  <2>4. c.state \notin LiveStates
    BY DEF Safe, Fit, Session, Blank
  <2>5. Rested(g.c, g.p)
    BY <2>2, <2>3, <2>4, BareRests DEF Ended
  <2> QED
    BY <1>1, <2>2, <2>5 DEF Ended, Rested
<1> QED
  BY <1>2, <1>3

\* The start, if one is due.
LEMMA SweepStartSafe ==
  ASSUME NEW c, NEW p, Safe(c, p), NEW r \in SweepStart(c, p)
  PROVE  /\ Safe(r.c, r.p) /\ ~r.over
         /\ \/ r.c = c /\ r.p = p
            \/ StartIsDue(c) /\ Startable(c) /\ p.leader = "none"
<1>1. CASE StartIsDue(c)
  BY <1>1, StartsSafe DEF SweepStart
<1>2. CASE ~StartIsDue(c)
  <2>1. r = Outcome(c, p)
    BY <1>2 DEF SweepStart
  <2> QED
    BY <2>1 DEF Outcome
<1> QED
  BY <1>1, <1>2

\* What one sweep may do to the child c with the process p.
Sweeping(c, p, r) ==
  /\ Safe(r.c, r.p) /\ ~r.over
  /\ Resting(c) => Resting(r.c) /\ (p.leader = "none" => r.p.leader = "none")
  /\ c.state = "crash_loop" => r.c.state = "crash_loop" /\ r.p.leader = "none"
  /\ (/\ p.leader = "clean" /\ r.p.leader # "clean" /\ c.cfg.mode # "always"
      /\ c.flags \cap {"PROCESS_FAILURE", "MANUAL_RESTART", "LEGACY_NEXT"} = {})
     => r.c.state = "stopped"
  /\ p.leader # "none" /\ r.p.leader # "none" => c.calls = {} \/ Later(c, r.c)

\* The phases of a sweep.
LEMMA SweepPhases ==
  ASSUME NEW c, NEW p, NEW r \in Sweeps(c, p)
  PROVE  \E s \in SweepProcess(c, p) : \E g \in SweepGroup(s.c, s.p) :
           \/ ~g.c.pid /\ g.c.pgid /\ r = g
           \/ /\ ~(~g.c.pid /\ g.c.pgid)
              /\ \E b \in SweepOutbox(g.c) : \E d \in SweepSession(b) :
                   r \in SweepStart(d, g.p)
<1>1. PICK g \in UNION {SweepGroup(s.c, s.p) : s \in SweepProcess(c, p)} :
        r \in (IF ~g.c.pid /\ g.c.pgid THEN {g}
               ELSE UNION {SweepStart(d, g.p)
                           : d \in UNION {SweepSession(b) : b \in SweepOutbox(g.c)}})
  BY DEF Sweeps
<1>2. PICK s \in SweepProcess(c, p) : g \in SweepGroup(s.c, s.p)
  BY <1>1
<1>3. CASE ~g.c.pid /\ g.c.pgid
  BY <1>1, <1>2, <1>3
<1>4. CASE ~(~g.c.pid /\ g.c.pgid)
  <2>1. PICK d \in UNION {SweepSession(b) : b \in SweepOutbox(g.c)} :
          r \in SweepStart(d, g.p)
    BY <1>1, <1>4
  <2>2. PICK b \in SweepOutbox(g.c) : d \in SweepSession(b)
    BY <2>1
  <2> QED
    BY <1>2, <1>4, <2>1, <2>2
<1> QED
  BY <1>3, <1>4

\* Two phases that leave the process alone.
LEMMA TwoPhases ==
  ASSUME NEW c, NEW p, Safe(c, p), NEW b \in SweepOutbox(c), NEW d \in SweepSession(b)
  PROVE  Handled(c, p, d)
<1>1. Handled(c, p, b)
  BY SweepOutboxHandled
<1>2. Handled(b, p, d)
  BY <1>1, SweepSessionHandled DEF Handled
<1>3. c.nextId \in Nat
  BY SafeCalls
<1> QED
  BY <1>1, <1>2, <1>3, HandledTransitive

\* A sweep of a child that has no process.
LEMMA SweepIdle ==
  ASSUME NEW c, NEW p, Safe(c, p), ~c.pid, NEW r \in Sweeps(c, p)
  PROVE  Sweeping(c, p, r)
<1>0. PICK s \in SweepProcess(c, p) : \E g \in SweepGroup(s.c, s.p) :
        \/ ~g.c.pid /\ g.c.pgid /\ r = g
        \/ /\ ~(~g.c.pid /\ g.c.pgid)
           /\ \E b \in SweepOutbox(g.c) : \E d \in SweepSession(b) :
                r \in SweepStart(d, g.p)
  BY SweepPhases
<1>1. PICK g \in SweepGroup(s.c, s.p) :
        \/ ~g.c.pid /\ g.c.pgid /\ r = g
        \/ /\ ~(~g.c.pid /\ g.c.pgid)
           /\ \E b \in SweepOutbox(g.c) : \E d \in SweepSession(b) :
                r \in SweepStart(d, g.p)
  BY <1>0
<1>2. s.c = c /\ s.p = p
  BY <1>0 DEF SweepProcess, Outcome
<1>3. p.leader = "none"
  BY DEF Safe, Owns
<1>4. /\ Safe(g.c, g.p) /\ ~g.c.pid /\ g.p.leader = "none" /\ ~g.over
      /\ g.c.state = c.state
      /\ "MANUAL_STOP" \in g.c.flags <=> "MANUAL_STOP" \in c.flags
  <2>1. g \in SweepGroup(c, p)
    BY <1>1, <1>2
  <2> QED
    BY <2>1, SweepGroupSafe
<1>5. Resting(c) => Resting(g.c)
  BY <1>4 DEF Resting
<1>6. CASE r = g
  BY <1>3, <1>4, <1>5, <1>6 DEF Sweeping
<1>7. ASSUME NEW b \in SweepOutbox(g.c), NEW d \in SweepSession(b),
             r \in SweepStart(d, g.p)
      PROVE  Sweeping(c, p, r)
  <2>1. Handled(g.c, g.p, d)
    BY <1>4, TwoPhases
  <2>2. /\ Safe(d, g.p) /\ (Resting(c) => Resting(d))
        /\ (c.state = "crash_loop" => d.state = "crash_loop")
    BY <1>4, <1>5, <2>1 DEF Handled, Stays
  <2>3. /\ Safe(r.c, r.p) /\ ~r.over
        /\ \/ r.c = d /\ r.p = g.p
           \/ StartIsDue(d) /\ Startable(d) /\ g.p.leader = "none"
    BY <1>7, <2>2, SweepStartSafe
  <2>4. Resting(d) => ~StartIsDue(d)
    BY DEF Resting, StartIsDue, Has
  <2>5. d.state = "crash_loop" => ~Startable(d)
    BY DEF Startable
  <2> QED
    BY <1>3, <1>4, <2>2, <2>3, <2>4, <2>5 DEF Sweeping
<1> QED
  BY <1>1, <1>6, <1>7

\* A sweep that collects the process.
LEMMA SweepCollects ==
  ASSUME NEW c, NEW p, Safe(c, p), c.pid, p.leader \in Zombies, NEW r \in Sweeps(c, p)
  PROVE  Sweeping(c, p, r)
<1>0. PICK s \in SweepProcess(c, p) : \E g \in SweepGroup(s.c, s.p) :
        \/ ~g.c.pid /\ g.c.pgid /\ r = g
        \/ /\ ~(~g.c.pid /\ g.c.pgid)
           /\ \E b \in SweepOutbox(g.c) : \E d \in SweepSession(b) :
                r \in SweepStart(d, g.p)
  BY SweepPhases
<1>1. PICK g \in SweepGroup(s.c, s.p) :
        \/ ~g.c.pid /\ g.c.pgid /\ r = g
        \/ /\ ~(~g.c.pid /\ g.c.pgid)
           /\ \E b \in SweepOutbox(g.c) : \E d \in SweepSession(b) :
                r \in SweepStart(d, g.p)
  BY <1>0
<1>2. PICK t \in Collected(c, p) : s = Outcome(AfterExit(t.c), t.p)
  BY <1>0 DEF SweepProcess
<1>3. s.c = AfterExit(t.c) /\ s.p = t.p
  BY <1>2 DEF Outcome
<1>4. /\ Ended(c, t.c) /\ ~t.c.pid /\ t.c.clean = (p.leader = "clean")
      /\ t.p \in Procs /\ t.p.leader = "none" /\ (t.p.helpers => t.c.pgid)
  <2>1. Typed(c) /\ p \in Procs /\ (p.helpers => c.pgid)
    BY DEF Safe, Fit, Owns
  <2> QED
    BY <2>1, CollectedFields
<1>5. /\ c.started /\ p.leader # "none"
      /\ c.state \notin {"crash_loop", "disabled"}
      /\ "STOPPING" \in c.flags \/ "LEGACY_NEXT" \in c.flags => Blank(c)
  BY DEF Safe, Fit, Session, Zombies
<1>6. /\ Bare(t.c, t.p) /\ t.c.started
      /\ "STOPPING" \in t.c.flags => t.c.state \notin LiveStates
  BY <1>4, <1>5 DEF Bare, Ended, Safe, Fit, Blank
<1>7. /\ Rested(s.c, s.p) /\ s.c.started = t.c.started
      /\ Resting(t.c) => Resting(s.c)
      /\ s.c.state = "restarting" /\ s.c.next <= 0
           => "STOPPING" \in t.c.flags \/ "LEGACY_NEXT" \in t.c.flags
      /\ /\ t.c.clean /\ t.c.cfg.mode # "always"
         /\ t.c.flags \cap {"PROCESS_FAILURE", "MANUAL_RESTART", "LEGACY_NEXT"} = {}
         => s.c.state = "stopped"
  BY <1>3, <1>6, AfterExitRests
<1>8. /\ Rested(g.c, g.p) /\ g.p.leader = "none" /\ ~g.over
      /\ g.c.state = s.c.state /\ g.c.next = s.c.next /\ g.c.started = s.c.started
      /\ "MANUAL_STOP" \in g.c.flags <=> "MANUAL_STOP" \in s.c.flags
  <2>1. Safe(s.c, s.p) /\ ~s.c.pid
    BY <1>7 DEF Rested
  <2> QED
    BY <1>1, <1>7, <2>1, SweepGroupSafe
<1> DEFINE Clean == /\ p.leader = "clean" /\ c.cfg.mode # "always"
                    /\ c.flags \cap {"PROCESS_FAILURE", "MANUAL_RESTART", "LEGACY_NEXT"} = {}
<1>9. Clean => g.c.state = "stopped"
  BY <1>4, <1>7, <1>8 DEF Ended
<1>10. Resting(c) => Resting(g.c)
  BY <1>4, <1>7, <1>8 DEF Ended, Resting
<1>11. g.c.state = "restarting" /\ g.c.next <= 0 => c.calls = {}
  BY <1>4, <1>5, <1>7, <1>8 DEF Ended, Blank
<1>12. g.c.started
  BY <1>5, <1>4, <1>7, <1>8 DEF Ended
<1> HIDE DEF Clean
<1>13. CASE r.c = g.c /\ r.p = g.p /\ ~r.over
  BY <1>5, <1>8, <1>9, <1>10, <1>13 DEF Sweeping, Rested, Clean
<1>14. ASSUME NEW b \in SweepOutbox(g.c), NEW d \in SweepSession(b),
              r \in SweepStart(d, g.p)
       PROVE  Sweeping(c, p, r)
  <2>1. d = g.c
    BY <1>8, RestedIsQuiet
  <2>2. /\ Safe(r.c, r.p) /\ ~r.over
        /\ \/ r.c = g.c /\ r.p = g.p
           \/ StartIsDue(g.c)
    BY <1>8, <1>14, <2>1, SweepStartSafe DEF Rested
  <2>3. StartIsDue(g.c) => g.c.state = "restarting" /\ g.c.next <= 0
    BY <1>12 DEF StartIsDue
  <2>4. CASE StartIsDue(g.c)
    <3>1. ~Resting(g.c) /\ ~Clean /\ c.calls = {}
      BY <1>9, <1>11, <2>3, <2>4 DEF Resting
    <3> QED
      BY <1>5, <1>10, <2>2, <3>1 DEF Sweeping, Clean
  <2> QED
    BY <1>13, <2>2, <2>4
<1> QED
  BY <1>1, <1>8, <1>13, <1>14

\* A sweep of a process that is still there.
LEMMA SweepLives ==
  ASSUME NEW c, NEW p, Safe(c, p), c.pid, p.leader \notin Zombies, NEW r \in Sweeps(c, p)
  PROVE  Sweeping(c, p, r)
<1>0. PICK s \in SweepProcess(c, p) : \E g \in SweepGroup(s.c, s.p) :
        \/ ~g.c.pid /\ g.c.pgid /\ r = g
        \/ /\ ~(~g.c.pid /\ g.c.pgid)
           /\ \E b \in SweepOutbox(g.c) : \E d \in SweepSession(b) :
                r \in SweepStart(d, g.p)
  BY SweepPhases
<1>1. PICK g \in SweepGroup(s.c, s.p) :
        \/ ~g.c.pid /\ g.c.pgid /\ r = g
        \/ /\ ~(~g.c.pid /\ g.c.pgid)
           /\ \E b \in SweepOutbox(g.c) : \E d \in SweepSession(b) :
                r \in SweepStart(d, g.p)
  BY <1>0
<1>2. s = Escalated(c, p)
  BY <1>0 DEF SweepProcess
<1>3. /\ Safe(s.c, s.p) /\ Handled(c, p, s.c)
  BY <1>2, EscalatedHandled
<1>4. s.c.pid /\ c.state # "crash_loop" /\ p.leader # "none" /\ p.leader # "clean"
  BY <1>3 DEF Handled, SameProcess, Safe, Fit, Owns, Zombies
<1>5. g.c = s.c /\ g.p = s.p
  BY <1>1, <1>4 DEF SweepGroup, Outcome
<1>6. PICK b \in SweepOutbox(g.c) : \E d \in SweepSession(b) : r \in SweepStart(d, g.p)
  BY <1>1, <1>4, <1>5
<1>7. PICK d \in SweepSession(b) : r \in SweepStart(d, g.p)
  BY <1>6
<1>8. Handled(s.c, s.p, d)
  BY <1>3, <1>5, <1>6, <1>7, TwoPhases
<1>9. d.pid /\ Safe(d, s.p)
  BY <1>4, <1>8 DEF Handled, SameProcess
<1>10. Safe(r.c, r.p) /\ ~r.over /\ r.c = d
  <2>1. r \in SweepStart(d, s.p)
    BY <1>5, <1>7
  <2>2. /\ Safe(r.c, r.p) /\ ~r.over
        /\ \/ r.c = d /\ r.p = s.p
           \/ StartIsDue(d) /\ Startable(d) /\ s.p.leader = "none"
    BY <1>9, <2>1, SweepStartSafe, Zenon
  <2> QED
    BY <1>9, <2>2 DEF Startable
<1>11. Later(c, d)
  <2>1. c.nextId \in Nat /\ s.c.nextId \in Nat /\ d.nextId \in Nat
        /\ \A l \in d.calls : l.id \in Nat
    BY <1>3, <1>9, SafeCalls
  <2> QED
    BY <1>3, <1>8, <2>1, LaterTransitive DEF Handled
<1>12. Resting(c) => Resting(d)
  BY <1>3, <1>8 DEF Handled, Stays
<1> QED
  BY <1>4, <1>10, <1>11, <1>12 DEF Sweeping

LEMMA SweepsSafe ==
  ASSUME NEW c, NEW p, Safe(c, p), NEW r \in Sweeps(c, p)
  PROVE  Sweeping(c, p, r)
BY SweepIdle, SweepCollects, SweepLives

----------------------------------------------------------------------------
(* The actions keep the invariant, and each is lawful.                      *)

\* What the action properties say of one step.
Lawful ==
  /\ halted /\ halted' => ~(proc.leader = "none" /\ proc'.leader = "alive")
  /\ child.state = "crash_loop" =>
       (child'.state = "crash_loop" /\ proc'.leader = "none") \/ Reset
  /\ (/\ proc.leader = "clean" /\ proc'.leader # "clean" /\ daemon = "running"
      /\ child.cfg.mode # "always"
      /\ child.flags \cap {"PROCESS_FAILURE", "MANUAL_RESTART", "LEGACY_NEXT"} = {})
     => child'.state = "stopped"
  /\ proc.leader # "none" /\ proc'.leader # "none" =>
       \A k \in child.calls, l \in child'.calls :
         k.done /\ k.id = l.id => l.done /\ l.status = k.status

LEMMA LaterKeeps ==
  ASSUME NEW c, NEW p, Fit(c, p), NEW d, Later(c, d)
  PROVE  \A k \in c.calls, l \in d.calls :
           k.done /\ k.id = l.id => l.done /\ l.status = k.status
<1>1. CASE Blank(c)
  BY <1>1 DEF Blank
<1>2. CASE Session(c, p)
  <2> SUFFICES ASSUME NEW k \in c.calls, NEW l \in d.calls, k.done, k.id = l.id
               PROVE  l.done /\ l.status = k.status
    OBVIOUS
  <2>1. k.id \in Nat /\ k.id <= c.nextId /\ c.nextId \in Nat
    BY <1>2 DEF Session, Tracked, Calls, Fit, Typed
  <2>2. PICK j \in c.calls : j.id = l.id /\ (j.done => l.done /\ l.status = j.status)
    BY <2>1 DEF Later
  <2>3. j = k
    BY <1>2, <2>2 DEF Session, Tracked
  <2> QED
    BY <2>2, <2>3
<1> QED
  BY <1>1, <1>2 DEF Fit

\* While the daemon is not down the child and its process go together.
LEMMA InvIsSafe ==
  ASSUME SupInv, daemon # "down"
  PROVE  Safe(child, proc)
BY DEF SupInv, Safe

\* A handler that touches the child alone.
LEMMA HandleLawful ==
  ASSUME SupInv, NEW d, Handle(d), Handled(child, proc, d)
  PROVE  SupInv' /\ Lawful
<1>1. /\ daemon = "running" /\ child' = d /\ proc' = proc /\ daemon' = daemon
      /\ polls' = polls /\ halted' = halted /\ lost' = lost
  BY DEF Handle
<1>2. Fit(d, proc) /\ Owns(d, proc) /\ Stays(child, d) /\ Later(child, d)
  BY DEF Handled, Safe
<1>3. SupInv'
  BY <1>1, <1>2 DEF SupInv, Stays
<1>4. \A k \in child.calls, l \in d.calls :
        k.done /\ k.id = l.id => l.done /\ l.status = k.status
  BY <1>2, LaterKeeps DEF SupInv
<1>5. Lawful
  BY <1>1, <1>2, <1>4 DEF Lawful, Stays, SupInv, Fit
<1> QED
  BY <1>3, <1>5

\* A step of the processes.
LEMMA WorldLawful ==
  ASSUME SupInv, World, proc' \in Procs, proc'.speaks = proc.speaks,
         proc'.leader = "none" <=> proc.leader = "none",
         proc'.leader = "alive" => proc.leader = "alive",
         proc.leader = "clean" => proc'.leader = "clean",
         proc'.helpers => proc.helpers \/ proc.leader # "none"
  PROVE  SupInv' /\ Lawful
<1>1. /\ child' = child /\ daemon' = daemon /\ polls' = polls
      /\ halted' = halted /\ lost' = lost
  BY DEF World
<1>2. Tracked(child, proc) => Tracked(child, proc')
  BY DEF Tracked
<1>3. Fit(child, proc')
  BY <1>2 DEF SupInv, Fit, Session
<1>4. Owns(child, proc) => Owns(child, proc')
  BY DEF Owns
<1>5. SupInv'
  BY <1>1, <1>3, <1>4 DEF SupInv
<1>6. Later(child, child)
  <2>1. child.nextId \in Nat
    BY DEF SupInv, Fit, Typed
  <2> QED
    BY <2>1, LaterSelf
<1>7. \A k \in child.calls, l \in child.calls :
        k.done /\ k.id = l.id => l.done /\ l.status = k.status
  BY <1>6, LaterKeeps DEF SupInv
<1>8. Lawful
  BY <1>1, <1>7 DEF Lawful, SupInv, Fit
<1> QED
  BY <1>5, <1>8

LEMMA WorldStep ==
  ASSUME SupInv, Exit \/ Fork \/ HelpersExit \/ Dies
  PROVE  SupInv' /\ Lawful
<1>1. proc \in Procs
  BY DEF SupInv, Fit
<1>2. World
  BY DEF Exit, Fork, HelpersExit, Dies
<1>3. /\ proc' \in Procs /\ proc'.speaks = proc.speaks
      /\ proc'.leader = "none" <=> proc.leader = "none"
      /\ proc'.leader = "alive" => proc.leader = "alive"
      /\ proc.leader = "clean" => proc'.leader = "clean"
      /\ proc'.helpers => proc.helpers \/ proc.leader # "none"
  <2>1. CASE Exit
    BY <1>1, <2>1 DEF Exit, Procs, Zombies
  <2>2. CASE Fork
    BY <1>1, <2>2 DEF Fork, Procs
  <2>3. CASE HelpersExit
    BY <1>1, <2>3 DEF HelpersExit, Procs
  <2>4. CASE Dies
    BY <1>1, <2>4 DEF Dies, Procs, Zombies
  <2> QED
    BY <2>1, <2>2, <2>3, <2>4
<1> QED
  BY <1>2, <1>3, WorldLawful

\* The timer.
LEMMA SweepStep ==
  ASSUME SupInv, Sweep
  PROVE  SupInv' /\ Lawful
<1>1. PICK r \in Sweeps(child, proc) : Apply(r)
  BY DEF Sweep
<1>2. /\ daemon = "running" /\ child' = r.c /\ proc' = r.p /\ daemon' = daemon
      /\ polls' = polls /\ halted' = halted /\ lost' = (lost \/ r.over)
  BY <1>1 DEF Sweep, Apply
<1>3. Sweeping(child, proc, r)
  BY <1>1, <1>2, InvIsSafe, SweepsSafe
<1>4. Fit(r.c, r.p) /\ Owns(r.c, r.p) /\ ~r.over
  BY <1>3 DEF Sweeping, Safe
<1>5. SupInv'
  BY <1>2, <1>3, <1>4 DEF SupInv, Sweeping
<1>6. proc.leader # "none" /\ r.p.leader # "none" =>
        \A k \in child.calls, l \in r.c.calls :
          k.done /\ k.id = l.id => l.done /\ l.status = k.status
  BY <1>3, LaterKeeps DEF SupInv, Sweeping
<1>7. Lawful
  BY <1>2, <1>3, <1>6 DEF Lawful, SupInv, Sweeping
<1> QED
  BY <1>5, <1>7

\* The pipes.
LEMMA PipeStep ==
  ASSUME SupInv, OnResponse \/ OnCorruption \/ OnEof \/ OnStderr
  PROVE  SupInv' /\ Lawful
<1>1. daemon = "running"
  BY DEF OnResponse, OnCorruption, OnEof, OnStderr, Handle
<1>2. Safe(child, proc) /\ child.nextId \in Nat
  BY <1>1, InvIsSafe, SafeCalls
<1>3. CASE OnResponse
  <2>1. PICK k \in child.calls : \E st \in Statuses(k.kind) :
          \E c \in Advance(Answered(child, k.id, st)) : Handle(c)
    BY <1>3 DEF OnResponse
  <2>2. PICK st \in Statuses(k.kind) :
          \E c \in Advance(Answered(child, k.id, st)) : Handle(c)
    BY <2>1
  <2>3. PICK c \in Advance(Answered(child, k.id, st)) : Handle(c)
    BY <2>2
  <2>4. /\ st \in {"refused", "ok"}
        /\ st = "ok" => /\ k.kind = "discover" => proc.speaks = "modern"
                        /\ k.kind = "initialize" => proc.speaks = "legacy"
    BY <2>2 DEF Statuses
  <2> DEFINE d == Answered(child, k.id, st)
  <2>5. Handled(child, proc, d)
    BY <1>2, <2>4, AnsweredHandled
  <2>6. Handled(d, proc, c)
    BY <2>3, <2>5, AdvanceHandled DEF Handled
  <2> HIDE DEF d
  <2>7. Handled(child, proc, c)
    BY <1>2, <2>5, <2>6, HandledTransitive
  <2> QED
    BY <2>3, <2>7, HandleLawful
<1>4. CASE OnCorruption
  <2> DEFINE d == DropPipe(child, "stdout")
  <2>1. Handle(ChildFailed(d, "PROTOCOL"))
    BY <1>4 DEF OnCorruption
  <2>2. Handled(child, proc, d)
    BY <1>2, DropHandled
  <2> HIDE DEF d
  <2>3. Handled(child, proc, ChildFailed(d, "PROTOCOL"))
    BY <1>2, <2>2, FailedHandled
  <2> QED
    BY <2>1, <2>3, HandleLawful
<1>5. CASE OnEof
  <2> DEFINE d == DropPipe([child EXCEPT !.flags = @ \cup {"EOF"}], "stdout")
  <2>1. Handle(ChildFailed(d, "EOF"))
    BY <1>5 DEF OnEof
  <2>2. Handled(child, proc, d) /\ "EOF" \in d.flags
    BY <1>2, DropHandled
  <2> HIDE DEF d
  <2>3. Handled(child, proc, ChildFailed(d, "EOF"))
    BY <1>2, <2>2, FailedHandled
  <2> QED
    BY <2>1, <2>3, HandleLawful
<1>6. CASE OnStderr
  <2> DEFINE d == DropPipe(child, "stderr")
  <2>1. Handle(d) \/ Handle(ChildFailed(d, "READ"))
    BY <1>6 DEF OnStderr
  <2>2. Handled(child, proc, d)
    BY <1>2, DropHandled
  <2> HIDE DEF d
  <2>3. Handled(child, proc, ChildFailed(d, "READ"))
    BY <1>2, <2>2, FailedHandled
  <2> QED
    BY <2>1, <2>2, <2>3, HandleLawful
<1> QED
  BY <1>3, <1>4, <1>5, <1>6

\* The clock.
LEMMA PassStep ==
  ASSUME SupInv, Pass
  PROVE  SupInv' /\ Lawful
<1> DEFINE d == Elapse(child)
<1>1. /\ daemon = "running" /\ child' = d /\ proc' = proc /\ daemon' = daemon
      /\ polls' = polls /\ halted' = halted /\ lost' = lost
  BY DEF Pass
<1>2. Handled(child, proc, d)
  BY <1>1, InvIsSafe, ElapseHandled
<1> HIDE DEF d
<1>3. Fit(d, proc) /\ Owns(d, proc) /\ Stays(child, d) /\ Later(child, d)
  BY <1>2 DEF Handled, Safe
<1>4. SupInv'
  BY <1>1, <1>3 DEF SupInv, Stays
<1>5. \A k \in child.calls, l \in d.calls :
        k.done /\ k.id = l.id => l.done /\ l.status = k.status
  BY <1>3, LaterKeeps DEF SupInv
<1>6. Lawful
  BY <1>1, <1>3, <1>5 DEF Lawful, Stays, SupInv, Fit
<1> QED
  BY <1>4, <1>6

\* The operator's start.
LEMMA ManualStartStep ==
  ASSUME SupInv, ManualStart
  PROVE  SupInv' /\ Lawful
<1> DEFINE c == [child EXCEPT !.flags = @ \ {"MANUAL_STOP"}]
<1>1. PICK r \in Starts(c, proc) :
        child' = r.c /\ proc' = r.p /\ lost' = (lost \/ r.over)
  BY DEF ManualStart
<1>2. /\ daemon = "running" /\ daemon' = daemon /\ polls' = polls /\ ~halted'
      /\ ~child.pid /\ child.state # "crash_loop"
  BY DEF ManualStart, Accepted, Latched
<1>3. Safe(child, proc) /\ Typed(child)
  BY <1>2, InvIsSafe, SafeCalls
<1>4. /\ Typed(c) /\ SameProcess(child, c) /\ c.state = child.state
      /\ c.flags = child.flags \ {"MANUAL_STOP"} /\ c.era = child.era
      /\ c.calls = child.calls /\ c.tools = child.tools
  BY <1>3 DEF Typed, IsChild, ChildFields, SameProcess
<1> HIDE DEF c
<1>5. Safe(c, proc)
  BY <1>2, <1>3, <1>4 DEF Safe, Fit, Owns, Session, Blank, SameProcess
<1>6. Safe(r.c, r.p) /\ ~r.over
  BY <1>5, StartsSafe
<1>7. SupInv'
  BY <1>1, <1>2, <1>6 DEF SupInv, Safe
<1>8. proc.leader = "none"
  BY <1>2, <1>3 DEF Safe, Owns
<1>9. Lawful
  BY <1>2, <1>8 DEF Lawful
<1> QED
  BY <1>7, <1>9

\* The operator's stop.
LEMMA ManualStopStep ==
  ASSUME SupInv, ManualStop
  PROVE  SupInv' /\ Lawful
<1>1. PICK r \in Stops(child, proc) : child' = r.c /\ proc' = r.p
  BY DEF ManualStop
<1>2. /\ daemon = "running" /\ daemon' = daemon /\ polls' = polls /\ lost' = lost
      /\ child.state \notin {"crash_loop", "disabled"}
  BY DEF ManualStop, Accepted, Latched
<1>3. Safe(child, proc)
  BY <1>2, InvIsSafe
<1>4. /\ Safe(r.c, r.p) /\ Resting(r.c) /\ r.c.calls = {} /\ r.c.state = "stopped"
      /\ proc.leader = "none" => r.p.leader = "none"
  BY <1>2, <1>3, StopsRests
<1>5. SupInv'
  BY <1>1, <1>2, <1>4 DEF SupInv, Safe
<1>6. Lawful
  BY <1>1, <1>2, <1>4 DEF Lawful
<1> QED
  BY <1>5, <1>6

\* The operator's restart.
LEMMA ManualRestartStep ==
  ASSUME SupInv, ManualRestart
  PROVE  SupInv' /\ Lawful
<1> DEFINE wanted == [child EXCEPT !.flags = @ \ {"MANUAL_STOP"}]
           stopping ==
             [wanted EXCEPT !.state = "restarting",
                !.flags = (@ \cup {"STOPPING", "RESTART_AFTER_STOP", "MANUAL_RESTART"})
                          \ {"TERM_SENT"}]
           view == Invalidate(stopping)
           halting == ArmGrace(CloseStdin(view))
           over == [wanted EXCEPT !.flags = @ \ StopFlags]
           idle == Invalidate(over)
           again == RestartNow(idle)
<1>1. /\ daemon = "running" /\ daemon' = daemon /\ polls' = polls /\ ~halted'
      /\ lost' = lost /\ proc' = proc /\ child.state # "crash_loop"
      /\ child' = IF child.pid THEN halting ELSE again
  BY DEF ManualRestart, Accepted, Latched
<1>2. Safe(child, proc) /\ Typed(child)
  BY <1>1, InvIsSafe, SafeCalls
<1>3. /\ Typed(wanted) /\ SameProcess(child, wanted)
      /\ wanted.flags = child.flags \ {"MANUAL_STOP"}
  BY <1>2 DEF Typed, IsChild, ChildFields, SameProcess
<1> HIDE DEF wanted
<1>4. /\ Typed(stopping) /\ SameProcess(wanted, stopping)
      /\ stopping.state = "restarting" /\ "MANUAL_RESTART" \in stopping.flags
  BY <1>3 DEF Typed, IsChild, ChildFields, SameProcess
<1> HIDE DEF stopping
<1>5. /\ Typed(view) /\ SameProcess(stopping, view) /\ view.state = "restarting"
      /\ "MANUAL_RESTART" \in view.flags
      /\ view.era = "unknown" /\ view.calls = {} /\ view.tools = FALSE
  BY <1>4, InvalidateFields
<1> HIDE DEF view
<1>6. /\ IsChild(halting) /\ SameProcess(view, halting) /\ halting.state = view.state
      /\ halting.flags = view.flags /\ halting.era = view.era
      /\ halting.calls = view.calls /\ halting.tools = view.tools
      /\ halting.next = Grace /\ halting.nextId = view.nextId
      /\ halting.backoff = view.backoff
  BY <1>5 DEF ArmGrace, CloseStdin, Typed, IsChild, ChildFields, SameProcess
<1> HIDE DEF halting
<1>7. Typed(halting)
  BY <1>5, <1>6, McpAssumption DEF Typed, SameProcess, NoDeadline
<1>8. /\ Typed(over) /\ SameProcess(wanted, over) /\ over.flags = wanted.flags \ StopFlags
  BY <1>3 DEF Typed, IsChild, ChildFields, SameProcess
<1> HIDE DEF over
<1>9. /\ Typed(idle) /\ SameProcess(over, idle)
      /\ idle.flags = over.flags \ {"LISTED", "TOOLS_CURRENT"}
      /\ idle.era = "unknown" /\ idle.calls = {} /\ idle.tools = FALSE
  BY <1>8, InvalidateFields
<1> HIDE DEF idle
<1>10. /\ Typed(again) /\ SameProcess(idle, again) /\ again.flags = idle.flags
       /\ again.era = idle.era /\ again.calls = idle.calls /\ again.tools = idle.tools
       /\ again.state = "restarting"
  BY <1>9, RestartNowFields
<1> HIDE DEF again
<1>11. Safe(halting, proc) /\ halting.calls = {}
  <2>1. SameProcess(child, halting) /\ Blank(halting)
    BY <1>3, <1>4, <1>5, <1>6 DEF SameProcess, Blank, LiveStates
  <2> QED
    BY <1>2, <1>5, <1>6, <1>7, <2>1 DEF Safe, Fit, Owns, SameProcess, Blank
<1>12. Safe(again, proc) /\ again.calls = {}
  <2>1. /\ SameProcess(child, again) /\ Blank(again)
        /\ "RESTART_AFTER_STOP" \notin again.flags
    BY <1>3, <1>8, <1>9, <1>10 DEF SameProcess, Blank, LiveStates, StopFlags
  <2> QED
    BY <1>2, <1>10, <2>1 DEF Safe, Fit, Owns, SameProcess, Blank
<1>13. Safe(child', proc) /\ child'.calls = {}
  BY <1>1, <1>11, <1>12
<1>14. SupInv'
  BY <1>1, <1>13 DEF SupInv, Safe
<1>15. Lawful
  BY <1>1, <1>13 DEF Lawful
<1> QED
  BY <1>14, <1>15

\* af_mcp_reset.
LEMMA ResetStep ==
  ASSUME SupInv, Reset
  PROVE  SupInv' /\ Lawful
<1> DEFINE flags == child.flags \ (StopFlags \cup LongLived)
           e == [child EXCEPT !.history = << >>, !.backoff = 0, !.flags = flags]
           d == RestartNow(e)
<1>1. /\ daemon = "running" /\ daemon' = daemon /\ polls' = polls /\ ~halted'
      /\ lost' = lost /\ proc' = proc /\ child' = d /\ ~child.pid
      /\ child.state = "crash_loop"
  BY DEF Reset, Accepted
<1>2. Safe(child, proc) /\ Typed(child)
  BY <1>1, InvIsSafe, SafeCalls
<1> HIDE DEF flags
<1>3. /\ Typed(e) /\ SameProcess(child, e) /\ e.flags = flags /\ e.era = child.era
      /\ e.calls = child.calls /\ e.tools = child.tools
  BY <1>2 DEF Typed, IsChild, ChildFields, SameProcess
<1> HIDE DEF e
<1>4. /\ Typed(d) /\ SameProcess(e, d) /\ d.flags = flags /\ d.era = child.era
      /\ d.calls = child.calls /\ d.tools = child.tools /\ d.state = "restarting"
  BY <1>3, RestartNowFields
<1> HIDE DEF d
<1>5. Blank(child) /\ "RESTART_AFTER_STOP" \notin flags
  BY <1>1, <1>2 DEF Safe, Fit, Session, flags, StopFlags
<1>6. Safe(d, proc)
  BY <1>2, <1>3, <1>4, <1>5 DEF Safe, Fit, Owns, SameProcess, Blank, LiveStates
<1>7. SupInv'
  BY <1>1, <1>6 DEF SupInv, Safe
<1>8. proc.leader = "none"
  BY <1>1, <1>2 DEF Safe, Owns
<1>9. Lawful
  BY <1>1, <1>8 DEF Lawful
<1> QED
  BY <1>7, <1>9

\* mcp.discover and mcp.tool_test.
LEMMA RequestStep ==
  ASSUME SupInv, Discover \/ ToolTest
  PROVE  SupInv' /\ Lawful
<1>1. daemon = "running"
  BY DEF Discover, ToolTest, Handle
<1>2. Safe(child, proc) /\ Typed(child)
  BY <1>1, InvIsSafe, SafeCalls
<1>3. CASE Discover
  <2> DEFINE old == {k \in child.calls : k.kind \in ListKinds}
             fresh == [child EXCEPT !.calls = @ \ old, !.flags = @ \ {"LISTED"}]
  <2>1. /\ child.state \in {"ready", "degraded"}
        /\ \E r \in Inventories(fresh) :
             Handle(IF r.ok \/ r.c.state # "ready" THEN r.c
                    ELSE [r.c EXCEPT !.state = "degraded"])
    BY <1>3 DEF Discover, ListKinds
  <2> HIDE DEF old
  <2>2. /\ Typed(fresh) /\ SameProcess(child, fresh) /\ fresh.state = child.state
        /\ fresh.era = child.era /\ fresh.tools = child.tools
        /\ fresh.pipes = child.pipes /\ fresh.flags = child.flags \ {"LISTED"}
        /\ fresh.calls = child.calls \ old /\ fresh.nextId = child.nextId
    BY <1>2 DEF Typed, IsChild, ChildFields, SameProcess
  <2> HIDE DEF fresh
  <2>3. PICK r \in Inventories(fresh) :
          Handle(IF r.ok \/ r.c.state # "ready" THEN r.c
                 ELSE [r.c EXCEPT !.state = "degraded"])
    BY <2>1
  <2> DEFINE d == IF r.ok \/ r.c.state # "ready" THEN r.c
                  ELSE [r.c EXCEPT !.state = "degraded"]
  <2>4. Handled(child, proc, d)
    BY <1>2, <2>1, <2>2, DiscoverHandled DEF old
  <2> HIDE DEF d
  <2>5. Handle(d)
    BY <2>3 DEF d
  <2> QED
    BY <2>4, <2>5, HandleLawful
<1>4. CASE ToolTest
  <2> DEFINE old == CallsOf(child, "tool_test")
             fresh == [child EXCEPT !.calls = @ \ old]
  <2>1. /\ child.state = "ready"
        /\ \E c \in {fresh} \cup {r.c : r \in Requests(fresh, "tool_test")} : Handle(c)
    BY <1>4 DEF ToolTest, RequiredReady
  <2> HIDE DEF old
  <2>2. /\ Typed(fresh) /\ SameButCalls(child, fresh)
        /\ fresh.calls = child.calls \ old /\ fresh.nextId = child.nextId
    BY <1>2 DEF Typed, IsChild, ChildFields, SameButCalls, SameProcess
  <2> HIDE DEF fresh
  <2>3. PICK d \in {fresh} \cup {r.c : r \in Requests(fresh, "tool_test")} : Handle(d)
    BY <2>1
  <2>4. Handled(child, proc, d)
    BY <1>2, <2>1, <2>2, <2>3, ToolTestHandled DEF old
  <2> QED
    BY <2>3, <2>4, HandleLawful
<1> QED
  BY <1>3, <1>4

----------------------------------------------------------------------------
(* The daemon's shutdown.                                                   *)

\* The children are stopped, and the loop is given its turns.
LEMMA ShutdownStep ==
  ASSUME SupInv, Shutdown
  PROVE  SupInv' /\ Lawful
<1>1. PICK r \in (IF Latched(child) THEN {Outcome(child, proc)} ELSE Stops(child, proc)) :
        child' = r.c /\ proc' = r.p
  BY DEF Shutdown
<1>2. /\ daemon = "running" /\ daemon' = "draining" /\ lost' = lost
      /\ polls' = GraceMax + TermWait + KillWait
  BY DEF Shutdown
<1>3. Safe(child, proc)
  BY <1>2, InvIsSafe
<1>4. polls' \in Nat /\ polls' >= Grace + 1 + TermWait
  BY <1>2, McpAssumption, SupervisorAssumption
<1>5. CASE Latched(child)
  <2>1. child' = child /\ proc' = proc
    BY <1>1, <1>5 DEF Outcome
  <2>2. /\ proc.leader = "none" /\ child.state \in {"crash_loop", "disabled"}
    BY <1>3, <1>5 DEF Latched, Safe, Fit
  <2>3. SupInv'
    BY <1>2, <1>3, <1>4, <2>1, <2>2 DEF SupInv, Safe, LiveStates
  <2>4. Lawful
    BY <2>1, <2>2 DEF Lawful
  <2> QED
    BY <2>3, <2>4
<1>6. CASE ~Latched(child)
  <2>1. child.state \notin {"crash_loop", "disabled"} /\ r \in Stops(child, proc)
    BY <1>1, <1>6 DEF Latched
  <2>2. /\ Safe(r.c, r.p) /\ r.c.calls = {} /\ r.c.state = "stopped"
        /\ proc.leader = "none" => r.p.leader = "none"
        /\ r.p.leader = "alive" => /\ "STOPPING" \in r.c.flags /\ r.c.next = Grace
                                   /\ "TERM_SENT" \notin r.c.flags
    BY <1>3, <2>1, StopsRests
  <2>3. r.p.leader = "alive" => InTime(r.c, polls')
    BY <1>4, <2>2, McpAssumption DEF InTime
  <2>4. SupInv'
    BY <1>1, <1>2, <1>4, <2>2, <2>3 DEF SupInv, Safe, LiveStates
  <2>5. Lawful
    BY <1>1, <2>1, <2>2 DEF Lawful
  <2> QED
    BY <2>4, <2>5
<1> QED
  BY <1>5, <1>6

\* One turn of the wait.
LEMMA DrainStep ==
  ASSUME SupInv, Drain
  PROVE  SupInv' /\ Lawful
<1>1. /\ daemon = "draining" /\ daemon' = daemon /\ child.pid /\ polls > 0
      /\ halted' = halted /\ lost' = lost
  BY DEF Drain
<1>2. Safe(child, proc)
  BY <1>1, InvIsSafe
<1>3. /\ Typed(child) /\ proc \in Procs /\ (proc.helpers => child.pgid)
      /\ proc.leader # "none" /\ child.state \notin LiveStates
      /\ child.state # "crash_loop" /\ polls \in Nat
  BY <1>1, <1>2 DEF Safe, Fit, Owns, SupInv
<1>4. CASE /\ proc.leader \in Zombies
           /\ \E r \in Collected(child, proc) : child' = r.c /\ proc' = r.p
           /\ UNCHANGED polls
  <2>1. PICK r \in Collected(child, proc) : child' = r.c /\ proc' = r.p
    BY <1>4
  <2>2. /\ Ended(child, r.c) /\ ~r.c.pid /\ r.p \in Procs /\ r.p.leader = "none"
        /\ (r.p.helpers => r.c.pgid)
    BY <1>3, <2>1, CollectedFields
  <2>3. Bare(r.c, r.p)
    BY <1>2, <2>2 DEF Bare, Ended, Safe, Fit
  <2>4. Rested(r.c, r.p) /\ r.c.state \notin LiveStates
    BY <1>3, <2>2, <2>3, BareRests DEF Ended
  <2>5. SupInv'
    BY <1>1, <1>3, <1>4, <2>1, <2>2, <2>4 DEF SupInv, Rested, Safe
  <2>6. Lawful
    BY <1>1, <1>3, <2>1, <2>2 DEF Lawful
  <2> QED
    BY <2>5, <2>6
<1>5. CASE /\ proc.leader \notin Zombies
           /\ LET r == Escalated(child, proc) IN child' = Elapse(r.c) /\ proc' = r.p
           /\ polls' = polls - 1
  <2> DEFINE r == Escalated(child, proc)
             d == Elapse(r.c)
  <2>1. child' = d /\ proc' = r.p /\ polls' = polls - 1
    BY <1>5
  <2>2. /\ Safe(r.c, r.p) /\ Handled(child, proc, r.c)
        /\ r.p.leader \in {proc.leader, "killed"}
        /\ r.c.state = child.state
        /\ \/ r.c.next = child.next /\ r.c.flags = child.flags
              /\ (r.p.leader = "alive" => ~("STOPPING" \in child.flags /\ child.next = 0))
           \/ /\ child.next = 0 /\ "TERM_SENT" \notin child.flags
              /\ r.c.next = TermWait /\ r.c.flags = child.flags \cup {"TERM_SENT"}
    BY <1>2, EscalatedHandled
  <2> HIDE DEF r
  <2>3. /\ Handled(r.c, r.p, d) /\ d.flags = r.c.flags /\ d.state = r.c.state
        /\ d.next = IF r.c.next > 0 THEN r.c.next - 1 ELSE r.c.next
    BY <2>2, ElapseHandled
  <2> HIDE DEF d
  <2>4. r.p.leader = "alive" => InTime(d, polls - 1)
    <3> SUFFICES ASSUME r.p.leader = "alive"
                 PROVE  InTime(d, polls - 1)
      OBVIOUS
    <3>1. proc.leader = "alive"
      BY <2>2
    <3>2. /\ "STOPPING" \in child.flags /\ child.next >= 0 /\ child.next \in Int
          /\ polls >= child.next + 1 + (IF "TERM_SENT" \in child.flags THEN 0 ELSE TermWait)
      BY <1>1, <1>3, <3>1 DEF SupInv, InTime, Typed
    <3>3. CASE r.c.next = child.next /\ r.c.flags = child.flags /\ child.next # 0
      <4>1. d.next = child.next - 1 /\ d.flags = child.flags
        BY <2>3, <3>2, <3>3
      <4> QED
        BY <1>3, <3>2, <3>3, <4>1, McpAssumption DEF InTime
    <3>4. CASE /\ child.next = 0 /\ "TERM_SENT" \notin child.flags
               /\ r.c.next = TermWait /\ r.c.flags = child.flags \cup {"TERM_SENT"}
      <4>1. d.next = TermWait - 1 /\ d.flags = child.flags \cup {"TERM_SENT"}
        BY <2>3, <3>4, McpAssumption
      <4> QED
        BY <1>3, <3>2, <3>4, <4>1, McpAssumption DEF InTime
    <3> QED
      BY <2>2, <3>2, <3>3, <3>4
  <2>5. Fit(d, r.p) /\ Owns(d, r.p) /\ Later(child, d)
    <3>1. child.nextId \in Nat /\ r.c.nextId \in Nat /\ d.nextId \in Nat
          /\ \A l \in d.calls : l.id \in Nat
      BY <1>2, <2>2, <2>3, SafeCalls DEF Handled
    <3>2. Later(child, d)
      BY <2>2, <2>3, <3>1, LaterTransitive DEF Handled
    <3> QED
      BY <2>3, <3>2 DEF Handled, Safe
  <2>6. polls - 1 \in Nat
    BY <1>1, <1>3
  <2>7. SupInv'
    BY <1>1, <1>3, <2>1, <2>2, <2>3, <2>4, <2>5, <2>6 DEF SupInv
  <2>8. \A k \in child.calls, l \in d.calls :
          k.done /\ k.id = l.id => l.done /\ l.status = k.status
    BY <2>5, LaterKeeps DEF SupInv
  <2>9. Lawful
    BY <1>1, <1>3, <2>1, <2>8 DEF Lawful
  <2> QED
    BY <2>7, <2>9
<1> QED
  BY <1>4, <1>5 DEF Drain

\* The end.
LEMMA DownStep ==
  ASSUME SupInv, Down
  PROVE  SupInv' /\ Lawful
<1>1. PICK r \in TornDown(child, proc) : child' = r.c /\ proc' = r.p
  BY DEF Down
<1>2. /\ daemon = "draining" /\ daemon' = "down" /\ polls' = polls /\ lost' = lost
  BY DEF Down
<1>3. Safe(child, proc)
  BY <1>2, InvIsSafe
<1>4. /\ Typed(child) /\ proc \in Procs /\ (proc.helpers => child.pgid)
      /\ child.state \notin LiveStates
  BY <1>2, <1>3 DEF Safe, Fit, Owns, SupInv
<1>5. /\ Ended(child, r.c) /\ r.c.pid = child.pid /\ r.p \in Procs
      /\ r.p.leader = "none" <=> proc.leader = "none"
  BY <1>1, <1>4, TornDownFields
<1>6. Blank(r.c)
  BY <1>4, <1>5 DEF Ended, Blank
<1>7. Fit(r.c, r.p)
  BY <1>3, <1>5, <1>6 DEF Safe, Fit, Ended
<1>8. SupInv'
  BY <1>1, <1>2, <1>4, <1>5, <1>7 DEF SupInv, Ended
<1>9. Lawful
  BY <1>1, <1>2, <1>3, <1>5, <1>6 DEF Lawful, Ended, Blank, Safe, Fit
<1> QED
  BY <1>8, <1>9

----------------------------------------------------------------------------
(* The invariant and the theorems.                                          *)

LEMMA InitHolds == Init => SupInv
<1> SUFFICES ASSUME Init PROVE SupInv
  OBVIOUS
<1>1. PICK f \in Configs : child = ChildInit(f)
  BY DEF Init
<1> DEFINE st == IF f.enabled THEN "stopped" ELSE "disabled"
<1>2. st \in {"stopped", "disabled"}
  OBVIOUS
<1>3. child = [cfg |-> f, state |-> st, pid |-> FALSE, pgid |-> FALSE,
               started |-> FALSE, clean |-> TRUE, flags |-> {}, pipes |-> {},
               outbox |-> FALSE, era |-> "unknown", tools |-> FALSE, calls |-> {},
               nextId |-> 0, next |-> NoDeadline, history |-> << >>, backoff |-> 0]
  BY <1>1 DEF ChildInit
<1> HIDE DEF st
<1>4. /\ IsChild(child) /\ child.pid = FALSE /\ child.pgid = FALSE
      /\ child.tools = FALSE /\ child.flags = {} /\ child.calls = {}
      /\ child.era = "unknown" /\ child.state = st /\ child.nextId = 0
      /\ child.next = NoDeadline /\ child.backoff = 0
  BY <1>3 DEF IsChild, ChildFields
<1>5. child.pid \in BOOLEAN /\ child.pgid \in BOOLEAN /\ child.tools \in BOOLEAN
  BY <1>4, Zenon
<1>6. Typed(child)
  BY <1>4, <1>5 DEF Typed, NoDeadline
<1>7. /\ proc \in Procs /\ proc.leader = "none" /\ proc.helpers = FALSE
      /\ daemon = "running" /\ polls = 0 /\ ~halted /\ ~lost
  BY DEF Init, NoProc, Procs
<1>8. Fit(child, proc) /\ Owns(child, proc)
  BY <1>2, <1>4, <1>6, <1>7 DEF Fit, Owns, Blank, LiveStates
<1> QED
  BY <1>7, <1>8 DEF SupInv

LEMMA NextHolds == SupInv /\ [Next]_vars => SupInv' /\ [Lawful]_vars
<1> SUFFICES ASSUME SupInv, [Next]_vars PROVE SupInv' /\ [Lawful]_vars
  OBVIOUS
<1>1. CASE Next
  <2>1. CASE Sweep
    BY <2>1, SweepStep
  <2>2. CASE OnResponse \/ OnCorruption \/ OnEof \/ OnStderr
    BY <2>2, PipeStep
  <2>3. CASE Operator
    BY <2>3, ManualStartStep, ManualStopStep, ManualRestartStep, ResetStep, RequestStep
       DEF Operator
  <2>4. CASE Exit \/ Fork \/ HelpersExit \/ Dies
    BY <2>4, WorldStep
  <2>5. CASE Pass
    BY <2>5, PassStep
  <2>6. CASE Shutdown
    BY <2>6, ShutdownStep
  <2>7. CASE Drain
    BY <2>7, DrainStep
  <2>8. CASE Down
    BY <2>8, DownStep
  <2> QED
    BY <1>1, <2>1, <2>2, <2>3, <2>4, <2>5, <2>6, <2>7, <2>8 DEF Next
<1>2. CASE UNCHANGED vars
  BY <1>2 DEF vars, SupInv
<1> QED
  BY <1>1, <1>2

LEMMA Invariance == Spec => []SupInv
<1>1. SupInv /\ [Next]_vars => SupInv'
  BY NextHolds
<1> QED
  BY <1>1, InitHolds, PTL DEF Spec

\* af_mcp_start never runs over a process that still exists: Startable asks
\* for a child that owns neither a leader nor a group, and the child owns
\* whatever exists.
THEOREM StartsOverNothing == Spec => []OneProcess
<1>1. SupInv => OneProcess
  BY DEF SupInv, OneProcess
<1> QED
  BY <1>1, Invariance, PTL

\* No exit path loses sight of a leader or of the helpers in its group.
THEOREM OwnsProcesses == Spec => []NothingForgotten
<1>1. SupInv => NothingForgotten
  BY DEF SupInv, Owns, NothingForgotten
<1> QED
  BY <1>1, Invariance, PTL

\* What the supervisor knows of a server, af_mcp_required_counts included, it
\* knows of the process that runs now.
THEOREM KnowsTheLiving == Spec => []ViewIsLive
<1>1. SupInv => ViewIsLive
  <2> SUFFICES ASSUME SupInv,
                      \/ child.era # "unknown" \/ child.calls # {} \/ child.tools
                      \/ child.state \in {"probing", "ready", "degraded"}
                      \/ RequiredReady(child)
               PROVE  /\ child.pid /\ ~Has(child, "STOPPING") /\ "stdin" \in child.pipes
                      /\ child.era = "unknown" <=> child.state = "probing"
                      /\ child.era # "unknown" => child.era = proc.speaks
                      /\ Has(child, "TOOLS_CURRENT") => child.tools /\ child.state = "ready"
    BY DEF ViewIsLive
  <2>1. ~Blank(child)
    BY DEF Blank, LiveStates, RequiredReady
  <2>2. Session(child, proc)
    BY <2>1 DEF SupInv, Fit
  <2> QED
    BY <2>2 DEF Session, Has, Eras
<1> QED
  BY <1>1, Invariance, PTL

\* By the time af_mcp_sup_shutdown gives up waiting it has sent SIGKILL: its
\* turns outlast the largest grace and the wait for SIGTERM.
THEOREM ShutdownKills == Spec => []ShutdownInsists
<1>1. SupInv => ShutdownInsists
  BY McpAssumption DEF SupInv, ShutdownInsists, InTime, Fit, Typed
<1> QED
  BY <1>1, Invariance, PTL

\* The call slots are never all in use: kinds are told apart by an index among
\* the lists, the tool test after them.
LEMMA FewCalls ==
  ASSUME SupInv
  PROVE  CallsAreFew
<1> DEFINE n == Len(Lists)
<1>1. /\ n \in Nat /\ MaxCalls \in Nat /\ n + 1 < MaxCalls /\ DOMAIN Lists = 1 .. n
      /\ \A i \in 1 .. n : Lists[i] # "tool_test"
  <2>1. n \in Nat /\ MaxCalls \in Nat /\ n + 1 < MaxCalls /\ DOMAIN Lists = 1 .. n
    BY McpAssumption
  <2>2. \A i \in 1 .. n : Lists[i] \in {"tools", "resources", "prompts"}
    BY McpAssumption
  <2> QED
    BY <2>1, <2>2
<1>2. CASE Blank(child)
  <2>1. child.calls = {}
    BY <1>2 DEF Blank
  <2>2. Cardinality(child.calls) = 0
    BY <2>1, FS_EmptySet
  <2> QED
    BY <1>1, <2>1, <2>2 DEF CallsAreFew, CallsOf
<1>3. CASE Session(child, proc)
  <2>1. Tracked(child, proc)
    BY <1>3 DEF Session
  <2>2. CallsOf(child, "discover") = {} \/ CallsOf(child, "initialize") = {}
    BY <2>1 DEF Tracked, CallsOf
  <2>3. Cardinality(child.calls) < MaxCalls
    <3>1. CASE child.state = "probing"
      <4>1. child.calls = {} \/ \E k \in child.calls : child.calls = {k}
        BY <1>3, <3>1, ProbingCalls
      <4>2. Cardinality(child.calls) = 0 \/ Cardinality(child.calls) = 1
        BY <4>1, FS_EmptySet, FS_Singleton
      <4> QED
        BY <1>1, <4>2
    <3>2. CASE child.state # "probing"
      <4> DEFINE T == 1 .. (n + 1)
                 index(k) == IF k.kind = "tool_test" THEN n + 1
                             ELSE CHOOSE i \in 1 .. n : Lists[i] = k.kind
                 f == [k \in child.calls |-> index(k)]
      <4>1. ASSUME NEW k \in child.calls
            PROVE  /\ index(k) \in T
                   /\ k.kind = IF index(k) = n + 1 THEN "tool_test" ELSE Lists[index(k)]
        <5>1. k.kind = "tool_test" \/ \E i \in 1 .. n : Lists[i] = k.kind
          BY <1>1, <2>1, <3>2 DEF Tracked, ListKinds
        <5>2. CASE k.kind = "tool_test"
          BY <1>1, <5>2
        <5>3. CASE k.kind # "tool_test"
          <6> DEFINE i == CHOOSE i \in 1 .. n : Lists[i] = k.kind
          <6>1. i \in 1 .. n /\ Lists[i] = k.kind
            BY <5>1, <5>3
          <6>2. index(k) = i
            BY <5>3
          <6> HIDE DEF i, index
          <6> QED
            BY <1>1, <6>1, <6>2
        <5> QED
          BY <5>2, <5>3
      <4> HIDE DEF index
      <4>2. f \in [child.calls -> T]
        BY <4>1
      <4>3. ASSUME NEW k \in child.calls, NEW l \in child.calls, f[k] = f[l]
            PROVE  k = l
        <5>1. index(k) = index(l)
          BY <4>3
        <5>2. k.kind = l.kind
          BY <4>1, <5>1
        <5> QED
          BY <2>1, <5>2 DEF Tracked
      <4> HIDE DEF f
      <4>4. f \in Injection(child.calls, T)
        BY <4>2, <4>3 DEF Injection, IsInjective
      <4>5. IsFiniteSet(T) /\ Cardinality(T) = n + 1
        BY <1>1, FS_Interval
      <4> HIDE DEF T
      <4>6. IsFiniteSet(child.calls) /\ Cardinality(child.calls) <= Cardinality(T)
        BY <4>4, <4>5, FS_Injection
      <4>7. Cardinality(child.calls) \in Nat
        BY <4>6, FS_CardinalityType
      <4> QED
        BY <1>1, <4>5, <4>6, <4>7
    <3> QED
      BY <3>1, <3>2
  <2> QED
    BY <2>1, <2>2, <2>3 DEF CallsAreFew, Tracked
<1> QED
  BY <1>2, <1>3 DEF SupInv, Fit

\* At most one call of a kind is known, and a slot is always left.
THEOREM SlotsToSpare == Spec => []CallsAreFew
BY FewCalls, Invariance, PTL

\* A server the operator stopped is started again by the operator alone: no
\* failure, exit or sweep makes a resting child due.
THEOREM StopHolds == Spec => StopIsKept
<1> DEFINE A == halted /\ halted' => ~(proc.leader = "none" /\ proc'.leader = "alive")
<1>1. SupInv /\ [Next]_vars => [A]_vars
  BY NextHolds DEF Lawful
<1> HIDE DEF A
<1>2. Spec => [][A]_vars
  BY <1>1, Invariance, PTL DEF Spec
<1> QED
  BY <1>2 DEF StopIsKept, A

\* The crash-loop latch is opened by af_mcp_reset alone.
THEOREM LatchKept == Spec => LatchHolds
<1> DEFINE A == child.state = "crash_loop" =>
                  (child'.state = "crash_loop" /\ proc'.leader = "none") \/ Reset
<1>1. SupInv /\ [Next]_vars => [A]_vars
  BY NextHolds DEF Lawful
<1> HIDE DEF A
<1>2. Spec => [][A]_vars
  BY <1>1, Invariance, PTL DEF Spec
<1> QED
  BY <1>2 DEF LatchHolds, A

\* A clean end is final unless restart.mode = always, whichever of the exit
\* and the end of file af_mcp_sweep_child meets first.
THEOREM CleanEndRests == Spec => CleanExitRests
<1> DEFINE A == /\ proc.leader = "clean" /\ proc'.leader # "clean" /\ daemon = "running"
                /\ child.cfg.mode # "always"
                /\ child.flags \cap {"PROCESS_FAILURE", "MANUAL_RESTART", "LEGACY_NEXT"} = {}
                => child'.state = "stopped"
<1>1. SupInv /\ [Next]_vars => [A]_vars
  BY NextHolds DEF Lawful
<1> HIDE DEF A
<1>2. Spec => [][A]_vars
  BY <1>1, Invariance, PTL DEF Spec
<1> QED
  BY <1>2 DEF CleanExitRests, A

\* A call that has its outcome keeps it: no late response, timeout or request
\* of the same process changes it.
THEOREM OutcomeKept == Spec => RetiredStaysRetired
<1> DEFINE A == \A k \in child.calls, l \in child'.calls :
                  proc.leader # "none" /\ proc'.leader # "none" /\ k.done /\ k.id = l.id
                  => l.done /\ l.status = k.status
<1>1. SupInv /\ [Next]_vars => [A]_vars
  BY NextHolds DEF Lawful
<1> HIDE DEF A
<1>2. Spec => [][A]_vars
  BY <1>1, Invariance, PTL DEF Spec
<1> QED
  BY <1>2 DEF RetiredStaysRetired, A

----------------------------------------------------------------------------
(* The types and the restart budget.  Every process started since the       *)
(* operator's last word is accounted for: two by each restart recorded      *)
(* since, and Slack by the stage the current start is in.  A routine is     *)
(* Frugal when the account does not fall; a fork raises it by one.          *)

\* The fields of a child that the restart budget is about, and their types.
Sound(c) ==
  /\ IsChild(c) /\ c.cfg \in Configs /\ c.state \in States
  /\ c.started \in BOOLEAN /\ c.clean \in BOOLEAN /\ c.outbox \in BOOLEAN
  /\ c.flags \subseteq Flags /\ c.pipes \subseteq {"stdin", "stdout", "stderr"}
  /\ c.backoff \in 0 .. MaxBackoff
  /\ c.history \in Seq(0 .. (Window + 1)) /\ Num(c.history, Window) <= MaxRestarts

Probing(c) == \E k \in c.calls : k.kind = "discover"

\* The processes the current start may have used: none while it is scheduled,
\* one while its era is open or the legacy retry is due, later up to two.
Slack(c) ==
  IF "LEGACY_NEXT" \in c.flags THEN 1
  ELSE IF c.state = "restarting" THEN 0
  ELSE IF Probing(c) THEN 1 ELSE 2

\* How many processes the last a units may have seen.
Worth(c, a) == 2 * Num(c.history, a) + Slack(c)

Frugal(c, d) ==
  /\ Sound(d) /\ d.started = c.started
  /\ "MANUAL_RESTART" \in d.flags => "MANUAL_RESTART" \in c.flags
  /\ \/ "MANUAL_RESTART" \in c.flags
     \/ \A a \in 0 .. Window : Worth(c, a) <= Worth(d, a)

\* A routine that does not touch the budget.
Plain(c, d) ==
  /\ IsChild(d) /\ d.cfg = c.cfg /\ d.state \in States
  /\ d.started = c.started /\ d.clean \in BOOLEAN /\ d.outbox \in BOOLEAN
  /\ d.flags \subseteq Flags /\ d.pipes \subseteq {"stdin", "stdout", "stderr"}
  /\ d.backoff = c.backoff /\ d.history = c.history
  /\ d.state = "restarting" => c.state = "restarting"
  /\ "LEGACY_NEXT" \in d.flags <=> "LEGACY_NEXT" \in c.flags
  /\ "MANUAL_RESTART" \in d.flags => "MANUAL_RESTART" \in c.flags
  /\ Probing(d) => Probing(c)

LEMMA SoundCounts ==
  ASSUME NEW c, Sound(c), NEW a \in Int
  PROVE  /\ c.history \in Seq(Int) /\ Num(c.history, a) \in Nat
         /\ Slack(c) \in 0 .. 2 /\ Worth(c, a) \in Nat
<1>1. c.history \in Seq(Int)
  BY McpAssumption DEF Sound
<1>2. Num(c.history, a) \in Nat
  <2>1. a <= a
    OBVIOUS
  <2> QED
    BY <1>1, <2>1, NumType
<1>3. Slack(c) \in 0 .. 2
  BY DEF Slack
<1> QED
  BY <1>1, <1>2, <1>3 DEF Worth

LEMMA PlainFrugal ==
  ASSUME NEW c, NEW d, Sound(c), Plain(c, d)
  PROVE  Frugal(c, d)
<1>1. Sound(d)
  BY DEF Sound, Plain
<1>2. Slack(c) <= Slack(d)
  BY DEF Slack, Plain
<1>3. ASSUME NEW a \in 0 .. Window
      PROVE  Worth(c, a) <= Worth(d, a)
  <2>1. d.history = c.history
    BY DEF Plain
  <2>2. a \in Int
    BY McpAssumption
  <2>3. Num(c.history, a) \in Nat /\ Slack(c) \in 0 .. 2 /\ Slack(d) \in 0 .. 2
    BY <1>1, <2>2, SoundCounts
  <2> QED
    BY <1>2, <2>1, <2>3 DEF Worth
<1> QED
  BY <1>1, <1>3 DEF Frugal, Plain

LEMMA FrugalSelf ==
  ASSUME NEW c, Sound(c)
  PROVE  Frugal(c, c)
<1>1. Plain(c, c)
  BY DEF Plain, Sound
<1> QED
  BY <1>1, PlainFrugal

LEMMA FrugalTransitive ==
  ASSUME NEW c, NEW d, NEW e, Sound(c), Frugal(c, d), Frugal(d, e)
  PROVE  Frugal(c, e)
<1>1. Sound(d) /\ Sound(e) /\ e.started = c.started
  BY DEF Frugal
<1>2. ASSUME NEW a \in 0 .. Window, "MANUAL_RESTART" \notin c.flags
      PROVE  Worth(c, a) <= Worth(e, a)
  <2>1. Worth(c, a) <= Worth(d, a) /\ Worth(d, a) <= Worth(e, a)
    BY <1>2 DEF Frugal
  <2>2. a \in Int
    BY McpAssumption
  <2>3. Worth(c, a) \in Nat /\ Worth(d, a) \in Nat /\ Worth(e, a) \in Nat
    BY <1>1, <2>2, SoundCounts
  <2> QED
    BY <2>1, <2>3
<1> QED
  BY <1>1, <1>2 DEF Frugal

\* The restarts of the window are the ones that count.
LEMMA RecentCounts ==
  ASSUME NEW c, Sound(c)
  PROVE  /\ Recent(c) \in Seq(0 .. Window) /\ Recent(c) \in Seq(0 .. (Window + 1))
         /\ Recent(c) \in Seq(Int)
         /\ Len(Recent(c)) = Num(c.history, Window)
         /\ \A a \in 0 .. Window : Num(Recent(c), a) = Num(c.history, a)
<1> DEFINE h == c.history
           S == {i \in DOMAIN h : h[i] <= Window}
<1>1. h \in Seq(0 .. (Window + 1)) /\ h \in Seq(Int) /\ S \in SUBSET DOMAIN h
  BY SoundCounts DEF Sound
<1>2. Recent(c) = Keep(h, S)
  BY DEF Recent
<1> HIDE DEF h, S
<1>3. Recent(c) \in Seq({h[i] : i \in S}) /\ Len(Recent(c)) = Cardinality(S)
  BY <1>1, <1>2, KeepLists
<1>4. {h[i] : i \in S} \subseteq 0 .. Window
  BY <1>1, McpAssumption DEF S
<1>5. Recent(c) \in Seq(0 .. Window)
  BY <1>3, <1>4, SeqWider
<1>6. Recent(c) \in Seq(0 .. (Window + 1)) /\ Recent(c) \in Seq(Int)
  <2>1. 0 .. Window \subseteq 0 .. (Window + 1) /\ 0 .. Window \subseteq Int
    BY McpAssumption
  <2> QED
    BY <1>5, <2>1, SeqWider
<1>7. Len(Recent(c)) = Num(c.history, Window)
  BY <1>3 DEF Num, S, h
<1>8. ASSUME NEW a \in 0 .. Window
      PROVE  Num(Recent(c), a) = Num(c.history, a)
  <2>1. Num(Recent(c), a) = Cardinality({i \in S : h[i] <= a})
    BY <1>1, <1>2, KeepCounts
  <2>2. {i \in S : h[i] <= a} = {i \in DOMAIN h : h[i] <= a}
    BY <1>1, McpAssumption DEF S
  <2> QED
    BY <2>1, <2>2 DEF Num, h
<1> QED
  BY <1>5, <1>6, <1>7, <1>8

\* af_mcp_schedule_restart: the restart it grants pays for two processes.
LEMMA ScheduleFrugal ==
  ASSUME NEW c, Sound(c)
  PROVE  Frugal(c, ScheduleRestart(c))
<1> DEFINE h == Recent(c)
           b == Backoff(c)
           r == IF h = << >> THEN 0 ELSE c.backoff
           d == ScheduleRestart(c)
           Same == /\ IsChild(d) /\ d.cfg = c.cfg /\ d.started = c.started
                   /\ d.clean = c.clean /\ d.outbox = c.outbox
                   /\ d.flags = c.flags /\ d.pipes = c.pipes /\ d.calls = c.calls
<1>1. b \in 0 .. MaxBackoff /\ r \in 0 .. MaxBackoff
  <2>1. c.backoff \in 0 .. MaxBackoff /\ c.backoff \in Nat
    BY McpAssumption DEF Sound
  <2>2. b \in 1 .. MaxBackoff
    BY <2>1, BackoffType
  <2> QED
    BY <2>1, <2>2, McpAssumption
<1>2. \/ d = c
      \/ d = [c EXCEPT !.history = h, !.state = "crash_loop", !.backoff = r]
      \/ /\ ~(Len(h) >= MaxRestarts)
         /\ d = [c EXCEPT !.history = Append(h, 0), !.state = "restarting",
                          !.backoff = b, !.next = b]
  BY DEF ScheduleRestart
<1>3. /\ h \in Seq(0 .. (Window + 1)) /\ h \in Seq(Int)
      /\ Len(h) = Num(c.history, Window)
      /\ \A a \in 0 .. Window : Num(h, a) = Num(c.history, a)
  BY RecentCounts
<1>4. MaxRestarts \in Nat /\ Window \in Nat /\ Window \in 0 .. Window
  BY McpAssumption
<1>5. \A a \in 0 .. Window : a \in Int /\ Num(c.history, a) \in Nat /\ Slack(c) \in 0 .. 2
  BY <1>4, SoundCounts
<1> HIDE DEF d, h, b, r
<1>6. CASE d = c
  BY <1>6, FrugalSelf DEF d
<1>7. CASE d = [c EXCEPT !.history = h, !.state = "crash_loop", !.backoff = r]
  <2>1. Same /\ d.state = "crash_loop" /\ d.history = h /\ d.backoff = r
    BY <1>7 DEF Sound, IsChild, ChildFields
  <2>2. Sound(d)
    BY <1>1, <1>3, <1>4, <2>1 DEF Sound, States
  <2>3. Slack(d) \in 0 .. 2 /\ Slack(c) <= Slack(d)
    BY <2>1 DEF Slack, Probing
  <2>4. ASSUME NEW a \in 0 .. Window
        PROVE  Worth(c, a) <= Worth(d, a)
    BY <1>3, <1>5, <2>1, <2>3 DEF Worth
  <2> QED
    BY <2>1, <2>2, <2>4 DEF Frugal, d
<1>8. CASE /\ ~(Len(h) >= MaxRestarts)
           /\ d = [c EXCEPT !.history = Append(h, 0), !.state = "restarting",
                            !.backoff = b, !.next = b]
  <2> DEFINE g == Append(h, 0)
  <2>1. \A a \in 0 .. Window : Num(g, a) = Num(h, a) + 1
    BY <1>3, <1>5, NumAppend
  <2>2. g \in Seq(0 .. (Window + 1))
    BY <1>3, <1>4
  <2> HIDE DEF g
  <2>3. Same /\ d.state = "restarting" /\ d.history = g /\ d.backoff = b
    BY <1>8 DEF Sound, IsChild, ChildFields, g
  <2>4. Num(g, Window) <= MaxRestarts
    BY <1>3, <1>4, <1>5, <1>8, <2>1
  <2>5. Sound(d)
    BY <1>1, <2>2, <2>3, <2>4 DEF Sound, States
  <2>6. Slack(d) \in 0 .. 2
    BY DEF Slack
  <2>7. ASSUME NEW a \in 0 .. Window
        PROVE  Worth(c, a) <= Worth(d, a)
    BY <1>3, <1>5, <2>1, <2>3, <2>6 DEF Worth
  <2> QED
    BY <2>3, <2>5, <2>7 DEF Frugal, d
<1> QED
  BY <1>2, <1>6, <1>7, <1>8

\* The same history in another child: only the slack counts.
LEMMA SlackFrugal ==
  ASSUME NEW c, NEW d, Sound(c), Sound(d), d.history = c.history,
         d.started = c.started,
         "MANUAL_RESTART" \in d.flags => "MANUAL_RESTART" \in c.flags,
         "MANUAL_RESTART" \in c.flags \/ Slack(c) <= Slack(d)
  PROVE  Frugal(c, d)
<1>1. ASSUME NEW a \in 0 .. Window, "MANUAL_RESTART" \notin c.flags
      PROVE  Worth(c, a) <= Worth(d, a)
  <2>1. a \in Int
    BY McpAssumption
  <2>2. Num(c.history, a) \in Nat /\ Slack(c) \in 0 .. 2 /\ Slack(d) \in 0 .. 2
    BY <2>1, SoundCounts
  <2> QED
    BY <1>1, <2>2 DEF Worth
<1> QED
  BY <1>1 DEF Frugal

\* What is known of a process, and the calls to it, cost nothing to forget.
LEMMA InvalidatePlain ==
  ASSUME NEW c, Sound(c)
  PROVE  Plain(c, Invalidate(c))
BY DEF Plain, Sound, Invalidate, IsChild, ChildFields, Probing

\* af_mcp_child_failed.
LEMMA ChildFailedFrugal ==
  ASSUME NEW c, Sound(c), NEW why
  PROVE  Frugal(c, ChildFailed(c, why))
<1> DEFINE blamed == [c EXCEPT !.flags = IF why = "EOF" THEN @
                                         ELSE @ \cup {"PROCESS_FAILURE"}]
           dead == [blamed EXCEPT !.state = "failed"]
           failed == Invalidate(dead)
           stopping ==
             [failed EXCEPT !.flags = (@ \cup {"STOPPING", "RESTART_AFTER_STOP"})
                                      \ {"TERM_SENT"}]
           halting == ArmGrace(CloseStdin(stopping))
           again == RestartNow(failed)
           d == ChildFailed(c, why)
<1>1. \/ d = c
      \/ d = blamed
      \/ d = failed
      \/ d = halting
      \/ "LEGACY_NEXT" \in c.flags /\ d = again
      \/ d = ScheduleRestart(failed)
  BY DEF ChildFailed, Has
<1>2. Plain(c, blamed)
  BY DEF Plain, Sound, IsChild, ChildFields, Probing, Flags
<1>3. Sound(blamed)
  BY <1>2, PlainFrugal DEF Frugal
<1> HIDE DEF blamed
<1>4. Plain(blamed, dead)
  BY <1>3 DEF Plain, Sound, IsChild, ChildFields, Probing, States
<1>5. Sound(dead)
  BY <1>3, <1>4, PlainFrugal DEF Frugal
<1> HIDE DEF dead
<1>6. Plain(dead, failed)
  BY <1>5, InvalidatePlain
<1>7. Sound(failed) /\ Plain(c, failed)
  BY <1>2, <1>4, <1>5, <1>6, PlainFrugal DEF Frugal, Plain
<1> HIDE DEF failed
<1>8. Plain(failed, halting)
  BY <1>7 DEF Plain, Sound, IsChild, ChildFields, Probing, Flags, LongLived,
              ArmGrace, CloseStdin
<1>9. Frugal(c, failed) /\ Frugal(c, blamed) /\ Frugal(failed, halting)
  BY <1>2, <1>7, <1>8, PlainFrugal
<1>10. ASSUME "LEGACY_NEXT" \in c.flags
       PROVE  Frugal(failed, again)
  <2>1. /\ Sound(again) /\ again.history = failed.history
        /\ again.started = failed.started /\ again.flags = failed.flags
    BY <1>7 DEF RestartNow, Sound, IsChild, ChildFields, States
  <2>2. Slack(failed) = 1 /\ Slack(again) = 1
    BY <1>7, <1>10, <2>1 DEF Slack, Plain
  <2> QED
    BY <1>7, <2>1, <2>2, SlackFrugal
<1>11. Frugal(failed, ScheduleRestart(failed))
  BY <1>7, ScheduleFrugal
<1> HIDE DEF d, halting, again
<1>12. Frugal(c, d)
  BY <1>1, <1>9, <1>10, <1>11, FrugalSelf, FrugalTransitive
<1> QED
  BY <1>12 DEF d

\* A routine that fails the child at the end.
LEMMA FailedFrugal ==
  ASSUME NEW c, NEW d, Sound(c), Frugal(c, d), NEW why
  PROVE  Frugal(c, ChildFailed(d, why))
<1>1. Sound(d)
  BY DEF Frugal
<1> QED
  BY <1>1, ChildFailedFrugal, FrugalTransitive

\* A request adds its call and nothing else.
LEMMA RequestsPlain ==
  ASSUME NEW c, Sound(c), NEW kind, NEW r \in Requests(c, kind)
  PROVE  /\ Sound(r.c) /\ r.c.started = c.started /\ r.c.history = c.history
         /\ r.c.state = c.state /\ r.c.flags = c.flags
         /\ Probing(r.c) => Probing(c) \/ kind = "discover"
         /\ kind # "discover" => Plain(c, r.c)
<1> DEFINE n == c.nextId + 1
           k == NewCall(n, kind)
           new == c.calls \cup {k}
           tried(b) == [[c EXCEPT !.nextId = n] EXCEPT !.outbox = b]
           sent(b) == [[[c EXCEPT !.nextId = n] EXCEPT !.calls = new]
                         EXCEPT !.outbox = b]
<1>1. \/ r.c = c
      \/ \E b \in BOOLEAN : r.c = tried(b)
      \/ \E b \in BOOLEAN : r.c = sent(b)
  <2>1. [c EXCEPT !.nextId = n].nextId = n
        /\ [c EXCEPT !.nextId = n].calls = c.calls
    BY DEF Sound, IsChild, ChildFields
  <2>2. \/ r = [ok |-> FALSE, c |-> c]
        \/ \E b \in BOOLEAN : r = [ok |-> FALSE, c |-> tried(b)]
        \/ \E b \in BOOLEAN : r = [ok |-> TRUE, c |-> sent(b)]
    BY <2>1 DEF Requests
  <2> HIDE DEF tried, sent
  <2> QED
    BY <2>2
<1>2. k.kind = kind
  BY DEF NewCall
<1> HIDE DEF n, k
<1>3. ASSUME NEW b \in BOOLEAN
      PROVE  /\ IsChild(tried(b)) /\ tried(b).cfg = c.cfg /\ tried(b).state = c.state
             /\ tried(b).started = c.started /\ tried(b).clean = c.clean
             /\ tried(b).outbox = b /\ tried(b).flags = c.flags
             /\ tried(b).pipes = c.pipes /\ tried(b).calls = c.calls
             /\ tried(b).backoff = c.backoff /\ tried(b).history = c.history
  BY <1>3 DEF Sound, IsChild, ChildFields
<1>4. ASSUME NEW b \in BOOLEAN
      PROVE  /\ IsChild(sent(b)) /\ sent(b).cfg = c.cfg /\ sent(b).state = c.state
             /\ sent(b).started = c.started /\ sent(b).clean = c.clean
             /\ sent(b).outbox = b /\ sent(b).flags = c.flags
             /\ sent(b).pipes = c.pipes /\ sent(b).calls = c.calls \cup {k}
             /\ sent(b).backoff = c.backoff /\ sent(b).history = c.history
  BY <1>4 DEF Sound, IsChild, ChildFields
<1> HIDE DEF tried, sent
<1>5. CASE r.c = c
  <2>1. Plain(c, r.c)
    BY <1>5 DEF Plain, Sound
  <2> QED
    BY <1>5, <2>1
<1>6. ASSUME NEW b \in BOOLEAN, r.c = tried(b)
      PROVE  /\ Sound(r.c) /\ r.c.started = c.started /\ r.c.history = c.history
             /\ r.c.state = c.state /\ r.c.flags = c.flags
             /\ Probing(r.c) => Probing(c) \/ kind = "discover"
             /\ kind # "discover" => Plain(c, r.c)
  BY <1>3, <1>6 DEF Plain, Sound, Probing
<1>7. ASSUME NEW b \in BOOLEAN, r.c = sent(b)
      PROVE  /\ Sound(r.c) /\ r.c.started = c.started /\ r.c.history = c.history
             /\ r.c.state = c.state /\ r.c.flags = c.flags
             /\ Probing(r.c) => Probing(c) \/ kind = "discover"
             /\ kind # "discover" => Plain(c, r.c)
  BY <1>2, <1>4, <1>7 DEF Plain, Sound, Probing
<1> QED
  BY <1>1, <1>5, <1>6, <1>7

\* An inventory is asked for, or part of one.
LEMMA InventoriesPlain ==
  ASSUME NEW c, Sound(c), NEW r \in Inventories(c)
  PROVE  Plain(c, r.c)
<1> DEFINE n == Len(Lists)
           tries == {i \in 1 .. n : i <= Free(c)}
           new == {NewCall(c.nextId + i, Lists[i]) : i \in 1 .. n}
<1>1. \/ r.c = c
      \/ \E i, b : b \in BOOLEAN /\ r.c = Begun(c, i, b)
      \/ \E b \in BOOLEAN : r.c = Listed(c, b)
  <2>1. Inventories(c) =
          IF Has(c, "LISTED") THEN {[ok |-> TRUE, c |-> c]}
          ELSE {[ok |-> FALSE, c |-> Begun(c, i, b)] : i \in tries, b \in BOOLEAN}
               \cup (IF Free(c) < n
                     THEN {[ok |-> FALSE, c |-> Begun(c, Cardinality(tries), b)]
                             : b \in BOOLEAN}
                     ELSE {})
               \cup (IF Free(c) >= n /\ "stdin" \in c.pipes
                     THEN {[ok |-> TRUE, c |-> Listed(c, b)] : b \in BOOLEAN}
                     ELSE {})
    BY DEF Inventories
  <2> HIDE DEF tries, n
  <2> QED
    BY <2>1
<1>2. ASSUME NEW i, NEW b \in BOOLEAN
      PROVE  LET d == Begun(c, i, b) IN
             /\ IsChild(d) /\ d.cfg = c.cfg /\ d.state = c.state
             /\ d.started = c.started /\ d.clean = c.clean
             /\ d.outbox = b /\ d.flags = c.flags \ {"TOOLS_CURRENT"}
             /\ d.pipes = c.pipes /\ d.calls = c.calls
             /\ d.backoff = c.backoff /\ d.history = c.history
  BY <1>2 DEF Begun, Sound, IsChild, ChildFields
<1>3. ASSUME NEW i, NEW b \in BOOLEAN
      PROVE  Plain(c, Begun(c, i, b))
  <2> DEFINE d == Begun(c, i, b)
  <2>1. /\ IsChild(d) /\ d.cfg = c.cfg /\ d.state = c.state
        /\ d.started = c.started /\ d.clean = c.clean
        /\ d.outbox = b /\ d.flags = c.flags \ {"TOOLS_CURRENT"}
        /\ d.pipes = c.pipes /\ d.calls = c.calls
        /\ d.backoff = c.backoff /\ d.history = c.history
    BY <1>2
  <2> HIDE DEF d
  <2>2. Plain(c, d)
    BY <2>1 DEF Plain, Sound, Probing
  <2> QED
    BY <2>2 DEF d
<1>4. \A k \in new : k.kind # "discover"
  <2> SUFFICES ASSUME NEW i \in 1 .. n
               PROVE  NewCall(c.nextId + i, Lists[i]).kind # "discover"
    OBVIOUS
  <2>1. Lists[i] \in {"tools", "resources", "prompts"}
    BY McpAssumption
  <2> QED
    BY <2>1 DEF NewCall
<1>5. ASSUME NEW b \in BOOLEAN
      PROVE  Plain(c, Listed(c, b))
  <2> DEFINE e == Begun(c, Len(Lists), b)
             d == [e EXCEPT !.flags = @ \cup {"LISTED"}, !.calls = @ \cup new]
  <2>1. Listed(c, b) = d
    BY DEF Listed
  <2>2. /\ IsChild(e) /\ e.cfg = c.cfg /\ e.state = c.state
        /\ e.started = c.started /\ e.clean = c.clean
        /\ e.outbox = b /\ e.flags = c.flags \ {"TOOLS_CURRENT"}
        /\ e.pipes = c.pipes /\ e.calls = c.calls
        /\ e.backoff = c.backoff /\ e.history = c.history
    BY <1>2
  <2> HIDE DEF e, new
  <2>3. /\ IsChild(d) /\ d.cfg = e.cfg /\ d.state = e.state
        /\ d.started = e.started /\ d.clean = e.clean
        /\ d.outbox = e.outbox /\ d.flags = e.flags \cup {"LISTED"}
        /\ d.pipes = e.pipes /\ d.calls = e.calls \cup new
        /\ d.backoff = e.backoff /\ d.history = e.history
    BY <2>2 DEF IsChild, ChildFields
  <2> HIDE DEF d
  <2>4. Plain(c, d)
    BY <1>4, <2>2, <2>3 DEF Plain, Sound, Probing, Flags
  <2> QED
    BY <2>1, <2>4
<1>6. Plain(c, c)
  BY DEF Plain, Sound
<1> QED
  BY <1>1, <1>3, <1>5, <1>6

\* A call is given back, and the era decided.
LEMMA ReleasePlain ==
  ASSUME NEW c, Sound(c), NEW k
  PROVE  Plain(c, Release(c, k))
BY DEF Release, Plain, Sound, IsChild, ChildFields, Probing

LEMMA ChosenFrugal ==
  ASSUME NEW c, Sound(c), NEW k, NEW era, NEW d \in Chosen(c, k, era)
  PROVE  Frugal(c, d)
<1> DEFINE over == Release(c, k)
           decided == [over EXCEPT !.era = era]
<1>1. Frugal(c, over) /\ Sound(over)
  BY ReleasePlain, PlainFrugal DEF Frugal
<1> HIDE DEF over
<1>2. Plain(over, decided)
  BY <1>1 DEF Plain, Sound, IsChild, ChildFields, Probing
<1>3. Frugal(c, decided) /\ Sound(decided)
  BY <1>1, <1>2, PlainFrugal, FrugalTransitive DEF Frugal
<1>4. \/ d = ChildFailed(decided, "WRITE")
      \/ \E r \in Inventories(decided) :
           d = [r.c EXCEPT !.state = "ready"] \/ d = ChildFailed(r.c, "PROTOCOL")
  BY DEF Chosen, Failures, over
<1> HIDE DEF decided
<1>5. CASE d = ChildFailed(decided, "WRITE")
  BY <1>3, <1>5, FailedFrugal
<1>6. ASSUME NEW r \in Inventories(decided),
             d = [r.c EXCEPT !.state = "ready"] \/ d = ChildFailed(r.c, "PROTOCOL")
      PROVE  Frugal(c, d)
  <2>1. Frugal(decided, r.c) /\ Sound(r.c)
    BY <1>3, InventoriesPlain, PlainFrugal DEF Frugal
  <2>2. Frugal(c, r.c)
    BY <1>3, <2>1, FrugalTransitive
  <2> DEFINE e == [r.c EXCEPT !.state = "ready"]
  <2>3. Plain(r.c, e)
    BY <2>1 DEF Plain, Sound, IsChild, ChildFields, Probing, States
  <2> HIDE DEF e
  <2>4. Frugal(c, e)
    BY <2>1, <2>2, <2>3, PlainFrugal, FrugalTransitive
  <2> QED
    BY <1>6, <2>2, <2>4, FailedFrugal DEF e
<1> QED
  BY <1>4, <1>5, <1>6

\* The probe is over.  The process that follows one that timed out is the one
\* the probe's own start has left.
LEMMA AfterDiscoverFrugal ==
  ASSUME NEW c, Sound(c), NEW k \in c.calls, k.kind = "discover",
         NEW d \in AfterDiscover(c, k)
  PROVE  Frugal(c, d)
<1> DEFINE over == Release(c, k)
           late == [over EXCEPT !.flags = @ \cup {"LEGACY_NEXT"}]
<1>1. Plain(c, over) /\ Frugal(c, over) /\ Sound(over)
  BY ReleasePlain, PlainFrugal DEF Frugal
<1>2. \/ d \in Chosen(c, k, "modern")
      \/ d = ChildFailed(over, "ERA")
      \/ d = ChildFailed(late, "TIMEOUT")
      \/ \E r \in Requests(over, "initialize") : d = r.c \/ d = ChildFailed(r.c, "PROTOCOL")
  BY DEF AfterDiscover, Failures
<1> HIDE DEF over
<1>3. Frugal(c, late)
  <2>1. /\ Sound(late) /\ late.history = over.history /\ late.started = over.started
        /\ late.flags = over.flags \cup {"LEGACY_NEXT"}
    BY <1>1 DEF Sound, IsChild, ChildFields, Flags, LongLived
  <2> HIDE DEF late
  <2>2. Slack(c) <= 1
    BY DEF Slack, Probing
  <2>3. Slack(late) = 1
    BY <2>1 DEF Slack
  <2>4. /\ late.history = c.history /\ late.started = c.started
        /\ "MANUAL_RESTART" \in late.flags => "MANUAL_RESTART" \in c.flags
    BY <1>1, <2>1 DEF Plain
  <2> QED
    BY <2>1, <2>2, <2>3, <2>4, SlackFrugal
<1> HIDE DEF late
<1>4. ASSUME NEW r \in Requests(over, "initialize"),
             d = r.c \/ d = ChildFailed(r.c, "PROTOCOL")
      PROVE  Frugal(c, d)
  <2>1. Frugal(c, r.c)
    BY <1>1, RequestsPlain, PlainFrugal, FrugalTransitive
  <2> QED
    BY <1>4, <2>1, FailedFrugal
<1> QED
  BY <1>1, <1>2, <1>3, <1>4, FailedFrugal, ChosenFrugal

LEMMA ProbeFrugal ==
  ASSUME NEW c, Sound(c), NEW d \in Probe(c)
  PROVE  Frugal(c, d)
<1> DEFINE waiting == IF CallsOf(c, "discover") # {} THEN CallsOf(c, "discover")
                      ELSE CallsOf(c, "initialize")
           k == CHOOSE k \in waiting : TRUE
<1>1. CASE waiting = {}
  <2>1. d = ChildFailed(c, "PROTOCOL")
    BY <1>1 DEF Probe, Failures
  <2> QED
    BY <2>1, ChildFailedFrugal
<1>2. CASE waiting # {}
  <2>1. k \in waiting /\ waiting \subseteq c.calls
    BY <1>2 DEF CallsOf
  <2>2. \/ d = c
        \/ k.kind = "discover" /\ d \in AfterDiscover(c, k)
        \/ d \in AfterInitialize(c, k)
    BY <1>2 DEF Probe
  <2> HIDE DEF k, waiting
  <2>3. CASE d \in AfterInitialize(c, k)
    <3>1. d \in Chosen(c, k, "legacy") \/ d = ChildFailed(Release(c, k), "VERSION")
      BY <2>3 DEF AfterInitialize, Failures
    <3>2. Frugal(c, Release(c, k))
      BY ReleasePlain, PlainFrugal
    <3> QED
      BY <3>1, <3>2, ChosenFrugal, FailedFrugal
  <2> QED
    BY <2>1, <2>2, <2>3, AfterDiscoverFrugal, FrugalSelf
<1> QED
  BY <1>1, <1>2

LEMMA CollectPlain ==
  ASSUME NEW c, Sound(c), c.state \in {"ready", "degraded"}
  PROVE  Plain(c, Collect(c))
<1> DEFINE got == {k \in c.calls : k.done /\ k.kind \in {Lists[i] : i \in DOMAIN Lists}}
           rest == [c EXCEPT !.calls = @ \ got]
           good == [rest EXCEPT !.tools = TRUE, !.state = "ready",
                                !.flags = @ \cup {"TOOLS_CURRENT"}]
           bad == [rest EXCEPT !.state = "degraded", !.flags = @ \ {"TOOLS_CURRENT"}]
           d == Collect(c)
<1>1. d = rest \/ d = good \/ d = bad
  BY DEF Collect
<1> HIDE DEF d, got
<1>2. Plain(c, rest) /\ Sound(rest) /\ rest.state = c.state
  <2>1. Plain(c, rest) /\ rest.state = c.state
    BY DEF Plain, Sound, IsChild, ChildFields, Probing
  <2> QED
    BY <2>1, PlainFrugal DEF Frugal
<1> HIDE DEF rest
<1>3. Plain(rest, good) /\ Plain(rest, bad)
  BY <1>2 DEF Plain, Sound, IsChild, ChildFields, Probing, Flags, States
<1> HIDE DEF good, bad
<1>4. Plain(c, good) /\ Plain(c, bad)
  BY <1>2, <1>3 DEF Plain
<1>5. Plain(c, d)
  BY <1>1, <1>2, <1>4
<1> QED
  BY <1>5 DEF d

\* af_mcp_advance.
LEMMA AdvanceFrugal ==
  ASSUME NEW c, Sound(c), NEW d \in Advance(c)
  PROVE  Frugal(c, d)
<1>1. \/ d \in Probe(c)
      \/ c.state \in {"ready", "degraded"} /\ d = Collect(c)
      \/ d = c
  BY DEF Advance
<1> QED
  BY <1>1, ProbeFrugal, CollectPlain, PlainFrugal, FrugalSelf

\* An update of the calls that keeps their kinds.
LEMMA UpdatePlain ==
  ASSUME NEW c, Sound(c), NEW calls,
         \A l \in calls : \E k \in c.calls : l.kind = k.kind
  PROVE  Plain(c, [c EXCEPT !.calls = calls])
BY DEF Plain, Sound, IsChild, ChildFields, Probing

LEMMA OutboxPlain ==
  ASSUME NEW c, Sound(c), NEW b \in BOOLEAN
  PROVE  Plain(c, [c EXCEPT !.outbox = b])
<1> DEFINE d == [c EXCEPT !.outbox = b]
<1>1. /\ IsChild(d) /\ d.cfg = c.cfg /\ d.state = c.state
      /\ d.started = c.started /\ d.clean = c.clean
      /\ d.outbox = b /\ d.flags = c.flags /\ d.pipes = c.pipes /\ d.calls = c.calls
      /\ d.backoff = c.backoff /\ d.history = c.history
  BY DEF Sound, IsChild, ChildFields
<1> HIDE DEF d
<1>2. Plain(c, d)
  BY <1>1 DEF Plain, Sound, Probing
<1> QED
  BY <1>2 DEF d

\* A call in these states is a record, whatever else.
LEMMA AnsweredPlain ==
  ASSUME NEW c, Sound(c), c.calls \subseteq Calls, NEW id, NEW status
  PROVE  Plain(c, Answered(c, id, status))
<1> DEFINE g(k) == IF k.id = id /\ ~k.done THEN [k EXCEPT !.done = TRUE, !.status = status]
                   ELSE k
           calls == {g(k) : k \in c.calls}
<1>1. Answered(c, id, status) = [c EXCEPT !.calls = calls]
  BY DEF Answered
<1>2. \A k \in c.calls : g(k).kind = k.kind
  BY DEF Calls
<1> HIDE DEF g
<1>3. \A l \in calls : \E k \in c.calls : l.kind = k.kind
  BY <1>2
<1> HIDE DEF calls
<1> QED
  BY <1>1, <1>3, UpdatePlain

LEMMA RetiredPlain ==
  ASSUME NEW c, Sound(c), c.calls \subseteq Calls
  PROVE  Plain(c, Retired(c))
<1> DEFINE g(k) == IF k \in Expired(c) THEN [k EXCEPT !.done = TRUE, !.status = "timeout"]
                   ELSE k
           calls == {g(k) : k \in c.calls}
<1>1. Retired(c) = [c EXCEPT !.calls = calls]
  BY DEF Retired
<1>2. \A k \in c.calls : g(k).kind = k.kind
  BY DEF Calls
<1> HIDE DEF g
<1>3. \A l \in calls : \E k \in c.calls : l.kind = k.kind
  BY <1>2
<1> HIDE DEF calls
<1> QED
  BY <1>1, <1>3, UpdatePlain

\* The sweep's work on a session.
LEMMA SweepSessionFrugal ==
  ASSUME NEW c, Sound(c), c.calls \subseteq Calls, NEW b \in SweepOutbox(c),
         b.calls \subseteq Calls, NEW d \in SweepSession(b)
  PROVE  Frugal(c, d)
<1>1. Frugal(c, b) /\ Sound(b)
  <2>1. b = [c EXCEPT !.outbox = FALSE] \/ b = c \/ b = ChildFailed(c, "WRITE")
    BY DEF SweepOutbox
  <2>2. Frugal(c, [c EXCEPT !.outbox = FALSE])
    BY OutboxPlain, PlainFrugal
  <2>3. Frugal(c, b)
    BY <2>1, <2>2, FrugalSelf, ChildFailedFrugal
  <2> QED
    BY <2>3 DEF Frugal
<1>2. PICK r \in SweptCalls(b) : d \in IF r.ok THEN Advance(r.c) ELSE {r.c}
  BY DEF SweepSession
<1> DEFINE e == Retired(b)
<1>3. Frugal(b, e) /\ Sound(e)
  BY <1>1, RetiredPlain, PlainFrugal DEF Frugal
<1>4. \/ r.c = e
      \/ \E x \in BOOLEAN : r.c = [e EXCEPT !.outbox = x]
      \/ r.c = ChildFailed(e, "WRITE")
  BY DEF SweptCalls
<1> HIDE DEF e
<1>5. ASSUME NEW x \in BOOLEAN
      PROVE  Frugal(e, [e EXCEPT !.outbox = x])
  BY <1>3, OutboxPlain, PlainFrugal
<1>6. Frugal(e, r.c)
  BY <1>3, <1>4, <1>5, FrugalSelf, ChildFailedFrugal
<1>7. Frugal(c, r.c) /\ Sound(r.c)
  <2>1. Frugal(c, e)
    BY <1>1, <1>3, FrugalTransitive
  <2> QED
    BY <1>6, <2>1, FrugalTransitive DEF Frugal
<1>8. d = r.c \/ Frugal(r.c, d)
  BY <1>2, <1>7, AdvanceFrugal
<1> QED
  BY <1>7, <1>8, FrugalTransitive

LEMMA DropPlain ==
  ASSUME NEW c, Sound(c), NEW pipe
  PROVE  /\ Plain(c, DropPipe(c, pipe))
         /\ Plain(c, DropPipe([c EXCEPT !.flags = @ \cup {"EOF"}], pipe))
<1>1. Plain(c, DropPipe(c, pipe))
  BY DEF DropPipe, Plain, Sound, IsChild, ChildFields, Probing
<1>2. Plain(c, DropPipe([c EXCEPT !.flags = @ \cup {"EOF"}], pipe))
  BY DEF DropPipe, Plain, Sound, IsChild, ChildFields, Probing, Flags
<1> QED
  BY <1>1, <1>2

\* The end of a process.
LEMMA TornDownPlain ==
  ASSUME NEW c, Sound(c), NEW p, NEW r \in TornDown(c, p)
  PROVE  Plain(c, r.c) /\ r.c.calls = {} /\ r.forked = FALSE
<1>1. ASSUME NEW killed
      PROVE  Plain(c, Teardown(c, killed)) /\ Teardown(c, killed).calls = {}
  <2> DEFINE g == c.pgid /\ ~killed
             u == [c EXCEPT !.pgid = g, !.pipes = {}]
  <2>1. Teardown(c, killed) = Invalidate(u)
    BY DEF Teardown
  <2> HIDE DEF g
  <2>2. Plain(c, u)
    BY DEF Plain, Sound, IsChild, ChildFields, Probing
  <2>3. Sound(u)
    BY <2>2, PlainFrugal DEF Frugal
  <2> HIDE DEF u
  <2>4. Plain(u, Invalidate(u))
    BY <2>3, InvalidatePlain
  <2>5. Invalidate(u).calls = {}
    BY <2>3 DEF Invalidate, Sound, IsChild, ChildFields
  <2>6. Plain(c, Invalidate(u))
    BY <2>2, <2>4 DEF Plain
  <2> QED
    BY <2>1, <2>5, <2>6
<1>2. PICK ok, q : r = Outcome(Teardown(c, ok), q)
  BY DEF TornDown
<1>3. r.c = Teardown(c, ok) /\ r.forked = FALSE
  BY <1>2 DEF Outcome
<1> QED
  BY <1>1, <1>3

LEMMA CollectedPlain ==
  ASSUME NEW c, Sound(c), NEW p, NEW r \in Collected(c, p)
  PROVE  Plain(c, r.c) /\ r.forked = FALSE
<1> DEFINE e == (p.leader = "clean")
           d == Reaped(c, e)
           q == [p EXCEPT !.leader = "none", !.speaks = "none"]
<1>1. r \in TornDown(d, q)
  BY DEF Collected
<1>2. e \in BOOLEAN
  OBVIOUS
<1> HIDE DEF e
<1>3. /\ IsChild(d) /\ d.cfg = c.cfg /\ d.state = c.state
      /\ d.started = c.started /\ d.clean = e
      /\ d.outbox = c.outbox /\ d.flags = c.flags /\ d.pipes = c.pipes
      /\ d.calls = c.calls /\ d.backoff = c.backoff /\ d.history = c.history
  BY DEF Reaped, Sound, IsChild, ChildFields
<1> HIDE DEF d
<1>4. Plain(c, d)
  BY <1>2, <1>3 DEF Plain, Sound, Probing
<1>5. Sound(d)
  BY <1>4, PlainFrugal DEF Frugal
<1>6. Plain(d, r.c) /\ r.forked = FALSE
  BY <1>1, <1>5, TornDownPlain
<1> QED
  BY <1>4, <1>6 DEF Plain

LEMMA StoppedPlain ==
  ASSUME NEW c, Sound(c)
  PROVE  Plain(c, Stopped(c))
BY DEF Stopped, Plain, Sound, IsChild, ChildFields, Probing, States, StopFlags

\* What becomes of a child whose process has been collected.  A restart that
\* is not scheduled is the operator's, or the one initialize needs.
LEMMA AfterExitFrugal ==
  ASSUME NEW c, Sound(c)
  PROVE  Frugal(c, AfterExit(c))
<1> DEFINE over == [c EXCEPT !.flags = @ \ StopFlags]
           again == RestartNow(over)
           rest == [c EXCEPT !.state = "stopped"]
           d == AfterExit(c)
<1>1. \/ d = rest
      \/ d = ChildFailed(c, "SPAWN")
      \/ d = Stopped(c)
      \/ ("LEGACY_NEXT" \in c.flags \/ "MANUAL_RESTART" \in c.flags) /\ d = again
      \/ d = ScheduleRestart(over)
  BY DEF AfterExit, Has
<1>2. Plain(c, over) /\ Plain(c, rest)
  BY DEF Plain, Sound, IsChild, ChildFields, Probing, States, StopFlags
<1>3. Frugal(c, over) /\ Sound(over) /\ Frugal(c, rest) /\ Frugal(c, Stopped(c))
  BY <1>2, StoppedPlain, PlainFrugal DEF Frugal
<1>4. Frugal(c, ScheduleRestart(over))
  BY <1>3, ScheduleFrugal, FrugalTransitive
<1>5. over.flags = c.flags \ StopFlags
  BY DEF Sound, IsChild, ChildFields
<1> HIDE DEF over
<1>6. ASSUME "LEGACY_NEXT" \in c.flags \/ "MANUAL_RESTART" \in c.flags
      PROVE  Frugal(c, again)
  <2>1. /\ Sound(again) /\ again.history = over.history
        /\ again.started = over.started /\ again.flags = over.flags
    BY <1>3 DEF RestartNow, Sound, IsChild, ChildFields, States
  <2>2. /\ again.history = c.history /\ again.started = c.started
        /\ again.flags = c.flags \ StopFlags
    BY <1>2, <1>5, <2>1 DEF Plain
  <2>3. "LEGACY_NEXT" \in c.flags => Slack(c) = 1 /\ Slack(again) = 1
    BY <2>2 DEF Slack, StopFlags
  <2> HIDE DEF again
  <2>4. "MANUAL_RESTART" \in again.flags => "MANUAL_RESTART" \in c.flags
    BY <2>2
  <2>5. "MANUAL_RESTART" \in c.flags \/ Slack(c) <= Slack(again)
    BY <1>6, <2>3
  <2> QED
    BY <2>1, <2>2, <2>4, <2>5, SlackFrugal
<1> HIDE DEF d, rest, again
<1>7. Frugal(c, d)
  BY <1>1, <1>3, <1>4, <1>6, ChildFailedFrugal
<1> QED
  BY <1>7 DEF d

LEMMA EscalatedPlain ==
  ASSUME NEW c, Sound(c), NEW p
  PROVE  LET r == Escalated(c, p) IN Plain(c, r.c) /\ r.forked = FALSE
<1> DEFINE e == [c EXCEPT !.flags = @ \cup {"TERM_SENT"}, !.next = TermWait]
           r == Escalated(c, p)
<1>1. /\ r.forked = FALSE
      /\ r.c = c \/ r.c = e
  BY DEF Escalated, Outcome
<1>2. Plain(c, e) /\ Plain(c, c)
  BY DEF Plain, Sound, IsChild, ChildFields, Probing, Flags
<1> HIDE DEF r, e
<1>3. Plain(c, r.c) /\ r.forked = FALSE
  BY <1>1, <1>2
<1> QED
  BY <1>3 DEF r

\* The first two phases of a sweep start nothing.
LEMMA SweepProcessFrugal ==
  ASSUME NEW c, Sound(c), NEW p, NEW r \in SweepProcess(c, p)
  PROVE  Frugal(c, r.c) /\ r.forked = FALSE
<1>1. CASE r = Outcome(c, p)
  BY <1>1, FrugalSelf DEF Outcome
<1>2. ASSUME NEW s \in Collected(c, p), r = Outcome(AfterExit(s.c), s.p)
      PROVE  Frugal(c, r.c) /\ r.forked = FALSE
  <2>1. Frugal(c, s.c) /\ Sound(s.c)
    BY <1>2, CollectedPlain, PlainFrugal DEF Frugal
  <2>2. Frugal(c, AfterExit(s.c))
    BY <2>1, AfterExitFrugal, FrugalTransitive
  <2> QED
    BY <1>2, <2>2 DEF Outcome
<1>3. CASE r = Escalated(c, p)
  BY <1>3, EscalatedPlain, PlainFrugal
<1> QED
  BY <1>1, <1>2, <1>3 DEF SweepProcess

LEMMA SweepGroupFrugal ==
  ASSUME NEW c, Sound(c), NEW p, NEW r \in SweepGroup(c, p)
  PROVE  Frugal(c, r.c) /\ r.forked = FALSE
<1>1. r \in TornDown(c, p) \/ r = Outcome(c, p)
  BY DEF SweepGroup
<1>2. CASE r = Outcome(c, p)
  BY <1>2, FrugalSelf DEF Outcome
<1> QED
  BY <1>1, <1>2, TornDownPlain, PlainFrugal

\* What a fork leaves: a child that pays for one process more than it did as
\* a restart that was due.
Paying(c, d) ==
  /\ Sound(d) /\ d.started = TRUE /\ "MANUAL_RESTART" \notin d.flags
  /\ \A a \in 0 .. Window :
       2 * Num(c.history, a) + (IF "LEGACY_NEXT" \in c.flags THEN 2 ELSE 1) <= Worth(d, a)

LEMMA PayingFrugal ==
  ASSUME NEW c, NEW d, NEW e, Sound(c), Paying(c, d), Frugal(d, e)
  PROVE  Paying(c, e)
<1>1. Sound(d) /\ Sound(e) /\ e.started = TRUE /\ "MANUAL_RESTART" \notin e.flags
  BY DEF Paying, Frugal
<1>2. ASSUME NEW a \in 0 .. Window
      PROVE  2 * Num(c.history, a) + (IF "LEGACY_NEXT" \in c.flags THEN 2 ELSE 1)
               <= Worth(e, a)
  <2>1. a \in Int
    BY McpAssumption
  <2>2. Num(c.history, a) \in Nat /\ Worth(d, a) \in Nat /\ Worth(e, a) \in Nat
    BY <1>1, <2>1, SoundCounts
  <2>3. Worth(d, a) <= Worth(e, a)
    BY DEF Paying, Frugal
  <2>4. 2 * Num(c.history, a) + (IF "LEGACY_NEXT" \in c.flags THEN 2 ELSE 1) <= Worth(d, a)
    BY DEF Paying
  <2> QED
    BY <2>2, <2>3, <2>4
<1> QED
  BY <1>1, <1>2 DEF Paying

\* A child with the same history and slack to spare.
LEMMA SlackPays ==
  ASSUME NEW c, NEW d, Sound(c), Sound(d), d.history = c.history, d.started = TRUE,
         "MANUAL_RESTART" \notin d.flags,
         Slack(d) >= IF "LEGACY_NEXT" \in c.flags THEN 2 ELSE 1
  PROVE  Paying(c, d)
<1>1. ASSUME NEW a \in 0 .. Window
      PROVE  2 * Num(c.history, a) + (IF "LEGACY_NEXT" \in c.flags THEN 2 ELSE 1)
               <= Worth(d, a)
  <2>1. a \in Int
    BY McpAssumption
  <2>2. Num(c.history, a) \in Nat /\ Slack(d) \in 0 .. 2
    BY <2>1, SoundCounts
  <2> QED
    BY <2>2 DEF Worth
<1> QED
  BY <1>1 DEF Paying

\* What af_mcp_start clears.
LEMMA ClearedSound ==
  ASSUME NEW c, Sound(c)
  PROVE  LET d == Cleared(c) IN
           /\ Sound(d) /\ d.history = c.history /\ d.started = c.started
           /\ d.flags = c.flags \cap {"MANUAL_STOP"} /\ d.calls = {}
<1> DEFINE d == Cleared(c)
<1>1. /\ IsChild(d) /\ d.cfg = c.cfg /\ d.state = "starting"
      /\ d.started = c.started /\ d.clean = c.clean /\ d.outbox = FALSE
      /\ d.flags = c.flags \cap {"MANUAL_STOP"} /\ d.pipes = c.pipes /\ d.calls = {}
      /\ d.backoff = c.backoff /\ d.history = c.history
  BY DEF Cleared, Sound, IsChild, ChildFields
<1> HIDE DEF d
<1>2. d.outbox \in BOOLEAN
  BY <1>1, Zenon
<1>3. Sound(d)
  BY <1>1, <1>2 DEF Sound, States
<1> QED
  BY <1>1, <1>3 DEF d

\* A process was started.
LEMMA SpawnedPays ==
  ASSUME NEW c, Sound(c), NEW d \in Spawned(c)
  PROVE  Paying(c, d)
<1> DEFINE e == Cleared(c)
           pipes == {"stdin", "stdout", "stderr"}
           live == [e EXCEPT !.state = "probing", !.pid = TRUE, !.pgid = TRUE,
                             !.started = TRUE, !.pipes = pipes]
           kind == IF Has(c, "LEGACY_NEXT") THEN "initialize" ELSE "discover"
<1>1. PICK r \in Requests(live, kind) :
        d = IF r.ok THEN r.c ELSE ChildFailed(r.c, "PROTOCOL")
  BY DEF Spawned
<1>2. /\ Sound(e) /\ e.history = c.history
      /\ e.flags = c.flags \cap {"MANUAL_STOP"} /\ e.calls = {}
  BY ClearedSound
<1> HIDE DEF e
<1>3. /\ IsChild(live) /\ live.cfg = e.cfg /\ live.state = "probing"
      /\ live.started = TRUE /\ live.clean = e.clean /\ live.outbox = e.outbox
      /\ live.flags = e.flags /\ live.pipes = pipes /\ live.calls = e.calls
      /\ live.backoff = e.backoff /\ live.history = e.history
  BY <1>2 DEF Sound, IsChild, ChildFields
<1> HIDE DEF live
<1>4. live.started \in BOOLEAN
  BY <1>3, Zenon
<1>5. Sound(live)
  BY <1>2, <1>3, <1>4 DEF Sound, States
<1>6. /\ Sound(r.c) /\ r.c.started = live.started /\ r.c.history = live.history
      /\ r.c.state = live.state /\ r.c.flags = live.flags
      /\ Probing(r.c) => Probing(live) \/ kind = "discover"
  BY <1>1, <1>5, RequestsPlain
<1>7. ~Probing(live)
  BY <1>2, <1>3 DEF Probing
<1>8. Slack(r.c) >= IF "LEGACY_NEXT" \in c.flags THEN 2 ELSE 1
  BY <1>2, <1>3, <1>6, <1>7 DEF Slack, Has
<1>9. Paying(c, r.c)
  <2>1. /\ r.c.history = c.history /\ r.c.started = TRUE
        /\ "MANUAL_RESTART" \notin r.c.flags
    BY <1>2, <1>3, <1>6
  <2> QED
    BY <1>6, <1>8, <2>1, SlackPays
<1>10. Paying(c, ChildFailed(r.c, "PROTOCOL"))
  BY <1>6, <1>9, ChildFailedFrugal, PayingFrugal
<1> QED
  BY <1>1, <1>9, <1>10

\* af_mcp_start.
LEMMA StartsPays ==
  ASSUME NEW c, Sound(c), NEW p, NEW r \in Starts(c, p)
  PROVE  \/ r.forked = FALSE /\ Frugal(c, r.c)
         \/ r.forked = TRUE /\ Paying(c, r.c)
<1>1. CASE r = Outcome(c, p)
  BY <1>1, FrugalSelf DEF Outcome
<1> DEFINE e == Cleared(c)
           u == [e EXCEPT !.state = "failed"]
           v == [e EXCEPT !.state = "failed", !.started = TRUE, !.clean = FALSE]
<1>2. /\ Sound(e) /\ e.history = c.history /\ e.started = c.started
      /\ e.flags = c.flags \cap {"MANUAL_STOP"} /\ e.calls = {}
  BY ClearedSound
<1>3. NotSpawned(c) = ScheduleRestart(u) /\ NotRegistered(c) = ScheduleRestart(v)
  BY DEF NotSpawned, NotRegistered
<1> HIDE DEF e
<1>4. /\ Sound(u) /\ u.history = c.history /\ u.started = c.started
      /\ "MANUAL_RESTART" \notin u.flags /\ Slack(u) = 2
  <2>1. /\ IsChild(u) /\ u.cfg = e.cfg /\ u.state = "failed"
        /\ u.started = e.started /\ u.clean = e.clean /\ u.outbox = e.outbox
        /\ u.flags = e.flags /\ u.pipes = e.pipes /\ u.calls = e.calls
        /\ u.backoff = e.backoff /\ u.history = e.history
    BY <1>2 DEF Sound, IsChild, ChildFields
  <2> HIDE DEF u
  <2> QED
    BY <1>2, <2>1 DEF Sound, States, Slack, Probing
<1>5. /\ Sound(v) /\ v.history = c.history /\ v.started = TRUE
      /\ "MANUAL_RESTART" \notin v.flags /\ Slack(v) = 2
  <2>1. /\ IsChild(v) /\ v.cfg = e.cfg /\ v.state = "failed"
        /\ v.started = TRUE /\ v.clean = FALSE /\ v.outbox = e.outbox
        /\ v.flags = e.flags /\ v.pipes = e.pipes /\ v.calls = e.calls
        /\ v.backoff = e.backoff /\ v.history = e.history
    BY <1>2 DEF Sound, IsChild, ChildFields
  <2> HIDE DEF v
  <2>2. v.started \in BOOLEAN /\ v.clean \in BOOLEAN
    BY <2>1, Zenon
  <2> QED
    BY <1>2, <2>1, <2>2 DEF Sound, States, Slack, Probing
<1> HIDE DEF u, v
<1>6. Frugal(c, NotSpawned(c))
  <2>1. Slack(c) <= Slack(u)
    BY <1>4 DEF Slack
  <2>2. Frugal(c, u)
    BY <1>4, <2>1, SlackFrugal
  <2>3. Frugal(u, NotSpawned(c))
    BY <1>3, <1>4, ScheduleFrugal
  <2> QED
    BY <2>2, <2>3, FrugalTransitive
<1>7. Paying(c, NotRegistered(c))
  <2>1. Paying(c, v)
    <3>1. Slack(v) >= IF "LEGACY_NEXT" \in c.flags THEN 2 ELSE 1
      BY <1>5
    <3> QED
      BY <1>5, <3>1, SlackPays
  <2>2. Frugal(v, NotRegistered(c))
    BY <1>3, <1>5, ScheduleFrugal
  <2> QED
    BY <2>1, <2>2, PayingFrugal
<1>8. CASE r = Outcome(NotSpawned(c), p)
  BY <1>6, <1>8 DEF Outcome
<1>9. CASE r = [c |-> NotRegistered(c), p |-> p, forked |-> TRUE, over |-> Exists(p)]
  BY <1>7, <1>9
<1>10. ASSUME NEW d \in Spawned(c), NEW s \in Eras,
              r = [c |-> d, forked |-> TRUE, over |-> Exists(p),
                   p |-> [leader |-> "alive", helpers |-> FALSE, speaks |-> s]]
       PROVE  r.forked = TRUE /\ Paying(c, r.c)
  BY <1>10, SpawnedPays
<1>11. \/ r = Outcome(c, p)
       \/ r = Outcome(NotSpawned(c), p)
       \/ r = [c |-> NotRegistered(c), p |-> p, forked |-> TRUE, over |-> Exists(p)]
       \/ \E d \in Spawned(c), s \in Eras :
            r = [c |-> d, forked |-> TRUE, over |-> Exists(p),
                 p |-> [leader |-> "alive", helpers |-> FALSE, speaks |-> s]]
  <2>1. CASE ~Startable(c)
    BY <2>1 DEF Starts
  <2>2. CASE Startable(c)
    BY <2>2 DEF Starts
  <2> QED
    BY <2>1, <2>2
<1> QED
  BY <1>1, <1>8, <1>9, <1>10, <1>11

\* The processes started are paid for.  Those started by the operator's word
\* are not counted: a first start, or a restart the operator waits for, finds
\* no process to account for.
Paid(c, s) ==
  /\ ~c.started => s = << >>
  /\ "MANUAL_RESTART" \in c.flags => s = << >>
  /\ \A a \in 0 .. Window : Num(s, a) <= Worth(c, a)

LEMMA NothingPaid ==
  ASSUME NEW c, Sound(c)
  PROVE  Paid(c, << >>) /\ \A a \in 0 .. Window : Num(<< >>, a) = 0
<1>1. \A a \in 0 .. Window : Num(<< >>, a) = 0
  <2> SUFFICES ASSUME NEW a \in 0 .. Window PROVE Num(<< >>, a) = 0
    OBVIOUS
  <2>1. << >> \in Seq(Int) /\ \A i \in DOMAIN << >> : << >>[i] > a
    OBVIOUS
  <2>2. a \in Int
    BY McpAssumption
  <2> QED
    BY <2>1, <2>2, NumNone
<1>2. \A a \in 0 .. Window : Worth(c, a) \in Nat
  <2>1. \A a \in 0 .. Window : a \in Int
    BY McpAssumption
  <2> QED
    BY <2>1, SoundCounts
<1> QED
  BY <1>1, <1>2 DEF Paid

LEMMA FrugalPaid ==
  ASSUME NEW c, NEW d, Sound(c), Frugal(c, d), NEW s \in Seq(0 .. Window), Paid(c, s)
  PROVE  Paid(d, s)
<1>1. CASE s = << >>
  BY <1>1, NothingPaid DEF Frugal
<1>2. CASE s # << >>
  <2>1. c.started /\ "MANUAL_RESTART" \notin c.flags
    BY <1>2 DEF Paid
  <2>2. ASSUME NEW a \in 0 .. Window
        PROVE  Num(s, a) <= Worth(d, a)
    <3>1. a \in Int /\ a <= a
      BY McpAssumption
    <3>2. s \in Seq(Int)
      BY McpAssumption, SeqWider
    <3>3. Num(s, a) \in Nat /\ Worth(c, a) \in Nat /\ Worth(d, a) \in Nat
      BY <3>1, <3>2, NumType, SoundCounts DEF Frugal
    <3>4. Num(s, a) <= Worth(c, a) /\ Worth(c, a) <= Worth(d, a)
      BY <2>1 DEF Paid, Frugal
    <3> QED
      BY <3>3, <3>4
  <2> QED
    BY <2>1, <2>2 DEF Paid, Frugal
<1> QED
  BY <1>1, <1>2

\* A start that was due pays for the process it forks.
LEMMA ForkPaid ==
  ASSUME NEW c, NEW d, Sound(c), StartIsDue(c), Paying(c, d),
         NEW s \in Seq(0 .. Window), Paid(c, s)
  PROVE  Paid(d, Append(s, 0))
<1>1. ASSUME NEW a \in 0 .. Window
      PROVE  Num(Append(s, 0), a) <= Worth(d, a)
  <2>1. a \in Int /\ 0 <= a /\ a <= a
    BY McpAssumption
  <2>2. s \in Seq(Int)
    BY McpAssumption, SeqWider
  <2>3. Num(s, a) \in Nat
    BY <2>1, <2>2, NumType
  <2>3a. Num(Append(s, 0), a) = Num(s, a) + 1
    BY <2>1, <2>2, NumAppend
  <2>4. /\ Num(c.history, a) \in Nat /\ Slack(c) \in 0 .. 2 /\ Worth(d, a) \in Nat
        /\ 2 * Num(c.history, a) + (IF "LEGACY_NEXT" \in c.flags THEN 2 ELSE 1)
             <= Worth(d, a)
    BY <2>1, SoundCounts DEF Paying
  <2>5. CASE ~c.started
    <3>1. s = << >>
      BY <2>5 DEF Paid
    <3>2. Num(s, a) = 0
      BY <3>1, NothingPaid
    <3> QED
      BY <2>3, <2>3a, <2>4, <3>2
  <2>6. CASE c.state = "restarting"
    <3>1. Slack(c) = IF "LEGACY_NEXT" \in c.flags THEN 1 ELSE 0
      BY <2>6 DEF Slack
    <3>2. Num(s, a) <= 2 * Num(c.history, a) + Slack(c)
      BY DEF Paid, Worth
    <3> QED
      BY <2>3, <2>3a, <2>4, <3>1, <3>2
  <2> QED
    BY <2>5, <2>6 DEF StartIsDue
<1> QED
  BY <1>1 DEF Paid, Paying

\* A sweep up to the group leaves a child and a process that go together.
LEMMA GroupIsSafe ==
  ASSUME NEW c, NEW p, Safe(c, p), NEW s \in SweepProcess(c, p),
         NEW g \in SweepGroup(s.c, s.p)
  PROVE  Safe(g.c, g.p)
<1>1. CASE ~c.pid
  <2>1. s.c = c /\ s.p = p
    BY <1>1 DEF SweepProcess, Outcome
  <2>2. g \in SweepGroup(c, p)
    BY <2>1
  <2> QED
    BY <1>1, <2>2, SweepGroupSafe
<1>2. CASE c.pid /\ p.leader \in Zombies
  <2>1. PICK t \in Collected(c, p) : s = Outcome(AfterExit(t.c), t.p)
    BY <1>2 DEF SweepProcess
  <2>2. s.c = AfterExit(t.c) /\ s.p = t.p
    BY <2>1 DEF Outcome
  <2>3. /\ Ended(c, t.c) /\ ~t.c.pid
        /\ t.p \in Procs /\ t.p.leader = "none" /\ (t.p.helpers => t.c.pgid)
    <3>1. Typed(c) /\ p \in Procs /\ (p.helpers => c.pgid)
      BY DEF Safe, Fit, Owns
    <3> QED
      BY <3>1, CollectedFields
  <2>4. "STOPPING" \in c.flags => Blank(c)
    BY DEF Safe, Fit, Session
  <2>5. /\ Bare(t.c, t.p)
        /\ "STOPPING" \in t.c.flags => t.c.state \notin LiveStates
    BY <1>2, <2>3, <2>4 DEF Bare, Ended, Safe, Fit, Blank
  <2>6. Rested(s.c, s.p)
    BY <2>2, <2>5, AfterExitRests
  <2> QED
    BY <2>6, SweepGroupSafe DEF Rested
<1>3. CASE c.pid /\ p.leader \notin Zombies
  <2>1. s = Escalated(c, p)
    BY <1>3 DEF SweepProcess
  <2>2. Safe(s.c, s.p) /\ Handled(c, p, s.c)
    BY <2>1, EscalatedHandled
  <2>3. s.c.pid
    BY <1>3, <2>2 DEF Handled, SameProcess
  <2>4. g.c = s.c /\ g.p = s.p
    BY <2>3 DEF SweepGroup, Outcome
  <2> QED
    BY <2>2, <2>4
<1> QED
  BY <1>1, <1>2, <1>3

\* The timer.
LEMMA SweepsPaid ==
  ASSUME NEW c, NEW p, Safe(c, p), Sound(c), NEW s \in Seq(0 .. Window), Paid(c, s),
         NEW r \in Sweeps(c, p)
  PROVE  /\ Sound(r.c)
         /\ \/ r.forked = FALSE /\ Paid(r.c, s)
            \/ r.forked = TRUE /\ Paid(r.c, Append(s, 0))
<1>0. PICK t \in SweepProcess(c, p) : \E g \in SweepGroup(t.c, t.p) :
        \/ ~g.c.pid /\ g.c.pgid /\ r = g
        \/ /\ ~(~g.c.pid /\ g.c.pgid)
           /\ \E b \in SweepOutbox(g.c) : \E d \in SweepSession(b) :
                r \in SweepStart(d, g.p)
  BY SweepPhases
<1>1. PICK g \in SweepGroup(t.c, t.p) :
        \/ ~g.c.pid /\ g.c.pgid /\ r = g
        \/ /\ ~(~g.c.pid /\ g.c.pgid)
           /\ \E b \in SweepOutbox(g.c) : \E d \in SweepSession(b) :
                r \in SweepStart(d, g.p)
  BY <1>0
<1>2. Frugal(c, t.c) /\ Sound(t.c)
  BY <1>0, SweepProcessFrugal DEF Frugal
<1>3. Frugal(t.c, g.c) /\ Sound(g.c) /\ g.forked = FALSE
  BY <1>1, <1>2, SweepGroupFrugal DEF Frugal
<1>4. Frugal(c, g.c)
  BY <1>2, <1>3, FrugalTransitive
<1>5. CASE r = g
  BY <1>3, <1>4, <1>5, FrugalPaid
<1>6. ASSUME NEW b \in SweepOutbox(g.c), NEW d \in SweepSession(b),
             r \in SweepStart(d, g.p)
      PROVE  /\ Sound(r.c)
             /\ \/ r.forked = FALSE /\ Paid(r.c, s)
                \/ r.forked = TRUE /\ Paid(r.c, Append(s, 0))
  <2>1. Safe(g.c, g.p)
    BY <1>0, <1>1, GroupIsSafe
  <2>2. Safe(b, g.p)
    BY <1>6, <2>1, SweepOutboxHandled DEF Handled
  <2>3. g.c.calls \subseteq Calls /\ b.calls \subseteq Calls
    BY <2>1, <2>2, SafeCalls
  <2>4. Frugal(g.c, d)
    BY <1>3, <1>6, <2>3, SweepSessionFrugal
  <2>5. Frugal(c, d) /\ Sound(d)
    BY <1>4, <2>4, FrugalTransitive DEF Frugal
  <2>6. Paid(d, s)
    BY <2>5, FrugalPaid
  <2>7. CASE r = Outcome(d, g.p)
    BY <2>5, <2>6, <2>7 DEF Outcome
  <2>8. CASE StartIsDue(d) /\ r \in Starts(d, g.p)
    <3>1. \/ r.forked = FALSE /\ Frugal(d, r.c)
          \/ r.forked = TRUE /\ Paying(d, r.c)
      BY <2>5, <2>8, StartsPays
    <3>2. CASE r.forked = FALSE /\ Frugal(d, r.c)
      BY <2>5, <2>6, <3>2, FrugalPaid DEF Frugal
    <3>3. CASE r.forked = TRUE /\ Paying(d, r.c)
      BY <2>5, <2>6, <2>8, <3>3, ForkPaid DEF Paying
    <3> QED
      BY <3>1, <3>2, <3>3
  <2> QED
    BY <1>6, <2>7, <2>8 DEF SweepStart
<1> QED
  BY <1>1, <1>5, <1>6

\* A unit of time: every age grows by one, and what is too old is dropped.
LEMMA ElapseCounts ==
  ASSUME NEW c, Sound(c), c.calls \subseteq Calls
  PROVE  LET d == Elapse(c) IN
           /\ Sound(d) /\ d.started = c.started /\ d.flags = c.flags
           /\ Slack(d) = Slack(c)
           /\ \A a \in 0 .. Window : Num(d.history, a) = Num(c.history, a - 1)
<1> DEFINE g(k) == [k EXCEPT !.left = IF @ > 0 THEN @ - 1 ELSE 0]
           calls == {g(k) : k \in c.calls}
           h == [i \in DOMAIN c.history |->
                  IF c.history[i] <= Window THEN c.history[i] + 1 ELSE c.history[i]]
           n == IF c.next > 0 THEN c.next - 1 ELSE c.next
           d == Elapse(c)
<1>1. d = [c EXCEPT !.next = n, !.history = h, !.calls = calls]
  BY DEF Elapse
<1>2. \A k \in c.calls : g(k).kind = k.kind
  BY DEF Calls
<1>3. Window \in Nat /\ c.history \in Seq(0 .. (Window + 1)) /\ c.history \in Seq(Int)
  BY McpAssumption, SoundCounts DEF Sound
<1>4. h \in Seq(0 .. (Window + 1))
  <2>1. /\ Len(c.history) \in Nat /\ DOMAIN c.history = 1 .. Len(c.history)
        /\ \A i \in 1 .. Len(c.history) : c.history[i] \in 0 .. (Window + 1)
    BY <1>3
  <2>2. h \in [1 .. Len(c.history) -> 0 .. (Window + 1)]
    BY <1>3, <2>1
  <2> QED
    BY <2>1, <2>2, SeqMade
<1>5. \A a \in 0 .. Window : Num(h, a) = Num(c.history, a - 1)
  <2> SUFFICES ASSUME NEW a \in 0 .. Window PROVE Num(h, a) = Num(c.history, a - 1)
    OBVIOUS
  <2>1. \A i \in DOMAIN h : h[i] <= a <=> c.history[i] <= a - 1
    BY <1>3
  <2>2. DOMAIN h = DOMAIN c.history
    OBVIOUS
  <2> HIDE DEF h
  <2> QED
    BY <2>1, <2>2, NumSame
<1>6. Num(h, Window) <= MaxRestarts
  <2>1. Window \in 0 .. Window /\ Window - 1 \in Int /\ Window \in Int /\ Window - 1 <= Window
    BY <1>3
  <2>2. Num(h, Window) = Num(c.history, Window - 1)
    BY <1>5, <2>1
  <2>3. Num(c.history, Window - 1) \in Nat
        /\ Num(c.history, Window - 1) <= Num(c.history, Window)
    BY <1>3, <2>1, NumType
  <2>4. Num(c.history, Window) \in Nat
    BY <2>1, SoundCounts
  <2> QED
    BY <2>2, <2>3, <2>4, McpAssumption DEF Sound
<1> HIDE DEF g, d, h, n
<1>7. (\E l \in calls : l.kind = "discover") <=> Probing(c)
  BY <1>2 DEF Probing
<1> HIDE DEF calls
<1>8. /\ IsChild(d) /\ d.cfg = c.cfg /\ d.state = c.state
      /\ d.started = c.started /\ d.clean = c.clean /\ d.outbox = c.outbox
      /\ d.flags = c.flags /\ d.pipes = c.pipes /\ d.calls = calls
      /\ d.backoff = c.backoff /\ d.history = h
  BY <1>1 DEF Sound, IsChild, ChildFields
<1>9. Sound(d)
  BY <1>4, <1>6, <1>8 DEF Sound
<1>10. Slack(d) = Slack(c)
  BY <1>7, <1>8 DEF Slack, Probing
<1> QED
  BY <1>5, <1>8, <1>9, <1>10 DEF d

LEMMA AgedCounts ==
  ASSUME NEW s \in Seq(0 .. Window)
  PROVE  /\ Aged(s) \in Seq(0 .. Window)
         /\ s = << >> => Aged(s) = << >>
         /\ \A a \in 0 .. Window : Num(Aged(s), a) = Num(s, a - 1)
<1> DEFINE t == [i \in DOMAIN s |-> s[i] + 1]
           S == {i \in DOMAIN t : t[i] <= Window}
<1>1. Window \in Nat /\ t \in Seq(Int) /\ S \in SUBSET DOMAIN t
      /\ DOMAIN t = DOMAIN s /\ \A i \in DOMAIN s : t[i] = s[i] + 1 /\ s[i] \in Nat
  <2>1. /\ Len(s) \in Nat /\ DOMAIN s = 1 .. Len(s) /\ Window \in Nat
        /\ \A i \in DOMAIN s : s[i] \in Nat
    BY McpAssumption
  <2>2. t \in [1 .. Len(s) -> Int] /\ \A i \in DOMAIN s : t[i] = s[i] + 1
    BY <2>1
  <2>3. t \in Seq(Int) /\ DOMAIN t = DOMAIN s
    BY <2>1, <2>2, SeqMade
  <2> QED
    BY <2>1, <2>2, <2>3
<1>2. Aged(s) = Keep(t, S)
  BY DEF Aged
<1>3. S = {i \in DOMAIN t : t[i] <= Window}
  OBVIOUS
<1> HIDE DEF t, S
<1>4. Aged(s) \in Seq({t[i] : i \in S}) /\ Len(Aged(s)) = Cardinality(S)
  BY <1>1, <1>2, KeepLists
<1>5. {t[i] : i \in S} \subseteq 0 .. Window
  BY <1>1, <1>3
<1>6. Aged(s) \in Seq(0 .. Window)
  BY <1>4, <1>5, SeqWider
<1>7. s = << >> => Aged(s) = << >>
  <2> SUFFICES ASSUME s = << >> PROVE Aged(s) = << >>
    OBVIOUS
  <2>1. DOMAIN s = {}
    OBVIOUS
  <2>2. S = {}
    BY <1>1, <2>1
  <2>3. Len(Aged(s)) = 0
    BY <1>4, <2>2, FS_EmptySet
  <2> QED
    BY <1>6, <2>3
<1>8. ASSUME NEW a \in 0 .. Window
      PROVE  Num(Aged(s), a) = Num(s, a - 1)
  <2>0. t \in Seq(Int) /\ S \in SUBSET DOMAIN t
    BY <1>1
  <2>1. Num(Aged(s), a) = Cardinality({i \in S : t[i] <= a})
    BY <1>2, <2>0, KeepCounts
  <2>2. {i \in S : t[i] <= a} = {i \in DOMAIN s : s[i] <= a - 1}
    <3>1. \A i \in DOMAIN s : (t[i] <= Window /\ t[i] <= a) <=> s[i] <= a - 1
      BY <1>1
    <3> QED
      BY <1>1, <1>3, <3>1
  <2> QED
    BY <2>1, <2>2 DEF Num
<1> QED
  BY <1>6, <1>7, <1>8

LEMMA PassPaid ==
  ASSUME NEW c, Sound(c), c.calls \subseteq Calls, NEW s \in Seq(0 .. Window), Paid(c, s)
  PROVE  Sound(Elapse(c)) /\ Paid(Elapse(c), Aged(s))
<1> DEFINE d == Elapse(c)
           t == Aged(s)
<1>1. /\ Sound(d) /\ d.started = c.started /\ d.flags = c.flags
      /\ Slack(d) = Slack(c)
      /\ \A a \in 0 .. Window : Num(d.history, a) = Num(c.history, a - 1)
  BY ElapseCounts
<1>2. /\ s = << >> => t = << >>
      /\ \A a \in 0 .. Window : Num(t, a) = Num(s, a - 1)
  BY AgedCounts
<1> HIDE DEF d, t
<1>3. ASSUME NEW a \in 0 .. Window
      PROVE  Num(t, a) <= Worth(d, a)
  <2>1. a \in Int /\ a - 1 \in Int /\ Window \in Nat
    BY McpAssumption
  <2>2. Worth(d, a) \in Nat /\ Num(c.history, a - 1) \in Nat
    BY <1>1, <2>1, SoundCounts
  <2>3. CASE a = 0
    <3>1. s \in Seq(Int) /\ \A i \in DOMAIN s : s[i] > a - 1
      BY <2>3, <2>1, SeqWider
    <3>2. Num(s, a - 1) = 0
      BY <2>1, <3>1, NumNone
    <3> QED
      BY <1>2, <2>2, <3>2
  <2>4. CASE a # 0
    <3>1. a - 1 \in 0 .. Window
      BY <2>1, <2>4
    <3>2. Num(s, a - 1) <= Worth(c, a - 1)
      BY <3>1 DEF Paid
    <3>3. Worth(c, a - 1) = Worth(d, a)
      BY <1>1 DEF Worth
    <3> QED
      BY <1>2, <3>2, <3>3
  <2> QED
    BY <2>3, <2>4
<1>4. Paid(d, t)
  BY <1>1, <1>2, <1>3 DEF Paid
<1> QED
  BY <1>1, <1>4 DEF d, t

\* What is paid for is bounded.
LEMMA PaidBound ==
  ASSUME NEW c, Sound(c), NEW s \in Seq(0 .. Window), Paid(c, s)
  PROVE  Len(s) <= 2 * (MaxRestarts + 1)
<1>1. Window \in 0 .. Window /\ Window \in Int /\ MaxRestarts \in Nat
      /\ \A i \in DOMAIN s : s[i] <= Window
  BY McpAssumption
<1>2. s \in Seq(Int)
  BY McpAssumption, SeqWider
<1>3. Num(s, Window) = Len(s)
  BY <1>1, <1>2, NumAll
<1>4. /\ Num(c.history, Window) \in Nat /\ Slack(c) \in 0 .. 2
      /\ Num(c.history, Window) <= MaxRestarts
  BY <1>1, SoundCounts DEF Sound
<1>5. Num(s, Window) <= 2 * Num(c.history, Window) + Slack(c)
  BY <1>1 DEF Paid, Worth
<1>6. Len(s) \in Nat
  OBVIOUS
<1> QED
  BY <1>1, <1>3, <1>4, <1>5, <1>6

\* The invariant of the budget, on top of SupInv.
BudgetInv ==
  /\ Sound(child) /\ spawns \in Seq(0 .. Window)
  /\ halted \in BOOLEAN /\ lost \in BOOLEAN
  /\ daemon = "running" => Paid(child, spawns)
  /\ SpawnsAreBounded

LEMMA RunningBudget ==
  ASSUME Sound(child)', (spawns \in Seq(0 .. Window))', (halted \in BOOLEAN)',
         (lost \in BOOLEAN)', Paid(child, spawns)'
  PROVE  BudgetInv'
<1>1. SpawnsAreBounded'
  BY PaidBound DEF SpawnsAreBounded
<1> QED
  BY <1>1 DEF BudgetInv

LEMMA HandleBudget ==
  ASSUME BudgetInv, NEW d, Handle(d), Frugal(child, d)
  PROVE  BudgetInv'
<1>1. /\ daemon = "running" /\ child' = d /\ spawns' = spawns /\ daemon' = daemon
      /\ halted' = halted /\ lost' = lost
  BY DEF Handle
<1>2. Sound(d) /\ Paid(d, spawns)
  BY <1>1, FrugalPaid DEF BudgetInv, Frugal
<1> QED
  BY <1>1, <1>2 DEF BudgetInv, SpawnsAreBounded

\* A command of the operator begins a new account.
LEMMA AcceptedBudget ==
  ASSUME BudgetInv, NEW stop \in BOOLEAN, Accepted(stop), Sound(child)',
         (lost \in BOOLEAN)'
  PROVE  BudgetInv'
<1>1. spawns' = << >> /\ halted' = stop
  BY DEF Accepted
<1>2. (spawns \in Seq(0 .. Window))' /\ (halted \in BOOLEAN)'
  BY <1>1
<1>3. Paid(child, spawns)'
  <2>1. ASSUME NEW c, Sound(c) PROVE Paid(c, << >>)
    BY <2>1, NothingPaid
  <2> QED
    BY <1>1, <2>1
<1> QED
  BY <1>2, <1>3, RunningBudget

\* The timer.
LEMMA SweepBudget ==
  ASSUME SupInv, BudgetInv, Sweep
  PROVE  BudgetInv'
<1>1. PICK r \in Sweeps(child, proc) : Apply(r)
  BY DEF Sweep
<1>2. /\ daemon = "running" /\ child' = r.c
      /\ spawns' = (IF r.forked THEN Append(spawns, 0) ELSE spawns)
      /\ halted' = halted /\ lost' = (lost \/ r.over)
  BY <1>1 DEF Sweep, Apply
<1>3. Safe(child, proc) /\ Sound(child) /\ spawns \in Seq(0 .. Window)
      /\ Paid(child, spawns) /\ halted \in BOOLEAN
  BY <1>2, InvIsSafe DEF BudgetInv
<1>4. /\ Sound(r.c)
      /\ \/ r.forked = FALSE /\ Paid(r.c, spawns)
         \/ r.forked = TRUE /\ Paid(r.c, Append(spawns, 0))
  BY <1>1, <1>3, SweepsPaid
<1>5. Paid(r.c, spawns') /\ spawns' \in Seq(0 .. Window)
  <2>1. 0 \in 0 .. Window
    BY McpAssumption
  <2>2. Append(spawns, 0) \in Seq(0 .. Window)
    BY <1>3, <2>1
  <2> QED
    BY <1>2, <1>3, <1>4, <2>2
<1>6. lost' \in BOOLEAN
  BY <1>2, Zenon
<1>7. Sound(child)' /\ Paid(child, spawns)'
  BY <1>2, <1>4, <1>5
<1> QED
  BY <1>2, <1>3, <1>5, <1>6, <1>7, RunningBudget

\* The pipes.
LEMMA PipeBudget ==
  ASSUME SupInv, BudgetInv, OnResponse \/ OnCorruption \/ OnEof \/ OnStderr
  PROVE  BudgetInv'
<1>1. daemon = "running"
  BY DEF OnResponse, OnCorruption, OnEof, OnStderr, Handle
<1>2. Sound(child) /\ child.calls \subseteq Calls
  BY <1>1, InvIsSafe, SafeCalls DEF BudgetInv
<1>3. CASE OnResponse
  <2>1. PICK k \in child.calls : \E st \in Statuses(k.kind) :
          \E c \in Advance(Answered(child, k.id, st)) : Handle(c)
    BY <1>3 DEF OnResponse
  <2>2. PICK st \in Statuses(k.kind) :
          \E c \in Advance(Answered(child, k.id, st)) : Handle(c)
    BY <2>1
  <2> DEFINE e == Answered(child, k.id, st)
  <2>3. PICK c \in Advance(e) : Handle(c)
    BY <2>2
  <2>4. Frugal(child, e) /\ Sound(e)
    BY <1>2, AnsweredPlain, PlainFrugal DEF Frugal
  <2> HIDE DEF e
  <2>5. Frugal(child, c)
    BY <1>2, <2>3, <2>4, AdvanceFrugal, FrugalTransitive
  <2> QED
    BY <2>3, <2>5, HandleBudget
<1>4. ASSUME NEW pipe
      PROVE  /\ Frugal(child, DropPipe(child, pipe))
             /\ Frugal(child, DropPipe([child EXCEPT !.flags = @ \cup {"EOF"}], pipe))
  BY <1>2, DropPlain, PlainFrugal
<1>5. CASE OnCorruption
  <2>1. Handle(ChildFailed(DropPipe(child, "stdout"), "PROTOCOL"))
    BY <1>5 DEF OnCorruption
  <2>2. Frugal(child, ChildFailed(DropPipe(child, "stdout"), "PROTOCOL"))
    BY <1>2, <1>4, FailedFrugal
  <2> QED
    BY <2>1, <2>2, HandleBudget
<1>6. CASE OnEof
  <2> DEFINE e == DropPipe([child EXCEPT !.flags = @ \cup {"EOF"}], "stdout")
  <2>1. Handle(ChildFailed(e, "EOF"))
    BY <1>6 DEF OnEof
  <2>2. Frugal(child, ChildFailed(e, "EOF"))
    BY <1>2, <1>4, FailedFrugal
  <2> HIDE DEF e
  <2> QED
    BY <2>1, <2>2, HandleBudget
<1>7. CASE OnStderr
  <2>1. \/ Handle(DropPipe(child, "stderr"))
        \/ Handle(ChildFailed(DropPipe(child, "stderr"), "READ"))
    BY <1>7 DEF OnStderr
  <2>2. Frugal(child, ChildFailed(DropPipe(child, "stderr"), "READ"))
    BY <1>2, <1>4, FailedFrugal
  <2>3. Frugal(child, DropPipe(child, "stderr"))
    BY <1>4
  <2> QED
    BY <2>1, <2>2, <2>3, HandleBudget
<1> QED
  BY <1>3, <1>5, <1>6, <1>7

\* af_mcp_stop.
LEMMA StopsSound ==
  ASSUME NEW c, Sound(c), NEW p, NEW r \in Stops(c, p)
  PROVE  Sound(r.c)
<1> DEFINE u == [c EXCEPT !.state = "stopped",
                          !.flags = (@ \cup {"STOPPING", "MANUAL_STOP"})
                                    \ {"TERM_SENT", "LEGACY_NEXT"}]
           v == Invalidate(u)
           asked == CloseStdin(v)
           gone == IF ~c.pid THEN TornDown(asked, p) ELSE Collected(asked, p)
<1>1. r = Outcome(ArmGrace(asked), p) \/ \E t \in gone : r = Outcome(Stopped(t.c), t.p)
  BY DEF Stops
<1>2. Sound(u)
  BY DEF Sound, IsChild, ChildFields, States, Flags, LongLived
<1> HIDE DEF u
<1>3. Sound(v)
  BY <1>2, InvalidatePlain, PlainFrugal DEF Frugal
<1> HIDE DEF v
<1>4. Sound(asked) /\ Sound(ArmGrace(asked))
  BY <1>3 DEF CloseStdin, ArmGrace, Sound, IsChild, ChildFields
<1> HIDE DEF asked
<1>5. ASSUME NEW t \in gone
      PROVE  Sound(Stopped(t.c))
  <2>1. t \in TornDown(asked, p) \/ t \in Collected(asked, p)
    BY <1>5
  <2>2. Sound(t.c)
    BY <1>4, <2>1, TornDownPlain, CollectedPlain, PlainFrugal DEF Frugal
  <2> QED
    BY <2>2, StoppedPlain, PlainFrugal DEF Frugal
<1> HIDE DEF gone
<1> QED
  BY <1>1, <1>4, <1>5 DEF Outcome

\* The operator's commands that touch the process.
LEMMA CommandBudget ==
  ASSUME SupInv, BudgetInv, ManualStart \/ ManualStop \/ ManualRestart \/ Reset
  PROVE  BudgetInv'
<1>1. Sound(child) /\ lost \in BOOLEAN
  BY DEF BudgetInv
<1> DEFINE wanted == [child EXCEPT !.flags = @ \ {"MANUAL_STOP"}]
<1>2. Sound(wanted)
  BY <1>1 DEF Sound, IsChild, ChildFields
<1>3. CASE ManualStart
  <2>1. PICK r \in Starts(wanted, proc) : child' = r.c /\ lost' = (lost \/ r.over)
    BY <1>3 DEF ManualStart
  <2> HIDE DEF wanted
  <2>2. Sound(r.c)
    BY <1>2, <2>1, StartsPays DEF Frugal, Paying
  <2>3. Sound(child)'
    BY <2>1, <2>2
  <2>4. (lost \in BOOLEAN)'
    BY <2>1, Zenon
  <2>5. Accepted(FALSE)
    BY <1>3 DEF ManualStart
  <2> QED
    BY <2>3, <2>4, <2>5, AcceptedBudget
<1>4. CASE ManualStop
  <2>1. PICK r \in Stops(child, proc) : child' = r.c
    BY <1>4 DEF ManualStop
  <2>2. Sound(r.c)
    BY <1>1, <2>1, StopsSound
  <2>3. Sound(child)' /\ lost' = lost /\ Accepted(TRUE)
    BY <1>4, <2>1, <2>2 DEF ManualStop
  <2> QED
    BY <1>1, <2>3, AcceptedBudget
<1>5. CASE ManualRestart
  <2> DEFINE stopping ==
               [wanted EXCEPT !.state = "restarting",
                  !.flags = (@ \cup {"STOPPING", "RESTART_AFTER_STOP", "MANUAL_RESTART"})
                            \ {"TERM_SENT"}]
             view == Invalidate(stopping)
             over == [wanted EXCEPT !.flags = @ \ StopFlags]
             idle == Invalidate(over)
  <2>1. /\ child' = ArmGrace(CloseStdin(view)) \/ child' = RestartNow(idle)
        /\ lost' = lost /\ Accepted(FALSE)
    BY <1>5 DEF ManualRestart
  <2> HIDE DEF wanted
  <2>2. Sound(stopping) /\ Sound(over)
    BY <1>2 DEF Sound, IsChild, ChildFields, States, Flags
  <2> HIDE DEF stopping, over
  <2>3. Sound(view) /\ Sound(idle)
    BY <2>2, InvalidatePlain, PlainFrugal DEF Frugal
  <2> HIDE DEF view, idle
  <2>4. Sound(ArmGrace(CloseStdin(view)))
    BY <2>3 DEF ArmGrace, CloseStdin, Sound, IsChild, ChildFields
  <2>5. Sound(RestartNow(idle))
    BY <2>3 DEF RestartNow, Sound, IsChild, ChildFields, States
  <2>6. Sound(child)'
    BY <2>1, <2>4, <2>5
  <2> QED
    BY <1>1, <2>1, <2>6, AcceptedBudget
<1>6. CASE Reset
  <2> DEFINE flags == child.flags \ (StopFlags \cup LongLived)
             e == [child EXCEPT !.history = << >>, !.backoff = 0, !.flags = flags]
  <2>1. child' = RestartNow(e) /\ lost' = lost /\ Accepted(FALSE)
    BY <1>6 DEF Reset
  <2>2. /\ IsChild(e) /\ e.cfg = child.cfg /\ e.state = child.state
        /\ e.started = child.started /\ e.clean = child.clean
        /\ e.outbox = child.outbox /\ e.flags = flags /\ e.pipes = child.pipes
        /\ e.backoff = 0 /\ e.history = << >>
    BY <1>1 DEF Sound, IsChild, ChildFields
  <2>3. Num(<< >>, Window) <= MaxRestarts /\ 0 \in 0 .. MaxBackoff
        /\ << >> \in Seq(0 .. (Window + 1))
    <3>1. Window \in 0 .. Window
      BY McpAssumption
    <3>2. Num(<< >>, Window) = 0
      BY <1>1, <3>1, NothingPaid
    <3> QED
      BY <3>2, McpAssumption
  <2> HIDE DEF e
  <2>4. Sound(e)
    BY <1>1, <2>2, <2>3 DEF Sound
  <2>5. Sound(RestartNow(e))
    BY <2>4 DEF RestartNow, Sound, IsChild, ChildFields, States
  <2>6. Sound(child)'
    BY <2>1, <2>5
  <2> QED
    BY <1>1, <2>1, <2>6, AcceptedBudget
<1> QED
  BY <1>3, <1>4, <1>5, <1>6

\* mcp.discover and the tool test.
LEMMA RequestBudget ==
  ASSUME SupInv, BudgetInv, Discover \/ ToolTest
  PROVE  BudgetInv'
<1>1. Sound(child)
  BY DEF BudgetInv
<1>2. CASE Discover
  <2> DEFINE old == {k \in child.calls : k.kind \in {Lists[i] : i \in DOMAIN Lists}}
             fresh == [child EXCEPT !.calls = @ \ old, !.flags = @ \ {"LISTED"}]
  <2>1. PICK r \in Inventories(fresh) :
          Handle(IF r.ok \/ r.c.state # "ready" THEN r.c
                 ELSE [r.c EXCEPT !.state = "degraded"])
    BY <1>2 DEF Discover
  <2>2. Plain(child, fresh)
    <3> HIDE DEF old
    <3> QED
      BY <1>1 DEF Plain, Sound, IsChild, ChildFields, Probing
  <2>3. Frugal(child, fresh) /\ Sound(fresh)
    BY <1>1, <2>2, PlainFrugal DEF Frugal
  <2> HIDE DEF fresh
  <2>4. Frugal(child, r.c) /\ Sound(r.c)
    BY <1>1, <2>1, <2>3, InventoriesPlain, PlainFrugal, FrugalTransitive DEF Frugal
  <2> DEFINE e == [r.c EXCEPT !.state = "degraded"]
  <2>5. Plain(r.c, e)
    BY <2>4 DEF Plain, Sound, IsChild, ChildFields, Probing, States
  <2> HIDE DEF e
  <2>6. Frugal(child, e)
    BY <1>1, <2>4, <2>5, PlainFrugal, FrugalTransitive
  <2>7. Handle(r.c) \/ Handle(e)
    BY <2>1 DEF e
  <2> QED
    BY <2>4, <2>6, <2>7, HandleBudget
<1>3. CASE ToolTest
  <2> DEFINE fresh == [child EXCEPT !.calls = @ \ CallsOf(child, "tool_test")]
  <2>1. PICK c \in {fresh} \cup {r.c : r \in Requests(fresh, "tool_test")} : Handle(c)
    BY <1>3 DEF ToolTest
  <2>2. Plain(child, fresh)
    BY <1>1 DEF Plain, Sound, IsChild, ChildFields, Probing
  <2>3. Frugal(child, fresh) /\ Sound(fresh)
    BY <1>1, <2>2, PlainFrugal DEF Frugal
  <2> HIDE DEF fresh
  <2>4. ASSUME NEW r \in Requests(fresh, "tool_test")
        PROVE  Frugal(child, r.c)
    <3>1. Frugal(fresh, r.c)
      BY <2>3, <2>4, RequestsPlain, PlainFrugal
    <3> QED
      BY <1>1, <2>3, <3>1, FrugalTransitive
  <2>5. Frugal(child, c)
    BY <2>1, <2>3, <2>4
  <2> QED
    BY <2>1, <2>5, HandleBudget
<1> QED
  BY <1>2, <1>3

\* Time.
LEMMA PassBudget ==
  ASSUME SupInv, BudgetInv, Pass
  PROVE  BudgetInv'
<1>1. /\ daemon = "running" /\ child' = Elapse(child) /\ spawns' = Aged(spawns)
      /\ halted' = halted /\ lost' = lost
  BY DEF Pass
<1>2. /\ Sound(child) /\ child.calls \subseteq Calls /\ spawns \in Seq(0 .. Window)
      /\ Paid(child, spawns) /\ halted \in BOOLEAN /\ lost \in BOOLEAN
  BY <1>1, InvIsSafe, SafeCalls DEF BudgetInv
<1>3. Sound(Elapse(child)) /\ Paid(Elapse(child), Aged(spawns))
      /\ Aged(spawns) \in Seq(0 .. Window)
  BY <1>2, PassPaid, AgedCounts
<1>4. Sound(child)' /\ Paid(child, spawns)' /\ (spawns \in Seq(0 .. Window))'
  BY <1>1, <1>3
<1> QED
  BY <1>1, <1>2, <1>4, RunningBudget

\* The shutdown starts nothing.
LEMMA StopBudget ==
  ASSUME SupInv, BudgetInv, Shutdown \/ Drain \/ Down
  PROVE  BudgetInv'
<1>1. Sound(child)
  BY DEF BudgetInv
<1>2. spawns' \in {spawns, << >>} /\ lost' = lost /\ halted' \in BOOLEAN /\ daemon' # "running"
  BY DEF Shutdown, Drain, Down, BudgetInv
<1>3. (spawns \in Seq(0 .. Window))' /\ SpawnsAreBounded'
  <2>1. CASE spawns' = spawns
    BY <2>1 DEF BudgetInv, SpawnsAreBounded
  <2>2. CASE spawns' = << >>
    <3>1. << >> \in Seq(0 .. Window) /\ Len(<< >>) = 0
      OBVIOUS
    <3>2. 0 <= 2 * (MaxRestarts + 1)
      BY McpAssumption
    <3> QED
      BY <2>2, <3>1, <3>2 DEF SpawnsAreBounded
  <2> QED
    BY <1>2, <2>1, <2>2
<1>4. Sound(child)'
  <2>1. CASE Shutdown
    <3>1. PICK r \in (IF Latched(child) THEN {Outcome(child, proc)} ELSE Stops(child, proc)) :
            child' = r.c
      BY <2>1 DEF Shutdown
    <3>2. Sound(r.c)
      <4>1. CASE r = Outcome(child, proc)
        BY <1>1, <4>1 DEF Outcome
      <4>2. CASE r \in Stops(child, proc)
        BY <1>1, <4>2, StopsSound
      <4> QED
        BY <3>1, <4>1, <4>2
    <3> QED
      BY <3>1, <3>2
  <2>2. CASE Drain
    <3>1. \/ \E r \in Collected(child, proc) : child' = r.c
          \/ child' = Elapse(Escalated(child, proc).c)
      BY <2>2 DEF Drain
    <3>2. ASSUME NEW r \in Collected(child, proc)
          PROVE  Sound(r.c)
      BY <1>1, <3>2, CollectedPlain, PlainFrugal DEF Frugal
    <3>3. Sound(Elapse(Escalated(child, proc).c))
      <4> DEFINE e == Escalated(child, proc).c
      <4>1. daemon # "down"
        BY <2>2 DEF Drain
      <4>2. \E q : Safe(e, q)
        BY <4>1, InvIsSafe, EscalatedHandled
      <4>3. Sound(e)
        BY <1>1, EscalatedPlain, PlainFrugal DEF Frugal
      <4> HIDE DEF e
      <4>4. e.calls \subseteq Calls
        BY <4>2, SafeCalls
      <4>5. Sound(Elapse(e))
        BY <4>3, <4>4, ElapseCounts
      <4> QED
        BY <4>5 DEF e
    <3> QED
      BY <3>1, <3>2, <3>3
  <2>3. CASE Down
    <3>1. PICK r \in TornDown(child, proc) : child' = r.c
      BY <2>3 DEF Down
    <3>2. Sound(r.c)
      BY <1>1, <3>1, TornDownPlain, PlainFrugal DEF Frugal
    <3> QED
      BY <3>1, <3>2
  <2> QED
    BY <2>1, <2>2, <2>3
<1> QED
  BY <1>2, <1>3, <1>4 DEF BudgetInv

LEMMA InitBudget == Init => BudgetInv
<1> SUFFICES ASSUME Init PROVE BudgetInv
  OBVIOUS
<1>1. PICK f \in Configs : child = ChildInit(f)
  BY DEF Init
<1> DEFINE st == IF f.enabled THEN "stopped" ELSE "disabled"
<1>2. st \in {"stopped", "disabled"}
  OBVIOUS
<1>3. child = [cfg |-> f, state |-> st, pid |-> FALSE, pgid |-> FALSE,
               started |-> FALSE, clean |-> TRUE, flags |-> {}, pipes |-> {},
               outbox |-> FALSE, era |-> "unknown", tools |-> FALSE, calls |-> {},
               nextId |-> 0, next |-> NoDeadline, history |-> << >>, backoff |-> 0]
  BY <1>1 DEF ChildInit
<1> HIDE DEF st
<1>4. /\ IsChild(child) /\ child.cfg = f /\ child.state = st
      /\ child.started = FALSE /\ child.clean = TRUE /\ child.outbox = FALSE
      /\ child.flags = {} /\ child.pipes = {} /\ child.history = << >>
      /\ child.backoff = 0
  BY <1>3 DEF IsChild, ChildFields
<1>5. child.started \in BOOLEAN /\ child.clean \in BOOLEAN /\ child.outbox \in BOOLEAN
  BY <1>4, Zenon
<1>6. /\ << >> \in Seq(0 .. (Window + 1)) /\ 0 \in 0 .. MaxBackoff
      /\ Num(<< >>, Window) = 0 /\ MaxRestarts \in Nat
  <2>1. << >> \in Seq(Int) /\ \A i \in DOMAIN << >> : << >>[i] > Window
    OBVIOUS
  <2>2. Window \in Int
    BY McpAssumption
  <2>3. Num(<< >>, Window) = 0
    BY <2>1, <2>2, NumNone
  <2> QED
    BY <2>3, McpAssumption
<1>7. Sound(child)
  BY <1>2, <1>4, <1>5, <1>6 DEF Sound, States
<1>8. spawns = << >> /\ halted = FALSE /\ lost = FALSE
  BY DEF Init
<1>9. halted \in BOOLEAN /\ lost \in BOOLEAN
  BY <1>8, Zenon
<1>10. Paid(child, spawns) /\ spawns \in Seq(0 .. Window)
  BY <1>7, <1>8, NothingPaid
<1>11. SpawnsAreBounded
  BY <1>7, <1>10, PaidBound DEF SpawnsAreBounded
<1> QED
  BY <1>7, <1>9, <1>10, <1>11 DEF BudgetInv

LEMMA NextBudget == SupInv /\ BudgetInv /\ [Next]_vars => BudgetInv'
<1> SUFFICES ASSUME SupInv, BudgetInv, [Next]_vars PROVE BudgetInv'
  OBVIOUS
<1>1. CASE Next
  <2>1. CASE Exit \/ Fork \/ HelpersExit \/ Dies
    <3>1. World
      BY <2>1 DEF Exit, Fork, HelpersExit, Dies
    <3> QED
      BY <3>1 DEF World, BudgetInv, SpawnsAreBounded
  <2> QED
    BY <1>1, <2>1, SweepBudget, PipeBudget, CommandBudget, RequestBudget, PassBudget,
       StopBudget DEF Next, Operator
<1>2. CASE UNCHANGED vars
  BY <1>2 DEF vars, BudgetInv, SpawnsAreBounded
<1> QED
  BY <1>1, <1>2

LEMMA BudgetInvariance == Spec => []BudgetInv
<1>1. SupInv /\ BudgetInv /\ [Next]_vars => BudgetInv'
  BY NextBudget
<1> QED
  BY <1>1, InitBudget, Invariance, PTL DEF Spec

\* Without the operator no window sees more than twice the budget and the
\* first start, whatever fails, exits, times out or cannot be spawned.
THEOREM BudgetHolds == Spec => []SpawnsAreBounded
<1>1. BudgetInv => SpawnsAreBounded
  BY DEF BudgetInv
<1> QED
  BY <1>1, BudgetInvariance, PTL

\* The fields of the child, the process and the daemon keep their types.
THEOREM TypeCorrect == Spec => []TypeOK
<1>1. SupInv /\ BudgetInv => TypeOK
  <2> SUFFICES ASSUME SupInv, BudgetInv PROVE TypeOK
    OBVIOUS
  <2>1. Typed(child) /\ Sound(child)
    BY DEF SupInv, Fit, BudgetInv
  <2>2. child.era \in Eras \cup {"unknown"} /\ child.calls \subseteq Calls
    BY DEF SupInv, Fit, Blank, Session, Tracked
  <2>3. /\ proc.leader \in {"none", "alive", "killed"} \cup Zombies
        /\ proc.helpers \in BOOLEAN /\ proc.speaks \in Eras \cup {"none"}
    BY DEF SupInv, Fit, Procs
  <2>4. /\ daemon \in {"running", "draining", "down"} /\ polls \in Nat
        /\ halted \in BOOLEAN /\ lost \in BOOLEAN /\ spawns \in Seq(0 .. Window)
    BY DEF SupInv, BudgetInv
  <2> QED
    BY <2>1, <2>2, <2>3, <2>4 DEF TypeOK, Typed, Sound
<1> QED
  BY <1>1, Invariance, BudgetInvariance, PTL

=============================================================================
