---------------------------- MODULE LocalProcess ----------------------------
(***************************************************************************)
(* The two process adapters of agentype-adapter-local-process on Linux:    *)
(* LocalProcessAgentAdapter (lib.rs) and JailedProcessAgentAdapter         *)
(* (jail.rs), with the identity proof they share (pin.rs).  Threads of the *)
(* daemon call them concurrently, the daemon may die between any two       *)
(* system calls, and the operating system gives the number of a process    *)
(* that was reaped to another one.                                         *)
(*                                                                         *)
(* A process is started for a request, or it is a stranger.  Its birth is  *)
(* the coarse tick of /proc/<pid>/stat, so two processes may share one;    *)
(* its instance token is in its environment and is its own.  A deadline    *)
(* may expire before any step: the step then ends the call with an error.  *)
(***************************************************************************)
EXTENDS Naturals, FiniteSets

CONSTANTS Requests,    \* start requests (one per Execution)
          Strangers,   \* processes that are not ours
          Pids,        \* process numbers
          Callers,     \* daemon threads that call an adapter
          MaxTick,     \* bound: clock ticks
          MaxCrashes   \* bound: deaths of the daemon

VARIABLES proc,     \* the process of each request and each stranger
          orphan,   \* requests whose child a detached thread or init reaps
          live,     \* the live map of each adapter: pid -> request of the child held
          record,   \* locator.json of each request, durable
          handle,   \* the runtime handle the store holds for each request
          asked,    \* requests whose start was called (the kernel calls it once)
          call,     \* what each daemon thread is doing
          jailed,   \* the requests that go to the jailed adapter, fixed by their kind
          tick, crashes

vars == <<proc, orphan, live, record, handle, asked, call, jailed, tick, crashes>>

Instances == Requests \cup Strangers
Nobody == "nobody"

ASSUME ProcessAssumption ==
    /\ Requests \cap Strangers = {}
    /\ Nobody \notin Instances \cup Pids
    /\ MaxTick \in Nat /\ MaxCrashes \in Nat

Kinds == {"local_process", "workspace_jail"}
NoBirth == MaxTick + 1
Births == 0..MaxTick

KindOf(r) == IF r \in jailed THEN "workspace_jail" ELSE "local_process"

\* A runtime handle or a locator record; the pid and the token it carries are
\* those of the request's own process.
Handles == [form : {"none", "locator", "pin"}, birth : Births \cup {NoBirth}]
NoHandle == [form |-> "none", birth |-> NoBirth]
Locator(birth) == [form |-> "locator", birth |-> birth]
Pin(birth) == [form |-> "pin", birth |-> birth]

Idle == [op |-> "idle", req |-> Nobody, at |-> "idle", birth |-> NoBirth,
         fd |-> Nobody, token |-> TRUE, child |-> FALSE, running |-> FALSE,
         source |-> NoHandle, ans |-> "none", hint |-> NoHandle]

Init ==
    /\ proc = [i \in Instances |-> [pid |-> Nobody, birth |-> NoBirth, state |-> "unborn"]]
    /\ orphan = {}
    /\ live = [k \in Kinds |-> [p \in Pids |-> Nobody]]
    /\ record = [r \in Requests |-> NoHandle]
    /\ handle = [r \in Requests |-> NoHandle]
    /\ asked = {}
    /\ call = [c \in Callers |-> Idle]
    /\ jailed \in SUBSET Requests
    /\ tick = 0
    /\ crashes = 0

--------------------------------------------------------------------------
(* The operating system *)

Alive(i) == proc[i].state = "running"
\* A zombie keeps its number until its parent reaps it.
Present(i) == proc[i].state \in {"running", "zombie"}
Occupant(p) == IF \E i \in Instances : Present(i) /\ proc[i].pid = p
               THEN CHOOSE i \in Instances : Present(i) /\ proc[i].pid = p
               ELSE Nobody
PidOf(r) == proc[r].pid
Reaped(r) == [proc EXCEPT ![r].state = "gone"]

Tick == /\ tick < MaxTick
        /\ tick' = tick + 1
        /\ UNCHANGED <<proc, orphan, live, record, handle, asked, call, crashes, jailed>>

\* A process ends; a stranger is reaped at once by its own parent.
Exit(i) ==
    /\ Alive(i)
    /\ proc' = [proc EXCEPT ![i].state = IF i \in Strangers THEN "gone" ELSE "zombie"]
    /\ UNCHANGED <<orphan, live, record, handle, asked, call, tick, crashes, jailed>>

\* A stranger takes a free number.
StrangerBorn(i, p) ==
    /\ proc[i].state = "unborn"
    /\ Occupant(p) = Nobody
    /\ proc' = [proc EXCEPT ![i] = [pid |-> p, birth |-> tick, state |-> "running"]]
    /\ UNCHANGED <<orphan, live, record, handle, asked, call, tick, crashes, jailed>>

\* init, or the thread of detach_reaper and reap_after_kill, reaps a child.
ReapOrphan(r) ==
    /\ r \in orphan
    /\ proc[r].state = "zombie"
    /\ proc' = Reaped(r)
    /\ UNCHANGED <<orphan, live, record, handle, asked, call, tick, crashes, jailed>>

--------------------------------------------------------------------------
(* Calls *)

Goto(c, at) == call' = [call EXCEPT ![c].at = at]

\* The call's result; a Child still held by the call is dropped unreaped.
Answer(c, ans, hint) ==
    call' = [call EXCEPT ![c] = [Idle EXCEPT !.op = call[c].op, !.req = call[c].req,
                                             !.at = "return", !.ans = ans, !.hint = hint]]

At(c, at) == call[c].at = at

\* A daemon thread calls an adapter operation.  start_execution is called once
\* per request; the control operations need a stored handle.
Begin(c, op, r) ==
    /\ At(c, "idle")
    /\ op = "start" => r \notin asked
    /\ op = "reconcile" => /\ r \in asked
                           /\ \A d \in Callers : ~(call[d].op = "start" /\ call[d].req = r)
    /\ op \in {"observe", "interrupt", "terminate", "collect"} => handle[r] # NoHandle
    /\ asked' = IF op = "start" THEN asked \cup {r} ELSE asked
    /\ call' = [call EXCEPT ![c] = [Idle EXCEPT !.op = op, !.req = r,
                    !.at = IF op # "start" THEN "parse"
                           ELSE IF r \in jailed THEN "prepare" ELSE "spawn"]]
    /\ UNCHANGED <<proc, orphan, live, record, handle, tick, crashes, jailed>>

\* The daemon stores what the call returned: the handle of a start or a
\* reconcile, or the hint an error carries.
Return(c) ==
    /\ At(c, "return")
    /\ handle' = [handle EXCEPT ![call[c].req] =
                    IF call[c].hint = NoHandle THEN @ ELSE call[c].hint]
    /\ call' = [call EXCEPT ![c] = Idle]
    /\ UNCHANGED <<proc, orphan, live, record, asked, tick, crashes, jailed>>

\* The runtime's facade: evidence that comes after the deadline is an error, one
\* of a start or a reconcile keeps the handle it came with.
admit_start(c) ==
    /\ At(c, "return")
    /\ call[c].op \in {"start", "reconcile"}
    /\ call[c].ans # "err"
    /\ call' = [call EXCEPT ![c].ans = "err"]
    /\ UNCHANGED <<proc, orphan, live, record, handle, asked, tick, crashes, jailed>>

admit_with_handle(c) ==
    /\ At(c, "return")
    /\ call[c].op \in {"observe", "terminate", "collect"}
    /\ call[c].ans # "err"
    /\ call' = [call EXCEPT ![c].ans = "err"]
    /\ UNCHANGED <<proc, orphan, live, record, handle, asked, tick, crashes, jailed>>

\* The daemon dies and starts again: its threads and the live maps are gone,
\* init adopts the children.
Crash ==
    /\ crashes < MaxCrashes
    /\ crashes' = crashes + 1
    /\ call' = [c \in Callers |-> Idle]
    /\ live' = [k \in Kinds |-> [p \in Pids |-> Nobody]]
    /\ orphan' = {r \in Requests : Present(r)}
    /\ UNCHANGED <<proc, record, handle, asked, tick, jailed>>

--------------------------------------------------------------------------
(* start_execution *)

\* kill_child, then try_wait: the process dies by itself later, so only a reap
\* shows.
kill_child(r) ==
    /\ proc' = IF proc[r].state = "zombie" THEN Reaped(r) ELSE proc
    /\ UNCHANGED orphan

\* detach_reaper, and reap_after_kill: a thread of its own waits for the child.
detach_reaper(r) == orphan' = orphan \cup {r} /\ UNCHANGED proc

\* The child of a start that failed is killed, or only let go of: the local
\* adapter drops it unreaped.
Discard(r) == IF r \in jailed THEN detach_reaper(r) ELSE kill_child(r)
LetGo(r) == IF r \in jailed THEN detach_reaper(r) ELSE UNCHANGED <<proc, orphan>>

\* prepare_jail: the directories of the jail are made, or the start is refused.
prepare_jail(c) ==
    /\ At(c, "prepare")
    /\ \/ Answer(c, "err", NoHandle)
       \/ Goto(c, "spawn")
    /\ UNCHANGED <<proc, orphan, live, record, handle, asked, tick, crashes, jailed>>

\* Deadline, launch options and directories are checked before the spawn; a
\* refusal leaves nothing behind.
spawn_child(c) ==
    LET r == call[c].req IN
    /\ At(c, "spawn")
    /\ \/ Answer(c, "err", NoHandle) /\ UNCHANGED proc
       \/ \E p \in Pids :
             /\ Occupant(p) = Nobody
             /\ proc' = [proc EXCEPT ![r] = [pid |-> p, birth |-> tick, state |-> "running"]]
             /\ Goto(c, "locate")
    /\ UNCHANGED <<orphan, live, record, handle, asked, tick, crashes, jailed>>

\* Mutant: the error of a failed record forgets the process.
LocatorForgotten(c) ==
    LET r == call[c].req IN
    /\ At(c, "locate")
    /\ \/ /\ Answer(c, "err", NoHandle)
          /\ LetGo(r)
          /\ UNCHANGED record
       \/ /\ record' = [record EXCEPT ![r] = Locator(NoBirth)]
          /\ Goto(c, "birth")
          /\ UNCHANGED <<proc, orphan>>
    /\ UNCHANGED <<live, handle, asked, tick, crashes, jailed>>

\* The first locator record, before the birth is known.  When it cannot be
\* written the error carries the locator; when the deadline passed the local
\* adapter kills the child.
write_locator_record(c) ==
    LET r == call[c].req IN
    /\ At(c, "locate")
    /\ \/ /\ Answer(c, "err", Locator(NoBirth))
          /\ LetGo(r)
          /\ UNCHANGED record
       \/ /\ r \notin jailed
          /\ record' = [record EXCEPT ![r] = Locator(NoBirth)]
          /\ Answer(c, "err", Locator(NoBirth))
          /\ kill_child(r)
       \/ /\ record' = [record EXCEPT ![r] = Locator(NoBirth)]
          /\ Goto(c, "birth")
          /\ UNCHANGED <<proc, orphan>>
    /\ UNCHANGED <<live, handle, asked, tick, crashes, jailed>>

\* The birth of the child just spawned: its number is not recycled before the
\* child is reaped.  The jailed adapter looks at the child next, the local one
\* writes the record.
process_birth_from_child(c) ==
    LET r == call[c].req IN
    /\ At(c, "birth")
    /\ \/ Answer(c, "err", Locator(NoBirth)) /\ Discard(r)
       \/ /\ call' = [call EXCEPT ![c].birth = proc[r].birth,
                                  ![c].at = IF r \in jailed THEN "look" ELSE "relocate"]
          /\ UNCHANGED <<proc, orphan>>
    /\ UNCHANGED <<live, record, handle, asked, tick, crashes, jailed>>

\* spawn_jailed's first look at the child, before the second record: a failed
\* wait hints at the locator, an expired deadline at the pin.
spawn_jailed(c) ==
    LET r == call[c].req IN
    /\ At(c, "look")
    /\ \/ /\ \/ Answer(c, "err", Locator(NoBirth))
             \/ Answer(c, "err", Pin(call[c].birth))
          /\ detach_reaper(r)
       \/ /\ call' = [call EXCEPT ![c].running = Alive(r), ![c].at = "relocate"]
          /\ proc' = IF Alive(r) THEN proc ELSE Reaped(r)
          /\ UNCHANGED orphan
    /\ UNCHANGED <<live, record, handle, asked, tick, crashes, jailed>>

\* The second locator record, with the birth, and a last look at the deadline.
rewrite_locator_record(c) ==
    LET r == call[c].req IN
    /\ At(c, "relocate")
    /\ r \notin jailed
    /\ \/ /\ record' = record
          /\ Answer(c, "err", Pin(call[c].birth))
       \/ /\ record' = [record EXCEPT ![r] = Locator(call[c].birth)]
          /\ Answer(c, "err", Pin(call[c].birth)) \/ Goto(c, "stdin")
    /\ UNCHANGED <<proc, orphan, live, handle, asked, tick, crashes, jailed>>

\* The same for the jailed adapter, which then keeps the child, ended or not,
\* and returns.
JailedStart(c) ==
    LET r == call[c].req IN
    /\ At(c, "relocate")
    /\ r \in jailed
    /\ \/ /\ Answer(c, "err", Pin(call[c].birth))
          /\ detach_reaper(r)
          /\ UNCHANGED <<record, live>>
       \/ /\ record' = [record EXCEPT ![r] = Locator(call[c].birth)]
          /\ live' = [live EXCEPT ![KindOf(r)][PidOf(r)] = r]
          /\ Answer(c, IF call[c].running THEN "running" ELSE "ended", Pin(call[c].birth))
          /\ UNCHANGED <<proc, orphan>>
    /\ UNCHANGED <<handle, asked, tick, crashes, jailed>>

\* The start request goes to the child's standard input: a failure kills it, an
\* expired deadline leaves it running; then the child is looked at, and kept
\* only when it runs.
start_execution(c) ==
    LET r == call[c].req
        pin == Pin(call[c].birth) IN
    /\ At(c, "stdin")
    /\ \/ Answer(c, "err", pin) /\ kill_child(r) /\ UNCHANGED live
       \/ Answer(c, "err", pin) /\ UNCHANGED <<proc, orphan, live>>
       \/ /\ proc[r].state = "zombie"
          /\ proc' = Reaped(r)
          /\ \/ Answer(c, "ended", pin)
             \/ Answer(c, "err", pin)
          /\ UNCHANGED <<orphan, live>>
       \/ /\ Alive(r)
          /\ live' = [live EXCEPT ![KindOf(r)][PidOf(r)] = r]
          /\ Answer(c, "running", pin)
          /\ UNCHANGED <<proc, orphan>>
    /\ UNCHANGED <<record, handle, asked, tick, crashes, jailed>>

--------------------------------------------------------------------------
(* Resolving a handle, and pinning the process it names *)

\* reconcile_start without a stored handle reads the locator record of the
\* request; every other call has a handle.
Source(c) == LET r == call[c].req IN
    IF call[c].op = "reconcile" /\ handle[r] = NoHandle THEN record[r] ELSE handle[r]

\* The birth a handle stands for: a pin and a locator with a birth are taken as
\* they are, a locator without one takes the birth of whoever has its number now.
resolve_locator_to_parsed(r, s) ==
    LET o == Occupant(PidOf(r)) IN
    IF s.birth # NoBirth THEN s.birth ELSE IF o = Nobody THEN NoBirth ELSE proc[o].birth

\* parse_control_handle and control_parsed: a handle is an error, a process that
\* is gone (nobody has the number of a locator without a birth), or control.
control_parsed(c) ==
    LET s == Source(c)
        birth == resolve_locator_to_parsed(call[c].req, s)
        reconcile == call[c].op = "reconcile" IN
    /\ At(c, "parse")
    /\ \/ Answer(c, "err", NoHandle)
       \/ s = NoHandle /\ Answer(c, "unknown", NoHandle)
       \/ /\ s # NoHandle /\ birth = NoBirth
          /\ Answer(c, "ended", IF reconcile THEN s ELSE NoHandle)
       \/ /\ s # NoHandle /\ birth # NoBirth
          /\ call' = [call EXCEPT ![c].at = "lookup", ![c].birth = birth,
                                  ![c].source = IF reconcile THEN s ELSE NoHandle]
    /\ UNCHANGED <<proc, orphan, live, record, handle, asked, tick, crashes, jailed>>

\* The live map has this very instance: same birth, same token.
Held(c) == LET r == call[c].req IN
    /\ live[KindOf(r)][PidOf(r)] = r
    /\ proc[r].birth = call[c].birth

\* The live map without it.
Unheld(c) == LET r == call[c].req IN
    [live EXCEPT ![KindOf(r)][PidOf(r)] = Nobody]

\* The handle that a presence gives a reconcile: the full pin, or what it came
\* from when the instance was not found.
Presence(c, ans) ==
    Answer(c, ans, IF call[c].op # "reconcile" THEN NoHandle
                   ELSE IF ans = "unknown" THEN call[c].source
                   ELSE Pin(call[c].birth))

\* Under the lock of the live map, a child is asked by try_wait and reaped when
\* it ended; anything else is pinned, with its token.
AskChild(c) ==
    LET r == call[c].req IN
    /\ \/ /\ Held(c) /\ Alive(r)
          /\ Presence(c, "running")
          /\ UNCHANGED <<proc, live>>
       \/ /\ Held(c) /\ ~Alive(r)
          /\ Presence(c, "ended")
          /\ proc' = Reaped(r)
          /\ live' = Unheld(c)
       \/ /\ ~Held(c)
          /\ Goto(c, "open")
          /\ UNCHANGED <<proc, live>>
    /\ UNCHANGED <<orphan, record, handle, asked, tick, crashes, jailed>>

\* The local adapter's observe has this inline, its reconcile_start and the
\* jailed adapter go through presence_for.
observe_execution(c) ==
    /\ At(c, "lookup")
    /\ call[c].op = "observe" /\ call[c].req \notin jailed
    /\ AskChild(c)

reconcile_start(c) ==
    /\ At(c, "lookup")
    /\ call[c].op = "reconcile" /\ call[c].req \notin jailed
    /\ AskChild(c)

JailedObserve(c) ==
    /\ At(c, "lookup")
    /\ call[c].op = "observe" /\ call[c].req \in jailed
    /\ AskChild(c)

JailedReconcile(c) ==
    /\ At(c, "lookup")
    /\ call[c].op = "reconcile" /\ call[c].req \in jailed
    /\ AskChild(c)

\* The local adapter asks for no token of a child in its live map, and lets go
\* of the lock.
interrupt_execution(c) ==
    /\ At(c, "lookup")
    /\ call[c].op = "interrupt" /\ call[c].req \notin jailed
    /\ call' = [call EXCEPT ![c].at = "open", ![c].token = ~Held(c)]
    /\ UNCHANGED <<proc, orphan, live, record, handle, asked, tick, crashes, jailed>>

JailedInterrupt(c) ==
    /\ At(c, "lookup")
    /\ call[c].op = "interrupt" /\ call[c].req \in jailed
    /\ Goto(c, "open")
    /\ UNCHANGED <<proc, orphan, live, record, handle, asked, tick, crashes, jailed>>

\* Mutant: terminate and collect never ask for the token.
TakeWithoutToken(c, next) ==
    /\ live' = IF Held(c) THEN Unheld(c) ELSE live
    /\ call' = [call EXCEPT ![c].child = Held(c), ![c].token = FALSE,
                            ![c].at = IF Held(c) THEN next ELSE "open"]
    /\ UNCHANGED <<proc, orphan, record, handle, asked, tick, crashes, jailed>>

\* The child is taken out of the live map, and the call goes on with it; a
\* process that is not there is pinned, with its token.
TakeChild(c, next) ==
    /\ \/ /\ Held(c)
          /\ live' = Unheld(c)
          /\ call' = [call EXCEPT ![c].child = TRUE, ![c].token = FALSE, ![c].at = next]
       \/ /\ ~Held(c)
          /\ Goto(c, "open")
          /\ UNCHANGED live
    /\ UNCHANGED <<proc, orphan, record, handle, asked, tick, crashes, jailed>>

\* The local adapter pins its own child to kill it (no token: an unreaped child
\* keeps its number), the jailed one kills by the Child.
terminate_execution(c) ==
    /\ At(c, "lookup")
    /\ call[c].op = "terminate" /\ call[c].req \notin jailed
    /\ TakeChild(c, "open")

JailedTerminate(c) ==
    /\ At(c, "lookup")
    /\ call[c].op = "terminate" /\ call[c].req \in jailed
    /\ TakeChild(c, "wait")

\* collect waits for the child.
collect_outcome(c) ==
    /\ At(c, "lookup")
    /\ call[c].op = "collect" /\ call[c].req \notin jailed
    /\ TakeChild(c, "wait")

JailedCollect(c) ==
    /\ At(c, "lookup")
    /\ call[c].op = "collect" /\ call[c].req \in jailed
    /\ TakeChild(c, "wait")

\* What Gone and Mismatch mean to each operation.  interrupt goes on to observe;
\* collect takes Gone for the exit and Mismatch for an error.  A child the local
\* terminate holds is asked once more, and reaped when it ended.
Unpinned(c, outcome) ==
    /\ IF call[c].op = "interrupt"
       THEN call' = [call EXCEPT ![c].op = "observe", ![c].at = "parse",
                                 ![c].birth = NoBirth, ![c].fd = Nobody, ![c].token = TRUE,
                                 ![c].source = NoHandle]
       ELSE Presence(c, IF outcome = "gone" THEN "ended"
                        ELSE IF call[c].op = "collect" THEN "err" ELSE "unknown")
    /\ proc' = IF call[c].child /\ proc[call[c].req].state = "zombie"
               THEN Reaped(call[c].req) ELSE proc

\* pidfd_open: the descriptor stays with the process it opened.
pidfd_open(c) ==
    LET o == Occupant(PidOf(call[c].req)) IN
    /\ At(c, "open")
    /\ \/ o = Nobody /\ Unpinned(c, "gone")
       \/ /\ o # Nobody
          /\ call' = [call EXCEPT ![c].fd = o, ![c].at = "stat"]
          /\ UNCHANGED proc
    /\ UNCHANGED <<orphan, live, record, handle, asked, tick, crashes, jailed>>

\* /proc/<pid>/stat is read by number: it is the birth of whoever is there now.
process_stat(c) ==
    LET o == Occupant(PidOf(call[c].req)) IN
    /\ At(c, "stat")
    /\ \/ o = Nobody /\ Unpinned(c, "gone")
       \/ o # Nobody /\ proc[o].birth # call[c].birth /\ Unpinned(c, "mismatch")
       \/ /\ o # Nobody /\ proc[o].birth = call[c].birth
          /\ Goto(c, IF call[c].token THEN "environ" ELSE "pinned")
          /\ UNCHANGED proc
    /\ UNCHANGED <<orphan, live, record, handle, asked, tick, crashes, jailed>>

\* /proc/<pid>/environ, by number too: unreadable when nobody is there, empty
\* for a zombie, and with the token of the instance only for the instance.
instance_token_matches(c) ==
    LET o == Occupant(PidOf(call[c].req)) IN
    /\ At(c, "environ")
    /\ \/ Answer(c, "err", NoHandle) /\ UNCHANGED proc
       \/ /\ o # Nobody /\ (o # call[c].req \/ ~Alive(o))
          /\ Unpinned(c, "mismatch")
       \/ /\ o = call[c].req /\ Alive(o)
          /\ Goto(c, "pinned")
          /\ UNCHANGED proc
    /\ UNCHANGED <<orphan, live, record, handle, asked, tick, crashes, jailed>>

--------------------------------------------------------------------------
(* Acting on a pinned process *)

\* instance_presence: the descriptor is polled.
is_alive(c) ==
    /\ At(c, "pinned")
    /\ call[c].op \in {"observe", "reconcile"}
    /\ Presence(c, IF Alive(call[c].fd) THEN "running" ELSE "ended")
    /\ UNCHANGED <<proc, orphan, live, record, handle, asked, tick, crashes, jailed>>

\* pidfd_send_signal(SIGINT), then observe_execution.
interrupt(c) ==
    /\ At(c, "pinned")
    /\ call[c].op = "interrupt"
    /\ call' = [call EXCEPT ![c] = [Idle EXCEPT !.op = "observe", !.req = call[c].req,
                                                !.at = "parse"]]
    /\ UNCHANGED <<proc, orphan, live, record, handle, asked, tick, crashes, jailed>>

\* Mutant: a kill that was sent counts as the end.
KillWithoutWaiting(c) ==
    /\ At(c, "pinned")
    /\ call[c].op \in {"terminate", "collect"}
    /\ Answer(c, "ended", NoHandle)
    /\ UNCHANGED <<proc, orphan, live, record, handle, asked, tick, crashes, jailed>>

\* pidfd_send_signal(SIGKILL), or for collect nothing; then the exit is awaited.
kill(c) ==
    /\ At(c, "pinned")
    /\ call[c].op \in {"terminate", "collect"}
    /\ Goto(c, "wait")
    /\ UNCHANGED <<proc, orphan, live, record, handle, asked, tick, crashes, jailed>>

\* The process awaited has ended: the Child is reaped, a descriptor is readable.
Exited(c) == IF call[c].child THEN ~Alive(call[c].req) ELSE ~Alive(call[c].fd)

wait_exit(c) ==
    /\ At(c, "wait")
    /\ Exited(c)
    /\ proc' = IF call[c].child THEN Reaped(call[c].req) ELSE proc
    /\ Answer(c, "ended", NoHandle)
    /\ UNCHANGED <<orphan, live, record, handle, asked, tick, crashes, jailed>>

\* The deadline, or a failing system call, ends a control call with an error at
\* any step.  collect puts a child it waited for back; terminate asks it once
\* more and drops it.
Fail(c) ==
    LET r == call[c].req IN
    /\ call[c].at \in {"lookup", "open", "stat", "pinned", "wait"}
    /\ Answer(c, "err", NoHandle)
    /\ live' = IF call[c].op = "collect" /\ call[c].child
               THEN [live EXCEPT ![KindOf(r)][PidOf(r)] = r] ELSE live
    /\ proc' = IF call[c].op = "terminate" /\ call[c].child /\ At(c, "wait")
                  /\ proc[r].state = "zombie"
               THEN Reaped(r) ELSE proc
    /\ UNCHANGED <<orphan, record, handle, asked, tick, crashes, jailed>>

--------------------------------------------------------------------------
Step(c) ==
    \/ prepare_jail(c) \/ spawn_child(c) \/ write_locator_record(c)
    \/ process_birth_from_child(c) \/ spawn_jailed(c) \/ rewrite_locator_record(c)
    \/ JailedStart(c) \/ start_execution(c) \/ control_parsed(c)
    \/ observe_execution(c) \/ reconcile_start(c) \/ interrupt_execution(c)
    \/ terminate_execution(c) \/ collect_outcome(c)
    \/ JailedObserve(c) \/ JailedReconcile(c) \/ JailedInterrupt(c)
    \/ JailedTerminate(c) \/ JailedCollect(c)
    \/ pidfd_open(c) \/ process_stat(c) \/ instance_token_matches(c)
    \/ is_alive(c) \/ interrupt(c) \/ kill(c) \/ wait_exit(c)
    \/ Fail(c) \/ admit_start(c) \/ admit_with_handle(c) \/ Return(c)

Operations == {"start", "observe", "interrupt", "terminate", "collect", "reconcile"}

Next ==
    \/ \E c \in Callers : Step(c)
    \/ \E c \in Callers, op \in Operations, r \in Requests : Begin(c, op, r)
    \/ \E i \in Instances : Exit(i)
    \/ \E i \in Strangers, p \in Pids : StrangerBorn(i, p)
    \/ \E r \in Requests : ReapOrphan(r)
    \/ Tick
    \/ Crash

Spec == Init /\ [][Next]_vars

--------------------------------------------------------------------------
(* Properties *)

\* Type invariant.
TypeOK ==
    /\ proc \in [Instances -> [pid : Pids \cup {Nobody}, birth : Births \cup {NoBirth},
                               state : {"unborn", "running", "zombie", "gone"}]]
    /\ orphan \subseteq Requests
    /\ live \in [Kinds -> [Pids -> Requests \cup {Nobody}]]
    /\ record \in [Requests -> Handles]
    /\ handle \in [Requests -> Handles]
    /\ asked \subseteq Requests
    /\ \A c \in Callers : call[c].ans \in {"none", "running", "ended", "unknown", "err"}
    /\ jailed \subseteq Requests
    /\ tick \in 0..MaxTick
    /\ crashes \in 0..MaxCrashes

\* The adapters tell the truth.  One says a process ended (observe, terminate, collect,
\* reconcile or start: quiescence the scheduler retries a writer on) only when the
\* process of that very request no longer runs, whoever has its number by then; and
\* observe_execution and reconcile_start say Running only when, at the moment of the
\* probe, the process of that very request runs.
AnswersAreTrue ==
    /\ [](\A c \in Callers :
             call[c].ans = "ended" => proc[call[c].req].state \in {"zombie", "gone"})
    /\ [][\A c \in Callers :
             call'[c].ans = "running" /\ call[c].ans # "running" /\ call[c].op # "start"
             => Alive(call[c].req)]_vars

\* terminate_execution's SIGKILL reaches the process of its request or nobody: a
\* recycled number, with the same birth tick or not, is never signalled.
KillsHitTheirTarget ==
    \A c \in Callers :
        call[c].op = "terminate" /\ At(c, "pinned")
        => call[c].fd = call[c].req \/ proc[call[c].fd].state = "gone"

\* A running process of a request that nothing durable leads to.
Lost(r) ==
    /\ Alive(r)
    /\ \A c \in Callers : ~(call[c].op = "start" /\ call[c].req = r)
    /\ handle[r] = NoHandle
    /\ record[r] = NoHandle

\* Only a death of the daemon before the first locator record is durable loses a
\* process: no error path of start_execution does.
OnlyACrashLosesAProcess ==
    [][\A r \in Requests : Lost(r)' /\ ~Lost(r) =>
          /\ crashes' # crashes
          /\ \E c \in Callers : /\ call[c].op = "start" /\ call[c].req = r
                                /\ call[c].at \in {"locate", "return"}]_vars

=============================================================================
