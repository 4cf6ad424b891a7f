---------------------------------- MODULE Rpc ----------------------------------
(***************************************************************************)
(* codex_rpc.CodexAppServer: one child process, requests matched with      *)
(* answers by id, and a new child when the last one has ended.  A caller   *)
(* of request awaits the backoff, the start lock, the spawn, the write of  *)
(* its line and its answer, so each of these is a step of its own.  Every  *)
(* child has a task that reads its output and a task that waits for its    *)
(* exit; both act on the adapter of the moment they run in, which may      *)
(* serve a later child by then.                                            *)
(*                                                                         *)
(* Children are numbered in the order they are spawned.  The child is      *)
(* external: it may answer, answer late, never, print what cannot be       *)
(* parsed, stop reading its input, or exit at any time.                    *)
(***************************************************************************)
EXTENDS Naturals, FiniteSets, Functions

CONSTANTS None,
          Callers,   \* the tasks that call request
          MaxCalls   \* bound on the calls, and so on the children
ASSUME CallersAssumption == None \notin Callers
ASSUME CallsAssumption == MaxCalls \in Nat \ {0}

Children == 1..MaxCalls
Ids == 1..(2 * MaxCalls)

VARIABLES proc,     \* self.process: the child spawned last, 0 before the first
          child,    \* what each child is doing
          reading,  \* the children whose output is still read
          watching, \* the children whose exit has not been noticed
          inbox,    \* the requests each child has read and not answered
          ready,    \* the children that were sent `initialized'
          call,     \* what each caller is doing
          pending,  \* self._pending: the callers that wait, by request id
          nextId,   \* self._next_id
          lock,     \* the holder of self._start_lock
          restarts, \* self.restart_count
          adapter,  \* how far close has come
          stopping, \* the child close is ending
          calls     \* calls of request so far

childVars == <<child, reading, watching, inbox, ready>>
rpcVars == <<proc, childVars, call, pending, nextId, lock, restarts, adapter,
             stopping, calls>>

Pcs == {"idle", "backoff", "locking", "spawning", "write", "wait", "readying", "ending"}
Futures == {"none", "open", "answered", "refused", "failed"}

\* `via': by way of start, or straight to a child that was found running.
NoCall == [pc |-> "idle", method |-> "none", id |-> 0, to |-> 0, future |-> "none",
           by |-> 0, via |-> "start"]
Call == [pc : Pcs, method : {"none", "initialize", "account"}, id : {0} \cup Ids,
         to : {0} \cup Children, future : Futures, by : {0} \cup Children,
         via : {"start", "running"}]

RpcTypeOK ==
    /\ proc \in {0} \cup Children
    /\ child \in [Children -> {"absent", "running", "stuck", "ending", "exited"}]
    /\ reading \subseteq 1..proc /\ watching \subseteq 1..proc /\ ready \subseteq 1..proc
    /\ inbox \in [Children -> SUBSET Ids]
    /\ call \in [Callers -> Call]
    /\ DOMAIN pending \subseteq 1..(nextId - 1) /\ IsInjective(pending)
    /\ nextId \in 1..(2 * MaxCalls + 1)
    /\ lock \in Callers \cup {None}
    /\ restarts \in 0..proc
    /\ adapter \in {"open", "closing", "cancelling", "closed"}
    /\ stopping \in 0..proc /\ calls \in 0..MaxCalls

RpcInit ==
    /\ proc = 0 /\ child = [g \in Children |-> "absent"]
    /\ reading = {} /\ watching = {} /\ ready = {}
    /\ inbox = [g \in Children |-> {}]
    /\ call = [c \in Callers |-> NoCall]
    /\ pending = << >> /\ nextId = 1 /\ lock = None
    /\ restarts = 0 /\ adapter = "open" /\ stopping = 0 /\ calls = 0

Live(g) == child[g] \in {"running", "stuck", "ending"}

\* True while the child has no return code, so also before its handshake and
\* after it was told to end.
Running == proc # 0 /\ Live(proc)

\* _terminate_process, up to its first await.
Terminated(statuses) ==
    IF proc # 0 /\ statuses[proc] \in {"running", "stuck"}
    THEN [statuses EXCEPT ![proc] = "ending"] ELSE statuses

Without(i) == Restrict(pending, DOMAIN pending \ {i})

\* _fail_pending: every future still open gets the exception.
FailAll(calls0) ==
    [c \in Callers |-> IF c \in Range(pending) /\ calls0[c].future = "open"
                       THEN [calls0[c] EXCEPT !.future = "failed"] ELSE calls0[c]]

-----------------------------------------------------------------------------
(* request and start *)

\* Mutant of Number: the numbers start again with every child.
NumberAnew(method) == IF method = "initialize" THEN 1 ELSE nextId

Number(method) == nextId

\* _request_raw up to the write: a number, a future, and _send's look at the
\* child.  Without a living child the request fails at once.
Issue(c, method, via, g) ==
    /\ nextId' = Number(method) + 1
    /\ IF g # 0
       THEN /\ call' = [call EXCEPT ![c] = [NoCall EXCEPT !.pc = "write",
                            !.method = method, !.id = Number(method), !.to = g,
                            !.future = "open", !.via = via]]
            /\ pending' = [i \in DOMAIN pending \cup {Number(method)} |->
                              IF i = Number(method) THEN c ELSE pending[i]]
       ELSE /\ call' = [call EXCEPT ![c] = NoCall]
            /\ UNCHANGED pending

Request(c) ==
    /\ call[c].pc = "idle" /\ calls < MaxCalls
    /\ calls' = calls + 1
    /\ IF Running THEN Issue(c, "account", "running", proc)
       ELSE /\ call' = [call EXCEPT ![c] = [NoCall EXCEPT !.pc =
                            IF restarts > 0 THEN "backoff" ELSE "locking"]]
            /\ UNCHANGED <<pending, nextId>>
    /\ UNCHANGED <<proc, childVars, lock, restarts, adapter, stopping>>

BackoffEnds(c) ==
    /\ call[c].pc = "backoff"
    /\ call' = [call EXCEPT ![c].pc = "locking"]
    /\ UNCHANGED <<proc, childVars, pending, nextId, lock, restarts, adapter, stopping, calls>>

\* Mutant of MayEnter: start without its lock.
MayEnterAlways == TRUE

MayEnter == lock = None

\* Mutant of StillNeeded: no second look at the child under the lock.
StillNeededAlways == TRUE

StillNeeded == ~Running

\* Mutant of Refusing: close does not keep a start from happening.
RefusingNever == FALSE

Refusing == adapter # "open"

\* start, from the lock to the spawn.
EnterStart(c) ==
    /\ call[c].pc = "locking" /\ MayEnter
    /\ IF ~StillNeeded THEN Issue(c, "account", "start", proc) /\ UNCHANGED lock
       ELSE /\ UNCHANGED <<pending, nextId>>
            /\ IF Refusing
               THEN call' = [call EXCEPT ![c] = NoCall] /\ UNCHANGED lock
               ELSE call' = [call EXCEPT ![c].pc = "spawning"] /\ lock' = c
    /\ UNCHANGED <<proc, childVars, restarts, adapter, stopping, calls>>

\* The child, its two tasks, and the request `initialize'.
Spawned(c) ==
    /\ call[c].pc = "spawning"
    /\ proc' = proc + 1
    /\ child' = [child EXCEPT ![proc + 1] = "running"]
    /\ reading' = reading \cup {proc + 1} /\ watching' = watching \cup {proc + 1}
    /\ Issue(c, "initialize", "start", proc + 1)
    /\ UNCHANGED <<inbox, ready, lock, restarts, adapter, stopping, calls>>

SpawnFails(c) ==
    /\ call[c].pc = "spawning"
    /\ call' = [call EXCEPT ![c] = NoCall] /\ lock' = None
    /\ UNCHANGED <<proc, childVars, pending, nextId, restarts, adapter, stopping, calls>>

\* Mutant of Popped: the number of a failed request stays among the pending.
PoppedNever(c) == pending

Popped(c) == Without(call[c].id)

\* The exception that ends a request: out of request, or, from the handshake,
\* into start, which ends the child before it passes it on.
Fail(c) ==
    /\ pending' = Popped(c)
    /\ IF call[c].method = "initialize"
       THEN /\ call' = [call EXCEPT ![c] = [NoCall EXCEPT !.pc = "ending"]]
            /\ child' = Terminated(child)
       ELSE /\ call' = [call EXCEPT ![c] = NoCall]
            /\ UNCHANGED child

\* The line is written and the pipe takes it, which a child that has stopped
\* reading prevents for as long as it lives.  No time limit covers this.
Written(c) ==
    /\ call[c].pc = "write" /\ child[call[c].to] # "stuck"
    /\ call' = [call EXCEPT ![c].pc = "wait"]
    /\ inbox' = [inbox EXCEPT ![call[c].to] =
                    IF child[call[c].to] = "running" THEN @ \cup {call[c].id} ELSE @]
    /\ UNCHANGED <<proc, child, reading, watching, ready, pending, nextId, lock,
                   restarts, adapter, stopping, calls>>

WriteFails(c) ==
    /\ call[c].pc \in {"write", "readying"}
    /\ child[call[c].to] \in {"ending", "exited"}
    /\ Fail(c)
    /\ UNCHANGED <<proc, reading, watching, inbox, ready, nextId, lock, restarts,
                   adapter, stopping, calls>>

\* The future is settled and its caller runs again.
Resume(c) ==
    /\ call[c].pc = "wait" /\ call[c].future # "open"
    /\ IF call[c].method = "initialize" /\ call[c].future = "answered" /\ Running
       THEN call' = [call EXCEPT ![c].pc = "readying"] /\ UNCHANGED <<child, pending>>
       ELSE Fail(c)
    /\ UNCHANGED <<proc, reading, watching, inbox, ready, nextId, lock, restarts,
                   adapter, stopping, calls>>

\* Mutant of Timed: the handshake has no time limit.
TimedOwn(c) == call[c].pc = "wait" /\ call[c].method = "account"

Timed(c) == call[c].pc = "wait"

\* The time limit, or the cancellation of the caller, wins also over an
\* answer that has settled the future and has not been taken yet.
Timeout(c) ==
    /\ Timed(c)
    /\ Fail(c)
    /\ UNCHANGED <<proc, reading, watching, inbox, ready, nextId, lock, restarts,
                   adapter, stopping, calls>>

\* `initialized' is written, start returns, and the caller's own request follows.
Readied(c) ==
    /\ call[c].pc = "readying" /\ child[call[c].to] # "stuck"
    /\ ready' = ready \cup {call[c].to}
    /\ lock' = None
    /\ Issue(c, "account", "start", IF Running THEN proc ELSE 0)
    /\ UNCHANGED <<proc, child, reading, watching, inbox, restarts, adapter, stopping, calls>>

\* start has seen its child end and raises.
Ended(c) ==
    /\ call[c].pc = "ending" /\ ~Running
    /\ call' = [call EXCEPT ![c] = NoCall] /\ lock' = None
    /\ UNCHANGED <<proc, childVars, pending, nextId, restarts, adapter, stopping, calls>>

CallerStep(c) ==
    BackoffEnds(c) \/ EnterStart(c) \/ Spawned(c) \/ SpawnFails(c) \/ Written(c)
        \/ WriteFails(c) \/ Resume(c) \/ Timeout(c) \/ Readied(c) \/ Ended(c)

-----------------------------------------------------------------------------
(* The tasks of a child, the child, and close *)

\* _read_stdout: an answer settles the future that waits under its number; a
\* late one, whose number nobody waits for any more, is ignored.  The output
\* of a child that has exited is read to its end.
Answered(g) ==
    /\ g \in reading
    /\ \E i \in inbox[g], outcome \in {"answered", "refused"} :
        /\ inbox' = [inbox EXCEPT ![g] = @ \ {i}]
        /\ IF i \in DOMAIN pending /\ call[pending[i]].future = "open"
           THEN call' = [call EXCEPT ![pending[i]].future = outcome,
                                     ![pending[i]].by = g]
           ELSE UNCHANGED call
        /\ pending' = Without(i)
    /\ UNCHANGED <<proc, child, reading, watching, ready, nextId, lock, restarts,
                   adapter, stopping, calls>>

ReaderEof(g) ==
    /\ g \in reading /\ child[g] = "exited"
    /\ reading' = reading \ {g}
    /\ UNCHANGED <<proc, child, watching, inbox, ready, call, pending, nextId, lock,
                   restarts, adapter, stopping, calls>>

\* A line that cannot be parsed or is too long, or a request of the child that
\* cannot be refused: everything pending fails and the current child is ended.
ReaderBreaks(g) ==
    /\ g \in reading
    /\ reading' = reading \ {g}
    /\ call' = FailAll(call) /\ pending' = << >>
    /\ child' = Terminated(child)
    /\ UNCHANGED <<proc, watching, inbox, ready, nextId, lock, restarts, adapter,
                   stopping, calls>>

ChildExits(g) ==
    /\ Live(g)
    /\ child' = [child EXCEPT ![g] = "exited"]
    /\ UNCHANGED <<proc, reading, watching, inbox, ready, call, pending, nextId, lock,
                   restarts, adapter, stopping, calls>>

ChildSticks(g) ==
    /\ child[g] = "running"
    /\ child' = [child EXCEPT ![g] = "stuck"]
    /\ UNCHANGED <<proc, reading, watching, inbox, ready, call, pending, nextId, lock,
                   restarts, adapter, stopping, calls>>

\* Mutant of Noticed: the exit of a child that was replaced is ignored.
NoticedCurrent(g) == adapter = "open" /\ g = proc

Noticed(g) == adapter = "open"

\* _wait_for_exit, some time after the return code became known.
WatcherRuns(g) ==
    /\ g \in watching /\ child[g] = "exited"
    /\ watching' = watching \ {g}
    /\ IF Noticed(g)
       THEN /\ restarts' = restarts + 1
            /\ call' = FailAll(call) /\ pending' = << >>
       ELSE UNCHANGED <<restarts, call, pending>>
    /\ UNCHANGED <<proc, child, reading, inbox, ready, nextId, lock, adapter,
                   stopping, calls>>

\* close, in its three parts: _closed and the child, then the tasks of the
\* child of that moment, then the requests that are left.
Close ==
    /\ adapter = "open" /\ adapter' = "closing"
    /\ stopping' = proc
    /\ child' = Terminated(child)
    /\ UNCHANGED <<proc, reading, watching, inbox, ready, call, pending, nextId, lock,
                   restarts, calls>>

CloseCancels ==
    /\ adapter = "closing" /\ (stopping # 0 => child[stopping] = "exited")
    /\ adapter' = "cancelling"
    /\ reading' = reading \ {proc} /\ watching' = watching \ {proc}
    /\ UNCHANGED <<proc, child, inbox, ready, call, pending, nextId, lock, restarts,
                   stopping, calls>>

CloseEnds ==
    /\ adapter = "cancelling" /\ adapter' = "closed"
    /\ call' = FailAll(call) /\ pending' = << >>
    /\ UNCHANGED <<proc, childVars, nextId, lock, restarts, stopping, calls>>

RpcNext ==
    \/ \E c \in Callers : Request(c) \/ CallerStep(c)
    \/ \E g \in Children : Answered(g) \/ ReaderEof(g) \/ ReaderBreaks(g) \/ ChildExits(g)
                              \/ ChildSticks(g) \/ WatcherRuns(g)
    \/ Close \/ CloseCancels \/ CloseEnds

\* The event loop runs what can run, its timers fire, and a child that was
\* told to end is ended within five seconds, by force if need be.
RpcFairness ==
    /\ \A c \in Callers : WF_rpcVars(CallerStep(c))
    /\ \A g \in Children : WF_rpcVars(child[g] = "ending" /\ ChildExits(g))

RpcSpec == RpcInit /\ [][RpcNext]_rpcVars /\ RpcFairness

-----------------------------------------------------------------------------

Open(c) == call[c].future = "open"

\* The futures that are not settled are those in _pending, each under the
\* number of its own request: an exit, a timeout or close finds all of them,
\* and none that is over keeps a place (tests/test_rpc.py:57).
PendingIsExact ==
    /\ \A c \in Callers : Open(c) => call[c].id \in DOMAIN pending /\ pending[call[c].id] = c
    /\ \A i \in DOMAIN pending : call[pending[i]].id = i /\ Open(pending[i])

\* What a caller is given was answered by the child it asked, also when the
\* output of an earlier child is still being read (codex_rpc.py:204).
OwnAnswer == \A c \in Callers : call[c].by \in {0, call[c].to}

\* There is one child at a time, whoever finds it gone and whenever
\* (docs/architecture.md:54; codex_rpc.py:99-101).
SingleChild == \A g \in Children : g < proc => child[g] = "exited"

\* Once the exit of a child has been noticed nobody waits for an answer of
\* it, even if another child has taken its place by then (codex_rpc.py:281).
ExitReachesAll ==
    \A c \in Callers : Open(c) /\ adapter = "open" =>
        Live(call[c].to) \/ call[c].to \in watching

\* Callers that went through start are heard by a child that was sent
\* `initialized'; only those that found it running may be heard before
\* (docs/architecture.md:20-21; codex_rpc.py:150).
StartersFollowHandshake ==
    \A c \in Callers : call[c].method = "account" /\ call[c].via = "start" => call[c].to \in ready

\* After close at most one child appears, that of a start close found past
\* its look at _closed (codex_rpc.py:102-107).
LateStarts == adapter # "open" => proc <= stopping + 1

\* Every call of request ends, by its answer, a refusal, a timeout, the end
\* of the child or that of the adapter, unless a child that has stopped
\* reading its input is never ended (codex_rpc.py:166-168).
RequestsEnd ==
    \A c \in Callers : call[c].pc # "idle" ~>
        call[c].pc = "idle" \/ \E g \in Children : child[g] = "stuck"
=============================================================================
