-------------------------------- MODULE Service --------------------------------
(***************************************************************************)
(* main.async_main around the checks and the delivery of the other         *)
(* modules: the bot and the offline admin commands take turns on the data  *)
(* directory under instance.lock, each with a copy of settings.json in     *)
(* memory; people claim the ownership with a one-time link; the scheduler  *)
(* plans its next pass from settings that the owner changes meanwhile; and *)
(* a reporter writes which tasks live for the container's health check.    *)
(*                                                                         *)
(* A write of settings.json fails before or after the new file is in its   *)
(* place (module Storage); a write of state.json that fails ends the task  *)
(* that asked for it.  Of state.json only auth_status is kept: an account  *)
(* is recorded exactly when it is "connected" or "reauth_required".  The   *)
(* length of a delay is left out: a sleep ends at any time.                *)
(***************************************************************************)
CONSTANTS None,
          Users,        \* people who hold a claim link or an id for set-owner
          Tokens,       \* claim tokens create_binding draws
          Intervals     \* values of interval_minutes
ASSUME IntervalsAssumption == Intervals # {}

VARIABLES disk,       \* settings.json
          memory,     \* AtomicModelFile._value in the bot and in an admin command
          lock,       \* the holder of instance.lock
          bot,        \* the phase of the bot's process
          printed,    \* links an admin command has printed
          expired,    \* links in settings.json older than their time to live
          admitted,   \* the link whose claim has passed the middleware, per user
          accepted,   \* users told that they are the owner
          auth,       \* state.auth_status
          scheduler,  \* Monitor.scheduler_loop; "first" and "ready" are the top of the loop
          taken,      \* settings the pass has read at its beginning
          plan,       \* settings the sleeping scheduler has planned with
          wakeup,     \* Monitor._schedule_wakeup
          delivery,   \* the delivery task has not ended
          reporter,   \* the health task has not ended
          file,       \* all(tasks) in the health file
          fresh,      \* the health file is younger than 90 seconds
          polled      \* getUpdates was answered in the last 90 seconds

claimVars == <<disk, memory, lock, printed, expired, admitted, accepted>>
monitorVars == <<auth, scheduler, taken, plan, wakeup, delivery>>
healthVars == <<reporter, file, fresh, polled>>
serviceVars == <<claimVars, bot, monitorVars, healthVars>>

Settings == [owner : Users \cup {None}, token : Tokens \cup {None},
             interval : Intervals, paused : BOOLEAN]
Timing == [interval : Intervals, paused : BOOLEAN]    \* what a plan depends on
Processes == {"bot", "admin"}
AuthStatus == {"unknown", "connected", "disconnected", "reauth_required"}
Recorded == {"connected", "reauth_required"}

ASSUME NoneAssumption ==
    None \notin Users \cup Tokens \cup Processes \cup Settings \cup Timing

ClaimsTypeOK ==
    /\ disk \in Settings /\ memory \in [Processes -> Settings \cup {None}]
    /\ lock \in Processes \cup {None}
    /\ bot \in {"down", "running", "stopping", "diagnostic"}
    /\ bot # "down" <=> lock = "bot"
    /\ memory["bot"] # None <=> bot \in {"running", "stopping"}
    /\ memory["admin"] # None <=> lock = "admin"
    /\ printed \subseteq Tokens /\ expired \subseteq printed
    /\ admitted \in [Users -> Tokens \cup {None}] /\ accepted \subseteq Users

MonitoringTypeOK ==
    /\ auth \in AuthStatus
    /\ scheduler \in {"off", "first", "ready", "checking", "sleeping", "dead"}
    /\ scheduler # "off" => bot = "running"
    /\ taken \in Timing \cup {None}
    /\ taken # None <=> scheduler = "checking"
    /\ plan \in Timing \cup {None}
    /\ plan # None <=> scheduler = "sleeping"
    /\ wakeup \in BOOLEAN /\ delivery \in BOOLEAN

HealthTypeOK ==
    /\ reporter \in BOOLEAN /\ fresh \in BOOLEAN /\ polled \in BOOLEAN
    /\ file \in {"none", "well", "ill"}

ServiceTypeOK == ClaimsTypeOK /\ MonitoringTypeOK /\ HealthTypeOK

ServiceInit ==
    /\ \E i \in Intervals :
        disk = [owner |-> None, token |-> None, interval |-> i, paused |-> FALSE]
    /\ memory = [p \in Processes |-> None] /\ lock = None /\ bot = "down"
    /\ printed = {} /\ expired = {} /\ accepted = {}
    /\ admitted = [u \in Users |-> None]
    /\ auth = "unknown" /\ scheduler = "off" /\ taken = None /\ plan = None
    /\ wakeup = FALSE /\ delivery = FALSE
    /\ reporter = FALSE /\ file = "none" /\ fresh = FALSE /\ polled = FALSE

-----------------------------------------------------------------------------
(* Processes on the data directory *)

\* Mutant of LockFree: nobody asks for the lock.
LockFreeAlways == TRUE

LockFree == lock = None

\* acquire and initialize, which reads settings.json.
Opens(p) ==
    /\ LockFree
    /\ lock' = p /\ memory' = [memory EXCEPT ![p] = disk]

\* release, or the end of the process, which frees the lock and its memory.
Closes(p) == lock' = None /\ memory' = [memory EXCEPT ![p] = None]

\* mutate: a write that fails raises, before or after the file was replaced.
Saves(settings) == disk' = settings /\ memory' = [memory EXCEPT !["bot"] = settings]
SaveFails(settings) == disk' \in {disk, settings} /\ UNCHANGED memory

\* The tasks are created together, and getUpdates counts as answered.
BotStarts ==
    /\ bot = "down" /\ Opens("bot")
    /\ bot' = "running" /\ scheduler' = "first"
    /\ delivery' = TRUE /\ reporter' = TRUE /\ polled' = TRUE
    /\ UNCHANGED <<disk, printed, expired, admitted, accepted, auth, taken, plan,
                   wakeup, file, fresh>>

\* Storage is beyond recovery: only the health task runs.
BotStartsClosed ==
    /\ bot = "down" /\ LockFree
    /\ lock' = "bot" /\ bot' = "diagnostic" /\ reporter' = TRUE
    /\ UNCHANGED <<disk, memory, printed, expired, admitted, accepted, monitorVars,
                   file, fresh, polled>>

\* Mutant of BotStops: the scheduler is not cancelled.
BotStopsUncancelled ==
    /\ bot = "running" /\ bot' = "stopping"
    /\ delivery' = FALSE /\ reporter' = FALSE
    /\ UNCHANGED <<claimVars, auth, scheduler, taken, plan, wakeup, file, fresh, polled>>

\* Polling ends: the tasks are cancelled, handlers still run.
BotStops ==
    /\ bot = "running"
    /\ bot' = "stopping" /\ scheduler' = "off" /\ taken' = None /\ plan' = None
    /\ delivery' = FALSE /\ reporter' = FALSE
    /\ UNCHANGED <<claimVars, auth, wakeup, file, fresh, polled>>

\* Released at the end, or by a kill.  What the process had in memory is gone,
\* and the health file with the container's /tmp.
BotEnds ==
    /\ bot # "down"
    /\ bot' = "down" /\ Closes("bot")
    /\ admitted' = [u \in Users |-> None]
    /\ scheduler' = "off" /\ taken' = None /\ plan' = None /\ wakeup' = FALSE
    /\ delivery' = FALSE /\ reporter' = FALSE
    /\ file' = "none" /\ fresh' = FALSE /\ polled' = FALSE
    /\ UNCHANGED <<disk, printed, expired, accepted, auth>>

AdminOpens ==
    /\ Opens("admin")
    /\ UNCHANGED <<disk, bot, printed, expired, admitted, accepted, monitorVars, healthVars>>

\* What a command writes: a new link replaces the one before; an owner is
\* never replaced.
Linked(t) == [memory["admin"] EXCEPT !.token = t]
Owner(u) == [memory["admin"] EXCEPT !.owner = u, !.token = None]
MayLink(t) == lock = "admin" /\ memory["admin"].owner = None /\ t \notin printed
MayOwn(u) == lock = "admin" /\ memory["admin"].owner \in {None, u}

CreateBinding(t) ==
    /\ MayLink(t) /\ disk' = Linked(t) /\ Closes("admin")
    /\ printed' = printed \cup {t} /\ expired' = {}
    /\ UNCHANGED <<bot, admitted, accepted, monitorVars, healthVars>>

SetOwner(u) ==
    /\ MayOwn(u) /\ disk' = Owner(u) /\ Closes("admin")
    /\ accepted' = accepted \cup {u} /\ expired' = {}
    /\ UNCHANGED <<bot, printed, admitted, monitorVars, healthVars>>

\* The command refuses, was validate-data, or its write fails.
AdminEnds ==
    /\ lock = "admin" /\ Closes("admin")
    /\ \/ UNCHANGED disk
       \/ \E t \in Tokens : MayLink(t) /\ disk' = Linked(t)
       \/ \E u \in Users : MayOwn(u) /\ disk' = Owner(u)
    /\ UNCHANGED <<bot, printed, expired, admitted, accepted, monitorVars, healthVars>>

\* The age of a link counts while the file or a copy in memory has it.
Expire(t) ==
    /\ t \in printed \ expired
    /\ \E settings \in {disk} \cup {memory[p] : p \in Processes} :
        settings # None /\ settings.token = t
    /\ expired' = expired \cup {t}
    /\ UNCHANGED <<disk, memory, lock, printed, admitted, accepted, bot, monitorVars, healthVars>>

-----------------------------------------------------------------------------
(* The claim of a link, in handlers that run at the same time *)

Serving == bot \in {"running", "stopping"}
InBot == memory["bot"]
TimingNow == [interval |-> InBot.interval, paused |-> InBot.paused]

\* The middleware lets a claim pass while there is no owner.
OpenLink(u, t) ==
    /\ Serving /\ t \in printed /\ admitted[u] = None
    /\ InBot.owner = None
    /\ admitted' = [admitted EXCEPT ![u] = t]
    /\ UNCHANGED <<disk, memory, lock, printed, expired, accepted, bot, monitorVars, healthVars>>

Claimable(t) == InBot.owner = None /\ InBot.token = t

\* What an accepted claim and an expired one write.
Consumed(u, t) ==
    IF t \in expired THEN [InBot EXCEPT !.token = None]
                     ELSE [InBot EXCEPT !.owner = u, !.token = None]

ConsumeBinding(u) ==
    /\ Serving /\ admitted[u] # None
    /\ LET t == admitted[u] IN
        IF Claimable(t)
        THEN \/ /\ Saves(Consumed(u, t)) /\ expired' = {}
                /\ accepted' = IF t \in expired THEN accepted ELSE accepted \cup {u}
             \/ SaveFails(Consumed(u, t)) /\ UNCHANGED <<accepted, expired>>
        ELSE UNCHANGED <<disk, memory, accepted, expired>>
    /\ admitted' = [admitted EXCEPT ![u] = None]
    /\ UNCHANGED <<lock, printed, bot, monitorVars, healthVars>>

-----------------------------------------------------------------------------
(* The owner's buttons that concern the scheduler *)

Owned == Serving /\ InBot.owner # None

\* A button writes the settings and wakes the scheduler, unless the write fails.
Change(settings) ==
    /\ Owned
    /\ \/ Saves(settings) /\ wakeup' = TRUE
       \/ SaveFails(settings) /\ UNCHANGED wakeup
    /\ UNCHANGED <<lock, printed, expired, admitted, accepted, bot, auth, scheduler,
                   taken, plan, delivery, healthVars>>

UpdateInterval(i) == Change([InBot EXCEPT !.interval = i])
TogglePause == Change([InBot EXCEPT !.paused = ~InBot.paused])

Logout ==
    /\ Owned /\ auth' = "disconnected" /\ wakeup' = TRUE
    /\ UNCHANGED <<claimVars, bot, scheduler, taken, plan, delivery, healthVars>>

\* What a check leaves in auth_status: it read the limits, was told to sign in,
\* or failed (module Monitor).
CheckOutcomes ==
    {"connected", auth, IF auth \in Recorded THEN "reauth_required" ELSE "disconnected"}

\* A check of the owner, or the one at the end of a login.
ManualCheck ==
    /\ Owned /\ auth' \in CheckOutcomes
    /\ UNCHANGED <<claimVars, bot, scheduler, taken, plan, wakeup, delivery, healthVars>>

-----------------------------------------------------------------------------
(* The scheduler and the delivery task *)

\* Mutant of Watched: after the first pass nothing counts as watched.
WatchedNever == FALSE

Watched == auth \in Recorded

Eligible ==
    /\ InBot.owner # None /\ ~InBot.paused
    /\ auth \notin {"disconnected", "reauth_required"}
    /\ scheduler = "first" \/ Watched

\* Mutant of PlannedWith: the settings read before the check.
PlannedWithTaken == IF taken = None THEN TimingNow ELSE taken

\* The settings are read again once the check is over.
PlannedWith == TimingNow

\* set_next_check writes, the event is cleared and the sleep begins, without an
\* await that yields in between.
Plans ==
    \/ scheduler' = "sleeping" /\ plan' = PlannedWith /\ wakeup' = FALSE /\ taken' = None
    \/ scheduler' = "dead" /\ taken' = None /\ UNCHANGED <<plan, wakeup>>

Pass ==
    /\ scheduler \in {"first", "ready"}
    /\ IF Eligible THEN /\ scheduler' = "checking" /\ taken' = TimingNow
                        /\ UNCHANGED <<plan, wakeup>>
       ELSE Plans
    /\ UNCHANGED <<claimVars, bot, auth, delivery, healthVars>>

CheckReturns ==
    /\ scheduler = "checking"
    /\ auth' \in CheckOutcomes /\ Plans
    /\ UNCHANGED <<claimVars, bot, delivery, healthVars>>

\* The write that records the check fails.
CheckRaises ==
    /\ scheduler = "checking"
    /\ scheduler' = "dead" /\ taken' = None
    /\ UNCHANGED <<claimVars, bot, auth, plan, wakeup, delivery, healthVars>>

\* The delay is over, or the event was set.
SleepEnds ==
    /\ scheduler = "sleeping"
    /\ scheduler' = "ready" /\ plan' = None
    /\ UNCHANGED <<claimVars, bot, auth, taken, wakeup, delivery, healthVars>>

\* The write of an acknowledgement or a postponement fails.
DeliveryRaises ==
    /\ delivery /\ delivery' = FALSE
    /\ UNCHANGED <<claimVars, bot, auth, scheduler, taken, plan, wakeup, healthVars>>

-----------------------------------------------------------------------------
(* Health *)

\* Mutant of TasksLive: a task that was created counts as live.
TasksLiveOnceCreated == bot = "running" /\ polled

TasksLive == bot = "running" /\ scheduler # "dead" /\ delivery /\ polled

Report ==
    /\ reporter
    /\ file' = IF TasksLive THEN "well" ELSE "ill"
    /\ fresh' = TRUE
    /\ UNCHANGED <<claimVars, bot, monitorVars, reporter, polled>>

\* The file cannot be written: the health task ends.  In diagnostic mode the
\* process ends with it (BotEnds).
ReportRaises ==
    /\ reporter /\ bot = "running" /\ reporter' = FALSE
    /\ UNCHANGED <<claimVars, bot, monitorVars, file, fresh, polled>>

\* Ninety seconds pass without a report; a live reporter writes every fifteen.
Ages ==
    /\ ~reporter /\ fresh /\ fresh' = FALSE
    /\ UNCHANGED <<claimVars, bot, monitorVars, reporter, file, polled>>

PollAnswered ==
    /\ Serving /\ polled' = TRUE
    /\ UNCHANGED <<claimVars, bot, monitorVars, reporter, file, fresh>>

\* Ninety seconds pass without an answer to getUpdates.
PollUnanswered ==
    /\ Serving /\ polled' = FALSE
    /\ UNCHANGED <<claimVars, bot, monitorVars, reporter, file, fresh>>

Healthy == file = "well" /\ fresh

ServiceNext ==
    \/ BotStarts \/ BotStartsClosed \/ BotStops \/ BotEnds \/ AdminOpens \/ AdminEnds
    \/ \E t \in Tokens : CreateBinding(t) \/ Expire(t)
    \/ \E u \in Users : SetOwner(u) \/ ConsumeBinding(u) \/ \E t \in Tokens : OpenLink(u, t)
    \/ \E i \in Intervals : UpdateInterval(i)
    \/ TogglePause \/ Logout \/ ManualCheck
    \/ Pass \/ CheckReturns \/ CheckRaises \/ SleepEnds \/ DeliveryRaises
    \/ Report \/ ReportRaises \/ Ages \/ PollAnswered \/ PollUnanswered

\* The event loop runs, requests of a check end (Rpc!RequestsEnd), delays pass.
\* One step of the scheduler at a time can be taken, and one of the reporter or
\* the clock.  Nobody has to start the bot, and no write has to fail.
ServiceFairness ==
    /\ WF_serviceVars(Pass \/ CheckReturns \/ SleepEnds)
    /\ WF_serviceVars(Report \/ Ages)

ServiceSpec == ServiceInit /\ [][ServiceNext]_serviceVars /\ ServiceFairness

-----------------------------------------------------------------------------

\* Whoever was told to be the owner, in the chat or on the terminal, is the one
\* in settings.json for ever after: of two people who open the link at once one
\* is told so, a failing write or a crash never lets a second one in, and an
\* admin command cannot write over a claim with settings read before it
\* (binding.py:34-68, instance_lock.py:33-42, tests/test_binding.py:24).
BoundIsOwner == \A u \in accepted : disk.owner = u

\* A sleeping scheduler that has not been told to wake up sleeps by the interval
\* and the pause of now, also when they changed during its check
\* (monitor.py:257-258,279-287).
PlanIsCurrent ==
    scheduler = "sleeping" /\ ~wakeup => plan = TimingNow

\* Monitoring goes on: a check begins again and again unless again and again
\* there is no reason to check, or the scheduler has ended (monitor.py:245-287).
Due ==
    /\ scheduler \notin {"off", "dead"} /\ InBot.owner # None
    /\ ~InBot.paused /\ auth = "connected"
MonitoringContinues == []<>(scheduler = "checking") \/ []<>~Due

Broken ==
    \/ bot = "running" /\ (scheduler = "dead" \/ ~delivery \/ ~polled)
    \/ bot = "diagnostic"

\* A process whose scheduler, delivery or polling has ended for good, or that
\* runs with closed storage, is reported unhealthy for good, also when the task
\* that reports has ended before (docs/architecture.md:67, health.py:42-48).
DeadTaskShows == <>[]Broken => <>[]~Healthy
=============================================================================
