------------------------------- MODULE Monitor -------------------------------
(***************************************************************************)
(* monitor.Monitor: the checks.  A check is an asyncio task that awaits    *)
(* account/read, then account/rateLimits/read, and, when a reset looks     *)
(* early, a pause and a second account/rateLimits/read; between two awaits *)
(* it runs without interruption, so every await is a step of its own and   *)
(* the code from one await to the next is one action.  Callers of          *)
(* check_now join the check in flight instead of starting another.         *)
(*                                                                         *)
(* The App Server is outside this code: `codex' is the account it is       *)
(* signed in to, and a request may be answered for any account the server  *)
(* was signed in to between taking the request and answering it.           *)
(***************************************************************************)
EXTENDS AppState

CONSTANTS Callers,      \* who calls check_now
          ManualCallers,\* those that pass manual=True
          LoginCallers, \* those of them that are waiters of device logins
          TaskIds,      \* names for check tasks
          Switches,     \* the notification kinds the owner switches on and off
          MaxChecks,    \* bound on the checks started
          MaxSigns      \* bound on the changes of the signed-in account

ASSUME CallersAssumption == LoginCallers \subseteq ManualCallers /\ ManualCallers \subseteq Callers
ASSUME TasksAssumption == None \notin TaskIds
ASSUME SwitchesAssumption == Switches \subseteq OptionalTypes
ASSUME BoundsAssumption == MaxChecks \in Nat /\ MaxSigns \in Nat

VARIABLES enabled,   \* settings.notifications: the kinds switched on
          codex,     \* the account the App Server is signed in to
          tasks,     \* the check tasks
          current,   \* Monitor._current
          caller,    \* what each caller of check_now is doing
          cooling,   \* the manual cooldown is running
          logout,    \* the logout handler awaits the server's answer
          loginDone, \* waiters whose login succeeded and that have not called check_now yet
          checks,    \* checks started, and the clock that names an outage
          signs      \* changes of the signed-in account so far

monitorVars == <<st, enabled, codex, tasks, current, caller, cooling, logout,
                 loginDone, checks, signs>>

Results == {"updated", "recent", "not_connected", "unavailable"}
Pcs == {"none", "account", "limits", "sleep", "confirm"}

\* seen: the accounts the server was signed in to since it took the request.
NoTask == [pc |-> "none", seen |-> {}, previous |-> None, baseline |-> None,
           snapshot |-> None, credits |-> FALSE, enabled |-> {}]
Task == [pc : Pcs, seen : SUBSET MaybeAccount, previous : Snapshot \cup {None},
         baseline : MaybeAccount, snapshot : Snapshot \cup {None},
         credits : BOOLEAN, enabled : SUBSET OptionalTypes]

Waiting(t) == [task |-> t, result |-> None]
Returned(r) == [task |-> None, result |-> r]
Idle == [task |-> None, result |-> None]
CallerType == [task : TaskIds \cup {None}, result : Results \cup {None}]

MonitorTypeOK ==
    /\ st \in AppStateType
    /\ enabled \subseteq OptionalTypes
    /\ codex \in MaybeAccount
    /\ tasks \in [TaskIds -> Task]
    /\ current \in TaskIds \cup {None}
    /\ caller \in [Callers -> CallerType]
    /\ cooling \in BOOLEAN /\ logout \in {"none", "sent", "done"}
    /\ loginDone \subseteq LoginCallers
    /\ checks \in Nat /\ signs \in Nat

MonitorInit ==
    /\ st = InitialAppState
    /\ enabled = OptionalTypes
    /\ codex \in MaybeAccount
    /\ tasks = [t \in TaskIds |-> NoTask]
    /\ current = None
    /\ caller = [c \in Callers |-> Idle]
    /\ cooling = FALSE /\ logout = "none" /\ loginDone = {}
    /\ checks = 0 /\ signs = 0

InFlight(t) == tasks[t].pc # "none"

-----------------------------------------------------------------------------
(* What one read is compared with, and what it commits. *)

\* domain.analyze_changes on one window: late says that the clock has passed
\* the reset time the previous snapshot announced.
Advanced(previous, new) ==
    /\ previous # None
    /\ previous.account = new.account
    /\ new.window > previous.window

\* Mutants of Verdict: an early reset counts at once, or not at all.
HastyVerdict(previous, new, late, confirmed) ==
    IF ~Advanced(previous, new) THEN "none" ELSE IF late THEN "reset" ELSE "early"
BlindVerdict(previous, new, late, confirmed) ==
    IF Advanced(previous, new) /\ late THEN "reset" ELSE "none"

Verdict(previous, new, late, confirmed) ==
    IF ~Advanced(previous, new) THEN "none"
    ELSE IF late THEN "reset"
    ELSE IF confirmed THEN "early" ELSE "unsure"

AnalyzeChanges(previous, new, late, confirmed) ==
    LET verdict == Verdict(previous, new, late, confirmed)
    IN  CASE verdict = "reset" -> {WindowReset(new.account, previous.window, new.window)}
          [] verdict = "early" -> {WindowChangedEarly(new.account, previous.window, new.window)}
          [] OTHER -> {}

RequiresConfirmation(previous, new, late) == Verdict(previous, new, late, FALSE) = "unsure"

\* domain._credit_baseline: a read without known credits keeps the old one.
NextBaseline(account, credits, old) == IF credits THEN account ELSE old

\* Mutants of RecoveredEvents: the outage is forgotten before it is named;
\* every outage is said to be over, also one that was never announced.
RecoveredNameless(s) == IF s.outageNotified THEN {Recovered(None)} ELSE {}
RecoveredAlways(s) == IF s.outage # None THEN {Recovered(s.outage)} ELSE {}

RecoveredEvents(s) == IF s.outageNotified THEN {Recovered(s.outage)} ELSE {}

\* Mutant of KeptOutbox: the notices about the previous account stay.
KeptOutboxAlways(s, changed) == s.outbox

KeptOutbox(s, changed) == IF changed THEN <<>> ELSE s.outbox

\* The commit of a successful check; account_changed was captured with the
\* state the analysis compared with.
CommitCheck(s, snapshot, changed, detected, baseline, notifications) ==
    LET new == (detected \cup RecoveredEvents(s)) \ Range(s.events)
        observed == [s EXCEPT
            !.outbox = KeptOutbox(s, changed),
            !.account = snapshot.account, !.authStatus = "connected",
            !.snapshot = snapshot,        !.creditBaseline = baseline,
            !.authNotified = FALSE,       !.failures = 0,
            !.outage = None,              !.outageNotified = FALSE]
    IN  Bounded(AppendEventsAndOutbox(observed, new, notifications))

\* _record_auth_required
RecordAuthRequired(s, notifications) ==
    LET known   == s.account # None
        marked  == [s EXCEPT !.authStatus = IF known THEN "reauth_required"
                                                     ELSE "disconnected"]
    IN  Bounded(IF known /\ ~s.authNotified
                THEN [AppendEventsAndOutbox(marked, {AuthRequired(s.account)}, notifications)
                      EXCEPT !.authNotified = TRUE]
                ELSE marked)

\* Mutant of OutageDue: the fourth failure is the first to be announced.
OutageDueLate(s) == s.failures > 3 /\ ~s.outageNotified

OutageDue(s) == s.failures >= 3 /\ ~s.outageNotified

\* _record_failure; `now' names the outage that a first failure opens.
RecordFailure(s, now, notifications) ==
    LET outage == IF s.outage = None THEN now ELSE s.outage
        failed == [s EXCEPT !.failures = @ + 1, !.outage = outage]
    IN  Bounded(IF OutageDue(failed)
                THEN [AppendEventsAndOutbox(failed, {Unavailable(outage)}, notifications)
                      EXCEPT !.outageNotified = TRUE]
                ELSE failed)

-----------------------------------------------------------------------------
(* check_now *)

\* Mutant of Joinable: a check in flight is never joined.
JoinableNever == FALSE

Joinable == current # None /\ InFlight(current)
CoolingDown(c) == c \in ManualCallers /\ cooling

Join(c) ==
    /\ Joinable
    /\ caller' = [caller EXCEPT ![c] = Waiting(current)]
    /\ UNCHANGED <<tasks, current, cooling, checks>>

\* CheckResult(True, "check.recent"), without a check.
AnswerRecent(c) ==
    /\ ~Joinable /\ CoolingDown(c)
    /\ caller' = [caller EXCEPT ![c] = Returned("recent")]
    /\ UNCHANGED <<tasks, current, cooling, checks>>

Start(c) ==
    /\ ~Joinable /\ ~CoolingDown(c)
    /\ checks < MaxChecks /\ checks' = checks + 1
    /\ cooling' = (cooling \/ c \in ManualCallers)
    /\ \E t \in TaskIds :
        /\ ~InFlight(t)
        /\ current' = t
        /\ tasks' = [tasks EXCEPT ![t] = [NoTask EXCEPT !.pc = "account", !.seen = {codex}]]
        /\ caller' = [caller EXCEPT ![c] = Waiting(t)]

CheckNow(c) ==
    /\ caller[c] = Idle
    /\ Join(c) \/ AnswerRecent(c) \/ Start(c)
    /\ UNCHANGED <<st, enabled, codex, logout, signs>>

\* Mutant of Awaiting: only one of the callers that joined is resumed.
AwaitingOne(t) == {CHOOSE c \in Callers : caller[c] = Waiting(t)}

Awaiting(t) == {c \in Callers : caller[c] = Waiting(t)}

\* The task is done: all that awaited it resume, and _current is released.
Finish(t, result) ==
    /\ tasks' = [tasks EXCEPT ![t] = NoTask]
    /\ current' = IF current = t THEN None ELSE current
    /\ caller' = [c \in Callers |-> IF c \in Awaiting(t) THEN Returned(result)
                                    ELSE caller[c]]

AuthFailure(t) ==
    /\ st' = RecordAuthRequired(st, enabled)
    /\ Finish(t, "not_connected")

Failure(t) ==
    /\ st' = RecordFailure(st, checks, enabled)
    /\ Finish(t, "unavailable")

AccountReply(t) ==
    /\ tasks[t].pc = "account"
    /\ \/ /\ tasks[t].seen # {None}
          /\ tasks' = [tasks EXCEPT ![t].pc = "limits", ![t].seen = {codex}]
          /\ UNCHANGED <<st, current, caller>>
       \/ None \in tasks[t].seen /\ AuthFailure(t)
       \/ Failure(t)
    /\ UNCHANGED <<enabled, codex, cooling, logout, loginDone, checks, signs>>

\* From the answer of rateLimits/read to the commit, or to the pause before
\* the second read: state and settings are captured here.
Observe(t, snapshot, credits, late) ==
    LET changed  == st.account # None /\ st.account # snapshot.account
        previous == IF changed THEN None ELSE st.snapshot
        baseline == IF changed THEN None ELSE st.creditBaseline
        detected == AnalyzeChanges(previous, snapshot, late, FALSE)
                    \cup (IF changed THEN {AccountChanged(snapshot.account)} ELSE {})
    IN  IF RequiresConfirmation(previous, snapshot, late)
        THEN /\ tasks' = [tasks EXCEPT ![t] =
                    [pc |-> "sleep", seen |-> {}, previous |-> previous,
                     baseline |-> baseline, snapshot |-> snapshot,
                     credits |-> credits, enabled |-> enabled]]
             /\ UNCHANGED <<st, current, caller>>
        ELSE /\ st' = CommitCheck(st, snapshot, changed, detected,
                         NextBaseline(snapshot.account, credits, baseline), enabled)
             /\ Finish(t, "updated")

LimitsReply(t) ==
    /\ tasks[t].pc = "limits"
    /\ \/ \E a \in tasks[t].seen \ {None}, w \in Windows, credits, late \in BOOLEAN :
            Observe(t, [account |-> a, window |-> w], credits, late)
       \/ None \in tasks[t].seen /\ AuthFailure(t)
       \/ Failure(t)
    /\ UNCHANGED <<enabled, codex, cooling, logout, loginDone, checks, signs>>

\* The pause is over: read the limits a second time.
ConfirmationDue(t) ==
    /\ tasks[t].pc = "sleep"
    /\ tasks' = [tasks EXCEPT ![t].pc = "confirm", ![t].seen = {codex}]
    /\ UNCHANGED <<st, enabled, codex, current, caller, cooling, logout, loginDone,
                   checks, signs>>

\* The second read replaces the first, unless it answers for another account;
\* it is compared with the snapshot and baseline captured before the pause.
Confirm(t, snapshot, credits, late) ==
    LET task == tasks[t]
        same == snapshot.account = task.snapshot.account
        kept == IF same THEN snapshot ELSE task.snapshot
        known == IF same THEN credits ELSE task.credits
        detected == IF same THEN AnalyzeChanges(task.previous, snapshot, late, TRUE) ELSE {}
    IN  /\ st' = CommitCheck(st, kept, FALSE, detected,
                     NextBaseline(kept.account, known, task.baseline), task.enabled)
        /\ Finish(t, "updated")

ConfirmReply(t) ==
    /\ tasks[t].pc = "confirm"
    /\ \/ \E a \in tasks[t].seen \ {None}, w \in Windows, credits, late \in BOOLEAN :
            Confirm(t, [account |-> a, window |-> w], credits, late)
       \/ None \in tasks[t].seen /\ AuthFailure(t)
       \/ Failure(t)
    /\ UNCHANGED <<enabled, codex, cooling, logout, loginDone, checks, signs>>

\* check_now returns to its caller.
Resume(c) ==
    /\ caller[c].result # None
    /\ caller' = [caller EXCEPT ![c] = Idle]
    /\ UNCHANGED <<st, enabled, codex, tasks, current, cooling, logout, loginDone,
                   checks, signs>>

CooldownEnds ==
    /\ cooling
    /\ cooling' = FALSE
    /\ UNCHANGED <<st, enabled, codex, tasks, current, caller, logout, loginDone,
                   checks, signs>>

-----------------------------------------------------------------------------
(* The callers, the owner's buttons, and the account at the server. *)

\* The scheduler's tick or the owner's "check now".
Check(c) ==
    /\ c \notin LoginCallers
    /\ c = "scheduler" => st.authStatus \notin {"disconnected", "reauth_required"}
    /\ CheckNow(c)
    /\ UNCHANGED loginDone

\* The server is signed in to another account, or to none; a request under way
\* may be answered for it.
CodexBecomes(a) ==
    /\ codex' = a
    /\ tasks' = [t \in TaskIds |->
                    IF tasks[t].pc \in {"account", "limits", "confirm"}
                    THEN [tasks[t] EXCEPT !.seen = @ \cup {a}] ELSE tasks[t]]

\* A device login succeeds at the server, whatever checks are under way: its
\* waiter is about to run, or has lost the completion to another waiter.
SignIn(a) ==
    /\ signs < MaxSigns
    /\ CodexBecomes(a) /\ signs' = signs + 1
    /\ loginDone' \in {loginDone} \cup {loginDone \cup {l} : l \in LoginCallers}
    /\ UNCHANGED <<st, enabled, current, caller, cooling, logout, checks>>

\* LoginManager.wait on success: read the limits at once.
LoginCheck(l) ==
    /\ l \in loginDone
    /\ loginDone' = loginDone \ {l}
    /\ CheckNow(l)

\* The session ends at the server: expired, or signed out on another device.
SignedOutElsewhere ==
    /\ signs < MaxSigns
    /\ codex # None
    /\ CodexBecomes(None) /\ signs' = signs + 1
    /\ UNCHANGED <<st, enabled, current, caller, cooling, logout, loginDone, checks>>

\* "Sign out of Codex", confirmed: the handler calls account/logout.
LogoutRequest ==
    /\ logout = "none"
    /\ signs < MaxSigns
    /\ logout' = "sent" /\ signs' = signs + 1
    /\ UNCHANGED <<st, enabled, codex, tasks, current, caller, cooling, loginDone, checks>>

LogoutAtServer ==
    /\ logout = "sent"
    /\ logout' = "done" /\ CodexBecomes(None)
    /\ UNCHANGED <<st, enabled, current, caller, cooling, loginDone, checks, signs>>

\* The request failed; the server may or may not have carried it out.
LogoutFailed ==
    /\ logout # "none"
    /\ logout' = "none"
    /\ UNCHANGED <<st, enabled, codex, tasks, current, caller, cooling, loginDone,
                   checks, signs>>

ForgetAccount(s) ==
    [s EXCEPT !.account = None, !.authStatus = "disconnected", !.snapshot = None,
              !.creditBaseline = None, !.outbox = <<>>, !.authNotified = FALSE]

LogoutCommit ==
    /\ logout = "done"
    /\ logout' = "none"
    /\ st' = ForgetAccount(st)
    /\ UNCHANGED <<enabled, codex, tasks, current, caller, cooling, loginDone, checks, signs>>

\* A switch of the settings page.
ToggleNotification(type) ==
    /\ enabled' = IF type \in enabled THEN enabled \ {type} ELSE enabled \cup {type}
    /\ UNCHANGED <<st, codex, tasks, current, caller, cooling, logout, loginDone,
                   checks, signs>>

TaskStep(t) ==
    AccountReply(t) \/ LimitsReply(t) \/ ConfirmationDue(t) \/ ConfirmReply(t)

LogoutStep == LogoutAtServer \/ LogoutFailed \/ LogoutCommit

MonitorNext ==
    \/ \E c \in Callers : Check(c) \/ Resume(c)
    \/ \E t \in TaskIds : TaskStep(t)
    \/ \E a \in Accounts : SignIn(a)
    \/ \E type \in Switches : ToggleNotification(type)
    \/ \E l \in LoginCallers : LoginCheck(l)
    \/ SignedOutElsewhere \/ LogoutRequest \/ LogoutStep \/ CooldownEnds

\* An awaited request ends, by an answer or by its timeout; a ready coroutine runs.
MonitorFairness ==
    /\ \A t \in TaskIds : WF_monitorVars(TaskStep(t))
    /\ \A c \in Callers : WF_monitorVars(Resume(c))

MonitorSpec == MonitorInit /\ [][MonitorNext]_monitorVars /\ MonitorFairness

-----------------------------------------------------------------------------
(* What a check must never do. *)

\* One check at a time: _current names the only check in flight, and every
\* caller that awaits a check awaits one that is still running.  Two checks
\* at once would analyse the same change twice against the same snapshot.
SingleFlight ==
    /\ \A t \in TaskIds : InFlight(t) <=> current = t
    /\ \A c \in Callers : caller[c].task # None => InFlight(caller[c].task)

\* No comparison, credit baseline or queued notification ever mixes two
\* accounts, whatever logins, logouts and switches happen during a check
\* (monitor.py account_changed, the logout handler).
Isolated(s) ==
    /\ s.snapshot # None => s.snapshot.account = s.account
    /\ s.creditBaseline \in {None, s.account}
    /\ \A item \in Range(s.outbox) : \A e \in item.events : e.account \in {None, s.account}
AccountIsolation == Isolated(st)

\* An id stays unique in the deduplication list, so that an event is recorded
\* again only after DedupeLimit others have pushed it out; and the history
\* page shows exactly the newest of the remembered events.
RecordedOnce == Recorded(st)

\* While a check pauses or rereads, what it captured is still what is
\* recorded, unless a logout has forgotten it: no other check can have
\* committed in between (monitor.py:87-105).
CapturedIsCurrent ==
    \A t \in TaskIds : tasks[t].pc \in {"sleep", "confirm"} =>
        st.account = None \/ (/\ tasks[t].previous = st.snapshot
                              /\ tasks[t].baseline = st.creditBaseline)

\* The outage fields agree: an outage is open exactly from the first failure
\* to the next success, it is announced from the third on and not before.
OutageAgrees(s) ==
    /\ (s.failures = 0) <=> (s.outage = None)
    /\ s.outageNotified <=> s.failures >= 3
OutageConsistent == OutageAgrees(st)

\* "Monitoring recovered" is only recorded after "monitoring unavailable" for
\* the same outage, as long as the list still reaches back that far.
RecoveryFollowsOutage ==
    \A i \in DOMAIN st.dedupe :
        st.dedupe[i].type = "monitor_recovered" /\ Len(st.dedupe) < DedupeLimit =>
            \E j \in 1..(i - 1) : st.dedupe[j] = Unavailable(st.dedupe[i].key[1])

\* A step that replaces the snapshot by one with a later window records the
\* reset, or has it recorded before.  One reset is dropped without a notice:
\* the server was signed in to another account at some time during the second
\* read, and that read is discarded together with the verdict
\* (monitor.py:99-105).
SecondReadDoubtful(account) ==
    \E t \in TaskIds : tasks[t].pc = "confirm" /\ tasks[t].seen \ {account, None} # {}

ResetRecorded ==
    [][ LET from == st.snapshot to == st'.snapshot
        IN  from # None /\ to # None /\ Advanced(from, to) =>
              \/ {WindowReset(to.account, from.window, to.window),
                  WindowChangedEarly(to.account, from.window, to.window)}
                     \cap (Range(st.dedupe) \cup Range(st'.dedupe)) # {}
              \/ SecondReadDoubtful(to.account)
      ]_monitorVars

\* A reset that looks early is announced only by a check that saw it in two
\* reads with a pause between them (docs/architecture.md, "one confirmation
\* read").
EarlyNeedsSecondRead ==
    [][ \A e \in Range(st'.dedupe) \ Range(st.dedupe) :
          e.type = "significant_change" =>
            \E t \in TaskIds :
                /\ tasks[t].pc = "confirm"
                /\ Advanced(tasks[t].previous, tasks[t].snapshot)
                /\ tasks[t].previous.window = e.key[1]
      ]_monitorVars

\* Every call of check_now returns, the joined ones included.
CheckReturns == \A c \in Callers : caller[c] # Idle ~> caller[c] = Idle

-----------------------------------------------------------------------------
(* What the documents promise and the code does not keep. *)

\* docs/installation.md:57: logout clears the comparisons and the queued
\* notifications of the account.  Until somebody signs in again, nothing
\* brings them back.
LogoutForgets ==
    [][ st.account = None /\ st.authStatus = "disconnected" /\ codex = None
          => st'.account = None ]_monitorVars

\* models.py:215: auth_required_notified says that the owner was told that the
\* sign-in is needed: when it is set, a notice enters the outbox.
SignOutAnnounced ==
    [][ ~st.authNotified /\ st'.authNotified =>
          \E item \in Range(st'.outbox) : AuthRequired(st'.account) \in item.events
      ]_monitorVars

\* README.md:72: after a successful sign-in the bot saves the first observation
\* and starts monitoring, which the scheduler does for connected accounts only.
LoginStartsMonitoring ==
    [][ \A l \in LoginCallers :
          caller[l].result = None /\ caller'[l].result \in {"recent", "updated"}
            => st'.authStatus = "connected" ]_monitorVars
=============================================================================
