--------------------------------- MODULE Login ---------------------------------
(***************************************************************************)
(* login.LoginManager with the handlers of telegram_ui that drive it: a    *)
(* device login is asked for at the App Server, recorded as the pending    *)
(* login, shown to the owner, and waited for by a task of its own that     *)
(* takes notifications off one shared queue.  The buttons run at the same  *)
(* time: the owner may cancel, sign out and ask for another login while    *)
(* requests of earlier presses are under way.  start and cancel hold one   *)
(* lock across their requests; the waiters and the end of a logout change  *)
(* the pending login without it.                                           *)
(*                                                                         *)
(* Logins are numbered as the server starts them.  The server is external: *)
(* it ends a login with success or failure, or forgets it with its         *)
(* process; requests, messages and writes of the state fail at any time    *)
(* (modules Rpc and Storage say how they end).                             *)
(***************************************************************************)
EXTENDS Naturals, Sequences

CONSTANTS None,
          Handlers,    \* button handlers that run at the same time
          MaxLogins,   \* bound on the logins the server starts
          QueueLimit   \* capacity of the notification queue, 100 in the code
ASSUME HandlersAssumption == None \notin Handlers \cup Nat /\ Handlers \cap Nat = {}
ASSUME LimitsAssumption == MaxLogins \in Nat /\ QueueLimit \in Nat \ {0}

Logins == 1..MaxLogins
Tasks == Handlers \cup Logins    \* the waiter of a login is named by the login

VARIABLES pending,   \* state.pending_login
          started,   \* logins the server has started
          shown,     \* logins whose code reached the owner, with a cancel button
          task,      \* what each handler and each waiter is doing
          lock,      \* the holder of LoginManager._lock
          active,    \* logins the server waits for
          queue,     \* CodexAppServer._notifications
          told,      \* logins whose message says in the end that they succeeded
          granted,   \* logins that ended in success at the server
          reasons,   \* logins somebody ended, or whose end somebody asked for
          abandoned  \* logins whose handler or waiter died of a failure

\* What the properties look back on; the program keeps none of it.
history == <<told, granted, reasons, abandoned>>
loginVars == <<pending, started, shown, task, lock, active, queue, history>>

Pcs == {"idle", "startLock", "startAsk", "showing", "sent", "cancelLock", "cancelAsk",
        "logoutAsk", "waiting"}
Purposes == {"none", "login", "button", "logout", "expiry"}

\* `login' is the login the task is about, or None for any.
NoTask == [pc |-> "idle", login |-> None, purpose |-> "none"]
Task == [pc : Pcs, login : Logins \cup {None}, purpose : Purposes]
Doing(pc, login, purpose) == [pc |-> pc, login |-> login, purpose |-> purpose]

\* account/login/completed, which need not name its login, or a notification of
\* another kind.
Completion(login, success) == [completed |-> TRUE, login |-> login, success |-> success]
OtherKind == [completed |-> FALSE, login |-> None, success |-> FALSE]
Note == [completed : BOOLEAN, login : Logins \cup {None}, success : BOOLEAN]

LoginTypeOK ==
    /\ started \in 0..MaxLogins
    /\ pending \in (1..started) \cup {None}
    /\ shown \subseteq 1..started /\ active \subseteq 1..started
    /\ granted \subseteq 1..started /\ reasons \subseteq 1..started /\ told \subseteq shown
    /\ abandoned \subseteq 1..started
    /\ task \in [Tasks -> Task]
    /\ lock \in Tasks \cup {None}
    /\ lock # None => task[lock].pc \in {"startAsk", "cancelAsk"}
    /\ queue \in Seq(Note) /\ Len(queue) <= QueueLimit

LoginInit ==
    /\ pending = None /\ started = 0 /\ shown = {} /\ active = {}
    /\ task = [t \in Tasks |-> NoTask] /\ lock = None /\ queue = << >>
    /\ told = {} /\ granted = {} /\ reasons = {} /\ abandoned = {}

Becomes(t, state) == task' = [task EXCEPT ![t] = state]

\* Mutant of Cleared: whatever is pending is cleared.
ClearedAny(login) == None

\* _clear: only the login that is meant.
Cleared(login) == IF pending = login THEN None ELSE pending

-----------------------------------------------------------------------------
(* The connect button: start, then the message with the code *)

PressLogin(h) ==
    /\ task[h].pc = "idle"
    /\ Becomes(h, Doing("startLock", None, "login"))
    /\ UNCHANGED <<pending, started, shown, lock, active, queue, history>>

\* Mutant of Startable: a login is started beside one that is pending.
StartableAlways == TRUE

Startable == pending = None

StartLocked(h) ==
    /\ task[h].pc = "startLock" /\ lock = None
    /\ IF Startable THEN lock' = h /\ Becomes(h, Doing("startAsk", None, "login"))
       ELSE UNCHANGED lock /\ Becomes(h, NoTask)
    /\ UNCHANGED <<pending, started, shown, active, queue, history>>

StartAnswered(h) ==
    /\ task[h].pc = "startAsk" /\ started < MaxLogins
    /\ started' = started + 1
    /\ active' = active \cup {started + 1}
    /\ pending' = started + 1
    /\ lock' = None /\ Becomes(h, Doing("showing", started + 1, "login"))
    /\ UNCHANGED <<shown, queue, history>>

\* The request fails, its answer is not a complete device login, or the pending
\* login cannot be written; the server may have started one all the same.
StartFails(h) ==
    /\ task[h].pc = "startAsk"
    /\ \/ UNCHANGED <<started, active>>
       \/ /\ started < MaxLogins
          /\ started' = started + 1 /\ active' = active \cup {started + 1}
    /\ lock' = None /\ Becomes(h, NoTask)
    /\ UNCHANGED <<pending, shown, queue, history>>

\* Telegram takes the message with the code.
Show(h) ==
    /\ task[h].pc = "showing"
    /\ shown' = shown \cup {task[h].login}
    /\ Becomes(h, Doing("sent", task[h].login, "login"))
    /\ UNCHANGED <<pending, started, lock, active, queue, history>>

\* Its answer arrives, the place of the message is written, and the waiter is
\* created.
Attached(h) ==
    /\ task[h].pc = "sent"
    /\ task' = [task EXCEPT ![h] = NoTask,
                            ![task[h].login] = Doing("waiting", task[h].login, "none")]
    /\ UNCHANGED <<pending, started, shown, lock, active, queue, history>>

\* Telegram refuses the message, its answer is lost, or the place of the message
\* cannot be written: the exception ends the handler before there is a waiter.
ShowFails(h) ==
    /\ task[h].pc \in {"showing", "sent"}
    /\ Becomes(h, NoTask)
    /\ abandoned' = abandoned \cup {task[h].login}
    /\ UNCHANGED <<pending, started, shown, lock, active, queue, told, granted, reasons>>

-----------------------------------------------------------------------------
(* cancel, for the button of a login, a logout and a login that expired *)

\* cancel_by_tag: the tag names one login.
PressCancel(h) ==
    /\ task[h].pc = "idle"
    /\ \E l \in shown : /\ pending = l
                        /\ Becomes(h, Doing("cancelLock", l, "button"))
                        /\ reasons' = reasons \cup {l}
    /\ UNCHANGED <<pending, started, shown, lock, active, queue, told, granted, abandoned>>

\* The logout button: cancel whatever is pending, then sign out.
PressLogout(h) ==
    /\ task[h].pc = "idle"
    /\ Becomes(h, Doing("cancelLock", None, "logout"))
    /\ UNCHANGED <<pending, started, shown, lock, active, queue, history>>

\* What the caller of cancel does when it returns.
AfterCancel(t) ==
    IF task[t].purpose = "logout" THEN Doing("logoutAsk", None, "logout") ELSE NoTask

CancelLocked(t) ==
    /\ task[t].pc = "cancelLock" /\ lock = None
    /\ IF pending # None /\ task[t].login \in {None, pending}
       THEN /\ lock' = t /\ Becomes(t, Doing("cancelAsk", pending, task[t].purpose))
            /\ reasons' = reasons \cup {pending}
       ELSE /\ Becomes(t, AfterCancel(t)) /\ UNCHANGED <<lock, reasons>>
    /\ UNCHANGED <<pending, started, shown, active, queue, told, granted, abandoned>>

\* Mutants of Full: off by one; no bound.
FullEarly == Len(queue) >= QueueLimit - 1
FullNever == FALSE

Full == Len(queue) = QueueLimit

\* The oldest notification makes room for a new one.
Noted(note) == IF Full THEN Append(Tail(queue), note) ELSE Append(queue, note)

\* The server ends a login it is asked to cancel, and may announce that.
Withdrawn(l) ==
    /\ active' = active \ {l}
    /\ queue' \in {queue} \cup {Noted(Completion(name, FALSE)) : name \in {l, None}}

CancelAnswered(t) ==
    /\ task[t].pc = "cancelAsk"
    /\ Withdrawn(task[t].login)
    /\ pending' = Cleared(task[t].login)
    /\ lock' = None /\ Becomes(t, AfterCancel(t))
    /\ UNCHANGED <<started, shown, history>>

\* Mutant of ClearedOnFailure: a login is cleared only when the server agreed.
ClearedOnSuccess(login) == pending

ClearedOnFailure(login) == Cleared(login)

\* The request fails, carried out or not: the login is cleared, and the
\* exception ends the handler or the waiter.
CancelFails(t) ==
    /\ task[t].pc = "cancelAsk"
    /\ UNCHANGED <<active, queue>> \/ Withdrawn(task[t].login)
    /\ pending' = ClearedOnFailure(task[t].login)
    /\ lock' = None /\ Becomes(t, NoTask)
    /\ UNCHANGED <<started, shown, history>>

\* The write that clears the login fails, after an answer or a failure.
ClearFails(t) ==
    /\ task[t].pc = "cancelAsk"
    /\ UNCHANGED <<active, queue>> \/ Withdrawn(task[t].login)
    /\ lock' = None /\ Becomes(t, NoTask)
    /\ abandoned' = IF t \in Logins THEN abandoned \cup {t} ELSE abandoned
    /\ UNCHANGED <<pending, started, shown, told, granted, reasons>>

\* account/logout succeeded; the commit clears whatever is pending by now.
LogoutAnswered(h) ==
    /\ task[h].pc = "logoutAsk"
    /\ pending' = None
    /\ reasons' = IF pending = None THEN reasons ELSE reasons \cup {pending}
    /\ Becomes(h, NoTask)
    /\ UNCHANGED <<started, shown, lock, active, queue, told, granted, abandoned>>

\* The request fails, or the commit after it.
LogoutFails(h) ==
    /\ task[h].pc = "logoutAsk"
    /\ Becomes(h, NoTask)
    /\ UNCHANGED <<pending, started, shown, lock, active, queue, history>>

-----------------------------------------------------------------------------
(* The waiter of a login *)

\* Mutant of Concerns: a completion is taken whichever login it is about.
ConcernsAny(note, l) == note.completed

Concerns(note, l) == note.completed /\ note.login \in {l, None}

\* next_notification takes one notification off the queue that all waiters
\* share.  One that is not about its login is gone; one that is ends the login,
\* and the owner reads of a success unless a write or the check after it fails.
\* Two failing writes end the waiter with its login still pending.
TakeNote(l) ==
    /\ task[l].pc = "waiting" /\ queue # << >>
    /\ queue' = Tail(queue)
    /\ \/ /\ ~Concerns(Head(queue), l)
          /\ UNCHANGED <<pending, task, told, abandoned>>
       \/ /\ Concerns(Head(queue), l) /\ Becomes(l, NoTask)
          /\ \/ /\ pending' = Cleared(l)
                /\ told' = told \/ (Head(queue).success /\ told' = told \cup {l})
                /\ UNCHANGED abandoned
             \/ /\ abandoned' = abandoned \cup {l}
                /\ UNCHANGED <<pending, told>>
    /\ UNCHANGED <<started, shown, lock, active, granted, reasons>>

\* Mutant of Expires: a login is waited for until something is heard of it.
ExpiresNever(l) == FALSE

Expires(l) == task[l].pc = "waiting"

WaitTimesOut(l) ==
    /\ Expires(l)
    /\ Becomes(l, Doing("cancelLock", l, "expiry"))
    /\ reasons' = reasons \cup {l}
    /\ UNCHANGED <<pending, started, shown, lock, active, queue, told, granted, abandoned>>

-----------------------------------------------------------------------------
(* The server, and a restart of the program *)

ServerEndsLogin(l) ==
    /\ l \in active /\ active' = active \ {l}
    /\ reasons' = reasons \cup {l}
    /\ \E success \in BOOLEAN, name \in {l, None} :
        /\ queue' = Noted(Completion(name, success))
        /\ granted' = IF success THEN granted \cup {l} ELSE granted
    /\ UNCHANGED <<pending, started, shown, task, lock, told, abandoned>>

\* The child is replaced: the logins of the old one are gone.
ServerForgets ==
    /\ active # {} /\ active' = {}
    /\ UNCHANGED <<pending, started, shown, task, lock, queue, history>>

OtherNote ==
    /\ queue' = Noted(OtherKind)
    /\ UNCHANGED <<pending, started, shown, task, lock, active, history>>

\* recover_interrupted clears what the last run left pending.
Restart ==
    /\ pending' = None
    /\ reasons' = IF pending = None THEN reasons ELSE reasons \cup {pending}
    /\ task' = [t \in Tasks |-> NoTask] /\ lock' = None
    /\ active' = {} /\ queue' = << >>
    /\ UNCHANGED <<started, shown, told, granted, abandoned>>

RequestStep(t) == CancelAnswered(t) \/ CancelFails(t) \/ ClearFails(t)
HandlerStep(h) ==
    \/ StartLocked(h) \/ StartAnswered(h) \/ StartFails(h) \/ Show(h) \/ Attached(h)
    \/ ShowFails(h) \/ LogoutAnswered(h) \/ LogoutFails(h)

LoginNext ==
    \/ \E h \in Handlers : PressLogin(h) \/ PressCancel(h) \/ PressLogout(h) \/ HandlerStep(h)
    \/ \E t \in Tasks : CancelLocked(t) \/ RequestStep(t)
    \/ \E l \in Logins : TakeNote(l) \/ WaitTimesOut(l) \/ ServerEndsLogin(l)
    \/ ServerForgets \/ OtherNote \/ Restart

\* Requests end (Rpc!RequestsEnd), and only the holder of the lock cancels; the
\* timeout of a waiter fires; and the lock is handed on in the order it was asked
\* for, so no waiter is passed over for ever.
LoginFairness ==
    /\ \A h \in Handlers : WF_loginVars(HandlerStep(h))
    /\ WF_loginVars(\E t \in Tasks : RequestStep(t))
    /\ \A l \in Logins : WF_loginVars(WaitTimesOut(l)) /\ SF_loginVars(CancelLocked(l))

LoginSpec == LoginInit /\ [][LoginNext]_loginVars /\ LoginFairness

-----------------------------------------------------------------------------

\* The waiter of l is about to take a completion that names no login.
UnnamedFor(l) ==
    task[l].pc = "waiting" /\ queue # << >> /\ Head(queue).completed /\ Head(queue).login = None

\* A login ends because it succeeded or failed at the server, expired, was
\* cancelled by its own button, or fell to a logout or a restart; never because
\* another login was started, or a late waiter or an old button of another
\* login ran (tests/test_monitor_login.py:117; login.py:152-156).  The one
\* exception: its waiter takes a completion without a loginId, which may be the
\* end of another login (login.py:112).
EndedForAReason ==
    [][\A l \in Logins :
          pending = l /\ pending' # l => l \in reasons' \/ UnnamedFor(l)]_loginVars

\* Whatever fails or interferes, somebody still looks after the pending login:
\* the handler that shows it, its waiter, or the cancel of the waiter; only a
\* login whose handler or waiter died of a failure of Telegram or of the disk is
\* left to its button, a logout or a restart (telegram_ui.py:753-783;
\* login.py:126-132,143).
PendingIsWatched ==
    pending # None =>
        \/ \E h \in Handlers : task[h].pc \in {"showing", "sent"} /\ task[h].login = pending
        \/ task[pending].pc \in {"waiting", "cancelLock", "cancelAsk"}
        \/ pending \in abandoned

\* The owner reads "connected" only for a login that succeeded at the server,
\* however many logins were tried; or on a completion without a loginId, and
\* then another login did (login.py:107-112).
ToldTheTruth ==
    [][\A l \in told' \ told : l \in granted \/ (UnnamedFor(l) /\ granted # {})]_loginVars

NoteWaits(l) == \E i \in DOMAIN queue : queue[i].login = l

\* The completion of the pending login, while its waiter waits for it, is lost
\* only to the waiter a cancelled login has left behind, or to a full queue
\* (codex_rpc.py:243-245,297).
SwallowedOnlyByStale ==
    [][\A l \in Logins :
          /\ pending = l /\ NoteWaits(l) /\ ~NoteWaits(l)'
          /\ task[l].pc = "waiting" /\ task'[l].pc = "waiting"
          => \/ Len(queue) = QueueLimit
             \/ \E k \in Logins \ {l} : task[k].pc = "waiting"]_loginVars

\* Every pending login makes room for the next one in the end, also when the
\* server forgets it, its completion is swallowed and its cancellation fails,
\* unless its handler or waiter died of a failure (login.py:72-73,125-132,142-143).
PendingEnds == []<>(pending = None \/ pending \in abandoned)
=============================================================================
