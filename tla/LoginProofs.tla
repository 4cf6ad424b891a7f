------------------------------ MODULE LoginProofs ------------------------------
(***************************************************************************)
(* The pending login, for any number of handlers and logins and any length *)
(* of the queue.                                                           *)
(*                                                                         *)
(* The properties need to know who may touch the pending login: the holder *)
(* of the lock is the one task that asks the server, it starts a login     *)
(* only while none is pending, and it cancels one only after somebody      *)
(* asked; the waiter of a login is created once, by the one handler that   *)
(* shows the login; and what a notification says of a login it names is    *)
(* true.                                                                   *)
(***************************************************************************)
EXTENDS Login, TLAPS

USE DEF history

Asking == {"startAsk", "cancelAsk"}
Displaying == {"showing", "sent"}

\* One task at a time is in a request of start or cancel.
LockHeld ==
    /\ \A t \in Tasks : task[t].pc \in Asking <=> lock = t
    /\ \A h \in Handlers : task[h].pc = "startAsk" => pending = None

\* One handler shows a login, and no waiter of it exists before it is done.
Showing ==
    \A h \in Handlers : task[h].pc \in Displaying =>
        /\ task[h].login \in 1..started
        /\ task[h].pc = "sent" => task[h].login \in shown
        /\ task[task[h].login].pc = "idle"
        /\ \A g \in Handlers :
              task[g].pc \in Displaying /\ task[g].login = task[h].login => g = h

\* The waiter of a login waits for it, or cancels it.
Waiters ==
    \A l \in Logins :
        /\ task[l].pc \in {"idle", "waiting", "cancelLock", "cancelAsk"}
        /\ task[l].pc # "idle" => l \in shown /\ task[l].login = l
        /\ task[l].purpose # "logout"

\* A request to cancel is about a login somebody wanted to end.
Cancels == \A t \in Tasks : task[t].pc = "cancelAsk" => task[t].login \in reasons

\* A handler does not wait.
HandlersDo == \A h \in Handlers : task[h].pc # "waiting"

\* What a notification says of the login it names is true, and some login
\* succeeded when one without a name says so.
TrueNote(note) ==
    /\ note.login # None =>
          /\ note.completed /\ note.login \in reasons
          /\ note.success => note.login \in granted
    /\ note.completed /\ note.success => granted # {}
NotesTrue == \A i \in DOMAIN queue : TrueNote(queue[i])

LoginInv ==
    /\ LoginTypeOK /\ LockHeld /\ Showing /\ Waiters /\ Cancels /\ HandlersDo
    /\ NotesTrue /\ PendingIsWatched

LEMMA NotedTyped ==
    ASSUME queue \in Seq(Note), Len(queue) <= QueueLimit, NEW note \in Note
    PROVE  /\ Noted(note) \in Seq(Note) /\ Len(Noted(note)) <= QueueLimit
           /\ \A i \in DOMAIN Noted(note) :
                 Noted(note)[i] = note \/ \E j \in DOMAIN queue : Noted(note)[i] = queue[j]
BY LimitsAssumption DEF Noted, Full

LEMMA TailTyped ==
    ASSUME queue \in Seq(Note), Len(queue) <= QueueLimit, queue # << >>
    PROVE  /\ Head(queue) \in Note /\ 1 \in DOMAIN queue /\ Head(queue) = queue[1]
           /\ Tail(queue) \in Seq(Note) /\ Len(Tail(queue)) <= QueueLimit
           /\ \A i \in DOMAIN Tail(queue) : i + 1 \in DOMAIN queue /\ Tail(queue)[i] = queue[i + 1]
BY LimitsAssumption

\* What Becomes means for one task and for all others.
LEMMA Becoming ==
    ASSUME LoginTypeOK, NEW t \in Tasks, NEW x \in Task, Becomes(t, x)
    PROVE  /\ task' \in [Tasks -> Task] /\ task'[t] = x
           /\ \A s \in Tasks : s # t => task'[s] = task[s]
BY DEF LoginTypeOK, Becomes

LEMMA TasksApart ==
    /\ \A h \in Handlers : h \in Tasks /\ h \notin Nat /\ h # None
    /\ \A l \in Logins : l \in Tasks /\ l \in Nat /\ l # None
    /\ None \notin Nat /\ None \notin Tasks
BY HandlersAssumption, LimitsAssumption DEF Tasks, Logins

LEMMA Numbered ==
    ASSUME LoginTypeOK
    PROVE  /\ 1..started \subseteq Logins /\ shown \subseteq Logins
           /\ pending \in Logins \cup {None} /\ started \in Nat
BY LimitsAssumption DEF LoginTypeOK, Logins

LEMMA InitInv == LoginInit => LoginInv
BY HandlersAssumption, LimitsAssumption
DEF LoginInit, LoginInv, LoginTypeOK, LockHeld, Showing, Waiters, Cancels, HandlersDo,
    NotesTrue, PendingIsWatched, Tasks, Task, NoTask, Pcs, Purposes, Logins, Asking,
    Displaying

\* A task turns to something that neither asks nor shows nor waits, and gives
\* the lock back if it held it; a login that nobody looks after any more is
\* abandoned or no longer pending.
LEMMA TurnsInv ==
    ASSUME LoginInv, NEW t \in Tasks, NEW x \in Task, Becomes(t, x),
           x.pc \notin Asking \cup Displaying \cup {"waiting"},
           t \in Logins =>
               /\ x.pc \in {"idle", "cancelLock"} /\ x.purpose # "logout"
               /\ x.pc = "idle" => pending' # t \/ t \in abandoned'
               /\ x.pc # "idle" => task[t].pc # "idle" /\ x.login = t,
           t \in Handlers /\ task[t].pc \in Displaying => task[t].login \in abandoned',
           lock' = IF lock = t THEN None ELSE lock,
           pending' \in {pending, None},
           started' \in Nat, started <= started', started' <= MaxLogins,
           UNCHANGED <<shown, granted>>, active' \subseteq 1..started', told' \subseteq shown,
           reasons \subseteq reasons', reasons' \subseteq 1..started,
           abandoned \subseteq abandoned', abandoned' \subseteq 1..started,
           queue' \in Seq(Note), Len(queue') <= QueueLimit, NotesTrue'
    PROVE  LoginInv'
<1> USE TasksApart, Numbered DEF LoginInv
<1>1. /\ task' \in [Tasks -> Task] /\ task'[t] = x
      /\ \A s \in Tasks : s # t => task'[s] = task[s]
  BY Becoming
<1>2. LoginTypeOK'
  <2>1. lock' # None => task'[lock'].pc \in Asking
    BY <1>1 DEF LoginTypeOK, Asking
  <2>2. 1..started \subseteq 1..started' /\ started' \in 0..MaxLogins
    BY LimitsAssumption DEF LoginTypeOK
  <2>3. pending' \in (1..started') \cup {None}
    BY <2>2 DEF LoginTypeOK
  <2>4. /\ shown' \subseteq 1..started' /\ active' \subseteq 1..started'
        /\ granted' \subseteq 1..started' /\ reasons' \subseteq 1..started'
        /\ told' \subseteq shown' /\ abandoned' \subseteq 1..started'
    BY <2>2 DEF LoginTypeOK
  <2>5. lock' \in Tasks \cup {None}
    BY DEF LoginTypeOK
  <2> QED  BY <1>1, <2>1, <2>2, <2>3, <2>4, <2>5 DEF LoginTypeOK, Asking
<1>3. LockHeld'  BY <1>1 DEF LockHeld, Asking
<1>4. Showing'
  <2>1. ASSUME NEW h \in Handlers, task'[h].pc \in Displaying
        PROVE  task'[h] = task[h] /\ task[h].login \in Logins
    BY <1>1, <2>1 DEF Showing
  <2>2. ASSUME NEW l \in Logins, task[l].pc = "idle" PROVE task'[l].pc = "idle"
    BY <1>1, <2>2
  <2>3. 1..started \subseteq 1..started'
    BY DEF LoginTypeOK
  <2> QED  BY <2>1, <2>2, <2>3 DEF Showing
<1>5. HandlersDo' /\ Waiters'
  <2>1. HandlersDo'  BY <1>1 DEF HandlersDo
  <2>2. Waiters'  BY <1>1 DEF Waiters
  <2> QED  BY <2>1, <2>2
<1>6. Cancels'  BY <1>1 DEF Cancels, Asking
<1>7. PendingIsWatched'
  <2> SUFFICES ASSUME pending' # None, pending' \notin abandoned'
               PROVE  \/ \E h \in Handlers :
                            task'[h].pc \in {"showing", "sent"} /\ task'[h].login = pending'
                      \/ task'[pending'].pc \in {"waiting", "cancelLock", "cancelAsk"}
    BY DEF PendingIsWatched
  <2>1. pending' = pending /\ pending \in Logins /\ pending \notin abandoned
    OBVIOUS
  <2>2. CASE \E h \in Handlers :
                 task[h].pc \in {"showing", "sent"} /\ task[h].login = pending
    <3>1. PICK h \in Handlers :
              task[h].pc \in {"showing", "sent"} /\ task[h].login = pending
      BY <2>2
    <3>2. h # t  BY <2>1, <3>1 DEF Displaying
    <3>3. task'[h] = task[h]  BY <1>1, <3>2
    <3> QED  BY <2>1, <3>1, <3>3
  <2>3. CASE task[pending].pc \in {"waiting", "cancelLock", "cancelAsk"}
    BY <1>1, <2>1, <2>3
  <2> QED  BY <2>1, <2>2, <2>3 DEF PendingIsWatched
<1> QED  BY <1>2, <1>3, <1>4, <1>5, <1>6, <1>7

\* The same for a task that shows nothing, when no login starts.
LEMMA WorkerTurnsInv ==
    ASSUME LoginInv, NEW t \in Tasks, NEW x \in Task, Becomes(t, x),
           task[t].pc \notin Displaying,
           x.pc \notin Asking \cup Displaying \cup {"waiting"},
           t \in Logins =>
               /\ x.pc \in {"idle", "cancelLock"} /\ x.purpose # "logout"
               /\ x.pc = "idle" => pending' # t \/ t \in abandoned'
               /\ x.pc # "idle" => task[t].pc # "idle" /\ x.login = t,
           lock' = IF lock = t THEN None ELSE lock,
           pending' \in {pending, None},
           UNCHANGED <<started, shown, granted>>, active' \subseteq active,
           told' \subseteq shown,
           reasons \subseteq reasons', reasons' \subseteq 1..started,
           abandoned \subseteq abandoned', abandoned' \subseteq 1..started,
           queue' \in Seq(Note), Len(queue') <= QueueLimit, NotesTrue'
    PROVE  LoginInv'
<1>1. /\ started' \in Nat /\ started <= started' /\ started' <= MaxLogins
      /\ active' \subseteq 1..started'
  BY LimitsAssumption DEF LoginInv, LoginTypeOK
<1> QED  BY <1>1, TurnsInv

LEMMA HandlerTurnsInv ==
    ASSUME LoginInv, NEW h \in Handlers,
           \/ PressLogin(h) \/ PressCancel(h) \/ PressLogout(h) \/ StartFails(h)
           \/ ShowFails(h) \/ LogoutAnswered(h) \/ LogoutFails(h)
           \/ StartLocked(h) /\ ~Startable
    PROVE  LoginInv'
<1> USE TasksApart, Numbered DEF LoginInv
<1>1. PICK x \in Task :
          /\ Becomes(h, x) /\ x.pc \in {"idle", "startLock", "cancelLock"}
          /\ UNCHANGED <<shown, queue, told, granted>>
  <2>1. /\ NoTask \in Task /\ Doing("startLock", None, "login") \in Task
        /\ Doing("cancelLock", None, "logout") \in Task
        /\ \A k \in shown : Doing("cancelLock", k, "button") \in Task
    BY DEF NoTask, Doing, Task, Pcs, Purposes
  <2> QED
    BY <2>1 DEF PressLogin, PressCancel, PressLogout, StartFails, ShowFails, LogoutAnswered,
                LogoutFails, StartLocked, NoTask, Doing
<1>2. lock' = IF lock = h THEN None ELSE lock
  BY DEF PressLogin, PressCancel, PressLogout, StartFails, ShowFails, LogoutAnswered,
         LogoutFails, StartLocked, LockHeld, Asking
<1>3. /\ reasons \subseteq reasons' /\ reasons' \subseteq 1..started
      /\ pending' \in {pending, None}
  BY DEF PressLogin, PressCancel, PressLogout, StartFails, ShowFails, LogoutAnswered,
         LogoutFails, StartLocked, LoginTypeOK
<1>4. queue' \in Seq(Note) /\ Len(queue') <= QueueLimit /\ told' \subseteq shown
  BY <1>1 DEF LoginTypeOK
<1>5. NotesTrue'  BY <1>1, <1>3 DEF NotesTrue, TrueNote
<1>6. /\ started' \in Nat /\ started <= started' /\ started' <= MaxLogins
      /\ active' \subseteq 1..started'
  <2>1. /\ started \in Nat /\ started <= MaxLogins /\ MaxLogins \in Nat
        /\ active \subseteq 1..started
    BY LimitsAssumption DEF LoginTypeOK
  <2>2. CASE UNCHANGED <<started, active>>  BY <2>1, <2>2
  <2>3. CASE /\ started < MaxLogins
             /\ started' = started + 1 /\ active' = active \cup {started + 1}
    BY <2>1, <2>3
  <2> QED
    BY <2>2, <2>3 DEF PressLogin, PressCancel, PressLogout, StartFails, ShowFails,
                      LogoutAnswered, LogoutFails, StartLocked
<1>7. /\ abandoned \subseteq abandoned' /\ abandoned' \subseteq 1..started
      /\ task[h].pc \in Displaying => task[h].login \in abandoned'
  <2>1. CASE ShowFails(h)
    BY <2>1 DEF ShowFails, LoginTypeOK, Showing, Displaying
  <2>2. CASE ~ShowFails(h)
    <3>1. abandoned' = abandoned /\ task[h].pc \notin Displaying
      BY <2>2 DEF PressLogin, PressCancel, PressLogout, StartFails, LogoutAnswered, LogoutFails,
                  StartLocked, Displaying
    <3> QED  BY <3>1 DEF LoginTypeOK
  <2> QED  BY <2>1, <2>2
<1>8. h \in Tasks /\ h \notin Logins /\ x.pc \notin Asking \cup Displaying \cup {"waiting"}
  BY <1>1 DEF Asking, Displaying
<1> QED  BY <1>1, <1>2, <1>3, <1>4, <1>5, <1>6, <1>7, <1>8, TurnsInv

\* A login the server withdraws is announced, with its name or without, or not.
LEMMA WithdrawnNotes ==
    ASSUME LoginInv, NEW l \in Logins, l \in reasons,
           UNCHANGED <<active, queue>> \/ Withdrawn(l), UNCHANGED <<granted, reasons>>
    PROVE  /\ queue' \in Seq(Note) /\ Len(queue') <= QueueLimit /\ NotesTrue'
           /\ active' \subseteq active
<1> USE DEF LoginInv
<1>1. CASE queue' = queue
  BY <1>1 DEF LoginTypeOK, NotesTrue, TrueNote, Withdrawn
<1>2. ASSUME NEW name \in {l, None}, queue' = Noted(Completion(name, FALSE))
      PROVE  queue' \in Seq(Note) /\ Len(queue') <= QueueLimit /\ NotesTrue'
  <2> DEFINE note == Completion(name, FALSE)
  <2>1. note \in Note /\ TrueNote(note)
    BY DEF Completion, Note, TrueNote
  <2> HIDE DEF note
  <2>2. /\ queue' \in Seq(Note) /\ Len(queue') <= QueueLimit
        /\ \A i \in DOMAIN queue' :
              queue'[i] = note \/ \E j \in DOMAIN queue : queue'[i] = queue[j]
    BY <1>2, <2>1, NotedTyped DEF LoginTypeOK, note
  <2>3. \A i \in DOMAIN queue' : TrueNote(queue'[i])
    BY <2>1, <2>2 DEF NotesTrue
  <2> QED  BY <2>2, <2>3 DEF NotesTrue, TrueNote
<1> QED  BY <1>1, <1>2 DEF Withdrawn

\* The three ends of a request to cancel.
LEMMA CancelEndsInv ==
    ASSUME LoginInv, NEW t \in Tasks, RequestStep(t)
    PROVE  LoginInv'
<1> USE TasksApart, Numbered DEF LoginInv
<1>1. /\ task[t].pc = "cancelAsk" /\ lock = t /\ lock' = None
      /\ task[t].login \in reasons /\ reasons \subseteq 1..started
      /\ UNCHANGED <<started, shown, told, granted, reasons>>
  BY DEF RequestStep, CancelAnswered, CancelFails, ClearFails, LockHeld, Asking, Cancels,
         LoginTypeOK
<1>2. /\ queue' \in Seq(Note) /\ Len(queue') <= QueueLimit /\ NotesTrue'
      /\ active' \subseteq active
  BY <1>1, WithdrawnNotes DEF RequestStep, CancelAnswered, CancelFails, ClearFails
<1>3. PICK x \in {NoTask, AfterCancel(t)} : Becomes(t, x)
  BY DEF RequestStep, CancelAnswered, CancelFails, ClearFails
<1>4. /\ x \in Task /\ x.pc \in {"idle", "logoutAsk"}
      /\ t \in Logins => x.pc = "idle" /\ x.purpose = "none"
  BY DEF AfterCancel, Doing, NoTask, Task, Pcs, Purposes, Waiters
<1>5. /\ pending' \in {pending, None}
      /\ t \in Logins => pending' # t \/ t \in abandoned'
  BY <1>1 DEF RequestStep, CancelAnswered, CancelFails, ClearFails, ClearedOnFailure, Cleared,
              Waiters
<1>6. abandoned \subseteq abandoned' /\ abandoned' \subseteq 1..started
  BY <1>1 DEF RequestStep, CancelAnswered, CancelFails, ClearFails, Waiters, LoginTypeOK
<1> QED
  BY <1>1, <1>2, <1>3, <1>4, <1>5, <1>6, WorkerTurnsInv DEF LoginTypeOK, Asking, Displaying

LEMMA WaitTimesOutInv ==
    ASSUME LoginInv, NEW l \in Logins, WaitTimesOut(l)
    PROVE  LoginInv'
<1> USE TasksApart, Numbered DEF LoginInv
<1> DEFINE x == Doing("cancelLock", l, "expiry")
<1>1. /\ x \in Task /\ x.pc = "cancelLock" /\ x.purpose = "expiry" /\ x.login = l
  BY DEF Doing, Task, Pcs, Purposes
<1>2. /\ Becomes(l, x) /\ lock # l /\ task[l].pc = "waiting"
      /\ reasons' = reasons \cup {l} /\ l \in 1..started
      /\ UNCHANGED <<pending, started, shown, lock, active, queue, told, granted, abandoned>>
  BY DEF WaitTimesOut, Expires, LockHeld, Asking, Waiters, LoginTypeOK
<1>3. NotesTrue'  BY <1>2 DEF NotesTrue, TrueNote
<1> HIDE DEF x
<1> QED  BY <1>1, <1>2, <1>3, WorkerTurnsInv DEF LoginTypeOK, Asking, Displaying

\* start asks the server while nothing is pending.
LEMMA StartLockedInv ==
    ASSUME LoginInv, NEW h \in Handlers, StartLocked(h)
    PROVE  LoginInv'
<1> USE TasksApart, Numbered DEF LoginInv
<1>1. CASE ~Startable  BY <1>1, HandlerTurnsInv
<1>2. CASE Startable
  <2> DEFINE x == Doing("startAsk", None, "login")
  <2>1. x \in Task /\ x.pc = "startAsk"
    BY DEF Doing, Task, Pcs, Purposes
  <2>2. /\ Becomes(h, x) /\ pending = None /\ lock = None /\ lock' = h
        /\ task[h].pc = "startLock"
        /\ UNCHANGED <<pending, started, shown, active, queue, told, granted, reasons,
                       abandoned>>
    BY <1>2 DEF StartLocked, Startable
  <2> HIDE DEF x
  <2>3. /\ task' \in [Tasks -> Task] /\ task'[h] = x
        /\ \A s \in Tasks : s # h => task'[s] = task[s]
    BY <2>1, <2>2, Becoming
  <2>4. LoginTypeOK' /\ LockHeld'
    BY <2>1, <2>2, <2>3 DEF LoginTypeOK, LockHeld, Asking
  <2>5. Showing'
    BY <2>1, <2>2, <2>3 DEF Showing, Displaying
  <2>6. Waiters' /\ Cancels' /\ HandlersDo'
    BY <2>1, <2>2, <2>3 DEF Waiters, Cancels, HandlersDo
  <2>7. NotesTrue' /\ PendingIsWatched'
    BY <2>2 DEF NotesTrue, TrueNote, PendingIsWatched
  <2> QED  BY <2>4, <2>5, <2>6, <2>7
<1> QED  BY <1>1, <1>2

LEMMA StartAnsweredInv ==
    ASSUME LoginInv, NEW h \in Handlers, StartAnswered(h)
    PROVE  LoginInv'
<1> USE TasksApart, Numbered, LimitsAssumption DEF LoginInv
<1> DEFINE x == Doing("showing", started + 1, "login")
<1>1. x \in Task /\ x.pc = "showing" /\ x.login = started + 1
  BY DEF StartAnswered, Doing, Task, Pcs, Purposes, Logins
<1>2. /\ Becomes(h, x) /\ pending = None /\ lock = h /\ lock' = None
      /\ started' = started + 1 /\ started' <= MaxLogins
      /\ pending' = started + 1 /\ active' = active \cup {started + 1}
      /\ UNCHANGED <<shown, queue, told, granted, reasons, abandoned>>
  BY DEF StartAnswered, LockHeld, Asking
<1> HIDE DEF x
<1>3. /\ task' \in [Tasks -> Task] /\ task'[h] = x
      /\ \A s \in Tasks : s # h => task'[s] = task[s]
  BY <1>1, <1>2, Becoming
<1>4. LoginTypeOK'  BY <1>2, <1>3 DEF LoginTypeOK
<1>5. LockHeld'  BY <1>1, <1>2, <1>3 DEF LockHeld, Asking
<1>6. Showing'
  <2>1. /\ task'[h].pc = "showing" /\ task'[h].login = started + 1
        /\ shown' = shown /\ started' = started + 1
    BY <1>1, <1>2, <1>3
  <2>2. started \in Nat /\ shown \subseteq 1..started /\ started + 1 \in Logins
    BY <1>2 DEF LoginTypeOK, Logins
  <2>3. ASSUME NEW l \in Logins, task[l].pc = "idle" PROVE task'[l].pc = "idle"
    BY <1>3, <2>3
  <2>4. task'[started + 1].pc = "idle"
    BY <2>2, <2>3 DEF Waiters
  <2>5. ASSUME NEW g \in Handlers, g # h, task'[g].pc \in Displaying
        PROVE  /\ task'[g].login \in 1..started
               /\ task'[g].pc = "sent" => task'[g].login \in shown
               /\ task'[task'[g].login].pc = "idle"
               /\ \A f \in Handlers \ {h} :
                     task'[f].pc \in Displaying /\ task'[f].login = task'[g].login => f = g
    <3>1. task'[g] = task[g]  BY <1>3, <2>5
    <3>2. task[g].login \in 1..started /\ task[task[g].login].pc = "idle"
      BY <2>5, <3>1 DEF Showing
    <3>3. \A f \in Handlers \ {h} : task'[f] = task[f]  BY <1>3
    <3> QED  BY <2>3, <2>5, <3>1, <3>2, <3>3 DEF Showing
  <2>6. ASSUME NEW g \in Handlers, g # h, task'[g].pc \in Displaying
        PROVE  task'[g].login # started + 1
    BY <2>2, <2>5, <2>6
  <2>7. started + 1 \in 1..started' /\ 1..started \subseteq 1..started'
    BY <2>1, <2>2
  <2> QED  BY <2>1, <2>4, <2>5, <2>6, <2>7 DEF Showing, Displaying
<1>7. Waiters' /\ Cancels'
  BY <1>1, <1>2, <1>3 DEF Waiters, Cancels
<1>8. HandlersDo'  BY <1>1, <1>2, <1>3 DEF HandlersDo
<1>9. PendingIsWatched'  BY <1>1, <1>2, <1>3 DEF PendingIsWatched
<1>10. NotesTrue'  BY <1>2 DEF NotesTrue, TrueNote
<1> QED  BY <1>4, <1>5, <1>6, <1>7, <1>8, <1>9, <1>10

LEMMA CancelLockedInv ==
    ASSUME LoginInv, NEW t \in Tasks, CancelLocked(t)
    PROVE  LoginInv'
<1> USE TasksApart, Numbered DEF LoginInv
<1>1. task[t].pc = "cancelLock" /\ lock = None  BY DEF CancelLocked
<1>2. CASE ~(pending # None /\ task[t].login \in {None, pending})
  <2>1. /\ AfterCancel(t) \in Task /\ AfterCancel(t).pc \in {"idle", "logoutAsk"}
        /\ t \in Logins => AfterCancel(t) = NoTask
        /\ NoTask.pc = "idle" /\ NoTask.purpose = "none"
    BY DEF AfterCancel, Doing, NoTask, Task, Pcs, Purposes, Waiters
  <2>2. /\ Becomes(t, AfterCancel(t))
        /\ UNCHANGED <<pending, started, shown, lock, active, queue, told, granted, reasons,
                       abandoned>>
    BY <1>2 DEF CancelLocked
  <2>3. t \in Logins => pending # t  BY <1>1, <1>2 DEF Waiters
  <2>4. NotesTrue'  BY <2>2 DEF NotesTrue, TrueNote
  <2> QED
    BY <1>1, <2>1, <2>2, <2>3, <2>4, WorkerTurnsInv DEF LoginTypeOK, Asking, Displaying
<1>3. CASE pending # None /\ task[t].login \in {None, pending}
  <2> DEFINE x == Doing("cancelAsk", pending, task[t].purpose)
  <2>1. /\ x \in Task /\ x.pc = "cancelAsk" /\ x.login = pending
        /\ x.purpose = task[t].purpose
    BY <1>3 DEF Doing, Task, Pcs, LoginTypeOK
  <2>2. /\ Becomes(t, x) /\ lock' = t /\ reasons' = reasons \cup {pending}
        /\ UNCHANGED <<pending, started, shown, active, queue, told, granted, abandoned>>
    BY <1>3 DEF CancelLocked
  <2> HIDE DEF x
  <2>3. /\ task' \in [Tasks -> Task] /\ task'[t] = x
        /\ \A s \in Tasks : s # t => task'[s] = task[s]
    BY <2>1, <2>2, Becoming
  <2>4. LoginTypeOK' /\ LockHeld'
    BY <1>1, <1>3, <2>1, <2>2, <2>3 DEF LoginTypeOK, LockHeld, Asking
  <2>5. Showing'
    <3>1. ASSUME NEW g \in Handlers, task'[g].pc \in Displaying
          PROVE  task'[g] = task[g] /\ task[g].login \in Logins
      BY <2>1, <2>3, <3>1 DEF Showing, Displaying
    <3>2. ASSUME NEW l \in Logins, task[l].pc = "idle" PROVE task'[l].pc = "idle"
      BY <1>1, <2>3, <3>2
    <3> QED  BY <2>2, <3>1, <3>2 DEF Showing
  <2>6. Cancels' /\ HandlersDo'
    BY <2>1, <2>2, <2>3 DEF Cancels, HandlersDo
  <2>7. Waiters'
    BY <1>1, <1>3, <2>1, <2>2, <2>3 DEF Waiters
  <2>8. NotesTrue'  BY <2>2 DEF NotesTrue, TrueNote
  <2>9. PendingIsWatched'
    BY <1>1, <1>3, <2>1, <2>2, <2>3 DEF PendingIsWatched
  <2> QED  BY <2>4, <2>5, <2>6, <2>7, <2>8, <2>9
<1> QED  BY <1>2, <1>3

LEMMA ShowInv ==
    ASSUME LoginInv, NEW h \in Handlers, Show(h)
    PROVE  LoginInv'
<1> USE TasksApart, Numbered DEF LoginInv
<1> DEFINE x == Doing("sent", task[h].login, "login")
<1>1. /\ task[h].pc = "showing" /\ task[h].login \in 1..started /\ task[h].login \in Logins
      /\ task[task[h].login].pc = "idle"
  BY DEF Show, Showing, Displaying
<1>2. x \in Task /\ x.pc = "sent" /\ x.login = task[h].login
  BY <1>1 DEF Doing, Task, Pcs, Purposes
<1>3. /\ Becomes(h, x) /\ shown' = shown \cup {task[h].login}
      /\ UNCHANGED <<pending, started, lock, active, queue, told, granted, reasons, abandoned>>
  BY DEF Show
<1> HIDE DEF x
<1>4. /\ task' \in [Tasks -> Task] /\ task'[h] = x
      /\ \A s \in Tasks : s # h => task'[s] = task[s]
  BY <1>2, <1>3, Becoming
<1>5. LoginTypeOK' /\ LockHeld'
  BY <1>1, <1>2, <1>3, <1>4 DEF LoginTypeOK, LockHeld, Asking
<1>6. Showing'
  <2>1. \A g \in Handlers :
            /\ task'[g].login = task[g].login
            /\ task'[g].pc \in Displaying <=> task[g].pc \in Displaying
            /\ task'[g].pc = "sent" => task[g].pc = "sent" \/ g = h
    BY <1>1, <1>2, <1>4 DEF Displaying
  <2>2. \A l \in Logins : task'[l] = task[l]
    BY <1>4
  <2>3. \A g \in Handlers : task[g].pc \in Displaying => task[g].login \in Logins
    BY DEF Showing
  <2> QED  BY <1>3, <2>1, <2>2, <2>3 DEF Showing
<1>7. Waiters'  BY <1>3, <1>4 DEF Waiters
<1>8. Cancels' /\ HandlersDo'  BY <1>2, <1>3, <1>4 DEF Cancels, HandlersDo
<1>9. NotesTrue'  BY <1>3 DEF NotesTrue, TrueNote
<1>10. PendingIsWatched'
  <2>1. \A g \in Handlers : task[g].pc \in {"showing", "sent"} =>
            task'[g].pc \in {"showing", "sent"} /\ task'[g].login = task[g].login
    BY <1>2, <1>4
  <2>2. \A l \in Logins : task'[l] = task[l]
    BY <1>4
  <2> QED  BY <1>3, <2>1, <2>2 DEF PendingIsWatched
<1> QED  BY <1>5, <1>6, <1>7, <1>8, <1>9, <1>10

\* The handler is done, and the waiter exists from now on.
LEMMA AttachedInv ==
    ASSUME LoginInv, NEW h \in Handlers, Attached(h)
    PROVE  LoginInv'
<1> USE TasksApart, Numbered DEF LoginInv
<1> DEFINE k == task[h].login
           x == Doing("waiting", k, "none")
<1>1. /\ task[h].pc = "sent" /\ k \in Logins /\ k \in shown /\ task[k].pc = "idle"
      /\ \A g \in Handlers : task[g].pc \in Displaying /\ task[g].login = k => g = h
  BY DEF Attached, Showing, Displaying
<1>2. /\ x \in Task /\ x.pc = "waiting" /\ x.login = k /\ x.purpose = "none"
      /\ NoTask \in Task /\ NoTask.pc = "idle"
  BY <1>1 DEF Doing, NoTask, Task, Pcs, Purposes
<1>3. /\ task' \in [Tasks -> Task] /\ task'[h] = NoTask /\ task'[k] = x
      /\ \A s \in Tasks : s # h /\ s # k => task'[s] = task[s]
  BY <1>1, <1>2 DEF Attached, LoginTypeOK
<1>4. UNCHANGED <<pending, started, shown, lock, active, queue, told, granted, reasons,
                  abandoned>>
  BY DEF Attached
<1> HIDE DEF x, k
<1>5. lock # h /\ lock # k  BY <1>1 DEF LockHeld, Asking
<1>6. LoginTypeOK'
  <2>1. lock # None => task'[lock].pc \in Asking
    BY <1>3, <1>5 DEF LoginTypeOK, Asking
  <2> QED  BY <1>3, <1>4, <2>1 DEF LoginTypeOK, Asking
<1>7. LockHeld'
  BY <1>1, <1>2, <1>3, <1>4, <1>5 DEF LockHeld, Asking
<1>8. Showing'
  <2>1. ASSUME NEW g \in Handlers, task'[g].pc \in Displaying
        PROVE  /\ task'[g] = task[g] /\ task[g].login \in Logins
               /\ task'[task[g].login] = task[task[g].login]
    <3>1. g # h  BY <1>2, <1>3, <2>1 DEF Displaying
    <3>2. task'[g] = task[g]  BY <1>1, <1>3, <3>1
    <3>3. task[g].login \in Logins /\ task[g].login # k
      BY <1>1, <2>1, <3>1, <3>2 DEF Showing
    <3> QED  BY <1>3, <3>2, <3>3
  <2> QED  BY <1>4, <2>1 DEF Showing
<1>9. Waiters'  BY <1>1, <1>2, <1>3, <1>4 DEF Waiters
<1>10. Cancels' /\ HandlersDo'
  BY <1>1, <1>2, <1>3, <1>4 DEF Cancels, HandlersDo
<1>11. NotesTrue'  BY <1>4 DEF NotesTrue, TrueNote
<1>12. PendingIsWatched'
  <2> SUFFICES ASSUME pending # None, pending \notin abandoned, pending # k
               PROVE  \/ \E g \in Handlers :
                            task'[g].pc \in {"showing", "sent"} /\ task'[g].login = pending
                      \/ task'[pending].pc \in {"waiting", "cancelLock", "cancelAsk"}
    BY <1>2, <1>3, <1>4 DEF PendingIsWatched
  <2>1. CASE task[pending].pc \in {"waiting", "cancelLock", "cancelAsk"}
    BY <1>3, <2>1
  <2>2. ASSUME NEW g \in Handlers, task[g].pc \in {"showing", "sent"},
               task[g].login = pending
        PROVE  task'[g] = task[g]
    BY <1>1, <1>3, <2>2 DEF k
  <2> QED  BY <2>1, <2>2 DEF PendingIsWatched
<1> QED  BY <1>6, <1>7, <1>8, <1>9, <1>10, <1>11, <1>12

LEMMA TakeNoteInv ==
    ASSUME LoginInv, NEW l \in Logins, TakeNote(l)
    PROVE  LoginInv'
<1> USE TasksApart, Numbered DEF LoginInv
<1>1. queue' \in Seq(Note) /\ Len(queue') <= QueueLimit
  BY TailTyped DEF TakeNote, LoginTypeOK
<1>2. NotesTrue'
  BY TailTyped DEF TakeNote, LoginTypeOK, NotesTrue, TrueNote
<1>3. task[l].pc = "waiting" /\ l \in shown  BY DEF TakeNote, Waiters
<1>4. CASE ~Concerns(Head(queue), l)
  <2>1. UNCHANGED <<pending, task, told, started, shown, lock, active, granted, reasons,
                    abandoned>>
    BY <1>4 DEF TakeNote
  <2>2. LoginTypeOK'  BY <1>1, <2>1 DEF LoginTypeOK
  <2> QED
    BY <1>2, <2>1, <2>2
    DEF LockHeld, Showing, Waiters, Cancels, HandlersDo, PendingIsWatched
<1>5. CASE Concerns(Head(queue), l)
  <2>1. /\ Becomes(l, NoTask) /\ pending' \in {pending, None}
        /\ pending' # l \/ l \in abandoned'
        /\ told' \subseteq told \cup {l}
        /\ abandoned' \in {abandoned, abandoned \cup {l}}
        /\ UNCHANGED <<started, shown, lock, active, granted, reasons>>
    BY <1>5 DEF TakeNote, Cleared
  <2>2. NoTask \in Task /\ NoTask.pc = "idle" /\ NoTask.purpose = "none"
    BY DEF NoTask, Task, Pcs, Purposes
  <2>3. lock # l /\ l \in 1..started
    BY <1>3 DEF LockHeld, Asking, LoginTypeOK
  <2>4. told' \subseteq shown /\ abandoned \subseteq abandoned' /\ abandoned' \subseteq 1..started
    BY <1>3, <2>1, <2>3 DEF LoginTypeOK
  <2>5. /\ task[l].pc \notin Displaying /\ NoTask.pc \notin Asking \cup Displaying \cup {"waiting"}
        /\ lock' = IF lock = l THEN None ELSE lock
        /\ active' \subseteq active /\ reasons \subseteq reasons' /\ reasons' \subseteq 1..started
    BY <1>3, <2>1, <2>2, <2>3 DEF LoginTypeOK, Asking, Displaying
  <2> QED
    BY <1>1, <1>2, <2>1, <2>2, <2>4, <2>5, WorkerTurnsInv
<1> QED  BY <1>4, <1>5

\* A notification enters the queue, and nothing the tasks look at changes.
LEMMA NotifiedInv ==
    ASSUME LoginInv, NEW note \in Note, queue' = Noted(note), TrueNote(note)',
           UNCHANGED <<pending, started, shown, task, lock, told, abandoned>>,
           active' \subseteq active, reasons \subseteq reasons', granted \subseteq granted',
           reasons' \subseteq 1..started, granted' \subseteq 1..started
    PROVE  LoginInv'
<1> USE DEF LoginInv
<1>1. /\ queue' \in Seq(Note) /\ Len(queue') <= QueueLimit
      /\ \A i \in DOMAIN queue' :
            queue'[i] = note \/ \E j \in DOMAIN queue : queue'[i] = queue[j]
  BY NotedTyped DEF LoginTypeOK
<1>2. LoginTypeOK'  BY <1>1 DEF LoginTypeOK
<1>3. NotesTrue'
  <2>1. \A other : TrueNote(other) => TrueNote(other)'
    BY DEF TrueNote
  <2> QED  BY <1>1, <2>1 DEF NotesTrue
<1>4. LockHeld' /\ Showing' /\ Waiters'
  BY DEF LockHeld, Showing, Waiters
<1>5. Cancels' /\ HandlersDo' /\ PendingIsWatched'
  BY DEF Cancels, HandlersDo, PendingIsWatched
<1> QED  BY <1>1, <1>2, <1>3, <1>4, <1>5

LEMMA ServerInv ==
    ASSUME LoginInv, ServerForgets \/ OtherNote \/ \E l \in Logins : ServerEndsLogin(l)
    PROVE  LoginInv'
<1> USE DEF LoginInv
<1>1. CASE ServerForgets
  BY <1>1 DEF ServerForgets, LoginTypeOK, LockHeld, Showing, Waiters, Cancels, HandlersDo,
              NotesTrue, TrueNote, PendingIsWatched
<1>2. CASE OtherNote
  <2>1. OtherKind \in Note /\ TrueNote(OtherKind)'
    BY DEF OtherKind, Note, TrueNote
  <2> QED  BY <1>2, <2>1, NotifiedInv DEF OtherNote, LoginTypeOK
<1>3. ASSUME NEW l \in Logins, ServerEndsLogin(l) PROVE LoginInv'
  <2>1. PICK success \in BOOLEAN, name \in {l, None} :
            /\ queue' = Noted(Completion(name, success))
            /\ granted' = IF success THEN granted \cup {l} ELSE granted
    BY <1>3 DEF ServerEndsLogin
  <2>2. Completion(name, success) \in Note  BY DEF Completion, Note
  <2>3. /\ l \in 1..started /\ reasons' = reasons \cup {l} /\ active' \subseteq active
        /\ UNCHANGED <<pending, started, shown, task, lock, told, abandoned>>
    BY <1>3 DEF ServerEndsLogin, LoginTypeOK
  <2>4. TrueNote(Completion(name, success))'
    BY <2>1, <2>3 DEF TrueNote, Completion
  <2>5. reasons' \subseteq 1..started /\ granted' \subseteq 1..started /\ granted \subseteq granted'
    BY <2>1, <2>3 DEF LoginTypeOK
  <2> QED
    BY <2>1, <2>2, <2>3, <2>4, <2>5, NotifiedInv
<1> QED  BY <1>1, <1>2, <1>3

LEMMA RestartInv ==
    ASSUME LoginInv, Restart
    PROVE  LoginInv'
<1> USE TasksApart, Numbered, LimitsAssumption DEF LoginInv
<1>1. /\ task' \in [Tasks -> Task] /\ \A s \in Tasks : task'[s] = NoTask
  BY DEF Restart, NoTask, Task, Pcs, Purposes
<1>2. LoginTypeOK'
  <2>1. /\ pending' = None /\ lock' = None /\ active' = {} /\ queue' = << >>
        /\ UNCHANGED <<started, shown, told, granted, abandoned>>
    BY DEF Restart
  <2>2. reasons' \subseteq 1..started
    BY DEF Restart, LoginTypeOK
  <2>3. queue' \in Seq(Note) /\ Len(queue') <= QueueLimit
    BY <2>1
  <2> QED  BY <1>1, <2>1, <2>2, <2>3 DEF LoginTypeOK
<1>3. LockHeld' /\ Showing' /\ Waiters' /\ Cancels' /\ HandlersDo'
  BY <1>1 DEF Restart, LockHeld, Asking, Showing, Displaying, Waiters, Cancels, HandlersDo,
              NoTask
<1>4. NotesTrue' /\ PendingIsWatched'  BY DEF Restart, NotesTrue, PendingIsWatched
<1> QED  BY <1>2, <1>3, <1>4

LEMMA StepInv == LoginInv /\ [LoginNext]_loginVars => LoginInv'
<1> SUFFICES ASSUME LoginInv, [LoginNext]_loginVars PROVE LoginInv'  OBVIOUS
<1>1. ASSUME NEW h \in Handlers, PressLogin(h) \/ PressCancel(h) \/ PressLogout(h)
      PROVE  LoginInv'
  BY <1>1, HandlerTurnsInv
<1>2. ASSUME NEW h \in Handlers, HandlerStep(h) PROVE LoginInv'
  BY <1>2, StartLockedInv, StartAnsweredInv, ShowInv, AttachedInv, HandlerTurnsInv
  DEF HandlerStep
<1>3. ASSUME NEW t \in Tasks, CancelLocked(t) \/ RequestStep(t) PROVE LoginInv'
  BY <1>3, CancelLockedInv, CancelEndsInv
<1>4. ASSUME NEW l \in Logins, TakeNote(l) \/ WaitTimesOut(l) PROVE LoginInv'
  BY <1>4, TakeNoteInv, WaitTimesOutInv
<1>5. CASE UNCHANGED loginVars
  BY <1>5 DEF loginVars, LoginInv, LoginTypeOK, LockHeld, Showing, Waiters, Cancels,
              HandlersDo, NotesTrue, TrueNote, PendingIsWatched
<1> QED
  BY <1>1, <1>2, <1>3, <1>4, <1>5, ServerInv, RestartInv DEF LoginNext

LEMMA AlwaysInv == LoginSpec => []LoginInv
BY InitInv, StepInv, PTL DEF LoginSpec

-----------------------------------------------------------------------------
(* Theorems *)

\* Lock, queue, tasks and the pending login keep their types.
THEOREM LoginTypeCorrect == LoginSpec => []LoginTypeOK
<1>1. LoginInv => LoginTypeOK  BY DEF LoginInv
<1> QED  BY <1>1, AlwaysInv, PTL

\* Who takes a login out of the pending place, and what they know of it.
LEMMA EndingSteps ==
    ASSUME LoginInv, LoginNext, NEW l \in Logins, pending = l, pending' # l
    PROVE  l \in reasons' \/ UnnamedFor(l)
<1> USE TasksApart DEF LoginInv
<1>1. ASSUME NEW h \in Handlers, PressLogin(h) \/ PressCancel(h) \/ PressLogout(h)
      PROVE  FALSE
  BY <1>1 DEF PressLogin, PressCancel, PressLogout
<1>2. ASSUME NEW h \in Handlers, HandlerStep(h) PROVE l \in reasons'
  <2>1. ~StartAnswered(h)
    BY DEF StartAnswered, LockHeld
  <2> QED
    BY <1>2, <2>1 DEF HandlerStep, StartLocked, StartFails, Show, Attached, ShowFails,
                      LogoutAnswered, LogoutFails
<1>3. ASSUME NEW t \in Tasks, CancelLocked(t) PROVE FALSE
  BY <1>3 DEF CancelLocked
<1>4. ASSUME NEW t \in Tasks, RequestStep(t) PROVE l \in reasons'
  <2>1. task[t].login = l /\ task[t].pc = "cancelAsk" /\ reasons' = reasons
    BY <1>4 DEF RequestStep, CancelAnswered, CancelFails, ClearFails, ClearedOnFailure, Cleared
  <2> QED  BY <2>1 DEF Cancels
<1>5. ASSUME NEW k \in Logins, TakeNote(k) PROVE l \in reasons' \/ UnnamedFor(l)
  <2>1. k = l /\ Concerns(Head(queue), l) /\ task[l].pc = "waiting" /\ queue # << >>
        /\ reasons' = reasons
    BY <1>5 DEF TakeNote, Cleared
  <2>2. TrueNote(Head(queue))
    BY <2>1, TailTyped DEF NotesTrue, LoginTypeOK
  <2> QED  BY <2>1, <2>2 DEF Concerns, TrueNote, UnnamedFor
<1>6. ASSUME NEW k \in Logins, WaitTimesOut(k) \/ ServerEndsLogin(k) PROVE FALSE
  BY <1>6 DEF WaitTimesOut, ServerEndsLogin
<1>7. Restart => l \in reasons'
  BY DEF Restart
<1>8. ~ServerForgets /\ ~OtherNote
  BY DEF ServerForgets, OtherNote
<1> QED  BY <1>1, <1>2, <1>3, <1>4, <1>5, <1>6, <1>7, <1>8 DEF LoginNext

\* However many buttons, logins, late waiters and failing requests meet, a
\* login ends only because somebody or something ended that login, or because
\* its waiter took a completion that names no login.
THEOREM LoginsEndForAReason == LoginSpec => EndedForAReason
<1> DEFINE A == \A l \in Logins :
                  pending = l /\ pending' # l => l \in reasons' \/ UnnamedFor(l)
<1>1. LoginInv /\ [LoginNext]_loginVars => [A]_loginVars
  BY EndingSteps
<1> HIDE DEF A
<1>2. LoginSpec => [][A]_loginVars
  BY <1>1, AlwaysInv, PTL DEF LoginSpec
<1> QED  BY <1>2 DEF EndedForAReason, A

\* The pending login has a waiter, or somebody who shows or cancels it, unless
\* its handler or its waiter died of a failure of Telegram or of the disk.
THEOREM PendingStaysWatched == LoginSpec => []PendingIsWatched
<1>1. LoginInv => PendingIsWatched  BY DEF LoginInv
<1> QED  BY <1>1, AlwaysInv, PTL

\* Who tells the owner of a success, and what the notification said.
LEMMA TellingSteps ==
    ASSUME LoginInv, LoginNext, NEW l \in told' \ told
    PROVE  l \in granted \/ (UnnamedFor(l) /\ granted # {})
<1> USE DEF LoginInv
<1>1. PICK k \in Logins : TakeNote(k)
  <2>1. ASSUME NEW h \in Handlers,
               PressLogin(h) \/ PressCancel(h) \/ PressLogout(h) \/ HandlerStep(h)
        PROVE  told' = told
    BY <2>1 DEF PressLogin, PressCancel, PressLogout, HandlerStep, StartLocked, StartAnswered,
                StartFails, Show, Attached, ShowFails, LogoutAnswered, LogoutFails
  <2>2. ASSUME NEW t \in Tasks, CancelLocked(t) \/ RequestStep(t)
        PROVE  told' = told
    BY <2>2 DEF CancelLocked, RequestStep, CancelAnswered, CancelFails, ClearFails
  <2>3. ASSUME NEW k \in Logins, WaitTimesOut(k) \/ ServerEndsLogin(k)
        PROVE  told' = told
    BY <2>3 DEF WaitTimesOut, ServerEndsLogin
  <2>4. ServerForgets \/ OtherNote \/ Restart => told' = told
    BY DEF ServerForgets, OtherNote, Restart
  <2> QED  BY <2>1, <2>2, <2>3, <2>4 DEF LoginNext
<1>2. /\ k = l /\ Concerns(Head(queue), l) /\ Head(queue).success
      /\ task[l].pc = "waiting" /\ queue # << >>
  BY <1>1 DEF TakeNote
<1>3. TrueNote(Head(queue))
  BY <1>2, TailTyped DEF NotesTrue, LoginTypeOK
<1> QED  BY <1>2, <1>3 DEF Concerns, TrueNote, UnnamedFor

\* "Connected" is said only of a login the server granted, or on a completion
\* without a name after the server granted some login.
THEOREM OnlyTheTruthIsTold == LoginSpec => ToldTheTruth
<1> DEFINE A == \A l \in told' \ told : l \in granted \/ (UnnamedFor(l) /\ granted # {})
<1>1. LoginInv /\ [LoginNext]_loginVars => [A]_loginVars
  BY TellingSteps
<1> HIDE DEF A
<1>2. LoginSpec => [][A]_loginVars
  BY <1>1, AlwaysInv, PTL DEF LoginSpec
<1> QED  BY <1>2 DEF ToldTheTruth, A

\* The completion of the pending login is lost only to the waiter of another
\* login or to a full queue, for every number of logins and length of the queue.
THEOREM OnlyStaleWaitersSwallow == LoginSpec => SwallowedOnlyByStale
<1> DEFINE A == \A l \in Logins :
                  /\ pending = l /\ NoteWaits(l) /\ ~NoteWaits(l)'
                  /\ task[l].pc = "waiting" /\ task'[l].pc = "waiting"
                  => \/ Len(queue) = QueueLimit
                     \/ \E k \in Logins \ {l} : task[k].pc = "waiting"
<1>1. ASSUME LoginInv, [LoginNext]_loginVars PROVE A
  <2> SUFFICES ASSUME NEW l \in Logins, NoteWaits(l), ~NoteWaits(l)',
                      task[l].pc = "waiting", task'[l].pc = "waiting",
                      Len(queue) # QueueLimit
               PROVE  \E k \in Logins \ {l} : task[k].pc = "waiting"
    OBVIOUS
  <2>1. queue \in Seq(Note) /\ Len(queue) \in Nat /\ DOMAIN queue = 1..Len(queue)
    BY <1>1 DEF LoginInv, LoginTypeOK
  <2>2. PICK i \in 1..Len(queue) : queue[i].login = l
    BY <2>1 DEF NoteWaits
  <2>3. queue' # queue
    BY DEF NoteWaits
  <2>4. ASSUME NEW note, queue' = Noted(note) PROVE FALSE
    <3>1. queue' = Append(queue, note)
      BY <2>4 DEF Noted, Full
    <3>2. i \in DOMAIN queue' /\ queue'[i] = queue[i]
      BY <2>1, <2>2, <3>1
    <3> QED  BY <2>2, <3>2 DEF NoteWaits
  <2>5. ~Restart
    <3>1. SUFFICES ASSUME Restart PROVE FALSE
      OBVIOUS
    <3>2. task'[l] = NoTask
      BY <3>1, TasksApart DEF Restart
    <3> QED  BY <3>2 DEF NoTask
  <2>6. PICK k \in Logins : TakeNote(k)
    <3>1. ASSUME NEW h \in Handlers,
                 PressLogin(h) \/ PressCancel(h) \/ PressLogout(h) \/ HandlerStep(h)
          PROVE  queue' = queue
      BY <3>1 DEF PressLogin, PressCancel, PressLogout, HandlerStep, StartLocked, StartAnswered,
                  StartFails, Show, Attached, ShowFails, LogoutAnswered, LogoutFails
    <3>2. ASSUME NEW t \in Tasks, CancelLocked(t) PROVE queue' = queue
      BY <3>2 DEF CancelLocked
    <3>3. ASSUME NEW t \in Tasks, RequestStep(t) PROVE FALSE
      BY <2>3, <2>4, <3>3
      DEF RequestStep, CancelAnswered, CancelFails, ClearFails, Withdrawn
    <3>4. ASSUME NEW k \in Logins, WaitTimesOut(k) PROVE queue' = queue
      BY <3>4 DEF WaitTimesOut
    <3>5. ASSUME NEW k \in Logins, ServerEndsLogin(k) PROVE FALSE
      BY <2>4, <3>5 DEF ServerEndsLogin
    <3>6. ServerForgets \/ UNCHANGED loginVars => queue' = queue
      BY DEF ServerForgets, loginVars
    <3>7. ~OtherNote
      BY <2>4 DEF OtherNote
    <3> QED
      BY <1>1, <2>3, <2>5, <3>1, <3>2, <3>3, <3>4, <3>5, <3>6, <3>7 DEF LoginNext
  <2>7. task[k].pc = "waiting" /\ queue # << >> /\ queue' = Tail(queue)
    BY <2>6 DEF TakeNote
  <2>8. k # l
    <3> SUFFICES ASSUME k = l PROVE FALSE
      OBVIOUS
    <3>1. CASE Concerns(Head(queue), l)
      <4>1. Becomes(l, NoTask)
        BY <2>6, <3>1 DEF TakeNote
      <4>2. task'[l] = NoTask
        BY <1>1, <4>1, TasksApart DEF Becomes, LoginInv, LoginTypeOK
      <4> QED  BY <4>2 DEF NoTask
    <3>2. CASE ~Concerns(Head(queue), l)
      <4>1. i # 1
        BY <1>1, <2>1, <2>2, <2>7, <3>2, TailTyped, TasksApart
        DEF Concerns, NotesTrue, TrueNote, LoginInv, LoginTypeOK
      <4>2. i - 1 \in DOMAIN Tail(queue) /\ Tail(queue)[i - 1] = queue[i]
        BY <2>1, <2>2, <2>7, <4>1
      <4> QED  BY <2>2, <2>7, <4>2 DEF NoteWaits
    <3> QED  BY <3>1, <3>2
  <2> QED  BY <2>7, <2>8
<1>2. LoginInv /\ [LoginNext]_loginVars => [A]_loginVars
  BY <1>1
<1> HIDE DEF A
<1>3. LoginSpec => [][A]_loginVars
  BY <1>2, AlwaysInv, PTL DEF LoginSpec
<1> QED  BY <1>3 DEF SwallowedOnlyByStale, A
=============================================================================
