------------------------------- MODULE Notifier -------------------------------
(***************************************************************************)
(* main.async_main: checks and delivery in one process, which share        *)
(* state.json and nothing else, and which a crash stops between any two    *)
(* steps.  What the repository has written survives (module Storage shows  *)
(* that it does); tasks, callers and the item in hand do not.              *)
(***************************************************************************)
EXTENDS Monitor, Delivery

CONSTANT MaxCrashes    \* bound on the crashes
ASSUME CrashesAssumption == MaxCrashes \in Nat

VARIABLE crashes       \* crashes so far

notifierVars == <<monitorVars, deliveryVars, crashes>>

NotifierTypeOK == MonitorTypeOK /\ DeliveryTypeOK /\ crashes \in Nat

NotifierInit == MonitorInit /\ DeliveryInit /\ crashes = 0

deliveryOwn == <<phase, inHand, chat, unheard>>
monitorOwn == <<enabled, codex, tasks, current, caller, cooling, logout, loginDone,
                checks, signs>>

CheckStep == MonitorNext /\ UNCHANGED <<deliveryOwn, crashes>>
DeliveryStep == DeliveryNext /\ UNCHANGED <<monitorOwn, crashes>>

\* The process dies and starts again from what was written.
Restart ==
    /\ crashes < MaxCrashes
    /\ crashes' = crashes + 1
    /\ tasks' = [t \in TaskIds |-> NoTask] /\ current' = None
    /\ caller' = [c \in Callers |-> Idle]
    /\ cooling' = FALSE /\ logout' = "none" /\ loginDone' = {}
    /\ phase' = "top" /\ inHand' = {}
    /\ unheard' = IF phase = "accepted" THEN unheard + 1 ELSE unheard
    /\ UNCHANGED <<st, enabled, codex, checks, signs, chat>>

NotifierNext == CheckStep \/ DeliveryStep \/ Restart

\* As in MonitorFairness; the delivery loop and the clock run; and Telegram,
\* asked again and again, in the end takes a message and says so.
NotifierFairness ==
    /\ \A t \in TaskIds : WF_notifierVars(TaskStep(t) /\ UNCHANGED <<deliveryOwn, crashes>>)
    /\ \A c \in Callers : WF_notifierVars(Resume(c) /\ UNCHANGED <<deliveryOwn, crashes>>)
    /\ WF_notifierVars((Pick \/ Wait) /\ UNCHANGED <<monitorOwn, crashes>>)
    /\ WF_notifierVars(RetryDue /\ UNCHANGED <<monitorOwn, crashes>>)
    /\ SF_notifierVars(Accept /\ UNCHANGED <<monitorOwn, crashes>>)
    /\ SF_notifierVars(Acknowledge /\ UNCHANGED <<monitorOwn, crashes>>)

NotifierSpec == NotifierInit /\ [][NotifierNext]_notifierVars /\ NotifierFairness

-----------------------------------------------------------------------------

\* No event is announced twice, by messages in the chat and by notices that
\* wait, unless Telegram took a message without the loop learning of it: by a
\* lost answer, or by a crash before the acknowledgement was written
\* (README.md:191).  Each such loss costs at most one duplicate; while the
\* answer is under way the notice still waits.
DuplicatesAreUnheard ==
    LET notices == {item.events : item \in Range(st.outbox)} \cup Range(chat)
        seen(e) == Cardinality({i \in DOMAIN chat : e \in chat[i]})
        waits(e) == Cardinality({i \in DOMAIN st.outbox : e \in st.outbox[i].events})
        underWay == IF phase = "accepted" THEN 1 ELSE 0
    IN  \A e \in UNION notices : seen(e) + waits(e) <= 1 + unheard + underWay

\* The pipeline is a mailbox: what enters the outbox reaches the chat at
\* least once before it leaves, across retries and crashes, unless the
\* account is changed or forgotten.
MB == INSTANCE Mailbox WITH
        Nobody    <- None,
        pending   <- {item.events : item \in Range(st.outbox)},
        carried   <- IF phase \in {"sending", "accepted"} THEN {inHand} ELSE {},
        delivered <- Range(chat),
        addressee <- st.account

ImplementsMailbox == MB!MailboxSpec

Queued(event) == \E item \in Range(st.outbox) : event \in item.events

\* Every queued notice leaves the outbox: with ImplementsMailbox, it reaches
\* the chat or is discarded with its account.
Announced == UNION {{AuthRequired(a), AccountChanged(a)} : a \in Accounts}
             \cup {Unavailable(o) : o \in 1..MaxChecks}
NoticesLeave == \A event \in Announced : Queued(event) ~> ~Queued(event)
=============================================================================
