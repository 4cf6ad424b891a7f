------------------------------ MODULE AppState ------------------------------
(***************************************************************************)
(* The persistent record of state.json (models.AppState) and the pure      *)
(* operators that every commit on it is built from: the bounded histories, *)
(* the event ids, and the append of a batch of events to the history, the  *)
(* deduplication list and the outbox.                                      *)
(*                                                                         *)
(* An event is identified by its kind and its evidence: _event_id digests  *)
(* exactly those, so here the event record IS its id.  A batch is a set,   *)
(* listed in a fixed order by SetToSeq; an outbox item is the set of the   *)
(* events it announces, which is also what its id digests.                 *)
(***************************************************************************)
EXTENDS Naturals, Sequences, FiniteSets, SequencesExt

CONSTANTS Accounts,       \* the ChatGPT accounts that may sign in
          None,           \* Python's None
          Windows,        \* the window epochs a rate-limit read may report
          HistoryLimit,   \* events kept for the history page (200)
          DedupeLimit     \* event ids kept for deduplication (1000)

VARIABLE st   \* state.json, as the repository holds it in memory and on disk

ASSUME LimitsAssumption ==
    /\ HistoryLimit \in Nat /\ DedupeLimit \in Nat
    /\ 0 < HistoryLimit /\ HistoryLimit <= DedupeLimit
ASSUME AccountsAssumption == None \notin Accounts \cup Nat
ASSUME WindowsAssumption == Windows \subseteq Nat

MaybeAccount == Accounts \cup {None}

-----------------------------------------------------------------------------
(* Events and their ids. *)

EventTypes == {"window_reset", "significant_change", "account_changed",
               "auth_required", "monitor_unavailable", "monitor_recovered"}

\* The kinds a switch of the settings page can silence.
OptionalTypes == EventTypes \ {"account_changed", "auth_required"}

Event == [type : EventTypes, account : MaybeAccount, key : Seq(Nat)]

WindowReset(a, from, to) ==
    [type |-> "window_reset", account |-> a, key |-> <<from, to>>]
WindowChangedEarly(a, from, to) ==
    [type |-> "significant_change", account |-> a, key |-> <<from, to>>]
AccountChanged(a) == [type |-> "account_changed", account |-> a, key |-> <<>>]
AuthRequired(a) == [type |-> "auth_required", account |-> a, key |-> <<>>]
Unavailable(outage) ==
    [type |-> "monitor_unavailable", account |-> None, key |-> <<outage>>]
Recovered(outage) ==
    [type |-> "monitor_recovered", account |-> None, key |-> <<outage>>]

\* domain.notification_enabled: two kinds are always announced.
NotificationEnabled(event, enabled) ==
    event.type \in enabled \cup {"account_changed", "auth_required"}

-----------------------------------------------------------------------------
(* The record. *)

Snapshot == [account : Accounts, window : Windows]
OutboxItem == [events : SUBSET Event, ready : BOOLEAN]
AuthStatus == {"unknown", "disconnected", "connected", "reauth_required"}

AppStateType ==
    [account : MaybeAccount,            authStatus : AuthStatus,
     snapshot : Snapshot \cup {None},   creditBaseline : MaybeAccount,
     events : Seq(Event),               dedupe : Seq(Event),
     outbox : Seq(OutboxItem),          failures : Nat,
     outage : Nat \cup {None},          outageNotified : BOOLEAN,
     authNotified : BOOLEAN]

InitialAppState ==
    [account |-> None,    authStatus |-> "unknown", snapshot |-> None,
     creditBaseline |-> None, events |-> <<>>,      dedupe |-> <<>>,
     outbox |-> <<>>,     failures |-> 0,           outage |-> None,
     outageNotified |-> FALSE, authNotified |-> FALSE]

-----------------------------------------------------------------------------
(* What the commits are built from. *)

\* list[-n:]
Newest(list, n) ==
    IF Len(list) <= n THEN list ELSE SubSeq(list, Len(list) - n + 1, Len(list))

\* AppState.bounded: the outbox is never trimmed.
Bounded(s) == [s EXCEPT !.events = Newest(@, HistoryLimit),
                        !.dedupe = Newest(@, DedupeLimit)]

\* Mutant of Unique: compares with the short history only.
UniqueInHistory(s, batch) == batch \ Range(s.events)

\* The events of the batch that deduplication lets through.
Unique(s, batch) == batch \ Range(s.dedupe)

\* Monitor._append_events_and_outbox
AppendEventsAndOutbox(s, batch, enabled) ==
    LET unique == Unique(s, batch)
        notify == {e \in unique : NotificationEnabled(e, enabled)}
        queued == notify = {} \/ \E item \in Range(s.outbox) : item.events = notify
    IN  [s EXCEPT !.events = @ \o SetToSeq(unique),
                  !.dedupe = @ \o SetToSeq(unique),
                  !.outbox = IF queued THEN @
                             ELSE Append(@, [events |-> notify, ready |-> TRUE])]

-----------------------------------------------------------------------------
(* What the three lists owe each other. *)

\* An id is unique in the deduplication list, and the history is the newest
\* part of that list.
Aligned(s) ==
    LET older == Len(s.dedupe) - Len(s.events)
    IN  /\ \A i, j \in DOMAIN s.dedupe : s.dedupe[i] = s.dedupe[j] => i = j
        /\ older >= 0 /\ \A i \in DOMAIN s.events : s.events[i] = s.dedupe[older + i]

Recorded(s) ==
    Aligned(s) /\ Len(s.events) <= HistoryLimit /\ Len(s.dedupe) <= DedupeLimit
=============================================================================
