---------------------------- MODULE MonitorProofs ----------------------------
(***************************************************************************)
(* The safety of the checks, for every set of accounts, callers and tasks  *)
(* and every bound: the invariants and the action properties that run      *)
(* monitor_safety checks.                                                  *)
(*                                                                         *)
(* None of them is inductive alone.  That a commit never mixes accounts    *)
(* rests on what a check captured still being what is recorded; that rests *)
(* on no other check being in flight; and "recovered" names an outage only *)
(* because the outage fields agree.  The inductive invariant puts them     *)
(* together and adds how a check that pauses got there.                    *)
(***************************************************************************)
EXTENDS Monitor, AppStateProofs

\* What every commit preserves.
Good(s) == s \in AppStateType /\ Recorded(s) /\ Isolated(s) /\ OutageAgrees(s)

\* A caller that awaits a check has no result yet.
WaitingOnly == \A c \in Callers : caller[c].task # None => caller[c].result = None

Control ==
    /\ tasks \in [TaskIds -> Task]
    /\ current \in TaskIds \cup {None}
    /\ caller \in [Callers -> CallerType]
    /\ SingleFlight /\ WaitingOnly

\* A check pauses only over a comparison of two reads for one account.
PausedOverOneAccount ==
    \A t \in TaskIds : tasks[t].pc \in {"sleep", "confirm"} =>
        /\ tasks[t].snapshot \in Snapshot
        /\ tasks[t].previous \in Snapshot /\ tasks[t].previous # None
        /\ tasks[t].previous.account = tasks[t].snapshot.account
        /\ tasks[t].baseline \in {None, tasks[t].snapshot.account}

Captured == CapturedIsCurrent /\ PausedOverOneAccount

Surroundings ==
    /\ enabled \subseteq OptionalTypes /\ codex \in MaybeAccount
    /\ cooling \in BOOLEAN /\ logout \in {"none", "sent", "done"} /\ loginDone \subseteq LoginCallers
    /\ checks \in Nat /\ signs \in Nat

IInv == Good(st) /\ Control /\ Captured /\ Surroundings

-----------------------------------------------------------------------------
(* The commits. *)

\* What the events of a check are: finitely many, and about its account.
LEMMA DetectedEvents ==
    ASSUME NEW previous \in Snapshot \cup {None}, NEW new \in Snapshot, NEW late, NEW confirmed
    PROVE  /\ AnalyzeChanges(previous, new, late, confirmed) \subseteq Event
           /\ IsFiniteSet(AnalyzeChanges(previous, new, late, confirmed))
           /\ \A e \in AnalyzeChanges(previous, new, late, confirmed) : e.account = new.account
<1> DEFINE verdict == Verdict(previous, new, late, confirmed)
           detected == AnalyzeChanges(previous, new, late, confirmed)
<1>1. CASE verdict \notin {"reset", "early"}
  <2>1. detected = {}
    BY <1>1 DEF AnalyzeChanges
  <2> QED
    BY <2>1, FS_EmptySet
<1>2. CASE verdict \in {"reset", "early"}
  <2>1. previous \in Snapshot
    BY <1>2 DEF Verdict, Advanced
  <2>2. new.account \in Accounts /\ previous.window \in Nat /\ new.window \in Nat
    BY <2>1, WindowsAssumption DEF Snapshot
  <2>3. <<previous.window, new.window>> \in Seq(Nat)
    BY <2>2
  <2>4. /\ WindowReset(new.account, previous.window, new.window) \in Event
        /\ WindowChangedEarly(new.account, previous.window, new.window) \in Event
    BY <2>2, <2>3 DEF Event, EventTypes, MaybeAccount, WindowReset, WindowChangedEarly
  <2>5. detected = {WindowReset(new.account, previous.window, new.window)}
        \/ detected = {WindowChangedEarly(new.account, previous.window, new.window)}
    BY <1>2 DEF AnalyzeChanges
  <2>6. /\ WindowReset(new.account, previous.window, new.window).account = new.account
        /\ WindowChangedEarly(new.account, previous.window, new.window).account = new.account
    BY DEF WindowReset, WindowChangedEarly
  <2>7. IsFiniteSet(detected)
    BY <2>5, FS_Singleton
  <2> HIDE DEF detected
  <2>8. detected \subseteq Event /\ \A e \in detected : e.account = new.account
    BY <2>4, <2>5, <2>6
  <2> QED
    BY <2>7, <2>8 DEF detected
<1> QED
  BY <1>1, <1>2

\* Appending events about the recorded account keeps the record good, except
\* that the caller answers for the outage fields.
LEMMA AppendIsIsolated ==
    ASSUME NEW s \in AppStateType, Aligned(s), Isolated(s), NEW batch,
           batch \subseteq Event, IsFiniteSet(batch), NEW notifications,
           \A e \in batch : e.account \in {None, s.account}
    PROVE  LET a == AppendEventsAndOutbox(s, batch, notifications)
           IN  /\ a \in AppStateType /\ Aligned(a) /\ Isolated(a)
               /\ a.failures = s.failures /\ a.outage = s.outage
               /\ a.outageNotified = s.outageNotified /\ a.account = s.account
               /\ a.snapshot = s.snapshot /\ Gains(s.dedupe, a.dedupe, batch)
<1> DEFINE a == AppendEventsAndOutbox(s, batch, notifications)
<1>1. /\ a \in AppStateType /\ Aligned(a)
      /\ \A item \in Range(a.outbox) : item \in Range(s.outbox) \/ item.events \subseteq batch
      /\ a = [s EXCEPT !.events = a.events, !.dedupe = a.dedupe, !.outbox = a.outbox]
  BY AppendKeepsAligned
<1>4. Gains(s.dedupe, a.dedupe, batch)
  BY AppendGains
<1> HIDE DEF a
<1>2. /\ a.failures = s.failures /\ a.outage = s.outage
      /\ a.outageNotified = s.outageNotified /\ a.account = s.account
      /\ a.snapshot = s.snapshot /\ a.creditBaseline = s.creditBaseline
  BY <1>1 DEF AppStateType
<1>3. Isolated(a)
  BY <1>1, <1>2 DEF Isolated
<1> QED
  BY <1>1, <1>2, <1>3, <1>4 DEF a

\* AppState.bounded shortens the lists and keeps what every commit preserves.
LEMMA BoundedIsGood ==
    ASSUME NEW s \in AppStateType, Aligned(s), Isolated(s), OutageAgrees(s)
    PROVE  LET b == Bounded(s)
           IN  /\ Good(b)
               /\ b.snapshot = s.snapshot /\ b.account = s.account
               /\ b.outage = s.outage /\ b.outageNotified = s.outageNotified
<1> DEFINE b == Bounded(s)
<1>1. /\ b \in AppStateType /\ Recorded(b)
      /\ b = [s EXCEPT !.events = b.events, !.dedupe = b.dedupe]
  BY BoundedRecords
<1> HIDE DEF b
<1>2. /\ b.failures = s.failures /\ b.outage = s.outage
      /\ b.outageNotified = s.outageNotified /\ b.account = s.account
      /\ b.snapshot = s.snapshot /\ b.creditBaseline = s.creditBaseline
      /\ b.outbox = s.outbox
  BY <1>1 DEF AppStateType
<1>3. Isolated(b) /\ OutageAgrees(b)
  BY <1>2 DEF Isolated, OutageAgrees
<1> QED
  BY <1>1, <1>2, <1>3 DEF Good, b

\* A commit that records the events of a batch, as far as they are new.
Records(s, committed, batch) ==
    \E a \in AppStateType : /\ Gains(s.dedupe, a.dedupe, batch)
                            /\ committed.dedupe = Bounded(a).dedupe

\* A commit of a successful check: what it leaves, and what it records.
Settles(s, committed, snapshot, batch) ==
    /\ Good(committed) /\ committed.snapshot = snapshot /\ ~committed.outageNotified
    /\ Records(s, committed, batch \cup RecoveredEvents(s))

\* _perform_check commits: the outbox of another account is dropped with it.
LEMMA CommitCheckIsGood ==
    ASSUME NEW s, Good(s), NEW snapshot \in Snapshot, NEW changed \in BOOLEAN,
           ~changed => s.account \in {None, snapshot.account},
           NEW detected, detected \subseteq Event, IsFiniteSet(detected),
           \A e \in detected : e.account \in {None, snapshot.account},
           NEW baseline \in {None, snapshot.account}, NEW notifications
    PROVE  Settles(s, CommitCheck(s, snapshot, changed, detected, baseline, notifications),
                   snapshot, detected)
<1> DEFINE new == (detected \cup RecoveredEvents(s)) \ Range(s.events)
           observed == [s EXCEPT
            !.outbox = KeptOutbox(s, changed),
            !.account = snapshot.account, !.authStatus = "connected",
            !.snapshot = snapshot,        !.creditBaseline = baseline,
            !.authNotified = FALSE,       !.failures = 0,
            !.outage = None,              !.outageNotified = FALSE]
<1>1. s \in AppStateType /\ Aligned(s) /\ Isolated(s) /\ OutageAgrees(s)
  BY DEF Good, Recorded
<1>2. snapshot.account \in Accounts
  BY DEF Snapshot
<1>3. RecoveredEvents(s) \subseteq Event /\ IsFiniteSet(RecoveredEvents(s))
      /\ \A e \in RecoveredEvents(s) : e.account = None
  <2>1. CASE s.outageNotified
    <3>1. s.outage \in Nat
      BY <1>1, <2>1 DEF OutageAgrees, AppStateType
    <3>2. <<s.outage>> \in Seq(Nat)
      BY <3>1
    <3>3. Recovered(s.outage) \in Event
      BY <3>2 DEF Recovered, Event, EventTypes, MaybeAccount
    <3>4. RecoveredEvents(s) = {Recovered(s.outage)}
      BY <2>1 DEF RecoveredEvents
    <3>5. Recovered(s.outage).account = None
      BY DEF Recovered
    <3>6. IsFiniteSet({Recovered(s.outage)})
      BY FS_Singleton
    <3> QED
      BY <3>3, <3>4, <3>5, <3>6
  <2>2. CASE ~s.outageNotified
    BY <2>2, FS_EmptySet DEF RecoveredEvents
  <2> QED
    BY <2>1, <2>2
<1>4. new \subseteq Event /\ IsFiniteSet(new)
      /\ \A e \in new : e.account \in {None, snapshot.account}
  BY <1>3, FS_Union, FS_Difference
<1>5. s.outbox \in Seq(OutboxItem) /\ <<>> \in Seq(OutboxItem) /\ Range(<<>>) = {}
  BY <1>1 DEF AppStateType, Range
<1>6. observed \in AppStateType
  <2>1. KeptOutbox(s, changed) \in Seq(OutboxItem)
    BY <1>5 DEF KeptOutbox
  <2> QED
    BY <1>1, <1>2, <2>1 DEF AppStateType, AuthStatus, MaybeAccount
<1>7. /\ observed.events = s.events /\ observed.dedupe = s.dedupe
      /\ observed.outbox = KeptOutbox(s, changed) /\ observed.account = snapshot.account
      /\ observed.snapshot = snapshot /\ observed.creditBaseline = baseline
      /\ observed.failures = 0 /\ observed.outage = None /\ observed.outageNotified = FALSE
  BY <1>1 DEF AppStateType
<1> HIDE DEF new, observed
<1>8. Aligned(observed) /\ OutageAgrees(observed)
  BY <1>1, <1>7 DEF Aligned, OutageAgrees
<1>9. Isolated(observed)
  <2>1. CASE changed
    BY <1>5, <1>7, <2>1 DEF Isolated, KeptOutbox
  <2>2. CASE ~changed
    BY <1>1, <1>7, <2>2 DEF Isolated, KeptOutbox
  <2> QED
    BY <2>1, <2>2
<1> DEFINE a == AppendEventsAndOutbox(observed, new, notifications)
<1>10. /\ a \in AppStateType /\ Aligned(a) /\ Isolated(a)
       /\ a.failures = observed.failures /\ a.outage = observed.outage
       /\ a.outageNotified = observed.outageNotified
       /\ a.snapshot = snapshot /\ Gains(s.dedupe, a.dedupe, new)
  BY <1>4, <1>6, <1>7, <1>8, <1>9, AppendIsIsolated
<1>11. CommitCheck(s, snapshot, changed, detected, baseline, notifications) = Bounded(a)
  BY DEF CommitCheck, observed, new
<1> HIDE DEF a
<1>12. OutageAgrees(a)
  BY <1>8, <1>10 DEF OutageAgrees
<1>13. Gains(s.dedupe, a.dedupe, detected \cup RecoveredEvents(s))
  <2>1. Range(s.events) \subseteq Range(s.dedupe)
    <3>1. ASSUME NEW i \in DOMAIN s.events PROVE s.events[i] \in Range(s.dedupe)
      <4>1. /\ s.events \in Seq(Event) /\ s.dedupe \in Seq(Event) /\ Len(s.dedupe) >= Len(s.events)
            /\ s.events[i] = s.dedupe[Len(s.dedupe) - Len(s.events) + i]
        BY <1>1 DEF AppStateType, Aligned
      <4>2. /\ DOMAIN s.events = 1..Len(s.events) /\ DOMAIN s.dedupe = 1..Len(s.dedupe)
            /\ Len(s.events) \in Nat /\ Len(s.dedupe) \in Nat
        BY <4>1
      <4> DEFINE d == Len(s.dedupe) e == Len(s.events)
      <4>4. d \in Nat /\ e \in Nat /\ i \in 1..e /\ d >= e
        BY <4>1, <4>2
      <4> HIDE DEF d, e
      <4>5. d - e + i \in 1..d
        BY <4>4
      <4>3. Len(s.dedupe) - Len(s.events) + i \in DOMAIN s.dedupe
        BY <4>2, <4>5 DEF d, e
      <4> QED  BY <4>1, <4>3 DEF Range
    <3> QED  BY <3>1 DEF Range
  <2>2. new \ Range(s.dedupe) = (detected \cup RecoveredEvents(s)) \ Range(s.dedupe)
    BY <2>1 DEF new
  <2> QED  BY <1>10, <2>2 DEF Gains
<1>14. Records(s, Bounded(a), detected \cup RecoveredEvents(s))
  BY <1>10, <1>13 DEF Records
<1> QED
  BY <1>7, <1>10, <1>11, <1>12, <1>14, BoundedIsGood DEF Settles

\* _record_auth_required
LEMMA RecordAuthRequiredIsGood ==
    ASSUME NEW s, Good(s), NEW notifications
    PROVE  LET c == RecordAuthRequired(s, notifications)
           IN  /\ Good(c) /\ c.snapshot = s.snapshot
               /\ c.outage = s.outage /\ c.outageNotified = s.outageNotified
               /\ Records(s, c, {AuthRequired(s.account)}) \/ Records(s, c, {})
<1> DEFINE known  == s.account # None
           marked == [s EXCEPT !.authStatus = IF known THEN "reauth_required"
                                                       ELSE "disconnected"]
           batch  == {AuthRequired(s.account)}
           a      == AppendEventsAndOutbox(marked, batch, notifications)
           told   == [a EXCEPT !.authNotified = TRUE]
<1>1. s \in AppStateType /\ Aligned(s) /\ Isolated(s) /\ OutageAgrees(s)
  BY DEF Good, Recorded
<1>2. marked \in AppStateType
  BY <1>1 DEF AppStateType, AuthStatus
<1>3. /\ Aligned(marked) /\ Isolated(marked) /\ OutageAgrees(marked)
      /\ marked.account = s.account /\ marked.snapshot = s.snapshot
      /\ marked.dedupe = s.dedupe /\ marked.outage = s.outage
      /\ marked.outageNotified = s.outageNotified
  BY <1>1 DEF Aligned, Isolated, OutageAgrees, AppStateType
<1> HIDE DEF marked
<1>4. CASE known /\ ~s.authNotified
  <2>1. s.account \in MaybeAccount /\ <<>> \in Seq(Nat)
    BY <1>1 DEF AppStateType
  <2>2. AuthRequired(s.account) \in Event /\ AuthRequired(s.account).account = s.account
    BY <2>1 DEF AuthRequired, Event, EventTypes
  <2>3. IsFiniteSet(batch)
    BY FS_Singleton
  <2>4. /\ a \in AppStateType /\ Aligned(a) /\ Isolated(a)
        /\ a.failures = marked.failures /\ a.outage = marked.outage
        /\ a.outageNotified = marked.outageNotified
        /\ a.snapshot = marked.snapshot /\ Gains(marked.dedupe, a.dedupe, batch)
    BY <1>2, <1>3, <2>2, <2>3, AppendIsIsolated
  <2> HIDE DEF a
  <2>5. told \in AppStateType
    BY <2>4 DEF AppStateType
  <2>6. Aligned(told) /\ Isolated(told) /\ OutageAgrees(told)
    BY <1>3, <2>4 DEF Aligned, Isolated, OutageAgrees, AppStateType
  <2>7. RecordAuthRequired(s, notifications) = Bounded(told)
    BY <1>4 DEF RecordAuthRequired, marked, a
  <2>8. /\ told.snapshot = s.snapshot /\ told.outage = s.outage
        /\ told.outageNotified = s.outageNotified /\ told.dedupe = a.dedupe
    BY <1>3, <2>4 DEF AppStateType
  <2> HIDE DEF told
  <2>9. Records(s, Bounded(told), batch)
    BY <1>3, <2>4, <2>5, <2>8 DEF Records
  <2> QED
    BY <2>5, <2>6, <2>7, <2>8, <2>9, BoundedIsGood
<1>5. CASE ~(known /\ ~s.authNotified)
  <2>1. RecordAuthRequired(s, notifications) = Bounded(marked)
    BY <1>5 DEF RecordAuthRequired, marked
  <2>2. Records(s, Bounded(marked), {})
    BY <1>1, <1>2, <1>3, GainsNothing DEF Records, AppStateType
  <2> QED
    BY <1>2, <1>3, <2>1, <2>2, BoundedIsGood
<1> QED
  BY <1>4, <1>5

\* _record_failure: the third failure in a row announces the outage.
LEMMA RecordFailureIsGood ==
    ASSUME NEW s, Good(s), NEW now \in Nat, NEW notifications
    PROVE  LET c == RecordFailure(s, now, notifications)
           IN  /\ Good(c) /\ c.snapshot = s.snapshot
               /\ s.outageNotified => c.outage = s.outage
               /\ \/ Records(s, c, {Unavailable(c.outage)})
                  \/ Records(s, c, {}) /\ c.outageNotified = s.outageNotified
<1> DEFINE outage == IF s.outage = None THEN now ELSE s.outage
           failed == [s EXCEPT !.failures = @ + 1, !.outage = outage]
           batch  == {Unavailable(outage)}
           a      == AppendEventsAndOutbox(failed, batch, notifications)
           told   == [a EXCEPT !.outageNotified = TRUE]
<1>1. s \in AppStateType /\ Aligned(s) /\ Isolated(s) /\ OutageAgrees(s)
  BY DEF Good, Recorded
<1>2. outage \in Nat /\ outage # None
  BY <1>1, AccountsAssumption DEF AppStateType
<1> HIDE DEF outage
<1>3. failed \in AppStateType
  <2>1. s.failures + 1 \in Nat /\ outage \in Nat \cup {None}
    BY <1>1, <1>2 DEF AppStateType
  <2>2. \A n \in Nat, o \in Nat \cup {None} :
           [s EXCEPT !.failures = n, !.outage = o] \in AppStateType
    BY <1>1 DEF AppStateType
  <2>3. failed = [s EXCEPT !.failures = s.failures + 1, !.outage = outage]
    BY <1>1 DEF AppStateType
  <2> QED
    BY <2>1, <2>2, <2>3
<1>4. /\ failed.failures = s.failures + 1 /\ failed.outage = outage /\ s.failures \in Nat
      /\ failed.outageNotified = s.outageNotified /\ s.outageNotified \in BOOLEAN
  BY <1>1 DEF AppStateType
<1>5. /\ Aligned(failed) /\ Isolated(failed)
      /\ failed.snapshot = s.snapshot /\ failed.dedupe = s.dedupe
  BY <1>1 DEF Aligned, Isolated, AppStateType
<1>9. s.outageNotified => outage = s.outage
  BY <1>1 DEF OutageAgrees, outage
<1>6. s.outageNotified <=> s.failures >= 3
  BY <1>1 DEF OutageAgrees
<1> HIDE DEF failed
<1>7. CASE OutageDue(failed)
  <2>1. <<outage>> \in Seq(Nat)
    BY <1>2
  <2>2. Unavailable(outage) \in Event /\ Unavailable(outage).account = None
    BY <2>1 DEF Unavailable, Event, EventTypes, MaybeAccount
  <2>3. IsFiniteSet(batch)
    BY FS_Singleton
  <2>4. /\ a \in AppStateType /\ Aligned(a) /\ Isolated(a)
        /\ a.failures = failed.failures /\ a.outage = failed.outage
        /\ a.snapshot = failed.snapshot /\ Gains(failed.dedupe, a.dedupe, batch)
    BY <1>3, <1>5, <2>2, <2>3, AppendIsIsolated
  <2> HIDE DEF a
  <2>5. told \in AppStateType
    BY <2>4 DEF AppStateType
  <2>6. Aligned(told) /\ Isolated(told)
    BY <2>4 DEF Aligned, Isolated, AppStateType
  <2>7. told.failures = s.failures + 1 /\ told.outage = outage /\ told.outageNotified = TRUE
    BY <1>4, <2>4 DEF AppStateType
  <2>8. s.failures + 1 >= 3
    BY <1>4, <1>7 DEF OutageDue
  <2>9. OutageAgrees(told)
    BY <1>2, <1>4, <2>7, <2>8 DEF OutageAgrees
  <2>10. RecordFailure(s, now, notifications) = Bounded(told)
    BY <1>7 DEF RecordFailure, failed, outage, a
  <2>11. told.snapshot = s.snapshot /\ told.dedupe = a.dedupe
    BY <1>5, <2>4 DEF AppStateType
  <2> HIDE DEF told
  <2>12. Records(s, Bounded(told), batch)
    BY <1>5, <2>4, <2>5, <2>11 DEF Records
  <2> QED
    BY <1>9, <2>5, <2>6, <2>7, <2>9, <2>10, <2>11, <2>12, BoundedIsGood
<1>8. CASE ~OutageDue(failed)
  <2>1. failed.outageNotified <=> failed.failures >= 3
    BY <1>4, <1>6, <1>8 DEF OutageDue
  <2>2. OutageAgrees(failed)
    BY <1>2, <1>4, <2>1 DEF OutageAgrees
  <2>3. RecordFailure(s, now, notifications) = Bounded(failed)
    BY <1>8 DEF RecordFailure, failed, outage
  <2>4. Records(s, Bounded(failed), {})
    BY <1>1, <1>3, <1>5, GainsNothing DEF Records, AppStateType
  <2> QED
    BY <1>3, <1>4, <1>5, <1>9, <2>2, <2>3, <2>4, BoundedIsGood
<1> QED
  BY <1>7, <1>8

\* The logout handler's change.
LEMMA ForgetAccountIsGood ==
    ASSUME NEW s, Good(s)
    PROVE  Good(ForgetAccount(s)) /\ ForgetAccount(s).account = None
<1> DEFINE f == ForgetAccount(s)
<1>1. s \in AppStateType /\ Recorded(s) /\ Isolated(s) /\ OutageAgrees(s)
  BY DEF Good
<1>2. <<>> \in Seq(OutboxItem) /\ Range(<<>>) = {}
  BY DEF Range
<1>3. f \in AppStateType
  BY <1>1, <1>2 DEF ForgetAccount, AppStateType, AuthStatus, MaybeAccount
<1>4. /\ f.account = None /\ f.snapshot = None /\ f.creditBaseline = None /\ f.outbox = <<>>
      /\ f.events = s.events /\ f.dedupe = s.dedupe
      /\ f.failures = s.failures /\ f.outage = s.outage /\ f.outageNotified = s.outageNotified
  BY <1>1 DEF ForgetAccount, AppStateType
<1> HIDE DEF f
<1>5. Recorded(f) /\ Isolated(f) /\ OutageAgrees(f)
  BY <1>1, <1>2, <1>4 DEF Recorded, Aligned, Isolated, OutageAgrees
<1> QED
  BY <1>3, <1>4, <1>5 DEF Good, f

-----------------------------------------------------------------------------
(* The steps. *)

\* The record of a new installation.
LEMMA InitialStateIsGood == Good(InitialAppState)
<1> DEFINE s == InitialAppState
<1>1. /\ <<>> \in Seq(Event) /\ <<>> \in Seq(OutboxItem) /\ DOMAIN <<>> = {}
      /\ Range(<<>>) = {} /\ Len(<<>>) = 0
  BY DEF Range
<1>2. s \in AppStateType
  BY <1>1 DEF InitialAppState, AppStateType, MaybeAccount, AuthStatus
<1>3. Recorded(s)
  BY <1>1, LimitsAssumption DEF InitialAppState, Recorded, Aligned
<1>4. Isolated(s) /\ OutageAgrees(s)
  BY <1>1 DEF InitialAppState, Isolated, OutageAgrees
<1> QED
  BY <1>2, <1>3, <1>4 DEF Good

\* The invariant holds when the process starts on a new installation.
LEMMA InitEstablishesIInv == MonitorInit => IInv
<1> SUFFICES ASSUME MonitorInit PROVE IInv
  OBVIOUS
<1> USE DEF MonitorInit
<1>1. Good(st)
  BY InitialStateIsGood
<1>2. NoTask \in Task /\ NoTask.pc = "none"
  BY DEF NoTask, Task, Pcs, MaybeAccount
<1>3. Idle \in CallerType /\ Idle.task = None
  BY DEF Idle, CallerType
<1>4. Control
  BY <1>2, <1>3, TasksAssumption DEF Control, SingleFlight, WaitingOnly, InFlight
<1>5. Captured
  BY <1>2 DEF Captured, CapturedIsCurrent, PausedOverOneAccount
<1>6. Surroundings
  BY DEF Surroundings, MaybeAccount
<1> QED
  BY <1>1, <1>4, <1>5, <1>6 DEF IInv

\* The only check in flight ends: none is left, and nobody waits for it.
LEMMA FinishKeepsControl ==
    ASSUME Control, NEW t \in TaskIds, InFlight(t), NEW r \in Results, Finish(t, r)
    PROVE  Control' /\ Captured'
<1>1. /\ NoTask \in Task /\ NoTask.pc = "none"
      /\ Returned(r) \in CallerType /\ Returned(r).task = None
  BY DEF NoTask, Task, Pcs, MaybeAccount, Returned, CallerType
<1>2. current = t /\ current' = None
  BY DEF Control, SingleFlight, Finish
<1>3. tasks' \in [TaskIds -> Task]
  BY <1>1 DEF Control, Finish
<1>4. \A u \in TaskIds : tasks'[u].pc = "none"
  BY <1>1, <1>2 DEF Control, SingleFlight, InFlight, Finish
<1>5. caller' \in [Callers -> CallerType]
  BY <1>1 DEF Control, Finish
<1>6. ASSUME NEW c \in Callers
      PROVE  caller'[c].task = None
  <2>1. CASE caller[c].task = None
    BY <1>1, <2>1 DEF Finish
  <2>2. CASE caller[c].task # None
    <3>1. caller[c] \in CallerType /\ caller[c].result = None /\ caller[c].task = t
      BY <1>2, <2>2 DEF Control, SingleFlight, WaitingOnly, InFlight, CallerType
    <3>2. caller[c] = Waiting(t)
      BY <3>1 DEF CallerType, Waiting
    <3> QED
      BY <1>1, <3>2 DEF Finish, Awaiting
  <2> QED
    BY <2>1, <2>2
<1>7. Control'
  BY <1>2, <1>3, <1>4, <1>5, <1>6, TasksAssumption
     DEF Control, SingleFlight, WaitingOnly, InFlight
<1>8. Captured'
  BY <1>4 DEF Captured, CapturedIsCurrent, PausedOverOneAccount
<1> QED
  BY <1>7, <1>8

\* A check that finds nobody signed in records it and ends.
LEMMA AuthFailureKeepsIInv ==
    ASSUME IInv, NEW t \in TaskIds, InFlight(t), AuthFailure(t), Surroundings'
    PROVE  IInv'
<1>1. Good(st')
  BY RecordAuthRequiredIsGood DEF IInv, AuthFailure
<1>2. Control' /\ Captured'
  BY FinishKeepsControl DEF IInv, AuthFailure, Results
<1> QED
  BY <1>1, <1>2 DEF IInv

\* A check whose request fails records the failure and ends.
LEMMA FailureKeepsIInv ==
    ASSUME IInv, NEW t \in TaskIds, InFlight(t), Failure(t), Surroundings'
    PROVE  IInv'
<1>1. Good(st')
  BY RecordFailureIsGood DEF IInv, Surroundings, Failure
<1>2. Control' /\ Captured'
  BY FinishKeepsControl DEF IInv, Failure, Results
<1> QED
  BY <1>1, <1>2 DEF IInv

\* A check in flight goes on to its next await without touching anything else.
LEMMA NextAwaitKeepsControl ==
    ASSUME Control, NEW t \in TaskIds, InFlight(t), NEW next \in Task, next.pc # "none",
           tasks' = [tasks EXCEPT ![t] = next], UNCHANGED <<current, caller>>
    PROVE  Control' /\ \A u \in TaskIds : u # t => ~InFlight(u)' /\ tasks'[u] = tasks[u]
<1>1. tasks' \in [TaskIds -> Task]
  BY DEF Control
<1>2. \A u \in TaskIds : InFlight(u)' <=> InFlight(u)
  BY DEF Control, InFlight
<1>3. current = t
  BY DEF Control, SingleFlight
<1>4. \A c \in Callers : caller[c].task # None => caller[c].task \in TaskIds
  BY DEF Control, CallerType
<1>5. SingleFlight'
  BY <1>2, <1>4 DEF Control, SingleFlight, InFlight
<1>6. WaitingOnly'
  BY DEF Control, WaitingOnly
<1> QED
  BY <1>1, <1>2, <1>3, <1>5, <1>6 DEF Control, SingleFlight, InFlight

\* The baseline a commit stores is about the account it stores.
LEMMA NextBaselineOfAccount ==
    ASSUME NEW account, NEW credits, NEW old \in {None, account}
    PROVE  NextBaseline(account, credits, old) \in {None, account}
BY DEF NextBaseline

\* What the first read is compared with, and what the two reads find.
Compared(account) == IF st.account # None /\ st.account # account THEN None ELSE st.snapshot
Noticed(snapshot, late) ==
    AnalyzeChanges(Compared(snapshot.account), snapshot, late, FALSE)
       \cup (IF st.account # None /\ st.account # snapshot.account
             THEN {AccountChanged(snapshot.account)} ELSE {})
Reread(t, snapshot, late) ==
    IF snapshot.account = tasks[t].snapshot.account
    THEN AnalyzeChanges(tasks[t].previous, snapshot, late, TRUE) ELSE {}

\* A first read commits at once, or the check pauses over what it captured.
LEMMA ObserveKeepsIInv ==
    ASSUME IInv, NEW t \in TaskIds, InFlight(t), NEW snapshot \in Snapshot,
           NEW credits \in BOOLEAN, NEW late \in BOOLEAN,
           Observe(t, snapshot, credits, late), enabled' = enabled, Surroundings'
    PROVE  /\ IInv'
           /\ \/ st' = st
              \/ /\ Settles(st, st', snapshot, Noticed(snapshot, late))
                 /\ ~RequiresConfirmation(Compared(snapshot.account), snapshot, late)
<1> DEFINE changed  == st.account # None /\ st.account # snapshot.account
           previous == IF changed THEN None ELSE st.snapshot
           baseline == IF changed THEN None ELSE st.creditBaseline
           detected == AnalyzeChanges(previous, snapshot, late, FALSE)
                       \cup (IF changed THEN {AccountChanged(snapshot.account)} ELSE {})
<1>1. /\ st \in AppStateType /\ Isolated(st) /\ snapshot.account \in Accounts
      /\ None \notin Accounts
  BY AccountsAssumption DEF IInv, Good, Snapshot
<1>2. previous \in Snapshot \cup {None}
  BY <1>1 DEF AppStateType
<1>3. baseline \in {None, snapshot.account}
  BY <1>1 DEF Isolated
<1>4. ~changed => st.account \in {None, snapshot.account}
  OBVIOUS
<1>5. CASE RequiresConfirmation(previous, snapshot, late)
  <2> DEFINE next == [pc |-> "sleep", seen |-> {}, previous |-> previous,
                      baseline |-> baseline, snapshot |-> snapshot,
                      credits |-> credits, enabled |-> enabled]
  <2>1. UNCHANGED <<st, current, caller>> /\ tasks' = [tasks EXCEPT ![t] = next]
    BY <1>5 DEF Observe
  <2>2. ~changed /\ previous = st.snapshot /\ baseline = st.creditBaseline
        /\ previous \in Snapshot /\ previous # None
        /\ previous.account = snapshot.account
    BY <1>2, <1>5 DEF RequiresConfirmation, Verdict, Advanced
  <2>3. next \in Task /\ next.pc # "none"
    BY <1>1, <1>2, <1>3 DEF Task, Pcs, MaybeAccount, IInv, Surroundings
  <2> HIDE DEF next, previous, baseline, changed
  <2>4. Control' /\ \A u \in TaskIds : u # t => ~InFlight(u)' /\ tasks'[u] = tasks[u]
    BY <2>1, <2>3, NextAwaitKeepsControl DEF IInv
  <2>5. tasks'[t] = next
    BY <2>1 DEF IInv, Control
  <2>6. /\ next.snapshot = snapshot /\ next.previous = previous /\ next.baseline = baseline
    BY DEF next
  <2>7. CapturedIsCurrent'
    BY <2>1, <2>2, <2>4, <2>5, <2>6 DEF CapturedIsCurrent, InFlight
  <2>8. PausedOverOneAccount'
    BY <1>3, <2>2, <2>4, <2>5, <2>6 DEF PausedOverOneAccount, InFlight
  <2> QED
    BY <2>1, <2>4, <2>7, <2>8 DEF IInv, Captured, Good
<1>6. CASE ~RequiresConfirmation(previous, snapshot, late)
  <2>1. /\ st' = CommitCheck(st, snapshot, changed, detected,
                     NextBaseline(snapshot.account, credits, baseline), enabled)
        /\ Finish(t, "updated")
    BY <1>6 DEF Observe
  <2> DEFINE seen == AnalyzeChanges(previous, snapshot, late, FALSE)
             switch == IF changed THEN {AccountChanged(snapshot.account)} ELSE {}
  <2>2. /\ seen \subseteq Event /\ IsFiniteSet(seen)
        /\ \A e \in seen : e.account = snapshot.account
    <3> HIDE DEF previous
    <3>1. \A c \in BOOLEAN :
             /\ AnalyzeChanges(previous, snapshot, late, c) \subseteq Event
             /\ IsFiniteSet(AnalyzeChanges(previous, snapshot, late, c))
             /\ \A e \in AnalyzeChanges(previous, snapshot, late, c) :
                   e.account = snapshot.account
      <4>1. ASSUME NEW p \in Snapshot \cup {None}, NEW c \in BOOLEAN
            PROVE  /\ AnalyzeChanges(p, snapshot, late, c) \subseteq Event
                   /\ IsFiniteSet(AnalyzeChanges(p, snapshot, late, c))
                   /\ \A e \in AnalyzeChanges(p, snapshot, late, c) :
                         e.account = snapshot.account
        BY DetectedEvents
      <4> QED
        BY <1>2, <4>1
    <3> QED
      BY <3>1
  <2>3. /\ switch \subseteq Event /\ IsFiniteSet(switch)
        /\ \A e \in switch : e.account = snapshot.account
    <3>1. <<>> \in Seq(Nat)
      OBVIOUS
    <3>2. AccountChanged(snapshot.account) \in Event
          /\ AccountChanged(snapshot.account).account = snapshot.account
      BY <1>1, <3>1 DEF AccountChanged, Event, EventTypes, MaybeAccount
    <3>3. IsFiniteSet(switch)
      BY FS_Singleton, FS_EmptySet
    <3> QED
      BY <3>2, <3>3
  <2>4. /\ detected \subseteq Event /\ IsFiniteSet(detected)
        /\ \A e \in detected : e.account \in {None, snapshot.account}
    BY <2>2, <2>3, FS_Union
  <2>5. NextBaseline(snapshot.account, credits, baseline) \in {None, snapshot.account}
    BY <1>3, NextBaselineOfAccount
  <2> HIDE DEF detected, baseline
  <2>6. Settles(st, st', snapshot, detected)
    <3> DEFINE next == NextBaseline(snapshot.account, credits, baseline)
    <3>1. next \in {None, snapshot.account} /\ changed \in BOOLEAN /\ Good(st)
      BY <2>5 DEF IInv
    <3> HIDE DEF next, changed
    <3>2. Settles(st, CommitCheck(st, snapshot, changed, detected, next, enabled),
                  snapshot, detected)
      BY <1>4, <2>4, <3>1, CommitCheckIsGood
    <3> QED  BY <2>1, <3>2 DEF next, changed
  <2>7. Control' /\ Captured'
    BY <2>1, FinishKeepsControl DEF IInv, Results
  <2>8. detected = Noticed(snapshot, late) /\ previous = Compared(snapshot.account)
    BY DEF detected, Noticed, Compared
  <2> HIDE DEF previous
  <2> QED
    BY <1>6, <2>6, <2>7, <2>8 DEF IInv, Settles
<1> QED
  BY <1>5, <1>6

\* The second read commits against what was captured before the pause: that is
\* still what is recorded, or nothing is.
LEMMA ConfirmKeepsIInv ==
    ASSUME IInv, NEW t \in TaskIds, tasks[t].pc = "confirm", NEW snapshot \in Snapshot,
           NEW credits \in BOOLEAN, NEW late \in BOOLEAN,
           Confirm(t, snapshot, credits, late), Surroundings'
    PROVE  /\ IInv'
           /\ Settles(st, st', IF snapshot.account = tasks[t].snapshot.account
                     THEN snapshot ELSE tasks[t].snapshot, Reread(t, snapshot, late))
<1> DEFINE task == tasks[t]
           same == snapshot.account = task.snapshot.account
           kept == IF same THEN snapshot ELSE task.snapshot
           known == IF same THEN credits ELSE task.credits
           detected == IF same THEN AnalyzeChanges(task.previous, snapshot, late, TRUE) ELSE {}
           baseline == NextBaseline(kept.account, known, task.baseline)
<1>1. /\ task.snapshot \in Snapshot /\ task.previous \in Snapshot /\ task.previous # None
      /\ task.previous.account = task.snapshot.account
      /\ task.baseline \in {None, task.snapshot.account}
  BY DEF IInv, Captured, PausedOverOneAccount
<1>2. kept \in Snapshot /\ kept.account = task.snapshot.account
  BY <1>1
<1>3. st.account \in {None, kept.account}
  <2>1. CASE st.account = None
    BY <2>1
  <2>2. CASE st.account # None
    <3>1. st.snapshot = task.previous
      BY <2>2 DEF IInv, Captured, CapturedIsCurrent
    <3>2. st.snapshot.account = st.account
      BY <1>1, <3>1 DEF IInv, Good, Isolated
    <3> QED
      BY <1>1, <1>2, <3>1, <3>2
  <2> QED
    BY <2>1, <2>2
<1>4. /\ detected \subseteq Event /\ IsFiniteSet(detected)
      /\ \A e \in detected : e.account \in {None, kept.account}
  <2>1. CASE same
    <3> DEFINE previous == task.previous
               confirmed == TRUE
               seen == AnalyzeChanges(previous, snapshot, late, confirmed)
    <3>1. previous \in Snapshot \cup {None} /\ seen = detected
      BY <1>1, <2>1
    <3> HIDE DEF previous, confirmed, detected
    <3>2. /\ seen \subseteq Event /\ IsFiniteSet(seen)
          /\ \A e \in seen : e.account = snapshot.account
      BY <3>1, DetectedEvents
    <3> HIDE DEF seen
    <3> QED
      BY <2>1, <3>1, <3>2
  <2>2. CASE ~same
    BY <2>2, FS_EmptySet
  <2> QED
    BY <2>1, <2>2
<1>5. baseline \in {None, kept.account}
  BY <1>1, <1>2, NextBaselineOfAccount
<1>6. /\ st' = CommitCheck(st, kept, FALSE, detected, baseline, task.enabled)
      /\ Finish(t, "updated")
  BY DEF Confirm
<1> HIDE DEF kept, detected, baseline
<1>7. Settles(st, st', kept, detected)
  <2>1. Good(st) /\ FALSE \in BOOLEAN
    BY DEF IInv
  <2>2. Settles(st, CommitCheck(st, kept, FALSE, detected, baseline, task.enabled),
                kept, detected)
    BY <1>2, <1>3, <1>4, <1>5, <2>1, CommitCheckIsGood
  <2> QED  BY <1>6, <2>2
<1>8. Control' /\ Captured'
  BY <1>6, FinishKeepsControl DEF IInv, Results, InFlight
<1>9. Settles(st, st', kept, Reread(t, snapshot, late))
  BY <1>7 DEF Reread, detected
<1>10. IInv'
  BY <1>7, <1>8 DEF IInv, Settles
<1> QED
  BY <1>9, <1>10 DEF kept

\* The steps of a check, from the answer of account/read to the commit.
LEMMA TaskStepKeepsIInv ==
    ASSUME IInv, NEW t \in TaskIds, TaskStep(t)
    PROVE  IInv'
<1>1. Surroundings'
  BY DEF IInv, Surroundings, TaskStep, AccountReply, LimitsReply, ConfirmationDue, ConfirmReply
<1>2. /\ tasks[t] \in Task /\ codex \in MaybeAccount /\ Snapshot = [account : Accounts, window : Windows]
      /\ tasks[t].seen \ {None} \subseteq Accounts
  BY DEF IInv, Control, Surroundings, Snapshot, Task, MaybeAccount
<1>3. CASE AccountReply(t)
  <2>1. InFlight(t)
    BY <1>3 DEF AccountReply, InFlight
  <2>2. CASE tasks' = [tasks EXCEPT ![t].pc = "limits", ![t].seen = {codex}]
             /\ UNCHANGED <<st, current, caller>>
    <3> DEFINE next == [tasks[t] EXCEPT !.pc = "limits", !.seen = {codex}]
    <3>1. tasks' = [tasks EXCEPT ![t] = next]
      BY <2>2 DEF IInv, Control
    <3>2. next \in Task /\ next.pc = "limits"
      BY <1>2 DEF Task, Pcs
    <3> HIDE DEF next
    <3>3. Control' /\ \A u \in TaskIds : u # t => ~InFlight(u)' /\ tasks'[u] = tasks[u]
      BY <2>1, <2>2, <3>1, <3>2, NextAwaitKeepsControl DEF IInv
    <3>4. tasks'[t].pc = "limits"
      BY <3>1, <3>2 DEF IInv, Control
    <3>5. Captured'
      BY <3>3, <3>4 DEF Captured, CapturedIsCurrent, PausedOverOneAccount, InFlight
    <3> QED
      BY <1>1, <2>2, <3>3, <3>5 DEF IInv, Good
  <2>3. CASE AuthFailure(t)
    BY <1>1, <2>1, <2>3, AuthFailureKeepsIInv
  <2>4. CASE Failure(t)
    BY <1>1, <2>1, <2>4, FailureKeepsIInv
  <2> QED
    BY <1>3, <2>2, <2>3, <2>4 DEF AccountReply
<1>4. CASE LimitsReply(t)
  <2>1. InFlight(t)
    BY <1>4 DEF LimitsReply, InFlight
  <2>2. ASSUME NEW a \in tasks[t].seen \ {None}, NEW w \in Windows, NEW credits \in BOOLEAN,
               NEW late \in BOOLEAN, Observe(t, [account |-> a, window |-> w], credits, late)
        PROVE  IInv'
    <3>1. [account |-> a, window |-> w] \in Snapshot
      BY <1>2
    <3>2. enabled' = enabled
      BY <1>4 DEF LimitsReply
    <3> QED
      BY <1>1, <2>1, <2>2, <3>1, <3>2, ObserveKeepsIInv
  <2>3. CASE AuthFailure(t)
    BY <1>1, <2>1, <2>3, AuthFailureKeepsIInv
  <2>4. CASE Failure(t)
    BY <1>1, <2>1, <2>4, FailureKeepsIInv
  <2> QED
    BY <1>4, <2>2, <2>3, <2>4 DEF LimitsReply
<1>5. CASE ConfirmationDue(t)
  <2> DEFINE next == [tasks[t] EXCEPT !.pc = "confirm", !.seen = {codex}]
  <2>1. InFlight(t) /\ tasks[t].pc = "sleep" /\ UNCHANGED <<st, current, caller>>
    BY <1>5 DEF ConfirmationDue, InFlight
  <2>2. tasks' = [tasks EXCEPT ![t] = next]
    BY <1>5 DEF ConfirmationDue, IInv, Control
  <2>3. /\ next \in Task /\ next.pc = "confirm" /\ next.previous = tasks[t].previous
        /\ next.baseline = tasks[t].baseline /\ next.snapshot = tasks[t].snapshot
    BY <1>2 DEF Task, Pcs
  <2> HIDE DEF next
  <2>4. Control' /\ \A u \in TaskIds : u # t => ~InFlight(u)' /\ tasks'[u] = tasks[u]
    BY <2>1, <2>2, <2>3, NextAwaitKeepsControl DEF IInv
  <2>5. tasks'[t] = next
    BY <2>2 DEF IInv, Control
  <2>6. Captured'
    BY <2>1, <2>3, <2>4, <2>5 DEF IInv, Captured, CapturedIsCurrent, PausedOverOneAccount, InFlight
  <2> QED
    BY <1>1, <2>1, <2>4, <2>6 DEF IInv, Good
<1>6. CASE ConfirmReply(t)
  <2>1. tasks[t].pc = "confirm" /\ InFlight(t)
    BY <1>6 DEF ConfirmReply, InFlight
  <2>2. ASSUME NEW a \in tasks[t].seen \ {None}, NEW w \in Windows, NEW credits \in BOOLEAN,
               NEW late \in BOOLEAN, Confirm(t, [account |-> a, window |-> w], credits, late)
        PROVE  IInv'
    <3>1. [account |-> a, window |-> w] \in Snapshot
      BY <1>2
    <3> QED
      BY <1>1, <2>1, <2>2, <3>1, ConfirmKeepsIInv
  <2>3. CASE AuthFailure(t)
    BY <1>1, <2>1, <2>3, AuthFailureKeepsIInv
  <2>4. CASE Failure(t)
    BY <1>1, <2>1, <2>4, FailureKeepsIInv
  <2> QED
    BY <1>6, <2>2, <2>3, <2>4 DEF ConfirmReply
<1> QED
  BY <1>3, <1>4, <1>5, <1>6 DEF TaskStep

\* A caller joins the check in flight, is answered at once, or starts a check
\* when none is in flight.
LEMMA CheckNowKeepsIInv ==
    ASSUME IInv, NEW c \in Callers, CheckNow(c), loginDone' \subseteq LoginCallers
    PROVE  IInv'
<1>1. st' = st /\ enabled' = enabled /\ codex' = codex /\ caller[c] = Idle
  BY DEF CheckNow
<1>2. Good(st')
  BY <1>1 DEF IInv
<1>3. CASE Join(c)
  <2>1. /\ current \in TaskIds /\ InFlight(current) /\ UNCHANGED <<tasks, current>>
        /\ caller' = [caller EXCEPT ![c] = Waiting(current)]
    BY <1>3 DEF Join, Joinable, IInv, Control
  <2>2. Waiting(current) \in CallerType /\ Waiting(current).task = current
        /\ Waiting(current).result = None
    BY <2>1 DEF Waiting, CallerType
  <2>3. Control'
    BY <2>1, <2>2 DEF IInv, Control, SingleFlight, WaitingOnly, InFlight
  <2>4. Captured'
    BY <1>1, <2>1 DEF IInv, Captured, CapturedIsCurrent, PausedOverOneAccount
  <2>5. Surroundings'
    BY <1>3 DEF CheckNow, Join, IInv, Surroundings
  <2> QED
    BY <1>2, <2>3, <2>4, <2>5 DEF IInv
<1>4. CASE AnswerRecent(c)
  <2>1. UNCHANGED <<tasks, current>> /\ caller' = [caller EXCEPT ![c] = Returned("recent")]
    BY <1>4 DEF AnswerRecent
  <2>2. Returned("recent") \in CallerType /\ Returned("recent").task = None
    BY DEF Returned, CallerType, Results
  <2>3. Control'
    BY <2>1, <2>2 DEF IInv, Control, SingleFlight, WaitingOnly, InFlight
  <2>4. Captured'
    BY <1>1, <2>1 DEF IInv, Captured, CapturedIsCurrent, PausedOverOneAccount
  <2>5. Surroundings'
    BY <1>4 DEF CheckNow, AnswerRecent, IInv, Surroundings
  <2> QED
    BY <1>2, <2>3, <2>4, <2>5 DEF IInv
<1>5. CASE Start(c)
  <2>1. \A u \in TaskIds : ~InFlight(u)
    BY <1>5, TasksAssumption DEF Start, Joinable, IInv, Control, SingleFlight
  <2>2. \A d \in Callers : caller[d].task = None
    BY <2>1 DEF IInv, Control, SingleFlight, CallerType
  <2> DEFINE first == [NoTask EXCEPT !.pc = "account", !.seen = {codex}]
  <2>3. PICK t \in TaskIds : /\ current' = t /\ tasks' = [tasks EXCEPT ![t] = first]
                            /\ caller' = [caller EXCEPT ![c] = Waiting(t)]
    BY <1>5 DEF Start
  <2>4. first \in Task /\ first.pc = "account"
    BY DEF NoTask, Task, Pcs, MaybeAccount, IInv, Surroundings
  <2>5. Waiting(t) \in CallerType /\ Waiting(t).task = t /\ Waiting(t).result = None
    BY DEF Waiting, CallerType
  <2> HIDE DEF first
  <2>6. tasks' \in [TaskIds -> Task] /\ caller' \in [Callers -> CallerType]
    BY <2>3, <2>4, <2>5 DEF IInv, Control
  <2>7. \A u \in TaskIds : /\ InFlight(u)' <=> u = t
                           /\ tasks'[u].pc \in {"none", "account"}
    BY <2>1, <2>3, <2>4 DEF IInv, Control, InFlight
  <2>8. \A d \in Callers : /\ d # c => caller'[d] = caller[d]
                           /\ d = c => caller'[d] = Waiting(t)
    BY <2>3 DEF IInv, Control
  <2>9. SingleFlight' /\ WaitingOnly'
    BY <2>2, <2>3, <2>5, <2>7, <2>8 DEF SingleFlight, WaitingOnly, InFlight
  <2>10. Captured'
    BY <2>7 DEF Captured, CapturedIsCurrent, PausedOverOneAccount
  <2>11. Surroundings'
    BY <1>5 DEF CheckNow, Start, IInv, Surroundings
  <2> QED
    BY <1>2, <2>3, <2>6, <2>9, <2>10, <2>11 DEF IInv, Control
<1> QED
  BY <1>3, <1>4, <1>5 DEF CheckNow

\* The checks stay where they are, with what they have captured.
SameChecks ==
    /\ tasks' \in [TaskIds -> Task]
    /\ \A t \in TaskIds :
          /\ tasks'[t].pc = tasks[t].pc /\ tasks'[t].snapshot = tasks[t].snapshot
          /\ tasks'[t].previous = tasks[t].previous /\ tasks'[t].baseline = tasks[t].baseline

\* A change of the account at the server only touches what may be answered.
LEMMA ServerMovesChecks ==
    ASSUME Control, NEW a \in MaybeAccount, CodexBecomes(a)
    PROVE  SameChecks
<1> SUFFICES ASSUME NEW t \in TaskIds
             PROVE  /\ tasks'[t] \in Task
                    /\ tasks'[t].pc = tasks[t].pc /\ tasks'[t].snapshot = tasks[t].snapshot
                    /\ tasks'[t].previous = tasks[t].previous
                    /\ tasks'[t].baseline = tasks[t].baseline
  BY DEF SameChecks, CodexBecomes
<1>1. tasks[t] \in Task
  BY DEF Control
<1>2. tasks'[t] \in {tasks[t], [tasks[t] EXCEPT !.seen = @ \cup {a}]}
  BY DEF CodexBecomes
<1> DEFINE moved == [tasks[t] EXCEPT !.seen = @ \cup {a}]
<1>3. /\ moved \in Task /\ moved.pc = tasks[t].pc /\ moved.snapshot = tasks[t].snapshot
      /\ moved.previous = tasks[t].previous /\ moved.baseline = tasks[t].baseline
  BY <1>1 DEF Task
<1> HIDE DEF moved
<1>4. tasks'[t] \in {tasks[t], moved}
  BY <1>2 DEF moved
<1> QED  BY <1>1, <1>3, <1>4

\* The steps that leave checks and their callers alone.
LEMMA OtherStepKeepsIInv ==
    ASSUME IInv, SameChecks, UNCHANGED <<current, caller>>, Surroundings',
           \/ st' = st
           \/ st' = ForgetAccount(st)
    PROVE  IInv'
<1>1. Control'
  <2>1. tasks' \in [TaskIds -> Task] /\ \A t \in TaskIds : InFlight(t)' <=> InFlight(t)
    BY DEF SameChecks, InFlight
  <2>2. SingleFlight'
    <3>1. /\ \A t \in TaskIds : InFlight(t) <=> current = t
          /\ \A c \in Callers : caller[c].task # None => InFlight(caller[c].task)
          /\ \A c \in Callers : caller[c].task \in TaskIds \cup {None}
      BY DEF IInv, Control, SingleFlight, CallerType
    <3>2. current' = current /\ caller' = caller
      OBVIOUS
    <3>3. \A c \in Callers : caller[c].task # None => InFlight(caller[c].task)'
      BY <2>1, <3>1, <3>2
    <3> QED  BY <2>1, <3>1, <3>2, <3>3 DEF SingleFlight
  <2>3. WaitingOnly'
    BY DEF IInv, Control, WaitingOnly
  <2> QED  BY <2>1, <2>2, <2>3 DEF IInv, Control
<1>2. PausedOverOneAccount'
  BY DEF IInv, Captured, PausedOverOneAccount, SameChecks
<1>3. CASE st' = st
  BY <1>1, <1>2, <1>3 DEF IInv, Good, Captured, CapturedIsCurrent, SameChecks
<1>4. CASE st' = ForgetAccount(st)
  <2>1. Good(st') /\ st'.account = None
    BY <1>4, ForgetAccountIsGood DEF IInv
  <2>2. CapturedIsCurrent'
    BY <2>1 DEF CapturedIsCurrent
  <2> QED
    BY <1>1, <1>2, <2>1, <2>2 DEF IInv, Captured
<1> QED
  BY <1>3, <1>4

\* A call of check_now returns.
LEMMA ResumeKeepsIInv ==
    ASSUME IInv, NEW c \in Callers, Resume(c)
    PROVE  IInv'
<1>1. Idle \in CallerType /\ Idle.task = None
  BY DEF Idle, CallerType
<1>2. Control'
  BY <1>1 DEF Resume, IInv, Control, SingleFlight, WaitingOnly, InFlight
<1>3. Captured'
  BY DEF Resume, IInv, Captured, CapturedIsCurrent, PausedOverOneAccount
<1>4. Surroundings' /\ st' = st
  BY DEF Resume, IInv, Surroundings
<1> QED
  BY <1>2, <1>3, <1>4 DEF IInv, Good

\* Every step keeps the invariant.
LEMMA StepKeepsIInv ==
    ASSUME IInv, [MonitorNext]_monitorVars
    PROVE  IInv'
<1>1. ASSUME NEW c \in Callers, Check(c)
      PROVE  IInv'
  BY <1>1, CheckNowKeepsIInv DEF Check, IInv, Surroundings
<1>2. ASSUME NEW c \in Callers, Resume(c)
      PROVE  IInv'
  BY <1>2, ResumeKeepsIInv
<1>3. ASSUME NEW t \in TaskIds, TaskStep(t)
      PROVE  IInv'
  BY <1>3, TaskStepKeepsIInv
<1>4. ASSUME NEW a \in Accounts, SignIn(a)
      PROVE  IInv'
  <2>1. Surroundings' /\ st' = st /\ UNCHANGED <<current, caller>>
    BY <1>4 DEF SignIn, CodexBecomes, IInv, Surroundings, MaybeAccount
  <2>2. SameChecks
    BY <1>4, ServerMovesChecks DEF SignIn, IInv, MaybeAccount
  <2> QED
    BY <2>1, <2>2, OtherStepKeepsIInv
<1>5. ASSUME NEW type \in Switches, ToggleNotification(type)
      PROVE  IInv'
  <2>1. Surroundings' /\ st' = st /\ UNCHANGED <<tasks, current, caller>>
    BY <1>5, SwitchesAssumption DEF ToggleNotification, IInv, Surroundings
  <2>2. SameChecks
    BY <2>1 DEF SameChecks, IInv, Control
  <2> QED
    BY <2>1, <2>2, OtherStepKeepsIInv
<1>6. ASSUME NEW l \in LoginCallers, LoginCheck(l)
      PROVE  IInv'
  <2>1. loginDone' \subseteq LoginCallers /\ CheckNow(l) /\ l \in Callers
    BY <1>6, CallersAssumption DEF LoginCheck, IInv, Surroundings
  <2> QED
    BY <2>1, CheckNowKeepsIInv
<1>7. CASE SignedOutElsewhere \/ LogoutRequest \/ LogoutAtServer \/ LogoutFailed \/ CooldownEnds
  <2>1. st' = st /\ UNCHANGED <<current, caller>>
    BY <1>7 DEF SignedOutElsewhere, LogoutRequest, LogoutAtServer, LogoutFailed, CooldownEnds
  <2>8. SameChecks
    <3>1. None \in MaybeAccount
      BY DEF MaybeAccount
    <3>2. CASE SignedOutElsewhere \/ LogoutAtServer
      BY <3>1, <3>2, ServerMovesChecks DEF SignedOutElsewhere, LogoutAtServer, IInv
    <3>3. CASE LogoutRequest \/ LogoutFailed \/ CooldownEnds
      BY <3>3 DEF LogoutRequest, LogoutFailed, CooldownEnds, SameChecks, IInv, Control
    <3> QED  BY <1>7, <3>2, <3>3
  <2>2. Surroundings
    BY DEF IInv
  <2>3. SignedOutElsewhere => Surroundings'
    BY <2>2 DEF SignedOutElsewhere, CodexBecomes, Surroundings, MaybeAccount
  <2>4. LogoutRequest => Surroundings'
    BY <2>2 DEF LogoutRequest, Surroundings
  <2>5. LogoutAtServer => Surroundings'
    BY <2>2 DEF LogoutAtServer, CodexBecomes, Surroundings, MaybeAccount
  <2>6. LogoutFailed => Surroundings'
    BY <2>2 DEF LogoutFailed, Surroundings
  <2>7. CooldownEnds => Surroundings'
    BY <2>2 DEF CooldownEnds, Surroundings
  <2> QED
    BY <1>7, <2>1, <2>3, <2>4, <2>5, <2>6, <2>7, <2>8, OtherStepKeepsIInv
<1>8. CASE LogoutCommit
  <2>1. Surroundings' /\ st' = ForgetAccount(st) /\ UNCHANGED <<tasks, current, caller>>
    BY <1>8 DEF LogoutCommit, IInv, Surroundings
  <2>2. SameChecks
    BY <2>1 DEF SameChecks, IInv, Control
  <2> QED
    BY <2>1, <2>2, OtherStepKeepsIInv
<1>9. CASE UNCHANGED monitorVars
  <2>1. Surroundings' /\ st' = st /\ UNCHANGED <<tasks, current, caller>>
    BY <1>9 DEF monitorVars, IInv, Surroundings
  <2>2. SameChecks
    BY <2>1 DEF SameChecks, IInv, Control
  <2> QED
    BY <2>1, <2>2, OtherStepKeepsIInv
<1> QED
  BY <1>1, <1>2, <1>3, <1>4, <1>5, <1>6, <1>7, <1>8, <1>9 DEF MonitorNext, LogoutStep

-----------------------------------------------------------------------------
(* The theorems. *)

\* The invariant holds in every state of every behaviour.
LEMMA IInvHolds == MonitorSpec => []IInv
<1>1. MonitorInit => IInv
  BY InitEstablishesIInv
<1>2. IInv /\ [MonitorNext]_monitorVars => IInv'
  BY StepKeepsIInv
<1> QED
  BY <1>1, <1>2, PTL DEF MonitorSpec

\* Every variable of the monitor keeps its type, for all constants.
THEOREM MonitorTypeCorrect == MonitorSpec => []MonitorTypeOK
<1>1. IInv => MonitorTypeOK
  BY DEF IInv, Good, Control, Surroundings, MonitorTypeOK
<1> QED
  BY <1>1, IInvHolds, PTL

\* However many callers and tasks there are, one check runs at a time, and
\* whoever waits for a check waits for that one (monitor.py:60-74).
THEOREM OneCheckAtATime == MonitorSpec => []SingleFlight
<1>1. IInv => SingleFlight
  BY DEF IInv, Control
<1> QED
  BY <1>1, IInvHolds, PTL

\* Snapshot, credit baseline and queued notices are about the recorded account,
\* for every number of accounts and every interleaving of checks with logins
\* and logouts (monitor.py:87-146, telegram_ui.py:712-726).
THEOREM AccountsNeverMix == MonitorSpec => []AccountIsolation
<1>1. IInv => AccountIsolation
  BY DEF IInv, Good, AccountIsolation
<1> QED
  BY <1>1, IInvHolds, PTL

\* Deduplication and the two trims keep every id unique and the history the
\* newest part of the ids, for all limits (monitor.py:206-229, models.py:273).
THEOREM EventsRecordedOnce == MonitorSpec => []RecordedOnce
<1>1. IInv => RecordedOnce
  BY DEF IInv, Good, RecordedOnce
<1> QED
  BY <1>1, IInvHolds, PTL

\* What a paused check captured is still recorded, or a logout has forgotten it
\* (monitor.py:87-105).
THEOREM CapturedStaysCurrent == MonitorSpec => []CapturedIsCurrent
<1>1. IInv => CapturedIsCurrent
  BY DEF IInv, Captured
<1> QED
  BY <1>1, IInvHolds, PTL

\* An outage is open from the first failure on and announced from the third on
\* (monitor.py:181-204).
THEOREM OutageFieldsAgree == MonitorSpec => []OutageConsistent
<1>1. IInv => OutageConsistent
  BY DEF IInv, Good, OutageConsistent
<1> QED
  BY <1>1, IInvHolds, PTL

-----------------------------------------------------------------------------
(* What is recorded of resets and outages. *)

\* What a step of the monitor does to the record.
LEMMA StepsOfTheRecord ==
    ASSUME IInv, [MonitorNext]_monitorVars
    PROVE  \/ st' \in {st, ForgetAccount(st)}
           \/ st' = RecordAuthRequired(st, enabled)
           \/ st' = RecordFailure(st, checks, enabled)
           \/ \E t \in TaskIds : \E a \in tasks[t].seen \ {None}, w \in Windows, credits, late \in BOOLEAN :
                 \/ /\ tasks[t].pc = "limits" /\ enabled' = enabled
                    /\ Observe(t, [account |-> a, window |-> w], credits, late)
                 \/ tasks[t].pc = "confirm" /\ Confirm(t, [account |-> a, window |-> w], credits, late)
<1> DEFINE Goal ==
           \/ st' \in {st, ForgetAccount(st)}
           \/ st' = RecordAuthRequired(st, enabled)
           \/ st' = RecordFailure(st, checks, enabled)
           \/ \E t \in TaskIds : \E a \in tasks[t].seen \ {None}, w \in Windows, credits, late \in BOOLEAN :
                 \/ /\ tasks[t].pc = "limits" /\ enabled' = enabled
                    /\ Observe(t, [account |-> a, window |-> w], credits, late)
                 \/ tasks[t].pc = "confirm" /\ Confirm(t, [account |-> a, window |-> w], credits, late)
<1>1. ASSUME NEW t \in TaskIds, TaskStep(t)
      PROVE  Goal
  <2>1. CASE AccountReply(t)
    BY <2>1 DEF AccountReply, AuthFailure, Failure
  <2>2. CASE LimitsReply(t)
    BY <2>2 DEF LimitsReply, AuthFailure, Failure
  <2>3. CASE ConfirmationDue(t)
    BY <2>3 DEF ConfirmationDue
  <2>4. CASE ConfirmReply(t)
    BY <2>4 DEF ConfirmReply, AuthFailure, Failure
  <2> QED  BY <1>1, <2>1, <2>2, <2>3, <2>4 DEF TaskStep
<1>2. ASSUME ~(\E t \in TaskIds : TaskStep(t))
      PROVE  st' \in {st, ForgetAccount(st)}
  BY <1>2 DEF MonitorNext, monitorVars, Check, CheckNow, Resume, SignIn, ToggleNotification,
              LoginCheck, SignedOutElsewhere, LogoutRequest, LogoutStep, LogoutAtServer,
              LogoutFailed, LogoutCommit, CooldownEnds
<1> HIDE DEF Goal
<1>3. (\E t \in TaskIds : TaskStep(t)) => Goal
  BY <1>1
<1>4. st' \in {st, ForgetAccount(st)} => Goal
  BY DEF Goal
<1> QED  BY <1>2, <1>3, <1>4 DEF Goal

\* A check pauses over a window that has moved, and takes it into the second read.
PausedOverMove ==
    \A t \in TaskIds : tasks[t].pc \in {"sleep", "confirm"} =>
        Advanced(tasks[t].previous, tasks[t].snapshot)

LEMMA InitPaused == MonitorInit => PausedOverMove
BY DEF MonitorInit, PausedOverMove, NoTask

\* Only the first of two reads begins a pause.
LEMMA StepPaused ==
    ASSUME IInv, PausedOverMove, [MonitorNext]_monitorVars PROVE PausedOverMove'
<1> SUFFICES ASSUME NEW u \in TaskIds, tasks'[u].pc \in {"sleep", "confirm"}
             PROVE  Advanced(tasks'[u].previous, tasks'[u].snapshot)
  BY DEF PausedOverMove
<1>1. tasks \in [TaskIds -> Task] /\ codex \in MaybeAccount
  BY DEF IInv, Control, Surroundings
<1>2. ASSUME NEW t \in TaskIds, NEW r, Finish(t, r)
      PROVE  tasks'[u] = tasks[u]
  BY <1>1, <1>2 DEF Finish, NoTask
<1>3. tasks'[u] = tasks[u] => Advanced(tasks'[u].previous, tasks'[u].snapshot)
  BY DEF PausedOverMove
<1>4. ASSUME NEW t \in TaskIds, AccountReply(t)
      PROVE  tasks'[u] = tasks[u]
  <2>1. CASE tasks' = [tasks EXCEPT ![t].pc = "limits", ![t].seen = {codex}]
    BY <1>1, <2>1 DEF Task
  <2> QED  BY <1>2, <1>4, <2>1 DEF AccountReply, AuthFailure, Failure
<1>5. ASSUME NEW t \in TaskIds, LimitsReply(t)
      PROVE  Advanced(tasks'[u].previous, tasks'[u].snapshot)
  <2>1. CASE AuthFailure(t) \/ Failure(t)
    BY <1>2, <1>3, <2>1 DEF AuthFailure, Failure
  <2>2. ASSUME NEW snapshot, NEW credits, NEW late, Observe(t, snapshot, credits, late)
        PROVE  Advanced(tasks'[u].previous, tasks'[u].snapshot)
    <3> DEFINE changed  == st.account # None /\ st.account # snapshot.account
               previous == IF changed THEN None ELSE st.snapshot
               baseline == IF changed THEN None ELSE st.creditBaseline
    <3>1. CASE RequiresConfirmation(previous, snapshot, late)
      <4>1. Advanced(previous, snapshot)
        BY <3>1 DEF RequiresConfirmation, Verdict
      <4>2. tasks' = [tasks EXCEPT ![t] =
                    [pc |-> "sleep", seen |-> {}, previous |-> previous,
                     baseline |-> baseline, snapshot |-> snapshot,
                     credits |-> credits, enabled |-> enabled]]
        BY <2>2, <3>1 DEF Observe
      <4>3. u = t => tasks'[u].previous = previous /\ tasks'[u].snapshot = snapshot
        BY <1>1, <4>2
      <4>4. u # t => tasks'[u] = tasks[u]
        BY <1>1, <4>2
      <4> QED  BY <1>3, <4>1, <4>3, <4>4
    <3>2. CASE ~RequiresConfirmation(previous, snapshot, late)
      BY <1>2, <1>3, <2>2, <3>2 DEF Observe
    <3> QED  BY <3>1, <3>2
  <2> QED  BY <1>5, <2>1, <2>2 DEF LimitsReply
<1>6. ASSUME NEW t \in TaskIds, ConfirmationDue(t)
      PROVE  Advanced(tasks'[u].previous, tasks'[u].snapshot)
  <2>1. tasks' = [tasks EXCEPT ![t].pc = "confirm", ![t].seen = {codex}] /\ tasks[t].pc = "sleep"
    BY <1>6 DEF ConfirmationDue
  <2>2. /\ tasks'[u].previous = tasks[u].previous /\ tasks'[u].snapshot = tasks[u].snapshot
        /\ tasks[u].pc \in {"sleep", "confirm"}
    BY <1>1, <2>1 DEF Task
  <2> QED  BY <2>2 DEF PausedOverMove
<1>7. ASSUME NEW t \in TaskIds, ConfirmReply(t)
      PROVE  tasks'[u] = tasks[u]
  BY <1>2, <1>7 DEF ConfirmReply, Confirm, AuthFailure, Failure
<1>8. ASSUME NEW c \in Callers, CheckNow(c)
      PROVE  tasks'[u] = tasks[u]
  BY <1>1, <1>8 DEF CheckNow, Join, AnswerRecent, Start, NoTask
<1>9. CASE \E t \in TaskIds : TaskStep(t)
  BY <1>3, <1>4, <1>5, <1>6, <1>7, <1>9 DEF TaskStep
<1>10. CASE ~ \E t \in TaskIds : TaskStep(t)
  <2> DEFINE Moves == \/ \E a \in Accounts : SignIn(a)
                      \/ SignedOutElsewhere \/ LogoutAtServer
  <2>1. CASE Moves
    <3>1. SameChecks
      BY <1>1, <2>1, ServerMovesChecks
         DEF SignIn, SignedOutElsewhere, LogoutAtServer, MaybeAccount, IInv
    <3> QED  BY <3>1 DEF SameChecks, PausedOverMove
  <2>2. CASE ~Moves
    <3>1. tasks'[u] = tasks[u]
      BY <1>8, <1>10, <2>2, CallersAssumption
         DEF MonitorNext, monitorVars, Check, Resume, ToggleNotification,
             LoginCheck, LogoutRequest, LogoutStep, LogoutFailed, LogoutCommit, CooldownEnds
    <3> QED  BY <1>3, <3>1
  <2> QED  BY <2>1, <2>2
<1> QED  BY <1>9, <1>10

\* What one commit can add to the record.
LEMMA OnlyTheBatch ==
    ASSUME NEW s \in AppStateType, NEW c, NEW batch, Records(s, c, batch)
    PROVE  Range(c.dedupe) \ Range(s.dedupe) \subseteq batch
<1>1. PICK a \in AppStateType : Gains(s.dedupe, a.dedupe, batch) /\ c.dedupe = Bounded(a).dedupe
  BY DEF Records
<1>2. PICK fresh \in Seq(Event) : a.dedupe = s.dedupe \o fresh /\ Range(fresh) = batch \ Range(s.dedupe)
  BY <1>1 DEF Gains
<1>3. Range(a.dedupe) \subseteq Range(s.dedupe) \cup batch
  <2>1. s.dedupe \in Seq(Event)
    BY DEF AppStateType
  <2>2. \A i \in DOMAIN (s.dedupe \o fresh) :
           \/ i \in DOMAIN s.dedupe /\ (s.dedupe \o fresh)[i] = s.dedupe[i]
           \/ i - Len(s.dedupe) \in DOMAIN fresh /\ (s.dedupe \o fresh)[i] = fresh[i - Len(s.dedupe)]
    BY <2>1
  <2> QED  BY <1>2, <2>2 DEF Range
<1> QED  BY <1>1, <1>3, ShortIsWhole

\* What a commit after the first read, or after the second, stores and records.
FirstReadSettles ==
    \E snapshot \in Snapshot, late \in BOOLEAN :
        /\ Settles(st, st', snapshot, Noticed(snapshot, late))
        /\ ~RequiresConfirmation(Compared(snapshot.account), snapshot, late)
SecondReadSettles ==
    \E t \in TaskIds, snapshot \in Snapshot, late \in BOOLEAN :
        /\ tasks[t].pc = "confirm" /\ snapshot.account \in tasks[t].seen
        /\ Settles(st, st', IF snapshot.account = tasks[t].snapshot.account
                            THEN snapshot ELSE tasks[t].snapshot, Reread(t, snapshot, late))

\* The same, with what the commits of a check store.
LEMMA ChangesOfTheRecord ==
    ASSUME IInv, [MonitorNext]_monitorVars
    PROVE  \/ st' \in {st, ForgetAccount(st)}
           \/ st' = RecordAuthRequired(st, enabled)
           \/ st' = RecordFailure(st, checks, enabled)
           \/ FirstReadSettles \/ SecondReadSettles
<1>1. Surroundings'
  BY StepKeepsIInv DEF IInv
<1>2. ASSUME NEW t \in TaskIds, NEW a \in tasks[t].seen \ {None}, NEW w \in Windows
      PROVE  [account |-> a, window |-> w] \in Snapshot
  BY DEF Snapshot, IInv, Control, Surroundings, Task, MaybeAccount
<1>3. ASSUME NEW t \in TaskIds, NEW a \in tasks[t].seen \ {None}, NEW w \in Windows,
             NEW credits \in BOOLEAN, NEW late \in BOOLEAN,
             tasks[t].pc = "limits", enabled' = enabled,
             Observe(t, [account |-> a, window |-> w], credits, late)
      PROVE  st' = st \/ FirstReadSettles
  <2> DEFINE snapshot == [account |-> a, window |-> w]
  <2>1. snapshot \in Snapshot /\ InFlight(t)
    BY <1>2, <1>3 DEF InFlight
  <2> HIDE DEF snapshot
  <2>2. Observe(t, snapshot, credits, late)
    BY <1>3 DEF snapshot
  <2> QED  BY <1>1, <1>3, <2>1, <2>2, ObserveKeepsIInv DEF FirstReadSettles
<1>4. ASSUME NEW t \in TaskIds, NEW a \in tasks[t].seen \ {None}, NEW w \in Windows,
             NEW credits \in BOOLEAN, NEW late \in BOOLEAN,
             tasks[t].pc = "confirm", Confirm(t, [account |-> a, window |-> w], credits, late)
      PROVE  SecondReadSettles
  <2> DEFINE snapshot == [account |-> a, window |-> w]
  <2>1. snapshot \in Snapshot /\ snapshot.account = a
    BY <1>2
  <2> HIDE DEF snapshot
  <2>2. Confirm(t, snapshot, credits, late)
    BY <1>4 DEF snapshot
  <2>3. Settles(st, st', IF snapshot.account = tasks[t].snapshot.account
                         THEN snapshot ELSE tasks[t].snapshot, Reread(t, snapshot, late))
    BY <1>1, <1>4, <2>1, <2>2, ConfirmKeepsIInv
  <2> QED  BY <1>4, <2>1, <2>3 DEF SecondReadSettles
<1> QED  BY <1>3, <1>4, StepsOfTheRecord

\* The kinds of the events a comparison finds.
LEMMA KindsFound ==
    ASSUME NEW previous, NEW new, NEW late, NEW confirmed \in BOOLEAN,
           NEW e \in AnalyzeChanges(previous, new, late, confirmed)
    PROVE  /\ Advanced(previous, new)
           /\ \/ e = WindowReset(new.account, previous.window, new.window)
              \/ e = WindowChangedEarly(new.account, previous.window, new.window) /\ confirmed = TRUE
BY DEF AnalyzeChanges, Verdict

\* What a step records of resets that look early.
SeenTwice ==
    \A e \in Range(st'.dedupe) \ Range(st.dedupe) :
        e.type = "significant_change" =>
            \E t \in TaskIds :
                /\ tasks[t].pc = "confirm"
                /\ Advanced(tasks[t].previous, tasks[t].snapshot)
                /\ tasks[t].previous.window = e.key[1]

LEMMA StepSeesTwice ==
    ASSUME IInv, PausedOverMove, [MonitorNext]_monitorVars PROVE SeenTwice
<1> SUFFICES ASSUME NEW e \in Range(st'.dedupe) \ Range(st.dedupe),
                    e.type = "significant_change"
             PROVE  \E t \in TaskIds :
                        /\ tasks[t].pc = "confirm"
                        /\ Advanced(tasks[t].previous, tasks[t].snapshot)
                        /\ tasks[t].previous.window = e.key[1]
  BY DEF SeenTwice
<1>1. st \in AppStateType /\ Good(st) /\ checks \in Nat
  BY DEF IInv, Good, Surroundings
<1>2. \A batch : Records(st, st', batch) => e \in batch
  BY <1>1, OnlyTheBatch
<1>3. st' \notin {st, ForgetAccount(st)}
  <2>1. st'.dedupe # st.dedupe
    OBVIOUS
  <2>2. ForgetAccount(st).dedupe = st.dedupe
    BY <1>1 DEF ForgetAccount, AppStateType
  <2> QED  BY <2>1, <2>2
<1>4. st' # RecordAuthRequired(st, enabled)
  <2>1. AuthRequired(st.account).type = "auth_required"
    BY DEF AuthRequired
  <2>2. st' = RecordAuthRequired(st, enabled) =>
           Records(st, st', {AuthRequired(st.account)}) \/ Records(st, st', {})
    BY <1>1, RecordAuthRequiredIsGood
  <2> QED  BY <1>2, <2>1, <2>2
<1>5. st' # RecordFailure(st, checks, enabled)
  <2>1. \A o : Unavailable(o).type = "monitor_unavailable"
    BY DEF Unavailable
  <2>2. st' = RecordFailure(st, checks, enabled) =>
           Records(st, st', {Unavailable(st'.outage)}) \/ Records(st, st', {})
    BY <1>1, RecordFailureIsGood
  <2> QED  BY <1>2, <2>1, <2>2
<1>6. e \notin RecoveredEvents(st)
  BY DEF RecoveredEvents, Recovered
<1>7. ASSUME NEW snapshot \in Snapshot, NEW late \in BOOLEAN, Settles(st, st', snapshot, Noticed(snapshot, late))
      PROVE  FALSE
  <2>1. e \in Noticed(snapshot, late)
    BY <1>2, <1>6, <1>7 DEF Settles
  <2>2. AccountChanged(snapshot.account).type = "account_changed"
    BY DEF AccountChanged
  <2>3. e \in AnalyzeChanges(Compared(snapshot.account), snapshot, late, FALSE)
    BY <2>1, <2>2 DEF Noticed
  <2>4. e = WindowReset(snapshot.account, Compared(snapshot.account).window, snapshot.window)
    BY <2>3, KindsFound
  <2> QED  BY <2>4 DEF WindowReset
<1>8. ASSUME NEW t \in TaskIds, NEW snapshot \in Snapshot, NEW late \in BOOLEAN,
             tasks[t].pc = "confirm",
             Settles(st, st', IF snapshot.account = tasks[t].snapshot.account
                    THEN snapshot ELSE tasks[t].snapshot, Reread(t, snapshot, late))
      PROVE  /\ Advanced(tasks[t].previous, tasks[t].snapshot)
             /\ tasks[t].previous.window = e.key[1]
  <2>1. e \in Reread(t, snapshot, late)
    BY <1>2, <1>6, <1>8 DEF Settles
  <2>2. e \in AnalyzeChanges(tasks[t].previous, snapshot, late, TRUE)
    BY <2>1 DEF Reread
  <2>3. \/ e = WindowReset(snapshot.account, tasks[t].previous.window, snapshot.window)
        \/ e = WindowChangedEarly(snapshot.account, tasks[t].previous.window, snapshot.window)
    BY <2>2, KindsFound
  <2>4. e = WindowChangedEarly(snapshot.account, tasks[t].previous.window, snapshot.window)
    BY <2>3 DEF WindowReset
  <2> QED  BY <1>8, <2>4 DEF PausedOverMove, WindowChangedEarly
<1> QED  BY <1>3, <1>4, <1>5, <1>7, <1>8, ChangesOfTheRecord
            DEF FirstReadSettles, SecondReadSettles

\* A reset that looks early is recorded only by the second of two reads, and
\* names the window the first read was compared with (monitor.py:87-105,
\* domain.py).
THEOREM EarlyIsSeenTwice == MonitorSpec => EarlyNeedsSecondRead
<1>1. IInv /\ PausedOverMove /\ [MonitorNext]_monitorVars => [SeenTwice]_monitorVars
  BY StepSeesTwice
<1>2. IInv /\ PausedOverMove /\ [MonitorNext]_monitorVars => PausedOverMove'
  BY StepPaused
<1>3. MonitorSpec => [][SeenTwice]_monitorVars
  BY <1>1, <1>2, InitPaused, IInvHolds, PTL DEF MonitorSpec
<1> QED  BY <1>3 DEF EarlyNeedsSecondRead, SeenTwice

\* A list in which every recovery stands after the outage it ends.
Follows(list) ==
    \A i \in DOMAIN list : list[i].type = "monitor_recovered" =>
        \E j \in 1..(i - 1) : list[j] = Unavailable(list[i].key[1])

\* As long as the list has not been trimmed, it still holds the announced outage.
Remembered(s) ==
    Len(s.dedupe) < DedupeLimit =>
        /\ Follows(s.dedupe)
        /\ s.outageNotified => Unavailable(s.outage) \in Range(s.dedupe)

\* New events may end outages that the old list holds.
LEMMA FollowsGrows ==
    ASSUME NEW old \in Seq(Event), NEW fresh \in Seq(Event), Follows(old),
           \A e \in Range(fresh) :
               e.type = "monitor_recovered" => Unavailable(e.key[1]) \in Range(old)
    PROVE  /\ Follows(old \o fresh)
           /\ Range(old) \cup Range(fresh) \subseteq Range(old \o fresh)
<1> DEFINE n == Len(old)
           m == Len(fresh)
           list == old \o fresh
<1>1. /\ n \in Nat /\ m \in Nat /\ DOMAIN old = 1..n /\ DOMAIN fresh = 1..m
      /\ DOMAIN list = 1..(n + m)
      /\ \A i \in 1..n : list[i] = old[i]
      /\ \A i \in 1..m : list[n + i] = fresh[i]
  BY DEF n, m, list
<1> HIDE DEF n, m, list
<1>2. \A i \in 1..(n + m) : i \in 1..n \/ (i - n \in 1..m /\ list[i] = fresh[i - n])
  <2> SUFFICES ASSUME NEW i \in 1..(n + m), i \notin 1..n
               PROVE  i - n \in 1..m /\ list[i] = fresh[i - n]
    OBVIOUS
  <2>1. i - n \in 1..m /\ n + (i - n) = i
    BY <1>1
  <2> QED  BY <1>1, <2>1
<1>3. ASSUME NEW i \in DOMAIN list, list[i].type = "monitor_recovered"
      PROVE  \E j \in 1..(i - 1) : list[j] = Unavailable(list[i].key[1])
  <2>1. CASE i \in 1..n
    <3>1. PICK j \in 1..(i - 1) : old[j] = Unavailable(old[i].key[1])
      BY <1>1, <1>3, <2>1 DEF Follows
    <3>2. j \in 1..n
      BY <1>1, <2>1
    <3> QED  BY <1>1, <2>1, <3>1, <3>2
  <2>2. CASE i \notin 1..n
    <3>1. i - n \in 1..m /\ list[i] = fresh[i - n] /\ i \in 1..(n + m)
      BY <1>1, <1>2, <2>2
    <3>2. fresh[i - n] \in Range(fresh)
      BY <1>1, <3>1 DEF Range
    <3>3. Unavailable(list[i].key[1]) \in Range(old)
      BY <1>3, <3>1, <3>2
    <3>4. PICK j \in 1..n : old[j] = Unavailable(list[i].key[1])
      BY <1>1, <3>3 DEF Range
    <3>5. j \in 1..(i - 1)
      BY <1>1, <2>2, <3>1
    <3> QED  BY <1>1, <3>4, <3>5
  <2> QED  BY <2>1, <2>2
<1>4. \A i \in 1..n : i \in 1..(n + m)
  BY <1>1
<1>5. \A i \in 1..m : n + i \in 1..(n + m)
  BY <1>1
<1>6. Range(old) \cup Range(fresh) \subseteq Range(list)
  BY <1>1, <1>4, <1>5 DEF Range
<1> QED  BY <1>3, <1>6 DEF Follows, list

\* What a commit adds to a list that has not been trimmed.
LEMMA RecordsFollow ==
    ASSUME NEW s \in AppStateType, Remembered(s), NEW c, NEW batch, Records(s, c, batch),
           \A e \in batch : e.type = "monitor_recovered" =>
               s.outageNotified /\ e = Recovered(s.outage),
           Len(c.dedupe) < DedupeLimit
    PROVE  /\ Follows(c.dedupe)
           /\ Range(s.dedupe) \cup batch \subseteq Range(c.dedupe)
           /\ Len(s.dedupe) < DedupeLimit
<1>1. PICK a \in AppStateType : Gains(s.dedupe, a.dedupe, batch) /\ c.dedupe = Bounded(a).dedupe
  BY DEF Records
<1>2. PICK fresh \in Seq(Event) : a.dedupe = s.dedupe \o fresh /\ Range(fresh) = batch \ Range(s.dedupe)
  BY <1>1 DEF Gains
<1>3. c.dedupe = s.dedupe \o fresh /\ Len(s.dedupe \o fresh) < DedupeLimit
  BY <1>1, <1>2, ShortIsWhole
<1>4. s.dedupe \in Seq(Event)
  BY DEF AppStateType
<1>5. Len(s.dedupe) < DedupeLimit
  <2> DEFINE n == Len(s.dedupe) m == Len(fresh)
  <2>1. n \in Nat /\ m \in Nat /\ Len(s.dedupe \o fresh) = n + m /\ DedupeLimit \in Nat
    BY <1>4, LimitsAssumption
  <2> HIDE DEF n, m
  <2>2. n < DedupeLimit
    BY <1>3, <2>1
  <2> QED  BY <2>2 DEF n
<1>6. ASSUME NEW e \in Range(fresh), e.type = "monitor_recovered"
      PROVE  Unavailable(e.key[1]) \in Range(s.dedupe)
  <2>1. s.outageNotified /\ e = Recovered(s.outage)
    BY <1>2, <1>6
  <2>2. e.key[1] = s.outage
    BY <2>1 DEF Recovered
  <2> QED  BY <1>5, <2>1, <2>2 DEF Remembered
<1>7. /\ Follows(s.dedupe \o fresh)
      /\ Range(s.dedupe) \cup Range(fresh) \subseteq Range(s.dedupe \o fresh)
  <2>1. Follows(s.dedupe)
    BY <1>5 DEF Remembered
  <2> QED  BY <1>4, <1>6, <2>1, FollowsGrows
<1> QED  BY <1>2, <1>3, <1>5, <1>7

LEMMA StepRemembered ==
    ASSUME IInv, Remembered(st), [MonitorNext]_monitorVars PROVE Remembered(st')
<1>1. st \in AppStateType /\ Good(st) /\ checks \in Nat
  BY DEF IInv, Good, Surroundings
<1>2. ASSUME NEW a, NEW w, NEW l, NEW c \in BOOLEAN, NEW e \in AnalyzeChanges(a, w, l, c)
      PROVE  e.type # "monitor_recovered"
  <2>1. \A n, x, y : /\ WindowReset(n, x, y).type = "window_reset"
                     /\ WindowChangedEarly(n, x, y).type = "significant_change"
    BY DEF WindowReset, WindowChangedEarly
  <2>2. \/ e = WindowReset(w.account, a.window, w.window)
        \/ e = WindowChangedEarly(w.account, a.window, w.window)
    BY <1>2, KindsFound
  <2> QED  BY <2>1, <2>2
<1>3. ASSUME NEW snapshot, NEW batch, Settles(st, st', snapshot, batch),
             \A e \in batch : e.type # "monitor_recovered"
      PROVE  Remembered(st')
  <2>1. \A e \in batch \cup RecoveredEvents(st) : e.type = "monitor_recovered" =>
            st.outageNotified /\ e = Recovered(st.outage)
    BY <1>3 DEF RecoveredEvents
  <2>2. Records(st, st', batch \cup RecoveredEvents(st)) /\ ~st'.outageNotified
    BY <1>3 DEF Settles
  <2>3. Len(st'.dedupe) < DedupeLimit => Follows(st'.dedupe)
    BY <1>1, <2>1, <2>2, RecordsFollow
  <2> QED  BY <2>2, <2>3 DEF Remembered
<1>4. CASE st' \in {st, ForgetAccount(st)}
  <2>1. st'.dedupe = st.dedupe /\ st'.outage = st.outage /\ st'.outageNotified = st.outageNotified
    BY <1>1, <1>4 DEF ForgetAccount, AppStateType
  <2> QED  BY <2>1 DEF Remembered
<1>5. CASE st' = RecordAuthRequired(st, enabled)
  <2>1. /\ st'.outage = st.outage /\ st'.outageNotified = st.outageNotified
        /\ Records(st, st', {AuthRequired(st.account)}) \/ Records(st, st', {})
    BY <1>1, <1>5, RecordAuthRequiredIsGood
  <2>2. AuthRequired(st.account).type # "monitor_recovered"
    BY DEF AuthRequired
  <2>3. Len(st'.dedupe) < DedupeLimit =>
            /\ Follows(st'.dedupe) /\ Range(st.dedupe) \subseteq Range(st'.dedupe)
            /\ Len(st.dedupe) < DedupeLimit
    <3>1. CASE Records(st, st', {AuthRequired(st.account)})
      <4>1. \A e \in {AuthRequired(st.account)} : e.type = "monitor_recovered" =>
                st.outageNotified /\ e = Recovered(st.outage)
        BY <2>2
      <4> QED  BY <1>1, <3>1, <4>1, RecordsFollow
    <3>2. CASE Records(st, st', {})
      <4>1. \A e \in {} : e.type = "monitor_recovered" =>
                st.outageNotified /\ e = Recovered(st.outage)
        OBVIOUS
      <4> QED  BY <1>1, <3>2, <4>1, RecordsFollow
    <3> QED  BY <2>1, <3>1, <3>2
  <2> QED  BY <2>1, <2>3 DEF Remembered
<1>6. CASE st' = RecordFailure(st, checks, enabled)
  <2>1. /\ st.outageNotified => st'.outage = st.outage
        /\ \/ Records(st, st', {Unavailable(st'.outage)})
           \/ Records(st, st', {}) /\ st'.outageNotified = st.outageNotified
    BY <1>1, <1>6, RecordFailureIsGood
  <2>2. CASE Records(st, st', {Unavailable(st'.outage)})
    <3>1. \A e \in {Unavailable(st'.outage)} : e.type = "monitor_recovered" =>
              st.outageNotified /\ e = Recovered(st.outage)
      BY DEF Unavailable
    <3>2. Len(st'.dedupe) < DedupeLimit =>
              Follows(st'.dedupe) /\ Unavailable(st'.outage) \in Range(st'.dedupe)
      BY <1>1, <2>2, <3>1, RecordsFollow
    <3> QED  BY <3>2 DEF Remembered
  <2>3. CASE Records(st, st', {}) /\ st'.outageNotified = st.outageNotified
    <3>1. \A e \in {} : e.type = "monitor_recovered" =>
              st.outageNotified /\ e = Recovered(st.outage)
      OBVIOUS
    <3>2. Len(st'.dedupe) < DedupeLimit =>
              /\ Follows(st'.dedupe) /\ Range(st.dedupe) \subseteq Range(st'.dedupe)
              /\ Len(st.dedupe) < DedupeLimit
      BY <1>1, <2>3, <3>1, RecordsFollow
    <3> QED  BY <2>1, <2>3, <3>2 DEF Remembered
  <2> QED  BY <2>1, <2>2, <2>3
<1>7. CASE FirstReadSettles
  <2>1. PICK snapshot \in Snapshot, late \in BOOLEAN : Settles(st, st', snapshot, Noticed(snapshot, late))
    BY <1>7 DEF FirstReadSettles
  <2>2. AccountChanged(snapshot.account).type # "monitor_recovered"
    BY DEF AccountChanged
  <2>3. ASSUME NEW e \in Noticed(snapshot, late) PROVE e.type # "monitor_recovered"
    <3>1. \/ e \in AnalyzeChanges(Compared(snapshot.account), snapshot, late, FALSE)
          \/ e = AccountChanged(snapshot.account)
      BY <2>3 DEF Noticed
    <3> QED  BY <1>2, <2>2, <3>1
  <2> QED  BY <1>3, <2>1, <2>3
<1>8. CASE SecondReadSettles
  <2>1. PICK t \in TaskIds, snapshot \in Snapshot, late \in BOOLEAN :
           Settles(st, st', IF snapshot.account = tasks[t].snapshot.account
                            THEN snapshot ELSE tasks[t].snapshot, Reread(t, snapshot, late))
    BY <1>8 DEF SecondReadSettles
  <2>2. \A e \in Reread(t, snapshot, late) : e.type # "monitor_recovered"
    BY <1>2 DEF Reread
  <2> QED  BY <1>3, <2>1, <2>2
<1> QED  BY <1>4, <1>5, <1>6, <1>7, <1>8, ChangesOfTheRecord

\* As long as the deduplication list has never been trimmed, it holds every
\* recovery after the outage it ends (monitor.py, _record_failure and the
\* commit of a check).
THEOREM RecoveriesFollowOutages == MonitorSpec => []RecoveryFollowsOutage
<1>1. MonitorInit => Remembered(st)
  BY DEF MonitorInit, InitialAppState, Remembered, Follows
<1>2. IInv /\ Remembered(st) /\ [MonitorNext]_monitorVars => Remembered(st)'
  BY StepRemembered
<1>3. Remembered(st) => RecoveryFollowsOutage
  BY DEF Remembered, Follows, RecoveryFollowsOutage
<1> QED  BY <1>1, <1>2, <1>3, IInvHolds, PTL DEF MonitorSpec

\* An event of a batch of at most two is recorded now, or was before.
LEMMA BatchIsRecorded ==
    ASSUME DedupeLimit >= 2, NEW s \in AppStateType, NEW c, NEW batch, Records(s, c, batch),
           NEW e \in batch, NEW f, batch \subseteq {e, f}
    PROVE  e \in Range(s.dedupe) \cup Range(c.dedupe)
<1>1. PICK a \in AppStateType : Gains(s.dedupe, a.dedupe, batch) /\ c.dedupe = Bounded(a).dedupe
  BY DEF Records
<1>2. s.dedupe \in Seq(Event)
  BY DEF AppStateType
<1> QED  BY <1>1, <1>2, NewestAreKept

\* The same for the commit of a check that found one reset.
LEMMA SettledIsRecorded ==
    ASSUME DedupeLimit >= 2, st \in AppStateType, NEW snapshot, NEW e,
           Settles(st, st', snapshot, {e})
    PROVE  e \in Range(st.dedupe) \cup Range(st'.dedupe)
<1>1. RecoveredEvents(st) \subseteq {Recovered(st.outage)}
  BY DEF RecoveredEvents
<1> DEFINE batch == {e} \cup RecoveredEvents(st)
<1>2. Records(st, st', batch)
  BY DEF Settles
<1>3. e \in batch /\ batch \subseteq {e, Recovered(st.outage)}
  BY <1>1
<1> HIDE DEF batch
<1> QED  BY <1>2, <1>3, BatchIsRecorded

\* What one step does to the snapshot, and what it records of it.
ResetNoted ==
    LET from == st.snapshot to == st'.snapshot
    IN  from # None /\ to # None /\ Advanced(from, to) =>
          \/ {WindowReset(to.account, from.window, to.window),
              WindowChangedEarly(to.account, from.window, to.window)}
                 \cap (Range(st.dedupe) \cup Range(st'.dedupe)) # {}
          \/ SecondReadDoubtful(to.account)

LEMMA StepNotesReset ==
    ASSUME DedupeLimit >= 2, IInv, [MonitorNext]_monitorVars PROVE ResetNoted
<1> DEFINE from == st.snapshot
           to == st'.snapshot
           Noted == \/ WindowReset(to.account, from.window, to.window)
                          \in Range(st.dedupe) \cup Range(st'.dedupe)
                    \/ WindowChangedEarly(to.account, from.window, to.window)
                          \in Range(st.dedupe) \cup Range(st'.dedupe)
<1> SUFFICES ASSUME from # None, to # None, Advanced(from, to)
             PROVE  Noted \/ SecondReadDoubtful(to.account)
  BY DEF ResetNoted
<1>1. /\ st \in AppStateType /\ Good(st) /\ checks \in Nat /\ Isolated(st)
      /\ from \in Snapshot /\ from.account = st.account /\ from.account = to.account
      /\ to.window > from.window /\ from.window \in Nat /\ None \notin Accounts
  BY WindowsAssumption, AccountsAssumption
     DEF IInv, Good, Surroundings, Isolated, AppStateType, Advanced, Snapshot
<1>2. to # from
  BY <1>1
<1>3. st' \notin {st, ForgetAccount(st)}
  <2>1. ForgetAccount(st).snapshot = None
    BY <1>1 DEF ForgetAccount, AppStateType
  <2> QED  BY <1>2, <2>1
<1>4. st' # RecordAuthRequired(st, enabled)
  <2>1. RecordAuthRequired(st, enabled).snapshot = st.snapshot
    BY <1>1, RecordAuthRequiredIsGood
  <2> QED  BY <1>2, <2>1
<1>5. st' # RecordFailure(st, checks, enabled)
  <2>1. RecordFailure(st, checks, enabled).snapshot = st.snapshot
    BY <1>1, RecordFailureIsGood
  <2> QED  BY <1>2, <2>1
<1>6. CASE FirstReadSettles
  <2>1. PICK snapshot \in Snapshot, late \in BOOLEAN :
           /\ Settles(st, st', snapshot, Noticed(snapshot, late))
           /\ ~RequiresConfirmation(Compared(snapshot.account), snapshot, late)
    BY <1>6 DEF FirstReadSettles
  <2>2. to = snapshot
    BY <2>1 DEF Settles
  <2>3. Compared(snapshot.account) = from /\ st.account = snapshot.account
    BY <1>1, <2>2 DEF Compared
  <2>4. ~RequiresConfirmation(from, snapshot, late) /\ Advanced(from, snapshot)
    BY <2>1, <2>2, <2>3
  <2>5. late
    BY <2>4 DEF RequiresConfirmation, Verdict
  <2>6. AnalyzeChanges(from, snapshot, late, FALSE)
            = {WindowReset(snapshot.account, from.window, snapshot.window)}
    BY <2>4, <2>5 DEF AnalyzeChanges, Verdict
  <2>7. Noticed(snapshot, late) = {WindowReset(snapshot.account, from.window, snapshot.window)}
    BY <2>3, <2>6 DEF Noticed
  <2> DEFINE e == WindowReset(snapshot.account, from.window, snapshot.window)
  <2>8. Settles(st, st', snapshot, {e})
    BY <2>1, <2>7
  <2> HIDE DEF e
  <2>9. e \in Range(st.dedupe) \cup Range(st'.dedupe)
    BY <1>1, <2>8, SettledIsRecorded
  <2> QED  BY <2>2, <2>9 DEF e
<1>7. CASE SecondReadSettles
  <2>1. PICK t \in TaskIds, snapshot \in Snapshot, late \in BOOLEAN :
           /\ tasks[t].pc = "confirm" /\ snapshot.account \in tasks[t].seen
           /\ Settles(st, st', IF snapshot.account = tasks[t].snapshot.account
                               THEN snapshot ELSE tasks[t].snapshot, Reread(t, snapshot, late))
    BY <1>7 DEF SecondReadSettles
  <2>2. tasks[t].previous = from
    BY <1>1, <2>1 DEF Snapshot, IInv, Captured, CapturedIsCurrent
  <2>3. CASE snapshot.account = tasks[t].snapshot.account
    <3>1. to = snapshot /\ Settles(st, st', snapshot, Reread(t, snapshot, late))
      BY <2>1, <2>3 DEF Settles
    <3>2. Reread(t, snapshot, late) = AnalyzeChanges(from, snapshot, late, TRUE)
      BY <2>2, <2>3 DEF Reread
    <3>3. Advanced(from, snapshot)
      BY <3>1
    <3>4. \/ AnalyzeChanges(from, snapshot, late, TRUE)
                = {WindowReset(snapshot.account, from.window, snapshot.window)}
          \/ AnalyzeChanges(from, snapshot, late, TRUE)
                = {WindowChangedEarly(snapshot.account, from.window, snapshot.window)}
      BY <3>3 DEF AnalyzeChanges, Verdict
    <3>5. PICK e \in {WindowReset(snapshot.account, from.window, snapshot.window),
                      WindowChangedEarly(snapshot.account, from.window, snapshot.window)} :
             Settles(st, st', snapshot, {e})
      BY <3>1, <3>2, <3>4
    <3>6. e \in Range(st.dedupe) \cup Range(st'.dedupe)
      BY <1>1, <3>5, SettledIsRecorded
    <3> QED  BY <3>1, <3>5, <3>6
  <2>4. CASE snapshot.account # tasks[t].snapshot.account
    <3>1. to = tasks[t].snapshot
      BY <2>1, <2>4 DEF Settles
    <3>2. snapshot.account # None
      BY <1>1 DEF Snapshot
    <3>3. snapshot.account \in tasks[t].seen \ {to.account, None}
      BY <2>1, <2>4, <3>1, <3>2
    <3> QED  BY <2>1, <3>3 DEF SecondReadDoubtful
  <2> QED  BY <2>3, <2>4
<1> QED  BY <1>3, <1>4, <1>5, <1>6, <1>7, ChangesOfTheRecord

\* A later window never replaces a snapshot without the reset being recorded,
\* however the check that saw it was interleaved with logins, logouts, switches
\* of the account and other callers, unless the server was signed in to another
\* account while the second read was under way (monitor.py:87-139).  The list
\* must hold the two events that one check can add; it holds 1000.
THEOREM ResetsAreRecorded == ASSUME DedupeLimit >= 2 PROVE MonitorSpec => ResetRecorded
<1>1. IInv /\ [MonitorNext]_monitorVars => [ResetNoted]_monitorVars
  BY StepNotesReset
<1>2. MonitorSpec => [][ResetNoted]_monitorVars
  BY <1>1, IInvHolds, PTL DEF MonitorSpec
<1> QED  BY <1>2 DEF ResetRecorded, ResetNoted
=============================================================================
