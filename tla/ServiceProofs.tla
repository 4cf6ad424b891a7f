----------------------------- MODULE ServiceProofs -----------------------------
(***************************************************************************)
(* What holds of the process around the checks for every set of users,     *)
(* tokens and intervals: types, the bound owner, the plan of the scheduler.*)
(***************************************************************************)
EXTENDS Service, TLAPS

USE DEF serviceVars, claimVars, monitorVars, healthVars

LEMMA NoneApart ==
    /\ None \notin Users /\ None \notin Tokens /\ None # "bot" /\ None # "admin"
    /\ None \notin Settings /\ None \notin Timing
BY NoneAssumption DEF Processes

\* What the writes of settings.json make of settings.
LEMMA SettingsKeepType ==
    ASSUME NEW s \in Settings
    PROVE  /\ \A u \in Users : [s EXCEPT !.owner = u, !.token = None] \in Settings
           /\ \A t \in Tokens \cup {None} : [s EXCEPT !.token = t] \in Settings
           /\ \A i \in Intervals : [s EXCEPT !.interval = i] \in Settings
           /\ [s EXCEPT !.paused = ~s.paused] \in Settings
           /\ s.owner \in Users \cup {None}
           /\ [interval |-> s.interval, paused |-> s.paused] \in Timing
BY DEF Settings, Timing

\* A claim happens in a process that holds the lock, so no command does.
LEMMA ServingAlone ==
    ASSUME ClaimsTypeOK, Serving
    PROVE  InBot \in Settings /\ lock = "bot" /\ memory["admin"] = None
BY NoneApart DEF ClaimsTypeOK, Serving, InBot, Processes

\* A write of the bot, whether it fails or not.
LEMMA WriteTyped ==
    ASSUME ClaimsTypeOK, Serving, NEW s \in Settings, Saves(s) \/ SaveFails(s)
    PROVE  /\ disk' \in Settings /\ memory' \in [Processes -> Settings \cup {None}]
           /\ memory'["bot"] # None /\ memory'["admin"] = memory["admin"]
BY NoneApart, ServingAlone DEF ClaimsTypeOK, Serving, InBot, Processes, Saves, SaveFails

LEMMA ChangeTyped ==
    ASSUME ServiceTypeOK, NEW s \in Settings, Change(s)
    PROVE  ServiceTypeOK'
<1>1. Serving /\ (Saves(s) \/ SaveFails(s))  BY DEF Change, Owned
<1>2. ClaimsTypeOK  BY DEF ServiceTypeOK
<1>3. ClaimsTypeOK'  BY <1>1, <1>2, WriteTyped DEF ClaimsTypeOK, Change, Serving
<1>4. MonitoringTypeOK' /\ HealthTypeOK'
  BY DEF Change, ServiceTypeOK, MonitoringTypeOK, HealthTypeOK
<1> QED  BY <1>3, <1>4 DEF ServiceTypeOK

LEMMA InitTyped == ServiceInit => ServiceTypeOK
<1> SUFFICES ASSUME ServiceInit PROVE ServiceTypeOK  OBVIOUS
<1>1. PICK i \in Intervals :
          disk = [owner |-> None, token |-> None, interval |-> i, paused |-> FALSE]
  BY DEF ServiceInit
<1>2. disk \in Settings  BY <1>1 DEF Settings
<1>3. ClaimsTypeOK  BY <1>2, NoneApart DEF ServiceInit, ClaimsTypeOK, Processes
<1>4. MonitoringTypeOK /\ HealthTypeOK
  BY NoneApart DEF ServiceInit, MonitoringTypeOK, HealthTypeOK, AuthStatus
<1> QED  BY <1>3, <1>4 DEF ServiceTypeOK

\* The lock and the copies in memory, as processes come and go.
LEMMA ProcessesTyped ==
    ASSUME ServiceTypeOK,
           BotStarts \/ BotStartsClosed \/ BotStops \/ BotEnds \/ AdminOpens \/ AdminEnds
    PROVE  ServiceTypeOK'
<1> USE NoneApart DEF ServiceTypeOK
<1> USE DEF MonitoringTypeOK, HealthTypeOK
<1>1. CASE BotStarts
  BY <1>1 DEF BotStarts, Opens, LockFree, ClaimsTypeOK, Processes
<1>2. CASE BotStartsClosed
  BY <1>2 DEF BotStartsClosed, LockFree, ClaimsTypeOK, Processes
<1>3. CASE BotStops
  BY <1>3 DEF BotStops, ClaimsTypeOK
<1>4. CASE BotEnds
  BY <1>4 DEF BotEnds, Closes, ClaimsTypeOK, Processes
<1>5. CASE AdminOpens
  BY <1>5 DEF AdminOpens, Opens, LockFree, ClaimsTypeOK, Processes
<1>6. CASE AdminEnds
  <2>1. memory["admin"] \in Settings
    BY <1>6 DEF AdminEnds, ClaimsTypeOK, Processes
  <2>2. /\ \A t \in Tokens : Linked(t) \in Settings
        /\ \A u \in Users : Owner(u) \in Settings
    BY <2>1, SettingsKeepType DEF Linked, Owner
  <2>3. disk' \in Settings
    BY <1>6, <2>2 DEF AdminEnds, ClaimsTypeOK
  <2> QED  BY <1>6, <2>3 DEF AdminEnds, Closes, ClaimsTypeOK, Processes
<1> QED  BY <1>1, <1>2, <1>3, <1>4, <1>5, <1>6

LEMMA LinksTyped ==
    ASSUME ServiceTypeOK, NEW t \in Tokens,
           CreateBinding(t) \/ Expire(t) \/ \E u \in Users : OpenLink(u, t)
    PROVE  ServiceTypeOK'
<1> USE NoneApart DEF ServiceTypeOK
<1>1. CASE CreateBinding(t)
  <2>1. memory["admin"] \in Settings
    BY <1>1 DEF CreateBinding, MayLink, ClaimsTypeOK, Processes
  <2>2. disk' \in Settings
    BY <1>1, <2>1, SettingsKeepType DEF CreateBinding, Linked
  <2>3. ClaimsTypeOK'
    BY <1>1, <2>2 DEF CreateBinding, MayLink, Closes, ClaimsTypeOK, Processes
  <2> QED  BY <1>1, <2>3 DEF CreateBinding, MonitoringTypeOK, HealthTypeOK
<1>2. CASE Expire(t)
  BY <1>2 DEF Expire, ClaimsTypeOK, MonitoringTypeOK, HealthTypeOK
<1>3. ASSUME NEW u \in Users, OpenLink(u, t) PROVE ServiceTypeOK'
  BY <1>3 DEF OpenLink, ClaimsTypeOK, MonitoringTypeOK, HealthTypeOK
<1> QED  BY <1>1, <1>2, <1>3

LEMMA OwnersTyped ==
    ASSUME ServiceTypeOK, NEW u \in Users, SetOwner(u) \/ ConsumeBinding(u)
    PROVE  ServiceTypeOK'
<1> USE NoneApart DEF ServiceTypeOK
<1>1. CASE SetOwner(u)
  <2>1. memory["admin"] \in Settings
    BY <1>1 DEF SetOwner, MayOwn, ClaimsTypeOK, Processes
  <2>2. disk' \in Settings
    BY <1>1, <2>1, SettingsKeepType DEF SetOwner, Owner
  <2>3. ClaimsTypeOK'
    BY <1>1, <2>2 DEF SetOwner, MayOwn, Closes, ClaimsTypeOK, Processes
  <2> QED  BY <1>1, <2>3 DEF SetOwner, MonitoringTypeOK, HealthTypeOK
<1>2. CASE ConsumeBinding(u)
  <2>1. MonitoringTypeOK' /\ HealthTypeOK'
    BY <1>2 DEF ConsumeBinding, MonitoringTypeOK, HealthTypeOK
  <2>2. CASE UNCHANGED <<disk, memory, accepted>>
    BY <1>2, <2>1, <2>2 DEF ConsumeBinding, ClaimsTypeOK
  <2>3. CASE \E s \in Settings : Saves(s) \/ SaveFails(s)
    <3>1. PICK s \in Settings : Saves(s) \/ SaveFails(s)  BY <2>3
    <3>2. Serving  BY <1>2 DEF ConsumeBinding
    <3>3. /\ disk' \in Settings /\ memory' \in [Processes -> Settings \cup {None}]
          /\ memory'["bot"] # None /\ memory'["admin"] = memory["admin"]
      BY <3>1, <3>2, WriteTyped
    <3>4. accepted' \subseteq Users /\ admitted' \in [Users -> Tokens \cup {None}]
      BY <1>2 DEF ConsumeBinding, ClaimsTypeOK
    <3>5. ClaimsTypeOK'
      BY <1>2, <3>2, <3>3, <3>4 DEF ConsumeBinding, ClaimsTypeOK, Serving
    <3> QED  BY <2>1, <3>5
  <2>4. Consumed(u, admitted[u]) \in Settings
    BY <1>2, ServingAlone, SettingsKeepType DEF ConsumeBinding, Consumed
  <2> QED  BY <1>2, <2>2, <2>3, <2>4 DEF ConsumeBinding
<1> QED  BY <1>1, <1>2

\* The scheduler plans with what is in memory.
LEMMA PlansTyped ==
    ASSUME ServiceTypeOK, Plans, bot = "running"
    PROVE  /\ taken' = None /\ wakeup' \in BOOLEAN
           /\ \/ scheduler' = "dead" /\ plan' = plan
              \/ scheduler' = "sleeping" /\ plan' = TimingNow /\ TimingNow \in Timing
<1>1. InBot \in Settings  BY ServingAlone DEF ServiceTypeOK, Serving
<1>2. TimingNow \in Timing  BY <1>1, SettingsKeepType DEF TimingNow
<1> QED  BY <1>2 DEF ServiceTypeOK, MonitoringTypeOK, Plans, PlannedWith, Timing

LEMMA MonitoringTyped ==
    ASSUME ServiceTypeOK,
           \/ Logout \/ ManualCheck \/ Pass \/ CheckReturns \/ CheckRaises \/ SleepEnds
           \/ DeliveryRaises
    PROVE  ServiceTypeOK'
<1> USE NoneApart DEF ServiceTypeOK
<1> CheckOutcomes \subseteq AuthStatus
  BY DEF CheckOutcomes, AuthStatus, MonitoringTypeOK
<1>1. ClaimsTypeOK' /\ HealthTypeOK'
  BY DEF Logout, ManualCheck, Pass, CheckReturns, CheckRaises, SleepEnds, DeliveryRaises,
         ClaimsTypeOK, HealthTypeOK
<1>2. MonitoringTypeOK'
  <2>1. CASE Logout  BY <2>1 DEF Logout, MonitoringTypeOK, AuthStatus
  <2>2. CASE ManualCheck  BY <2>2 DEF ManualCheck, MonitoringTypeOK
  <2>3. ASSUME Plans, bot = "running", UNCHANGED bot, UNCHANGED delivery,
               plan = None, auth' \in AuthStatus
        PROVE  MonitoringTypeOK'
    <3>1. CASE scheduler' = "sleeping" /\ plan' = TimingNow /\ TimingNow \in Timing
      BY <2>3, <3>1, PlansTyped DEF MonitoringTypeOK
    <3>2. CASE scheduler' = "dead" /\ plan' = plan
      BY <2>3, <3>2, PlansTyped DEF MonitoringTypeOK
    <3> QED  BY <2>3, <3>1, <3>2, PlansTyped
  <2>4. CASE Pass
    <3>1. bot = "running" /\ plan = None
      BY <2>4 DEF Pass, MonitoringTypeOK
    <3>2. InBot \in Settings  BY <3>1, ServingAlone DEF Serving
    <3>3. TimingNow \in Timing  BY <3>2, SettingsKeepType DEF TimingNow
    <3>4. CASE Plans  BY <2>3, <2>4, <3>1, <3>4 DEF Pass, MonitoringTypeOK
    <3>5. CASE ~Plans  BY <2>4, <3>1, <3>3, <3>5 DEF Pass, MonitoringTypeOK
    <3> QED  BY <3>4, <3>5
  <2>5. CASE CheckReturns
    <3>1. bot = "running" /\ plan = None
      BY <2>5 DEF CheckReturns, MonitoringTypeOK
    <3> QED  BY <2>3, <2>5, <3>1 DEF CheckReturns
  <2>6. CASE CheckRaises  BY <2>6 DEF CheckRaises, MonitoringTypeOK
  <2>7. CASE SleepEnds  BY <2>7 DEF SleepEnds, MonitoringTypeOK
  <2>8. CASE DeliveryRaises  BY <2>8 DEF DeliveryRaises, MonitoringTypeOK
  <2> QED  BY <2>1, <2>2, <2>4, <2>5, <2>6, <2>7, <2>8
<1> QED  BY <1>1, <1>2

LEMMA HealthTyped ==
    ASSUME ServiceTypeOK,
           Report \/ ReportRaises \/ Ages \/ PollAnswered \/ PollUnanswered
    PROVE  ServiceTypeOK'
<1> USE DEF ServiceTypeOK
<1>1. ClaimsTypeOK' /\ MonitoringTypeOK'
  BY DEF Report, ReportRaises, Ages, PollAnswered, PollUnanswered, ClaimsTypeOK,
         MonitoringTypeOK
<1>2. HealthTypeOK'
  BY DEF Report, ReportRaises, Ages, PollAnswered, PollUnanswered, HealthTypeOK
<1> QED  BY <1>1, <1>2

LEMMA StepTyped == ServiceTypeOK /\ [ServiceNext]_serviceVars => ServiceTypeOK'
<1> SUFFICES ASSUME ServiceTypeOK, [ServiceNext]_serviceVars PROVE ServiceTypeOK'
  OBVIOUS
<1>1. ASSUME NEW i \in Intervals, UpdateInterval(i) PROVE ServiceTypeOK'
  <2>1. InBot \in Settings
    BY <1>1, ServingAlone DEF ServiceTypeOK, UpdateInterval, Change, Owned
  <2>2. [InBot EXCEPT !.interval = i] \in Settings  BY <2>1, SettingsKeepType
  <2> QED  BY <1>1, <2>2, ChangeTyped DEF UpdateInterval
<1>2. CASE TogglePause
  <2>1. InBot \in Settings
    BY <1>2, ServingAlone DEF ServiceTypeOK, TogglePause, Change, Owned
  <2>2. [InBot EXCEPT !.paused = ~InBot.paused] \in Settings  BY <2>1, SettingsKeepType
  <2> QED  BY <1>2, <2>2, ChangeTyped DEF TogglePause
<1>3. CASE UNCHANGED serviceVars
  BY <1>3 DEF ServiceTypeOK, ClaimsTypeOK, MonitoringTypeOK, HealthTypeOK
<1> QED
  BY <1>1, <1>2, <1>3, ProcessesTyped, LinksTyped, OwnersTyped, MonitoringTyped, HealthTyped
  DEF ServiceNext

-----------------------------------------------------------------------------
(* Theorems *)

\* Lock, copies in memory, tasks and health file keep their types and go
\* together, through every failing write, stop and kill.
THEOREM ServiceTypeCorrect == ServiceSpec => []ServiceTypeOK
BY InitTyped, StepTyped, PTL DEF ServiceSpec

\* Beside disk, the property needs the copies in memory: whoever was told to be
\* the owner is the owner there too, so no process can write anybody else.
Bound ==
    \A u \in accepted : /\ disk.owner = u
                        /\ \A p \in Processes : memory[p] # None => memory[p].owner = u

LEMMA StepBound ==
    ASSUME ServiceTypeOK, Bound, [ServiceNext]_serviceVars
    PROVE  Bound'
<1> USE NoneApart DEF Processes
<1>1. ASSUME NEW u \in Users, ConsumeBinding(u) PROVE Bound'
  <2>1. InBot \in Settings /\ memory["admin"] = None
    BY <1>1, ServingAlone DEF ServiceTypeOK, ConsumeBinding
  <2>2. CASE ~Claimable(admitted[u])
    BY <1>1, <2>2 DEF ConsumeBinding, Bound
  <2>3. CASE Claimable(admitted[u])
    <3>1. accepted = {}
      BY <2>1, <2>3 DEF Claimable, InBot, Bound, ServiceTypeOK, ClaimsTypeOK
    <3>2. CASE accepted' = {}  BY <3>2 DEF Bound
    <3>3. CASE accepted' # {}
      <4>1. /\ accepted' = {u} /\ admitted[u] \notin expired
            /\ Saves(Consumed(u, admitted[u]))
        BY <1>1, <2>3, <3>1, <3>3 DEF ConsumeBinding
      <4>2. Consumed(u, admitted[u]).owner = u
        BY <2>1, <4>1 DEF Consumed, Settings
      <4>3. /\ disk'.owner = u /\ memory'["bot"].owner = u
            /\ memory'["admin"] = None
        BY <2>1, <4>1, <4>2 DEF Saves, ServiceTypeOK, ClaimsTypeOK
      <4> QED  BY <4>1, <4>3 DEF Bound
    <3> QED  BY <3>2, <3>3
  <2> QED  BY <2>2, <2>3
<1>2. ASSUME NEW s \in Settings, Change(s), s.owner = InBot.owner PROVE Bound'
  <2>1. InBot \in Settings /\ memory["admin"] = None
    BY <1>2, ServingAlone DEF ServiceTypeOK, Change, Owned
  <2>2. /\ accepted' = accepted /\ disk' \in {disk, s}
        /\ memory'["admin"] = None
        /\ memory'["bot"] \in {memory["bot"], s}
    BY <1>2, <2>1 DEF Change, Saves, SaveFails, ServiceTypeOK, ClaimsTypeOK
  <2> QED  BY <1>2, <2>1, <2>2 DEF Bound, InBot
<1>3. ASSUME NEW i \in Intervals, UpdateInterval(i) PROVE Bound'
  <2>1. InBot \in Settings
    BY <1>3, ServingAlone DEF ServiceTypeOK, UpdateInterval, Change, Owned
  <2>2. /\ [InBot EXCEPT !.interval = i] \in Settings
        /\ [InBot EXCEPT !.interval = i].owner = InBot.owner
    BY <2>1 DEF Settings
  <2> QED  BY <1>2, <1>3, <2>2 DEF UpdateInterval
<1>4. CASE TogglePause
  <2>1. InBot \in Settings
    BY <1>4, ServingAlone DEF ServiceTypeOK, TogglePause, Change, Owned
  <2>2. /\ [InBot EXCEPT !.paused = ~InBot.paused] \in Settings
        /\ [InBot EXCEPT !.paused = ~InBot.paused].owner = InBot.owner
    BY <2>1 DEF Settings
  <2> QED  BY <1>2, <1>4, <2>2 DEF TogglePause
<1>5. ASSUME NEW u \in Users, SetOwner(u) PROVE Bound'
  <2>1. /\ memory["admin"] \in Settings /\ memory["admin"].owner \in {None, u}
        /\ disk' = [memory["admin"] EXCEPT !.owner = u, !.token = None]
        /\ accepted' = accepted \cup {u} /\ memory'["admin"] = None
        /\ memory'["bot"] = memory["bot"]
    BY <1>5 DEF SetOwner, MayOwn, Owner, Closes, ServiceTypeOK, ClaimsTypeOK
  <2>2. accepted' = {u}  BY <2>1 DEF Bound, ServiceTypeOK, ClaimsTypeOK
  <2>3. disk'.owner = u  BY <2>1 DEF Settings
  <2>4. memory'["bot"] = None
    BY <1>5, <2>1 DEF SetOwner, MayOwn, ServiceTypeOK, ClaimsTypeOK
  <2> QED  BY <2>1, <2>2, <2>3, <2>4 DEF Bound
<1>6. ASSUME NEW t \in Tokens, CreateBinding(t) PROVE Bound'
  <2>1. accepted = {}
    BY <1>6 DEF CreateBinding, MayLink, Bound, ServiceTypeOK, ClaimsTypeOK
  <2> QED  BY <1>6, <2>1 DEF CreateBinding, Bound
<1>7. CASE AdminEnds
  <2>1. memory["admin"] \in Settings
    BY <1>7 DEF AdminEnds, ServiceTypeOK, ClaimsTypeOK
  <2>2. CASE accepted = {}  BY <1>7, <2>2 DEF AdminEnds, Bound
  <2>3. CASE accepted # {}
    <3>1. PICK u \in accepted : disk.owner = u /\ memory["admin"].owner = u
      BY <2>1, <2>3 DEF Bound
    <3>2. u \in Users  BY DEF ServiceTypeOK, ClaimsTypeOK
    <3>3. disk' = disk \/ disk' = [memory["admin"] EXCEPT !.owner = u, !.token = None]
      BY <1>7, <3>1, <3>2 DEF AdminEnds, MayLink, MayOwn, Owner
    <3>4. disk'.owner = u  BY <2>1, <3>1, <3>3 DEF Settings
    <3>5. memory'["admin"] = None /\ memory'["bot"] = memory["bot"]
      BY <1>7 DEF AdminEnds, Closes, ServiceTypeOK, ClaimsTypeOK
    <3> QED  BY <1>7, <3>1, <3>4, <3>5 DEF AdminEnds, Bound
  <2> QED  BY <2>2, <2>3
<1>8. CASE BotStarts \/ AdminOpens
  BY <1>8 DEF BotStarts, AdminOpens, Opens, Bound, ServiceTypeOK, ClaimsTypeOK
<1>9. CASE BotEnds
  BY <1>9 DEF BotEnds, Closes, Bound, ServiceTypeOK, ClaimsTypeOK
<1>10. CASE BotStartsClosed \/ BotStops \/ \E t \in Tokens : Expire(t)
  BY <1>10 DEF BotStartsClosed, BotStops, Expire, Bound
<1>11. CASE \E u \in Users, t \in Tokens : OpenLink(u, t)
  BY <1>11 DEF OpenLink, Bound
<1>12. CASE \/ Logout \/ ManualCheck \/ Pass \/ CheckReturns \/ CheckRaises \/ SleepEnds
            \/ DeliveryRaises
  BY <1>12 DEF Logout, ManualCheck, Pass, CheckReturns, CheckRaises, SleepEnds,
               DeliveryRaises, Bound
<1>13. CASE Report \/ ReportRaises \/ Ages \/ PollAnswered \/ PollUnanswered
  BY <1>13 DEF Report, ReportRaises, Ages, PollAnswered, PollUnanswered, Bound
<1>14. CASE UNCHANGED serviceVars  BY <1>14 DEF Bound
<1> QED
  BY <1>1, <1>3, <1>4, <1>5, <1>6, <1>7, <1>8, <1>9, <1>10, <1>11, <1>12, <1>13, <1>14
  DEF ServiceNext

\* For any number of people, links, commands, failing writes, stops and kills,
\* whoever was told to be the owner is the one in settings.json for ever after.
THEOREM OwnerStaysBound == ServiceSpec => []BoundIsOwner
<1>1. ServiceInit => ServiceTypeOK /\ Bound  BY InitTyped DEF ServiceInit, Bound
<1>2. ServiceTypeOK /\ Bound /\ [ServiceNext]_serviceVars => (ServiceTypeOK /\ Bound)'
  BY StepTyped, StepBound
<1>3. Bound => BoundIsOwner  BY DEF Bound, BoundIsOwner
<1> QED  BY <1>1, <1>2, <1>3, PTL DEF ServiceSpec

LEMMA StepPlan ==
    ASSUME ServiceTypeOK, PlanIsCurrent, [ServiceNext]_serviceVars
    PROVE  PlanIsCurrent'
<1> USE NoneApart
<1> SUFFICES ASSUME scheduler' = "sleeping", wakeup' = FALSE PROVE plan' = TimingNow'
  BY StepTyped DEF PlanIsCurrent, ServiceTypeOK, MonitoringTypeOK
<1>1. ASSUME memory'["bot"] = memory["bot"], scheduler = "sleeping", UNCHANGED <<plan, wakeup>>
      PROVE  plan' = TimingNow'
  BY <1>1 DEF PlanIsCurrent, TimingNow, InBot
<1>2. ASSUME NEW s \in Settings, Change(s) PROVE plan' = TimingNow'
  <2>1. SaveFails(s) /\ UNCHANGED <<memory, scheduler, plan, wakeup>>
    BY <1>2 DEF Change, SaveFails
  <2> QED  BY <1>1, <2>1
<1>3. ASSUME NEW i \in Intervals, UpdateInterval(i) PROVE plan' = TimingNow'
  BY <1>2, <1>3, ServingAlone, SettingsKeepType
  DEF UpdateInterval, Change, Owned, ServiceTypeOK
<1>4. CASE TogglePause
  BY <1>2, <1>4, ServingAlone, SettingsKeepType
  DEF TogglePause, Change, Owned, ServiceTypeOK
<1>5. ASSUME NEW u \in Users, ConsumeBinding(u) PROVE plan' = TimingNow'
  <2>1. scheduler = "sleeping" /\ UNCHANGED <<plan, wakeup>>
    BY <1>5 DEF ConsumeBinding
  <2>2. InBot \in Settings
    BY <1>5, ServingAlone DEF ServiceTypeOK, ConsumeBinding
  <2>3. memory'["bot"] = memory["bot"] \/ memory'["bot"] = Consumed(u, admitted[u])
    BY <1>5 DEF ConsumeBinding, Saves, SaveFails, ServiceTypeOK, ClaimsTypeOK, Processes
  <2>4. /\ Consumed(u, admitted[u]).interval = InBot.interval
        /\ Consumed(u, admitted[u]).paused = InBot.paused
    BY <2>2 DEF Consumed, Settings
  <2>5. TimingNow' = TimingNow  BY <2>3, <2>4 DEF TimingNow, InBot
  <2> QED  BY <2>1, <2>5 DEF PlanIsCurrent
<1>6. CASE Pass \/ CheckReturns
  <2>1. Plans /\ UNCHANGED memory  BY <1>6 DEF Pass, CheckReturns
  <2> QED  BY <2>1 DEF Plans, PlannedWith, TimingNow, InBot
<1>7. ASSUME NEW u \in Users, SetOwner(u) PROVE plan' = TimingNow'
  BY <1>1, <1>7 DEF SetOwner, Closes, ServiceTypeOK, ClaimsTypeOK, Processes
<1>8. ASSUME NEW t \in Tokens, CreateBinding(t) PROVE plan' = TimingNow'
  BY <1>1, <1>8 DEF CreateBinding, Closes, ServiceTypeOK, ClaimsTypeOK, Processes
<1>9. CASE AdminEnds \/ AdminOpens
  BY <1>1, <1>9
  DEF AdminEnds, AdminOpens, Opens, Closes, ServiceTypeOK, ClaimsTypeOK, Processes
<1>10. CASE BotStarts \/ BotStops \/ BotEnds
  BY <1>10 DEF BotStarts, BotStops, BotEnds
<1>11. CASE BotStartsClosed \/ \E t \in Tokens : Expire(t)
  BY <1>1, <1>11 DEF BotStartsClosed, Expire
<1>12. CASE \E u \in Users, t \in Tokens : OpenLink(u, t)
  BY <1>1, <1>12 DEF OpenLink
<1>13. CASE Logout \/ ManualCheck \/ CheckRaises \/ SleepEnds \/ DeliveryRaises
  BY <1>1, <1>13 DEF Logout, ManualCheck, CheckRaises, SleepEnds, DeliveryRaises
<1>14. CASE Report \/ ReportRaises \/ Ages \/ PollAnswered \/ PollUnanswered
  BY <1>1, <1>14 DEF Report, ReportRaises, Ages, PollAnswered, PollUnanswered
<1>15. CASE UNCHANGED serviceVars  BY <1>1, <1>15
<1> QED
  BY <1>3, <1>4, <1>5, <1>6, <1>7, <1>8, <1>9, <1>10, <1>11, <1>12, <1>13, <1>14, <1>15
  DEF ServiceNext

\* A scheduler that sleeps and has not been woken sleeps by the settings of now,
\* whatever the owner changed while it checked.
THEOREM SleepsByCurrentPlan == ServiceSpec => []PlanIsCurrent
<1>1. ServiceInit => PlanIsCurrent  BY DEF ServiceInit, PlanIsCurrent
<1> QED  BY <1>1, InitTyped, StepTyped, StepPlan, PTL DEF ServiceSpec
=============================================================================
