---------------------------- MODULE NotifierProofs ----------------------------
(***************************************************************************)
(* Checks and delivery in one process, with crashes: what module           *)
(* MonitorProofs shows of the checks still holds, no notice is announced   *)
(* twice that Telegram confirmed, and the whole is a mailbox.              *)
(*                                                                         *)
(* The last two hold as long as deduplication remembers every event (Room) *)
(* and so for half as many checks as the list has places, of which a check *)
(* fills two at most.  The invariant says where an event can be: whatever  *)
(* is in the outbox, in hand or in the chat is remembered, it waits in one *)
(* item at most, and the item in hand is in the outbox as it was picked,   *)
(* or has been discarded with its account.                                 *)
(***************************************************************************)
EXTENDS Notifier, MonitorProofs, WellFoundedInduction

\* What the checks keep, whatever the delivery and crashes do.
Base == IInv /\ DeliveryTypeOK /\ crashes \in Nat

Busy == \E t \in TaskIds : InFlight(t)

\* A check that has ended has recorded two events at most.
Spent ==
    /\ checks <= MaxChecks
    /\ Len(st.dedupe) <= 2 * (IF Busy THEN checks - 1 ELSE checks)
    /\ Busy => checks >= 1

Carrying == phase \in {"sending", "accepted"}
Known == Range(st.dedupe)

\* The items of the outbox are about remembered events, each about its own.
OutboxApart ==
    /\ \A i \in DOMAIN st.outbox : /\ st.outbox[i].events # {}
                                   /\ st.outbox[i].events \subseteq Known
    /\ \A i, j \in DOMAIN st.outbox :
          st.outbox[i].events \cap st.outbox[j].events # {} => i = j

\* The item in hand is the one that was picked.
HandHeld ==
    Carrying => /\ inHand \subseteq Known
                /\ \A i \in DOMAIN st.outbox :
                      st.outbox[i].events \cap inHand # {} => st.outbox[i].events = inHand

ChatKnown == \A i \in DOMAIN chat : chat[i] # {} /\ chat[i] \subseteq Known

Accepted == /\ phase = "accepted" => inHand \in Range(chat)
            /\ phase = "sending" => inHand # {}

Places(e) == {i \in DOMAIN chat : e \in chat[i]}

Waits(e) == \E i \in DOMAIN st.outbox : e \in st.outbox[i].events

\* Who still has to say an event: an item that waits, or the one being sent.
Open(e) ==
    /\ ~(phase = "accepted" /\ e \in inHand)
    /\ Waits(e) \/ (phase = "sending" /\ e \in inHand)

\* Before it is said once more every time has gone unheard, after it all but one.
Heard == \A e \in Event : Cardinality(Places(e)) <= unheard + (IF Open(e) THEN 0 ELSE 1)

MailInv == OutboxApart /\ HandHeld /\ ChatKnown /\ Accepted /\ Heard
NInv == Base /\ MailInv
-----------------------------------------------------------------------------
(* A sequence without some of its entries. *)

\* Every nonempty set of natural numbers has a least element.
LEMMA LeastOf ==
    ASSUME NEW T, T \subseteq Nat, T # {}
    PROVE  \E x \in T : \A y \in T : x <= y
<1>1. IsWellFoundedOn(OpToRel(<, Nat), Nat)
  BY NatLessThanWellFounded
<1>2. PICK x \in T : \A y \in T : ~ (<<y, x>> \in OpToRel(<, Nat))
  BY <1>1, WFMin
<1>3. \A y \in T : ~ (y < x)
  BY <1>2 DEF OpToRel
<1> QED  BY <1>3

UpTo(K, i) == {j \in K : j <= i}

\* Two members of a set of places do not have the same number of members before them.
LEMMA RanksDiffer ==
    ASSUME NEW K, K \subseteq Nat, IsFiniteSet(K), NEW i \in K, NEW j \in K,
           Cardinality(UpTo(K, i)) = Cardinality(UpTo(K, j))
    PROVE  i = j
<1>1. ASSUME NEW a \in K, NEW b \in K, a < b,
             Cardinality(UpTo(K, a)) = Cardinality(UpTo(K, b))
      PROVE  FALSE
  <2>1. UpTo(K, a) \subseteq UpTo(K, b) /\ b \in UpTo(K, b) /\ b \notin UpTo(K, a)
    <3>1. a \in Nat /\ b \in Nat /\ \A k \in K : k \in Nat
      OBVIOUS
    <3>2. \A k \in K : k <= a => k <= b
      BY <1>1, <3>1
    <3>3. b <= b /\ ~(b <= a)
      BY <1>1, <3>1
    <3>4. UpTo(K, a) \subseteq UpTo(K, b)
      BY <3>2 DEF UpTo
    <3>5. b \in UpTo(K, b) /\ b \notin UpTo(K, a)
      BY <3>3 DEF UpTo
    <3> QED  BY <3>4, <3>5
  <2>2. IsFiniteSet(UpTo(K, b))
    BY FS_Subset DEF UpTo
  <2> QED  BY <1>1, <2>1, <2>2, FS_Subset
<1>2. i < j \/ j < i \/ i = j
  OBVIOUS
<1> QED  BY <1>1, <1>2

\* For every n there is a member with n of them up to it.
LEMMA RanksExist ==
    ASSUME NEW K, K \subseteq Nat, IsFiniteSet(K), NEW n \in 1..Cardinality(K)
    PROVE  \E i \in K : Cardinality(UpTo(K, i)) = n
<1> DEFINE Found(k) == \E i \in K : Cardinality(UpTo(K, i)) = k
           T == {k \in 1..n : ~Found(k)}
<1>0. Cardinality(K) \in Nat
  BY FS_CardinalityType
<1> SUFFICES ASSUME T # {} PROVE FALSE
  <2>1. n \in 1..n
    BY <1>0
  <2> QED  BY <2>1
<1>1. PICK x \in T : \A y \in T : x <= y
  <2>1. T \subseteq Nat
    BY <1>0
  <2> HIDE DEF T
  <2> QED  BY <2>1, LeastOf
<1>2. x \in 1..n /\ x <= Cardinality(K)
  BY <1>0
<1>3. CASE x = 1
  <2>1. K # {}
    BY <1>0, <1>2, FS_EmptySet
  <2>2. PICK m \in K : \A y \in K : m <= y
    BY <2>1, LeastOf
  <2>3. UpTo(K, m) = {m}
    <3>1. \A k \in K : k <= m <=> k = m
      <4>1. \A k \in K : k \in Nat
        OBVIOUS
      <4> QED  BY <2>2, <4>1
    <3> QED  BY <3>1 DEF UpTo
  <2>4. Found(x)
    BY <1>3, <2>3, FS_Singleton
  <2> QED  BY <2>4
<1>4. CASE x # 1
  <2>1. x - 1 \in 1..n /\ ~(x <= x - 1)
    BY <1>0, <1>2, <1>4
  <2>2. x - 1 \notin T
    <3> HIDE DEF T
    <3> QED  BY <1>1, <2>1
  <2>3. PICK i \in K : Cardinality(UpTo(K, i)) = x - 1
    BY <2>1, <2>2
  <2> HIDE DEF T
  <2> DEFINE Rest == K \ UpTo(K, i)
  <2>4. Rest # {}
    <3>1. UpTo(K, i) \subseteq K /\ UpTo(K, i) # K
      BY <1>0, <1>2, <2>1, <2>3 DEF UpTo
    <3> QED  BY <3>1
  <2>5. PICK m \in Rest : \A y \in Rest : m <= y
    <3>1. Rest \subseteq Nat
      OBVIOUS
    <3> HIDE DEF Rest
    <3> QED  BY <2>4, <3>1, LeastOf
  <2>6. UpTo(K, m) = UpTo(K, i) \cup {m} /\ m \notin UpTo(K, i)
    <3>1. m \in K /\ ~(m <= i)
      BY <2>5 DEF UpTo
    <3>2. \A y \in K : y <= m <=> (y <= i \/ y = m)
      <4>1. ASSUME NEW y \in K, y <= m, ~(y <= i) PROVE y = m
        <5>1. y \in Rest
          BY <4>1 DEF UpTo
        <5>2. m <= y
          BY <2>5, <5>1
        <5> QED  BY <4>1, <5>2
      <4> QED  BY <3>1, <4>1
    <3> QED  BY <3>1, <3>2 DEF UpTo
  <2>7. IsFiniteSet(UpTo(K, i))
    BY FS_Subset DEF UpTo
  <2>8. Cardinality(UpTo(K, m)) = x
    <3>1. Cardinality(UpTo(K, m)) = Cardinality(UpTo(K, i)) + 1
      BY <2>6, <2>7, FS_AddElement
    <3> QED  BY <1>0, <1>2, <2>3, <3>1
  <2>9. Found(x)
    BY <2>5, <2>8
  <2> QED  BY <2>9 DEF T
<1> QED  BY <1>3, <1>4

\* WithoutItem keeps the other items, each once.
LEMMA WithoutItemKeeps ==
    ASSUME NEW outbox \in Seq(OutboxItem), NEW id
    PROVE  /\ WithoutItem(outbox, id) \in Seq(OutboxItem)
           /\ \A n \in DOMAIN WithoutItem(outbox, id) : \E i \in DOMAIN outbox :
                 outbox[i].events # id /\ WithoutItem(outbox, id)[n] = outbox[i]
           /\ \A i \in DOMAIN outbox : outbox[i].events # id =>
                 \E n \in DOMAIN WithoutItem(outbox, id) : WithoutItem(outbox, id)[n] = outbox[i]
           /\ (\A i, j \in DOMAIN outbox :
                  outbox[i].events \cap outbox[j].events # {} => i = j)
              => \A m, n \in DOMAIN WithoutItem(outbox, id) :
                    WithoutItem(outbox, id)[m].events \cap WithoutItem(outbox, id)[n].events # {} => m = n
<1> DEFINE kept == {i \in DOMAIN outbox : outbox[i].events # id}
           place(n) == CHOOSE i \in kept : Cardinality({j \in kept : j <= i}) = n
           rest == WithoutItem(outbox, id)
<1>1. kept \subseteq Nat /\ IsFiniteSet(kept) /\ kept \subseteq DOMAIN outbox
  <2>1. DOMAIN outbox = 1..Len(outbox) /\ Len(outbox) \in Nat
    OBVIOUS
  <2>2. IsFiniteSet(DOMAIN outbox)
    BY <2>1, FS_Interval
  <2> QED  BY <2>1, <2>2, FS_Subset
<1>2. Cardinality(kept) \in Nat
  BY <1>1, FS_CardinalityType
<1>3. rest = [n \in 1..Cardinality(kept) |-> outbox[place(n)]]
  BY DEF WithoutItem
<1>4. \A i \in kept : outbox[i].events # id
  OBVIOUS
<1>5. \A i \in DOMAIN outbox : outbox[i].events # id => i \in kept
  OBVIOUS
<1> HIDE DEF kept
<1>6. ASSUME NEW n \in 1..Cardinality(kept)
      PROVE  place(n) \in kept /\ Cardinality(UpTo(kept, place(n))) = n
  <2>1. \E i \in kept : Cardinality({j \in kept : j <= i}) = n
    BY <1>1, RanksExist DEF UpTo
  <2>2. place(n) \in kept /\ Cardinality({j \in kept : j <= place(n)}) = n
    BY <2>1
  <2> QED  BY <2>2 DEF UpTo
<1>7. ASSUME NEW i \in kept
      PROVE  \E n \in 1..Cardinality(kept) : place(n) = i
  <2> DEFINE n == Cardinality(UpTo(kept, i))
  <2>1. UpTo(kept, i) \subseteq kept /\ i \in UpTo(kept, i)
    BY <1>1 DEF UpTo
  <2>2. n \in Nat /\ n <= Cardinality(kept) /\ n # 0
    BY <1>1, <2>1, FS_Subset, FS_CardinalityType, FS_EmptySet
  <2>3. n \in 1..Cardinality(kept)
    BY <1>2, <2>2
  <2>4. place(n) \in kept /\ Cardinality(UpTo(kept, place(n))) = n
    BY <1>6, <2>3
  <2>5. place(n) = i
    BY <1>1, <2>4, RanksDiffer
  <2> QED  BY <2>3, <2>5
<1> HIDE DEF place, rest
<1>8. rest \in Seq(OutboxItem) /\ DOMAIN rest = 1..Cardinality(kept)
      /\ \A n \in 1..Cardinality(kept) : rest[n] = outbox[place(n)]
  <2>1. ASSUME NEW n \in 1..Cardinality(kept) PROVE outbox[place(n)] \in OutboxItem
    <3>1. place(n) \in DOMAIN outbox
      BY <1>1, <1>6
    <3> QED  BY <3>1
  <2>2. rest \in [1..Cardinality(kept) -> OutboxItem]
    BY <1>3, <2>1
  <2> QED  BY <1>2, <1>3, <2>2
<1>9. \A n \in DOMAIN rest : \E i \in DOMAIN outbox : outbox[i].events # id /\ rest[n] = outbox[i]
  BY <1>1, <1>4, <1>6, <1>8
<1>10. \A i \in DOMAIN outbox : outbox[i].events # id => \E n \in DOMAIN rest : rest[n] = outbox[i]
  BY <1>5, <1>7, <1>8
<1>11. ASSUME \A i, j \in DOMAIN outbox : outbox[i].events \cap outbox[j].events # {} => i = j,
              NEW m \in DOMAIN rest, NEW n \in DOMAIN rest, rest[m].events \cap rest[n].events # {}
       PROVE  m = n
  <2>1. place(m) \in DOMAIN outbox /\ place(n) \in DOMAIN outbox
    BY <1>1, <1>6, <1>8
  <2>2. place(m) = place(n)
    BY <1>8, <1>11, <2>1
  <2>3. m = Cardinality(UpTo(kept, place(m))) /\ n = Cardinality(UpTo(kept, place(n)))
    BY <1>6, <1>8
  <2> QED  BY <2>2, <2>3
<1>12. (\A i, j \in DOMAIN outbox : outbox[i].events \cap outbox[j].events # {} => i = j)
         => \A m, n \in DOMAIN rest : rest[m].events \cap rest[n].events # {} => m = n
  BY <1>11
<1> QED  BY <1>8, <1>9, <1>10, <1>12 DEF rest
-----------------------------------------------------------------------------
(* What the delivery and a crash leave of the checks. *)

\* The items stay, and what they are about; only their times change.
SameItems(o) ==
    /\ o \in Seq(OutboxItem) /\ DOMAIN o = DOMAIN st.outbox
    /\ \A i \in DOMAIN o : o[i].events = st.outbox[i].events

LEMMA PostponedSame ==
    ASSUME st.outbox \in Seq(OutboxItem), NEW id
    PROVE  SameItems(Postponed(st.outbox, id))
<1> DEFINE o == st.outbox
           p == Postponed(o, id)
           n == Len(o)
<1>1. /\ p = [i \in DOMAIN o |->
                IF o[i].events = id /\ \A j \in 1..(i - 1) : o[j].events # id
                THEN [o[i] EXCEPT !.ready = FALSE] ELSE o[i]]
      /\ DOMAIN o = 1..n /\ n \in Nat
  BY DEF Postponed
<1>2. ASSUME NEW i \in DOMAIN o PROVE p[i] \in OutboxItem /\ p[i].events = o[i].events
  <2>1. o[i] \in OutboxItem
    OBVIOUS
  <2>2. p[i] \in {[o[i] EXCEPT !.ready = FALSE], o[i]}
    BY <1>1
  <2> HIDE DEF p
  <2> QED  BY <2>1, <2>2 DEF OutboxItem
<1>3. DOMAIN p = 1..n
  BY <1>1
<1>4. p \in [1..n -> OutboxItem]
  BY <1>1, <1>2
<1> HIDE DEF p, n
<1> QED  BY <1>1, <1>2, <1>3, <1>4 DEF SameItems, p

LEMMA ReadySame ==
    ASSUME st.outbox \in Seq(OutboxItem), NEW i \in DOMAIN st.outbox
    PROVE  SameItems([st.outbox EXCEPT ![i].ready = TRUE])
<1> DEFINE o == st.outbox
           p == [o EXCEPT ![i].ready = TRUE]
<1>1. DOMAIN p = DOMAIN o /\ DOMAIN o = 1..Len(o) /\ Len(o) \in Nat
  OBVIOUS
<1>2. ASSUME NEW k \in DOMAIN o PROVE p[k] \in OutboxItem /\ p[k].events = o[k].events
  <2>1. o[k] \in OutboxItem
    OBVIOUS
  <2>2. p[k] \in {[o[k] EXCEPT !.ready = TRUE], o[k]}
    OBVIOUS
  <2> HIDE DEF p
  <2> QED  BY <2>1, <2>2 DEF OutboxItem
<1>3. p \in [1..Len(o) -> OutboxItem]
  BY <1>1, <1>2
<1>4. p \in Seq(OutboxItem)
  BY <1>1, <1>3
<1> HIDE DEF p
<1> QED  BY <1>1, <1>2, <1>4 DEF SameItems, p

\* A step of the delivery changes the record in its outbox only: it has the
\* same items, or one less.
LEMMA DeliveryOutbox ==
    ASSUME st \in AppStateType, DeliveryTypeOK, DeliveryNext
    PROVE  \/ st' = st
           \/ \E o : SameItems(o) /\ st' = [st EXCEPT !.outbox = o]
           \/ Acknowledge
<1>1. st.outbox \in Seq(OutboxItem)
  BY DEF AppStateType
<1>2. CASE Pick \/ Wait \/ Accept
  BY <1>2 DEF Pick, Wait, Accept
<1>3. CASE Refused \/ AnswerLost
  BY <1>1, <1>3, PostponedSame DEF Refused, AnswerLost, Postpone
<1>4. CASE RetryDue
  <2>1. PICK i \in DOMAIN st.outbox : st' = [st EXCEPT !.outbox[i].ready = TRUE]
    BY <1>4 DEF RetryDue
  <2>2. st' = [st EXCEPT !.outbox = [st.outbox EXCEPT ![i].ready = TRUE]]
    BY <2>1
  <2> QED  BY <1>1, <2>2, ReadySame
<1> QED  BY <1>2, <1>3, <1>4 DEF DeliveryNext

LEMMA DeliveryTypes ==
    ASSUME st \in AppStateType, DeliveryTypeOK, DeliveryNext PROVE DeliveryTypeOK'
<1>1. st.outbox \in Seq(OutboxItem)
  BY DEF AppStateType
<1>2. CASE Pick
  <2>1. PICK i \in DOMAIN st.outbox : inHand' = st.outbox[i].events
    BY <1>2 DEF Pick
  <2>2. st.outbox[i] \in OutboxItem
    BY <1>1
  <2>3. inHand' \subseteq Event
    BY <2>1, <2>2 DEF OutboxItem
  <2> QED  BY <1>2, <2>3 DEF Pick, DeliveryTypeOK, Phases
<1>3. CASE Wait \/ Acknowledge \/ Refused \/ RetryDue
  BY <1>3 DEF Wait, Acknowledge, Refused, RetryDue, Postpone, DeliveryTypeOK, Phases
<1>4. CASE Accept
  BY <1>4 DEF Accept, DeliveryTypeOK, Phases
<1>5. CASE AnswerLost
  BY <1>5 DEF AnswerLost, Postpone, DeliveryTypeOK, Phases
<1> QED  BY <1>2, <1>3, <1>4, <1>5 DEF DeliveryNext

\* Fewer items, or the same at other times, disturb no invariant of the checks.
LEMMA OtherOutbox ==
    ASSUME IInv, NEW o \in Seq(OutboxItem),
           \A n \in DOMAIN o : \E i \in DOMAIN st.outbox : o[n].events = st.outbox[i].events,
           st' = [st EXCEPT !.outbox = o], UNCHANGED monitorOwn
    PROVE  IInv' /\ st'.outbox = o /\ st'.dedupe = st.dedupe /\ st'.account = st.account
<1>1. st \in AppStateType
  BY DEF IInv, Good
<1>2. /\ st' \in AppStateType /\ st'.outbox = o /\ st'.dedupe = st.dedupe
      /\ st'.events = st.events /\ st'.account = st.account /\ st'.snapshot = st.snapshot
      /\ st'.creditBaseline = st.creditBaseline /\ st'.failures = st.failures
      /\ st'.outage = st.outage /\ st'.outageNotified = st.outageNotified
  BY <1>1 DEF AppStateType
<1>3. Isolated(st')
  <2>1. ASSUME NEW item \in Range(o), NEW e \in item.events PROVE e.account \in {None, st.account}
    <3>1. PICK n \in DOMAIN o : item = o[n]
      BY DEF Range
    <3>2. PICK i \in DOMAIN st.outbox : o[n].events = st.outbox[i].events
      OBVIOUS
    <3>3. st.outbox[i] \in Range(st.outbox) /\ e \in st.outbox[i].events
      BY <2>1, <3>1, <3>2 DEF Range
    <3> QED  BY <3>3 DEF IInv, Good, Isolated
  <2> QED  BY <1>2, <2>1 DEF IInv, Good, Isolated
<1>4. Good(st')
  BY <1>2, <1>3 DEF IInv, Good, Recorded, Aligned, OutageAgrees
<1>5. UNCHANGED <<enabled, codex, tasks, current, caller, cooling, logout, loginDone,
                  checks, signs>>
  BY DEF monitorOwn
<1>6. Control' /\ Captured' /\ Surroundings'
  BY <1>2, <1>5 DEF IInv, Control, SingleFlight, InFlight, WaitingOnly, Captured,
                    CapturedIsCurrent, PausedOverOneAccount, Surroundings
<1> QED  BY <1>2, <1>4, <1>6 DEF IInv

\* A crash forgets tasks and callers, and keeps what was written.
LEMMA RestartKeepsChecks == ASSUME IInv, Restart PROVE IInv'
<1>1. /\ st' = st /\ UNCHANGED <<enabled, codex, checks, signs>>
      /\ tasks' = [t \in TaskIds |-> NoTask] /\ current' = None
      /\ caller' = [c \in Callers |-> Idle]
      /\ cooling' = FALSE /\ logout' = "none" /\ loginDone' = {}
  BY DEF Restart
<1>2. NoTask \in Task /\ NoTask.pc = "none"
  BY DEF NoTask, Task, Pcs, MaybeAccount
<1>3. Idle \in CallerType /\ Idle.task = None /\ Idle.result = None
  BY DEF Idle, CallerType
<1>4. Control'
  <2>1. SingleFlight'
    BY <1>1, <1>2, <1>3, TasksAssumption DEF SingleFlight, InFlight
  <2> QED  BY <1>1, <1>2, <1>3, <2>1 DEF Control, WaitingOnly
<1>5. Captured'
  BY <1>1, <1>2 DEF Captured, CapturedIsCurrent, PausedOverOneAccount
<1>6. Surroundings'
  BY <1>1 DEF IInv, Surroundings
<1> QED  BY <1>1, <1>4, <1>5, <1>6 DEF IInv, Good

LEMMA BaseInit == NotifierInit => Base
<1> SUFFICES ASSUME NotifierInit PROVE Base
  OBVIOUS
<1>1. IInv
  BY InitEstablishesIInv DEF NotifierInit
<1>2. DeliveryTypeOK
  <2>1. << >> \in Seq(SUBSET Event)
    OBVIOUS
  <2> QED  BY <2>1 DEF NotifierInit, DeliveryInit, DeliveryTypeOK, Phases
<1> QED  BY <1>1, <1>2 DEF NotifierInit, Base

LEMMA BaseStep == ASSUME Base, [NotifierNext]_notifierVars PROVE Base'
<1>1. st \in AppStateType /\ IInv /\ DeliveryTypeOK
  BY DEF Base, IInv, Good
<1>2. CASE CheckStep
  <2>1. MonitorNext /\ UNCHANGED <<phase, inHand, chat, unheard, crashes>>
    BY <1>2 DEF CheckStep, deliveryOwn
  <2>2. IInv'
    BY <1>1, <2>1, StepKeepsIInv
  <2> QED  BY <1>1, <2>1, <2>2 DEF Base, DeliveryTypeOK
<1>3. CASE DeliveryStep
  <2>1. DeliveryNext /\ UNCHANGED monitorOwn /\ crashes' = crashes
    BY <1>3 DEF DeliveryStep
  <2>2. DeliveryTypeOK'
    BY <1>1, <2>1, DeliveryTypes
  <2>3. CASE st' = st
    <3>1. UNCHANGED monitorVars
      BY <2>1, <2>3 DEF monitorOwn, monitorVars
    <3>2. IInv'
      BY <1>1, <3>1, StepKeepsIInv
    <3> QED  BY <2>1, <2>2, <3>2 DEF Base
  <2>4. CASE \E o : SameItems(o) /\ st' = [st EXCEPT !.outbox = o]
    <3>1. IInv'
      BY <1>1, <2>1, <2>4, OtherOutbox DEF SameItems
    <3> QED  BY <2>1, <2>2, <3>1 DEF Base
  <2>5. CASE Acknowledge
    <3>1. st' = [st EXCEPT !.outbox = WithoutItem(st.outbox, inHand)]
      BY <2>5 DEF Acknowledge
    <3>2. st.outbox \in Seq(OutboxItem)
      BY <1>1 DEF AppStateType
    <3>3. /\ WithoutItem(st.outbox, inHand) \in Seq(OutboxItem)
          /\ \A n \in DOMAIN WithoutItem(st.outbox, inHand) : \E i \in DOMAIN st.outbox :
                WithoutItem(st.outbox, inHand)[n] = st.outbox[i]
      BY <3>2, WithoutItemKeeps
    <3>4. IInv'
      BY <1>1, <2>1, <3>1, <3>3, OtherOutbox
    <3> QED  BY <2>1, <2>2, <3>4 DEF Base
  <2> QED  BY <1>1, <2>1, <2>3, <2>4, <2>5, DeliveryOutbox
<1>4. CASE Restart
  <2>1. IInv'
    BY <1>1, <1>4, RestartKeepsChecks
  <2>2. DeliveryTypeOK'
    BY <1>1, <1>4 DEF Restart, DeliveryTypeOK, Phases
  <2> QED  BY <1>4, <2>1, <2>2, CrashesAssumption DEF Restart, Base
<1>5. CASE UNCHANGED notifierVars
  <2>1. UNCHANGED monitorVars /\ UNCHANGED <<st, phase, inHand, chat, unheard, crashes>>
    BY <1>5 DEF notifierVars, deliveryVars
  <2>2. IInv'
    BY <1>1, <2>1, StepKeepsIInv
  <2> QED  BY <2>1, <2>2, <1>1 DEF Base, DeliveryTypeOK
<1> QED  BY <1>2, <1>3, <1>4, <1>5 DEF NotifierNext

LEMMA BaseAlways == NotifierSpec => []Base
BY BaseInit, BaseStep, PTL DEF NotifierSpec

\* Every variable of the process keeps its type.
THEOREM NotifierTypeCorrect == NotifierSpec => []NotifierTypeOK
<1>1. Base => NotifierTypeOK
  BY DEF Base, IInv, Good, Control, Surroundings, NotifierTypeOK, MonitorTypeOK
<1> QED  BY <1>1, BaseAlways, PTL

\* Delivery changes the record while a check awaits its answers, and a crash
\* cuts a check short at any await: one check at a time, accounts apart, ids
\* recorded once, captures current and outage fields that agree hold all the
\* same (monitor.py, delivery.py, main.py).
THEOREM ChecksStaySafe ==
    NotifierSpec => [](SingleFlight /\ AccountIsolation /\ RecordedOnce
                       /\ CapturedIsCurrent /\ OutageConsistent)
<1>1. Base => SingleFlight /\ AccountIsolation /\ RecordedOnce /\ CapturedIsCurrent
              /\ OutageConsistent
  BY DEF Base, IInv, Good, Control, Captured, AccountIsolation, RecordedOnce, OutageConsistent
<1> QED  BY <1>1, BaseAlways, PTL
\* What a check takes over its pause, and what the list remembers of outages.
Watch == PausedOverMove /\ Remembered(st)

\* Delivery leaves the checks, and what they read of the record, alone; a crash
\* leaves no task.
LEMMA OthersAreQuiet ==
    ASSUME Base, DeliveryStep \/ Restart
    PROVE  /\ st'.dedupe = st.dedupe /\ st'.snapshot = st.snapshot
           /\ st'.outage = st.outage /\ st'.outageNotified = st.outageNotified
           /\ UNCHANGED monitorOwn \/ tasks' = [t \in TaskIds |-> NoTask]
<1>1. st \in AppStateType /\ DeliveryTypeOK
  BY DEF Base, IInv, Good
<1>2. CASE DeliveryStep
  <2>1. DeliveryNext /\ UNCHANGED monitorOwn
    BY <1>2 DEF DeliveryStep
  <2>2. \E o : st' = [st EXCEPT !.outbox = o]
    <3>1. st = [st EXCEPT !.outbox = st.outbox]
      BY <1>1 DEF AppStateType
    <3>2. Acknowledge => st' = [st EXCEPT !.outbox = WithoutItem(st.outbox, inHand)]
      BY DEF Acknowledge
    <3> QED  BY <1>1, <2>1, <3>1, <3>2, DeliveryOutbox
  <2> QED  BY <1>1, <2>1, <2>2 DEF AppStateType
<1>3. CASE Restart
  BY <1>3 DEF Restart
<1> QED  BY <1>2, <1>3

LEMMA WatchStep ==
    ASSUME Base, Watch, [NotifierNext]_notifierVars PROVE Watch'
<1>1. IInv
  BY DEF Base
<1>2. CASE CheckStep \/ UNCHANGED notifierVars
  <2>1. [MonitorNext]_monitorVars
    BY <1>2 DEF CheckStep, notifierVars
  <2> QED  BY <1>1, <2>1, StepPaused, StepRemembered DEF Watch
<1>3. CASE DeliveryStep \/ Restart
  <2>1. Remembered(st)'
    BY <1>3, OthersAreQuiet DEF Watch, Remembered, Follows
  <2>2. CASE UNCHANGED monitorOwn
    <3>1. tasks' = tasks
      BY <2>2 DEF monitorOwn
    <3>2. PausedOverMove'
      BY <3>1 DEF Watch, PausedOverMove
    <3> QED  BY <2>1, <3>2 DEF Watch
  <2>3. CASE tasks' = [t \in TaskIds |-> NoTask]
    <3>1. \A t \in TaskIds : tasks'[t].pc = "none"
      BY <2>3 DEF NoTask
    <3>2. PausedOverMove'
      BY <3>1 DEF PausedOverMove
    <3> QED  BY <2>1, <3>2 DEF Watch
  <2> QED  BY <1>3, <2>2, <2>3, OthersAreQuiet
<1> QED  BY <1>2, <1>3 DEF NotifierNext

LEMMA WatchAlways == NotifierSpec => []Watch
<1>1. NotifierInit => Watch
  <2> SUFFICES ASSUME NotifierInit PROVE Watch
    OBVIOUS
  <2>1. Remembered(st)
    BY DEF NotifierInit, MonitorInit, InitialAppState, Remembered, Follows
  <2> QED  BY <2>1, InitPaused DEF NotifierInit, Watch
<1>2. Base /\ Watch /\ [NotifierNext]_notifierVars => Watch'
  BY WatchStep
<1> QED  BY <1>1, <1>2, BaseAlways, PTL DEF NotifierSpec

\* The list holds every recovery after the outage it ends across crashes too
\* (monitor.py, storage.py): what an outage needs to be ended is in the record.
THEOREM RecoveriesFollowAcrossCrashes == NotifierSpec => []RecoveryFollowsOutage
<1>1. Watch => RecoveryFollowsOutage
  BY DEF Watch, Remembered, Follows, RecoveryFollowsOutage
<1> QED  BY <1>1, WatchAlways, PTL

\* A reset that looks early is recorded by the process that read it twice: a
\* crash between the two reads forgets the first of them (monitor.py:87-105).
THEOREM CrashesForgetOneRead == NotifierSpec => EarlyNeedsSecondRead
<1>1. Base /\ Watch /\ [NotifierNext]_notifierVars => [SeenTwice]_monitorVars
  <2> SUFFICES ASSUME Base, Watch, [NotifierNext]_notifierVars PROVE [SeenTwice]_monitorVars
    OBVIOUS
  <2>1. CASE CheckStep \/ UNCHANGED notifierVars
    <3>1. [MonitorNext]_monitorVars
      BY <2>1 DEF CheckStep, notifierVars
    <3> QED  BY <3>1, StepSeesTwice DEF Base, Watch
  <2>2. CASE DeliveryStep \/ Restart
    <3>1. st'.dedupe = st.dedupe
      BY <2>2, OthersAreQuiet
    <3> QED  BY <3>1 DEF SeenTwice
  <2> QED  BY <2>1, <2>2 DEF NotifierNext
<1>2. NotifierSpec => [][SeenTwice]_monitorVars
  BY <1>1, BaseAlways, WatchAlways, PTL DEF NotifierSpec
<1> QED  BY <1>2 DEF EarlyNeedsSecondRead, SeenTwice

\* No crash loses a reset: the snapshot with the later window and the event are
\* written by one commit, or neither is (monitor.py:87-139, storage.py).
THEOREM CrashesLoseNoReset ==
    ASSUME DedupeLimit >= 2 PROVE NotifierSpec => ResetRecorded
<1>1. Base /\ Watch /\ [NotifierNext]_notifierVars => [ResetNoted]_monitorVars
  <2> SUFFICES ASSUME Base, Watch, [NotifierNext]_notifierVars PROVE [ResetNoted]_monitorVars
    OBVIOUS
  <2>1. CASE CheckStep \/ UNCHANGED notifierVars
    <3>1. [MonitorNext]_monitorVars
      BY <2>1 DEF CheckStep, notifierVars
    <3> QED  BY <3>1, StepNotesReset DEF Base, Watch
  <2>2. CASE DeliveryStep \/ Restart
    <3>1. st'.snapshot = st.snapshot
      BY <2>2, OthersAreQuiet
    <3>2. st.snapshot # None => ~Advanced(st.snapshot, st.snapshot)
      <4> SUFFICES ASSUME st.snapshot # None PROVE ~Advanced(st.snapshot, st.snapshot)
        OBVIOUS
      <4>1. st.snapshot \in Snapshot
        BY DEF Base, IInv, Good, AppStateType
      <4>2. st.snapshot.window \in Nat
        BY <4>1, WindowsAssumption DEF Snapshot
      <4> QED  BY <4>2 DEF Advanced
    <3> QED  BY <3>1, <3>2 DEF ResetNoted
  <2> QED  BY <2>1, <2>2 DEF NotifierNext
<1>2. NotifierSpec => [][ResetNoted]_monitorVars
  BY <1>1, BaseAlways, WatchAlways, PTL DEF NotifierSpec
<1> QED  BY <1>2 DEF ResetRecorded, ResetNoted
-----------------------------------------------------------------------------
(* What a commit forgets and what it posts. *)

\* An item about events that were not remembered, and now are.
News(s, c, item) ==
    /\ item \in OutboxItem /\ item.events # {}
    /\ item.events \cap Range(s.dedupe) = {} /\ item.events \subseteq Range(c.dedupe)

\* Nothing is forgotten, two events at most are new, and the outbox gains one
\* item at most; it is emptied only with the account it was for.
Commits(s, c) ==
    /\ Range(s.dedupe) \subseteq Range(c.dedupe) /\ Len(c.dedupe) <= Len(s.dedupe) + 2
    /\ \E kept \in {s.outbox, <<>>} :
          /\ kept = s.outbox \/ c.account # s.account \/ c.account = None
          /\ c.outbox = kept \/ \E item : News(s, c, item) /\ c.outbox = Append(kept, item)

HasRoom(s) == Len(s.dedupe) + 2 <= DedupeLimit

\* Two events more, and the list is whole.
LEMMA GrowsByTwo ==
    ASSUME NEW s \in AppStateType, NEW a \in AppStateType, HasRoom(s),
           NEW batch, Gains(s.dedupe, a.dedupe, batch), NEW e, NEW f, batch \subseteq {e, f}
    PROVE  /\ Bounded(a).dedupe = a.dedupe
           /\ Range(s.dedupe) \subseteq Range(a.dedupe) /\ batch \subseteq Range(a.dedupe)
           /\ Len(a.dedupe) <= Len(s.dedupe) + 2
<1> DEFINE old == s.dedupe
<1>1. PICK fresh \in Seq(Event) :
         /\ a.dedupe = old \o fresh
         /\ Range(fresh) = batch \ Range(old)
         /\ \A i, j \in DOMAIN fresh : fresh[i] = fresh[j] => i = j
  BY DEF Gains
<1>2. old \in Seq(Event) /\ a.dedupe \in Seq(Event)
  BY DEF AppStateType
<1>3. Len(fresh) <= 2
  <2> SUFFICES ASSUME Len(fresh) >= 3 PROVE FALSE
    OBVIOUS
  <2>1. {1, 2, 3} \subseteq DOMAIN fresh
    OBVIOUS
  <2>2. \A i \in DOMAIN fresh : fresh[i] \in {e, f}
    BY <1>1 DEF Range
  <2> QED  BY <1>1, <2>1, <2>2
<1>4. Range(old) \subseteq Range(a.dedupe) /\ Range(fresh) \subseteq Range(a.dedupe)
  <2>1. \A i \in DOMAIN old : i \in DOMAIN (old \o fresh) /\ (old \o fresh)[i] = old[i]
    BY <1>2
  <2>2. \A i \in DOMAIN fresh : /\ Len(old) + i \in DOMAIN (old \o fresh)
                                /\ (old \o fresh)[Len(old) + i] = fresh[i]
    BY <1>2
  <2> DEFINE l == old \o fresh
  <2> HIDE DEF l
  <2>3. Range(old) \subseteq Range(l)
    BY <2>1 DEF Range, l
  <2>4. Range(fresh) \subseteq Range(l)
    BY <2>2 DEF Range, l
  <2> QED  BY <1>1, <2>3, <2>4 DEF l
<1>5. Len(a.dedupe) = Len(old) + Len(fresh) /\ Len(old) \in Nat /\ Len(fresh) \in Nat
  BY <1>1, <1>2
<1>6. Len(a.dedupe) <= DedupeLimit /\ Len(a.dedupe) <= Len(old) + 2
  BY <1>3, <1>5, LimitsAssumption DEF HasRoom
<1>7. Bounded(a).dedupe = a.dedupe
  BY <1>6 DEF Bounded, Newest, AppStateType
<1>8. batch \subseteq Range(a.dedupe)
  BY <1>1, <1>4
<1> QED  BY <1>4, <1>6, <1>7, <1>8
\* What an append does to the outbox.
Posts(s, a, batch) ==
    /\ a.account = s.account
    /\ \/ a.outbox = s.outbox
       \/ \E item \in OutboxItem :
             /\ item.events # {} /\ item.events \subseteq batch \ Range(s.dedupe)
             /\ a.outbox = Append(s.outbox, item)

LEMMA AppendPosts ==
    ASSUME NEW s \in AppStateType, NEW batch, batch \subseteq Event, NEW notifications
    PROVE  Posts(s, AppendEventsAndOutbox(s, batch, notifications), batch)
<1> DEFINE unique == batch \ Range(s.dedupe)
           notify == {e \in unique : NotificationEnabled(e, notifications)}
           item0 == [events |-> notify, ready |-> TRUE]
           a == AppendEventsAndOutbox(s, batch, notifications)
<1>1. /\ a.account = s.account
      /\ a.outbox = s.outbox \/ (notify # {} /\ a.outbox = Append(s.outbox, item0))
  BY DEF AppStateType, AppendEventsAndOutbox, Unique
<1>2. item0 \in OutboxItem /\ item0.events = notify /\ notify \subseteq unique
  BY DEF OutboxItem
<1> HIDE DEF a, item0, notify
<1>3. Posts(s, a, batch)
  BY <1>1, <1>2 DEF Posts
<1> QED  BY <1>3 DEF a

\* An append of two events at most to the record, with or without the outbox
\* of another account, is a commit, whatever other fields change.
LEMMA AppendCommits ==
    ASSUME NEW s \in AppStateType, NEW o \in AppStateType, o.dedupe = s.dedupe, HasRoom(s),
           NEW batch, batch \subseteq Event, NEW e, NEW f, batch \subseteq {e, f},
           NEW notifications, NEW c,
           c.dedupe = Bounded(AppendEventsAndOutbox(o, batch, notifications)).dedupe,
           c.outbox = AppendEventsAndOutbox(o, batch, notifications).outbox,
           o.outbox \in {s.outbox, <<>>},
           o.outbox = s.outbox \/ c.account # s.account \/ c.account = None,
           Aligned(o)
    PROVE  Commits(s, c)
<1> DEFINE a == AppendEventsAndOutbox(o, batch, notifications)
<1>1. IsFiniteSet(batch)
  <2>1. IsFiniteSet({e, f})
    <3>1. IsFiniteSet({f}) /\ {e, f} = {f} \cup {e}
      BY FS_Singleton
    <3> QED  BY <3>1, FS_AddElement
  <2> QED  BY <2>1, FS_Subset
<1>2. a \in AppStateType /\ Gains(s.dedupe, a.dedupe, batch)
  BY <1>1, AppendKeepsAligned, AppendGains
<1>3. \/ a.outbox = o.outbox
      \/ \E item \in OutboxItem :
            /\ item.events # {} /\ item.events \subseteq batch \ Range(s.dedupe)
            /\ a.outbox = Append(o.outbox, item)
  <2>1. Posts(o, a, batch)
    BY AppendPosts
  <2> QED  BY <2>1 DEF Posts
<1> HIDE DEF a
<1>4. /\ Bounded(a).dedupe = a.dedupe
      /\ Range(s.dedupe) \subseteq Range(a.dedupe) /\ batch \subseteq Range(a.dedupe)
      /\ Len(a.dedupe) <= Len(s.dedupe) + 2
  BY <1>2, GrowsByTwo
<1>5. c.dedupe = a.dedupe /\ c.outbox = a.outbox
  BY <1>4 DEF a
<1>6. c.outbox = o.outbox \/ \E item : News(s, c, item) /\ c.outbox = Append(o.outbox, item)
  BY <1>3, <1>4, <1>5 DEF News
<1> QED  BY <1>4, <1>5, <1>6 DEF Commits

\* Nothing recorded and nothing posted, and the outbox kept or dropped.
LEMMA NothingCommits ==
    ASSUME NEW s \in AppStateType, NEW c, c.dedupe = s.dedupe, c.outbox \in {s.outbox, <<>>},
           c.outbox = s.outbox \/ c.account # s.account \/ c.account = None
    PROVE  Commits(s, c)
<1>1. s.dedupe \in Seq(Event)
  BY DEF AppStateType
<1>2. Len(s.dedupe) <= Len(s.dedupe) + 2
  BY <1>1
<1> QED  BY <1>2 DEF Commits

\* A list that has room is not trimmed.
LEMMA BoundedIsWhole ==
    ASSUME NEW s \in AppStateType, HasRoom(s)
    PROVE  /\ Bounded(s).dedupe = s.dedupe
           /\ Bounded(s).outbox = s.outbox /\ Bounded(s).account = s.account
<1>1. s.dedupe \in Seq(Event)
  BY DEF AppStateType
<1>2. Len(s.dedupe) <= DedupeLimit
  BY <1>1, LimitsAssumption DEF HasRoom
<1> QED  BY <1>2 DEF Bounded, Newest, AppStateType
\* _record_auth_required
LEMMA AuthRequiredCommits ==
    ASSUME NEW s, Good(s), HasRoom(s), NEW notifications
    PROVE  Commits(s, RecordAuthRequired(s, notifications))
<1> DEFINE known  == s.account # None
           marked == [s EXCEPT !.authStatus = IF known THEN "reauth_required"
                                                       ELSE "disconnected"]
           batch  == {AuthRequired(s.account)}
           a      == AppendEventsAndOutbox(marked, batch, notifications)
           told   == [a EXCEPT !.authNotified = TRUE]
           c      == RecordAuthRequired(s, notifications)
<1>1. s \in AppStateType /\ Aligned(s)
  BY DEF Good, Recorded
<1>2. marked \in AppStateType
  BY <1>1 DEF AppStateType, AuthStatus
<1>3. /\ marked.account = s.account /\ marked.dedupe = s.dedupe /\ marked.outbox = s.outbox
      /\ marked.events = s.events
  BY <1>1 DEF AppStateType
<1>4. c = Bounded(IF known /\ ~s.authNotified THEN told ELSE marked)
  BY DEF RecordAuthRequired
<1> HIDE DEF marked, c
<1>5. Aligned(marked)
  BY <1>1, <1>3 DEF Aligned
<1>6. CASE known /\ ~s.authNotified
  <2>1. s.account \in MaybeAccount /\ <<>> \in Seq(Nat)
    BY <1>1 DEF AppStateType
  <2>2. AuthRequired(s.account) \in Event
    BY <2>1 DEF AuthRequired, Event, EventTypes
  <2>3. batch \subseteq Event /\ batch \subseteq {AuthRequired(s.account), AuthRequired(s.account)}
    BY <2>2
  <2>4. IsFiniteSet(batch)
    BY FS_Singleton
  <2>5. a \in AppStateType
    BY <1>2, <1>5, <2>3, <2>4, AppendKeepsAligned
  <2>6. told.dedupe = a.dedupe /\ told.outbox = a.outbox /\ told.account = a.account
        /\ told \in AppStateType
    <3> HIDE DEF a
    <3> QED  BY <2>5 DEF AppStateType
  <2>7. c.dedupe = Bounded(a).dedupe /\ c.outbox = a.outbox
    <3> HIDE DEF a
    <3>1. c = Bounded(told)
      BY <1>4, <1>6
    <3>2. Bounded(told).dedupe = Newest(told.dedupe, DedupeLimit) /\ Bounded(told).outbox = told.outbox
      BY <2>6 DEF Bounded, AppStateType
    <3>3. Bounded(a).dedupe = Newest(a.dedupe, DedupeLimit)
      BY <2>5 DEF Bounded, AppStateType
    <3> QED  BY <2>6, <3>1, <3>2, <3>3
  <2> HIDE DEF batch
  <2>8. Commits(s, c)
    BY <1>1, <1>2, <1>3, <1>5, <2>3, <2>7, AppendCommits
  <2> QED  BY <2>8 DEF c
<1>7. CASE ~(known /\ ~s.authNotified)
  <2>1. c = Bounded(marked)
    BY <1>4, <1>7
  <2>2. HasRoom(marked)
    BY <1>3 DEF HasRoom
  <2>3. c.dedupe = s.dedupe /\ c.outbox = s.outbox
    BY <1>2, <1>3, <2>1, <2>2, BoundedIsWhole
  <2>4. Commits(s, c)
    BY <1>1, <2>3, NothingCommits
  <2> QED  BY <2>4 DEF c
<1> QED  BY <1>6, <1>7 DEF c

\* _record_failure
LEMMA FailureCommits ==
    ASSUME NEW s, Good(s), HasRoom(s), NEW now \in Nat, NEW notifications
    PROVE  Commits(s, RecordFailure(s, now, notifications))
<1> DEFINE outage == IF s.outage = None THEN now ELSE s.outage
           failed == [s EXCEPT !.failures = @ + 1, !.outage = outage]
           batch  == {Unavailable(outage)}
           a      == AppendEventsAndOutbox(failed, batch, notifications)
           told   == [a EXCEPT !.outageNotified = TRUE]
           c      == RecordFailure(s, now, notifications)
<1>1. s \in AppStateType /\ Aligned(s)
  BY DEF Good, Recorded
<1>2. outage \in Nat
  BY <1>1, AccountsAssumption DEF AppStateType
<1>4. c = Bounded(IF OutageDue(failed) THEN told ELSE failed)
  BY DEF RecordFailure
<1> HIDE DEF outage
<1>3. failed \in AppStateType
  <2>1. s.failures + 1 \in Nat /\ outage \in Nat \cup {None}
    BY <1>1, <1>2 DEF AppStateType
  <2>2. \A n \in Nat, o \in Nat \cup {None} :
           [s EXCEPT !.failures = n, !.outage = o] \in AppStateType
    BY <1>1 DEF AppStateType
  <2>3. failed = [s EXCEPT !.failures = s.failures + 1, !.outage = outage]
    BY <1>1 DEF AppStateType
  <2> QED
    BY <2>1, <2>2, <2>3
<1>5. /\ failed.account = s.account /\ failed.dedupe = s.dedupe /\ failed.outbox = s.outbox
      /\ failed.events = s.events
  BY <1>1 DEF AppStateType
<1> HIDE DEF failed, c
<1>6. Aligned(failed)
  BY <1>1, <1>5 DEF Aligned
<1>7. CASE OutageDue(failed)
  <2>1. <<outage>> \in Seq(Nat)
    BY <1>2
  <2>2. Unavailable(outage) \in Event
    BY <2>1 DEF Unavailable, Event, EventTypes, MaybeAccount
  <2>3. batch \subseteq Event /\ batch \subseteq {Unavailable(outage), Unavailable(outage)}
    BY <2>2
  <2>4. IsFiniteSet(batch)
    BY FS_Singleton
  <2>5. a \in AppStateType
    BY <1>3, <1>6, <2>3, <2>4, AppendKeepsAligned
  <2>6. told.dedupe = a.dedupe /\ told.outbox = a.outbox /\ told.account = a.account
        /\ told \in AppStateType
    <3> HIDE DEF a
    <3> QED  BY <2>5 DEF AppStateType
  <2>7. c.dedupe = Bounded(a).dedupe /\ c.outbox = a.outbox
    <3> HIDE DEF a
    <3>1. c = Bounded(told)
      BY <1>4, <1>7
    <3>2. Bounded(told).dedupe = Newest(told.dedupe, DedupeLimit) /\ Bounded(told).outbox = told.outbox
      BY <2>6 DEF Bounded, AppStateType
    <3>3. Bounded(a).dedupe = Newest(a.dedupe, DedupeLimit)
      BY <2>5 DEF Bounded, AppStateType
    <3> QED  BY <2>6, <3>1, <3>2, <3>3
  <2> HIDE DEF batch
  <2>8. Commits(s, c)
    BY <1>1, <1>3, <1>5, <1>6, <2>3, <2>7, AppendCommits
  <2> QED  BY <2>8 DEF c
<1>8. CASE ~OutageDue(failed)
  <2>1. c = Bounded(failed)
    BY <1>4, <1>8
  <2>2. HasRoom(failed)
    BY <1>5 DEF HasRoom
  <2>3. c.dedupe = s.dedupe /\ c.outbox = s.outbox
    BY <1>3, <1>5, <2>1, <2>2, BoundedIsWhole
  <2>4. Commits(s, c)
    BY <1>1, <2>3, NothingCommits
  <2> QED  BY <2>4 DEF c
<1> QED  BY <1>7, <1>8 DEF c
\* The commit of a successful check, which found one change at most besides
\* the end of an outage.
LEMMA CheckCommits ==
    ASSUME NEW s, Good(s), HasRoom(s), NEW snapshot \in Snapshot, NEW changed \in BOOLEAN,
           changed => s.account # snapshot.account,
           NEW detected, detected \subseteq Event, NEW e, detected \subseteq {e},
           NEW baseline \in MaybeAccount, NEW notifications
    PROVE  Commits(s, CommitCheck(s, snapshot, changed, detected, baseline, notifications))
<1> DEFINE new == (detected \cup RecoveredEvents(s)) \ Range(s.events)
           observed == [s EXCEPT
            !.outbox = KeptOutbox(s, changed),
            !.account = snapshot.account, !.authStatus = "connected",
            !.snapshot = snapshot,        !.creditBaseline = baseline,
            !.authNotified = FALSE,       !.failures = 0,
            !.outage = None,              !.outageNotified = FALSE]
           a == AppendEventsAndOutbox(observed, new, notifications)
           c == CommitCheck(s, snapshot, changed, detected, baseline, notifications)
<1>1. s \in AppStateType /\ Aligned(s) /\ OutageAgrees(s)
  BY DEF Good, Recorded
<1>2. snapshot.account \in Accounts
  BY DEF Snapshot
<1>3. RecoveredEvents(s) \subseteq Event /\ RecoveredEvents(s) \subseteq {Recovered(s.outage)}
  <2>1. CASE s.outageNotified
    <3>1. s.outage \in Nat
      BY <1>1, <2>1 DEF OutageAgrees, AppStateType
    <3>2. <<s.outage>> \in Seq(Nat)
      BY <3>1
    <3>3. Recovered(s.outage) \in Event
      BY <3>2 DEF Recovered, Event, EventTypes, MaybeAccount
    <3> QED  BY <2>1, <3>3 DEF RecoveredEvents
  <2>2. CASE ~s.outageNotified
    BY <2>2 DEF RecoveredEvents
  <2> QED  BY <2>1, <2>2
<1>4. new \subseteq Event /\ new \subseteq {e, Recovered(s.outage)}
  BY <1>3
<1>5. s.outbox \in Seq(OutboxItem) /\ <<>> \in Seq(OutboxItem)
  BY <1>1 DEF AppStateType
<1>6. observed \in AppStateType
  <2>1. KeptOutbox(s, changed) \in Seq(OutboxItem)
    BY <1>5 DEF KeptOutbox
  <2> QED
    BY <1>1, <1>2, <2>1 DEF AppStateType, AuthStatus, MaybeAccount
<1>7. /\ observed.events = s.events /\ observed.dedupe = s.dedupe
      /\ observed.outbox = KeptOutbox(s, changed) /\ observed.account = snapshot.account
  BY <1>1 DEF AppStateType
<1>8. c = Bounded(a)
  BY DEF CommitCheck
<1> HIDE DEF new, observed, c
<1>9. Aligned(observed)
  BY <1>1, <1>7 DEF Aligned
<1>10. IsFiniteSet(new)
  <2>1. IsFiniteSet({Recovered(s.outage)}) /\ {e, Recovered(s.outage)} = {Recovered(s.outage)} \cup {e}
    BY FS_Singleton
  <2>2. IsFiniteSet({e, Recovered(s.outage)})
    BY <2>1, FS_AddElement
  <2> QED  BY <1>4, <2>2, FS_Subset
<1>11. a \in AppStateType
  BY <1>4, <1>6, <1>9, <1>10, AppendKeepsAligned
<1>12. Posts(observed, a, new)
  BY <1>4, <1>6, AppendPosts
<1>13. c.dedupe = Bounded(a).dedupe /\ c.outbox = a.outbox /\ c.account = snapshot.account
  <2>1. a.account = snapshot.account
    BY <1>7, <1>12 DEF Posts
  <2> HIDE DEF a
  <2> QED  BY <1>8, <1>11, <2>1 DEF Bounded, AppStateType
<1>14. /\ observed.outbox \in {s.outbox, <<>>}
       /\ observed.outbox = s.outbox \/ c.account # s.account \/ c.account = None
  BY <1>7, <1>13 DEF KeptOutbox
<1>15. Commits(s, c)
  BY <1>1, <1>4, <1>6, <1>7, <1>9, <1>13, <1>14, AppendCommits
<1> QED  BY <1>15 DEF c

\* A comparison finds one change at most, and none against nothing.
LEMMA OneFound ==
    ASSUME NEW previous, NEW new, NEW late, NEW confirmed
    PROVE  /\ \E e : AnalyzeChanges(previous, new, late, confirmed) \subseteq {e}
           /\ previous = None => AnalyzeChanges(previous, new, late, confirmed) = {}
BY DEF AnalyzeChanges, Verdict, Advanced

\* After the first read.
LEMMA ObserveCommits ==
    ASSUME IInv, HasRoom(st), NEW t \in TaskIds, NEW snapshot \in Snapshot,
           NEW credits \in BOOLEAN, NEW late \in BOOLEAN,
           Observe(t, snapshot, credits, late)
    PROVE  \/ Finish(t, "updated") /\ Commits(st, st')
           \/ UNCHANGED st /\ \E next : next.pc = "sleep" /\ tasks' = [tasks EXCEPT ![t] = next]
<1> DEFINE changed  == st.account # None /\ st.account # snapshot.account
           previous == IF changed THEN None ELSE st.snapshot
           baseline == IF changed THEN None ELSE st.creditBaseline
           found    == AnalyzeChanges(previous, snapshot, late, FALSE)
           switch   == IF changed THEN {AccountChanged(snapshot.account)} ELSE {}
           detected == found \cup switch
           next     == [pc |-> "sleep", seen |-> {}, previous |-> previous,
                        baseline |-> baseline, snapshot |-> snapshot,
                        credits |-> credits, enabled |-> enabled]
           known    == NextBaseline(snapshot.account, credits, baseline)
<1>1. st \in AppStateType /\ Good(st) /\ snapshot.account \in Accounts
  BY DEF IInv, Good, Snapshot
<1>2. CASE RequiresConfirmation(previous, snapshot, late)
  <2>1. UNCHANGED st /\ tasks' = [tasks EXCEPT ![t] = next]
    BY <1>2 DEF Observe
  <2>2. next.pc = "sleep"
    OBVIOUS
  <2> HIDE DEF next
  <2> QED  BY <2>1, <2>2
<1>3. CASE ~RequiresConfirmation(previous, snapshot, late)
  <2>1. /\ st' = CommitCheck(st, snapshot, changed, detected, known, enabled)
        /\ Finish(t, "updated")
    BY <1>3 DEF Observe
  <2>2. found \subseteq Event
    <3> HIDE DEF previous
    <3>1. previous \in Snapshot \cup {None} /\ FALSE \in BOOLEAN
      BY <1>1 DEF previous, AppStateType
    <3>2. \A p \in Snapshot \cup {None} : AnalyzeChanges(p, snapshot, late, FALSE) \subseteq Event
      BY DetectedEvents
    <3> QED  BY <3>1, <3>2
  <2>3. switch \subseteq Event
    <3>1. <<>> \in Seq(Nat)
      OBVIOUS
    <3>2. AccountChanged(snapshot.account) \in Event
      BY <1>1, <3>1 DEF AccountChanged, Event, EventTypes, MaybeAccount
    <3> QED  BY <3>2
  <2>4. \E e : detected \subseteq {e}
    <3>1. CASE changed
      <4>1. found = {}
        BY <3>1, OneFound
      <4> QED  BY <4>1
    <3>2. CASE ~changed
      <4>1. detected = found
        BY <3>2
      <4> HIDE DEF detected
      <4> QED  BY <4>1, OneFound
    <3> QED  BY <3>1, <3>2
  <2>5. known \in MaybeAccount
    BY <1>1 DEF NextBaseline, MaybeAccount, AppStateType
  <2>6. detected \subseteq Event /\ changed \in BOOLEAN /\ (changed => st.account # snapshot.account)
    BY <2>2, <2>3
  <2> HIDE DEF detected, changed, known
  <2>7. Commits(st, st')
    BY <1>1, <2>1, <2>4, <2>5, <2>6, CheckCommits
  <2> QED  BY <2>1, <2>7
<1> QED  BY <1>2, <1>3

\* After the second read.
LEMMA ConfirmCommits ==
    ASSUME IInv, HasRoom(st), NEW t \in TaskIds, tasks[t].pc = "confirm",
           NEW snapshot \in Snapshot, NEW credits \in BOOLEAN, NEW late \in BOOLEAN,
           Confirm(t, snapshot, credits, late)
    PROVE  Finish(t, "updated") /\ Commits(st, st')
<1> DEFINE task == tasks[t]
           same == snapshot.account = task.snapshot.account
           kept == IF same THEN snapshot ELSE task.snapshot
           credited == IF same THEN credits ELSE task.credits
           detected == IF same THEN AnalyzeChanges(task.previous, snapshot, late, TRUE) ELSE {}
           known == NextBaseline(kept.account, credited, task.baseline)
<1>1. /\ task.snapshot \in Snapshot /\ task.previous \in Snapshot
      /\ task.baseline \in {None, task.snapshot.account}
  BY DEF IInv, Captured, PausedOverOneAccount
<1>2. kept \in Snapshot /\ kept.account = task.snapshot.account /\ kept.account \in Accounts
  BY <1>1 DEF Snapshot
<1>3. detected \subseteq Event
  <2>1. TRUE \in BOOLEAN /\ task.previous \in Snapshot \cup {None}
    BY <1>1
  <2>2. AnalyzeChanges(task.previous, snapshot, late, TRUE) \subseteq Event
    BY <2>1, DetectedEvents, Zenon
  <2> QED  BY <2>2
<1>4. \E e : detected \subseteq {e}
  BY OneFound
<1>5. known \in MaybeAccount
  BY <1>1, <1>2 DEF NextBaseline, MaybeAccount
<1>6. /\ st' = CommitCheck(st, kept, FALSE, detected, known, task.enabled)
      /\ Finish(t, "updated")
  BY DEF Confirm
<1>7. Good(st) /\ FALSE \in BOOLEAN
  BY DEF IInv
<1> HIDE DEF kept, detected, known
<1>8. Commits(st, st')
  BY <1>2, <1>3, <1>4, <1>5, <1>6, <1>7, CheckCommits
<1> QED  BY <1>6, <1>8
\* The check that ends was the only one.
LEMMA FinishFrees ==
    ASSUME Control, NEW t \in TaskIds, InFlight(t), NEW r, Finish(t, r)
    PROVE  Busy /\ ~Busy'
<1>1. \A u \in TaskIds : InFlight(u) => u = t
  BY DEF Control, SingleFlight
<1>2. tasks' = [tasks EXCEPT ![t] = NoTask] /\ tasks \in [TaskIds -> Task]
  BY DEF Finish, Control
<1>3. \A u \in TaskIds : ~InFlight(u)'
  BY <1>1, <1>2 DEF InFlight, NoTask
<1> QED  BY <1>3 DEF Busy

\* A step of a check: it goes on, or it commits and leaves none in flight.
Ends == Busy /\ ~Busy' /\ Commits(st, st')

LEMMA TaskStepEnds ==
    ASSUME IInv, HasRoom(st), NEW t \in TaskIds, TaskStep(t)
    PROVE  Busy /\ checks' = checks /\ (st' = st \/ Ends)
<1>1. InFlight(t) /\ checks' = checks
  BY DEF TaskStep, AccountReply, LimitsReply, ConfirmationDue, ConfirmReply, InFlight
<1>2. Busy /\ Control /\ Good(st) /\ checks \in Nat
  BY <1>1 DEF Busy, IInv, Surroundings
<1>3. \A r : Finish(t, r) => ~Busy'
  BY <1>1, <1>2, FinishFrees
<1>4. CASE AuthFailure(t)
  BY <1>2, <1>3, <1>4, <1>1, AuthRequiredCommits DEF AuthFailure, Ends
<1>5. CASE Failure(t)
  BY <1>2, <1>3, <1>5, <1>1, FailureCommits DEF Failure, Ends
<1>6. ASSUME NEW a \in tasks[t].seen \ {None}, NEW w \in Windows
      PROVE  [account |-> a, window |-> w] \in Snapshot
  BY <1>6 DEF Snapshot, IInv, Control, Surroundings, Task, MaybeAccount
<1>7. ASSUME NEW a \in tasks[t].seen \ {None}, NEW w \in Windows,
             NEW credits \in BOOLEAN, NEW late \in BOOLEAN,
             Observe(t, [account |-> a, window |-> w], credits, late)
      PROVE  st' = st \/ Ends
  <2> DEFINE snapshot == [account |-> a, window |-> w]
  <2>1. snapshot \in Snapshot
    BY <1>6
  <2> HIDE DEF snapshot
  <2>2. Observe(t, snapshot, credits, late)
    BY <1>7 DEF snapshot
  <2>3. UNCHANGED st \/ (Finish(t, "updated") /\ Commits(st, st'))
    BY <2>1, <2>2, ObserveCommits
  <2> QED  BY <1>2, <1>3, <2>3 DEF Ends
<1>8. ASSUME NEW a \in tasks[t].seen \ {None}, NEW w \in Windows,
             NEW credits \in BOOLEAN, NEW late \in BOOLEAN, tasks[t].pc = "confirm",
             Confirm(t, [account |-> a, window |-> w], credits, late)
      PROVE  Ends
  <2> DEFINE snapshot == [account |-> a, window |-> w]
  <2>1. snapshot \in Snapshot
    BY <1>6
  <2> HIDE DEF snapshot
  <2>2. Confirm(t, snapshot, credits, late)
    BY <1>8 DEF snapshot
  <2>3. Finish(t, "updated") /\ Commits(st, st')
    BY <1>8, <2>1, <2>2, ConfirmCommits
  <2> QED  BY <1>2, <1>3, <2>3 DEF Ends
<1>9. CASE AccountReply(t)
  BY <1>1, <1>2, <1>4, <1>5, <1>9 DEF AccountReply
<1>10. CASE LimitsReply(t)
  BY <1>1, <1>2, <1>4, <1>5, <1>7, <1>10 DEF LimitsReply
<1>11. CASE ConfirmationDue(t)
  BY <1>1, <1>2, <1>11 DEF ConfirmationDue
<1>12. CASE ConfirmReply(t)
  BY <1>1, <1>2, <1>4, <1>5, <1>8, <1>12 DEF ConfirmReply
<1> QED  BY <1>9, <1>10, <1>11, <1>12 DEF TaskStep

\* A call of check_now starts a check only when none is in flight.
LEMMA StartsAlone ==
    ASSUME Control, checks \in Nat, NEW c \in Callers, CheckNow(c)
    PROVE  /\ st' = st
           /\ \/ checks' = checks /\ tasks' = tasks
              \/ ~Busy /\ checks < MaxChecks /\ checks' = checks + 1
<1>1. CASE Join(c) \/ AnswerRecent(c)
  BY <1>1 DEF CheckNow, Join, AnswerRecent
<1>2. CASE Start(c)
  <2>1. \A t \in TaskIds : ~InFlight(t)
    BY <1>2, TasksAssumption DEF Start, Joinable, Control, SingleFlight
  <2> QED  BY <1>2, <2>1 DEF Start, Busy, CheckNow
<1> QED  BY <1>1, <1>2 DEF CheckNow

\* A check in flight finds room for the two events it may record.
Room == Busy => HasRoom(st)

\* Then a step of the monitor commits, or leaves the record alone.
LEMMA CheckStepCommits ==
    ASSUME IInv, Room, [MonitorNext]_monitorVars PROVE Commits(st, st')
<1>1. /\ checks \in Nat /\ st \in AppStateType /\ Control
  BY DEF IInv, Surroundings, Good
<1>2. Commits(st, st)
  BY <1>1, NothingCommits
<1>3. CASE \E t \in TaskIds : TaskStep(t)
  <2>1. Busy
    BY <1>3 DEF Busy, InFlight, TaskStep, AccountReply, LimitsReply, ConfirmationDue, ConfirmReply
  <2>2. st' = st \/ Ends
    BY <1>3, <2>1, TaskStepEnds DEF Room
  <2> QED  BY <1>2, <2>2 DEF Ends
<1>4. CASE ~(\E t \in TaskIds : TaskStep(t))
  <2>1. st' \in {st, ForgetAccount(st)}
    BY <1>4, CallersAssumption
       DEF MonitorNext, monitorVars, Check, CheckNow, Resume, SignIn, ToggleNotification,
           LoginCheck, SignedOutElsewhere, LogoutRequest, LogoutStep, LogoutAtServer,
           LogoutFailed, LogoutCommit, CooldownEnds
  <2>2. /\ ForgetAccount(st).dedupe = st.dedupe /\ ForgetAccount(st).outbox = <<>>
        /\ ForgetAccount(st).account = None
    BY <1>1 DEF ForgetAccount, AppStateType
  <2>3. Commits(st, ForgetAccount(st))
    BY <1>1, <2>2, NothingCommits
  <2> QED  BY <1>2, <2>1, <2>3
<1> QED  BY <1>3, <1>4

\* A list with two places for every check allowed has room for each.
LEMMA SpentLeavesRoom ==
    ASSUME DedupeLimit >= 2 * MaxChecks, IInv, Spent PROVE Room
<1> SUFFICES ASSUME Busy PROVE HasRoom(st)
  BY DEF Room
<1> DEFINE recorded == Len(st.dedupe)
<1>1. checks \in Nat /\ MaxChecks \in Nat /\ DedupeLimit \in Nat /\ recorded \in Nat
  BY BoundsAssumption, LimitsAssumption DEF IInv, Surroundings, Good, AppStateType
<1>2. recorded <= 2 * (checks - 1) /\ checks >= 1 /\ checks <= MaxChecks
  BY DEF Spent
<1> HIDE DEF recorded
<1>3. recorded + 2 <= DedupeLimit
  BY <1>1, <1>2
<1> QED  BY <1>3 DEF HasRoom, recorded

\* A check that ends has recorded two events at most.
LEMMA CheckStepSpends ==
    ASSUME DedupeLimit >= 2 * MaxChecks, IInv, Spent, [MonitorNext]_monitorVars
    PROVE  Spent'
<1> DEFINE recorded == Len(st.dedupe)
<1>1. /\ checks \in Nat /\ MaxChecks \in Nat /\ DedupeLimit \in Nat /\ st \in AppStateType
      /\ Control /\ Good(st)
  BY BoundsAssumption, LimitsAssumption DEF IInv, Surroundings, Good
<1>2. recorded \in Nat
  BY <1>1 DEF AppStateType
<1>4. CASE \E t \in TaskIds : TaskStep(t)
  <2>1. Busy
    BY <1>4 DEF Busy, InFlight, TaskStep, AccountReply, LimitsReply, ConfirmationDue, ConfirmReply
  <2>2. recorded <= 2 * (checks - 1) /\ checks >= 1 /\ checks <= MaxChecks
    BY <2>1 DEF Spent
  <2>3. HasRoom(st)
    BY <2>1, SpentLeavesRoom DEF Room
  <2>4. checks' = checks /\ (st' = st \/ Ends)
    BY <1>4, <2>3, TaskStepEnds
  <2>5. CASE st' = st
    <3>1. recorded <= 2 * checks
      <4> HIDE DEF recorded
      <4> QED  BY <1>1, <1>2, <2>2
    <3> QED  BY <2>2, <2>4, <2>5, <3>1 DEF Spent
  <2>6. CASE Ends
    <3>1. Len(st'.dedupe) <= recorded + 2 /\ ~Busy'
      BY <2>6 DEF Ends, Commits
    <3>2. st' \in AppStateType
      BY StepKeepsIInv DEF IInv, Good
    <3>3. Len(st'.dedupe) \in Nat
      BY <3>2 DEF AppStateType
    <3>4. Len(st'.dedupe) <= 2 * checks
      <4> DEFINE after == Len(st'.dedupe)
      <4> HIDE DEF recorded, after
      <4>1. after <= recorded + 2 /\ after \in Nat
        BY <3>1, <3>3 DEF after
      <4>2. after <= 2 * checks
        BY <1>1, <1>2, <2>2, <4>1
      <4> QED  BY <4>2 DEF after
    <3> QED  BY <2>2, <2>4, <3>1, <3>4 DEF Spent
  <2> QED  BY <2>4, <2>5, <2>6
<1>5. CASE ~(\E t \in TaskIds : TaskStep(t))
  <2>1. \/ /\ st' \in {st, ForgetAccount(st)}
           /\ checks' = checks /\ (Busy' <=> Busy)
        \/ \E c \in Callers : CheckNow(c)
    <3> DEFINE Moves == \/ \E a \in Accounts : SignIn(a)
                        \/ SignedOutElsewhere \/ LogoutAtServer
    <3>1. CASE Moves
      <4>1. SameChecks
        BY <1>1, <3>1, ServerMovesChecks
           DEF SignIn, SignedOutElsewhere, LogoutAtServer, MaybeAccount
      <4>2. Busy' <=> Busy
        BY <4>1 DEF SameChecks, Busy, InFlight
      <4> QED  BY <3>1, <4>2 DEF SignIn, SignedOutElsewhere, LogoutAtServer
    <3>2. CASE ~Moves
      <4>1. \/ /\ st' \in {st, ForgetAccount(st)}
               /\ checks' = checks /\ tasks' = tasks
            \/ \E c \in Callers : CheckNow(c)
        BY <1>5, <3>2, CallersAssumption
           DEF MonitorNext, monitorVars, Check, Resume, ToggleNotification,
               LoginCheck, LogoutRequest, LogoutStep, LogoutFailed, LogoutCommit, CooldownEnds
      <4> QED  BY <4>1 DEF Busy, InFlight
    <3> QED  BY <3>1, <3>2
  <2>2. CASE \E c \in Callers : CheckNow(c)
    <3>1. /\ st' = st
          /\ \/ checks' = checks /\ tasks' = tasks
             \/ ~Busy /\ checks < MaxChecks /\ checks' = checks + 1
      BY <1>1, <2>2, StartsAlone
    <3>2. CASE checks' = checks /\ tasks' = tasks
      BY <3>1, <3>2 DEF Spent, Busy, InFlight
    <3>3. CASE ~Busy /\ checks < MaxChecks /\ checks' = checks + 1
      <4>1. recorded <= 2 * checks
        BY <3>3 DEF Spent
      <4>2. /\ recorded <= 2 * (checks + 1 - 1) /\ recorded <= 2 * (checks + 1)
            /\ checks + 1 >= 1 /\ checks + 1 <= MaxChecks
        <5> HIDE DEF recorded
        <5> QED  BY <1>1, <1>2, <3>3, <4>1
      <4>3. Len(st'.dedupe) = recorded
        BY <3>1
      <4>4. Len(st'.dedupe) <= 2 * (IF Busy' THEN checks' - 1 ELSE checks')
        <5> HIDE DEF recorded
        <5>1. CASE Busy'
          BY <1>1, <1>2, <3>3, <4>2, <4>3, <5>1
        <5>2. CASE ~Busy'
          BY <1>1, <1>2, <3>3, <4>2, <4>3, <5>2
        <5> QED  BY <5>1, <5>2
      <4> QED  BY <3>3, <4>2, <4>3, <4>4 DEF Spent
    <3> QED  BY <3>1, <3>2, <3>3
  <2>3. CASE st' \in {st, ForgetAccount(st)} /\ checks' = checks /\ (Busy' <=> Busy)
    <3>1. ForgetAccount(st).dedupe = st.dedupe
      BY <1>1 DEF ForgetAccount, AppStateType
    <3>2. st'.dedupe = st.dedupe
      BY <2>3, <3>1
    <3> QED  BY <2>3, <3>2 DEF Spent
  <2> QED  BY <2>1, <2>2, <2>3
<1> QED  BY <1>4, <1>5
-----------------------------------------------------------------------------
(* Where an event can be. *)

LEMMA MailInit == NotifierInit => Spent /\ MailInv
<1> SUFFICES ASSUME NotifierInit PROVE Spent /\ MailInv
  OBVIOUS
<1>1. /\ st = InitialAppState /\ tasks = [t \in TaskIds |-> NoTask] /\ checks = 0
      /\ phase = "top" /\ chat = <<>> /\ unheard = 0
  BY DEF NotifierInit, MonitorInit, DeliveryInit
<1>2. DOMAIN <<>> = {} /\ Len(<<>>) = 0 /\ st.outbox = <<>> /\ st.dedupe = <<>>
  BY <1>1 DEF InitialAppState
<1>3. ~Busy
  BY <1>1 DEF Busy, InFlight, NoTask
<1>4. Spent
  BY <1>1, <1>2, <1>3, BoundsAssumption DEF Spent
<1>5. OutboxApart /\ HandHeld /\ ChatKnown /\ Accepted
  BY <1>1, <1>2 DEF OutboxApart, HandHeld, ChatKnown, Accepted, Carrying
<1>6. Heard
  <2>1. \A e \in Event : Places(e) = {} /\ ~Open(e)
    BY <1>1, <1>2 DEF Places, Open, Waits
  <2>2. Cardinality({}) = 0
    BY FS_EmptySet
  <2> QED  BY <1>1, <2>1, <2>2 DEF Heard
<1> QED  BY <1>4, <1>5, <1>6 DEF MailInv

LEMMA PlacesCount ==
    ASSUME DeliveryTypeOK, NEW e
    PROVE  IsFiniteSet(Places(e)) /\ Cardinality(Places(e)) \in Nat
<1>1. DOMAIN chat = 1..Len(chat) /\ Len(chat) \in Nat
  BY DEF DeliveryTypeOK
<1>2. IsFiniteSet(DOMAIN chat) /\ Places(e) \subseteq DOMAIN chat
  BY <1>1, FS_Interval DEF Places
<1> QED  BY <1>2, FS_Subset, FS_CardinalityType

\* The chat is as it was, and nobody is to say an event who was not before.
LEMMA HeardStays ==
    ASSUME DeliveryTypeOK, Heard, chat' = chat, unheard' = unheard,
           \A e \in Event : Open(e)' => Open(e) \/ Places(e) = {}
    PROVE  Heard'
<1> SUFFICES ASSUME NEW e \in Event
             PROVE  Cardinality(Places(e)') <= unheard' + (IF Open(e)' THEN 0 ELSE 1)
  BY DEF Heard
<1>1. Places(e)' = Places(e) /\ Cardinality(Places(e)) \in Nat /\ unheard \in Nat
  BY PlacesCount DEF Places, DeliveryTypeOK
<1>2. Cardinality(Places(e)) <= unheard + (IF Open(e) THEN 0 ELSE 1)
  BY DEF Heard
<1>3. CASE Places(e) = {}
  <2>1. Cardinality(Places(e)) = 0
    BY <1>3, FS_EmptySet
  <2> QED  BY <1>1, <2>1
<1>4. CASE Open(e)
  BY <1>1, <1>2, <1>4
<1>5. CASE ~Open(e)' /\ ~Open(e)
  BY <1>1, <1>2, <1>5
<1> QED  BY <1>3, <1>4, <1>5

\* One more that the loop has not heard of makes up for an event to say again.
LEMMA HeardSpared ==
    ASSUME DeliveryTypeOK, Heard, chat' = chat, unheard' = unheard + 1
    PROVE  Heard'
<1> SUFFICES ASSUME NEW e \in Event
             PROVE  Cardinality(Places(e)') <= unheard' + (IF Open(e)' THEN 0 ELSE 1)
  BY DEF Heard
<1>1. Places(e)' = Places(e) /\ Cardinality(Places(e)) \in Nat /\ unheard \in Nat
  BY PlacesCount DEF Places, DeliveryTypeOK
<1>2. Cardinality(Places(e)) <= unheard + (IF Open(e) THEN 0 ELSE 1)
  BY DEF Heard
<1>3. Cardinality(Places(e)) <= unheard + 1
  BY <1>1, <1>2
<1> QED  BY <1>1, <1>3

\* A commit posts what nobody has seen, or empties the outbox.
LEMMA CommitKeepsMail ==
    ASSUME Base, MailInv, Commits(st, st'), UNCHANGED <<phase, inHand, chat, unheard>>
    PROVE  MailInv'
<1>1. st.outbox \in Seq(OutboxItem) /\ DeliveryTypeOK
  BY DEF Base, IInv, Good, AppStateType
<1>2. PICK kept \in {st.outbox, <<>>} :
         st'.outbox = kept \/ \E item : News(st, st', item) /\ st'.outbox = Append(kept, item)
  BY DEF Commits
<1>3. Known \subseteq Known'
  BY DEF Commits, Known
<1>4. DOMAIN <<>> = {} /\ <<>> \in Seq(OutboxItem)
  OBVIOUS
<1>5. kept \in Seq(OutboxItem) /\ DOMAIN kept = 1..Len(kept) /\ Len(kept) \in Nat
  <2>1. kept \in Seq(OutboxItem)
    BY <1>1, <1>4
  <2> QED  BY <2>1
<1>6. /\ \A i \in DOMAIN kept : kept[i].events # {} /\ kept[i].events \subseteq Known
      /\ \A i, j \in DOMAIN kept : kept[i].events \cap kept[j].events # {} => i = j
      /\ Carrying => \A i \in DOMAIN kept : kept[i].events \cap inHand # {} => kept[i].events = inHand
      /\ \A e : (\E i \in DOMAIN kept : e \in kept[i].events) => Waits(e)
  <2>1. CASE kept = st.outbox
    BY <2>1 DEF MailInv, OutboxApart, HandHeld, Waits
  <2>2. CASE kept = <<>>
    BY <1>4, <2>2
  <2> QED  BY <2>1, <2>2
<1>7. \A e \in Event : e \in Known \/ Places(e) = {}
  BY DEF MailInv, ChatKnown, Places
<1>8. CASE st'.outbox = kept
  <2>1. OutboxApart'
    BY <1>3, <1>6, <1>8 DEF OutboxApart, Known
  <2>2. HandHeld'
    BY <1>3, <1>6, <1>8 DEF MailInv, HandHeld, Carrying
  <2>3. \A e : Open(e)' => Open(e)
    BY <1>6, <1>8 DEF Open, Waits
  <2>4. Heard'
    BY <1>1, <2>3, HeardStays DEF MailInv
  <2>5. ChatKnown' /\ Accepted'
    BY <1>3 DEF MailInv, ChatKnown, Accepted
  <2> QED  BY <2>1, <2>2, <2>4, <2>5 DEF MailInv
<1>9. ASSUME NEW item, News(st, st', item), st'.outbox = Append(kept, item)
      PROVE  MailInv'
  <2> DEFINE o == st'.outbox
             n == Len(kept)
  <2>1. /\ item \in OutboxItem /\ item.events # {} /\ item.events \cap Known = {}
        /\ item.events \subseteq Known'
    BY <1>9 DEF News, Known
  <2>2. /\ DOMAIN o = 1..(n + 1) /\ o[n + 1] = item
        /\ \A i \in 1..n : o[i] = kept[i]
    BY <1>5, <1>9, <2>1
  <2> HIDE DEF o
  <2>3. \A i \in DOMAIN o : (i \in DOMAIN kept /\ o[i] = kept[i]) \/ (i = n + 1 /\ o[i] = item)
    <3> HIDE DEF n
    <3>1. n \in Nat /\ DOMAIN kept = 1..n
      BY <1>5 DEF n
    <3> QED  BY <2>2, <3>1
  <2>4. \A i \in DOMAIN o : o[i].events # {} /\ o[i].events \subseteq Known'
    BY <1>3, <1>6, <2>1, <2>3
  <2>5. \A i, j \in DOMAIN o : o[i].events \cap o[j].events # {} => i = j
    BY <1>6, <2>1, <2>3
  <2>6. OutboxApart'
    BY <2>4, <2>5 DEF OutboxApart, o
  <2>7. HandHeld'
    <3>1. ASSUME Carrying, NEW i \in DOMAIN o, o[i].events \cap inHand # {}
          PROVE  o[i].events = inHand
      <4>1. inHand \subseteq Known
        BY <3>1 DEF MailInv, HandHeld
      <4> QED  BY <1>6, <2>1, <2>3, <3>1, <4>1
    <3>2. Carrying => inHand \subseteq Known'
      BY <1>3 DEF MailInv, HandHeld
    <3>3. Carrying' = Carrying /\ inHand' = inHand
      BY DEF Carrying
    <3> QED  BY <3>1, <3>2, <3>3 DEF HandHeld, o
  <2>8. \A e \in Event : Open(e)' => Open(e) \/ Places(e) = {}
    <3> SUFFICES ASSUME NEW e \in Event, Open(e)', Places(e) # {} PROVE Open(e)
      OBVIOUS
    <3>1. e \in Known
      BY <1>7
    <3>2. Waits(e)' => Waits(e)
      BY <1>6, <2>1, <2>3, <3>1 DEF Waits, o
    <3> QED  BY <3>2 DEF Open
  <2>9. Heard'
    BY <1>1, <2>8, HeardStays DEF MailInv
  <2>10. ChatKnown' /\ Accepted'
    BY <1>3 DEF MailInv, ChatKnown, Accepted
  <2> QED  BY <2>6, <2>7, <2>9, <2>10 DEF MailInv
<1> QED  BY <1>2, <1>8, <1>9
\* A step of the delivery that only changes times, or nothing, in the outbox.
LEMMA SameItemsKeepMail ==
    ASSUME Base, MailInv, SameItems(st'.outbox), st'.dedupe = st.dedupe, chat' = chat,
           ~Carrying' \/ UNCHANGED <<phase, inHand>>,
           \/ unheard' = unheard + 1
           \/ unheard' = unheard /\ phase # "accepted"
           \/ UNCHANGED <<unheard, phase, inHand>>
    PROVE  MailInv'
<1>1. DOMAIN st'.outbox = DOMAIN st.outbox /\ DeliveryTypeOK
      /\ \A i \in DOMAIN st.outbox : st'.outbox[i].events = st.outbox[i].events
  BY DEF SameItems, Base
<1>2. Known' = Known
  BY DEF Known
<1>3. OutboxApart'
  BY <1>1, <1>2 DEF MailInv, OutboxApart
<1>4. HandHeld'
  BY <1>1, <1>2 DEF MailInv, HandHeld, Carrying
<1>5. ChatKnown' /\ Accepted'
  BY <1>2 DEF MailInv, ChatKnown, Accepted, Carrying
<1>6. \A e : Waits(e)' <=> Waits(e)
  BY <1>1 DEF Waits
<1>7. CASE unheard' = unheard + 1
  BY <1>1, <1>3, <1>4, <1>5, <1>7, HeardSpared DEF MailInv
<1>8. CASE unheard' = unheard /\ phase # "accepted" /\ ~Carrying'
  <2>1. \A e \in Event : Open(e)' => Open(e)
    BY <1>6, <1>8 DEF Open, Carrying
  <2> QED  BY <1>1, <1>3, <1>4, <1>5, <1>8, <2>1, HeardStays DEF MailInv
<1>9. CASE UNCHANGED <<unheard, phase, inHand>>
  <2>1. \A e \in Event : Open(e)' => Open(e)
    BY <1>6, <1>9 DEF Open
  <2> QED  BY <1>1, <1>3, <1>4, <1>5, <1>9, <2>1, HeardStays DEF MailInv
<1> QED  BY <1>7, <1>8, <1>9

\* What is picked waits, apart from all other items.
LEMMA PickKeepsMail == ASSUME Base, MailInv, Pick PROVE MailInv'
<1>1. PICK i \in DOMAIN st.outbox : inHand' = st.outbox[i].events
  BY DEF Pick
<1>2. UNCHANGED <<st, chat, unheard>> /\ phase' = "sending" /\ phase \in {"top", "waiting"}
  BY DEF Pick
<1>3. OutboxApart' /\ ChatKnown'
  BY <1>2 DEF MailInv, OutboxApart, ChatKnown, Known
<1>4. HandHeld' /\ Accepted'
  BY <1>1, <1>2 DEF MailInv, OutboxApart, HandHeld, Accepted, Known
<1>5. \A e \in Event : Open(e)' => Open(e)
  BY <1>1, <1>2 DEF Open, Waits
<1>6. Heard'
  BY <1>2, <1>5, HeardStays DEF Base, MailInv
<1> QED  BY <1>3, <1>4, <1>6 DEF MailInv

\* The message was still to be said, and now it is in the chat.
LEMMA AcceptKeepsMail == ASSUME Base, MailInv, Accept PROVE MailInv'
<1>1. /\ UNCHANGED <<st, inHand, unheard>> /\ phase = "sending" /\ phase' = "accepted"
      /\ chat' = Append(chat, inHand) /\ DeliveryTypeOK
  BY DEF Accept, Base
<1> DEFINE n == Len(chat)
<1>2. /\ chat \in Seq(SUBSET Event) /\ inHand \in SUBSET Event /\ unheard \in Nat
      /\ inHand # {} /\ inHand \subseteq Known
  BY <1>1 DEF DeliveryTypeOK, MailInv, Accepted, HandHeld, Carrying
<1>3. /\ n \in Nat /\ DOMAIN chat = 1..n /\ DOMAIN chat' = 1..(n + 1)
      /\ chat'[n + 1] = inHand /\ \A i \in 1..n : chat'[i] = chat[i]
  BY <1>1, <1>2
<1> HIDE DEF n
<1>4. DOMAIN chat' = DOMAIN chat \cup {n + 1} /\ n + 1 \notin DOMAIN chat
  BY <1>3
<1>5. OutboxApart' /\ HandHeld'
  BY <1>1 DEF MailInv, OutboxApart, HandHeld, Known, Carrying
<1>6. ChatKnown'
  BY <1>1, <1>2, <1>3, <1>4 DEF MailInv, ChatKnown, Known
<1>7. Accepted'
  BY <1>1, <1>3, <1>4 DEF Accepted, Range
<1>8. ASSUME NEW e \in Event
      PROVE  Cardinality(Places(e)') <= unheard' + (IF Open(e)' THEN 0 ELSE 1)
  <2>1. IsFiniteSet(Places(e)) /\ Cardinality(Places(e)) \in Nat
    BY <1>1, PlacesCount
  <2>2. Cardinality(Places(e)) <= unheard + (IF Open(e) THEN 0 ELSE 1)
    BY DEF MailInv, Heard
  <2>3. CASE e \in inHand
    <3>1. Open(e) /\ ~Open(e)'
      BY <1>1, <2>3 DEF Open
    <3>2. Places(e)' = Places(e) \cup {n + 1} /\ n + 1 \notin Places(e)
      BY <1>3, <1>4, <2>3 DEF Places
    <3>3. Cardinality(Places(e)') = Cardinality(Places(e)) + 1
      BY <2>1, <3>2, FS_AddElement
    <3> QED  BY <1>1, <1>2, <2>1, <2>2, <3>1, <3>3
  <2>4. CASE e \notin inHand
    <3>1. Open(e)' <=> Open(e)
      BY <1>1, <2>4 DEF Open, Waits
    <3>2. Places(e)' = Places(e)
      BY <1>3, <1>4, <2>4 DEF Places
    <3> QED  BY <1>1, <2>2, <3>1, <3>2
  <2> QED  BY <2>3, <2>4
<1>9. Heard'
  BY <1>8 DEF Heard
<1> QED  BY <1>5, <1>6, <1>7, <1>9 DEF MailInv

\* What was said no longer waits.
LEMMA AcknowledgeKeepsMail == ASSUME Base, MailInv, Acknowledge PROVE MailInv'
<1>1. /\ phase = "accepted" /\ phase' = "top" /\ UNCHANGED <<chat, unheard>>
      /\ st' = [st EXCEPT !.outbox = WithoutItem(st.outbox, inHand)]
      /\ st \in AppStateType /\ st.outbox \in Seq(OutboxItem) /\ DeliveryTypeOK
  BY DEF Acknowledge, Base, IInv, Good, AppStateType
<1> DEFINE o == WithoutItem(st.outbox, inHand)
<1>2. st'.outbox = o /\ st'.dedupe = st.dedupe
  BY <1>1 DEF AppStateType
<1>3. /\ \A n \in DOMAIN o : \E i \in DOMAIN st.outbox :
             st.outbox[i].events # inHand /\ o[n] = st.outbox[i]
      /\ (\A i, j \in DOMAIN st.outbox :
             st.outbox[i].events \cap st.outbox[j].events # {} => i = j)
         => \A m, n \in DOMAIN o : o[m].events \cap o[n].events # {} => m = n
  BY <1>1, WithoutItemKeeps
<1> HIDE DEF o
<1>4. OutboxApart'
  <2>1. \A n \in DOMAIN o : o[n].events # {} /\ o[n].events \subseteq Known
    BY <1>3 DEF MailInv, OutboxApart
  <2>2. \A m, n \in DOMAIN o : o[m].events \cap o[n].events # {} => m = n
    BY <1>3 DEF MailInv, OutboxApart
  <2> QED  BY <1>2, <2>1, <2>2 DEF OutboxApart, Known
<1>5. HandHeld' /\ ChatKnown' /\ Accepted'
  BY <1>1, <1>2 DEF MailInv, HandHeld, Carrying, ChatKnown, Accepted, Known
<1>6. ASSUME NEW e \in Event, Open(e)' PROVE Open(e)
  <2>1. PICK n \in DOMAIN o : e \in o[n].events
    BY <1>1, <1>2, <1>6 DEF Open, Waits
  <2>2. PICK i \in DOMAIN st.outbox : st.outbox[i].events # inHand /\ o[n] = st.outbox[i]
    BY <1>3
  <2>3. e \notin inHand
    BY <1>1, <2>1, <2>2 DEF MailInv, HandHeld, Carrying
  <2> QED  BY <2>1, <2>2, <2>3 DEF Open, Waits
<1>7. Heard'
  BY <1>1, <1>6, HeardStays DEF MailInv
<1> QED  BY <1>4, <1>5, <1>7 DEF MailInv
LEMMA DeliveryKeepsMail == ASSUME Base, MailInv, DeliveryNext PROVE MailInv'
<1>1. st \in AppStateType /\ st.outbox \in Seq(OutboxItem)
  BY DEF Base, IInv, Good, AppStateType
<1>2. CASE Wait
  <2>1. SameItems(st'.outbox) /\ st' = st
    BY <1>1, <1>2 DEF Wait, SameItems
  <2> QED  BY <1>2, <2>1, SameItemsKeepMail DEF Wait, Carrying
<1>3. CASE Refused \/ AnswerLost
  <2>1. st' = [st EXCEPT !.outbox = Postponed(st.outbox, inHand)] /\ phase' = "top" /\ chat' = chat
    BY <1>3 DEF Refused, AnswerLost, Postpone
  <2>2. st'.outbox = Postponed(st.outbox, inHand) /\ st'.dedupe = st.dedupe
    BY <1>1, <2>1 DEF AppStateType
  <2>3. SameItems(st'.outbox)
    BY <1>1, <2>2, PostponedSame
  <2> QED  BY <1>3, <2>1, <2>2, <2>3, SameItemsKeepMail DEF Refused, AnswerLost, Carrying
<1>4. CASE RetryDue
  <2>1. /\ UNCHANGED <<phase, inHand, chat, unheard>>
        /\ \E i \in DOMAIN st.outbox : st' = [st EXCEPT !.outbox[i].ready = TRUE]
    BY <1>4 DEF RetryDue
  <2>2. PICK i \in DOMAIN st.outbox : st' = [st EXCEPT !.outbox[i].ready = TRUE]
    BY <2>1
  <2>3. st'.outbox = [st.outbox EXCEPT ![i].ready = TRUE] /\ st'.dedupe = st.dedupe
    BY <1>1, <2>2 DEF AppStateType
  <2>4. SameItems(st'.outbox)
    BY <1>1, <2>3, ReadySame
  <2> QED  BY <2>1, <2>3, <2>4, SameItemsKeepMail
<1> QED  BY <1>2, <1>3, <1>4, PickKeepsMail, AcceptKeepsMail, AcknowledgeKeepsMail DEF DeliveryNext

\* A crash between the send and the acknowledgement leaves one more unheard.
LEMMA RestartKeepsMail == ASSUME Base, MailInv, Restart PROVE MailInv'
<1>1. st.outbox \in Seq(OutboxItem) /\ st' = st /\ chat' = chat /\ phase' = "top"
      /\ unheard' = IF phase = "accepted" THEN unheard + 1 ELSE unheard
  BY DEF Base, IInv, Good, AppStateType, Restart
<1>2. SameItems(st'.outbox)
  BY <1>1 DEF SameItems
<1> QED  BY <1>1, <1>2, SameItemsKeepMail DEF Carrying

\* Delivery and crashes spend no room.
LEMMA OthersSpendNothing ==
    ASSUME Base, Spent, (DeliveryNext /\ UNCHANGED monitorOwn) \/ Restart PROVE Spent'
<1>1. st \in AppStateType /\ DeliveryTypeOK /\ checks \in Nat /\ MaxChecks \in Nat
  BY BoundsAssumption DEF Base, IInv, Good, Surroundings
<1>2. st'.dedupe = st.dedupe
  <2>1. CASE Restart
    BY <2>1 DEF Restart
  <2>2. CASE DeliveryNext
    <3>1. CASE \E o : st' = [st EXCEPT !.outbox = o]
      BY <1>1, <3>1 DEF AppStateType
    <3> QED  BY <1>1, <2>2, <3>1, DeliveryOutbox DEF Acknowledge
  <2> QED  BY <2>1, <2>2
<1>3. Len(st.dedupe) \in Nat
  BY <1>1 DEF AppStateType
<1>4. CASE UNCHANGED <<tasks, checks>>
  BY <1>2, <1>4 DEF Spent, Busy, InFlight
<1>5. CASE checks' = checks /\ ~Busy'
  <2>1. Len(st.dedupe) <= 2 * checks
    <3> DEFINE recorded == Len(st.dedupe)
    <3>1. recorded <= 2 * (IF Busy THEN checks - 1 ELSE checks) /\ recorded \in Nat
      BY <1>3 DEF Spent
    <3> HIDE DEF recorded
    <3>2. recorded <= 2 * checks
      BY <1>1, <3>1
    <3> QED  BY <3>2 DEF recorded
  <2> QED  BY <1>2, <1>5, <2>1 DEF Spent
<1>6. Restart => checks' = checks /\ ~Busy'
  BY DEF Restart, Busy, InFlight, NoTask
<1> QED  BY <1>4, <1>5, <1>6 DEF monitorOwn

LEMMA SpentStep ==
    ASSUME DedupeLimit >= 2 * MaxChecks, Base, Spent, [NotifierNext]_notifierVars PROVE Spent'
<1>1. CASE CheckStep \/ UNCHANGED notifierVars
  <2>1. IInv /\ [MonitorNext]_monitorVars
    BY <1>1 DEF Base, CheckStep, notifierVars
  <2> QED  BY <2>1, CheckStepSpends
<1>2. CASE DeliveryStep \/ Restart
  BY <1>2, OthersSpendNothing DEF DeliveryStep
<1> QED  BY <1>1, <1>2 DEF NotifierNext

\* A deduplication list with two places for every check that runs never runs
\* out of them: none of the events it is asked about has been forgotten.
THEOREM RoomSuffices == ASSUME DedupeLimit >= 2 * MaxChecks PROVE NotifierSpec => []Room
<1>1. NotifierInit => Base /\ Spent
  BY BaseInit, MailInit
<1>2. Base /\ Spent /\ [NotifierNext]_notifierVars => Base' /\ Spent'
  BY BaseStep, SpentStep
<1>3. Base /\ Spent => Room
  BY SpentLeavesRoom DEF Base
<1> QED  BY <1>1, <1>2, <1>3, PTL DEF NotifierSpec

\* The invariant, step by step.
LEMMA NotifierStep ==
    ASSUME NInv, Room, [NotifierNext]_notifierVars
    PROVE  NInv' /\ (~Restart /\ ~DeliveryStep => Commits(st, st'))
<1>1. Base /\ MailInv /\ IInv /\ Base' /\ st \in AppStateType
  BY BaseStep DEF NInv, Base, IInv, Good
<1>2. CASE CheckStep \/ UNCHANGED notifierVars
  <2>1. [MonitorNext]_monitorVars /\ UNCHANGED <<phase, inHand, chat, unheard>>
    BY <1>2 DEF CheckStep, deliveryOwn, notifierVars, deliveryVars
  <2>2. Commits(st, st')
    BY <1>1, <2>1, CheckStepCommits
  <2>3. MailInv'
    BY <1>1, <2>1, <2>2, CommitKeepsMail
  <2> QED  BY <1>1, <2>2, <2>3 DEF NInv
<1>3. CASE DeliveryStep
  <2>1. DeliveryNext
    BY <1>3 DEF DeliveryStep
  <2> QED  BY <1>1, <1>3, <2>1, DeliveryKeepsMail DEF NInv
<1>4. CASE Restart
  BY <1>1, <1>4, RestartKeepsMail DEF NInv
<1> QED  BY <1>2, <1>3, <1>4 DEF NotifierNext

LEMMA NotifierAlways == NotifierSpec /\ []Room => []NInv
<1>1. NotifierInit => NInv
  BY BaseInit, MailInit DEF NInv
<1>2. NInv /\ Room /\ [NotifierNext]_notifierVars => NInv'
  BY NotifierStep
<1> QED  BY <1>1, <1>2, PTL DEF NotifierSpec

\* A message that Telegram confirmed is not sent again: an event that stands
\* in the chat and in the outbox more than once was said once more for every
\* answer that was lost and every crash before the acknowledgement was written
\* (delivery.py, README.md:191).  An event that deduplication has
\* forgotten may be posted again.
THEOREM DuplicatesStayUnheard == NotifierSpec /\ []Room => []DuplicatesAreUnheard
<1>1. NInv => DuplicatesAreUnheard
  <2> SUFFICES ASSUME NInv PROVE DuplicatesAreUnheard
    OBVIOUS
  <2> DEFINE waiting(e) == {i \in DOMAIN st.outbox : e \in st.outbox[i].events}
             underWay == IF phase = "accepted" THEN 1 ELSE 0
             notices == {item.events : item \in Range(st.outbox)} \cup Range(chat)
  <2>1. /\ DeliveryTypeOK /\ OutboxApart /\ Heard /\ unheard \in Nat
        /\ st.outbox \in Seq(OutboxItem) /\ chat \in Seq(SUBSET Event)
    BY DEF NInv, MailInv, Base, IInv, Good, AppStateType, DeliveryTypeOK
  <2>2. UNION notices \subseteq Event
    <3>1. \A item \in Range(st.outbox) : item.events \subseteq Event
      <4>1. \A item \in Range(st.outbox) : item \in OutboxItem
        BY <2>1 DEF Range
      <4> QED  BY <4>1 DEF OutboxItem
    <3>2. \A message \in Range(chat) : message \subseteq Event
      BY <2>1 DEF Range
    <3> QED  BY <3>1, <3>2
  <2> HIDE DEF notices
  <2>3. ASSUME NEW e \in Event
        PROVE  Cardinality(Places(e)) + Cardinality(waiting(e)) <= 1 + unheard + underWay
    <3>1. Cardinality(Places(e)) \in Nat
      BY <2>1, PlacesCount
    <3>2. Cardinality(Places(e)) <= unheard + (IF Open(e) THEN 0 ELSE 1)
      BY <2>1 DEF Heard
    <3>3. CASE waiting(e) = {}
      <4>1. Cardinality(waiting(e)) = 0
        BY <3>3, FS_EmptySet
      <4> QED  BY <2>1, <3>1, <3>2, <4>1
    <3>4. CASE waiting(e) # {}
      <4>1. PICK i \in waiting(e) : TRUE
        BY <3>4
      <4>2. waiting(e) = {i}
        BY <2>1, <4>1 DEF OutboxApart
      <4>3. Cardinality(waiting(e)) = 1
        BY <4>2, FS_Singleton
      <4>4. Open(e) \/ phase = "accepted"
        BY <4>1 DEF Open, Waits
      <4> QED  BY <2>1, <3>1, <3>2, <4>3, <4>4
    <3> QED  BY <3>3, <3>4
  <2>4. DuplicatesAreUnheard <=>
           \A e \in UNION notices :
              Cardinality(Places(e)) + Cardinality(waiting(e)) <= 1 + unheard + underWay
    BY DEF DuplicatesAreUnheard, Places, notices
  <2> QED  BY <2>2, <2>3, <2>4
<1> QED  BY <1>1, NotifierAlways, PTL-----------------------------------------------------------------------------
(* The mailbox. *)

Pending == {item.events : item \in Range(st.outbox)}
Carried == IF phase \in {"sending", "accepted"} THEN {inHand} ELSE {}

LEMMA RangeOfAppend ==
    ASSUME NEW T, NEW list \in Seq(T), NEW x \in T
    PROVE  Range(Append(list, x)) = Range(list) \cup {x}
<1> DEFINE n == Len(list)
           l == Append(list, x)
<1>1. /\ n \in Nat /\ DOMAIN list = 1..n /\ DOMAIN l = 1..(n + 1)
      /\ l[n + 1] = x /\ \A i \in 1..n : l[i] = list[i]
  OBVIOUS
<1> HIDE DEF n, l
<1>2. DOMAIN l = DOMAIN list \cup {n + 1}
  BY <1>1
<1>3. \A i \in DOMAIN list : l[i] = list[i]
  BY <1>1
<1>4. Range(l) = Range(list) \cup {x}
  BY <1>1, <1>2, <1>3 DEF Range
<1> QED  BY <1>4 DEF l

\* A commit posts a notice, discards those of another account, or neither.
LEMMA CommitsPost ==
    ASSUME Base, MailInv, Commits(st, st'), UNCHANGED <<phase, inHand, chat, unheard>>
    PROVE  MB!Post \/ MB!Switch \/ MB!Rename
<1>1. st.outbox \in Seq(OutboxItem) /\ <<>> \in Seq(OutboxItem) /\ Range(<<>>) = {}
  BY DEF Base, IInv, Good, AppStateType, Range
<1>2. PICK kept \in {st.outbox, <<>>} :
         /\ kept = st.outbox \/ st'.account # st.account \/ st'.account = None
         /\ st'.outbox = kept \/ \E item : News(st, st', item) /\ st'.outbox = Append(kept, item)
  BY DEF Commits
<1>3. UNCHANGED <<Carried, Range(chat)>>
  BY DEF Carried
<1>4. ASSUME NEW item, News(st, st', item), st'.outbox = Append(kept, item)
      PROVE  /\ item.events \notin Pending \cup Range(chat)
             /\ Pending' = {i.events : i \in Range(kept)} \cup {item.events}
  <2>1. item.events # {} /\ item.events \cap Known = {} /\ item \in OutboxItem
    BY <1>4 DEF News, Known
  <2>2. \A i \in Range(st.outbox) : i.events \subseteq Known
    BY DEF MailInv, OutboxApart, Range
  <2>3. \A m \in Range(chat) : m \subseteq Known
    BY DEF MailInv, ChatKnown, Range
  <2>4. item.events \notin Pending \cup Range(chat)
    BY <2>1, <2>2, <2>3 DEF Pending
  <2>5. kept \in Seq(OutboxItem)
    BY <1>1
  <2>6. Range(Append(kept, item)) = Range(kept) \cup {item}
    BY <2>1, <2>5, RangeOfAppend
  <2> QED  BY <1>4, <2>4, <2>6 DEF Pending
<1>5. CASE kept = st.outbox
  <2>1. CASE st'.outbox = kept
    <3>1. Pending' = Pending
      BY <1>5, <2>1 DEF Pending
    <3> QED  BY <1>3, <3>1 DEF MB!Rename, Pending, Carried
  <2>2. ASSUME NEW item, News(st, st', item), st'.outbox = Append(kept, item)
        PROVE  MB!Post
    <3>1. /\ item.events \notin Pending \cup Range(chat)
          /\ Pending' = Pending \cup {item.events}
      BY <1>4, <1>5, <2>2 DEF Pending
    <3> QED  BY <1>3, <3>1 DEF MB!Post, MB!New, Pending, Carried
  <2> QED  BY <1>2, <2>1, <2>2
<1>6. CASE kept = <<>> /\ (st'.account # st.account \/ st'.account = None)
  <2>1. CASE st'.outbox = kept
    <3>1. Pending' = {}
      BY <1>1, <1>6, <2>1 DEF Pending
    <3> QED  BY <1>3, <1>6, <3>1 DEF MB!Switch, Pending, Carried
  <2>2. ASSUME NEW item, News(st, st', item), st'.outbox = Append(kept, item)
        PROVE  MB!Switch
    <3>1. /\ item.events \notin Pending \cup Range(chat)
          /\ Pending' = {item.events}
      BY <1>1, <1>4, <1>6, <2>2 DEF Pending
    <3> QED  BY <1>3, <1>6, <3>1 DEF MB!Switch, MB!New, Pending, Carried
  <2> QED  BY <1>2, <2>1, <2>2
<1> QED  BY <1>2, <1>5, <1>6

\* The same items are the same notices.
LEMMA SameNotices == ASSUME st.outbox \in Seq(OutboxItem), SameItems(st'.outbox) PROVE Pending' = Pending
<1>1. DOMAIN st'.outbox = DOMAIN st.outbox
      /\ \A i \in DOMAIN st.outbox : st'.outbox[i].events = st.outbox[i].events
  BY DEF SameItems
<1>2. \A item \in Range(st'.outbox) : \E other \in Range(st.outbox) : other.events = item.events
  BY <1>1 DEF Range
<1>3. \A item \in Range(st.outbox) : \E other \in Range(st'.outbox) : other.events = item.events
  BY <1>1 DEF Range
<1> QED  BY <1>2, <1>3 DEF Pending

LEMMA DeliveryIsMailbox ==
    ASSUME Base, MailInv, DeliveryNext PROVE MB!MailboxNext
<1>1. st \in AppStateType /\ st.outbox \in Seq(OutboxItem) /\ DeliveryTypeOK
  BY DEF Base, IInv, Good, AppStateType
<1>2. CASE Wait
  BY <1>2 DEF Wait, MB!MailboxNext, MB!Rename
<1>3. CASE Pick
  <2>1. PICK i \in DOMAIN st.outbox : inHand' = st.outbox[i].events
    BY <1>3 DEF Pick
  <2>2. inHand' \in Pending
    BY <2>1 DEF Pending, Range
  <2>3. Carried = {} /\ Carried' = {inHand'} /\ UNCHANGED <<st, chat>>
    BY <1>3 DEF Pick, Carried
  <2>4. MB!PickUp
    BY <2>2, <2>3 DEF MB!PickUp, Pending, Carried
  <2> QED  BY <2>4 DEF MB!MailboxNext
<1>4. CASE Accept
  <2>1. chat \in Seq(SUBSET Event) /\ inHand \in SUBSET Event
    BY <1>1 DEF DeliveryTypeOK
  <2>2. Range(Append(chat, inHand)) = Range(chat) \cup {inHand}
    BY <2>1, RangeOfAppend
  <2>3. Carried = {inHand} /\ Carried' = Carried /\ Range(chat)' = Range(chat) \cup Carried /\ st' = st
    BY <1>4, <2>2 DEF Accept, Carried
  <2>4. MB!Deliver
    BY <2>3 DEF MB!Deliver, Carried
  <2> QED  BY <2>4 DEF MB!MailboxNext
<1>5. CASE Acknowledge
  <2> DEFINE o == WithoutItem(st.outbox, inHand)
  <2>1. st'.outbox = o /\ st'.account = st.account /\ phase' = "top" /\ chat' = chat
        /\ phase = "accepted"
    BY <1>1, <1>5 DEF Acknowledge, AppStateType
  <2>2. /\ \A n \in DOMAIN o : \E i \in DOMAIN st.outbox :
               st.outbox[i].events # inHand /\ o[n] = st.outbox[i]
        /\ \A i \in DOMAIN st.outbox : st.outbox[i].events # inHand =>
               \E n \in DOMAIN o : o[n] = st.outbox[i]
    BY <1>1, WithoutItemKeeps
  <2> HIDE DEF o
  <2>3. \A item \in Range(o) : item.events # inHand /\ item \in Range(st.outbox)
    BY <2>2 DEF Range
  <2>4. \A item \in Range(st.outbox) : item.events # inHand => item \in Range(o)
    BY <2>2 DEF Range
  <2>5. Pending' = Pending \ {inHand}
    BY <2>1, <2>3, <2>4 DEF Pending
  <2>6. Carried = {inHand} /\ Carried' = {} /\ inHand \in Range(chat)
    BY <2>1 DEF Carried, MailInv, Accepted
  <2>7. MB!StrikeOff
    BY <2>1, <2>5, <2>6 DEF MB!StrikeOff, Pending, Carried
  <2> QED  BY <2>7 DEF MB!MailboxNext
<1>6. CASE Refused \/ AnswerLost
  <2>1. st' = [st EXCEPT !.outbox = Postponed(st.outbox, inHand)] /\ phase' = "top" /\ chat' = chat
    BY <1>6 DEF Refused, AnswerLost, Postpone
  <2>2. st'.outbox = Postponed(st.outbox, inHand) /\ st'.account = st.account
    BY <1>1, <2>1 DEF AppStateType
  <2>3. Pending' = Pending /\ Carried' = {}
    BY <1>1, <2>1, <2>2, PostponedSame, SameNotices DEF Carried
  <2>4. MB!GiveUp
    BY <2>1, <2>2, <2>3 DEF MB!GiveUp, Pending, Carried
  <2> QED  BY <2>4 DEF MB!MailboxNext
<1>7. CASE RetryDue
  <2>1. /\ UNCHANGED <<phase, inHand, chat>>
        /\ \E i \in DOMAIN st.outbox : st' = [st EXCEPT !.outbox[i].ready = TRUE]
    BY <1>7 DEF RetryDue
  <2>2. PICK i \in DOMAIN st.outbox : st' = [st EXCEPT !.outbox[i].ready = TRUE]
    BY <2>1
  <2>3. st'.outbox = [st.outbox EXCEPT ![i].ready = TRUE]
    BY <1>1, <2>2 DEF AppStateType
  <2>4. Pending' = Pending
    BY <1>1, <2>3, ReadySame, SameNotices
  <2>5. MB!Rename
    BY <2>1, <2>4 DEF MB!Rename, Pending
  <2> QED  BY <2>5 DEF MB!MailboxNext
<1> QED  BY <1>2, <1>3, <1>4, <1>5, <1>6, <1>7 DEF DeliveryNext

\* A step of the process is one of the mailbox, or changes nothing of it.
LEMMA NotifierStepIsMailbox ==
    ASSUME NInv, Room, [NotifierNext]_notifierVars
    PROVE  MB!MailboxNext
<1>1. Base /\ MailInv
  BY DEF NInv
<1>2. CASE DeliveryStep
  BY <1>1, <1>2, DeliveryIsMailbox DEF DeliveryStep
<1>3. CASE Restart
  <2>1. MB!GiveUp
    BY <1>3 DEF Restart, MB!GiveUp
  <2> QED  BY <2>1 DEF MB!MailboxNext
<1>4. CASE ~DeliveryStep /\ ~Restart
  <2>1. Commits(st, st')
    BY <1>4, NotifierStep
  <2>2. UNCHANGED <<phase, inHand, chat, unheard>>
    BY <1>4 DEF NotifierNext, CheckStep, deliveryOwn, notifierVars, deliveryVars
  <2> QED  BY <1>1, <2>1, <2>2, CommitsPost DEF MB!MailboxNext
<1> QED  BY <1>2, <1>3, <1>4

\* Across checks, retries, lost answers and crashes, a notice that enters the
\* outbox reaches the chat before it leaves, unless its account is changed or
\* forgotten, and none is posted a second time (monitor.py, delivery.py).
THEOREM PipelineIsMailbox == NotifierSpec /\ []Room => ImplementsMailbox
<1>1. NotifierInit => MB!MailboxInit
  <2> SUFFICES ASSUME NotifierInit PROVE MB!MailboxInit
    OBVIOUS
  <2>1. st.outbox = <<>> /\ chat = <<>> /\ phase = "top" /\ Range(<<>>) = {}
    BY DEF NotifierInit, MonitorInit, DeliveryInit, InitialAppState, Range
  <2> QED  BY <2>1 DEF MB!MailboxInit
<1>2. NInv /\ Room /\ [NotifierNext]_notifierVars => [MB!MailboxNext]_MB!mailboxVars
  BY NotifierStepIsMailbox
<1>3. NotifierSpec /\ []Room => MB!MailboxSpec
  BY <1>1, <1>2, NotifierAlways, PTL DEF NotifierSpec, MB!MailboxSpec
<1> QED  BY <1>3 DEF ImplementsMailbox

\* What the owner is owed, step by step.  A notice leaves the outbox only when
\* it stands in the chat or its account is changed or forgotten, and a notice
\* that stands in the chat does not enter the outbox again; with NoticesLeave
\* every notice reaches the chat in the end, or has lost its account
\* (delivery.py:28-84, monitor.py:120-148).
NoticesOwed ==
    [][/\ \A notice \in Pending \ Pending' :
             notice \in Range(chat) \/ st'.account # st.account \/ st'.account = None
       /\ Range(chat) \subseteq Range(chat')
       /\ \A notice \in Pending' \ Pending : notice \notin Range(chat)]_notifierVars

\* That is all a mailbox lets a step do, so the pipeline keeps to it.
THEOREM OwedNoticesArrive == NotifierSpec /\ []Room => NoticesOwed
<1>1. ASSUME NInv, Room, [NotifierNext]_notifierVars
      PROVE  /\ \A notice \in Pending \ Pending' :
                   notice \in Range(chat) \/ st'.account # st.account \/ st'.account = None
             /\ Range(chat) \subseteq Range(chat')
             /\ \A notice \in Pending' \ Pending : notice \notin Range(chat)
  <2>1. MB!MailboxNext
    BY <1>1, NotifierStepIsMailbox
  <2> QED
    BY <2>1 DEF MB!MailboxNext, MB!Post, MB!Switch, MB!Rename, MB!PickUp, MB!Deliver, MB!GiveUp,
                MB!StrikeOff, MB!New, Pending
<1> QED  BY <1>1, NotifierAlways, PTL DEF NotifierSpec, NoticesOwed

\* Both hold outright for as many checks as the deduplication list has room
\* for: 500 with the 1000 places of the code (models.py:275), counted from a
\* fresh state.json.
THEOREM PipelineWithRoom ==
    ASSUME DedupeLimit >= 2 * MaxChecks
    PROVE  NotifierSpec => []DuplicatesAreUnheard /\ ImplementsMailbox
<1>1. NotifierSpec => []Room
  BY RoomSuffices
<1> QED  BY <1>1, DuplicatesStayUnheard, PipelineIsMailbox, PTL
=============================================================================
