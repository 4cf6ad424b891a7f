--------------------------- MODULE AppStateProofs ---------------------------
(***************************************************************************)
(* Facts about the operators every commit on state.json is built from, for *)
(* all limits and all batches of events.                                   *)
(***************************************************************************)
EXTENDS AppState, FiniteSetTheorems, TLAPS

\* A finite set is listed once each, and by nothing but its members.
LEMMA ListsSet ==
    ASSUME NEW S, IsFiniteSet(S)
    PROVE  /\ SetToSeq(S) \in Seq(S)
           /\ \A i, j \in DOMAIN SetToSeq(S) : SetToSeq(S)[i] = SetToSeq(S)[j] => i = j
           /\ Range(SetToSeq(S)) = S
<1> DEFINE n == Cardinality(S)
<1>1. n \in Nat /\ ExistsBijection(1..n, S)
  BY FS_CardinalityType
<1>2. PICK g \in Bijection(1..n, S) : TRUE
  BY <1>1 DEF ExistsBijection
<1>3. g \in [1..n -> S] /\ IsInjective(g)
  BY <1>2 DEF Bijection, Injection
<1>4. SetToSeq(S) \in [1..n -> S] /\ IsInjective(SetToSeq(S))
  BY <1>3 DEF SetToSeq
<1>5. SetToSeq(S) \in Seq(S)
  BY <1>1, <1>4
<1>6. \A i, j \in 1..n : SetToSeq(S)[i] = SetToSeq(S)[j] => i = j
  BY <1>4 DEF IsInjective
<1>7. Range(SetToSeq(S)) = S
  <2> DEFINE R == Range(SetToSeq(S))
  <2>1. SetToSeq(S) \in Bijection(1..n, R)
    BY <1>4 DEF Bijection, Injection, Surjection, Range, IsInjective
  <2>2. R \subseteq S /\ Cardinality(R) = n
    BY <1>1, <1>4, <2>1, FS_CountingElements DEF ExistsBijection, Range
  <2> QED  BY <2>2, FS_Subset
<1> QED
  BY <1>4, <1>5, <1>6, <1>7

\* The part of a list from a place on.
LEMMA FromPlaceOn ==
    ASSUME NEW T, NEW list \in Seq(T), NEW m \in 1..(Len(list) + 1)
    PROVE  LET part == SubSeq(list, m, Len(list))
           IN  /\ part \in Seq(T) /\ Len(part) = Len(list) - m + 1
               /\ \A i \in 1..(Len(list) - m + 1) : part[i] = list[m + i - 1]
<1>1. Len(list) \in Nat
  OBVIOUS
<1>2. Len(SubSeq(list, m, Len(list))) = Len(list) - m + 1
  BY <1>1
<1>3. SubSeq(list, m, Len(list)) \in Seq(T)
  BY <1>1
<1>4. ASSUME NEW i \in 1..(Len(list) - m + 1)
      PROVE  SubSeq(list, m, Len(list))[i] = list[m + i - 1]
  BY <1>1
<1> QED  BY <1>2, <1>3, <1>4

\* Newest keeps the last n entries, in their places counted from the end.
LEMMA NewestKeepsTail ==
    ASSUME NEW T, NEW list \in Seq(T), NEW n \in Nat
    PROVE  /\ Newest(list, n) \in Seq(T)
           /\ Len(Newest(list, n)) = IF Len(list) <= n THEN Len(list) ELSE n
           /\ \A i \in DOMAIN Newest(list, n) :
                 Newest(list, n)[i] = list[Len(list) - Len(Newest(list, n)) + i]
<1>1. CASE Len(list) <= n
  BY <1>1 DEF Newest
<1>2. CASE ~(Len(list) <= n)
  <2>1. Len(list) \in Nat
    OBVIOUS
  <2> DEFINE m == Len(list) - n + 1
  <2>2. Newest(list, n) = SubSeq(list, m, Len(list))
    BY <1>2 DEF Newest
  <2>3. m \in 1..(Len(list) + 1) /\ Len(list) - m + 1 = n
    BY <1>2, <2>1
  <2>4. \A i \in 1..n : m + i - 1 = Len(list) - n + i
    BY <2>1
  <2> HIDE DEF m
  <2>5. /\ SubSeq(list, m, Len(list)) \in Seq(T) /\ Len(SubSeq(list, m, Len(list))) = n
        /\ \A i \in 1..n : SubSeq(list, m, Len(list))[i] = list[m + i - 1]
    BY <2>3, FromPlaceOn
  <2>6. /\ Newest(list, n) \in Seq(T) /\ Len(Newest(list, n)) = n
        /\ \A i \in 1..n : Newest(list, n)[i] = list[Len(list) - n + i]
    BY <2>2, <2>4, <2>5
  <2>7. DOMAIN Newest(list, n) = 1..n
    BY <2>6
  <2> QED
    BY <1>2, <2>6, <2>7
<1> QED
  BY <1>1, <1>2

\* The facts about a list that grows by entries it does not hold.
LEMMA AppendedStaysInjective ==
    ASSUME NEW T, NEW old \in Seq(T), NEW more \in Seq(T),
           \A i, j \in DOMAIN old : old[i] = old[j] => i = j,
           \A i, j \in DOMAIN more : more[i] = more[j] => i = j,
           \A i \in DOMAIN old, j \in DOMAIN more : old[i] # more[j]
    PROVE  \A i, j \in DOMAIN (old \o more) : (old \o more)[i] = (old \o more)[j] => i = j
<1> DEFINE l == old \o more
<1>1. Len(old) \in Nat /\ Len(more) \in Nat /\ DOMAIN old = 1..Len(old)
      /\ DOMAIN more = 1..Len(more) /\ DOMAIN l = 1..(Len(old) + Len(more))
  OBVIOUS
<1>2. \A i \in DOMAIN l : IF i <= Len(old) THEN i \in DOMAIN old /\ l[i] = old[i]
                          ELSE i - Len(old) \in DOMAIN more /\ l[i] = more[i - Len(old)]
  OBVIOUS
<1> HIDE DEF l
<1>3. ASSUME NEW i \in DOMAIN l, NEW j \in DOMAIN l, l[i] = l[j]
      PROVE  i = j
  <2>1. CASE i <= Len(old) /\ j <= Len(old)
    BY <1>2, <1>3, <2>1
  <2>2. CASE ~(i <= Len(old)) /\ ~(j <= Len(old))
    <3>1. i - Len(old) = j - Len(old)
      BY <1>2, <1>3, <2>2
    <3> QED
      BY <3>1, <1>1
  <2>3. CASE (i <= Len(old)) /\ ~(j <= Len(old))
    BY <1>2, <1>3, <2>3
  <2>4. CASE ~(i <= Len(old)) /\ (j <= Len(old))
    BY <1>2, <1>3, <2>4
  <2> QED
    BY <2>1, <2>2, <2>3, <2>4
<1> QED
  BY <1>3 DEF l

\* `hist' is the newest part of `list'.
IsTail(hist, list) ==
    /\ Len(list) - Len(hist) >= 0
    /\ \A i \in DOMAIN hist : hist[i] = list[Len(list) - Len(hist) + i]

\* Two lists that grow by the same entries stay tail and whole.
LEMMA AppendedStaysTail ==
    ASSUME NEW T, NEW hist \in Seq(T), NEW list \in Seq(T), NEW more \in Seq(T),
           IsTail(hist, list)
    PROVE  IsTail(hist \o more, list \o more)
<1> DEFINE n == Len(list) - Len(hist)
           h == hist \o more
           l == list \o more
<1>1. /\ Len(hist) \in Nat /\ Len(list) \in Nat /\ Len(more) \in Nat /\ n \in Nat
      /\ DOMAIN hist = 1..Len(hist) /\ DOMAIN h = 1..(Len(hist) + Len(more))
  BY DEF IsTail
<1>2. Len(l) - Len(h) = n
  OBVIOUS
<1>3. \A i \in 1..(Len(list) + Len(more)) :
         l[i] = IF i <= Len(list) THEN list[i] ELSE more[i - Len(list)]
  OBVIOUS
<1>4. \A i \in 1..(Len(hist) + Len(more)) :
         h[i] = IF i <= Len(hist) THEN hist[i] ELSE more[i - Len(hist)]
  OBVIOUS
<1>5. \A i \in 1..Len(hist) : hist[i] = list[n + i]
  BY <1>1 DEF IsTail
<1> HIDE DEF h, l
<1>6. ASSUME NEW i \in 1..(Len(hist) + Len(more))
      PROVE  h[i] = l[n + i]
  <2>1. n + i \in 1..(Len(list) + Len(more))
    BY <1>1
  <2>2. CASE i <= Len(hist)
    <3>1. n + i <= Len(list) /\ i \in 1..Len(hist)
      BY <1>1, <2>2
    <3> QED
      BY <1>3, <1>4, <1>5, <2>1, <2>2, <3>1
  <2>3. CASE ~(i <= Len(hist))
    <3>1. ~(n + i <= Len(list)) /\ n + i - Len(list) = i - Len(hist)
      BY <1>1, <2>3
    <3>2. h[i] = more[i - Len(hist)]
      BY <1>4, <2>3
    <3>3. l[n + i] = more[n + i - Len(list)]
      BY <1>3, <2>1, <3>1
    <3> QED
      BY <3>1, <3>2, <3>3
  <2> QED
    BY <2>2, <2>3
<1> QED
  BY <1>1, <1>2, <1>6 DEF IsTail, h, l

\* Trimming both lists from the front, the shorter one at least as far.
LEMMA TrimmedStaysTail ==
    ASSUME NEW T, NEW hist \in Seq(T), NEW list \in Seq(T), IsTail(hist, list),
           NEW m \in Nat, NEW n \in Nat, m <= n
    PROVE  IsTail(Newest(hist, m), Newest(list, n))
<1> DEFINE h == Newest(hist, m)
           l == Newest(list, n)
           lh == Len(hist)
           ll == Len(list)
<1>1. /\ h \in Seq(T) /\ Len(h) = IF lh <= m THEN lh ELSE m
      /\ \A i \in DOMAIN h : h[i] = hist[lh - Len(h) + i]
  BY NewestKeepsTail
<1>2. /\ l \in Seq(T) /\ Len(l) = IF ll <= n THEN ll ELSE n
      /\ \A i \in DOMAIN l : l[i] = list[ll - Len(l) + i]
  BY NewestKeepsTail
<1> HIDE DEF h, l
<1>3. /\ lh \in Nat /\ ll \in Nat /\ ll - lh >= 0 /\ Len(h) \in Nat /\ Len(l) \in Nat
      /\ DOMAIN h = 1..Len(h) /\ DOMAIN l = 1..Len(l) /\ DOMAIN hist = 1..lh
      /\ \A i \in 1..lh : hist[i] = list[ll - lh + i]
  BY <1>1, <1>2 DEF IsTail
<1> HIDE DEF lh, ll
<1>4. Len(h) <= lh /\ Len(l) <= ll /\ Len(l) - Len(h) >= 0
  BY <1>1, <1>2, <1>3
<1>5. ASSUME NEW i \in DOMAIN h
      PROVE  h[i] = l[Len(l) - Len(h) + i]
  <2> DEFINE k == Len(l) - Len(h) + i
             p == lh - Len(h) + i
  <2>0. /\ lh \in Nat /\ ll \in Nat /\ ll - lh >= 0 /\ Len(h) \in Nat /\ Len(l) \in Nat
        /\ i \in 1..Len(h)
    BY <1>3
  <2>1. i \in 1..Len(h) /\ k \in 1..Len(l) /\ p \in 1..lh
    BY <1>4, <2>0
  <2>2. h[i] = hist[p] /\ l[k] = list[ll - Len(l) + k] /\ hist[p] = list[ll - lh + p]
    BY <1>1, <1>2, <1>3, <2>1
  <2>3. ll - lh + p = ll - Len(l) + k
    BY <2>0
  <2> QED
    BY <2>2, <2>3
<1> QED
  BY <1>4, <1>5 DEF IsTail, h, l

\* A trimmed list without repetitions has none.
LEMMA TrimmedStaysInjective ==
    ASSUME NEW T, NEW list \in Seq(T), NEW n \in Nat,
           \A i, j \in DOMAIN list : list[i] = list[j] => i = j
    PROVE  \A i, j \in DOMAIN Newest(list, n) : Newest(list, n)[i] = Newest(list, n)[j] => i = j
<1> DEFINE l == Newest(list, n)
           ll == Len(list)
<1>1. /\ l \in Seq(T) /\ Len(l) = IF ll <= n THEN ll ELSE n
      /\ \A i \in DOMAIN l : l[i] = list[ll - Len(l) + i]
  BY NewestKeepsTail
<1> HIDE DEF l
<1>2. /\ ll \in Nat /\ Len(l) \in Nat /\ Len(l) <= ll /\ DOMAIN l = 1..Len(l)
      /\ DOMAIN list = 1..ll
  BY <1>1
<1> HIDE DEF ll
<1>3. ASSUME NEW i \in DOMAIN l, NEW j \in DOMAIN l, l[i] = l[j]
      PROVE  i = j
  <2> DEFINE p == ll - Len(l) + i
             q == ll - Len(l) + j
  <2>1. p \in 1..ll /\ q \in 1..ll
    BY <1>2
  <2>2. list[p] = list[q]
    BY <1>1, <1>3
  <2>3. p = q
    BY <1>2, <2>1, <2>2
  <2> QED
    BY <2>3, <1>2
<1> QED
  BY <1>3 DEF l

\* _append_events_and_outbox: the record keeps its type and its alignment, the
\* outbox gains at most one item, about events of the batch, and no other
\* field changes.
LEMMA AppendKeepsAligned ==
    ASSUME NEW s \in AppStateType, Aligned(s),
           NEW batch, batch \subseteq Event, IsFiniteSet(batch), NEW enabled
    PROVE  LET a == AppendEventsAndOutbox(s, batch, enabled)
           IN  /\ a \in AppStateType /\ Aligned(a)
               /\ \A item \in Range(a.outbox) :
                      item \in Range(s.outbox) \/ item.events \subseteq batch
               /\ a = [s EXCEPT !.events = a.events, !.dedupe = a.dedupe, !.outbox = a.outbox]
<1> DEFINE new == SetToSeq(Unique(s, batch))
           a == AppendEventsAndOutbox(s, batch, enabled)
           notify == {e \in Unique(s, batch) : NotificationEnabled(e, enabled)}
           item0 == [events |-> notify, ready |-> TRUE]
<1>1. Unique(s, batch) \subseteq Event /\ IsFiniteSet(Unique(s, batch))
  BY FS_Difference DEF Unique
<1>2. /\ new \in Seq(Unique(s, batch))
      /\ \A i, j \in DOMAIN new : new[i] = new[j] => i = j
  BY <1>1, ListsSet
<1>3. new \in Seq(Event)
  BY <1>1, <1>2
<1>4. s.events \in Seq(Event) /\ s.dedupe \in Seq(Event) /\ s.outbox \in Seq(OutboxItem)
  BY DEF AppStateType
<1>5. \A i \in DOMAIN s.dedupe, j \in DOMAIN new : s.dedupe[i] # new[j]
  BY <1>2 DEF Unique, Range
<1>6. item0 \in OutboxItem /\ item0.events \subseteq batch
  BY <1>1 DEF OutboxItem, Unique
<1>7. /\ a.events = s.events \o new /\ a.dedupe = s.dedupe \o new
      /\ a.outbox = s.outbox \/ a.outbox = Append(s.outbox, item0)
      /\ a = [s EXCEPT !.events = a.events, !.dedupe = a.dedupe, !.outbox = a.outbox]
  BY DEF AppStateType, AppendEventsAndOutbox
<1> HIDE DEF new, item0, a
<1>8. a \in AppStateType
  <2>1. s.events \o new \in Seq(Event) /\ s.dedupe \o new \in Seq(Event)
    BY <1>3, <1>4
  <2>2. Append(s.outbox, item0) \in Seq(OutboxItem)
    BY <1>4, <1>6
  <2>3. a.outbox \in Seq(OutboxItem)
    BY <1>4, <1>7, <2>2
  <2> QED
    BY <1>7, <2>1, <2>3 DEF AppStateType
<1>9. Aligned(a)
  <2>1. \A i, j \in DOMAIN a.dedupe : a.dedupe[i] = a.dedupe[j] => i = j
    <3> DEFINE old == s.dedupe
    <3>1. old \in Seq(Event) /\ \A i, j \in DOMAIN old : old[i] = old[j] => i = j
      BY <1>4 DEF Aligned
    <3>2. \A i \in DOMAIN old, j \in DOMAIN new : old[i] # new[j]
      BY <1>5
    <3>3. a.dedupe = old \o new
      BY <1>7
    <3> HIDE DEF old
    <3>4. \A i, j \in DOMAIN (old \o new) : (old \o new)[i] = (old \o new)[j] => i = j
      BY <1>2, <1>3, <3>1, <3>2, AppendedStaysInjective
    <3> QED  BY <3>3, <3>4
  <2>2. IsTail(s.events, s.dedupe)
    BY DEF Aligned, IsTail
  <2>3. IsTail(a.events, a.dedupe)
    BY <1>3, <1>4, <1>7, <2>2, AppendedStaysTail
  <2> QED
    BY <2>1, <2>3 DEF Aligned, IsTail
<1>10. \A item \in Range(a.outbox) : item \in Range(s.outbox) \/ item.events \subseteq batch
  <2>1. CASE a.outbox = s.outbox
    BY <2>1
  <2>2. CASE a.outbox = Append(s.outbox, item0)
    BY <1>4, <1>6, <2>2 DEF Range
  <2> QED
    BY <1>7, <2>1, <2>2
<1> QED
  BY <1>7, <1>8, <1>9, <1>10 DEF a

\* AppState.bounded: trimming both lists leaves the history the newest part of
\* the deduplication list, because the history is the shorter one.
LEMMA BoundedRecords ==
    ASSUME NEW s \in AppStateType, Aligned(s)
    PROVE  /\ Bounded(s) \in AppStateType /\ Recorded(Bounded(s))
           /\ Bounded(s) = [s EXCEPT !.events = Bounded(s).events, !.dedupe = Bounded(s).dedupe]
<1> DEFINE e == Newest(s.events, HistoryLimit)
           d == Newest(s.dedupe, DedupeLimit)
<1>1. s.events \in Seq(Event) /\ s.dedupe \in Seq(Event)
  BY DEF AppStateType
<1>2. /\ e \in Seq(Event) /\ Len(e) = IF Len(s.events) <= HistoryLimit THEN Len(s.events) ELSE HistoryLimit
  BY <1>1, NewestKeepsTail, LimitsAssumption
<1>3. /\ d \in Seq(Event) /\ Len(d) = IF Len(s.dedupe) <= DedupeLimit THEN Len(s.dedupe) ELSE DedupeLimit
  BY <1>1, NewestKeepsTail, LimitsAssumption
<1>4. /\ Bounded(s).events = e /\ Bounded(s).dedupe = d
      /\ Bounded(s) = [s EXCEPT !.events = e, !.dedupe = d]
  BY DEF Bounded, AppStateType
<1>5. Bounded(s) \in AppStateType
  BY <1>2, <1>3, <1>4 DEF AppStateType
<1>6. IsTail(s.events, s.dedupe) /\ \A i, j \in DOMAIN s.dedupe : s.dedupe[i] = s.dedupe[j] => i = j
  BY DEF Aligned, IsTail
<1>7. IsTail(e, d)
  BY <1>1, <1>6, TrimmedStaysTail, LimitsAssumption
<1>8. \A i, j \in DOMAIN d : d[i] = d[j] => i = j
  BY <1>1, <1>6, TrimmedStaysInjective, LimitsAssumption
<1>9. Len(e) <= HistoryLimit /\ Len(d) <= DedupeLimit
  BY <1>1, <1>2, <1>3, LimitsAssumption
<1> HIDE DEF e, d
<1>10. Recorded(Bounded(s))
  BY <1>4, <1>7, <1>8, <1>9 DEF Recorded, Aligned, IsTail
<1> QED
  BY <1>4, <1>5, <1>10

-----------------------------------------------------------------------------
(* What the deduplication list gains. *)

\* The entries `fresh' are those of the batch that the list did not hold.
Gains(old, new, batch) ==
    \E fresh \in Seq(Event) :
        /\ new = old \o fresh
        /\ Range(fresh) = batch \ Range(old)
        /\ \A i, j \in DOMAIN fresh : fresh[i] = fresh[j] => i = j

\* A list that stays as it is.
LEMMA GainsNothing == ASSUME NEW list \in Seq(Event) PROVE Gains(list, list, {})
<1>1. << >> \in Seq(Event) /\ list = list \o << >> /\ Range(<< >>) = {} /\ DOMAIN << >> = {}
  BY DEF Range
<1> QED  BY <1>1 DEF Gains

\* An append adds what deduplication lets through.
LEMMA AppendGains ==
    ASSUME NEW s \in AppStateType,
           NEW batch, batch \subseteq Event, IsFiniteSet(batch), NEW enabled
    PROVE  Gains(s.dedupe, AppendEventsAndOutbox(s, batch, enabled).dedupe, batch)
<1> DEFINE unique == batch \ Range(s.dedupe)
           fresh == SetToSeq(unique)
           a == AppendEventsAndOutbox(s, batch, enabled)
<1>1. unique \subseteq Event /\ IsFiniteSet(unique)
  BY FS_Difference
<1>2. /\ fresh \in Seq(unique) /\ Range(fresh) = unique
      /\ \A i, j \in DOMAIN fresh : fresh[i] = fresh[j] => i = j
  BY <1>1, ListsSet
<1>3. a.dedupe = s.dedupe \o fresh
  BY DEF AppStateType, AppendEventsAndOutbox, Unique
<1>4. fresh \in Seq(Event)
  BY <1>1, <1>2
<1> HIDE DEF fresh, a, unique
<1>5. Range(fresh) = batch \ Range(s.dedupe)
  BY <1>2 DEF unique
<1> QED  BY <1>2, <1>3, <1>4, <1>5 DEF Gains, a

\* A list that ends up short of the limit has lost nothing.
LEMMA ShortIsWhole ==
    ASSUME NEW s \in AppStateType
    PROVE  /\ Len(Bounded(s).dedupe) < DedupeLimit =>
                 Bounded(s).dedupe = s.dedupe /\ Len(s.dedupe) < DedupeLimit
           /\ Range(Bounded(s).dedupe) \subseteq Range(s.dedupe)
<1>1. s.dedupe \in Seq(Event) /\ Bounded(s).dedupe = Newest(s.dedupe, DedupeLimit)
  BY DEF AppStateType, Bounded
<1> DEFINE list == s.dedupe
           kept == Newest(list, DedupeLimit)
<1>2. /\ kept \in Seq(Event)
      /\ Len(kept) = IF Len(list) <= DedupeLimit THEN Len(list) ELSE DedupeLimit
      /\ \A i \in DOMAIN kept : kept[i] = list[Len(list) - Len(kept) + i]
  BY <1>1, NewestKeepsTail, LimitsAssumption
<1>3. Len(list) <= DedupeLimit => kept = list
  BY DEF Newest
<1> HIDE DEF kept
<1>4. Len(kept) < DedupeLimit => kept = list /\ Len(list) < DedupeLimit
  BY <1>1, <1>2, <1>3, LimitsAssumption
<1>5. Range(kept) \subseteq Range(list)
  <2>1. ASSUME NEW i \in DOMAIN kept
        PROVE  kept[i] \in Range(list)
    <3>1. i \in 1..Len(kept) /\ Len(list) \in Nat /\ Len(kept) \in Nat /\ Len(kept) <= Len(list)
      BY <1>1, <1>2, LimitsAssumption
    <3>2. Len(list) - Len(kept) + i \in 1..Len(list)
      BY <3>1
    <3> QED  BY <1>1, <1>2, <3>2 DEF Range
  <2> QED  BY <2>1 DEF Range
<1> QED  BY <1>1, <1>4, <1>5 DEF kept

\* Where an entry behind `before' others is once `gone' of these are dropped.
LEMMA PlaceAfterTrim ==
    ASSUME NEW before \in Nat, NEW added \in Nat, NEW k \in 1..added,
           NEW gone \in Nat, gone <= before
    PROVE  /\ before + k - gone \in 1..(before + added - gone)
           /\ gone + (before + k - gone) = before + k
OBVIOUS

\* Two entries that have just been appended survive the trim.
LEMMA NewestAreKept ==
    ASSUME NEW s \in AppStateType, NEW old \in Seq(Event), NEW batch, Gains(old, s.dedupe, batch),
           NEW e \in batch, NEW f, batch \subseteq {e, f}, DedupeLimit >= 2
    PROVE  e \in Range(old) \cup Range(Bounded(s).dedupe)
<1> SUFFICES ASSUME e \notin Range(old) PROVE e \in Range(Bounded(s).dedupe)
  OBVIOUS
<1>1. PICK fresh \in Seq(Event) :
         /\ s.dedupe = old \o fresh
         /\ Range(fresh) = batch \ Range(old)
         /\ \A i, j \in DOMAIN fresh : fresh[i] = fresh[j] => i = j
  BY DEF Gains
<1>2. PICK k \in DOMAIN fresh : fresh[k] = e
  BY <1>1 DEF Range
<1>3. Len(fresh) <= 2
  <2> SUFFICES ASSUME Len(fresh) >= 3 PROVE FALSE
    OBVIOUS
  <2>1. {1, 2, 3} \subseteq DOMAIN fresh
    OBVIOUS
  <2>2. \A i \in DOMAIN fresh : fresh[i] \in {e, f}
    BY <1>1 DEF Range
  <2> QED  BY <1>1, <2>1, <2>2
<1> DEFINE list == s.dedupe
           kept == Newest(list, DedupeLimit)
           p == Len(old) + k - (Len(list) - Len(kept))
<1>4. /\ list \in Seq(Event) /\ kept \in Seq(Event) /\ Bounded(s).dedupe = kept
      /\ Len(kept) = IF Len(list) <= DedupeLimit THEN Len(list) ELSE DedupeLimit
      /\ \A i \in DOMAIN kept : kept[i] = list[Len(list) - Len(kept) + i]
  <2>1. list \in Seq(Event) /\ Bounded(s).dedupe = kept
    BY DEF AppStateType, Bounded
  <2> HIDE DEF list
  <2>2. DedupeLimit \in Nat /\ DedupeLimit >= 1
    BY LimitsAssumption
  <2> QED  BY <2>1, <2>2, NewestKeepsTail
<1>5. /\ Len(list) = Len(old) + Len(fresh) /\ Len(old) \in Nat /\ Len(fresh) \in Nat
      /\ k \in 1..Len(fresh) /\ list[Len(old) + k] = e
  BY <1>1, <1>2
<1> HIDE DEF list, kept
<1>6. p \in DOMAIN kept /\ Len(list) - Len(kept) + p = Len(old) + k
  <2>1. /\ DOMAIN kept = 1..Len(kept) /\ Len(kept) \in Nat /\ Len(list) \in Nat
        /\ DedupeLimit \in Nat
    BY <1>4, LimitsAssumption
  <2> DEFINE gone == Len(list) - Len(kept)
  <2>2. gone \in Nat /\ gone <= Len(old)
    <3>1. CASE Len(list) <= DedupeLimit
      BY <1>4, <1>5, <2>1, <3>1
    <3>2. CASE Len(list) > DedupeLimit
      <4>1. Len(kept) = DedupeLimit
        BY <1>4, <2>1, <3>2
      <4> QED  BY <1>3, <1>5, <2>1, <3>2, <4>1
    <3> QED  BY <2>1, <3>1, <3>2
  <2>3. p = Len(old) + k - gone /\ Len(kept) = Len(old) + Len(fresh) - gone
    BY <1>5, <2>1
  <2> HIDE DEF gone, p
  <2>4. /\ Len(old) \in Nat /\ Len(fresh) \in Nat /\ k \in 1..Len(fresh)
        /\ gone \in Nat /\ gone <= Len(old)
    BY <1>5, <2>2
  <2>5. /\ Len(old) + k - gone \in 1..(Len(old) + Len(fresh) - gone)
        /\ gone + (Len(old) + k - gone) = Len(old) + k
    BY <2>4, PlaceAfterTrim
  <2>6. p \in 1..Len(kept) /\ gone + p = Len(old) + k
    BY <2>3, <2>5
  <2> QED  BY <2>1, <2>6 DEF gone
<1>7. kept[p] = e
  BY <1>4, <1>5, <1>6
<1> QED  BY <1>4, <1>6, <1>7 DEF Range
=============================================================================
