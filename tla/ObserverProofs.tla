---------------------------- MODULE ObserverProofs ----------------------------
(***************************************************************************)
(* What the readings of domain.py may announce, for every bound: a reset,  *)
(* a restored usage and a granted credit only when the server has had one  *)
(* since the reading it is compared with, and a granted credit whenever a  *)
(* later reading lists it.                                                 *)
(*                                                                         *)
(* The invariant relates what is kept (snapshot, baseline, ids) to what is *)
(* on its way (reply) and to the server's present state, through the       *)
(* counts of `seen' and of the reply: two readings with the same counts    *)
(* can only differ in the direction that announces nothing.                *)
(***************************************************************************)
EXTENDS Observer, TLAPS, FiniteSetTheorems, WellFoundedInduction

Asked == phase \in {"asked", "askedAgain"}

-----------------------------------------------------------------------------
(* The types. *)

WindowType == [used : 0..MaxUsed, resets : Resets, duration : {1, 2}, epoch : Nat, plans : Nat]
StatusType == [limit : {"none", "reached"}, allowed : BOOLEAN, restored : Nat]
SeenType == [epoch : Nat, plans : Nat, granted : Nat, restored : Nat]

\* The server's side.
ServerTypes ==
    /\ topic \in {"window", "credits", "status"} /\ clock \in Time
    /\ window \in WindowType /\ window.epoch + window.plans <= MaxTurns
    /\ credits \in Seq(CreditType) /\ Len(credits) <= MaxCredits
    /\ \A i \in 1..Len(credits) : credits[i].id = i /\ credits[i].granted <= clock
    /\ status \in StatusType

\* The check's side; a count of a reply lies between the one kept and the present.
CheckTypes ==
    /\ phase \in {"idle", "asked", "sleep", "askedAgain"} /\ seen \in SeenType
    /\ reply = None <=> ~Asked
    /\ Asked => reply \in ReplyType

Between(low, high) ==
    /\ low.epoch <= high.epoch /\ low.plans <= high.plans
    /\ low.granted <= high.granted /\ low.restored <= high.restored

Present == [epoch |-> window.epoch, plans |-> window.plans,
            granted |-> Len(credits), restored |-> status.restored]

Counts == /\ Between(seen, Present)
          /\ Asked => Between(seen, reply) /\ Between(reply, Present)

Types == ServerTypes /\ CheckTypes /\ Counts

-----------------------------------------------------------------------------
(* The windows. *)

\* A reading of the window, with the resets and changes of plan before it.
Reading(reading, counts) ==
    [used |-> reading.used, duration |-> reading.duration,
     epoch |-> counts.epoch, plans |-> counts.plans]

ReadingType == [used : 0..MaxUsed, duration : {1, 2}, epoch : Nat, plans : Nat]

\* Of two readings, the later one: without a reset and without another plan in
\* between usage has not dropped, and one change of plan changes the length.
Later(x, y) ==
    /\ x.epoch <= y.epoch /\ x.plans <= y.plans
    /\ x.epoch = y.epoch /\ x.plans = y.plans => x.used <= y.used
    /\ y.plans = x.plans => y.duration = x.duration
    /\ y.plans = x.plans + 1 => y.duration # x.duration

Readable == {w \in DOMAIN reply.windows : reply.windows[w].used # None}

WindowsInOrder ==
    /\ snapshot # None =>
         \A w \in DOMAIN snapshot.windows :
            /\ snapshot.windows[w].used \in 0..MaxUsed
            /\ snapshot.windows[w].duration \in {1, 2}
            /\ Later(Reading(snapshot.windows[w], seen), window)
            /\ Asked => \A v \in Readable :
                  Later(Reading(snapshot.windows[w], seen), Reading(reply.windows[v], reply))
    /\ Asked => \A v \in Readable : Later(Reading(reply.windows[v], reply), window)

-----------------------------------------------------------------------------
(* The usage. *)

Denied == snapshot # None /\ snapshot.usageStatus = "known" /\ snapshot.usageAllowed = FALSE

\* Usage that was denied stays denied until it is restored.
UsageInOrder ==
    /\ Denied =>
         /\ status.restored = seen.restored => status.allowed = FALSE
         /\ Asked /\ reply.restored = seen.restored => reply.usage # "allowed"
    /\ Asked /\ reply.usage = "denied" /\ reply.restored = status.restored
         => status.allowed = FALSE

-----------------------------------------------------------------------------
(* The credits. *)

Sound(b) ==
    /\ b.available \in Nat /\ b.observed \in Nat /\ b.observed <= clock
    /\ IsFiniteSet(b.grants) /\ Cardinality(b.grants) <= GrantLimit
    /\ \A g \in b.grants : g.id \in Nat /\ g.id <= seen.granted /\ g.granted \in 0..clock
    /\ \A i \in 1..seen.granted : credits[i].granted <= b.observed
    /\ Len(credits) = seen.granted => Cardinality(Available) <= b.available

\* A reply lists credits that have been granted, and counts them.
Listed ==
    /\ IsFiniteSet(reply.credits.rows)
    /\ \A row \in reply.credits.rows :
          /\ row.credit.id \in 1..reply.granted
          /\ row.credit.granted = credits[row.credit.id].granted

CreditsInOrder ==
    /\ baseline # None => Sound(baseline)
    /\ Asked /\ reply.credits.kind = "summary" =>
         /\ reply.granted = Len(credits) => Cardinality(Available) <= reply.credits.count
         /\ baseline # None /\ reply.granted = seen.granted
               => reply.credits.count <= baseline.available
         /\ reply.credits.rows # None => Listed
    /\ \A e \in ids : e[1] = "reset_credit_granted" => \A i \in e[4] : i \in 1..seen.granted

\* What is kept has nothing of a reply that is not in it.
KeptIsWhole ==
    /\ snapshot # None =>
         /\ \A w \in DOMAIN snapshot.windows : snapshot.windows[w].used # None
         /\ (snapshot.available # None) <=> (snapshot.creditStatus = "known")
         /\ snapshot.details # None => snapshot.creditStatus = "known"
         /\ snapshot.usageAllowed \in BOOLEAN
    /\ baseline # None => baseline.observed <= snapshot.observed

IInv == Types /\ WindowsInOrder /\ UsageInOrder /\ CreditsInOrder /\ KeptIsWhole

-----------------------------------------------------------------------------
(* The newest grants. *)

\* Every nonempty set of natural numbers has a least element: the induction the
\* lemmas below use.
LEMMA LeastNatural ==
    ASSUME NEW T, T \subseteq Nat, T # {}
    PROVE  \E x \in T : \A y \in T : x <= y
<1>1. IsWellFoundedOn(OpToRel(<, Nat), Nat)
  BY NatLessThanWellFounded
<1>2. PICK x \in T : \A y \in T : ~ (<<y, x>> \in OpToRel(<, Nat))
  BY <1>1, WFMin
<1>3. \A y \in T : ~ (y < x)
  BY <1>2 DEF OpToRel
<1> QED  BY <1>3

\* A set of grants has a newest one.
LEMMA NewestGrant ==
    ASSUME NEW bound \in Nat, NEW G, G # {}, \A g \in G : g.granted \in 0..bound
    PROVE  \E m \in G : \A g \in G : m.granted >= g.granted
<1> DEFINE T == {bound - g.granted : g \in G}
<1>1. T \subseteq Nat /\ T # {}
  OBVIOUS
<1>2. PICK x \in T : \A y \in T : x <= y
  BY <1>1, LeastNatural
<1>3. PICK m \in G : x = bound - m.granted
  BY <1>2
<1>4. ASSUME NEW g \in G PROVE m.granted >= g.granted
  <2>1. x <= bound - g.granted
    BY <1>2
  <2>2. m.granted \in 0..bound /\ g.granted \in 0..bound
    OBVIOUS
  <2> QED  BY <1>3, <2>1, <2>2
<1> QED  BY <1>4

\* The newest n of them, for every n there are that many.
Newest(G, kept) == \A k \in kept, g \in G \ kept : k.granted >= g.granted

LEMMA NewestExist ==
    ASSUME NEW bound \in Nat, NEW G, IsFiniteSet(G), \A g \in G : g.granted \in 0..bound,
           NEW n \in Nat, n <= Cardinality(G)
    PROVE  \E kept \in SUBSET G : Cardinality(kept) = n /\ Newest(G, kept)
<1> DEFINE Found(k) == \E kept \in SUBSET G : Cardinality(kept) = k /\ Newest(G, kept)
           T == {k \in 0..n : ~Found(k)}
<1> SUFFICES ASSUME T # {} PROVE FALSE
  <2>1. n \in 0..n
    OBVIOUS
  <2> QED  BY <2>1
<1>1. PICK x \in T : \A y \in T : x <= y
  <2>1. T \subseteq Nat
    OBVIOUS
  <2> HIDE DEF T
  <2> QED  BY <2>1, LeastNatural
<1>2. Found(0)
  <2>1. {} \in SUBSET G /\ Cardinality({}) = 0 /\ Newest(G, {})
    BY FS_EmptySet DEF Newest
  <2> QED  BY <2>1
<1>3. x \in 1..n /\ x - 1 \in 0..n /\ x - 1 \notin T
  <2>1. x \in 0..n /\ x # 0
    BY <1>2
  <2>2. x - 1 \in 0..n /\ ~(x <= x - 1)
    BY <2>1
  <2> HIDE DEF T
  <2> QED  BY <1>1, <2>1, <2>2
<1>4. PICK old \in SUBSET G : Cardinality(old) = x - 1 /\ Newest(G, old)
  BY <1>3
<1> HIDE DEF T
<1>5. IsFiniteSet(old) /\ Cardinality(G) \in Nat
  BY FS_Subset, FS_CardinalityType
<1>6. G \ old # {}
  <2>1. old # G
    BY <1>3, <1>4, <1>5
  <2> QED  BY <2>1
<1>7. PICK m \in G \ old : \A g \in G \ old : m.granted >= g.granted
  BY <1>6, NewestGrant
<1> DEFINE kept == old \cup {m}
<1>8. Cardinality(kept) = x
  <2>1. Cardinality(kept) = Cardinality(old) + 1
    BY <1>5, <1>7, FS_AddElement
  <2> QED  BY <1>3, <1>4, <2>1
<1>9. kept \in SUBSET G /\ Newest(G, kept)
  BY <1>4, <1>7 DEF Newest
<1>10. Found(x)
  BY <1>8, <1>9
<1> QED  BY <1>10 DEF T

\* _credit_baseline keeps at most GrantLimit of the grants.
LEMMA TrimmedKeeps ==
    ASSUME NEW bound \in Nat, NEW G, IsFiniteSet(G), \A g \in G : g.granted \in 0..bound
    PROVE  /\ Trimmed(G) \subseteq G /\ IsFiniteSet(Trimmed(G))
           /\ Cardinality(Trimmed(G)) <= GrantLimit
<1>1. Cardinality(G) \in Nat /\ GrantLimit \in Nat
  BY ScalesAssumption, FS_CardinalityType
<1>2. CASE Cardinality(G) <= GrantLimit
  BY <1>2 DEF Trimmed
<1>3. CASE ~(Cardinality(G) <= GrantLimit)
  <2> DEFINE Good(kept) == /\ Cardinality(kept) = GrantLimit
                           /\ \A k \in kept, g \in G \ kept : k.granted >= g.granted
  <2>1. \E kept \in SUBSET G : Good(kept)
    <3>1. \E kept \in SUBSET G : Cardinality(kept) = GrantLimit /\ Newest(G, kept)
      BY <1>1, <1>3, NewestExist
    <3> QED  BY <3>1 DEF Newest
  <2>2. Trimmed(G) = CHOOSE kept \in SUBSET G : Good(kept)
    BY <1>3 DEF Trimmed
  <2> HIDE DEF Good
  <2>3. Trimmed(G) \in SUBSET G /\ Good(Trimmed(G))
    BY <2>1, <2>2
  <2> QED  BY <1>1, <2>3, FS_Subset DEF Good
<1> QED  BY <1>2, <1>3
-----------------------------------------------------------------------------
(* The events of a reading. *)

\* The kind of an event is its first element, whatever its evidence.
LEMMA KindOfOne == ASSUME NEW kind, NEW a PROVE Changed(kind, <<a>>)[1] = kind
BY DEF Changed
LEMMA KindOfTwo == ASSUME NEW kind, NEW a, NEW b PROVE Changed(kind, <<a, b>>)[1] = kind
BY DEF Changed
LEMMA KindOfThree ==
    ASSUME NEW kind, NEW a, NEW b, NEW c
    PROVE  Changed(kind, <<a, b, c>>)[1] = kind /\ Changed(kind, <<a, b, c>>)[4] = c
BY DEF Changed
LEMMA KindOfFive ==
    ASSUME NEW kind, NEW a, NEW b, NEW c, NEW d, NEW e
    PROVE  Changed(kind, <<a, b, c, d, e>>)[1] = kind
BY DEF Changed

\* What each kind of event shows of the two readings.
LEMMA EventEvidence ==
    ASSUME NEW old, NEW new, NEW base, NEW now, NEW confirmed,
           NEW e \in AnalyzeChanges(old, new, base, now, confirmed) \cup CreditExpiryEvents(new, now)
    PROVE  /\ e[1] \in {"window_reset", "window_changed_early"} =>
                 old # None /\ \E w \in Compared(old, new) :
                                  ResetEvidence(old.windows[w], new.windows[w])
           /\ e[1] = "usage_restored_backend" => old # None /\ UsageEvents(old, new) # {}
           /\ e[1] = "reset_credit_granted" =>
                 CreditEvents(new, base) # {} /\ e[4] = Fresh(new, base)
<1>1. CASE e \in CreditExpiryEvents(new, now)
  <2>1. PICK c \in DetailSet(new) : e = Changed("credit_expiring", <<c.id, c.expires>>)
    BY <1>1 DEF CreditExpiryEvents
  <2>2. e[1] = "credit_expiring"
    BY <2>1, KindOfTwo
  <2> QED  BY <2>2
<1>2. CASE e \notin CreditExpiryEvents(new, now)
  <2>1. old # None /\ e \in WindowEvents(old, new, now, confirmed) \cup LimitEvents(old, new)
                             \cup UsageEvents(old, new) \cup CreditEvents(new, base)
    BY <1>2 DEF AnalyzeChanges
  <2>2. CASE e \in WindowEvents(old, new, now, confirmed)
    <3>1. PICK w \in Compared(old, new) :
             LET previous == old.windows[w]
                 current == new.windows[w]
                 evidence == <<w, previous.resets, current.resets, previous.used, current.used>>
             IN  e \in (IF ResetEvidence(previous, current)
                        THEN IF Expected(previous, now) THEN {Changed("window_reset", evidence)}
                             ELSE IF confirmed THEN {Changed("window_changed_early", evidence)}
                             ELSE {}
                        ELSE IF previous.duration # current.duration
                        THEN {Changed("window_duration_changed",
                                      <<w, current.duration, current.resets>>)}
                        ELSE {})
      BY <2>2 DEF WindowEvents
    <3>2. CASE ResetEvidence(old.windows[w], new.windows[w])
      <4>1. e[1] \in {"window_reset", "window_changed_early"}
        BY <3>1, <3>2, KindOfFive
      <4> QED  BY <2>1, <3>2, <4>1
    <3>3. CASE ~ResetEvidence(old.windows[w], new.windows[w])
      <4>1. e[1] = "window_duration_changed"
        BY <3>1, <3>3, KindOfThree
      <4> QED  BY <4>1
    <3> QED  BY <3>2, <3>3
  <2>3. CASE e \in LimitEvents(old, new)
    <3>1. e = Changed("backend_limit_status_changed", <<new.limit>>)
      BY <2>3 DEF LimitEvents
    <3>2. e[1] = "backend_limit_status_changed"
      BY <3>1, KindOfOne
    <3> QED  BY <3>2
  <2>4. CASE e \in UsageEvents(old, new)
    <3>1. e = Changed("usage_restored_backend", <<new.observed>>)
      BY <2>4 DEF UsageEvents
    <3>2. e[1] = "usage_restored_backend"
      BY <3>1, KindOfOne
    <3> QED  BY <2>1, <2>4, <3>2
  <2>5. CASE e \in CreditEvents(new, base)
    <3>1. e = Changed("reset_credit_granted", <<base.available, new.available, Fresh(new, base)>>)
      BY <2>5 DEF CreditEvents, GrantEvidence
    <3>2. e[1] = "reset_credit_granted" /\ e[4] = Fresh(new, base)
      BY <3>1, KindOfThree
    <3> QED  BY <2>5, <3>2
  <2> QED  BY <2>1, <2>2, <2>3, <2>4, <2>5
<1> QED  BY <1>1, <1>2

-----------------------------------------------------------------------------
(* The initial states. *)

LEMMA InitEstablishesIInv == ObserverInit => IInv
<1> SUFFICES ASSUME ObserverInit PROVE IInv
  OBVIOUS
<1>1. MaxTime \in Nat /\ MaxUsed \in Nat /\ Length \in Nat /\ MaxTurns \in Nat /\ MaxCredits \in Nat
  BY ObserverAssumption
<1>2. window \in WindowType /\ window.epoch = 0 /\ window.plans = 0
  BY <1>1 DEF ObserverInit, WindowType, Resets
<1>3. /\ credits = << >> /\ credits \in Seq(CreditType) /\ Len(credits) = 0
      /\ 1..Len(credits) = {}
  BY DEF ObserverInit
<1>4. status \in StatusType /\ status.restored = 0
  BY DEF ObserverInit, StatusType
<1>5. ServerTypes
  BY <1>1, <1>2, <1>3, <1>4 DEF ServerTypes, ObserverInit, Time
<1>6. ~Asked /\ CheckTypes
  BY DEF ObserverInit, CheckTypes, Asked, SeenType
<1>7. Counts
  BY <1>2, <1>3, <1>4, <1>6 DEF ObserverInit, Counts, Between, Present
<1>8. snapshot = None /\ baseline = None /\ ids = {}
  BY DEF ObserverInit
<1> QED
  BY <1>5, <1>6, <1>7, <1>8
     DEF IInv, Types, WindowsInOrder, UsageInOrder, Denied, CreditsInOrder, KeptIsWhole
-----------------------------------------------------------------------------
(* The steps of the server. *)

\* What every step of the server does to what has been read.
Moves ==
    /\ clock <= clock' /\ Between(Present, Present')
    /\ \A x \in ReadingType : Later(x, window) => Later(x, window')
    /\ status.allowed = FALSE /\ status'.restored = status.restored => status'.allowed = FALSE
    /\ Len(credits') = Len(credits) => Cardinality(Available') <= Cardinality(Available)
    /\ \A i \in 1..Len(credits) : credits'[i].granted = credits[i].granted

\* What a credit of the server is.
LEMMA CreditFields ==
    ASSUME ServerTypes
    PROVE  /\ DOMAIN credits = 1..Len(credits) /\ Len(credits) \in Nat
           /\ \A i \in 1..Len(credits) :
                 /\ credits[i] \in CreditType /\ credits[i].id = i
                 /\ credits[i].granted \in Nat /\ credits[i].granted <= clock
                 /\ credits[i].expires \in Nat
<1>1. credits \in Seq(CreditType) /\ MaxTime \in Nat /\ Life \in Nat
  BY ObserverAssumption DEF ServerTypes
<1>2. ASSUME NEW c \in CreditType PROVE c.granted \in Nat /\ c.expires \in Nat
  BY <1>1 DEF CreditType, Time
<1>3. \A i \in 1..Len(credits) : credits[i] \in CreditType
  BY <1>1
<1> QED  BY <1>1, <1>2, <1>3 DEF ServerTypes

\* The credits that are left are finitely many.
LEMMA AvailableFinite ==
    ASSUME ServerTypes
    PROVE  IsFiniteSet(Available) /\ Cardinality(Available) \in Nat /\ Available \subseteq 1..Len(credits)
<1>1. credits \in Seq(CreditType) /\ DOMAIN credits = 1..Len(credits) /\ Len(credits) \in Nat
  BY DEF ServerTypes
<1>2. Available \subseteq 1..Len(credits)
  BY <1>1 DEF Available
<1>3. IsFiniteSet(1..Len(credits))
  BY <1>1, FS_Interval
<1> QED  BY <1>2, <1>3, FS_Subset, FS_CardinalityType

\* Fewer are left when none is added and none comes back.
LEMMA FewerAvailable ==
    ASSUME ServerTypes, Available' \subseteq Available
    PROVE  Cardinality(Available') <= Cardinality(Available)
BY AvailableFinite, FS_Subset

LEMMA PresentCounts ==
    ASSUME ServerTypes
    PROVE  /\ Present.epoch \in Nat /\ Present.plans \in Nat
           /\ Present.granted \in Nat /\ Present.restored \in Nat
BY CreditFields DEF ServerTypes, Present, WindowType, StatusType

LEMMA TickMoves == ASSUME Types, Tick PROVE ServerTypes' /\ Moves
<1>1. /\ clock' = clock + 1 /\ clock \in Nat /\ clock' \in Time
      /\ UNCHANGED <<topic, window, credits, status>>
  BY ObserverAssumption DEF Tick, Types, ServerTypes, Time
<1>2. /\ DOMAIN credits = 1..Len(credits)
      /\ \A i \in 1..Len(credits) :
            /\ credits[i].id = i /\ credits[i].granted \in Nat
            /\ credits[i].granted <= clock /\ credits[i].expires \in Nat
  BY CreditFields DEF Types
<1>3. ServerTypes'
  <2>1. \A i \in 1..Len(credits') : credits'[i].id = i /\ credits'[i].granted <= clock'
    BY <1>1, <1>2
  <2> QED  BY <1>1, <2>1 DEF Types, ServerTypes
<1>4. Cardinality(Available') <= Cardinality(Available)
  <2>1. Available' \subseteq Available
    BY <1>1, <1>2 DEF Available
  <2> QED  BY <2>1, FewerAvailable DEF Types
<1>5. Between(Present, Present')
  <2>1. Present' = Present
    BY <1>1 DEF Present
  <2> QED  BY <2>1, PresentCounts DEF Types, Between
<1>6. \A x \in ReadingType : Later(x, window) => Later(x, window')
  BY <1>1
<1>7. /\ clock <= clock'
      /\ status.allowed = FALSE /\ status'.restored = status.restored => status'.allowed = FALSE
      /\ \A i \in 1..Len(credits) : credits'[i].granted = credits[i].granted
  BY <1>1
<1> QED  BY <1>3, <1>4, <1>5, <1>6, <1>7 DEF Moves

\* Steps that change only the window.
LEMMA WindowMoves ==
    ASSUME Types, UNCHANGED <<topic, clock, credits, status>>,
           window' \in WindowType, window'.epoch + window'.plans <= MaxTurns,
           window.epoch <= window'.epoch, window.plans <= window'.plans,
           window'.epoch = window.epoch /\ window'.plans = window.plans => window.used <= window'.used,
           window'.plans = window.plans => window'.duration = window.duration,
           window'.plans # window.plans =>
               window'.plans = window.plans + 1 /\ window'.duration # window.duration
    PROVE  ServerTypes' /\ Moves
<1>1. ServerTypes'
  BY DEF Types, ServerTypes
<1>2. Cardinality(Available') <= Cardinality(Available)
  <2>1. Available' = Available
    BY DEF Available
  <2> QED  BY <2>1, FewerAvailable DEF Types
<1>3. Between(Present, Present')
  <2>1. Present'.granted = Present.granted /\ Present'.restored = Present.restored
        /\ Present.granted \in Nat /\ Present.restored \in Nat
    BY DEF Types, ServerTypes, Present, StatusType
  <2>2. Present.epoch <= Present'.epoch /\ Present.plans <= Present'.plans
    BY DEF Present
  <2> QED  BY <2>1, <2>2 DEF Between
<1>4. ASSUME NEW x \in ReadingType, Later(x, window)
      PROVE  Later(x, window')
  <2>1. /\ window.epoch \in Nat /\ window.plans \in Nat /\ window.used \in Int /\ MaxUsed \in Nat
        /\ window'.epoch \in Nat /\ window'.plans \in Nat /\ window'.used \in Int
        /\ window.duration \in {1, 2} /\ window'.duration \in {1, 2}
    BY ObserverAssumption DEF Types, ServerTypes, WindowType
  <2>2. x.epoch \in Nat /\ x.plans \in Nat /\ x.used \in Int /\ x.duration \in {1, 2}
    BY <2>1 DEF ReadingType
  <2> QED  BY <1>4, <2>1, <2>2 DEF Later
<1>5. clock <= clock'
  BY ObserverAssumption DEF Types, ServerTypes, Time
<1>6. /\ status.allowed = FALSE /\ status'.restored = status.restored => status'.allowed = FALSE
      /\ \A i \in 1..Len(credits) : credits'[i].granted = credits[i].granted
  OBVIOUS
<1> QED  BY <1>1, <1>2, <1>3, <1>4, <1>5, <1>6 DEF Moves

LEMMA UseMoves == ASSUME Types, Use PROVE ServerTypes' /\ Moves
<1>1. /\ window \in WindowType /\ window.used < MaxUsed /\ MaxUsed \in Nat
      /\ window' = [window EXCEPT !.used = @ + 1]
  BY ObserverAssumption DEF Use, Types, ServerTypes
<1>2. /\ window'.used = window.used + 1 /\ window'.resets = window.resets
      /\ window'.duration = window.duration /\ window'.epoch = window.epoch
      /\ window'.plans = window.plans
  BY <1>1 DEF WindowType
<1>3. window' \in WindowType
  BY <1>1 DEF WindowType
<1> QED  BY <1>1, <1>2, <1>3, WindowMoves DEF Use, Types, ServerTypes, WindowType

LEMMA WindowResetsMoves == ASSUME Types, WindowResets PROVE ServerTypes' /\ Moves
<1>1. /\ window \in WindowType /\ MaxUsed \in Nat /\ Length \in Nat /\ MaxTime \in Nat
      /\ window.epoch + window.plans < MaxTurns /\ MaxTurns \in Nat /\ clock \in Time
      /\ window' = [window EXCEPT !.used = 0, !.resets = clock + Length, !.epoch = @ + 1]
  BY ObserverAssumption DEF WindowResets, Turns, Types, ServerTypes
<1>2. /\ window'.used = 0 /\ window'.resets = clock + Length
      /\ window'.duration = window.duration /\ window'.epoch = window.epoch + 1
      /\ window'.plans = window.plans
  BY <1>1 DEF WindowType
<1>3. window' \in WindowType
  <2>1. clock + Length \in Resets
    BY <1>1 DEF Resets, Time
  <2> DEFINE resets == clock + Length
  <2>2. /\ window' = [window EXCEPT !.used = 0, !.resets = resets, !.epoch = @ + 1]
        /\ resets \in Resets /\ 0 \in 0..MaxUsed /\ window.epoch + 1 \in Nat
    BY <1>1, <2>1 DEF WindowType
  <2> HIDE DEF resets
  <2> QED  BY <1>1, <2>2 DEF WindowType
<1>4. window'.epoch + window'.plans <= MaxTurns
  BY <1>1, <1>2 DEF WindowType
<1> QED  BY <1>1, <1>2, <1>3, <1>4, WindowMoves DEF WindowResets, WindowType

LEMMA ResetMovesMoves == ASSUME Types, ResetMoves PROVE ServerTypes' /\ Moves
<1>1. /\ window \in WindowType /\ Length \in Nat /\ MaxTime \in Nat /\ MaxUsed \in Nat
      /\ window.resets <= clock + Length /\ clock \in Time
      /\ window.epoch + window.plans <= MaxTurns
      /\ window' = [window EXCEPT !.resets = @ + 1]
  BY ObserverAssumption DEF ResetMoves, Types, ServerTypes
<1>2. /\ window'.used = window.used /\ window'.resets = window.resets + 1
      /\ window'.duration = window.duration /\ window'.epoch = window.epoch
      /\ window'.plans = window.plans
  BY <1>1 DEF WindowType
<1>3. window' \in WindowType
  <2>1. window.resets + 1 \in Resets
    BY <1>1 DEF WindowType, Resets, Time
  <2> QED  BY <1>1, <2>1 DEF WindowType
<1> QED  BY <1>1, <1>2, <1>3, WindowMoves DEF ResetMoves, WindowType

LEMMA PlanChangesMoves == ASSUME Types, PlanChanges PROVE ServerTypes' /\ Moves
<1>1. PICK used \in 0..MaxUsed :
        window' = [window EXCEPT !.duration = 3 - @, !.used = used, !.resets = clock + Length,
                                 !.plans = @ + 1]
  BY DEF PlanChanges
<1>2. /\ window \in WindowType /\ MaxUsed \in Nat /\ Length \in Nat /\ MaxTime \in Nat
      /\ window.epoch + window.plans < MaxTurns /\ MaxTurns \in Nat /\ clock \in Time
  BY ObserverAssumption DEF PlanChanges, Turns, Types, ServerTypes
<1>3. /\ window'.used = used /\ window'.resets = clock + Length
      /\ window'.duration = 3 - window.duration /\ window'.epoch = window.epoch
      /\ window'.plans = window.plans + 1
  BY <1>1, <1>2 DEF WindowType
<1>4. 3 - window.duration \in {1, 2} /\ 3 - window.duration # window.duration
  BY <1>2 DEF WindowType
<1>5. window' \in WindowType
  <2>1. clock + Length \in Resets
    BY <1>2 DEF Resets, Time
  <2> DEFINE resets   == clock + Length
             duration == 3 - window.duration
  <2>2. /\ window' = [window EXCEPT !.duration = duration, !.used = used, !.resets = resets,
                                   !.plans = @ + 1]
        /\ resets \in Resets /\ duration \in {1, 2} /\ window.plans + 1 \in Nat
    BY <1>1, <1>2, <1>4, <2>1 DEF WindowType
  <2> HIDE DEF resets, duration
  <2> QED  BY <1>2, <2>2 DEF WindowType
<1>6. window'.epoch + window'.plans <= MaxTurns
  BY <1>2, <1>3 DEF WindowType
<1>7. window.plans # window.plans + 1
  BY <1>2 DEF WindowType
<1> QED  BY <1>2, <1>3, <1>4, <1>5, <1>6, <1>7, WindowMoves DEF PlanChanges, WindowType
\* Steps that change only the credits.
LEMMA CreditsMove ==
    ASSUME Types, UNCHANGED <<topic, clock, window, status>>, ServerTypes',
           Len(credits) <= Len(credits'),
           Len(credits') = Len(credits) => Available' \subseteq Available,
           \A i \in 1..Len(credits) : credits'[i].granted = credits[i].granted
    PROVE  Moves
<1>1. Len(credits') = Len(credits) => Cardinality(Available') <= Cardinality(Available)
  BY FewerAvailable DEF Types
<1>2. Between(Present, Present')
  <2>1. /\ Present'.epoch = Present.epoch /\ Present'.plans = Present.plans
        /\ Present'.restored = Present.restored /\ Present.granted <= Present'.granted
    BY DEF Present
  <2> QED  BY <2>1, PresentCounts DEF Types, Between
<1>3. clock <= clock'
  BY ObserverAssumption DEF Types, ServerTypes, Time
<1>4. /\ \A x \in ReadingType : Later(x, window) => Later(x, window')
      /\ status.allowed = FALSE /\ status'.restored = status.restored => status'.allowed = FALSE
  OBVIOUS
<1> QED  BY <1>1, <1>2, <1>3, <1>4 DEF Moves

LEMMA GrantMoves == ASSUME Types, Grant PROVE ServerTypes' /\ Moves
<1> DEFINE n == Len(credits)
           new == [id |-> n + 1, status |-> "available", granted |-> clock, expires |-> clock + Life]
<1>1. /\ credits \in Seq(CreditType) /\ n \in Nat /\ n < MaxCredits /\ MaxCredits \in Nat
      /\ clock \in Time /\ clock \in Nat /\ MaxTime \in Nat /\ Life \in Nat
      /\ credits' = Append(credits, new)
      /\ UNCHANGED <<topic, clock, window, status>>
  BY ObserverAssumption DEF Types, ServerTypes, Grant, Time
<1>2. new \in CreditType
  <2>1. n + 1 \in CreditIds /\ clock + Life \in 0..(MaxTime + Life)
    BY <1>1 DEF CreditIds, Time
  <2> QED  BY <1>1, <2>1 DEF CreditType
<1>3. new.id = n + 1 /\ new.granted = clock
  OBVIOUS
<1> HIDE DEF new
<1>4. /\ credits' \in Seq(CreditType) /\ Len(credits') = n + 1
      /\ credits'[n + 1] = new /\ \A i \in 1..n : credits'[i] = credits[i]
  BY <1>1, <1>2
<1> HIDE DEF n
<1>5. ServerTypes'
  <2>1. ASSUME NEW i \in 1..(n + 1) PROVE credits'[i].id = i /\ credits'[i].granted <= clock'
    <3>1. CASE i = n + 1
      BY <1>1, <1>3, <1>4, <3>1
    <3>2. CASE i # n + 1
      <4>1. i \in 1..n
        BY <1>1, <3>2
      <4> QED  BY <1>1, <1>4, <4>1 DEF Types, ServerTypes, n
    <3> QED  BY <3>1, <3>2
  <2>2. Len(credits') <= MaxCredits
    BY <1>1, <1>4
  <2> QED  BY <1>1, <1>4, <2>1, <2>2 DEF Types, ServerTypes
<1>6. Len(credits) <= Len(credits') /\ Len(credits') # Len(credits)
  BY <1>1, <1>4 DEF n
<1>7. \A i \in 1..Len(credits) : credits'[i].granted = credits[i].granted
  BY <1>4 DEF n
<1> QED  BY <1>1, <1>5, <1>6, <1>7, CreditsMove

LEMMA RedeemMoves == ASSUME Types, Redeem PROVE ServerTypes' /\ Moves
<1>1. PICK i \in Available : credits' = [credits EXCEPT ![i].status = "redeemed"]
  BY DEF Redeem
<1>2. /\ UNCHANGED <<topic, clock, window, status>>
      /\ credits \in Seq(CreditType) /\ i \in 1..Len(credits) /\ DOMAIN credits = 1..Len(credits)
      /\ credits[i] \in CreditType
  BY AvailableFinite, CreditFields DEF Types, Redeem, ServerTypes
<1> DEFINE new == [credits[i] EXCEPT !.status = "redeemed"]
<1>3. /\ new \in CreditType /\ new.id = credits[i].id /\ new.granted = credits[i].granted
      /\ new.status = "redeemed"
  BY <1>2 DEF CreditType
<1>4. credits' = [credits EXCEPT ![i] = new]
  BY <1>1
<1> HIDE DEF new
<1>5. /\ credits' \in Seq(CreditType) /\ Len(credits') = Len(credits)
      /\ DOMAIN credits' = 1..Len(credits) /\ credits'[i] = new
      /\ \A j \in 1..Len(credits) : j # i => credits'[j] = credits[j]
  BY <1>2, <1>3, <1>4
<1>6. \A j \in 1..Len(credits) :
         credits'[j].id = credits[j].id /\ credits'[j].granted = credits[j].granted
  BY <1>3, <1>5
<1>7. ServerTypes'
  BY <1>2, <1>5, <1>6 DEF Types, ServerTypes
<1>8. Available' \subseteq Available
  <2>1. ASSUME NEW j \in Available' PROVE j \in Available
    <3>1. j \in 1..Len(credits) /\ credits'[j].status = "available" /\ credits'[j].expires > clock
      BY <1>2, <1>5, <2>1 DEF Available
    <3>2. j # i
      BY <1>3, <1>5, <3>1
    <3> QED  BY <1>2, <1>5, <3>1, <3>2 DEF Available
  <2> QED  BY <2>1
<1>9. Len(credits) <= Len(credits')
  BY <1>5, CreditFields DEF Types
<1> QED  BY <1>2, <1>6, <1>7, <1>8, <1>9, CreditsMove

LEMMA StatusMoves == ASSUME Types, StatusChanges PROVE ServerTypes' /\ Moves
<1>1. /\ UNCHANGED <<topic, clock, window, credits>> /\ status \in StatusType
      /\ status.restored \in Nat
  BY DEF Types, StatusChanges, ServerTypes, StatusType
<1>2. /\ status' \in StatusType /\ status.restored <= status'.restored
      /\ status.allowed = FALSE /\ status'.restored = status.restored => status'.allowed = FALSE
  <2>1. CASE status' = [status EXCEPT !.limit = IF @ = "none" THEN "reached" ELSE "none"]
    BY <1>1, <2>1 DEF StatusType
  <2>2. CASE status' = [status EXCEPT !.allowed = ~@,
                                      !.restored = IF status.allowed THEN @ ELSE @ + 1]
    <3>1. CASE status.allowed = TRUE
      <4>1. status' = [status EXCEPT !.allowed = FALSE, !.restored = status.restored]
        BY <2>2, <3>1
      <4>2. status'.allowed = FALSE /\ status'.restored = status.restored
        BY <1>1, <4>1 DEF StatusType
      <4>3. status' \in StatusType
        BY <1>1, <4>1 DEF StatusType
      <4> QED  BY <1>1, <4>2, <4>3
    <3>2. CASE status.allowed = FALSE
      <4>1. status' = [status EXCEPT !.allowed = TRUE, !.restored = status.restored + 1]
        BY <2>2, <3>2
      <4>2. status'.restored = status.restored + 1
        BY <1>1, <4>1 DEF StatusType
      <4>3. status' \in StatusType
        <5> DEFINE more == status.restored + 1
        <5>1. status' = [status EXCEPT !.allowed = TRUE, !.restored = more] /\ more \in Nat
          BY <1>1, <4>1
        <5> HIDE DEF more
        <5> QED  BY <1>1, <5>1 DEF StatusType
      <4> QED  BY <1>1, <4>2, <4>3
    <3> QED  BY <1>1, <3>1, <3>2 DEF StatusType
  <2> QED  BY <2>1, <2>2 DEF StatusChanges
<1>3. ServerTypes'
  BY <1>1, <1>2 DEF Types, ServerTypes
<1>4. Between(Present, Present')
  <2>1. /\ Present'.epoch = Present.epoch /\ Present'.plans = Present.plans
        /\ Present'.granted = Present.granted /\ Present.restored <= Present'.restored
    BY <1>1, <1>2 DEF Present
  <2> QED  BY <2>1, PresentCounts DEF Types, Between
<1>5. Cardinality(Available') <= Cardinality(Available)
  <2>1. Available' = Available
    BY <1>1 DEF Available
  <2> QED  BY <2>1, FewerAvailable DEF Types
<1>6. clock <= clock'
  BY <1>1, ObserverAssumption DEF Types, ServerTypes, Time
<1>7. /\ \A x \in ReadingType : Later(x, window) => Later(x, window')
      /\ \A i \in 1..Len(credits) : credits'[i].granted = credits[i].granted
  BY <1>1
<1> QED  BY <1>2, <1>3, <1>4, <1>5, <1>6, <1>7 DEF Moves

\* A readable window of a reply, with the reply's counts, is a reading.
LEMMA ReadableReading ==
    ASSUME CheckTypes, Asked, NEW v \in Readable
    PROVE  /\ Reading(reply.windows[v], reply) \in ReadingType
           /\ reply.windows[v].used \in 0..MaxUsed /\ reply.windows[v].duration \in {1, 2}
<1>1. reply.windows \in WindowReadings /\ reply.epoch \in Nat /\ reply.plans \in Nat
  BY DEF CheckTypes, ReplyType
<1>2. v \in DOMAIN reply.windows /\ reply.windows[v].used # None
  BY DEF Readable
<1>3. reply.windows \in
         [primary : [used : (0..MaxUsed) \cup {None}, resets : Resets, duration : {1, 2}]]
  BY <1>1, <1>2 DEF WindowReadings
<1>4. v = "primary"
  BY <1>2, <1>3
<1>5. reply.windows[v].used \in 0..MaxUsed /\ reply.windows[v].duration \in {1, 2}
  BY <1>2, <1>3, <1>4
<1> QED  BY <1>1, <1>5 DEF Reading, ReadingType

\* What has been read stays in order with a server that moves on.
LEMMA MovesKeepIInv ==
    ASSUME IInv, ServerTypes', Moves, UNCHANGED checkVars PROVE IInv'
<1>1. /\ UNCHANGED <<phase, reply, snapshot, baseline, ids, seen>> /\ (Asked' <=> Asked)
      /\ Readable' = Readable /\ (Denied' <=> Denied)
  BY DEF checkVars, Asked, Readable, Denied
<1>2. Types'
  <2>1. CheckTypes'
    BY <1>1 DEF IInv, Types, CheckTypes
  <2>2. /\ Present'.epoch \in Nat /\ Present'.plans \in Nat
        /\ Present'.granted \in Nat /\ Present'.restored \in Nat
    BY CreditFields DEF ServerTypes, Present, WindowType, StatusType
  <2>3. ASSUME NEW c, c.epoch \in Nat, c.plans \in Nat, c.granted \in Nat, c.restored \in Nat,
               Between(c, Present)
        PROVE  Between(c, Present')
    <3>1. Between(Present, Present')
      BY DEF Moves
    <3>2. /\ Present.epoch \in Nat /\ Present.plans \in Nat
          /\ Present.granted \in Nat /\ Present.restored \in Nat
      BY PresentCounts DEF IInv, Types
    <3> HIDE DEF Present
    <3> QED  BY <2>2, <2>3, <3>1, <3>2 DEF Between
  <2>4. seen.epoch \in Nat /\ seen.plans \in Nat /\ seen.granted \in Nat /\ seen.restored \in Nat
    BY DEF IInv, Types, CheckTypes, SeenType
  <2>5. Asked => reply.epoch \in Nat /\ reply.plans \in Nat /\ reply.granted \in Nat
                 /\ reply.restored \in Nat
    BY DEF IInv, Types, CheckTypes, ReplyType
  <2>6. Counts'
    BY <1>1, <2>3, <2>4, <2>5 DEF IInv, Types, Counts
  <2> QED  BY <2>1, <2>6 DEF Types
<1>3. WindowsInOrder'
  <2>1. \A x \in ReadingType : Later(x, window) => Later(x, window')
    BY DEF Moves
  <2>2. ASSUME snapshot # None, NEW w \in DOMAIN snapshot.windows
        PROVE  Reading(snapshot.windows[w], seen) \in ReadingType
    BY <2>2 DEF IInv, Types, CheckTypes, SeenType, WindowsInOrder, Reading, ReadingType
  <2>3. ASSUME Asked, NEW v \in Readable
        PROVE  Reading(reply.windows[v], reply) \in ReadingType
    BY <2>3, ReadableReading DEF IInv, Types
  <2>4. ASSUME snapshot # None, NEW w \in DOMAIN snapshot.windows
        PROVE  Later(Reading(snapshot.windows[w], seen), window')
    BY <2>1, <2>2, <2>4 DEF IInv, WindowsInOrder
  <2>5. ASSUME Asked, NEW v \in Readable
        PROVE  Later(Reading(reply.windows[v], reply), window')
    BY <2>1, <2>3, <2>5 DEF IInv, WindowsInOrder
  <2> QED  BY <1>1, <2>4, <2>5 DEF IInv, WindowsInOrder
<1>4. UsageInOrder'
  <2>1. /\ seen.restored \in Nat /\ status.restored \in Nat /\ status'.restored \in Nat
        /\ seen.restored <= status.restored /\ status.restored <= status'.restored
        /\ status.allowed = FALSE /\ status'.restored = status.restored => status'.allowed = FALSE
    BY DEF IInv, Types, CheckTypes, SeenType, ServerTypes, StatusType, Counts, Between, Present, Moves
  <2>2. Asked => reply.restored \in Nat /\ reply.restored <= status.restored
    BY DEF IInv, Types, CheckTypes, ReplyType, Counts, Between, Present
  <2>3. Denied /\ status'.restored = seen.restored => status'.allowed = FALSE
    BY <2>1 DEF IInv, UsageInOrder
  <2>4. Asked /\ reply.usage = "denied" /\ reply.restored = status'.restored
           => status'.allowed = FALSE
    BY <2>1, <2>2 DEF IInv, UsageInOrder
  <2>5. Denied /\ Asked /\ reply.restored = seen.restored => reply.usage # "allowed"
    BY DEF IInv, UsageInOrder
  <2> QED  BY <1>1, <2>3, <2>4, <2>5 DEF UsageInOrder
<1>5. CreditsInOrder'
  <2>1. /\ seen.granted \in Nat /\ Len(credits) \in Nat /\ Len(credits') \in Nat
        /\ seen.granted <= Len(credits) /\ Len(credits) <= Len(credits')
        /\ Cardinality(Available) \in Nat
        /\ Len(credits') = Len(credits) => Cardinality(Available') <= Cardinality(Available)
        /\ \A i \in 1..Len(credits) : credits'[i].granted = credits[i].granted
    BY CreditFields, AvailableFinite
       DEF IInv, Types, CheckTypes, SeenType, ServerTypes, Counts, Between, Present, Moves
  <2>2. Cardinality(Available') \in Nat
    <3>1. credits' \in Seq(CreditType)
      BY DEF ServerTypes
    <3>2. Available' \subseteq 1..Len(credits') /\ Len(credits') \in Nat
      BY <3>1 DEF Available
    <3>3. IsFiniteSet(1..Len(credits'))
      BY <3>2, FS_Interval
    <3> DEFINE left == Available'
    <3>4. left \subseteq 1..Len(credits')
      BY <3>2
    <3> HIDE DEF left
    <3>5. Cardinality(left) \in Nat
      BY <3>3, <3>4, FS_Subset, FS_CardinalityType
    <3> QED  BY <3>5 DEF left
  <2>3. clock \in Nat /\ clock' \in Nat /\ clock <= clock'
    BY ObserverAssumption DEF IInv, Types, ServerTypes, Time, Moves
  <2>4. ASSUME baseline # None PROVE Sound(baseline)'
    <3>1. Sound(baseline)
      BY <2>4 DEF IInv, CreditsInOrder
    <3>2. baseline.observed <= clock'
      BY <2>3, <3>1 DEF Sound
    <3>3. \A g \in baseline.grants : g.granted \in 0..clock'
      BY <2>3, <3>1 DEF Sound
    <3>4. \A i \in 1..seen.granted : credits'[i].granted <= baseline.observed
      BY <2>1, <3>1 DEF Sound
    <3>5. Len(credits') = seen.granted => Cardinality(Available') <= baseline.available
      BY <2>1, <2>2, <3>1 DEF Sound
    <3> QED  BY <1>1, <3>1, <3>2, <3>3, <3>4, <3>5 DEF Sound
  <2>5. ASSUME Asked, reply.credits.kind = "summary"
        PROVE  /\ reply.granted = Len(credits') => Cardinality(Available') <= reply.credits.count
               /\ reply.credits.rows # None => Listed'
    <3>1. reply.granted \in Nat /\ reply.granted <= Len(credits) /\ reply.credits.count \in Nat
      BY <2>5 DEF IInv, Types, CheckTypes, ReplyType, CreditReading, Counts, Between, Present
    <3>2. /\ reply.granted = Len(credits) => Cardinality(Available) <= reply.credits.count
          /\ reply.credits.rows # None => Listed
      BY <2>5 DEF IInv, CreditsInOrder
    <3>3. reply.granted = Len(credits') => Cardinality(Available') <= reply.credits.count
      BY <2>1, <2>2, <3>1, <3>2
    <3>4. Listed => Listed'
      BY <1>1, <2>1, <3>1 DEF Listed
    <3> QED  BY <3>2, <3>3, <3>4
  <2> QED  BY <1>1, <2>4, <2>5 DEF IInv, CreditsInOrder
<1>6. KeptIsWhole'
  BY <1>1 DEF IInv, KeptIsWhole
<1> QED  BY <1>2, <1>3, <1>4, <1>5, <1>6 DEF IInv
-----------------------------------------------------------------------------
(* A reply says what the server's state is. *)

ReplyFits ==
    /\ reply' \in ReplyType
    /\ reply'.epoch = window.epoch /\ reply'.plans = window.plans
    /\ reply'.granted = Len(credits) /\ reply'.restored = status.restored
    /\ \A v \in Readable' : reply'.windows[v].used = window.used
                            /\ reply'.windows[v].duration = window.duration
    /\ reply'.usage = "allowed" => status.allowed = TRUE
    /\ reply'.usage = "denied" => status.allowed = FALSE
    /\ reply'.credits.kind = "summary" =>
          /\ reply'.credits.count = Cardinality(Available)
          /\ reply'.credits.rows # None => Listed'

\* The fields of a reply, by its parts.
LEMMA ReplyFields ==
    ASSUME ServerTypes,
           NEW ws \in WindowReadings, NEW limit \in {"none", "reached"},
           NEW usage \in {"absent", "null", "odd", "allowed", "denied"}, NEW cs \in CreditReading
    PROVE  /\ Reply(ws, limit, usage, cs) \in ReplyType
           /\ Reply(ws, limit, usage, cs).windows = ws
           /\ Reply(ws, limit, usage, cs).usage = usage
           /\ Reply(ws, limit, usage, cs).credits = cs
           /\ Reply(ws, limit, usage, cs).epoch = window.epoch
           /\ Reply(ws, limit, usage, cs).plans = window.plans
           /\ Reply(ws, limit, usage, cs).granted = Len(credits)
           /\ Reply(ws, limit, usage, cs).restored = status.restored
<1>1. /\ window.epoch \in Nat /\ window.plans \in Nat /\ Len(credits) \in Nat
      /\ status.restored \in Nat
  BY CreditFields DEF ServerTypes, WindowType, StatusType
<1> DEFINE n == Len(credits)
<1>2. Reply(ws, limit, usage, cs) =
        [windows |-> ws, limit |-> limit, usage |-> usage, credits |-> cs,
         epoch |-> window.epoch, plans |-> window.plans, granted |-> n,
         restored |-> status.restored]
  BY DEF Reply
<1>3. n \in Nat
  BY <1>1
<1>4. Reply(ws, limit, usage, cs).granted = Len(credits)
  BY <1>2
<1> HIDE DEF n
<1> QED  BY <1>1, <1>2, <1>3, <1>4 DEF ReplyType

LEMMA WindowReplyFields ==
    ASSUME ServerTypes, NEW r \in BOOLEAN
    PROVE  /\ WindowReply(r) \in WindowReadings
           /\ \A v \in DOMAIN WindowReply(r) : WindowReply(r)[v].used # None =>
                 /\ WindowReply(r)[v].used = window.used
                 /\ WindowReply(r)[v].duration = window.duration
<1>1. window.used \in 0..MaxUsed /\ window.resets \in Resets /\ window.duration \in {1, 2}
  BY DEF ServerTypes, WindowType
<1> DEFINE reading == [used |-> IF r THEN window.used ELSE None,
                       resets |-> window.resets, duration |-> window.duration]
           Kind == [used : (0..MaxUsed) \cup {None}, resets : Resets, duration : {1, 2}]
<1>2. reading \in Kind
  BY <1>1
<1>3. reading.used # None => reading.used = window.used
  OBVIOUS
<1>4. reading.duration = window.duration
  OBVIOUS
<1>5. WindowReply(r) = [primary |-> reading]
  BY DEF WindowReply
<1>6. WindowReadings = {<< >>} \cup [primary : Kind]
  BY DEF WindowReadings
<1> HIDE DEF reading, Kind
<1>7. WindowReply(r) \in WindowReadings
  BY <1>2, <1>5, <1>6
<1>8. \A v \in DOMAIN WindowReply(r) : WindowReply(r)[v] = reading
  BY <1>5
<1> QED  BY <1>3, <1>4, <1>7, <1>8

\* The image of a finite set is finite.
LEMMA ImageFinite ==
    ASSUME NEW S, IsFiniteSet(S), NEW f PROVE IsFiniteSet({f[x] : x \in S})
<1> DEFINE T == {f[x] : x \in S}
           onto == [x \in S |-> f[x]]
<1>1. onto \in Surjection(S, T)
  BY DEF Surjection
<1> HIDE DEF onto, T
<1>2. IsFiniteSet(T)
  BY <1>1, FS_Surjection
<1> QED  BY <1>2 DEF T

\* The credits of a reply: their number, and rows of the credits granted so far.
LEMMA CreditReplyFields ==
    ASSUME ServerTypes, NEW c \in CreditReplies
    PROVE  /\ c \in CreditReading
           /\ c.kind = "summary" => c.count = Cardinality(Available)
           /\ c.kind = "summary" /\ c.rows # None =>
                /\ IsFiniteSet(c.rows)
                /\ \A row \in c.rows : /\ row.credit.id \in 1..Len(credits)
                                       /\ row.credit.granted = credits[row.credit.id].granted
<1> DEFINE CreditRow == [id : CreditIds, status : {"available", "redeemed", "expired"},
                         granted : Time, expires : 0..(MaxTime + Life)]
           RowType == [credit : CreditRow, whole : BOOLEAN]
           Rows(whole) == {[credit |-> Row(credits[i]), whole |-> i \in whole] :
                               i \in DOMAIN credits}
<1>0. CreditReading = [kind : {"absent", "null", "odd", "summary"}, count : Nat,
                       rows : {None} \cup SUBSET RowType]
  BY DEF CreditReading
<1>1. Cardinality(Available) \in Nat /\ DOMAIN credits = 1..Len(credits)
  BY AvailableFinite, CreditFields
<1>2. CASE c \in {[kind |-> kind, count |-> 0, rows |-> None] : kind \in {"absent", "null", "odd"}}
  BY <1>0, <1>2
<1>3. CASE c = [kind |-> "summary", count |-> Cardinality(Available), rows |-> None]
  BY <1>0, <1>1, <1>3
<1>4. CASE \E whole \in {DOMAIN credits, DOMAIN credits \ {Len(credits)}} :
              c = [kind |-> "summary", count |-> Cardinality(Available), rows |-> Rows(whole)]
  <2>1. PICK whole : c = [kind |-> "summary", count |-> Cardinality(Available), rows |-> Rows(whole)]
    BY <1>4
  <2>2. ASSUME NEW i \in DOMAIN credits
        PROVE  /\ Row(credits[i]) \in CreditRow
               /\ Row(credits[i]).id = i /\ Row(credits[i]).granted = credits[i].granted
    <3>1. credits[i] \in CreditType /\ credits[i].id = i
      BY <1>1, CreditFields
    <3>2. PICK k : k = credits[i] /\ k \in CreditType /\ k.id = i
      BY <3>1
    <3>3. CASE k.expires > clock
      <4>1. Row(k) = k
        BY <3>3 DEF Row
      <4> QED  BY <3>2, <4>1 DEF CreditType
    <3>4. CASE ~(k.expires > clock)
      <4>1. Row(k) = [k EXCEPT !.status = "expired"]
        BY <3>4 DEF Row
      <4> QED  BY <3>2, <4>1 DEF CreditType
    <3> QED  BY <3>3, <3>4
  <2>3. Rows(whole) \in SUBSET RowType
    <3>1. ASSUME NEW row \in Rows(whole) PROVE row \in RowType
      <4>1. PICK i \in DOMAIN credits : row = [credit |-> Row(credits[i]), whole |-> i \in whole]
        BY <3>1
      <4>2. Row(credits[i]) \in CreditRow
        BY <2>2
      <4> HIDE DEF CreditRow
      <4>3. (i \in whole) \in BOOLEAN
        OBVIOUS
      <4> QED  BY <4>1, <4>2, <4>3
    <3> QED  BY <3>1
  <2>4. IsFiniteSet(Rows(whole))
    <3>1. IsFiniteSet(DOMAIN credits)
      BY <1>1, CreditFields, FS_Interval
    <3> DEFINE make == [i \in DOMAIN credits |-> [credit |-> Row(credits[i]), whole |-> i \in whole]]
    <3>2. Rows(whole) = {make[i] : i \in DOMAIN credits}
      OBVIOUS
    <3> HIDE DEF make, Rows
    <3> QED  BY <3>1, <3>2, ImageFinite
  <2>5. \A row \in Rows(whole) : /\ row.credit.id \in 1..Len(credits)
                                 /\ row.credit.granted = credits[row.credit.id].granted
    BY <1>1, <2>2
  <2> HIDE DEF Rows, RowType
  <2> QED  BY <1>0, <1>1, <2>1, <2>3, <2>4, <2>5
<1> QED  BY <1>2, <1>3, <1>4 DEF CreditReplies

LEMMA AskFits == ASSUME IInv, Ask PROVE ReplyFits
<1>1. /\ ServerTypes /\ topic \in {"window", "credits", "status"} /\ status \in StatusType
      /\ reply' \in Replies /\ UNCHANGED serverVars
  BY DEF IInv, Types, ServerTypes, Ask
<1>2. << >> \in WindowReadings /\ NoCredits \in CreditReading /\ NoCredits.kind # "summary"
  BY DEF WindowReadings, CreditReading, NoCredits
<1>3. CASE topic = "window"
  <2>1. PICK r \in BOOLEAN : reply' = Reply(WindowReply(r), "none", "absent", NoCredits)
    BY <1>1, <1>3 DEF Replies
  <2>2. /\ reply' \in ReplyType /\ reply'.windows = WindowReply(r) /\ reply'.usage = "absent"
        /\ reply'.credits = NoCredits
        /\ reply'.epoch = window.epoch /\ reply'.plans = window.plans
        /\ reply'.granted = Len(credits) /\ reply'.restored = status.restored
    BY <1>1, <1>2, <2>1, ReplyFields, WindowReplyFields
  <2>3. \A v \in Readable' : reply'.windows[v].used = window.used
                             /\ reply'.windows[v].duration = window.duration
    BY <1>1, <2>2, WindowReplyFields DEF Readable
  <2> QED  BY <1>2, <2>2, <2>3 DEF ReplyFits
<1>4. CASE topic = "credits"
  <2>1. PICK c \in CreditReplies : reply' = Reply(<< >>, "none", "absent", c)
    BY <1>1, <1>4 DEF Replies
  <2>2. /\ reply' \in ReplyType /\ reply'.windows = << >> /\ reply'.usage = "absent"
        /\ reply'.credits = c
        /\ reply'.epoch = window.epoch /\ reply'.plans = window.plans
        /\ reply'.granted = Len(credits) /\ reply'.restored = status.restored
    BY <1>1, <1>2, <2>1, ReplyFields, CreditReplyFields
  <2>3. c.kind = "summary" =>
          /\ c.count = Cardinality(Available)
          /\ c.rows # None => Listed'
    <3>1. credits' = credits
      BY <1>1 DEF serverVars
    <3> QED  BY <1>1, <2>2, <3>1, CreditReplyFields DEF Listed
  <2>4. Readable' = {}
    BY <2>2 DEF Readable
  <2> QED  BY <2>2, <2>3, <2>4 DEF ReplyFits
<1>5. CASE topic = "status"
  <2> DEFINE Usages == {"absent", "null", "odd", IF status.allowed THEN "allowed" ELSE "denied"}
  <2>1. PICK u \in Usages : reply' = Reply(<< >>, status.limit, u, NoCredits)
    BY <1>1, <1>5 DEF Replies
  <2>2. /\ u \in {"absent", "null", "odd", "allowed", "denied"}
        /\ u = "allowed" => status.allowed = TRUE
        /\ u = "denied" => status.allowed = FALSE
        /\ status.limit \in {"none", "reached"}
    BY <1>1 DEF StatusType
  <2>3. /\ reply' \in ReplyType /\ reply'.windows = << >> /\ reply'.usage = u
        /\ reply'.credits = NoCredits
        /\ reply'.epoch = window.epoch /\ reply'.plans = window.plans
        /\ reply'.granted = Len(credits) /\ reply'.restored = status.restored
    BY <1>1, <1>2, <2>1, <2>2, ReplyFields
  <2>4. Readable' = {}
    BY <2>3 DEF Readable
  <2> QED  BY <1>2, <2>2, <2>3, <2>4 DEF ReplyFits
<1> QED  BY <1>1, <1>3, <1>4, <1>5
LEMMA AskKeepsIInv == ASSUME IInv, Ask PROVE IInv'
<1>1. ReplyFits
  BY AskFits
<1>2. /\ UNCHANGED <<topic, clock, window, credits, status, snapshot, baseline, ids, seen>>
      /\ phase' \in {"asked", "askedAgain"} /\ Asked' /\ (Denied' <=> Denied)
      /\ Available' = Available /\ Present' = Present
  BY DEF Ask, serverVars, Asked, Denied, Available, Present
<1>3. Types'
  <2>1. ServerTypes'
    BY <1>2 DEF IInv, Types, ServerTypes
  <2>2. reply' # None
    BY <1>1, NoneAssumption DEF ReplyFits
  <2>3. CheckTypes'
    BY <1>1, <1>2, <2>2 DEF IInv, Types, CheckTypes, ReplyFits
  <2>4. Between(reply', Present)
    BY <1>1, PresentCounts DEF IInv, Types, ReplyFits, Between, Present
  <2>5. Between(seen, reply')
    BY <1>1 DEF IInv, Types, Counts, ReplyFits, Between, Present
  <2>6. Counts'
    BY <1>2, <2>4, <2>5 DEF IInv, Types, Counts
  <2> QED  BY <2>1, <2>3, <2>6 DEF Types
<1>4. WindowsInOrder'
  <2>1. ASSUME NEW v \in Readable'
        PROVE  /\ Reading(reply'.windows[v], reply').used = window.used
               /\ Reading(reply'.windows[v], reply').duration = window.duration
               /\ Reading(reply'.windows[v], reply').epoch = window.epoch
               /\ Reading(reply'.windows[v], reply').plans = window.plans
    BY <1>1, <2>1 DEF ReplyFits, Reading
  <2>2. ASSUME NEW x, NEW v \in Readable', Later(x, window)
        PROVE  Later(x, Reading(reply'.windows[v], reply'))
    BY <2>1, <2>2 DEF Later
  <2>3. Later(window, window)
    <3>1. /\ window.epoch \in Nat /\ window.plans \in Nat /\ window.used \in Int
          /\ MaxUsed \in Nat
      BY ObserverAssumption DEF IInv, Types, ServerTypes, WindowType
    <3> QED  BY <3>1 DEF Later
  <2>4. ASSUME NEW v \in Readable' PROVE Later(Reading(reply'.windows[v], reply'), window)
    BY <2>1, <2>3, <2>4 DEF Later
  <2>5. ASSUME snapshot # None, NEW w \in DOMAIN snapshot.windows, NEW v \in Readable'
        PROVE  Later(Reading(snapshot.windows[w], seen), Reading(reply'.windows[v], reply'))
    BY <2>2, <2>5 DEF IInv, WindowsInOrder
  <2> QED  BY <1>2, <2>4, <2>5 DEF IInv, WindowsInOrder
<1>5. UsageInOrder'
  BY <1>1, <1>2 DEF IInv, UsageInOrder, ReplyFits
<1>6. CreditsInOrder'
  <2>1. Cardinality(Available) \in Nat
    BY AvailableFinite DEF IInv, Types
  <2>2. ASSUME baseline # None PROVE Sound(baseline)'
    BY <1>2, <2>2 DEF IInv, CreditsInOrder, Sound
  <2>3. ASSUME reply'.credits.kind = "summary"
        PROVE  /\ Cardinality(Available) <= reply'.credits.count
               /\ baseline # None /\ reply'.granted = seen.granted
                     => reply'.credits.count <= baseline.available
               /\ reply'.credits.rows # None => Listed'
    BY <1>1, <2>1, <2>3 DEF IInv, CreditsInOrder, Sound, ReplyFits
  <2>4. \A e \in ids : e[1] = "reset_credit_granted" => \A i \in e[4] : i \in 1..seen.granted
    BY DEF IInv, CreditsInOrder
  <2> QED  BY <1>2, <2>2, <2>3, <2>4 DEF CreditsInOrder
<1>7. KeptIsWhole'
  BY <1>2 DEF IInv, KeptIsWhole
<1> QED  BY <1>3, <1>4, <1>5, <1>6, <1>7 DEF IInv

\* A check that ends without a reading keeps what was there.
LEMMA DropKeepsIInv ==
    ASSUME IInv, phase' \in {"idle", "sleep"}, reply' = None,
           UNCHANGED <<serverVars, snapshot, baseline, ids, seen>>
    PROVE  IInv'
<1>1. /\ UNCHANGED <<topic, clock, window, credits, status, snapshot, baseline, ids, seen>>
      /\ ~Asked' /\ (Denied' <=> Denied) /\ Available' = Available /\ Present' = Present
  BY DEF serverVars, Asked, Denied, Available, Present
<1>2. Types'
  <2>1. ServerTypes'
    BY <1>1 DEF IInv, Types, ServerTypes
  <2>2. CheckTypes'
    BY <1>1 DEF IInv, Types, CheckTypes
  <2>3. Counts'
    BY <1>1 DEF IInv, Types, Counts
  <2> QED  BY <2>1, <2>2, <2>3 DEF Types
<1>3. WindowsInOrder'
  BY <1>1 DEF IInv, WindowsInOrder
<1>4. UsageInOrder'
  BY <1>1 DEF IInv, UsageInOrder
<1>5. CreditsInOrder'
  <2>1. ASSUME baseline # None PROVE Sound(baseline)'
    BY <1>1, <2>1 DEF IInv, CreditsInOrder, Sound
  <2> QED  BY <1>1, <2>1 DEF IInv, CreditsInOrder
<1>6. KeptIsWhole'
  BY <1>1 DEF IInv, KeptIsWhole
<1> QED  BY <1>2, <1>3, <1>4, <1>5, <1>6 DEF IInv

LEMMA StutterKeepsIInv == ASSUME IInv, UNCHANGED observerVars PROVE IInv'
<1>1. /\ UNCHANGED <<topic, clock, window, credits, status>>
      /\ UNCHANGED <<phase, reply, snapshot, baseline, ids, seen>>
  BY DEF observerVars, serverVars, checkVars
<1>2. /\ (Asked' <=> Asked) /\ (Denied' <=> Denied) /\ Available' = Available
      /\ Present' = Present /\ Readable' = Readable
  BY <1>1 DEF Asked, Denied, Available, Present, Readable
<1>3. Types'
  BY <1>1, <1>2 DEF IInv, Types, ServerTypes, CheckTypes, Counts
<1>4. WindowsInOrder' /\ UsageInOrder' /\ KeptIsWhole'
  BY <1>1, <1>2 DEF IInv, WindowsInOrder, UsageInOrder, KeptIsWhole
<1>5. CreditsInOrder'
  <2>1. baseline # None => (Sound(baseline)' <=> Sound(baseline))
    BY <1>1, <1>2 DEF Sound
  <2>2. Listed' <=> Listed
    BY <1>1 DEF Listed
  <2> QED  BY <1>1, <1>2, <2>1, <2>2 DEF IInv, CreditsInOrder
<1> QED  BY <1>3, <1>4, <1>5 DEF IInv
-----------------------------------------------------------------------------
(* A reading that is recorded. *)

\* What normalize_snapshot makes of a reply.
ReadsReply(new, now) ==
    /\ new.observed = now /\ DOMAIN new.windows = Readable
    /\ \A v \in Readable : new.windows[v] = reply.windows[v]
    /\ new.usageStatus = "known" /\ new.usageAllowed = FALSE => reply.usage = "denied"
    /\ new.usageAllowed = TRUE <=> reply.usage = "allowed"
    /\ new.usageAllowed \in BOOLEAN
    /\ new.creditStatus = "known" <=> reply.credits.kind = "summary"
    /\ new.available # None <=> new.creditStatus = "known"
    /\ new.creditStatus = "known" => new.available = reply.credits.count
    /\ new.details = Details(reply)

LEMMA NormalFields ==
    ASSUME CheckTypes, Asked, NEW now, NEW new, new = Normalize(reply, now)
    PROVE  ReadsReply(new, now)
<1>1. /\ reply.usage \in {"absent", "null", "odd", "allowed", "denied"}
      /\ reply.credits.kind \in {"absent", "null", "odd", "summary"} /\ reply.credits.count \in Nat
  BY DEF CheckTypes, ReplyType, CreditReading
<1>2. new.observed = now /\ new.windows = Windows(reply) /\ new.details = Details(reply)
  BY DEF Normalize
<1>3. /\ new.usageStatus = Known(reply.usage) /\ new.creditStatus = Known(reply.credits.kind)
      /\ new.available = IF reply.credits.kind = "summary" THEN reply.credits.count ELSE None
  BY DEF Normalize, UsageStatus, CreditStatus
<1>4. new.usageAllowed = (reply.usage = "allowed")
  BY DEF Normalize
<1>5. /\ Known("absent") = "unsupported" /\ Known("null") = "unknown" /\ Known("odd") = "unknown"
      /\ Known("allowed") = "known" /\ Known("denied") = "known" /\ Known("summary") = "known"
  BY DEF Known
<1>6. DOMAIN new.windows = Readable /\ \A v \in Readable : new.windows[v] = reply.windows[v]
  BY <1>2 DEF Windows, Readable
<1>7. new.usageAllowed \in BOOLEAN /\ (new.usageAllowed = TRUE <=> reply.usage = "allowed")
  BY <1>4, Zenon
<1>8. new.usageStatus = "known" /\ new.usageAllowed = FALSE => reply.usage = "denied"
  BY <1>1, <1>3, <1>5, <1>7
<1>9. new.creditStatus = "known" <=> reply.credits.kind = "summary"
  BY <1>1, <1>3, <1>5
<1>10. /\ new.available # None <=> new.creditStatus = "known"
       /\ new.creditStatus = "known" => new.available = reply.credits.count
  BY <1>1, <1>3, <1>9, NoneAssumption
<1> QED  BY <1>2, <1>6, <1>7, <1>8, <1>9, <1>10 DEF ReadsReply

\* The details of a reading are credits that had been granted.
LEMMA DetailFields ==
    ASSUME IInv, Asked, NEW now, NEW new, new = Normalize(reply, now)
    PROVE  /\ IsFiniteSet(DetailSet(new))
           /\ new.details # None => new.creditStatus = "known"
           /\ \A c \in DetailSet(new) :
                 /\ c.id \in 1..reply.granted /\ c.granted \in 0..clock
                 /\ c.granted = credits[c.id].granted
                 /\ new.creditStatus = "known"
<1>1. /\ new.details = Details(reply)
      /\ new.creditStatus = "known" <=> reply.credits.kind = "summary"
  <2>1. CheckTypes
    BY DEF IInv, Types
  <2>2. ReadsReply(new, now)
    BY <2>1, NormalFields
  <2> QED  BY <2>2 DEF ReadsReply
<1>2. CASE reply.credits.kind # "summary" \/ reply.credits.rows = None
  <2>1. DetailSet(new) = {} /\ new.details = None
    BY <1>1, <1>2 DEF DetailSet, Details
  <2> QED  BY <2>1, FS_EmptySet
<1>3. CASE reply.credits.kind = "summary" /\ reply.credits.rows # None
  <2> DEFINE S == {r \in reply.credits.rows : r.whole}
             part == [row \in S |-> row.credit]
  <2>1. new.details = {row.credit : row \in S}
    BY <1>1, <1>3 DEF Details
  <2>2. new.details = {part[row] : row \in S}
    BY <2>1
  <2>3. Listed
    BY <1>3 DEF IInv, CreditsInOrder
  <2>4. IsFiniteSet(S)
    BY <2>3, FS_Subset DEF Listed
  <2>5. IsFiniteSet(new.details)
    <3> HIDE DEF S, part
    <3> QED  BY <2>2, <2>4, ImageFinite
  <2>6. DetailSet(new) \subseteq new.details
    BY DEF DetailSet
  <2>7. ASSUME NEW c \in DetailSet(new)
        PROVE  /\ c.id \in 1..reply.granted /\ c.granted \in 0..clock
               /\ c.granted = credits[c.id].granted
    <3>1. PICK row \in reply.credits.rows : c = row.credit
      BY <2>1, <2>6
    <3>2. c.id \in 1..reply.granted /\ c.granted = credits[c.id].granted
      BY <2>3, <3>1 DEF Listed
    <3>3. reply.granted \in Nat /\ reply.granted <= Len(credits)
      BY DEF IInv, Types, CheckTypes, ReplyType, Counts, Between, Present
    <3>4. Len(credits) \in Nat /\ clock \in Nat
      BY CreditFields, ObserverAssumption DEF IInv, Types, ServerTypes, Time
    <3>5. c.id \in 1..Len(credits)
      BY <3>2, <3>3, <3>4
    <3>6. credits[c.id].granted \in Nat /\ credits[c.id].granted <= clock
      BY <3>5, CreditFields DEF IInv, Types
    <3> QED  BY <3>2, <3>4, <3>6
  <2> QED  BY <1>1, <1>3, <2>5, <2>6, <2>7, FS_Subset
<1> QED  BY <1>2, <1>3

\* The grants that a reading adds to the remembered ones.
LEMMA GrantsKept ==
    ASSUME IInv, Asked, NEW new, new = Normalize(reply, clock), new.creditStatus = "known",
           NEW bound \in Nat, reply.granted <= bound, seen.granted <= bound
    PROVE  LET kept == CreditBaseline(new, baseline).grants
           IN  /\ IsFiniteSet(kept) /\ Cardinality(kept) <= GrantLimit
               /\ \A g \in kept : g.id \in Nat /\ g.id <= bound /\ g.granted \in 0..clock
<1> DEFINE old == IF baseline = None THEN {} ELSE baseline.grants
           G == Grants(new) \cup old
           part == [c \in DetailSet(new) |-> [id |-> c.id, granted |-> c.granted]]
<1>1. CreditBaseline(new, baseline).grants = Trimmed(G)
  BY DEF CreditBaseline
<1>2. seen.granted \in Nat /\ reply.granted \in Nat /\ clock \in Nat
  BY ObserverAssumption DEF IInv, Types, CheckTypes, SeenType, ReplyType, ServerTypes, Time
<1>3. IsFiniteSet(Grants(new))
  <2>1. Grants(new) = {part[c] : c \in DetailSet(new)}
    BY DEF Grants
  <2>2. IsFiniteSet(DetailSet(new))
    BY DetailFields
  <2> HIDE DEF part
  <2> QED  BY <2>1, <2>2, ImageFinite
<1>4. ASSUME NEW g \in Grants(new) PROVE g.id \in Nat /\ g.id <= bound /\ g.granted \in 0..clock
  <2>1. PICK c \in DetailSet(new) : g = [id |-> c.id, granted |-> c.granted]
    BY <1>4 DEF Grants
  <2>2. c.id \in 1..reply.granted /\ c.granted \in 0..clock
    BY DetailFields
  <2> QED  BY <1>2, <2>1, <2>2
<1>5. /\ IsFiniteSet(old)
      /\ \A g \in old : g.id \in Nat /\ g.id <= bound /\ g.granted \in 0..clock
  <2>1. CASE baseline = None
    BY <2>1, FS_EmptySet
  <2>2. CASE baseline # None
    <3>1. Sound(baseline) /\ old = baseline.grants
      BY <2>2 DEF IInv, CreditsInOrder
    <3> QED  BY <1>2, <3>1 DEF Sound
  <2> QED  BY <2>1, <2>2
<1> HIDE DEF old
<1>6. /\ IsFiniteSet(G)
      /\ \A g \in G : g.id \in Nat /\ g.id <= bound /\ g.granted \in 0..clock
  BY <1>3, <1>4, <1>5, FS_Union
<1> HIDE DEF G
<1>7. /\ Trimmed(G) \subseteq G /\ IsFiniteSet(Trimmed(G))
      /\ Cardinality(Trimmed(G)) <= GrantLimit
  BY <1>2, <1>6, TrimmedKeeps
<1> QED  BY <1>1, <1>6, <1>7
LEMMA CommitKeepsIInv ==
    ASSUME IInv, Asked, NEW confirmed, Commit(Normalize(reply, clock), confirmed),
           UNCHANGED serverVars
    PROVE  IInv'
<1>1. PICK new : new = Normalize(reply, clock)
  OBVIOUS
<1>2. CheckTypes /\ ServerTypes
  BY DEF IInv, Types
<1>3. ReadsReply(new, clock)
  BY <1>1, <1>2, NormalFields
<1>4. new.details # None => new.creditStatus = "known"
  BY <1>1, DetailFields
<1>5. /\ phase' = "idle" /\ reply' = None /\ snapshot' = new
      /\ baseline' = CreditBaseline(new, baseline)
      /\ ids' = ids \cup AnalyzeChanges(snapshot, new, baseline, clock, confirmed)
                    \cup CreditExpiryEvents(new, clock)
      /\ seen' = [epoch |-> reply.epoch, plans |-> reply.plans,
                  granted |-> IF new.creditStatus = "known" THEN reply.granted ELSE seen.granted,
                  restored |-> reply.restored]
  BY <1>1 DEF Commit
<1>6. /\ UNCHANGED <<topic, clock, window, credits, status>> /\ ~Asked'
      /\ Available' = Available /\ Present' = Present
  BY <1>5 DEF serverVars, Asked, Available, Present
<1>7. /\ seen'.epoch = reply.epoch /\ seen'.plans = reply.plans /\ seen'.restored = reply.restored
      /\ seen'.granted = IF new.creditStatus = "known" THEN reply.granted ELSE seen.granted
  BY <1>5
<1>8. /\ reply.epoch \in Nat /\ reply.plans \in Nat /\ reply.granted \in Nat
      /\ reply.restored \in Nat /\ seen.granted \in Nat /\ Len(credits) \in Nat
      /\ clock \in Nat /\ seen.granted <= reply.granted /\ reply.granted <= Len(credits)
  BY <1>2, CreditFields, ObserverAssumption
     DEF IInv, Types, CheckTypes, ReplyType, SeenType, ServerTypes, Time, Counts, Between, Present
<1>9. Types'
  <2>1. ServerTypes'
    BY <1>2, <1>6 DEF ServerTypes
  <2>2. seen' \in SeenType
    BY <1>5, <1>8 DEF SeenType
  <2>3. CheckTypes'
    BY <1>2, <1>5, <1>6, <2>2 DEF CheckTypes
  <2>4. Between(seen', Present)
    BY <1>7, <1>8, <1>2 DEF IInv, Types, Counts, Between, Present
  <2>5. Counts'
    BY <1>6, <2>4 DEF Counts
  <2> QED  BY <2>1, <2>3, <2>5 DEF Types
<1>10. WindowsInOrder'
  <2>1. ASSUME NEW w \in DOMAIN new.windows
        PROVE  /\ new.windows[w].used \in 0..MaxUsed /\ new.windows[w].duration \in {1, 2}
               /\ Later(Reading(new.windows[w], seen'), window)
    <3>1. w \in Readable /\ new.windows[w] = reply.windows[w]
      BY <1>3 DEF ReadsReply
    <3>2. reply.windows[w].used \in 0..MaxUsed /\ reply.windows[w].duration \in {1, 2}
      BY <1>2, <3>1, ReadableReading
    <3>3. Reading(new.windows[w], seen') = Reading(reply.windows[w], reply)
      BY <1>7, <3>1 DEF Reading
    <3>4. Later(Reading(reply.windows[w], reply), window)
      BY <3>1 DEF IInv, WindowsInOrder
    <3> QED  BY <3>1, <3>2, <3>3, <3>4
  <2> QED  BY <1>5, <1>6, <2>1 DEF WindowsInOrder, ReadsReply
<1>11. UsageInOrder'
  <2>1. Denied' => reply.usage = "denied"
    BY <1>3, <1>5 DEF Denied, ReadsReply
  <2> QED  BY <1>6, <1>7, <2>1 DEF IInv, UsageInOrder
<1>12. \A e \in ids' : e[1] = "reset_credit_granted" => \A i \in e[4] : i \in 1..seen'.granted
  <2>1. ASSUME NEW e \in ids, e[1] = "reset_credit_granted", NEW i \in e[4]
        PROVE  i \in 1..seen'.granted
    <3>1. i \in 1..seen.granted
      BY <2>1 DEF IInv, CreditsInOrder
    <3> QED  BY <3>1, <1>7, <1>8
  <2>2. ASSUME NEW e \in AnalyzeChanges(snapshot, new, baseline, clock, confirmed)
                           \cup CreditExpiryEvents(new, clock),
               e[1] = "reset_credit_granted", NEW i \in e[4]
        PROVE  i \in 1..seen'.granted
    <3>1. CreditEvents(new, baseline) # {} /\ e[4] = Fresh(new, baseline)
      BY <2>2, EventEvidence
    <3>2. new.creditStatus = "known"
      BY <3>1 DEF CreditEvents
    <3>3. PICK c \in DetailSet(new) : i = c.id
      BY <2>2, <3>1 DEF Fresh
    <3>4. c.id \in 1..reply.granted
      BY <1>1, <3>3, DetailFields
    <3> QED  BY <1>7, <1>8, <3>2, <3>3, <3>4
  <2> QED  BY <1>5, <2>1, <2>2
<1>13. baseline' # None => Sound(baseline)' /\ baseline'.observed <= clock
  <2>1. CASE new.creditStatus # "known"
    <3>1. baseline' = baseline /\ seen'.granted = seen.granted
      BY <1>5, <1>7, <2>1 DEF CreditBaseline
    <3>2. baseline # None => Sound(baseline)
      BY DEF IInv, CreditsInOrder
    <3> QED  BY <1>6, <3>1, <3>2 DEF Sound
  <2>2. CASE new.creditStatus = "known"
    <3> DEFINE kept == CreditBaseline(new, baseline).grants
    <3>1. /\ baseline'.observed = clock /\ baseline'.available = reply.credits.count
          /\ baseline'.grants = kept
      BY <1>3, <1>5, <2>2 DEF CreditBaseline, ReadsReply
    <3>2. /\ IsFiniteSet(kept) /\ Cardinality(kept) <= GrantLimit
          /\ \A g \in kept : g.id \in Nat /\ g.id <= reply.granted /\ g.granted \in 0..clock
      BY <1>1, <1>8, <2>2, GrantsKept
    <3> HIDE DEF kept
    <3>3. seen'.granted = reply.granted
      BY <1>7, <2>2
    <3>4. \A i \in 1..reply.granted : credits[i].granted <= clock
      BY <1>2, <1>8, CreditFields
    <3>5. Len(credits) = reply.granted => Cardinality(Available) <= reply.credits.count
      BY <1>3, <2>2 DEF IInv, CreditsInOrder, ReadsReply
    <3>6. reply.credits.count \in Nat
      BY <1>2 DEF CheckTypes, ReplyType, CreditReading
    <3>7. Sound(baseline)'
      BY <1>6, <1>8, <3>1, <3>2, <3>3, <3>4, <3>5, <3>6 DEF Sound
    <3> QED  BY <1>8, <3>1, <3>7
  <2> QED  BY <2>1, <2>2
<1>14. CreditsInOrder'
  BY <1>6, <1>12, <1>13 DEF CreditsInOrder
<1>15. KeptIsWhole'
  <2>1. \A w \in DOMAIN new.windows : new.windows[w].used # None
    BY <1>3 DEF Readable, ReadsReply
  <2> QED  BY <1>3, <1>4, <1>5, <1>13, <2>1 DEF KeptIsWhole, ReadsReply
<1> QED  BY <1>9, <1>10, <1>11, <1>14, <1>15 DEF IInv

-----------------------------------------------------------------------------

LEMMA NextKeepsIInv == ASSUME IInv, [ObserverNext]_observerVars PROVE IInv'
<1>1. CASE Tick
  BY <1>1, TickMoves, MovesKeepIInv DEF Tick, IInv
<1>2. CASE Use
  BY <1>2, UseMoves, MovesKeepIInv DEF Use, IInv
<1>3. CASE WindowResets
  BY <1>3, WindowResetsMoves, MovesKeepIInv DEF WindowResets, IInv
<1>4. CASE ResetMoves
  BY <1>4, ResetMovesMoves, MovesKeepIInv DEF ResetMoves, IInv
<1>5. CASE PlanChanges
  BY <1>5, PlanChangesMoves, MovesKeepIInv DEF PlanChanges, IInv
<1>6. CASE Grant
  BY <1>6, GrantMoves, MovesKeepIInv DEF Grant, IInv
<1>7. CASE Redeem
  BY <1>7, RedeemMoves, MovesKeepIInv DEF Redeem, IInv
<1>8. CASE StatusChanges
  BY <1>8, StatusMoves, MovesKeepIInv DEF StatusChanges, IInv
<1>9. CASE Ask
  BY <1>9, AskKeepsIInv
<1>10. CASE Pause
  BY <1>10, DropKeepsIInv DEF Pause
<1>11. CASE Record
  BY <1>11, CommitKeepsIInv DEF Record, Asked
<1>12. CASE RecordConfirmed
  BY <1>12, CommitKeepsIInv DEF RecordConfirmed, Asked
<1>13. CASE CheckFails
  BY <1>13, DropKeepsIInv DEF CheckFails
<1>14. CASE UNCHANGED observerVars
  BY <1>14, StutterKeepsIInv
<1> QED
  BY <1>1, <1>2, <1>3, <1>4, <1>5, <1>6, <1>7, <1>8, <1>9, <1>10, <1>11, <1>12, <1>13, <1>14
     DEF ObserverNext

LEMMA IInvAlways == ObserverSpec => []IInv
<1>1. ObserverInit => IInv
  BY InitEstablishesIInv
<1>2. IInv /\ [ObserverNext]_observerVars => IInv'
  BY NextKeepsIInv
<1> QED  BY <1>1, <1>2, PTL DEF ObserverSpec
-----------------------------------------------------------------------------
(* The theorems. *)

\* Every variable keeps its type, a kept reading has nothing of a reply that was
\* not in it, the remembered grants keep their bound and no reading is ahead of
\* the server, for every number of credits, resets and ticks.
THEOREM ObserverTypeCorrect == ObserverSpec => []ObserverTypeOK
<1>1. IInv => ObserverTypeOK
  <2> SUFFICES ASSUME IInv PROVE ObserverTypeOK
    OBVIOUS
  <2>1. ServerTypes /\ CheckTypes /\ Counts
    BY DEF IInv, Types
  <2>2. /\ clock \in Time /\ window.used \in 0..MaxUsed /\ window.resets \in Resets
        /\ window.duration \in {1, 2} /\ window.epoch + window.plans <= MaxTurns
        /\ status.limit \in {"none", "reached"} /\ status.allowed \in BOOLEAN
    BY <2>1 DEF ServerTypes, WindowType, StatusType
  <2>3. \A i \in DOMAIN credits : credits[i] \in CreditType /\ credits[i].id = i
    BY <2>1, CreditFields
  <2>4. /\ reply = None <=> phase \in {"idle", "sleep"}
        /\ reply # None => reply \in ReplyType
    BY <2>1 DEF CheckTypes, Asked
  <2>5. snapshot # None =>
          /\ \A w \in DOMAIN snapshot.windows : snapshot.windows[w].used # None
          /\ (snapshot.available # None) <=> (snapshot.creditStatus = "known")
          /\ snapshot.details # None => snapshot.creditStatus = "known"
    BY DEF IInv, KeptIsWhole
  <2>6. baseline # None => Cardinality(baseline.grants) <= GrantLimit
                           /\ baseline.observed <= snapshot.observed
    BY DEF IInv, KeptIsWhole, CreditsInOrder, Sound
  <2>7. /\ seen.restored <= status.restored
        /\ seen.epoch <= window.epoch /\ seen.granted <= Len(credits)
    BY <2>1 DEF Counts, Between, Present
  <2> QED  BY <2>2, <2>3, <2>4, <2>5, <2>6, <2>7 DEF ObserverTypeOK
<1> QED  BY <1>1, IInvAlways, PTL

\* Only a check that records its reading changes what is kept.
LEMMA OnlyReadingsChange ==
    ASSUME [ObserverNext]_observerVars, ids' # ids \/ snapshot' # snapshot
    PROVE  /\ Asked
           /\ \E confirmed \in BOOLEAN :
                 /\ snapshot' = Normalize(reply, clock)
                 /\ ids' = ids \cup AnalyzeChanges(snapshot, Normalize(reply, clock), baseline,
                                                   clock, confirmed)
                               \cup CreditExpiryEvents(Normalize(reply, clock), clock)
<1>1. CASE Record
  BY <1>1 DEF Record, Commit, Asked
<1>2. CASE RecordConfirmed
  BY <1>2 DEF RecordConfirmed, Commit, Asked
<1>3. CASE ~(Record \/ RecordConfirmed)
  <2>1. ids' = ids /\ snapshot' = snapshot
    BY <1>3 DEF ObserverNext, Tick, Use, WindowResets, ResetMoves, PlanChanges, Grant, Redeem,
                StatusChanges, Ask, Pause, CheckFails, observerVars, checkVars
  <2> QED  BY <2>1
<1> QED  BY <1>1, <1>2, <1>3

\* What a new event of a reading shows.
LEMMA NewEvent ==
    ASSUME [ObserverNext]_observerVars, NEW e \in ids' \ ids
    PROVE  /\ e[1] \in {"window_reset", "window_changed_early"} =>
                 snapshot # None /\ \E w \in Compared(snapshot, Normalize(reply, clock)) :
                     ResetEvidence(snapshot.windows[w], Normalize(reply, clock).windows[w])
           /\ e[1] = "usage_restored_backend" =>
                 snapshot # None /\ UsageEvents(snapshot, Normalize(reply, clock)) # {}
           /\ e[1] = "reset_credit_granted" =>
                 CreditEvents(Normalize(reply, clock), baseline) # {}
           /\ Asked
<1>1. /\ Asked
      /\ \E confirmed \in BOOLEAN :
            ids' = ids \cup AnalyzeChanges(snapshot, Normalize(reply, clock), baseline,
                                           clock, confirmed)
                       \cup CreditExpiryEvents(Normalize(reply, clock), clock)
  BY OnlyReadingsChange
<1>2. PICK confirmed \in BOOLEAN :
         e \in AnalyzeChanges(snapshot, Normalize(reply, clock), baseline, clock, confirmed)
               \cup CreditExpiryEvents(Normalize(reply, clock), clock)
  BY <1>1
<1> QED  BY <1>1, <1>2, EventEvidence

\* A window of two readings in order shows a reset only if there was one.
LEMMA ResetsAreReal ==
    ASSUME IInv, Asked, snapshot # None,
           NEW w \in Compared(snapshot, Normalize(reply, clock)),
           ResetEvidence(snapshot.windows[w], Normalize(reply, clock).windows[w])
    PROVE  reply.epoch > seen.epoch \/ reply.plans > seen.plans + 1
<1> PICK new : new = Normalize(reply, clock)
  OBVIOUS
<1> DEFINE old == snapshot.windows[w]
           now == reply.windows[w]
<1>1. CheckTypes
  BY DEF IInv, Types
<1>2. w \in DOMAIN snapshot.windows /\ w \in Readable /\ new.windows[w] = now
  <2>1. ReadsReply(new, clock)
    BY <1>1, NormalFields
  <2>2. w \in DOMAIN snapshot.windows \cap DOMAIN new.windows
    BY DEF Compared
  <2> QED  BY <2>1, <2>2 DEF ReadsReply
<1>3. now.used < old.used /\ old.duration = now.duration
  BY <1>2 DEF ResetEvidence, UsageDropped
<1>4. Later(Reading(old, seen), Reading(now, reply))
  BY <1>2 DEF IInv, WindowsInOrder
<1>5. /\ old.used \in 0..MaxUsed /\ now.used \in 0..MaxUsed /\ MaxUsed \in Nat
  BY <1>1, <1>2, ReadableReading, ObserverAssumption DEF IInv, WindowsInOrder
<1>6. /\ seen.epoch \in Nat /\ reply.epoch \in Nat /\ seen.plans \in Nat /\ reply.plans \in Nat
  BY <1>1 DEF CheckTypes, SeenType, ReplyType
<1> HIDE DEF old, now
<1> QED  BY <1>3, <1>4, <1>5, <1>6 DEF Later, Reading

\* A reset or a restored usage is announced only if the server has reset the
\* window, or allowed usage again, since the reading it is compared with: for
\* every sequence of usage, resets, corrected times, plans and incomplete replies.
THEOREM ReliefIsReal == ObserverSpec => NoFalseRelief
<1> DEFINE A == \A e \in ids' \ ids :
                  /\ e[1] \in {"window_reset", "window_changed_early"} =>
                         reply.epoch > seen.epoch \/ reply.plans > seen.plans + 1
                  /\ e[1] = "usage_restored_backend" => reply.restored > seen.restored
<1>1. ASSUME IInv, [ObserverNext]_observerVars PROVE A
  <2> SUFFICES ASSUME NEW e \in ids' \ ids
               PROVE  /\ e[1] \in {"window_reset", "window_changed_early"} =>
                             reply.epoch > seen.epoch \/ reply.plans > seen.plans + 1
                      /\ e[1] = "usage_restored_backend" => reply.restored > seen.restored
    OBVIOUS
  <2>1. Asked
    BY <1>1, NewEvent
  <2>2. ASSUME e[1] \in {"window_reset", "window_changed_early"}
        PROVE  reply.epoch > seen.epoch \/ reply.plans > seen.plans + 1
    <3>1. /\ snapshot # None
          /\ \E w \in Compared(snapshot, Normalize(reply, clock)) :
                ResetEvidence(snapshot.windows[w], Normalize(reply, clock).windows[w])
      BY <1>1, <2>2, NewEvent
    <3> QED  BY <1>1, <2>1, <3>1, ResetsAreReal
  <2>3. ASSUME e[1] = "usage_restored_backend" PROVE reply.restored > seen.restored
    <3>1. snapshot # None /\ UsageEvents(snapshot, Normalize(reply, clock)) # {}
      BY <1>1, <2>3, NewEvent
    <3>2. PICK new : new = Normalize(reply, clock)
      OBVIOUS
    <3>3. CheckTypes /\ Counts
      BY <1>1 DEF IInv, Types
    <3>4. ReadsReply(new, clock)
      BY <2>1, <3>2, <3>3, NormalFields
    <3>5. snapshot.usageAllowed \in BOOLEAN /\ new.usageAllowed \in BOOLEAN
      BY <1>1, <3>1, <3>4 DEF IInv, KeptIsWhole, ReadsReply
    <3>6. /\ snapshot.usageStatus = "known" /\ ~snapshot.usageAllowed
          /\ new.usageAllowed
      BY <3>1, <3>2 DEF UsageEvents
    <3>7. Denied /\ reply.usage = "allowed"
      BY <3>1, <3>4, <3>5, <3>6 DEF Denied, ReadsReply
    <3>8. reply.restored # seen.restored
      BY <1>1, <2>1, <3>7 DEF IInv, UsageInOrder
    <3>9. seen.restored <= reply.restored /\ seen.restored \in Nat /\ reply.restored \in Nat
      BY <2>1, <3>3 DEF CheckTypes, SeenType, ReplyType, Counts, Between
    <3> QED  BY <3>8, <3>9
  <2> QED  BY <2>2, <2>3
<1>2. IInv /\ [ObserverNext]_observerVars => [A]_observerVars
  BY <1>1
<1> HIDE DEF A
<1>3. ObserverSpec => [][A]_observerVars
  BY <1>2, IInvAlways, PTL DEF ObserverSpec
<1> QED  BY <1>3 DEF NoFalseRelief, A

\* A grant is announced only if a credit was granted since the last reading that
\* knew the credits, whichever rows and counts were left out in between and
\* whichever grants have been forgotten.
THEOREM GrantsAreReal == ObserverSpec => NoInventedGrant
<1> DEFINE A == \A e \in ids' \ ids :
                  e[1] = "reset_credit_granted" => reply.granted > seen.granted
<1>1. ASSUME IInv, [ObserverNext]_observerVars PROVE A
  <2> SUFFICES ASSUME NEW e \in ids' \ ids, e[1] = "reset_credit_granted",
                      ~(reply.granted > seen.granted)
               PROVE  FALSE
    OBVIOUS
  <2>1. PICK new : new = Normalize(reply, clock)
    OBVIOUS
  <2>2. Asked /\ CreditEvents(new, baseline) # {}
    BY <1>1, <2>1, NewEvent
  <2>3. /\ new.creditStatus = "known" /\ baseline # None
        /\ new.available > baseline.available \/ Fresh(new, baseline) # {}
    BY <2>2 DEF CreditEvents
  <2>4. CheckTypes /\ Counts
    BY <1>1 DEF IInv, Types
  <2>5. reply.credits.kind = "summary" /\ new.available = reply.credits.count
    <3>1. ReadsReply(new, clock)
      BY <2>1, <2>2, <2>4, NormalFields
    <3> QED  BY <2>3, <3>1 DEF ReadsReply
  <2>6. reply.granted = seen.granted
    BY <2>2, <2>4 DEF CheckTypes, SeenType, ReplyType, Counts, Between
  <2>7. Sound(baseline)
    BY <1>1, <2>3 DEF IInv, CreditsInOrder
  <2>8. ~(new.available > baseline.available)
    <3>1. reply.credits.count <= baseline.available
      BY <1>1, <2>2, <2>3, <2>5, <2>6 DEF IInv, CreditsInOrder
    <3>2. reply.credits.count \in Nat /\ baseline.available \in Nat
      BY <2>2, <2>4, <2>7 DEF CheckTypes, ReplyType, CreditReading, Sound
    <3> QED  BY <2>5, <3>1, <3>2
  <2>9. PICK c \in DetailSet(new) : c.granted > baseline.observed
    BY <2>3, <2>8 DEF Fresh
  <2>10. c.id \in 1..seen.granted /\ c.granted = credits[c.id].granted /\ c.granted \in 0..clock
    BY <1>1, <2>1, <2>2, <2>6, DetailFields
  <2>11. c.granted <= baseline.observed /\ baseline.observed \in Nat /\ clock \in Nat
    BY <1>1, <2>7, <2>10, ObserverAssumption DEF Sound, IInv, Types, ServerTypes, Time
  <2> QED  BY <2>9, <2>10, <2>11
<1>2. IInv /\ [ObserverNext]_observerVars => [A]_observerVars
  BY <1>1
<1> HIDE DEF A
<1>3. ObserverSpec => [][A]_observerVars
  BY <1>2, IInvAlways, PTL DEF ObserverSpec
<1> QED  BY <1>3 DEF NoInventedGrant, A

\* A credit that was granted after the last known reading and is listed by the
\* next one is announced, by an event that was never recorded before.
THEOREM GrantsAreTold == ObserverSpec => NoSilentGrant
<1> DEFINE A == /\ snapshot' # snapshot /\ snapshot # None /\ baseline # None
                /\ \E c \in DetailSet(snapshot') : c.id > seen.granted /\ c.granted > baseline.observed
                => \E e \in ids' \ ids : e[1] = "reset_credit_granted"
<1>1. ASSUME IInv, [ObserverNext]_observerVars PROVE A
  <2> SUFFICES ASSUME snapshot' # snapshot, snapshot # None, baseline # None,
                      NEW c \in DetailSet(snapshot'),
                      c.id > seen.granted, c.granted > baseline.observed
               PROVE  \E e \in ids' \ ids : e[1] = "reset_credit_granted"
    OBVIOUS
  <2>1. PICK new : new = Normalize(reply, clock)
    OBVIOUS
  <2>2. PICK confirmed \in BOOLEAN :
           /\ snapshot' = new
           /\ ids' = ids \cup AnalyzeChanges(snapshot, new, baseline, clock, confirmed)
                         \cup CreditExpiryEvents(new, clock)
    BY <1>1, <2>1, OnlyReadingsChange
  <2>3. Asked
    BY <1>1, OnlyReadingsChange
  <2>4. c \in DetailSet(new) /\ c.id \in 1..reply.granted /\ new.creditStatus = "known"
    BY <1>1, <2>1, <2>2, <2>3, DetailFields
  <2>5. Sound(baseline) /\ seen.granted \in Nat /\ reply.granted \in Nat
    BY <1>1, <2>3 DEF IInv, CreditsInOrder, Types, CheckTypes, SeenType, ReplyType
  <2>6. \A g \in baseline.grants : g.id # c.id
    BY <2>4, <2>5 DEF Sound
  <2>7. c.id \in Fresh(new, baseline)
    BY <2>4, <2>6 DEF Fresh
  <2>8. PICK e : e = Changed("reset_credit_granted",
                             <<baseline.available, new.available, Fresh(new, baseline)>>)
    OBVIOUS
  <2>9. e[1] = "reset_credit_granted" /\ e[4] = Fresh(new, baseline)
    BY <2>8, KindOfThree
  <2>10. e \in ids'
    <3>1. e \in CreditEvents(new, baseline)
      BY <2>4, <2>7, <2>8 DEF CreditEvents, GrantEvidence
    <3> QED  BY <2>2, <3>1 DEF AnalyzeChanges
  <2>11. e \notin ids
    <3>1. ~(c.id \in 1..seen.granted)
      BY <2>4, <2>5
    <3> QED  BY <1>1, <2>7, <2>9, <3>1 DEF IInv, CreditsInOrder
  <2> QED  BY <2>9, <2>10, <2>11
<1>2. IInv /\ [ObserverNext]_observerVars => [A]_observerVars
  BY <1>1
<1> HIDE DEF A
<1>3. ObserverSpec => [][A]_observerVars
  BY <1>2, IInvAlways, PTL DEF ObserverSpec
<1> QED  BY <1>3 DEF NoSilentGrant, A
-----------------------------------------------------------------------------
(* Two readings, compared. *)

\* The events of one window.
EventsOf(old, new, now, confirmed, w) ==
    LET previous == old.windows[w]
        current == new.windows[w]
        evidence == <<w, previous.resets, current.resets, previous.used, current.used>>
    IN  IF ResetEvidence(previous, current)
        THEN IF Expected(previous, now) THEN {Changed("window_reset", evidence)}
             ELSE IF confirmed THEN {Changed("window_changed_early", evidence)}
             ELSE {}
        ELSE IF previous.duration # current.duration
        THEN {Changed("window_duration_changed", <<w, current.duration, current.resets>>)}
        ELSE {}

LEMMA WindowByWindow ==
    ASSUME NEW old, NEW new, NEW now, NEW confirmed, NEW e
    PROVE  e \in WindowEvents(old, new, now, confirmed) <=>
              \E w \in Compared(old, new) : e \in EventsOf(old, new, now, confirmed, w)
<1>1. WindowEvents(old, new, now, confirmed) =
         UNION {EventsOf(old, new, now, confirmed, w) : w \in Compared(old, new)}
  BY DEF WindowEvents, EventsOf
<1> QED  BY <1>1

\* A second read is asked for exactly when it decides something: taken as
\* confirmed, a reading announces what it announces unconfirmed and, exactly if
\* NeedsConfirmation says so, early resets besides.  So a check that does not
\* pause loses no event, and one that pauses can gain nothing else
\* (domain.py:243-293, monitor.py:94-105).
THEOREM ConfirmationDecides ==
    ASSUME NEW old, NEW new, NEW base, NEW now
    PROVE  LET first  == AnalyzeChanges(old, new, base, now, FALSE)
               second == AnalyzeChanges(old, new, base, now, TRUE)
           IN  /\ first \subseteq second
               /\ \A e \in second \ first : e[1] = "window_changed_early"
               /\ NeedsConfirmation(old, new, now) <=> second # first
<1> DEFINE Others == LimitEvents(old, new) \cup UsageEvents(old, new) \cup CreditEvents(new, base)
           Early(w) == ResetEvidence(old.windows[w], new.windows[w])
                       /\ ~Expected(old.windows[w], now)
           first  == AnalyzeChanges(old, new, base, now, FALSE)
           second == AnalyzeChanges(old, new, base, now, TRUE)
<1>1. CASE old = None
  BY <1>1 DEF AnalyzeChanges, NeedsConfirmation
<1>2. CASE old # None
  <2>1. /\ first = WindowEvents(old, new, now, FALSE) \cup Others
        /\ second = WindowEvents(old, new, now, TRUE) \cup Others
    BY <1>2 DEF AnalyzeChanges
  <2>2. NeedsConfirmation(old, new, now) <=> \E w \in Compared(old, new) : Early(w)
    BY <1>2 DEF NeedsConfirmation
  <2>3. ASSUME NEW w, ~Early(w)
        PROVE  EventsOf(old, new, now, TRUE, w) = EventsOf(old, new, now, FALSE, w)
    BY <2>3 DEF EventsOf
  <2>4. ASSUME NEW w, Early(w)
        PROVE  /\ EventsOf(old, new, now, FALSE, w) = {}
               /\ EventsOf(old, new, now, TRUE, w) # {}
               /\ \A e \in EventsOf(old, new, now, TRUE, w) : e[1] = "window_changed_early"
    BY <2>4, KindOfFive DEF EventsOf
  <2>5. ASSUME NEW e \in first PROVE e[1] # "window_changed_early"
    <3>1. CASE e \in WindowEvents(old, new, now, FALSE)
      <4>1. PICK w \in Compared(old, new) : e \in EventsOf(old, new, now, FALSE, w)
        BY <3>1, WindowByWindow
      <4>2. CASE ResetEvidence(old.windows[w], new.windows[w])
        <5>1. e[1] = "window_reset"
          BY <4>1, <4>2, KindOfFive DEF EventsOf
        <5> QED  BY <5>1
      <4>3. CASE ~ResetEvidence(old.windows[w], new.windows[w])
        <5>1. e[1] = "window_duration_changed"
          BY <4>1, <4>3, KindOfThree DEF EventsOf
        <5> QED  BY <5>1
      <4> QED  BY <4>2, <4>3
    <3>2. CASE e \in Others
      <4>1. e[1] \in {"backend_limit_status_changed", "usage_restored_backend", "reset_credit_granted"}
        BY <3>2, KindOfOne, KindOfThree DEF LimitEvents, UsageEvents, CreditEvents, GrantEvidence
      <4> QED  BY <4>1
    <3> QED  BY <2>1, <2>5, <3>1, <3>2
  <2> HIDE DEF Early, Others, first, second
  <2>6. first \subseteq second
    BY <2>1, <2>3, <2>4, WindowByWindow
  <2>7. ASSUME NEW e \in second \ first
        PROVE  \E w \in Compared(old, new) : Early(w) /\ e \in EventsOf(old, new, now, TRUE, w)
    <3>1. e \in WindowEvents(old, new, now, TRUE) /\ e \notin WindowEvents(old, new, now, FALSE)
      BY <2>1, <2>7
    <3>2. PICK w \in Compared(old, new) : e \in EventsOf(old, new, now, TRUE, w)
      BY <3>1, WindowByWindow
    <3>3. e \notin EventsOf(old, new, now, FALSE, w)
      BY <3>1, <3>2, WindowByWindow
    <3> QED  BY <2>3, <3>2, <3>3
  <2>8. \A e \in second \ first : e[1] = "window_changed_early"
    BY <2>4, <2>7
  <2>9. ASSUME NEW w \in Compared(old, new), Early(w) PROVE second # first
    <3>1. PICK e : e \in EventsOf(old, new, now, TRUE, w)
      BY <2>4, <2>9
    <3>2. e \in second /\ e[1] = "window_changed_early"
      BY <2>1, <2>4, <2>9, <3>1, WindowByWindow
    <3> QED  BY <2>5, <3>2
  <2>10. NeedsConfirmation(old, new, now) <=> second # first
    BY <2>2, <2>6, <2>7, <2>9
  <2> QED  BY <2>6, <2>8, <2>10 DEF first, second
<1> QED  BY <1>1, <1>2
-----------------------------------------------------------------------------
(* The same reading, once more. *)

SameContents(x, y) ==
    /\ x.windows = y.windows /\ x.limit = y.limit
    /\ x.usageStatus = y.usageStatus /\ x.usageAllowed = y.usageAllowed
    /\ x.creditStatus = y.creditStatus /\ x.available = y.available /\ x.details = y.details

\* A reading with the contents of the kept one announces nothing, whenever it is
\* taken and however often: each change is announced by the first reading that
\* shows it, and no grant a second time because it was forgotten
\* (domain.py:208-366; tests/test_domain.py:45,73,98).
UnchangedIsQuiet ==
    snapshot # None =>
        \A again : SameContents(again, snapshot) =>
            \A now, confirmed : AnalyzeChanges(snapshot, again, baseline, now, confirmed) = {}

\* What a known reading lists is not newer than the baseline it has left.
Covered ==
    snapshot # None /\ snapshot.creditStatus = "known" =>
        /\ baseline.available = snapshot.available
        /\ baseline.available \in Nat /\ baseline.observed \in Nat
        /\ \A c \in DetailSet(snapshot) : c.granted \in Nat /\ c.granted <= baseline.observed

LEMMA CommitCovers ==
    ASSUME IInv, Asked, NEW confirmed, Commit(Normalize(reply, clock), confirmed)
    PROVE  Covered'
<1>1. PICK new : new = Normalize(reply, clock)
  OBVIOUS
<1>2. snapshot' = new /\ baseline' = CreditBaseline(new, baseline)
  BY <1>1 DEF Commit
<1>3. CheckTypes /\ clock \in Nat
  BY ObserverAssumption DEF IInv, Types, ServerTypes, Time
<1>4. ReadsReply(new, clock)
  BY <1>1, <1>3, NormalFields
<1>5. ASSUME new.creditStatus = "known"
      PROVE  /\ baseline'.available = new.available
             /\ baseline'.available \in Nat /\ baseline'.observed = clock
  <2>1. new.available \in Nat /\ new.observed = clock
    BY <1>3, <1>4, <1>5 DEF ReadsReply, CheckTypes, ReplyType, CreditReading
  <2>2. baseline'.available = new.available /\ baseline'.observed = new.observed
    BY <1>2, <1>5 DEF CreditBaseline
  <2> QED  BY <2>1, <2>2
<1>6. \A c \in DetailSet(new) : c.granted \in 0..clock
  BY <1>1, DetailFields
<1>7. ASSUME NEW c \in DetailSet(new) PROVE c.granted \in Nat /\ c.granted <= clock
  BY <1>3, <1>6
<1>8. DetailSet(snapshot)' = DetailSet(new)
  BY <1>2 DEF DetailSet
<1> QED  BY <1>2, <1>3, <1>5, <1>7, <1>8 DEF Covered

\* Only a check that records its reading changes the baseline.
LEMMA NextKeepsCovered == ASSUME IInv, Covered, [ObserverNext]_observerVars PROVE Covered'
<1>1. CASE Record
  BY <1>1, CommitCovers DEF Record, Asked
<1>2. CASE RecordConfirmed
  BY <1>2, CommitCovers DEF RecordConfirmed, Asked
<1>3. CASE ~(Record \/ RecordConfirmed)
  <2>1. baseline' = baseline /\ snapshot' = snapshot
    BY <1>3, Zenon
       DEF ObserverNext, Tick, Use, WindowResets, ResetMoves, PlanChanges, Grant, Redeem,
           StatusChanges, Ask, Pause, CheckFails, observerVars, checkVars
  <2> QED  BY <2>1 DEF Covered, DetailSet
<1> QED  BY <1>1, <1>2, <1>3

LEMMA CoveredIsQuiet == ASSUME IInv, Covered PROVE UnchangedIsQuiet
<1> SUFFICES ASSUME snapshot # None, NEW again, SameContents(again, snapshot),
                    NEW now, NEW confirmed
             PROVE  AnalyzeChanges(snapshot, again, baseline, now, confirmed) = {}
  BY DEF UnchangedIsQuiet
<1>1. WindowEvents(snapshot, again, now, confirmed) = {}
  <2> SUFFICES ASSUME NEW w \in Compared(snapshot, again)
               PROVE  EventsOf(snapshot, again, now, confirmed, w) = {}
    BY WindowByWindow
  <2>1. w \in DOMAIN snapshot.windows /\ again.windows[w] = snapshot.windows[w]
    BY DEF Compared, SameContents
  <2>2. snapshot.windows[w].used \in 0..MaxUsed /\ MaxUsed \in Nat
    BY <2>1, ObserverAssumption DEF IInv, WindowsInOrder
  <2>3. ~(again.windows[w].used < snapshot.windows[w].used)
    BY <2>1, <2>2
  <2>4. ~ResetEvidence(snapshot.windows[w], again.windows[w])
    BY <2>3 DEF ResetEvidence, UsageDropped
  <2>5. snapshot.windows[w].duration = again.windows[w].duration
    BY <2>1
  <2> QED  BY <2>4, <2>5 DEF EventsOf
<1>2. LimitEvents(snapshot, again) = {}
  BY DEF LimitEvents, SameContents
<1>3. UsageEvents(snapshot, again) = {}
  BY DEF UsageEvents, SameContents
<1>4. CreditEvents(again, baseline) = {}
  <2> SUFFICES ASSUME snapshot.creditStatus = "known"
               PROVE  ~(again.available > baseline.available) /\ Fresh(again, baseline) = {}
    BY DEF CreditEvents, SameContents
  <2>1. /\ again.available = baseline.available
        /\ baseline.available \in Nat /\ baseline.observed \in Nat
    BY DEF Covered, SameContents
  <2>2. DetailSet(again) = DetailSet(snapshot)
    BY DEF DetailSet, SameContents
  <2>3. \A c \in DetailSet(again) : c.granted \in Nat /\ c.granted <= baseline.observed
    BY <2>2 DEF Covered
  <2>4. \A c \in DetailSet(again) : ~(c.granted > baseline.observed)
    BY <2>1, <2>3
  <2>5. Fresh(again, baseline) = {}
    BY <2>4 DEF Fresh
  <2> QED  BY <2>1, <2>5
<1> QED  BY <1>1, <1>2, <1>3, <1>4 DEF AnalyzeChanges

\* What has been announced stays said: whatever was left out of earlier replies
\* and whichever grants have been forgotten, the kept reading announces nothing
\* when it is read again.
THEOREM UnchangedStaysQuiet == ObserverSpec => []UnchangedIsQuiet
<1>1. ObserverInit => Covered
  BY DEF ObserverInit, Covered
<1>2. IInv /\ Covered /\ [ObserverNext]_observerVars => Covered'
  BY NextKeepsCovered
<1>3. IInv /\ Covered => UnchangedIsQuiet
  BY CoveredIsQuiet
<1> QED  BY <1>1, <1>2, <1>3, IInvAlways, PTL DEF ObserverSpec
=============================================================================
