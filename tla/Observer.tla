------------------------------- MODULE Observer -------------------------------
(***************************************************************************)
(* domain.py at work: an account whose limits and reset credits change on  *)
(* the server, and checks that read them, now and then, through replies    *)
(* that leave things out.  It relates the events to what really happened   *)
(* between two readings.  One account and the order of one check after the *)
(* other; module Monitor has the rest of a check.                          *)
(*                                                                         *)
(* The server is external.  A behaviour is about a window, about credits   *)
(* or about what the backend says of limits and usage (`topic'): the code  *)
(* looks at them apart from each other.                                    *)
(***************************************************************************)
EXTENDS Domain

CONSTANTS MaxTime,     \* bound on the clock
          MaxUsed,     \* usage in steps
          MaxTurns,    \* bound on the resets and changes of plan
          Length,      \* ticks from the start of a window to its reset
          Life,        \* ticks from the grant of a credit to its expiry
          MaxCredits,  \* bound on the credits granted
          MaxRestored  \* bound on how often usage is allowed again
ASSUME ObserverAssumption ==
    {MaxTime, MaxUsed, MaxTurns, Length, Life, MaxCredits, MaxRestored} \subseteq Nat

VARIABLES topic,     \* "window", "credits" or "status"
          clock,     \* the time
          window,    \* the window at the server, its resets and changes of plan
          credits,   \* the credits granted so far, by id
          status,    \* the limit's status, whether usage is allowed, and how
                     \* often it was allowed again
          phase,     \* of the check: "idle", "asked", "sleep" or "askedAgain"
          reply,     \* the reply on its way, with what the server saw
          snapshot,  \* state.snapshot
          baseline,  \* state.credit_baseline
          ids,       \* state.dedupe_event_ids, as a set
          seen       \* what the server saw for snapshot and for baseline

serverVars == <<topic, clock, window, credits, status>>
checkVars == <<phase, reply, snapshot, baseline, ids, seen>>
observerVars == <<serverVars, checkVars>>

Time == 0..MaxTime
Resets == 0..(MaxTime + Length + 1)
CreditIds == 1..MaxCredits
CreditType == [id : CreditIds, status : {"available", "redeemed"}, granted : Time,
               expires : 0..(MaxTime + Life)]

\* What a reply can be, with what the server saw when it composed it.
WindowReadings ==
    {<< >>} \cup [primary : [used : (0..MaxUsed) \cup {None}, resets : Resets, duration : {1, 2}]]
CreditReading ==
    [kind : {"absent", "null", "odd", "summary"}, count : Nat,
     rows : {None} \cup SUBSET [credit : [id : CreditIds,
                                         status : {"available", "redeemed", "expired"},
                                         granted : Time, expires : 0..(MaxTime + Life)],
                               whole : BOOLEAN]]
ReplyType ==
    [windows : WindowReadings, limit : {"none", "reached"},
     usage : {"absent", "null", "odd", "allowed", "denied"}, credits : CreditReading,
     epoch : Nat, plans : Nat, granted : Nat, restored : Nat]
ASSUME NoneAssumption == None \notin Nat \cup ReplyType

\* A kept reading has nothing of a reply that is not in it.
ObserverTypeOK ==
    /\ clock \in Time
    /\ window.used \in 0..MaxUsed /\ window.resets \in Resets
    /\ window.duration \in {1, 2} /\ window.epoch + window.plans <= MaxTurns
    /\ \A i \in DOMAIN credits : credits[i] \in CreditType /\ credits[i].id = i
    /\ reply = None <=> phase \in {"idle", "sleep"}
    /\ reply # None => reply \in ReplyType
    /\ snapshot # None =>
        /\ \A w \in DOMAIN snapshot.windows : snapshot.windows[w].used # None
        /\ (snapshot.available # None) <=> (snapshot.creditStatus = "known")
        /\ snapshot.details # None => snapshot.creditStatus = "known"
    /\ baseline # None => Cardinality(baseline.grants) <= GrantLimit
                          /\ baseline.observed <= snapshot.observed
    /\ status.limit \in {"none", "reached"} /\ status.allowed \in BOOLEAN
    /\ seen.restored <= status.restored
    /\ seen.epoch <= window.epoch /\ seen.granted <= Len(credits)

ObserverInit ==
    /\ topic \in {"window", "credits", "status"}
    /\ clock = 0
    /\ window = [used |-> 0, resets |-> Length, duration |-> 1, epoch |-> 0, plans |-> 0]
    /\ credits = << >>
    /\ status = [limit |-> "none", allowed |-> TRUE, restored |-> 0]
    /\ phase = "idle" /\ reply = None
    /\ snapshot = None /\ baseline = None /\ ids = {}
    /\ seen = [epoch |-> 0, plans |-> 0, granted |-> 0, restored |-> 0]

-----------------------------------------------------------------------------
(* The server *)

Tick ==
    /\ clock < MaxTime /\ clock' = clock + 1
    /\ UNCHANGED <<topic, window, credits, status, checkVars>>

\* Usage grows within a window; only a reset or another plan lowers it.
Use ==
    /\ topic = "window" /\ window.used < MaxUsed
    /\ window' = [window EXCEPT !.used = @ + 1]
    /\ UNCHANGED <<topic, clock, credits, status, checkVars>>

Turns == window.epoch + window.plans < MaxTurns

\* A reset, at its time or earlier.
WindowResets ==
    /\ topic = "window" /\ Turns
    /\ window' = [window EXCEPT !.used = 0, !.resets = clock + Length, !.epoch = @ + 1]
    /\ UNCHANGED <<topic, clock, credits, status, checkVars>>

\* The reset time is corrected; nothing is reset.
ResetMoves ==
    /\ topic = "window" /\ window.resets <= clock + Length
    /\ window' = [window EXCEPT !.resets = @ + 1]
    /\ UNCHANGED <<topic, clock, credits, status, checkVars>>

\* Another plan: a window of another length, and so another percentage.
PlanChanges ==
    /\ topic = "window" /\ Turns
    /\ \E used \in 0..MaxUsed :
        window' = [window EXCEPT !.duration = 3 - @, !.used = used, !.resets = clock + Length,
                                   !.plans = @ + 1]
    /\ UNCHANGED <<topic, clock, credits, status, checkVars>>

Grant ==
    /\ topic = "credits" /\ Len(credits) < MaxCredits
    /\ credits' = Append(credits, [id |-> Len(credits) + 1, status |-> "available",
                                   granted |-> clock, expires |-> clock + Life])
    /\ UNCHANGED <<topic, clock, window, status, checkVars>>

Available == {i \in DOMAIN credits : credits[i].status = "available" /\ credits[i].expires > clock}

Redeem ==
    /\ \E i \in Available : credits' = [credits EXCEPT ![i].status = "redeemed"]
    /\ UNCHANGED <<topic, clock, window, status, checkVars>>

\* Usage is refused or allowed, the limit reached or free again.
StatusChanges ==
    /\ topic = "status" /\ status.restored < MaxRestored
    /\ \/ status' = [status EXCEPT !.allowed = ~@,
                                   !.restored = IF status.allowed THEN @ ELSE @ + 1]
       \/ status' = [status EXCEPT !.limit = IF @ = "none" THEN "reached" ELSE "none"]
    /\ UNCHANGED <<topic, clock, window, credits, checkVars>>

\* What a reply may say: the window, or one without a number; the credits,
\* their number only, their number with rows of which some lack a key, or nothing.
WindowReply(readable) ==
    [primary |-> [used |-> IF readable THEN window.used ELSE None,
                  resets |-> window.resets, duration |-> window.duration]]

\* A credit past its expiry is listed as expired.
Row(credit) == IF credit.expires > clock THEN credit ELSE [credit EXCEPT !.status = "expired"]

CreditReplies ==
    {[kind |-> kind, count |-> 0, rows |-> None] : kind \in {"absent", "null", "odd"}}
    \cup {[kind |-> "summary", count |-> Cardinality(Available), rows |-> None]}
    \cup {[kind |-> "summary", count |-> Cardinality(Available),
           rows |-> {[credit |-> Row(credits[i]), whole |-> i \in whole] : i \in DOMAIN credits}] :
              whole \in {DOMAIN credits, DOMAIN credits \ {Len(credits)}}}

NoCredits == [kind |-> "absent", count |-> 0, rows |-> None]
Reply(windows, limit, usage, creditReply) ==
    [windows |-> windows, limit |-> limit, usage |-> usage, credits |-> creditReply,
     epoch |-> window.epoch, plans |-> window.plans, granted |-> Len(credits), restored |-> status.restored]

Replies ==
    CASE topic = "window"  -> {Reply(WindowReply(r), "none", "absent", NoCredits) : r \in BOOLEAN}
      [] topic = "credits" -> {Reply(<< >>, "none", "absent", c) : c \in CreditReplies}
      [] topic = "status"  -> {Reply(<< >>, status.limit, u, NoCredits) :
                                   u \in {"absent", "null", "odd",
                                          IF status.allowed THEN "allowed" ELSE "denied"}}

\* The server composes its reply; what happens after that is not in it.
Ask ==
    /\ phase \in {"idle", "sleep"}
    /\ phase' = IF phase = "idle" THEN "asked" ELSE "askedAgain"
    /\ reply' \in Replies
    /\ UNCHANGED <<serverVars, snapshot, baseline, ids, seen>>

-----------------------------------------------------------------------------
(* The check *)

Commit(new, confirmed) ==
    LET found == AnalyzeChanges(snapshot, new, baseline, clock, confirmed)
                 \cup CreditExpiryEvents(new, clock)
    IN  /\ phase' = "idle" /\ reply' = None
        /\ snapshot' = new
        /\ baseline' = CreditBaseline(new, baseline)
        /\ ids' = ids \cup found
        /\ seen' = [epoch |-> reply.epoch, plans |-> reply.plans,
                    granted |-> IF new.creditStatus = "known" THEN reply.granted
                                                              ELSE seen.granted,
                    restored |-> reply.restored]

\* A first reply that looks like an early reset is not committed.
Pause ==
    /\ phase = "asked"
    /\ NeedsConfirmation(snapshot, Normalize(reply, clock), clock)
    /\ phase' = "sleep" /\ reply' = None
    /\ UNCHANGED <<serverVars, snapshot, baseline, ids, seen>>

Record ==
    /\ phase = "asked"
    /\ ~NeedsConfirmation(snapshot, Normalize(reply, clock), clock)
    /\ Commit(Normalize(reply, clock), FALSE)
    /\ UNCHANGED serverVars

RecordConfirmed ==
    /\ phase = "askedAgain"
    /\ Commit(Normalize(reply, clock), TRUE)
    /\ UNCHANGED serverVars

\* The check fails, or the program is restarted: nothing is recorded.
CheckFails ==
    /\ phase # "idle" /\ phase' = "idle" /\ reply' = None
    /\ UNCHANGED <<serverVars, snapshot, baseline, ids, seen>>

ObserverNext ==
    \/ Tick \/ Use \/ WindowResets \/ ResetMoves \/ PlanChanges \/ Grant \/ Redeem
    \/ StatusChanges
    \/ Ask \/ Pause \/ Record \/ RecordConfirmed \/ CheckFails

ObserverSpec == ObserverInit /\ [][ObserverNext]_observerVars

-----------------------------------------------------------------------------

\* A reset or a restored usage is announced only if the server has reset the
\* window, or allowed usage again, since the reading it is compared with:
\* corrected reset times, another plan, missing windows and unknown usage
\* announce neither.  Only a plan that was changed and changed back in between
\* cannot be told from a reset (tests/test_domain.py:45,118,132; domain.py:244-251,327-332).
NoFalseRelief ==
    [][\A e \in ids' \ ids :
          /\ e[1] \in {"window_reset", "window_changed_early"} =>
                 reply.epoch > seen.epoch \/ reply.plans > seen.plans + 1
          /\ e[1] = "usage_restored_backend" => reply.restored > seen.restored]_observerVars

\* A grant is announced only if a credit was granted since the last reading
\* that knew the credits, whatever was left out of the readings in between and
\* whichever grants have been forgotten (docs/architecture.md:41-43;
\* tests/test_domain.py:73,98).
NoInventedGrant ==
    [][\A e \in ids' \ ids :
          e[1] = "reset_credit_granted" => reply.granted > seen.granted]_observerVars

\* A credit that was granted after the last known reading and is listed by the
\* next one is announced, also when another one was redeemed meanwhile and when
\* the counts have changed in the same way before (README.md:12; domain.py:341-356).
NoSilentGrant ==
    [][/\ snapshot' # snapshot /\ snapshot # None /\ baseline # None
       /\ \E c \in DetailSet(snapshot') : c.id > seen.granted /\ c.granted > baseline.observed
       => \E e \in ids' \ ids : e[1] = "reset_credit_granted"]_observerVars
=============================================================================
