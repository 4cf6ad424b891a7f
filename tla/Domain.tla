-------------------------------- MODULE Domain --------------------------------
(***************************************************************************)
(* domain.py: what a reply of the App Server is taken to say, and which    *)
(* events follow from two readings.  Pure operators, without state.        *)
(*                                                                         *)
(* A reply is a record: `windows' gives for each window its used percent,  *)
(* duration and reset time, None for a value that is not an integer, of    *)
(* rateLimitsByLimitId or else of the older rateLimits (domain.py:74-81);  *)
(* `limit' is what the backend says of the limit; `usage' and `credits'    *)
(* are "absent", "null" or a value.  An event is its kind with the         *)
(* evidence its id digests (make_event).                                   *)
(***************************************************************************)
EXTENDS Integers, Sequences, FiniteSets

CONSTANTS None,
          Tolerance,   \* how early a reset is still the expected one, 120 s in the code
          Day,         \* how early a reminder is sent, 86400 s in the code
          GrantLimit   \* bound on the remembered grants, 200 in the code
ASSUME ScalesAssumption == Tolerance \in Nat /\ Day \in Nat \ {0} /\ GrantLimit \in Nat \ {0}

-----------------------------------------------------------------------------
(* normalize_snapshot *)

\* A window without an integer usedPercent is left out.
Windows(reply) ==
    [w \in {w \in DOMAIN reply.windows : reply.windows[w].used # None} |-> reply.windows[w]]

\* "unsupported", "unknown", or what is known.
Known(field) ==
    CASE field = "absent" -> "unsupported"
      [] field \in {"null", "odd"} -> "unknown"
      [] OTHER -> "known"

UsageStatus(reply) == Known(reply.usage)
CreditStatus(reply) == Known(reply.credits.kind)

\* Rows that lack a required key are skipped; without a list there are no details.
Details(reply) ==
    IF reply.credits.kind # "summary" \/ reply.credits.rows = None THEN None
    ELSE {row.credit : row \in {r \in reply.credits.rows : r.whole}}

Normalize(reply, observed) ==
    [observed |-> observed,
     windows |-> Windows(reply),
     limit |-> reply.limit,
     usageStatus |-> UsageStatus(reply),
     usageAllowed |-> reply.usage = "allowed",
     creditStatus |-> CreditStatus(reply),
     available |-> IF reply.credits.kind = "summary" THEN reply.credits.count ELSE None,
     details |-> Details(reply)]

DetailSet(snapshot) == IF snapshot.details = None THEN {} ELSE snapshot.details

-----------------------------------------------------------------------------
(* _credit_baseline *)

\* Mutant of Trimmed: nothing is forgotten.
TrimmedNever(grants) == grants

\* The newest GrantLimit of them, by the time they were granted.
Trimmed(grants) ==
    IF Cardinality(grants) <= GrantLimit THEN grants
    ELSE CHOOSE kept \in SUBSET grants :
            /\ Cardinality(kept) = GrantLimit
            /\ \A k \in kept, g \in grants \ kept : k.granted >= g.granted

Grants(snapshot) == {[id |-> c.id, granted |-> c.granted] : c \in DetailSet(snapshot)}

CreditBaseline(snapshot, old) ==
    IF snapshot.creditStatus # "known" THEN old
    ELSE [observed |-> snapshot.observed,
          available |-> snapshot.available,
          grants |-> Trimmed(Grants(snapshot) \cup IF old = None THEN {} ELSE old.grants)]

-----------------------------------------------------------------------------
(* analyze_changes *)

Changed(kind, evidence) == <<kind>> \o evidence

ResetAdvanced(previous, current) ==
    previous.resets # None /\ current.resets # None /\ current.resets > previous.resets

UsageDropped(previous, current) == current.used < previous.used

\* Mutant of ResetEvidence: a window of another length is compared as well.
ResetEvidenceAnyLength(previous, current) ==
    ResetAdvanced(previous, current) /\ UsageDropped(previous, current)

ResetEvidence(previous, current) ==
    /\ ResetAdvanced(previous, current) /\ UsageDropped(previous, current)
    /\ previous.duration = current.duration

Expected(previous, now) == now >= previous.resets - Tolerance

Compared(old, new) == DOMAIN old.windows \cap DOMAIN new.windows

WindowEvents(old, new, now, confirmed) ==
    UNION {LET previous == old.windows[w]
               current == new.windows[w]
               evidence == <<w, previous.resets, current.resets, previous.used, current.used>>
           IN  IF ResetEvidence(previous, current)
               THEN IF Expected(previous, now) THEN {Changed("window_reset", evidence)}
                    ELSE IF confirmed THEN {Changed("window_changed_early", evidence)}
                    ELSE {}
               ELSE IF previous.duration # current.duration
               THEN {Changed("window_duration_changed", <<w, current.duration, current.resets>>)}
               ELSE {} : w \in Compared(old, new)}

NeedsConfirmation(old, new, now) ==
    old # None /\ \E w \in Compared(old, new) :
        ResetEvidence(old.windows[w], new.windows[w]) /\ ~Expected(old.windows[w], now)

\* The evidence is the new status alone.
LimitEvents(old, new) ==
    IF old.limit # new.limit THEN {Changed("backend_limit_status_changed", <<new.limit>>)} ELSE {}

UsageEvents(old, new) ==
    IF /\ old.usageStatus = "known" /\ new.usageStatus = "known"
       /\ ~old.usageAllowed /\ new.usageAllowed
    THEN {Changed("usage_restored_backend", <<new.observed>>)} ELSE {}

\* Mutant of Fresh: every grant that is not remembered is new.
FreshUnknown(new, baseline) ==
    {c.id : c \in {d \in DetailSet(new) : \A g \in baseline.grants : g.id # d.id}}

\* Grants that are neither remembered nor older than the last known reading.
Fresh(new, baseline) ==
    {c.id : c \in {d \in DetailSet(new) : /\ \A g \in baseline.grants : g.id # d.id
                                          /\ d.granted > baseline.observed}}

\* Mutant of GrantEvidence: without the ids of the new credits.
GrantEvidenceCounts(new, baseline) == <<baseline.available, new.available>>

GrantEvidence(new, baseline) == <<baseline.available, new.available, Fresh(new, baseline)>>

CreditEvents(new, baseline) ==
    IF /\ new.creditStatus = "known" /\ baseline # None
       /\ new.available > baseline.available \/ Fresh(new, baseline) # {}
    THEN {Changed("reset_credit_granted", GrantEvidence(new, baseline))} ELSE {}

AnalyzeChanges(old, new, baseline, now, confirmed) ==
    IF old = None THEN {}
    ELSE WindowEvents(old, new, now, confirmed) \cup LimitEvents(old, new)
         \cup UsageEvents(old, new) \cup CreditEvents(new, baseline)

\* credit_expiry_events
CreditExpiryEvents(snapshot, now) ==
    {Changed("credit_expiring", <<c.id, c.expires>>) :
        c \in {d \in DetailSet(snapshot) : /\ d.status = "available" /\ d.expires # None
                                           /\ d.expires - now \in 1..Day}}
=============================================================================
