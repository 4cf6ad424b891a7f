------------------------------- MODULE Mailbox -------------------------------
(***************************************************************************)
(* What the notification pipeline promises the owner, without checks,      *)
(* retries or crashes: a notice is pending until it has been delivered at  *)
(* least once, and only when another account, or none, is connected are    *)
(* the pending notices discarded.                                          *)
(***************************************************************************)
CONSTANT Nobody

VARIABLES pending,    \* the notices that must still be delivered
          carried,    \* the notice on its way, if any, as a set
          delivered,  \* the notices the owner has received
          addressee   \* the account the notices are about, or Nobody

mailboxVars == <<pending, carried, delivered, addressee>>

MailboxInit == pending = {} /\ carried = {} /\ delivered = {}

New(notice) == notice \notin pending \cup delivered

\* A notice is posted, one that was never posted before.
Post ==
    /\ \E notice \in pending' : New(notice) /\ pending' = pending \cup {notice}
    /\ UNCHANGED <<carried, delivered>>

\* The pending notices are discarded, perhaps for a first one of the new account.
Switch ==
    /\ addressee' # addressee \/ addressee' = Nobody
    /\ pending' = {} \/ \E notice \in pending' : New(notice) /\ pending' = {notice}
    /\ UNCHANGED <<carried, delivered>>

\* The account is recorded, changed or forgotten with nothing to discard.
Rename == UNCHANGED <<pending, carried, delivered>>

PickUp ==
    /\ carried = {}
    /\ \E notice \in pending : carried' = {notice}
    /\ UNCHANGED <<pending, delivered, addressee>>

Deliver ==
    /\ carried # {}
    /\ delivered' = delivered \cup carried
    /\ UNCHANGED <<pending, carried, addressee>>

\* The carrier gives up, and what is pending stays pending.
GiveUp ==
    /\ carried' = {}
    /\ UNCHANGED <<pending, delivered, addressee>>

\* A notice is struck off only once it has been delivered.
StrikeOff ==
    /\ carried \subseteq delivered
    /\ pending' = pending \ carried /\ carried' = {}
    /\ UNCHANGED <<delivered, addressee>>

MailboxNext == Post \/ Switch \/ Rename \/ PickUp \/ Deliver \/ GiveUp \/ StrikeOff

MailboxSpec == MailboxInit /\ [][MailboxNext]_mailboxVars
=============================================================================
