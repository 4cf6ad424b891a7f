------------------------------ MODULE Delivery ------------------------------
(***************************************************************************)
(* delivery.OutboxDelivery: the loop that sends the outbox to the owner's  *)
(* chat.  Telegram is outside this code: it takes a message into the chat, *)
(* and its answer may be lost, so that the loop takes an accepted message  *)
(* for a failed one and sends it again.                                    *)
(***************************************************************************)
EXTENDS AppState

CONSTANT MaxUnheard    \* bound on the answers of Telegram that get lost
ASSUME UnheardAssumption == MaxUnheard \in Nat

VARIABLES phase,    \* where the loop stands
          inHand,   \* the id of the item being sent
          chat,     \* the messages in the owner's chat, oldest first
          unheard   \* messages Telegram took without the loop learning of it

deliveryVars == <<st, phase, inHand, chat, unheard>>

\* top: choosing an item; waiting: none was ready; sending: send_message is
\* awaited; accepted: it is awaited and Telegram has taken the message.
Phases == {"top", "waiting", "sending", "accepted"}

DeliveryTypeOK ==
    /\ phase \in Phases
    /\ inHand \subseteq Event
    /\ chat \in Seq(SUBSET Event)
    /\ unheard \in Nat

DeliveryInit == phase = "top" /\ inHand = {} /\ chat = <<>> /\ unheard = 0

Ready(i) == st.outbox[i].ready

\* The loop takes the first item whose not_before has passed; when there is
\* none it waits for a wake-up or for thirty seconds, and looks again.
Pick ==
    /\ phase \in {"top", "waiting"}
    /\ \E i \in DOMAIN st.outbox :
        /\ Ready(i) /\ \A j \in 1..(i - 1) : ~Ready(j)
        /\ inHand' = st.outbox[i].events
    /\ phase' = "sending"
    /\ UNCHANGED <<st, chat, unheard>>

Wait ==
    /\ phase = "top"
    /\ \A i \in DOMAIN st.outbox : ~Ready(i)
    /\ phase' = "waiting"
    /\ UNCHANGED <<st, inHand, chat, unheard>>

\* Telegram takes the message.
Accept ==
    /\ phase = "sending"
    /\ chat' = Append(chat, inHand)
    /\ phase' = "accepted"
    /\ UNCHANGED <<st, inHand, unheard>>

\* The other items, in their order: the n-th of them is the one with n of them
\* up to its place.
WithoutItem(outbox, id) ==
    LET kept == {i \in DOMAIN outbox : outbox[i].events # id}
        place(n) == CHOOSE i \in kept : Cardinality({j \in kept : j <= i}) = n
    IN  [n \in 1..Cardinality(kept) |-> outbox[place(n)]]

\* Mutant of Acknowledge: the change is made to a copy and never stored.
AcknowledgeCopy ==
    /\ phase = "accepted"
    /\ phase' = "top" /\ inHand' = {}
    /\ UNCHANGED <<st, chat, unheard>>

\* send_message returns: the item leaves the outbox.
Acknowledge ==
    /\ phase = "accepted"
    /\ st' = [st EXCEPT !.outbox = WithoutItem(@, inHand)]
    /\ phase' = "top" /\ inHand' = {}
    /\ UNCHANGED <<chat, unheard>>

\* Mutant of Postponed: a failed item is dropped.
PostponedAway(outbox, id) == WithoutItem(outbox, id)

\* _postpone: the first entry with this id gets a later not_before.
Postponed(outbox, id) ==
    [i \in DOMAIN outbox |->
        IF outbox[i].events = id /\ \A j \in 1..(i - 1) : outbox[j].events # id
        THEN [outbox[i] EXCEPT !.ready = FALSE] ELSE outbox[i]]

\* send_message raises: flood control, a blocked bot, the network, anything.
Postpone ==
    /\ st' = [st EXCEPT !.outbox = Postponed(@, inHand)]
    /\ phase' = "top" /\ inHand' = {}
    /\ UNCHANGED chat

\* Mutant of Refused: an error that the loop does not expect ends its task.
RefusedUncaught == phase = "sending" /\ phase' = "ended" /\ UNCHANGED <<st, inHand, chat, unheard>>

Refused == phase = "sending" /\ Postpone /\ UNCHANGED unheard

\* The network fails after Telegram has taken the message.
AnswerLost ==
    /\ phase = "accepted" /\ unheard < MaxUnheard
    /\ Postpone
    /\ unheard' = unheard + 1

\* not_before passes.  It lies a second or more in the future when it is set
\* and the loop chooses its next item without a pause, so never at the top.
RetryDue ==
    /\ phase # "top"
    /\ \E i \in DOMAIN st.outbox :
        /\ ~Ready(i)
        /\ st' = [st EXCEPT !.outbox[i].ready = TRUE]
    /\ UNCHANGED <<phase, inHand, chat, unheard>>

DeliveryNext ==
    Pick \/ Wait \/ Accept \/ Acknowledge \/ Refused \/ AnswerLost \/ RetryDue
=============================================================================
