------------------------ MODULE BookingCommunications ------------------------
(***************************************************************************)
(* What follows a change of one booking: the message to the customer, the  *)
(* secure status link it carries, and the request to cancel that the       *)
(* customer may file through the link.                                     *)
(*                                                                         *)
(* Nothing here is one transaction.  A handler changes the booking, then   *)
(* the cancellation request, then finds or issues a link, announces the    *)
(* message in booking_communications, hands it to the gateway and records  *)
(* the outcome; each is a statement of its own, so the driver makes no     *)
(* difference, and the process may stop in between.  One channel stands    *)
(* for the two (email, SMS), which do not meet.                            *)
(*                                                                         *)
(* A booking with a link, a message or a request is protected history:     *)
(* deleteSpaceSchedule refuses it.                                         *)
(***************************************************************************)
EXTENDS Transactions, Sequences, Functions

CONSTANTS
    MaxCancellations,  \* bound: cancellation requests
    MaxTokens,         \* bound: status links
    MaxChanges,        \* bound: lifecycle changes
    MaxMessages        \* bound: messages

ASSUME CommunicationsAssumption ==
    MaxCancellations \in Nat /\ MaxTokens \in Nat
    /\ MaxChanges \in Nat /\ MaxMessages \in Nat

VARIABLES
    booking,        \* space_schedules.status
    started,        \* has the hour of the booking begun?
    changes,        \* booking_request_changes, counted
    cancellations,  \* the statuses of booking_cancellation_requests, by id
    tokens,         \* the states of booking_access_tokens, by id
    outbox,         \* booking_communications, from event key to status
    delivered       \* how often the gateway took the message of a key

communications == <<booking, started, changes, cancellations, tokens, outbox, delivered>>
----------------------------------------------------------------------------
Awaiting == {"pending", "held", "reschedule_pending"}

Pending == {i \in DOMAIN cancellations : cancellations[i] = "pending"}

\* A link works while it is active and not past its time.
Working == {i \in DOMAIN tokens : tokens[i] = "active"}

\* The keys are schedule:<id>:<event>:change:<id>, :req:<id>, or a time for a
\* message that is sent again.
Key(event, id) == [event |-> event, id |-> id]

Send(key) == [op |-> "send", key |-> key]

CommunicationsInit ==
    /\ booking \in {"pending", "confirmed"}  \* asked for, or entered at the desk
    /\ started = FALSE
    /\ changes = 0
    /\ cancellations = <<>>
    /\ tokens = <<>>
    /\ outbox = <<>>
    /\ delivered = <<>>
----------------------------------------------------------------------------
(* Changes of the booking *)

\* One row and its history in a transaction that compares the old status.
Transition(r, to, next) ==
    /\ changes < MaxChanges
    /\ booking' = to
    /\ changes' = changes + 1
    /\ Proceed(r, next)

Announced(event) == Send(Key(event, changes + 1))

\* confirmBookingRequestHandler
ConfirmRequest(r) ==
    /\ ~IsOpen(r) /\ booking \in Awaiting /\ ~started
    /\ Transition(r, "confirmed", Announced("confirmed"))
    /\ UNCHANGED <<started, cancellations, tokens, outbox, delivered>>

\* rejectBookingRequestHandler
RejectRequest(r) ==
    /\ ~IsOpen(r) /\ booking \in Awaiting
    /\ Transition(r, "rejected", Announced("rejected"))
    /\ UNCHANGED <<started, cancellations, tokens, outbox, delivered>>

\* holdBookingRequestHandler
HoldRequest(r) ==
    /\ ~IsOpen(r) /\ booking \in Awaiting
    /\ Transition(r, "held", Announced("held"))
    /\ UNCHANGED <<started, cancellations, tokens, outbox, delivered>>

\* rescheduleBookingRequestHandler
Reschedule(r) ==
    /\ ~IsOpen(r) /\ booking \in Awaiting /\ ~started
    /\ Transition(r, "reschedule_pending", Announced("rescheduled_pending"))
    /\ UNCHANGED <<started, cancellations, tokens, outbox, delivered>>

\* rescheduleAndConfirmBookingRequestHandler
RescheduleAndConfirm(r) ==
    /\ ~IsOpen(r) /\ booking \in Awaiting /\ ~started
    /\ Transition(r, "confirmed", Announced("rescheduled_confirmed"))
    /\ UNCHANGED <<started, cancellations, tokens, outbox, delivered>>

\* expireOverdueBookingRequests, which also runs when a customer opens a link
ExpireRequest(r) ==
    /\ ~IsOpen(r) /\ booking \in Awaiting /\ started
    /\ Transition(r, "expired", Announced("expired"))
    /\ UNCHANGED <<started, cancellations, tokens, outbox, delivered>>

\* transitionManagedBookingStatus, case bookingStatusCancelled
MayCancel == booking \in Awaiting \/ (booking = "confirmed" /\ ~started)

\* cancelBookingHandler, which goes on to close whatever request is pending
CancelBooking(r) ==
    /\ ~IsOpen(r) /\ MayCancel
    /\ Transition(r, "cancelled", [op |-> "close", only |-> 0,
                                   key |-> Key("cancelled_by_admin", changes + 1)])
    /\ UNCHANGED <<started, cancellations, tokens, outbox, delivered>>

\* completeBookingHandler
CompleteBooking(r) ==
    /\ ~IsOpen(r) /\ booking = "confirmed" /\ started
    /\ Transition(r, "completed", Announced("completed"))
    /\ UNCHANGED <<started, cancellations, tokens, outbox, delivered>>

\* noShowBookingHandler
NoShow(r) ==
    /\ ~IsOpen(r) /\ booking = "confirmed" /\ started
    /\ Transition(r, "no_show", Announced("no_show"))
    /\ UNCHANGED <<started, cancellations, tokens, outbox, delivered>>

HourBegins ==
    /\ ~started /\ started' = TRUE
    /\ UNCHANGED <<driver, tx, booking, changes, cancellations, tokens, outbox, delivered>>
----------------------------------------------------------------------------
(* Requests to cancel *)

\* publicBookingCancellationRequestHandler looks at the link, the booking and
\* the requests there are, then opens a transaction.
LookToRequest(r) ==
    /\ Working # {} /\ booking = "confirmed" /\ ~started /\ Pending = {}
    /\ Look(r, [op |-> "request"])
    /\ UNCHANGED communications

\* idx_booking_cancellation_requests_pending
MayFile == Pending = {}

FileRequest(r) ==
    /\ tx[r].op = "request" /\ MayFile
    /\ Len(cancellations) < MaxCancellations /\ changes < MaxChanges
    /\ cancellations' = Append(cancellations, "pending")
    /\ changes' = changes + 1
    /\ Proceed(r, Send(Key("cancellation_requested", Len(cancellations) + 1)))
    /\ UNCHANGED <<booking, started, tokens, outbox, delivered>>

\* approveBookingCancellationRequestHandler: looks at the request, cancels the
\* booking, and closes the request if it is pending still.
LookToApproveRequest(r, i) ==
    /\ cancellations[i] = "pending"
    /\ Look(r, [op |-> "approve", id |-> i])
    /\ UNCHANGED communications

\* Mutant of Approve: the request is closed whatever became of the booking.
ApproveAnyway(r) ==
    /\ tx[r].op = "approve"
    /\ Transition(r, IF MayCancel THEN "cancelled" ELSE booking,
                  [op |-> "close", only |-> tx[r].id,
                   key |-> Key("cancellation_approved", changes + 1)])
    /\ UNCHANGED <<started, cancellations, tokens, outbox, delivered>>

Approve(r) ==
    /\ tx[r].op = "approve" /\ MayCancel
    /\ Transition(r, "cancelled", [op |-> "close", only |-> tx[r].id,
                                   key |-> Key("cancellation_approved", changes + 1)])
    /\ UNCHANGED <<started, cancellations, tokens, outbox, delivered>>

CloseRequest(r) ==
    /\ tx[r].op = "close"
    /\ cancellations' = [i \in DOMAIN cancellations |->
                            IF i \in Pending /\ tx[r].only \in {0, i} THEN "approved"
                            ELSE cancellations[i]]
    /\ Proceed(r, Send(tx[r].key))
    /\ UNCHANGED <<booking, started, changes, tokens, outbox, delivered>>

\* rejectBookingCancellationRequestHandler: looks at the request, rejects it if
\* it is pending still, and tells the customer either way.
LookToReject(r, i) ==
    /\ cancellations[i] = "pending"
    /\ Look(r, [op |-> "reject", id |-> i])
    /\ UNCHANGED communications

Reject(r) ==
    /\ tx[r].op = "reject" /\ changes < MaxChanges
    /\ cancellations' = [cancellations EXCEPT ![tx[r].id] =
                            IF @ = "pending" THEN "rejected" ELSE @]
    /\ changes' = changes + 1
    /\ Proceed(r, Send(Key("cancellation_rejected", tx[r].id)))
    /\ UNCHANGED <<booking, started, tokens, outbox, delivered>>
----------------------------------------------------------------------------
(* Status links *)

\* The query of ensureActiveBookingAccessToken, and its INSERT
FindToken(r) ==
    /\ tx[r].op = "send"
    /\ Proceed(r, [op |-> IF Working = {} THEN "issue" ELSE "announce", key |-> tx[r].key])
    /\ UNCHANGED communications

IssueToken(r) ==
    /\ tx[r].op = "issue" /\ Len(tokens) < MaxTokens
    /\ tokens' = Append(tokens, "active")
    /\ Proceed(r, [op |-> "announce", key |-> tx[r].key])
    /\ UNCHANGED <<booking, started, changes, cancellations, outbox, delivered>>

Revoked == [i \in DOMAIN tokens |-> "revoked"]

\* revokeBookingAccessHandler
RevokeAccess ==
    /\ tokens' = Revoked
    /\ UNCHANGED <<driver, tx, booking, started, changes, cancellations, outbox, delivered>>

\* rotateBookingAccessHandler; the key of no message ends the request once it
\* has a link.
RotateAccess(r) ==
    /\ ~IsOpen(r)
    /\ tokens' = Revoked
    /\ Proceed(r, Send(Key("none", 0)))
    /\ UNCHANGED <<booking, started, changes, cancellations, outbox, delivered>>

\* bookingAccessTokenExpiry lies after the day of the booking.
TokenExpires(i) ==
    /\ started /\ tokens[i] = "active"
    /\ tokens' = [tokens EXCEPT ![i] = "expired"]
    /\ UNCHANGED <<driver, tx, booking, started, changes, cancellations, outbox, delivered>>
----------------------------------------------------------------------------
(* Messages: sendBookingCommunicationEvent *)

\* idx_booking_communications_event_channel
IsDuplicate(key) == key \in DOMAIN outbox

\* createPendingBookingCommunication
Announce(r) ==
    /\ tx[r].op = "announce"
    /\ IF tx[r].key.event = "none" \/ IsDuplicate(tx[r].key)
       THEN End({r}) /\ UNCHANGED outbox
       ELSE /\ Cardinality(DOMAIN outbox \cup {tx[r].key}) <= MaxMessages
            /\ Proceed(r, [op |-> "deliver", key |-> tx[r].key])
            /\ outbox' = [k \in DOMAIN outbox \cup {tx[r].key} |->
                            IF k = tx[r].key THEN "pending" ELSE outbox[k]]
    /\ UNCHANGED <<booking, started, changes, cancellations, tokens, delivered>>

Times(key) == IF key \in DOMAIN delivered THEN delivered[key] ELSE 0

\* deliverBookingCommunicationDispatch: an error may come after the gateway has
\* taken the message.
Deliver(r) ==
    /\ tx[r].op = "deliver"
    /\ \E taken \in BOOLEAN, outcome \in {"sent", "failed"} :
        /\ outcome = "sent" => taken
        /\ delivered' = [k \in DOMAIN delivered \cup {tx[r].key} |->
                            Times(k) + (IF k = tx[r].key /\ taken THEN 1 ELSE 0)]
        /\ Proceed(r, [op |-> "complete", key |-> tx[r].key, outcome |-> outcome])
    /\ UNCHANGED <<booking, started, changes, cancellations, tokens, outbox>>

\* completeBookingCommunicationAttempt
RecordOutcome(r) ==
    /\ tx[r].op = "complete"
    /\ outbox' = [outbox EXCEPT ![tx[r].key] = tx[r].outcome]
    /\ End({r})
    /\ UNCHANGED <<booking, started, changes, cancellations, tokens, delivered>>

\* latestResendableEventType is not empty.
Resendable == booking \in {"confirmed", "cancelled", "completed", "rejected", "pending"}

\* resendBookingCommunicationHandler: a message of its own
Resend(r) ==
    /\ ~IsOpen(r) /\ Resendable
    /\ Proceed(r, Send([event |-> "resent", by |-> r, id |-> Cardinality(DOMAIN outbox)]))
    /\ UNCHANGED communications
----------------------------------------------------------------------------
CommunicationsNext ==
    \/ \E r \in Request :
        \/ ConfirmRequest(r) \/ RejectRequest(r) \/ HoldRequest(r) \/ ExpireRequest(r)
        \/ Reschedule(r) \/ RescheduleAndConfirm(r)
        \/ CancelBooking(r) \/ CompleteBooking(r) \/ NoShow(r)
        \/ LookToRequest(r) \/ FileRequest(r)
        \/ \E i \in DOMAIN cancellations : LookToApproveRequest(r, i) \/ LookToReject(r, i)
        \/ Approve(r) \/ CloseRequest(r) \/ Reject(r)
        \/ FindToken(r) \/ IssueToken(r) \/ RotateAccess(r)
        \/ Announce(r) \/ Deliver(r) \/ RecordOutcome(r) \/ Resend(r)
        \/ GiveUp(r) /\ UNCHANGED communications
    \/ HourBegins \/ RevokeAccess
    \/ \E i \in DOMAIN tokens : TokenExpires(i)
----------------------------------------------------------------------------
CommunicationsTypeOK ==
    /\ booking \in Awaiting \cup {"confirmed", "rejected", "cancelled", "expired",
                                  "completed", "no_show"}
    /\ started \in BOOLEAN /\ changes \in 0 .. MaxChanges
    /\ Range(cancellations) \subseteq {"pending", "approved", "rejected"}
    /\ Range(tokens) \subseteq {"active", "revoked", "expired"}
    /\ Range(outbox) \subseteq {"pending", "sent", "failed"}
    /\ DOMAIN delivered \subseteq DOMAIN outbox

\* A cancellation request is approved only if the booking is cancelled, for good:
\* whatever other desks, the clock and the customer do between the statements
\* of approveBookingCancellationRequestHandler and cancelBookingHandler.
ApprovedIsCancelled ==
    (\E i \in DOMAIN cancellations : cancellations[i] = "approved") => booking = "cancelled"

\* At most one cancellation request waits for an answer, although the handler
\* looks for one before its transaction.
OneRequestWaits == Cardinality(Pending) <= 1

\* The customer is told of an event at most once per channel, even if two desks
\* answer the same request or the process stops half way, and a message recorded
\* as sent was sent.
ToldOnce ==
    \A k \in DOMAIN delivered :
        delivered[k] <= 1 /\ (outbox[k] = "sent" => delivered[k] = 1)

\* What the customer asked for, what was done and what they were told agree:
\* OneRequestWaits, ApprovedIsCancelled and ToldOnce hold.
CustomerIsTold == OneRequestWaits /\ ApprovedIsCancelled /\ ToldOnce
=============================================================================
