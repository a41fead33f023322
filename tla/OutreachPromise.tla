--------------------------- MODULE OutreachPromise ---------------------------
(***************************************************************************)
(* What the outreach workflow promises, without requests, queues, Gmail or *)
(* crashes: how often a message may be handed to the provider, when, and   *)
(* what becomes of the answer.                                             *)
(*                                                                         *)
(* An attempt is made only for an open person.  It ends confirmed, or lost *)
(* to uncertainty, or settled by the operator.  The operator settles a     *)
(* message once; only a settlement as not sent permits a second attempt,   *)
(* and a settlement as sent enters the ledger in the same step.  Nothing   *)
(* leaves the ledger and no closed person is reopened.                     *)
(***************************************************************************)
EXTENDS Naturals

CONSTANTS
  Messages,   \* what may be sent
  People,
  RecipientOf \* the person a message is for

VARIABLES
  outcome,   \* of the latest attempt
  attempts,  \* calls handed to the provider
  settled,   \* messages the operator has settled
  ledger,    \* messages recorded as contacts
  closed     \* people to whom nothing more is sent

vars == <<outcome, attempts, settled, ledger, closed>>

Init ==
  /\ outcome = [m \in Messages |-> "not-sent"]
  /\ attempts = [m \in Messages |-> 0]
  /\ settled = {}
  /\ ledger = {}
  /\ closed = {}

\* Closing is always permitted, reopening never.
Grow == closed \subseteq closed'

Attempt(m) ==
  /\ outcome[m] = "not-sent"
  /\ attempts[m] = 0 \/ (attempts[m] = 1 /\ m \in settled)
  /\ RecipientOf[m] \notin closed
  /\ outcome' = [outcome EXCEPT ![m] = "sending"]
  /\ attempts' = [attempts EXCEPT ![m] = @ + 1]
  /\ Grow /\ UNCHANGED <<settled, ledger>>

Confirm(m) ==
  /\ outcome[m] = "sending"
  /\ outcome' = [outcome EXCEPT ![m] = "sent"]
  /\ Grow /\ UNCHANGED <<attempts, settled, ledger>>

LoseTrack(m) ==
  /\ outcome[m] = "sending"
  /\ outcome' = [outcome EXCEPT ![m] = "send-status-uncertain"]
  /\ Grow /\ UNCHANGED <<attempts, settled, ledger>>

Settle(m, verdict) ==
  /\ outcome[m] \in {"sending", "send-status-uncertain"}
  /\ m \notin settled
  /\ outcome' = [outcome EXCEPT ![m] = verdict]
  /\ settled' = settled \cup {m}
  /\ ledger' = IF verdict = "sent" THEN ledger \cup {m} ELSE ledger
  /\ Grow /\ UNCHANGED attempts

Enter(m) ==
  /\ ledger' = ledger \cup {m}
  /\ Grow /\ UNCHANGED <<outcome, attempts, settled>>

Close == Grow /\ UNCHANGED <<outcome, attempts, settled, ledger>>

Next ==
  \/ \E m \in Messages :
       \/ Attempt(m) \/ Confirm(m) \/ LoseTrack(m) \/ Enter(m)
       \/ \E verdict \in {"sent", "not-sent"} : Settle(m, verdict)
  \/ Close

Spec == Init /\ [][Next]_vars
=============================================================================
