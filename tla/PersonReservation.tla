-------------------------- MODULE PersonReservation --------------------------
(***************************************************************************)
(* The reservation of a person for a paid Apollo lookup: one row of        *)
(* provider_operations per person (candidate_count = 0) with versioned     *)
(* metadata.  This module is the row and the guarded transitions of        *)
(* SqliteApolloPersonReservationStore, as functions of the row; its state  *)
(* lives in ApolloDiscovery.                                               *)
(***************************************************************************)
EXTENDS Integers

CONSTANTS
  Operations,   \* scoped discovery operations that may own a reservation
  NoOperation

\* observedConsumption null or absent: every reader treats the two alike.
Unknown == -1

Lifecycles == {"absent", "reserved-never-attempted", "reconciliation-required",
               "attempted-result-usable", "released-no-consumption",
               "consumed-no-import", "completed-imported"}

\* stale: updatedAt lies at least the stale window back.  releases: the operator's
\* no-consumption-safe-release events in the audit.
Reservation == [owner : Operations \cup {NoOperation}, lifecycle : Lifecycles,
                stale : BOOLEAN, attempted : BOOLEAN, observed : Nat \cup {Unknown},
                violation : BOOLEAN, retained : BOOLEAN,
                attempts : Nat, releases : Nat]

NoReservation == [owner |-> NoOperation, lifecycle |-> "absent", stale |-> FALSE,
                  attempted |-> FALSE, observed |-> Unknown, violation |-> FALSE,
                  retained |-> FALSE, attempts |-> 0, releases |-> 0]

-----------------------------------------------------------------------------
(* claim: a new row, a stale one that was never attempted, or a released one. *)

ClaimableWhenUncertain(row) == \* mutant: an uncertain lookup may be claimed again
  \/ row.lifecycle \in {"absent", "released-no-consumption", "reconciliation-required"}
  \/ row.lifecycle = "reserved-never-attempted" /\ row.stale
Claimable(row) ==
  \/ row.lifecycle \in {"absent", "released-no-consumption"}
  \/ row.lifecycle = "reserved-never-attempted" /\ row.stale

\* The row's attempt_count and audit survive a new owner; the rest starts over.
Claimed(row, o) ==
  [row EXCEPT !.owner = o, !.lifecycle = "reserved-never-attempted", !.stale = FALSE,
              !.attempted = FALSE, !.observed = Unknown, !.violation = FALSE,
              !.retained = FALSE]

-----------------------------------------------------------------------------
(* The owner's transitions: markAttempted, retainAttempted, releaseUnattempted  *)
(* and markImported.                                                          *)

HeldByAnyone(row, o) == \* mutant: the owner is not checked
  row.lifecycle = "reserved-never-attempted"
HeldUnattempted(row, o) == row.owner = o /\ row.lifecycle = "reserved-never-attempted"

Attempted(row) ==
  [row EXCEPT !.lifecycle = "reconciliation-required", !.stale = FALSE,
              !.attempted = TRUE, !.observed = Unknown, !.attempts = @ + 1]

ReleasedUnattempted(row) ==
  [row EXCEPT !.lifecycle = "released-no-consumption", !.stale = FALSE]

AwaitsOutcome(row, o) == row.owner = o /\ row.lifecycle = "reconciliation-required"

Usable(row, observed, violation) ==
  [row EXCEPT !.lifecycle = "attempted-result-usable", !.observed = observed,
              !.violation = @ \/ violation \/ observed > 1, !.retained = TRUE]

Uncertain(row) == [row EXCEPT !.observed = Unknown, !.retained = FALSE]

\* A second import of the same candidate changes nothing.
MayImport(row, o) ==
  row.owner = o /\ row.lifecycle \in {"attempted-result-usable", "completed-imported"}

Imported(row) == [row EXCEPT !.lifecycle = "completed-imported", !.retained = FALSE]

-----------------------------------------------------------------------------
(* reconcileApolloPersonReservation: the operator's three outcomes.           *)

MayResume(row) == row.lifecycle = "attempted-result-usable" /\ row.retained

MayReleaseUsable(row) == \* mutant: a retained result may be thrown away
  /\ row.lifecycle \in {"reconciliation-required", "attempted-result-usable"}
  /\ row.observed \in {Unknown, 0}
MayRelease(row) == /\ row.lifecycle = "reconciliation-required"
                   /\ row.observed \in {Unknown, 0}

SafelyReleased(row) ==
  [row EXCEPT !.lifecycle = "released-no-consumption", !.observed = 0,
              !.retained = FALSE, !.releases = @ + 1]

MayRecordConsumption(row, n) ==
  /\ n >= 1
  /\ row.lifecycle \in {"reconciliation-required", "attempted-result-usable"}
  /\ row.observed \in {Unknown, n}

Consumed(row, n) ==
  [row EXCEPT !.lifecycle = "consumed-no-import", !.observed = n,
              !.violation = @ \/ n > 1, !.retained = FALSE]
=============================================================================
