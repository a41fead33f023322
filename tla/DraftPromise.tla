---------------------------- MODULE DraftPromise ----------------------------
(***************************************************************************)
(* What the draft queue promises, without generations, dispositions, days  *)
(* or classifications: a candidate is drafted at most once, a company has  *)
(* at most one open draft, and who has left the queue or was excluded from *)
(* it does not come back.                                                  *)
(***************************************************************************)
EXTENDS Naturals

CONSTANTS Cand, CompanyOf

VARIABLES
  queued, \* candidates with an open draft
  closed  \* candidates who were contacted, set aside or excluded

vars == <<queued, closed>>

Init == queued = {} /\ closed = {}

\* Whether all of S may have an open draft next to those of Q.
Together(S, Q) == \A c \in S, d \in S \cup Q : CompanyOf[c] = CompanyOf[d] => c = d

Enter(S) ==
  /\ S \cap (queued \cup closed) = {} /\ Together(S, queued)
  /\ queued' = queued \cup S
  /\ UNCHANGED closed

\* The draft of d takes the place of that of c, in one step.
Replace(c, d) ==
  /\ c \in queued /\ d \notin queued \cup closed
  /\ Together({d}, queued \ {c})
  /\ queued' = (queued \ {c}) \cup {d}
  /\ closed' = closed \cup {c}

Leave(c) ==
  /\ c \in queued
  /\ queued' = queued \ {c} /\ closed' = closed \cup {c}

Exclude(c) ==
  /\ c \notin queued
  /\ closed' = closed \cup {c}
  /\ UNCHANGED queued

Next ==
  \/ \E S \in SUBSET Cand : Enter(S)
  \/ \E c, d \in Cand : Replace(c, d)
  \/ \E c \in Cand : Leave(c) \/ Exclude(c)

Spec == Init /\ [][Next]_vars
=============================================================================
