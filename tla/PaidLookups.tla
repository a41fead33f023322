----------------------------- MODULE PaidLookups -----------------------------
(***************************************************************************)
(* What the reservations of people promise, without accounting, search,    *)
(* requests or crashes.                                                    *)
(*                                                                         *)
(* A person is free, claimed by one holder, being looked up, retained as a *)
(* result, or settled.  Only the holder of a claimed person may look them  *)
(* up; a claim may be taken over, a lookup may not.  A lookup that was not *)
(* settled ends in a result, or in a permit that frees the person: nothing *)
(* else lets a person be looked up again.                                  *)
(***************************************************************************)
EXTENDS Naturals

CONSTANTS
  People,
  Holders,
  Nobody

VARIABLES
  phase,    \* of each person
  holder,   \* who claimed the person last
  lookups,  \* paid lookups so far
  permits   \* lookups declared free of charge

vars == <<phase, holder, lookups, permits>>

Init ==
  /\ phase = [p \in People |-> "free"]
  /\ holder = [p \in People |-> Nobody]
  /\ lookups = [p \in People |-> 0]
  /\ permits = [p \in People |-> 0]

Move(p, next) == phase' = [phase EXCEPT ![p] = next]

Claim(p, h) ==
  /\ phase[p] \in {"free", "claimed"}
  /\ Move(p, "claimed")
  /\ holder' = [holder EXCEPT ![p] = h]
  /\ UNCHANGED <<lookups, permits>>

GiveBack(p) ==
  /\ phase[p] = "claimed"
  /\ Move(p, "free")
  /\ UNCHANGED <<holder, lookups, permits>>

LookUp(p) ==
  /\ phase[p] = "claimed"
  /\ lookups[p] <= permits[p]
  /\ Move(p, "looking-up")
  /\ lookups' = [lookups EXCEPT ![p] = @ + 1]
  /\ UNCHANGED <<holder, permits>>

Retain(p) ==
  /\ phase[p] = "looking-up"
  /\ Move(p, "result")
  /\ UNCHANGED <<holder, lookups, permits>>

Permit(p) ==
  /\ phase[p] = "looking-up"
  /\ Move(p, "free")
  /\ permits' = [permits EXCEPT ![p] = @ + 1]
  /\ UNCHANGED <<holder, lookups>>

\* One person is written off, or all results of a holder are imported at once.
SettleAll(S) ==
  /\ \A p \in S : phase[p] \in {"looking-up", "result"}
  /\ phase' = [p \in People |-> IF p \in S THEN "settled" ELSE phase[p]]
  /\ UNCHANGED <<holder, lookups, permits>>

Next ==
  \/ \E p \in People :
       \/ \E h \in Holders : Claim(p, h)
       \/ GiveBack(p) \/ LookUp(p) \/ Retain(p) \/ Permit(p)
  \/ \E S \in SUBSET People : SettleAll(S)

Spec == Init /\ [][Next]_vars
=============================================================================
