--------------------------- MODULE ApolloDiscovery ---------------------------
(***************************************************************************)
(* Scoped candidate discovery: paid lookups of people under one daily      *)
(* credit allowance.                                                       *)
(*                                                                         *)
(* An operation claims an authorization of so many credits, searches, and  *)
(* looks one person up at a time: it reserves the person, marks the        *)
(* attempt, calls Apollo, retains the answer.  It ends by importing all    *)
(* retained people in one transaction, or by recording the failure.  Each  *)
(* of these is a transaction of its own, hence a step; operations of       *)
(* several processes, the operator's reconciliations, crashes and Apollo   *)
(* (external) interleave with them.                                        *)
(*                                                                         *)
(* One budget day is modelled.                                             *)
(***************************************************************************)
EXTENDS PersonReservation, FiniteSetsExt, Totals

CONSTANTS
  People,
  NoPerson,
  MaximumPerBatch,  \* policy: credits one operation may claim
  MaximumPerDay,    \* policy: credits held per day
  ExternalSpend,    \* credits of the day spent outside the ledger
  MaxCost,          \* external: what Apollo charges for one lookup, at most
  HastyOperator,    \* whether the operator may settle a lookup before its outcome
                    \* is known
  MaxCrashes        \* bound on the process crashes of a behaviour

ASSUME DiscoveryAssumption ==
  /\ IsFiniteSet(People) /\ IsFiniteSet(Operations)
  /\ NoPerson \notin People /\ NoOperation \notin Operations
  /\ MaximumPerBatch \in Nat \ {0} /\ MaximumPerDay \in Nat
  /\ ExternalSpend \in Nat /\ MaxCost \in Nat /\ MaxCrashes \in Nat
  /\ HastyOperator \in BOOLEAN

VARIABLES
  person,    \* the reservation rows
  parent,    \* the operations' rows of provider_operations
  imported,  \* people in the canonical candidate table
  run,       \* the discoveries in progress
  actual,    \* what Apollo charged for the latest lookup of a person (external)
  spent,     \* what Apollo charged each operation (external)
  stray,     \* lookups still on the wire after their discovery gave up (external)
  crashes

store  == <<person, parent, imported>>
apollo == <<actual, spent, stray>>
vars   == <<person, parent, imported, run, actual, spent, stray, crashes>>

-----------------------------------------------------------------------------
Parent == [state : {"absent", "authorized", "completed", "failed"},
           exposure : Nat, attempts : Nat, observed : Nat \cup {Unknown}]

\* attempts and observed are the discovery's own count, kept in memory.
Run == [pc : {"idle", "search", "choose", "claimed", "call", "complete", "failing",
              "done"},
        todo : SUBSET People, current : People \cup {NoPerson},
        call : {"none", "pending", "served"},
        attempts : Nat, observed : Nat \cup {Unknown}, records : SUBSET People]

RowsTypeOK == person \in [People -> Reservation]

TypeOK ==
  /\ RowsTypeOK
  /\ parent \in [Operations -> Parent]
  /\ imported \in SUBSET People
  /\ run \in [Operations -> Run]
  /\ actual \in [People -> Nat]
  /\ spent \in [Operations -> Nat]
  /\ stray \in SUBSET (Operations \X People)
  /\ crashes \in Nat

Ready == [pc |-> "idle", todo |-> {}, current |-> NoPerson, call |-> "none",
          attempts |-> 0, observed |-> 0, records |-> {}]
Ended == [Ready EXCEPT !.pc = "done"]

Init ==
  /\ person = [p \in People |-> NoReservation]
  /\ parent = [o \in Operations |-> [state |-> "absent", exposure |-> 0,
                                     attempts |-> 0, observed |-> Unknown]]
  /\ imported = {}
  /\ run = [o \in Operations |-> Ready]
  /\ actual = [p \in People |-> 0]
  /\ spent = [o \in Operations |-> 0]
  /\ stray = {}
  /\ crashes = 0

-----------------------------------------------------------------------------
(* Accounting.                                                              *)

Children(rows, o) == {p \in People : rows[p].owner = o}
Counted(rows, o)  == {p \in Children(rows, o) : rows[p].attempted}
Known(rows, o)    == {p \in Counted(rows, o) : rows[p].observed # Unknown}
KnownCredits(rows, o) == Total([p \in Known(rows, o) |-> rows[p].observed])

\* recomputeParentAccounting: an operation's row from the current truth of its
\* children, never incremented.
Recomputed(rows, row, o) ==
  IF Children(rows, o) = {} THEN row
  ELSE [row EXCEPT
          !.attempts = Cardinality(Counted(rows, o)),
          !.observed = IF Known(rows, o) = Counted(rows, o) THEN KnownCredits(rows, o)
                                                            ELSE Unknown,
          !.state    = IF \E p \in Children(rows, o) : rows[p].violation
                       THEN "failed" ELSE @]

\* A change of one row, with the accounting of the operation it belongs to.
Settle(p, row, o) ==
  /\ person' = [person EXCEPT ![p] = row]
  /\ parent' = [parent EXCEPT ![o] = Recomputed(person', @, o)]

\* readPersistedApolloDailyAccounting: what an operation holds of the allowance.
HeldWhenObserved(o) == \* mutant: a finished operation holds only what was observed
  CASE parent[o].state = "absent"     -> 0
    [] parent[o].state = "authorized" -> parent[o].exposure
    [] OTHER -> Max({0, parent[o].observed})
Held(o) ==
  CASE parent[o].state = "absent"     -> 0
    [] parent[o].state = "authorized" -> parent[o].exposure
    [] OTHER -> Max({parent[o].attempts, parent[o].observed, KnownCredits(person, o)})

HeldToday == ExternalSpend + Total([o \in Operations |-> Held(o)])

RemainingWithoutHolds == \* mutant: only finished operations count
  MaximumPerDay - ExternalSpend
    - Total([o \in {q \in Operations : parent[q].state # "authorized"} |-> Held(o)])
Remaining == MaximumPerDay - HeldToday

-----------------------------------------------------------------------------
(* A discovery.                                                             *)

Goto(o, phase) == run' = [run EXCEPT ![o].pc = phase]

\* What is left of a discovery that has thrown: its accounting.
GiveUp(o, observed) ==
  run' = [run EXCEPT ![o] = [Ready EXCEPT !.pc = "failing", !.observed = observed,
                                          !.attempts = run[o].attempts]]

\* SqliteScopedDiscoveryStore.claim: the most credits the request, the policy and the
\* day allow; none left throws.  The same request again finds the row and changes
\* nothing.
Authorize(o, requested) ==
  LET maximum == Min({requested, MaximumPerBatch, Remaining}) IN
  /\ run[o].pc = "idle" /\ parent[o].state = "absent"
  /\ maximum >= 1
  /\ parent' = [parent EXCEPT ![o].state = "authorized", ![o].exposure = maximum]
  /\ Goto(o, "search")
  /\ UNCHANGED <<person, imported, apollo, crashes>>

\* The search leaves people that are not imported yet.
Search(o, found) ==
  /\ run[o].pc = "search"
  /\ found \cap imported = {}
  /\ run' = [run EXCEPT ![o].pc = "choose", ![o].todo = found]
  /\ UNCHANGED <<store, apollo, crashes>>

SearchFails(o, observed) ==
  /\ run[o].pc = "search"
  /\ GiveUp(o, observed)
  /\ UNCHANGED <<store, apollo, crashes>>

ClaimPerson(o, p) ==
  /\ run[o].pc = "choose" /\ p \in run[o].todo
  /\ run[o].attempts < parent[o].exposure
  /\ IF Claimable(person[p])
     THEN /\ person' = [person EXCEPT ![p] = Claimed(@, o)]
          /\ run' = [run EXCEPT ![o].todo = @ \ {p}, ![o].current = p,
                                ![o].pc = "claimed"]
     ELSE /\ run' = [run EXCEPT ![o].todo = @ \ {p}]
          /\ UNCHANGED person
  /\ UNCHANGED <<parent, imported, apollo, crashes>>

\* The transaction of a claim throws.
ClaimFails(o) ==
  /\ run[o].pc = "choose" /\ run[o].todo # {}
  /\ run[o].attempts < parent[o].exposure
  /\ GiveUp(o, run[o].observed)
  /\ UNCHANGED <<store, apollo, crashes>>

ExhaustWhenSpent(o) == \* mutant: ends only when the credits are used up
  /\ run[o].pc = "choose"
  /\ run[o].attempts >= parent[o].exposure
  /\ run' = [run EXCEPT ![o].pc = "complete", ![o].todo = {}]
  /\ UNCHANGED <<store, apollo, crashes>>

\* Nobody is left, or the credits are used up.
Exhaust(o) ==
  /\ run[o].pc = "choose"
  /\ run[o].todo = {} \/ run[o].attempts >= parent[o].exposure
  /\ run' = [run EXCEPT ![o].pc = "complete", ![o].todo = {}]
  /\ UNCHANGED <<store, apollo, crashes>>

\* markAttempted immediately before the request leaves.
Dispatch(o) ==
  LET p == run[o].current IN
  /\ run[o].pc = "claimed" /\ HeldUnattempted(person[p], o)
  /\ Settle(p, Attempted(person[p]), o)
  /\ run' = [run EXCEPT ![o].pc = "call", ![o].call = "pending", ![o].attempts = @ + 1]
  /\ actual' = [actual EXCEPT ![p] = 0]
  /\ UNCHANGED <<imported, spent, stray, crashes>>

\* A failure before the request leaves, the loss of a stale reservation included:
\* then the release fails as well and the row is the new owner's.
LocalFailure(o, observed) ==
  LET p == run[o].current IN
  /\ run[o].pc = "claimed"
  /\ observed \in (IF run[o].attempts = 0 THEN {0} ELSE {run[o].observed, Unknown})
  /\ IF HeldUnattempted(person[p], o)
     THEN Settle(p, ReleasedUnattempted(person[p]), o)
     ELSE UNCHANGED <<person, parent>>
  /\ GiveUp(o, observed)
  /\ UNCHANGED <<imported, apollo, crashes>>

Plus(a, b) == IF a = Unknown \/ b = Unknown THEN Unknown ELSE a + b

\* The answer is written to the row.  A row that has moved on refuses it, and the
\* commit may fail: then nothing is written.
Annotate(p, row, o) ==
  \/ AwaitsOutcome(person[p], o) /\ Settle(p, row, o)
  \/ UNCHANGED <<person, parent>>

\* The answer carries the person; credits_consumed may be missing.  A result that is
\* not retained ends the discovery; the second try leaves the row uncertain.
AnswerUsable(o, reported) ==
  LET p == run[o].current IN
  /\ run[o].pc = "call" /\ run[o].call = "served"
  /\ reported \in {actual[p], Unknown} /\ reported <= 1
  /\ \/ /\ AwaitsOutcome(person[p], o)
        /\ Settle(p, Usable(person[p], reported, FALSE), o)
        /\ run' = [run EXCEPT ![o].pc = "choose", ![o].call = "none",
                              ![o].current = NoPerson,
                              ![o].records = @ \cup {p},
                              ![o].observed = Plus(@, reported)]
     \/ /\ Annotate(p, Uncertain(person[p]), o)
        /\ GiveUp(o, Plus(run[o].observed, reported))
  /\ UNCHANGED <<imported, apollo, crashes>>

\* More than one credit was charged: the result is retained as a violation and the
\* discovery fails.
AnswerExceeds(o) ==
  LET p == run[o].current IN
  /\ run[o].pc = "call" /\ run[o].call = "served" /\ actual[p] > 1
  /\ Annotate(p, Usable(person[p], actual[p], TRUE), o)
  /\ GiveUp(o, Plus(run[o].observed, actual[p]))
  /\ UNCHANGED <<imported, apollo, crashes>>

\* A timeout, a transport error, an error status or a malformed answer.
AnswerUncertain(o) ==
  LET p == run[o].current IN
  /\ run[o].pc = "call"
  /\ Annotate(p, Uncertain(person[p]), o)
  /\ stray' = IF run[o].call = "pending" THEN stray \cup {<<o, p>>} ELSE stray
  /\ GiveUp(o, Unknown)
  /\ UNCHANGED <<imported, actual, spent, crashes>>

\* The discovery's own count contradicts the rows of its children.
Conflict(o, row) ==
  \/ row.attempts # run[o].attempts
  \/ run[o].observed # Unknown /\ row.observed # run[o].observed

ImportedRows(o) ==
  [p \in People |-> IF p \in run[o].records THEN Imported(person[p]) ELSE person[p]]

CompleteSkipping(o) == \* mutant: a record that cannot be imported is passed over
  LET rows == [p \in People |-> IF p \in run[o].records /\ MayImport(person[p], o)
                                THEN Imported(person[p]) ELSE person[p]]
      row  == Recomputed(rows, parent[o], o)
  IN  /\ run[o].pc = "complete" /\ row.state = "authorized"
      /\ person' = rows
      /\ imported' = imported \cup run[o].records
      /\ parent' = [parent EXCEPT ![o] = [row EXCEPT !.state = "completed"]]
      /\ run' = [run EXCEPT ![o] = Ended]
      /\ UNCHANGED <<apollo, crashes>>

\* SqliteScopedDiscoveryStore.complete: one transaction imports every retained person.
Complete(o) ==
  LET rows == ImportedRows(o)
      row  == Recomputed(rows, parent[o], o)
  IN  /\ run[o].pc = "complete"
      /\ \A p \in run[o].records : MayImport(person[p], o)
      /\ Children(rows, o) # {} => ~Conflict(o, row)
      /\ row.state = "authorized"
      /\ person' = rows
      /\ imported' = imported \cup run[o].records
      /\ parent' = [parent EXCEPT ![o] =
                      IF Children(rows, o) # {} THEN [row EXCEPT !.state = "completed"]
                      ELSE [row EXCEPT !.state = "completed",
                                       !.attempts = Max({@, run[o].attempts}),
                                       !.observed = run[o].observed]]
      /\ run' = [run EXCEPT ![o] = Ended]
      /\ UNCHANGED <<apollo, crashes>>

\* Any exception of the completion rolls all of it back.
CompleteFails(o) ==
  /\ run[o].pc = "complete"
  /\ GiveUp(o, run[o].observed)
  /\ UNCHANGED <<store, apollo, crashes>>

\* SqliteScopedDiscoveryStore.fail: a conflict rolls the failure back as well, and the
\* operation stays authorized.
Fail(o) ==
  LET row == Recomputed(person, [parent[o] EXCEPT !.state = "failed"], o) IN
  /\ run[o].pc = "failing"
  /\ parent' =
       IF Children(person, o) # {}
       THEN IF Conflict(o, row) THEN parent ELSE [parent EXCEPT ![o] = row]
       ELSE [parent EXCEPT ![o] =
               [row EXCEPT !.attempts = Max({@, run[o].attempts}),
                           !.observed = Max({@, run[o].observed})]]
  /\ run' = [run EXCEPT ![o] = Ended]
  /\ UNCHANGED <<person, imported, apollo, crashes>>

-----------------------------------------------------------------------------
(* The operator.                                                            *)

InFlight(p) == \/ \E o \in Operations : run[o].current = p /\ run[o].pc = "call"
               \/ \E o \in Operations : <<o, p>> \in stray

\* What the operator has evidence for: the lookup is over and cost n.
Evident(p, n) == HastyOperator \/ (~InFlight(p) /\ actual[p] = n)

ResumeRetained(p) ==
  /\ MayResume(person[p])
  /\ imported' = imported \cup {p}
  /\ Settle(p, Imported(person[p]), person[p].owner)
  /\ UNCHANGED <<run, apollo, crashes>>

SafeRelease(p) ==
  /\ MayRelease(person[p]) /\ Evident(p, 0)
  /\ Settle(p, SafelyReleased(person[p]), person[p].owner)
  /\ UNCHANGED <<imported, run, apollo, crashes>>

RecordConsumption(p, n) ==
  /\ MayRecordConsumption(person[p], n) /\ Evident(p, n)
  /\ Settle(p, Consumed(person[p], n), person[p].owner)
  /\ UNCHANGED <<imported, run, apollo, crashes>>

-----------------------------------------------------------------------------
(* The world outside the process.                                           *)

\* Apollo answers a lookup and charges for it.
ApolloServes(o, cost) ==
  /\ run[o].pc = "call" /\ run[o].call = "pending"
  /\ run' = [run EXCEPT ![o].call = "served"]
  /\ actual' = [actual EXCEPT ![run[o].current] = cost]
  /\ spent' = [spent EXCEPT ![o] = @ + cost]
  /\ UNCHANGED <<store, stray, crashes>>

\* A lookup whose discovery gave up is charged late, or was lost.
StraySettles(o, p, cost) ==
  /\ <<o, p>> \in stray
  /\ stray' = stray \ {<<o, p>>}
  /\ actual' = [actual EXCEPT ![p] = cost]
  /\ spent' = [spent EXCEPT ![o] = @ + cost]
  /\ UNCHANGED <<store, run, crashes>>

\* Fifteen minutes pass without a write to a reservation.
GrowsStale(p) ==
  /\ person[p].lifecycle = "reserved-never-attempted" /\ ~person[p].stale
  /\ person' = [person EXCEPT ![p].stale = TRUE]
  /\ UNCHANGED <<parent, imported, run, apollo, crashes>>

\* The processes die.  An operation that was running is never taken up again.
Crash ==
  /\ crashes < MaxCrashes
  /\ crashes' = crashes + 1
  /\ run' = [o \in Operations |-> IF run[o].pc = "idle" THEN run[o] ELSE Ended]
  /\ stray' = stray \cup {<<o, run[o].current>> : o \in
                {q \in Operations : run[q].pc = "call" /\ run[q].call = "pending"}}
  /\ UNCHANGED <<store, actual, spent>>

-----------------------------------------------------------------------------
Begin(o) == \E n \in 1..MaximumPerBatch : Authorize(o, n)

\* What a discovery does on its own once it is authorized.
Advance(o) ==
  \/ \E found \in SUBSET People : Search(o, found)
  \/ \E p \in People : ClaimPerson(o, p)
  \/ ClaimFails(o) \/ Exhaust(o) \/ Dispatch(o) \/ AnswerExceeds(o) \/ AnswerUncertain(o)
  \/ \E n \in {0, 1, Unknown} : AnswerUsable(o, n)
  \/ \E n \in {run[o].observed, 0, Unknown} : LocalFailure(o, n)
  \/ \E n \in {0, Unknown} : SearchFails(o, n)
  \/ Complete(o) \/ CompleteFails(o) \/ Fail(o)

Operator == \E p \in People :
  \/ ResumeRetained(p) \/ SafeRelease(p)
  \/ \E n \in 1..MaxCost : RecordConsumption(p, n)

World ==
  \/ \E o \in Operations, cost \in 0..MaxCost :
       \/ ApolloServes(o, cost)
       \/ \E p \in People : StraySettles(o, p, cost)
  \/ \E p \in People : GrowsStale(p)

Next ==
  \/ \E o \in Operations : Begin(o) \/ Advance(o)
  \/ Operator
  \/ World
  \/ Crash

\* A discovery is one asynchronous function; its HTTP calls carry a timeout.  Nothing
\* obliges the operator or Apollo to act.
Spec == Init /\ [][Next]_vars /\ \A o \in Operations : WF_vars(Advance(o))

-----------------------------------------------------------------------------
(* Properties.                                                              *)

\* A person is looked up at most once, and once more for every release by which the
\* operator declared a lookup free of charge: no stale reservation, second operation,
\* crash or late answer makes a paid lookup repeat.
LookupsBounded ==
  \A p \in People : person[p].attempts <= 1 + person[p].releases

\* A result that was paid for and retained stays until it is imported or the operator
\* writes it off.
PaidResultsKept ==
  [][\A p \in People : person[p].retained =>
        \/ person'[p].retained
        \/ p \in imported'
        \/ person'[p].lifecycle = "consumed-no-import"]_vars

\* An imported or written-off person is settled for good: a late answer, a second
\* discovery or another reconciliation never changes the row.
SettledForGood ==
  [][\A p \in People : person[p].lifecycle \in {"completed-imported", "consumed-no-import"}
        => person'[p] = person[p]]_vars

\* Two discoveries never have a lookup of the same person in progress, although a
\* stale reservation can change hands while its first owner is still about to call.
OneLookupAtATime ==
  \A o, q \in Operations :
    run[o].pc = "call" /\ run[q].pc = "call" /\ run[o].current = run[q].current => o = q

\* A completed operation has imported everyone it still owns: the operator's
\* reconciliation during the discovery makes it fail instead.
CompletedIsImported ==
  \A o \in Operations : parent[o].state = "completed" =>
    \A p \in Children(person, o) :
      person[p].lifecycle = "completed-imported" /\ p \in imported

\* The stored accounting of an operation never claims less than its people show: no
\* attempt is missing, and a consumption is stated only when all of it is known.
AccountingIsConservative ==
  \A o \in Operations :
    /\ parent[o].attempts >= Cardinality(Counted(person, o))
    /\ parent[o].observed # Unknown =>
         /\ Known(person, o) = Counted(person, o)
         /\ parent[o].observed >= KnownCredits(person, o)
    /\ (\E p \in Children(person, o) : person[p].violation) => parent[o].state = "failed"

\* Whatever Apollo charged for an operation, early or late, is held by it, so the
\* allowance of the day covers it.
SpendIsHeld == \A o \in Operations : spent[o] <= Held(o)

\* All that is held stays within the allowance of the day, however many operations
\* authorize, fail and crash at once.
WithinDailyAllowance == HeldToday <= Max({MaximumPerDay, ExternalSpend})

\* Every discovery ends, whichever answer or reservation it loses.
DiscoveriesEnd ==
  \A o \in Operations : run[o].pc # "idle" ~> run[o].pc = "done"

\* docs/scoped-apollo-provider.md:13: a claimed operation is completed or failed, "with
\* truthful logical-attempt and observed-consumption evidence".
EndedIsFinal ==
  \A o \in Operations : run[o].pc = "done" => parent[o].state # "authorized"

-----------------------------------------------------------------------------
(* The reservations keep the promise of PaidLookups.                        *)

Phase(row) ==
  CASE row.lifecycle \in {"absent", "released-no-consumption"} -> "free"
    [] row.lifecycle = "reserved-never-attempted" -> "claimed"
    [] row.lifecycle = "reconciliation-required"  -> "looking-up"
    [] row.lifecycle = "attempted-result-usable"  -> "result"
    [] OTHER -> "settled"

Lookups == INSTANCE PaidLookups WITH
  Holders <- Operations,
  Nobody  <- NoOperation,
  phase   <- [p \in People |-> Phase(person[p])],
  holder  <- [p \in People |-> person[p].owner],
  lookups <- [p \in People |-> person[p].attempts],
  permits <- [p \in People |-> person[p].releases]

\* Every step of the discoveries, the operator and Apollo moves the people as the
\* promise allows or leaves them alone.
KeepsLookupPromise == Lookups!Spec
=============================================================================
