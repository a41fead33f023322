------------------------ MODULE ApolloDiscoveryProofs ------------------------
(***************************************************************************)
(* Proofs about ApolloDiscovery for every set of people and operations,    *)
(* every allowance and any number of crashes: first the reservations of    *)
(* the people, whatever a lookup costs, and the promise they refine; then  *)
(* the accounting; then the allowance of the day and what Apollo charges,  *)
(* when a lookup costs one credit at most.                                 *)
(***************************************************************************)
EXTENDS ApolloDiscovery, FiniteSetTheorems, FunctionTheorems, TLAPS

(***************************************************************************)
(* What totals of credits rest on.                                         *)
(***************************************************************************)

\* An interval from one has its length.
LEMMA IntervalIsFinite ==
  ASSUME NEW n \in Nat
  PROVE  IsFiniteSet(1 .. n) /\ Cardinality(1 .. n) = n
<1>1. 1 \in Int /\ n \in Int
  OBVIOUS
<1>2. QED
  BY <1>1, FS_Interval

\* One term has as many units as it says.
LEMMA UnitsOfOne ==
  ASSUME NEW x, NEW n \in Nat
  PROVE  IsFiniteSet({x} \X (1 .. n)) /\ Cardinality({x} \X (1 .. n)) = n
<1>1. IsFiniteSet({x}) /\ Cardinality({x}) = 1
  BY FS_Singleton
<1>2. IsFiniteSet({x} \X (1 .. n)) /\ Cardinality({x} \X (1 .. n)) = Cardinality({x}) * Cardinality(1 .. n)
  BY <1>1, IntervalIsFinite, FS_Product
<1>3. QED
  BY <1>1, <1>2, IntervalIsFinite

\* A total is a natural number.
LEMMA UnitsAreFinite ==
  ASSUME NEW S, IsFiniteSet(S), NEW f \in [S -> Nat]
  PROVE  IsFiniteSet(Units(f)) /\ Total(f) \in Nat
<1> DEFINE T == {{x} \X (1 .. f[x]) : x \in S}
           g == [x \in S |-> {x} \X (1 .. f[x])]
<1>1. g \in Surjection(S, T)
  BY DEF Surjection
<1>2. IsFiniteSet(T)
  BY <1>1, FS_Surjection
<1>3. \A U \in T : IsFiniteSet(U)
  <2>1. \A x \in S : f[x] \in Nat
    OBVIOUS
  <2>2. \A x \in S : IsFiniteSet({x} \X (1 .. f[x]))
    BY <2>1, UnitsOfOne
  <2>3. QED
    BY <2>2
<1>4. Units(f) = UNION T
  BY DEF Units
<1> HIDE DEF T
<1>5. IsFiniteSet(Units(f))
  BY <1>2, <1>3, <1>4, FS_UNION
<1>6. QED
  BY <1>5, FS_CardinalityType DEF Total

\* A total is one of its terms and the total of the others.
LEMMA TotalWithout ==
  ASSUME NEW S, IsFiniteSet(S), NEW f \in [S -> Nat], NEW x \in S
  PROVE  Total(f) = f[x] + Total([y \in S \ {x} |-> f[y]])
<1> DEFINE R == S \ {x}
           g == [y \in R |-> f[y]]
<1>1. IsFiniteSet(R) /\ g \in [R -> Nat]
  BY FS_RemoveElement
<1>2. Units(f) = Units(g) \cup ({x} \X (1 .. f[x]))
  BY DEF Units
<1>3. Units(g) \cap ({x} \X (1 .. f[x])) = {}
  BY DEF Units
<1> HIDE DEF R, g
<1>4. IsFiniteSet(Units(g)) /\ Total(g) \in Nat
  BY <1>1, UnitsAreFinite
<1>5. /\ IsFiniteSet({x} \X (1 .. f[x])) /\ Cardinality({x} \X (1 .. f[x])) = f[x]
      /\ f[x] \in Nat
  BY UnitsOfOne
<1>6. Cardinality(Units(f)) = Cardinality(Units(g)) + Cardinality({x} \X (1 .. f[x])) - Cardinality({})
  BY <1>2, <1>3, <1>4, <1>5, FS_Union
<1>7. Cardinality({}) = 0
  BY FS_EmptySet
<1>8. QED
  BY <1>4, <1>5, <1>6, <1>7 DEF Total, R, g

\* A total changes with one of its terms.
LEMMA TotalChanges ==
  ASSUME NEW S, IsFiniteSet(S), NEW f \in [S -> Nat], NEW g \in [S -> Nat], NEW x \in S,
         \A y \in S \ {x} : f[y] = g[y]
  PROVE  Total(g) = (Total(f) - f[x]) + g[x]
<1>1. [y \in S \ {x} |-> f[y]] = [y \in S \ {x} |-> g[y]]
  OBVIOUS
<1>2. /\ Total(f) = f[x] + Total([y \in S \ {x} |-> f[y]])
      /\ Total(g) = g[x] + Total([y \in S \ {x} |-> g[y]])
  BY TotalWithout
<1>3. IsFiniteSet(S \ {x}) /\ [y \in S \ {x} |-> f[y]] \in [S \ {x} -> Nat]
  BY FS_RemoveElement
<1>4. Total([y \in S \ {x} |-> f[y]]) \in Nat /\ f[x] \in Nat /\ g[x] \in Nat
  BY <1>3, UnitsAreFinite
<1>5. QED
  BY <1>1, <1>2, <1>4

\* Terms that grow make a total grow.
LEMMA TotalGrows ==
  ASSUME NEW S, NEW T, IsFiniteSet(T), S \subseteq T,
         NEW f \in [S -> Nat], NEW g \in [T -> Nat], \A x \in S : f[x] <= g[x]
  PROVE  Total(f) <= Total(g)
<1>1. Units(f) \subseteq Units(g)
  <2> SUFFICES ASSUME NEW u \in Units(f) PROVE u \in Units(g)
    OBVIOUS
  <2>1. PICK x \in S : u \in {x} \X (1 .. f[x])
    BY DEF Units
  <2>2. f[x] \in Nat /\ g[x] \in Nat /\ f[x] <= g[x]
    OBVIOUS
  <2>3. 1 .. f[x] \subseteq 1 .. g[x]
    BY <2>2
  <2>4. u \in {x} \X (1 .. g[x])
    BY <2>1, <2>3
  <2>5. QED
    BY <2>4 DEF Units
<1>2. IsFiniteSet(Units(g))
  BY UnitsAreFinite
<1>3. QED
  BY <1>1, <1>2, FS_Subset DEF Total

\* A total of terms that are at most one is at most their number.
LEMMA TotalOfOnes ==
  ASSUME NEW S, IsFiniteSet(S), NEW f \in [S -> Nat], \A x \in S : f[x] <= 1
  PROVE  Total(f) <= Cardinality(S)
<1>1. 1 \in Nat
  OBVIOUS
<1>2. IsFiniteSet(S \X (1 .. 1)) /\ Cardinality(S \X (1 .. 1)) = Cardinality(S) * Cardinality(1 .. 1)
  BY <1>1, IntervalIsFinite, FS_Product
<1>3. Cardinality(1 .. 1) = 1 /\ Cardinality(S) \in Nat
  BY <1>1, IntervalIsFinite, FS_CardinalityType
<1>4. Units(f) \subseteq S \X (1 .. 1)
  <2> SUFFICES ASSUME NEW u \in Units(f) PROVE u \in S \X (1 .. 1)
    OBVIOUS
  <2>1. PICK x \in S : u \in {x} \X (1 .. f[x])
    BY DEF Units
  <2>2. f[x] \in Nat /\ f[x] <= 1
    OBVIOUS
  <2>3. 1 .. f[x] \subseteq 1 .. 1
    BY <2>2
  <2>4. QED
    BY <2>1, <2>3
<1>5. Cardinality(Units(f)) <= Cardinality(S \X (1 .. 1))
  BY <1>2, <1>4, FS_Subset
<1>6. QED
  BY <1>2, <1>3, <1>5 DEF Total

\* Nothing adds up to nothing.
LEMMA TotalOfNothing ==
  ASSUME NEW S, NEW f \in [S -> Nat], \A x \in S : f[x] = 0
  PROVE  Total(f) = 0
<1>1. Units(f) = {}
  BY DEF Units
<1>2. QED
  BY <1>1, FS_EmptySet DEF Total

(***************************************************************************)
(* The invariant, in parts.                                                *)
(***************************************************************************)
TypeInv ==
  /\ RowsTypeOK
  /\ run \in [Operations -> Run]
  /\ actual \in [People -> Nat]
  /\ \A o \in Operations : run[o].pc \in {"claimed", "call"} => run[o].current \in People

\* LookupsBounded is not inductive: a person who may be looked up again must have a
\* release for every lookup so far.
LookupInv ==
  \A p \in People :
    /\ person[p].attempts <= 1 + person[p].releases
    /\ person[p].lifecycle \in {"absent", "reserved-never-attempted",
                                "released-no-consumption"}
         => person[p].attempts <= person[p].releases

\* Only a usable row carries a result.
RetainedInv ==
  \A p \in People : person[p].retained => person[p].lifecycle = "attempted-result-usable"

ImportedInv ==
  \A p \in People : person[p].lifecycle = "completed-imported" => p \in imported

\* A discovery in progress knows everyone it owns.
Knows(o, p) ==
  \/ p \in run[o].records
  \/ run[o].pc \in {"claimed", "call"} /\ p = run[o].current
  \/ run[o].pc \in {"failing", "done"}

OwnedInv == \A o \in Operations, p \in People : person[p].owner = o => Knows(o, p)

\* The rows of the operations keep their fields; MoneyInv says what the sums in them are.
ParentShape(row) ==
  row = [state |-> row.state, exposure |-> row.exposure, attempts |-> row.attempts,
         observed |-> row.observed]

ParentInv ==
  /\ parent = [o \in Operations |-> parent[o]]
  /\ \A o \in Operations :
       /\ ParentShape(parent[o])
       /\ parent[o].state = "completed" =>
            /\ run[o].pc = "done"
            /\ \A p \in People : person[p].owner = o =>
                 person[p].lifecycle = "completed-imported"

IInv == TypeInv /\ LookupInv /\ RetainedInv /\ ImportedInv /\ OwnedInv /\ ParentInv

-----------------------------------------------------------------------------
(* How a step changes the rows: not at all, one of them in one of the ways of *)
(* PersonReservation, or several by an import.                              *)

RowChange(p, row) ==
  \/ \E o \in Operations :
       /\ ClaimPerson(o, p) /\ Claimable(person[p])
       /\ row = Claimed(person[p], o)
  \/ /\ person[p].lifecycle = "reserved-never-attempted"
     /\ row \in {Attempted(person[p]), ReleasedUnattempted(person[p]),
                 [person[p] EXCEPT !.stale = TRUE]}
  \/ /\ person[p].lifecycle = "reconciliation-required"
     /\ \/ row = Uncertain(person[p])
        \/ \E n \in Nat \cup {Unknown}, b \in BOOLEAN : row = Usable(person[p], n, b)
  \/ MayRelease(person[p]) /\ row = SafelyReleased(person[p])
  \/ \E n \in Nat : MayRecordConsumption(person[p], n) /\ row = Consumed(person[p], n)

\* Imports of several people, one included.
ImportStep(S) ==
  /\ \A p \in S : MayImport(person[p], person[p].owner)
  /\ S \subseteq imported'
  /\ person' = [p \in People |-> IF p \in S THEN Imported(person[p]) ELSE person[p]]

RowsMove ==
  /\ imported \subseteq imported'
  /\ \/ person' = person
     \/ \E p \in People : \E row \in Reservation :
          RowChange(p, row) /\ person' = [person EXCEPT ![p] = row]
     \/ \E S \in SUBSET People : ImportStep(S)

LEMMA ClaimedType ==
  ASSUME NEW row \in Reservation, NEW o \in Operations
  PROVE  Claimed(row, o) \in Reservation
BY DEF Claimed, Reservation, Lifecycles, Unknown

LEMMA OwnerTypes ==
  ASSUME NEW row \in Reservation
  PROVE  /\ Attempted(row) \in Reservation
         /\ ReleasedUnattempted(row) \in Reservation
         /\ [row EXCEPT !.stale = TRUE] \in Reservation
         /\ Uncertain(row) \in Reservation
         /\ Imported(row) \in Reservation
         /\ SafelyReleased(row) \in Reservation
<1>1. /\ row.attempts + 1 \in Nat /\ row.releases + 1 \in Nat
      /\ TRUE \in BOOLEAN /\ FALSE \in BOOLEAN
  BY DEF Reservation
<1>2. Attempted(row) \in Reservation
  BY <1>1 DEF Attempted, Reservation, Lifecycles, Unknown
<1>3. ReleasedUnattempted(row) \in Reservation
  BY DEF ReleasedUnattempted, Reservation, Lifecycles
<1>4. [row EXCEPT !.stale = TRUE] \in Reservation
  BY DEF Reservation
<1>5. Uncertain(row) \in Reservation
  BY DEF Uncertain, Reservation, Unknown
<1>6. Imported(row) \in Reservation
  BY DEF Imported, Reservation, Lifecycles
<1>7. SafelyReleased(row) \in Reservation
  BY <1>1 DEF SafelyReleased, Reservation, Lifecycles
<1>. QED  BY <1>2, <1>3, <1>4, <1>5, <1>6, <1>7

LEMMA ChargedTypes ==
  ASSUME NEW row \in Reservation, NEW n \in Nat \cup {Unknown}, NEW b \in BOOLEAN
  PROVE  /\ Usable(row, n, b) \in Reservation
         /\ n \in Nat => Consumed(row, n) \in Reservation
<1>1. (row.violation \/ b \/ n > 1) \in BOOLEAN /\ (row.violation \/ n > 1) \in BOOLEAN
  OBVIOUS
<1>2. Usable(row, n, b) \in Reservation
  BY <1>1 DEF Usable, Reservation, Lifecycles
<1>3. n \in Nat => Consumed(row, n) \in Reservation
  BY <1>1 DEF Consumed, Reservation, Lifecycles
<1>. QED  BY <1>2, <1>3

LEMMA OneRowMoves ==
  ASSUME NEW p \in People, NEW row \in Reservation, RowChange(p, row),
         person' = [person EXCEPT ![p] = row], imported' = imported
  PROVE  RowsMove
BY DEF RowsMove

LEMMA NoRowMoves ==
  ASSUME UNCHANGED <<person, imported>>
  PROVE  RowsMove
BY DEF RowsMove

\* An answer that is annotated, or not.
LEMMA AnnotateMoves ==
  ASSUME TypeInv, NEW p \in People, NEW o \in Operations, NEW row,
         Annotate(p, row, o), imported' = imported,
         \/ row = Uncertain(person[p])
         \/ \E n \in Nat \cup {Unknown}, b \in BOOLEAN : row = Usable(person[p], n, b)
  PROVE  RowsMove
<1>1. CASE UNCHANGED <<person, parent>>
  BY <1>1, NoRowMoves
<1>2. CASE AwaitsOutcome(person[p], o) /\ Settle(p, row, o)
  <2>1. person[p] \in Reservation
    BY DEF TypeInv, RowsTypeOK
  <2>2. row \in Reservation
    BY <2>1, OwnerTypes, ChargedTypes
  <2>3. RowChange(p, row)
    BY <1>2 DEF RowChange, AwaitsOutcome
  <2>4. person' = [person EXCEPT ![p] = row]
    BY <1>2 DEF Settle
  <2>. QED  BY <2>2, <2>3, <2>4, OneRowMoves
<1>. QED  BY <1>1, <1>2 DEF Annotate

LEMMA DiscoveryMoves ==
  ASSUME TypeInv, NEW o \in Operations, Begin(o) \/ Advance(o)
  PROVE  RowsMove
<1>. person \in [People -> Reservation] /\ run \in [Operations -> Run]
  BY DEF TypeInv, RowsTypeOK
<1>1. ASSUME NEW n \in 1..MaximumPerBatch, Authorize(o, n)  PROVE RowsMove
  BY <1>1, NoRowMoves DEF Authorize
<1>2. ASSUME NEW found \in SUBSET People, Search(o, found)  PROVE RowsMove
  BY <1>2, NoRowMoves DEF Search, store
<1>3. ASSUME NEW p \in People, ClaimPerson(o, p)  PROVE RowsMove
  <2>1. CASE Claimable(person[p])
    <3>1. Claimed(person[p], o) \in Reservation
      BY ClaimedType
    <3>2. RowChange(p, Claimed(person[p], o))
      BY <1>3, <2>1 DEF RowChange
    <3>3. /\ person' = [person EXCEPT ![p] = Claimed(person[p], o)]
          /\ imported' = imported
      BY <1>3, <2>1 DEF ClaimPerson
    <3>. QED  BY <3>1, <3>2, <3>3, OneRowMoves
  <2>2. CASE ~Claimable(person[p])
    BY <1>3, <2>2, NoRowMoves DEF ClaimPerson
  <2>. QED  BY <2>1, <2>2
<1>4. CASE Exhaust(o) \/ CompleteFails(o) \/ ClaimFails(o) \/ Fail(o)
  BY <1>4, NoRowMoves DEF Exhaust, CompleteFails, ClaimFails, Fail, store
<1>5. CASE Dispatch(o)
  <2>. DEFINE p == run[o].current
  <2>1. p \in People
    BY <1>5 DEF Dispatch, TypeInv
  <2>2. RowChange(p, Attempted(person[p]))
    BY <1>5 DEF Dispatch, RowChange, HeldUnattempted
  <2>3. person' = [person EXCEPT ![p] = Attempted(person[p])] /\ imported' = imported
    BY <1>5 DEF Dispatch, Settle
  <2>4. Attempted(person[p]) \in Reservation
    BY <2>1, OwnerTypes
  <2>. QED  BY <2>1, <2>2, <2>3, <2>4, OneRowMoves
<1>6. ASSUME NEW n, LocalFailure(o, n)  PROVE RowsMove
  <2>. DEFINE p == run[o].current
  <2>1. p \in People
    BY <1>6 DEF LocalFailure, TypeInv
  <2>2. CASE HeldUnattempted(person[p], o)
    <3>1. RowChange(p, ReleasedUnattempted(person[p]))
      BY <2>2 DEF RowChange, HeldUnattempted
    <3>2. /\ person' = [person EXCEPT ![p] = ReleasedUnattempted(person[p])]
          /\ imported' = imported
      BY <1>6, <2>2 DEF LocalFailure, Settle
    <3>3. ReleasedUnattempted(person[p]) \in Reservation
      BY <2>1, OwnerTypes
    <3>. QED  BY <2>1, <3>1, <3>2, <3>3, OneRowMoves
  <2>3. CASE ~HeldUnattempted(person[p], o)
    BY <1>6, <2>3, NoRowMoves DEF LocalFailure
  <2>. QED  BY <2>2, <2>3
<1>7. ASSUME NEW n \in {0, 1, Unknown}, AnswerUsable(o, n)  PROVE RowsMove
  <2>. DEFINE p == run[o].current
  <2>1. p \in People /\ imported' = imported
    BY <1>7 DEF AnswerUsable, TypeInv
  <2>2. \/ Annotate(p, Usable(person[p], n, FALSE), o)
        \/ Annotate(p, Uncertain(person[p]), o)
    BY <1>7 DEF AnswerUsable, Annotate
  <2>. QED  BY <2>1, <2>2, AnnotateMoves
<1>8. CASE AnswerExceeds(o)
  <2>. DEFINE p == run[o].current
  <2>1. p \in People /\ imported' = imported /\ actual[p] \in Nat
    BY <1>8 DEF AnswerExceeds, TypeInv
  <2>2. Annotate(p, Usable(person[p], actual[p], TRUE), o)
    BY <1>8 DEF AnswerExceeds
  <2>. QED  BY <2>1, <2>2, AnnotateMoves
<1>9. CASE AnswerUncertain(o)
  <2>. DEFINE p == run[o].current
  <2>1. p \in People /\ imported' = imported /\ Annotate(p, Uncertain(person[p]), o)
    BY <1>9 DEF AnswerUncertain, TypeInv
  <2>. QED  BY <2>1, AnnotateMoves
<1>10. ASSUME NEW n, SearchFails(o, n)  PROVE RowsMove
  BY <1>10, NoRowMoves DEF SearchFails, store
<1>11. CASE Complete(o)
  <2>1. run[o].records \in SUBSET People
    BY DEF Run
  <2>2. ImportStep(run[o].records)
    BY <1>11 DEF Complete, ImportStep, ImportedRows, MayImport
  <2>3. imported \subseteq imported'
    BY <1>11 DEF Complete
  <2>. QED  BY <2>1, <2>2, <2>3 DEF RowsMove
<1>. QED
  BY <1>1, <1>2, <1>3, <1>4, <1>5, <1>6, <1>7, <1>8, <1>9, <1>10, <1>11 DEF Begin, Advance

LEMMA OperatorMoves ==
  ASSUME TypeInv, Operator
  PROVE  RowsMove
<1>. person \in [People -> Reservation]
  BY DEF TypeInv, RowsTypeOK
<1>1. ASSUME NEW p \in People, ResumeRetained(p)  PROVE RowsMove
  <2>1. person' = [person EXCEPT ![p] = Imported(person[p])]
    BY <1>1 DEF ResumeRetained, Settle
  <2>2. person' = [q \in People |-> IF q \in {p} THEN Imported(person[q]) ELSE person[q]]
    BY <2>1
  <2>3. MayImport(person[p], person[p].owner)
    BY <1>1 DEF ResumeRetained, MayResume, MayImport
  <2>4. ImportStep({p}) /\ imported \subseteq imported'
    BY <1>1, <2>2, <2>3 DEF ResumeRetained, ImportStep
  <2>. QED  BY <2>4 DEF RowsMove
<1>2. ASSUME NEW p \in People, SafeRelease(p)  PROVE RowsMove
  <2>1. RowChange(p, SafelyReleased(person[p]))
    BY <1>2 DEF SafeRelease, RowChange
  <2>2. person' = [person EXCEPT ![p] = SafelyReleased(person[p])] /\ imported' = imported
    BY <1>2 DEF SafeRelease, Settle
  <2>3. SafelyReleased(person[p]) \in Reservation
    BY OwnerTypes
  <2>. QED  BY <2>1, <2>2, <2>3, OneRowMoves
<1>3. ASSUME NEW p \in People, NEW n \in 1..MaxCost, RecordConsumption(p, n)
      PROVE  RowsMove
  <2>1. RowChange(p, Consumed(person[p], n))
    BY <1>3 DEF RecordConsumption, RowChange
  <2>2. person' = [person EXCEPT ![p] = Consumed(person[p], n)] /\ imported' = imported
    BY <1>3 DEF RecordConsumption, Settle
  <2>3. Consumed(person[p], n) \in Reservation
    <3>1. n \in Nat /\ TRUE \in BOOLEAN
      OBVIOUS
    <3>. QED  BY <3>1, ChargedTypes
  <2>. QED  BY <2>1, <2>2, <2>3, OneRowMoves
<1>. QED  BY <1>1, <1>2, <1>3 DEF Operator

LEMMA EveryStepMoves ==
  ASSUME TypeInv, [Next]_vars
  PROVE  RowsMove
<1>1. CASE World
  <2>1. ASSUME NEW p \in People, GrowsStale(p)  PROVE RowsMove
    <3>1. person[p] \in Reservation
      BY DEF TypeInv, RowsTypeOK
    <3>. DEFINE row == [person[p] EXCEPT !.stale = TRUE]
    <3>2. RowChange(p, row)
      BY <2>1 DEF GrowsStale, RowChange
    <3>3. person' = [person EXCEPT ![p] = row] /\ imported' = imported
      BY <2>1, <3>1 DEF GrowsStale
    <3>4. row \in Reservation
      BY <3>1, OwnerTypes
    <3>. QED  BY <3>2, <3>3, <3>4, OneRowMoves
  <2>. QED  BY <1>1, <2>1, NoRowMoves DEF World, ApolloServes, StraySettles, store
<1>2. CASE Crash \/ UNCHANGED vars
  BY <1>2, NoRowMoves DEF Crash, store, vars
<1>. QED  BY <1>1, <1>2, DiscoveryMoves, OperatorMoves DEF Next

-----------------------------------------------------------------------------
(* Type correctness.                                                        *)

LEMMA RowTypesMove ==
  ASSUME RowsTypeOK, RowsMove
  PROVE  RowsTypeOK'
<1>. person \in [People -> Reservation]
  BY DEF RowsTypeOK
<1>1. ASSUME NEW S \in SUBSET People, ImportStep(S)
      PROVE  person' \in [People -> Reservation]
  BY <1>1, OwnerTypes DEF ImportStep
<1>. QED  BY <1>1 DEF RowsMove, RowsTypeOK

LEMMA GiveUpType ==
  ASSUME run \in [Operations -> Run], NEW o \in Operations,
         NEW n \in Nat \cup {Unknown}, GiveUp(o, n)
  PROVE  /\ run' \in [Operations -> Run]
         /\ \A q \in Operations : q # o => run'[q] = run[q]
         /\ run'[o].pc = "failing"
<1>1. [Ready EXCEPT !.pc = "failing", !.observed = n, !.attempts = run[o].attempts] \in Run
  BY DEF Ready, Run
<1>2. [Ready EXCEPT !.pc = "failing", !.observed = n, !.attempts = run[o].attempts].pc
        = "failing"
  BY DEF Ready
<1>. QED  BY <1>1, <1>2 DEF GiveUp

LEMMA EndedType == Ended \in Run /\ Ended.pc = "done"
BY DEF Ended, Ready, Run

\* The answer of a lookup is a number or missing.
LEMMA PlusType ==
  ASSUME NEW a \in Nat \cup {Unknown}, NEW b \in Nat \cup {Unknown}
  PROVE  Plus(a, b) \in Nat \cup {Unknown}
BY DEF Plus, Unknown

RunMove(o) ==
  /\ run' \in [Operations -> Run]
  /\ \A q \in Operations : q # o => run'[q] = run[q]
  /\ run'[o].pc \in {"claimed", "call"} => run'[o].current \in People
  /\ run[o].pc # "done"

LEMMA AdvanceMovesRun ==
  ASSUME TypeInv, NEW o \in Operations, Begin(o) \/ Advance(o)
  PROVE  RunMove(o) /\ actual' \in [People -> Nat]
<1>. run \in [Operations -> Run] /\ actual \in [People -> Nat]
  BY DEF TypeInv
<1>. run[o] \in Run
  OBVIOUS
<1>. run[o].observed \in Nat \cup {Unknown} /\ run[o].attempts \in Nat
  BY DEF Run
<1>1. ASSUME NEW n \in 1..MaximumPerBatch, Authorize(o, n)
      PROVE  RunMove(o) /\ UNCHANGED actual
  <2>1. [run[o] EXCEPT !.pc = "search"] \in Run
    BY DEF Run
  <2>. QED  BY <1>1, <2>1 DEF Authorize, Goto, RunMove, Run, apollo
<1>2. ASSUME NEW found \in SUBSET People, Search(o, found)
      PROVE  RunMove(o) /\ UNCHANGED actual
  <2>1. [run[o] EXCEPT !.pc = "choose", !.todo = found] \in Run
    BY DEF Run
  <2>. QED  BY <1>2, <2>1 DEF Search, RunMove, Run, apollo
<1>3. ASSUME NEW p \in People, ClaimPerson(o, p)
      PROVE  RunMove(o) /\ UNCHANGED actual
  <2>1. /\ [run[o] EXCEPT !.todo = @ \ {p}, !.current = p, !.pc = "claimed"] \in Run
        /\ [run[o] EXCEPT !.todo = @ \ {p}] \in Run
    BY DEF Run
  <2>2. CASE Claimable(person[p])
    BY <1>3, <2>1, <2>2 DEF ClaimPerson, RunMove, Run, apollo
  <2>3. CASE ~Claimable(person[p])
    BY <1>3, <2>1, <2>3 DEF ClaimPerson, RunMove, Run, apollo
  <2>. QED  BY <2>2, <2>3
<1>4. CASE Exhaust(o)
  <2>1. [run[o] EXCEPT !.pc = "complete", !.todo = {}] \in Run
    BY DEF Run
  <2>. QED  BY <1>4, <2>1 DEF Exhaust, RunMove, Run, apollo
<1>5. CASE Dispatch(o)
  <2>1. [run[o] EXCEPT !.pc = "call", !.call = "pending", !.attempts = @ + 1] \in Run
    <3>1. run[o].attempts + 1 \in Nat
      OBVIOUS
    <3>. QED  BY <3>1 DEF Run
  <2>2. RunMove(o)
    BY <1>5, <2>1 DEF Dispatch, RunMove, Run, TypeInv
  <2>3. actual' \in [People -> Nat]
    BY <1>5 DEF Dispatch
  <2>. QED  BY <2>2, <2>3
<1>6. ASSUME NEW n \in {run[o].observed, 0, Unknown}, LocalFailure(o, n)
      PROVE  RunMove(o) /\ UNCHANGED actual
  BY <1>6, GiveUpType DEF LocalFailure, RunMove, apollo
<1>7. ASSUME NEW n \in {0, 1, Unknown}, AnswerUsable(o, n)
      PROVE  RunMove(o) /\ UNCHANGED actual
  <2>. DEFINE p == run[o].current
              r == [run[o] EXCEPT !.pc = "choose", !.call = "none", !.current = NoPerson,
                                  !.records = @ \cup {p},
                                  !.observed = Plus(@, n)]
  <2>1. p \in People /\ run[o].pc = "call" /\ UNCHANGED actual
    BY <1>7 DEF AnswerUsable, TypeInv, apollo
  <2>2. Plus(run[o].observed, n) \in Nat \cup {Unknown}
    BY PlusType
  <2>3. CASE run' = [run EXCEPT ![o] = r]
    <3>1. run[o].records \cup {p} \in SUBSET People
      BY <2>1 DEF Run
    <3>2. r \in Run
      BY <2>2, <3>1 DEF Run
    <3>3. r.pc = "choose"
      BY DEF Run
    <3>. QED  BY <2>1, <2>3, <3>2, <3>3 DEF RunMove
  <2>4. CASE GiveUp(o, Plus(run[o].observed, n))
    BY <2>1, <2>2, <2>4, GiveUpType DEF RunMove
  <2>. QED  BY <1>7, <2>3, <2>4 DEF AnswerUsable
<1>8. CASE AnswerExceeds(o)
  <2>1. run[o].pc = "call" /\ UNCHANGED actual /\ actual[run[o].current] \in Nat
    BY <1>8 DEF AnswerExceeds, TypeInv, apollo
  <2>2. Plus(run[o].observed, actual[run[o].current]) \in Nat \cup {Unknown}
    BY <2>1, PlusType
  <2>. QED  BY <1>8, <2>1, <2>2, GiveUpType DEF AnswerExceeds, RunMove
<1>9. CASE AnswerUncertain(o)
  BY <1>9, GiveUpType DEF AnswerUncertain, RunMove
<1>10. ASSUME NEW n \in {0, Unknown}, SearchFails(o, n)
       PROVE  RunMove(o) /\ UNCHANGED actual
  BY <1>10, GiveUpType DEF SearchFails, RunMove, apollo
<1>11. CASE CompleteFails(o) \/ ClaimFails(o)
  BY <1>11, GiveUpType DEF CompleteFails, ClaimFails, RunMove, apollo
<1>12. CASE Complete(o)
  BY <1>12, EndedType DEF Complete, RunMove, apollo
<1>13. CASE Fail(o)
  BY <1>13, EndedType DEF Fail, RunMove, apollo
<1>. QED
  BY <1>1, <1>2, <1>3, <1>4, <1>5, <1>6, <1>7, <1>8, <1>9, <1>10, <1>11, <1>12, <1>13
  DEF Begin, Advance

LEMMA TypeStep ==
  ASSUME TypeInv, [Next]_vars
  PROVE  TypeInv'
<1>. run \in [Operations -> Run] /\ actual \in [People -> Nat]
  BY DEF TypeInv
<1>0. RowsTypeOK'
  BY EveryStepMoves, RowTypesMove DEF TypeInv
<1>1. ASSUME NEW o \in Operations, Begin(o) \/ Advance(o)
      PROVE  TypeInv'
  BY <1>0, <1>1, AdvanceMovesRun DEF RunMove, TypeInv
<1>2. CASE Operator
  BY <1>0, <1>2
  DEF Operator, ResumeRetained, SafeRelease, RecordConsumption, apollo, TypeInv
<1>3. CASE World
  <2>1. ASSUME NEW o \in Operations, NEW cost \in 0..MaxCost, ApolloServes(o, cost)
        PROVE  TypeInv'
    <3>1. [run[o] EXCEPT !.call = "served"] \in Run
      BY DEF Run
    <3>2. cost \in Nat
      BY DiscoveryAssumption
    <3>3. run' \in [Operations -> Run] /\ actual' \in [People -> Nat]
      BY <2>1, <3>1, <3>2 DEF ApolloServes
    <3>4. \A q \in Operations : run'[q].pc = run[q].pc /\ run'[q].current = run[q].current
      BY <2>1, <3>1 DEF ApolloServes, Run
    <3>. QED  BY <1>0, <3>3, <3>4 DEF TypeInv
  <2>2. ASSUME NEW o \in Operations, NEW cost \in 0..MaxCost, NEW p \in People,
               StraySettles(o, p, cost)
        PROVE  TypeInv'
    <3>1. cost \in Nat
      BY DiscoveryAssumption
    <3>. QED  BY <1>0, <2>2, <3>1 DEF StraySettles, TypeInv
  <2>3. ASSUME NEW p \in People, GrowsStale(p)
        PROVE  TypeInv'
    BY <1>0, <2>3 DEF GrowsStale, apollo, TypeInv
  <2>. QED  BY <1>3, <2>1, <2>2, <2>3 DEF World
<1>4. CASE Crash
  BY <1>0, <1>4, EndedType DEF Crash, TypeInv
<1>5. CASE UNCHANGED vars
  BY <1>0, <1>5 DEF vars, TypeInv
<1>. QED  BY <1>1, <1>2, <1>3, <1>4, <1>5 DEF Next

LEMMA TypeInit == Init => TypeInv
<1>1. NoReservation \in Reservation /\ Ready \in Run
  BY DEF NoReservation, Reservation, Lifecycles, Unknown, Ready, Run
<1>. QED  BY <1>1 DEF Init, TypeInv, RowsTypeOK, Ready

\* The rows of the reservations are well formed in every behaviour, whatever Apollo
\* charges and reports.
THEOREM RowsTypeCorrect == Spec => []RowsTypeOK
<1>1. TypeInv /\ [Next]_vars => TypeInv'
  BY TypeStep
<1>2. TypeInv => RowsTypeOK
  BY DEF TypeInv
<1>. QED  BY TypeInit, <1>1, <1>2, PTL DEF Spec

-----------------------------------------------------------------------------
(* The invariants of a row.                                                 *)

\* What a step does to one row.
OneRow(p) ==
  \/ person'[p] = person[p]
  \/ RowChange(p, person'[p])
  \/ /\ MayImport(person[p], person[p].owner) /\ p \in imported'
     /\ person'[p] = Imported(person[p])

LEMMA EachRow ==
  ASSUME RowsTypeOK, RowsMove, NEW p \in People
  PROVE  OneRow(p) /\ person[p] \in Reservation /\ imported \subseteq imported'
<1>. person \in [People -> Reservation]
  BY DEF RowsTypeOK
<1>1. ASSUME NEW q \in People, NEW row \in Reservation,
             RowChange(q, row), person' = [person EXCEPT ![q] = row]
      PROVE  OneRow(p)
  <2>1. CASE p = q
    <3>1. person'[p] = row
      BY <1>1, <2>1
    <3>. QED  BY <1>1, <2>1, <3>1 DEF OneRow
  <2>2. CASE p # q
    BY <1>1, <2>2 DEF OneRow
  <2>. QED  BY <2>1, <2>2
<1>2. ASSUME NEW S \in SUBSET People, ImportStep(S)
      PROVE  OneRow(p)
  BY <1>2 DEF ImportStep, OneRow
<1>. QED  BY <1>1, <1>2 DEF RowsMove, OneRow

\* What LookupInv says of a row.
LookupOK(row) ==
  /\ row.attempts <= 1 + row.releases
  /\ row.lifecycle \in {"absent", "reserved-never-attempted", "released-no-consumption"}
       => row.attempts <= row.releases

LEMMA LookupStep ==
  ASSUME RowsTypeOK, LookupInv, RowsMove
  PROVE  LookupInv'
<1>. SUFFICES ASSUME NEW p \in People
              PROVE  LookupOK(person'[p])
  BY DEF LookupInv, LookupOK
<1>. DEFINE row == person[p]
<1>1. OneRow(p) /\ row \in Reservation
  BY EachRow
<1>2. LookupOK(row) /\ row.attempts \in Nat /\ row.releases \in Nat
  BY <1>1 DEF LookupInv, LookupOK, Reservation
<1>. HIDE DEF row
<1>3. ASSUME NEW o \in Operations, Claimable(row)
      PROVE  LookupOK(Claimed(row, o))
  BY <1>1, <1>2, <1>3 DEF Claimable, Claimed, LookupOK, Reservation
<1>4. ASSUME row.lifecycle = "reserved-never-attempted"
      PROVE  /\ LookupOK(Attempted(row)) /\ LookupOK(ReleasedUnattempted(row))
             /\ LookupOK([row EXCEPT !.stale = TRUE])
  BY <1>1, <1>2, <1>4 DEF Attempted, ReleasedUnattempted, LookupOK, Reservation
<1>5. ASSUME row.lifecycle = "reconciliation-required"
      PROVE  /\ LookupOK(Uncertain(row)) /\ LookupOK(SafelyReleased(row))
             /\ \A n \in Nat \cup {Unknown}, b \in BOOLEAN : LookupOK(Usable(row, n, b))
  BY <1>1, <1>2, <1>5 DEF Uncertain, Usable, SafelyReleased, LookupOK, Reservation
<1>6. \A n \in Nat : LookupOK(Consumed(row, n))
  BY <1>1, <1>2 DEF Consumed, LookupOK, Reservation
<1>7. LookupOK(Imported(row))
  BY <1>1, <1>2 DEF Imported, LookupOK, Reservation
<1>8. /\ person'[p] = person[p] => LookupOK(person'[p])
      /\ row = person[p]
  BY <1>2 DEF row
<1>. QED
  BY <1>1, <1>3, <1>4, <1>5, <1>6, <1>7, <1>8 DEF OneRow, RowChange, MayRelease

LEMMA RetainedStep ==
  ASSUME RowsTypeOK, RetainedInv, RowsMove
  PROVE  RetainedInv'
<1>. SUFFICES ASSUME NEW p \in People
              PROVE  person'[p].retained => person'[p].lifecycle = "attempted-result-usable"
  BY DEF RetainedInv
<1>1. OneRow(p) /\ person[p] \in Reservation
  BY EachRow
<1>2. person[p].retained => person[p].lifecycle = "attempted-result-usable"
  BY DEF RetainedInv
<1>3. ASSUME NEW o \in Operations, person'[p] = Claimed(person[p], o)
      PROVE  ~person'[p].retained
  BY <1>1, <1>3 DEF Claimed, Reservation
<1>4. CASE person[p].lifecycle = "reserved-never-attempted"
           /\ person'[p] \in {Attempted(person[p]), ReleasedUnattempted(person[p]),
                              [person[p] EXCEPT !.stale = TRUE]}
  BY <1>1, <1>2, <1>4 DEF Attempted, ReleasedUnattempted, Reservation
<1>5. CASE \/ person'[p] = Uncertain(person[p])
           \/ \E n \in Nat \cup {Unknown}, b \in BOOLEAN :
                person'[p] = Usable(person[p], n, b)
  BY <1>1, <1>5 DEF Uncertain, Usable, Reservation
<1>6. CASE \/ person'[p] = SafelyReleased(person[p])
           \/ \E n \in Nat : person'[p] = Consumed(person[p], n)
           \/ person'[p] = Imported(person[p])
  BY <1>1, <1>6 DEF SafelyReleased, Consumed, Imported, Reservation
<1>. QED  BY <1>1, <1>2, <1>3, <1>4, <1>5, <1>6 DEF OneRow, RowChange

LEMMA ImportedStep ==
  ASSUME RowsTypeOK, ImportedInv, RowsMove
  PROVE  ImportedInv'
<1>. SUFFICES ASSUME NEW p \in People, person'[p].lifecycle = "completed-imported"
              PROVE  p \in imported'
  BY DEF ImportedInv
<1>1. OneRow(p) /\ person[p] \in Reservation /\ imported \subseteq imported'
  BY EachRow
<1>2. person[p].lifecycle = "completed-imported" => p \in imported
  BY DEF ImportedInv
<1>3. ASSUME NEW o \in Operations  PROVE person'[p] # Claimed(person[p], o)
  BY <1>1 DEF Claimed, Reservation
<1>4. ~ /\ person[p].lifecycle = "reserved-never-attempted"
        /\ person'[p] \in {Attempted(person[p]), ReleasedUnattempted(person[p]),
                           [person[p] EXCEPT !.stale = TRUE]}
  BY <1>1 DEF Attempted, ReleasedUnattempted, Reservation
<1>5. ~ /\ person[p].lifecycle = "reconciliation-required"
        /\ \/ person'[p] = Uncertain(person[p])
           \/ \E n \in Nat \cup {Unknown}, b \in BOOLEAN :
                person'[p] = Usable(person[p], n, b)
  BY <1>1 DEF Uncertain, Usable, Reservation
<1>6. /\ person'[p] # SafelyReleased(person[p])
      /\ \A n \in Nat : person'[p] # Consumed(person[p], n)
  BY <1>1 DEF SafelyReleased, Consumed, Reservation
<1>. QED  BY <1>1, <1>2, <1>3, <1>4, <1>5, <1>6 DEF OneRow, RowChange

-----------------------------------------------------------------------------
(* Who owns whom.                                                           *)

LEMMA OwnerMoves ==
  ASSUME RowsTypeOK, RowsMove, NEW p \in People, NEW o \in Operations,
         person'[p].owner = o
  PROVE  person[p].owner = o \/ (ClaimPerson(o, p) /\ Claimable(person[p]))
<1>. DEFINE row == person[p]
<1>1. OneRow(p) /\ row \in Reservation
  BY EachRow
<1>. HIDE DEF row
<1>2. /\ Attempted(row).owner = row.owner /\ ReleasedUnattempted(row).owner = row.owner
      /\ [row EXCEPT !.stale = TRUE].owner = row.owner
      /\ Uncertain(row).owner = row.owner /\ SafelyReleased(row).owner = row.owner
      /\ Imported(row).owner = row.owner
  BY <1>1 DEF Attempted, ReleasedUnattempted, Uncertain, SafelyReleased, Imported, Reservation
<1>3. \A n \in Nat \cup {Unknown}, b \in BOOLEAN : Usable(row, n, b).owner = row.owner
  BY <1>1 DEF Usable, Reservation
<1>4. \A n \in Nat : Consumed(row, n).owner = row.owner
  BY <1>1 DEF Consumed, Reservation
<1>5. \A q \in Operations : Claimed(row, q).owner = q
  BY <1>1 DEF Claimed, Reservation
<1>6. row = person[p]
  BY DEF row
<1>. QED  BY <1>1, <1>2, <1>3, <1>4, <1>5, <1>6 DEF OneRow, RowChange

LEMMA KnowledgeGrows ==
  ASSUME TypeInv, [Next]_vars, NEW o \in Operations, NEW p \in People,
         Knows(o, p) \/ (ClaimPerson(o, p) /\ Claimable(person[p]))
  PROVE  Knows(o, p)'
<1>. run \in [Operations -> Run]
  BY DEF TypeInv
<1>. run[o] \in Run
  OBVIOUS
<1>1. CASE ClaimPerson(o, p) /\ Claimable(person[p])
  BY <1>1 DEF ClaimPerson, Knows, Run
<1>2. CASE Knows(o, p) /\ (Begin(o) \/ Advance(o))
  <2>1. ASSUME NEW n, GiveUp(o, n)  PROVE Knows(o, p)'
    BY <2>1 DEF GiveUp, Ready, Knows
  <2>2. CASE run' = [run EXCEPT ![o] = Ended]
    BY <2>2, EndedType DEF Knows
  <2>3. ASSUME NEW n, Authorize(o, n)  PROVE Knows(o, p)'
    BY <1>2, <2>3 DEF Authorize, Goto, Knows, Run
  <2>4. ASSUME NEW found, Search(o, found)  PROVE Knows(o, p)'
    BY <1>2, <2>4 DEF Search, Knows, Run
  <2>5. ASSUME NEW q \in People, ClaimPerson(o, q)  PROVE Knows(o, p)'
    BY <1>2, <2>5 DEF ClaimPerson, Knows, Run
  <2>6. CASE Exhaust(o)
    BY <1>2, <2>6 DEF Exhaust, Knows, Run
  <2>7. CASE Dispatch(o)
    BY <1>2, <2>7 DEF Dispatch, Knows, Run
  <2>8. ASSUME NEW n, AnswerUsable(o, n)  PROVE Knows(o, p)'
    <3>1. CASE /\ run[o].pc = "call"
               /\ run' = [run EXCEPT ![o].pc = "choose", ![o].call = "none",
                                     ![o].current = NoPerson,
                                     ![o].records = @ \cup {run[o].current},
                                     ![o].observed = Plus(@, n)]
      <4>1. run'[o].records = run[o].records \cup {run[o].current}
        BY <3>1 DEF Run
      <4>. QED  BY <1>2, <3>1, <4>1 DEF Knows
    <3>. QED  BY <2>1, <2>8, <3>1 DEF AnswerUsable
  <2>9. ASSUME NEW n, SearchFails(o, n) \/ LocalFailure(o, n)  PROVE Knows(o, p)'
    BY <2>1, <2>9 DEF SearchFails, LocalFailure
  <2>10. CASE AnswerExceeds(o) \/ AnswerUncertain(o) \/ CompleteFails(o) \/ ClaimFails(o)
    BY <2>1, <2>10 DEF AnswerExceeds, AnswerUncertain, CompleteFails, ClaimFails
  <2>11. CASE Complete(o) \/ Fail(o)
    BY <2>2, <2>11 DEF Complete, Fail
  <2>. QED
    BY <1>2, <2>3, <2>4, <2>5, <2>6, <2>7, <2>8, <2>9, <2>10, <2>11 DEF Begin, Advance
<1>3. ASSUME Knows(o, p), NEW q \in Operations, q # o, Begin(q) \/ Advance(q)
      PROVE  Knows(o, p)'
  BY <1>3, AdvanceMovesRun DEF RunMove, Knows
<1>4. CASE Knows(o, p) /\ Operator
  BY <1>4 DEF Operator, ResumeRetained, SafeRelease, RecordConsumption, Knows
<1>5. CASE Knows(o, p) /\ World
  <2>1. ASSUME NEW q \in Operations, NEW cost, ApolloServes(q, cost)
        PROVE  Knows(o, p)'
    BY <1>5, <2>1 DEF ApolloServes, Knows, Run
  <2>. QED  BY <1>5, <2>1 DEF World, StraySettles, GrowsStale, Knows
<1>6. CASE Knows(o, p) /\ Crash
  BY <1>6, EndedType DEF Crash, Knows
<1>7. CASE Knows(o, p) /\ UNCHANGED vars
  BY <1>7 DEF vars, Knows
<1>. QED  BY <1>1, <1>2, <1>3, <1>4, <1>5, <1>6, <1>7 DEF Next

LEMMA OwnedStep ==
  ASSUME TypeInv, OwnedInv, [Next]_vars
  PROVE  OwnedInv'
<1>. SUFFICES ASSUME NEW o \in Operations, NEW p \in People, person'[p].owner = o
              PROVE  Knows(o, p)'
  BY DEF OwnedInv
<1>1. person[p].owner = o \/ (ClaimPerson(o, p) /\ Claimable(person[p]))
  BY EveryStepMoves, OwnerMoves DEF TypeInv
<1>. QED  BY <1>1, KnowledgeGrows DEF OwnedInv

\* A discovery that ended stays ended.
LEMMA DoneStaysDone ==
  ASSUME TypeInv, [Next]_vars, NEW o \in Operations, run[o].pc = "done"
  PROVE  run'[o].pc = "done"
<1>. run \in [Operations -> Run]
  BY DEF TypeInv
<1>1. ASSUME NEW q \in Operations, Begin(q) \/ Advance(q)
      PROVE  run'[o] = run[o]
  BY <1>1, AdvanceMovesRun DEF RunMove
<1>2. CASE Operator
  BY <1>2 DEF Operator, ResumeRetained, SafeRelease, RecordConsumption
<1>3. CASE World
  BY <1>3 DEF World, ApolloServes, StraySettles, GrowsStale, Run
<1>4. CASE Crash
  BY <1>4, EndedType DEF Crash
<1>5. CASE UNCHANGED vars
  BY <1>5 DEF vars
<1>. QED  BY <1>1, <1>2, <1>3, <1>4, <1>5 DEF Next

-----------------------------------------------------------------------------
(* Rows that are settled, and operations that are completed.                *)

LEMMA SettledRow ==
  ASSUME RowsTypeOK, RetainedInv, RowsMove, NEW p \in People,
         person[p].lifecycle \in {"completed-imported", "consumed-no-import"}
  PROVE  person'[p] = person[p]
<1>1. OneRow(p) /\ person[p] \in Reservation
  BY EachRow
<1>2. ~RowChange(p, person'[p])
  BY DEF RowChange, Claimable, MayRelease, MayRecordConsumption
<1>3. ASSUME MayImport(person[p], person[p].owner)
      PROVE  Imported(person[p]) = person[p]
  <2>1. person[p].lifecycle = "completed-imported"
    BY <1>3 DEF MayImport
  <2>2. person[p].retained = FALSE
    BY <1>1, <2>1 DEF RetainedInv, Reservation
  <2>. QED  BY <1>1, <2>1, <2>2 DEF Imported, Reservation
<1>. QED  BY <1>1, <1>2, <1>3 DEF OneRow

LEMMA RecomputedShape ==
  ASSUME NEW rows, NEW row, NEW o, ParentShape(row)
  PROVE  /\ ParentShape(Recomputed(rows, row, o))
         /\ Recomputed(rows, row, o).state \in {row.state, "failed"}
<1>. DEFINE attempts == Cardinality(Counted(rows, o))
            observed == IF Known(rows, o) = Counted(rows, o) THEN KnownCredits(rows, o)
                                                             ELSE Unknown
            state == IF \E p \in Children(rows, o) : rows[p].violation
                     THEN "failed" ELSE row.state
<1>1. CASE Children(rows, o) = {}
  BY <1>1 DEF Recomputed
<1>2. CASE Children(rows, o) # {}
  <2>1. Recomputed(rows, row, o) =
          [row EXCEPT !.attempts = attempts, !.observed = observed, !.state = state]
    BY <1>2 DEF Recomputed
  <2>. HIDE DEF attempts, observed
  <2>2. Recomputed(rows, row, o) = [state |-> state, exposure |-> row.exposure,
                                    attempts |-> attempts, observed |-> observed]
    BY <2>1 DEF ParentShape
  <2>. QED  BY <2>2 DEF ParentShape
<1>. QED  BY <1>1, <1>2

LEMMA StateShape ==
  ASSUME NEW row, ParentShape(row), NEW state, NEW next, next = [row EXCEPT !.state = state]
  PROVE  ParentShape(next) /\ next.state = state
BY DEF ParentShape

ParentStep(o) ==
  /\ ParentShape(parent'[o])
  /\ parent'[o].state = "completed" => parent[o].state = "completed" \/ Complete(o)

ParentsStep ==
  /\ parent' = [o \in Operations |-> parent'[o]]
  /\ \A o \in Operations : ParentStep(o)

LEMMA NoParentStep ==
  ASSUME ParentInv, UNCHANGED parent
  PROVE  ParentsStep
BY DEF ParentInv, ParentsStep, ParentStep, ParentShape

LEMMA SettleStep ==
  ASSUME ParentInv, NEW p, NEW row, NEW o, Settle(p, row, o)
  PROVE  ParentsStep
<1>1. parent' = [parent EXCEPT ![o] = Recomputed(person', parent[o], o)]
  BY DEF Settle
<1>2. parent' = [q \in Operations |-> parent'[q]]
  BY <1>1 DEF ParentInv
<1>3. ASSUME NEW q \in Operations  PROVE ParentStep(q)
  <2>1. CASE q = o
    <3>1. parent'[q] = Recomputed(person', parent[q], q)
      BY <1>1, <2>1 DEF ParentInv
    <3>2. ParentShape(parent[q])
      BY DEF ParentInv
    <3>. QED  BY <3>1, <3>2, RecomputedShape DEF ParentStep
  <2>2. CASE q # o
    <3>1. parent'[q] = parent[q] /\ ParentShape(parent[q])
      BY <1>1, <2>2 DEF ParentInv
    <3>. QED  BY <3>1 DEF ParentStep, ParentShape
  <2>. QED  BY <2>1, <2>2
<1>. QED  BY <1>2, <1>3 DEF ParentsStep

\* An operation that sets its own row.
LEMMA OwnParentStep ==
  ASSUME ParentInv, NEW o \in Operations, NEW row,
         parent' = [parent EXCEPT ![o] = row], ParentShape(row),
         row.state = "completed" => Complete(o)
  PROVE  ParentsStep
<1>1. parent' = [q \in Operations |-> parent'[q]]
  BY DEF ParentInv
<1>2. ASSUME NEW q \in Operations  PROVE ParentStep(q)
  <2>1. CASE q = o
    <3>1. parent'[q] = row
      BY <2>1 DEF ParentInv
    <3>. QED  BY <2>1, <3>1 DEF ParentStep
  <2>2. CASE q # o
    <3>1. parent'[q] = parent[q] /\ ParentShape(parent[q])
      BY <2>2 DEF ParentInv
    <3>. QED  BY <3>1 DEF ParentStep, ParentShape
  <2>. QED  BY <2>1, <2>2
<1>. QED  BY <1>1, <1>2 DEF ParentsStep

LEMMA DiscoveryParents ==
  ASSUME ParentInv, NEW o \in Operations, Begin(o) \/ Advance(o)
  PROVE  ParentsStep
<1>. ParentShape(parent[o])
  BY DEF ParentInv
<1>1. ASSUME NEW n, Authorize(o, n)  PROVE ParentsStep
  <2>. DEFINE maximum == Min({n, MaximumPerBatch, Remaining})
              row == [parent[o] EXCEPT !.state = "authorized", !.exposure = maximum]
  <2>1. parent' = [parent EXCEPT ![o] = row]
    BY <1>1 DEF Authorize, ParentInv
  <2>2. row = [parent[o] EXCEPT !.state = "authorized", !.exposure = maximum]
    OBVIOUS
  <2>. HIDE DEF maximum, row
  <2>3. ParentShape(row) /\ row.state = "authorized"
    BY <2>2 DEF ParentShape
  <2>. QED  BY <2>1, <2>3, OwnParentStep
<1>2. ASSUME NEW found, Search(o, found)  PROVE ParentsStep
  BY <1>2, NoParentStep DEF Search, store
<1>3. ASSUME NEW p \in People, ClaimPerson(o, p)  PROVE ParentsStep
  BY <1>3, NoParentStep DEF ClaimPerson
<1>4. CASE Exhaust(o) \/ CompleteFails(o) \/ ClaimFails(o)
  BY <1>4, NoParentStep DEF Exhaust, CompleteFails, ClaimFails, store
<1>5. CASE Dispatch(o)
  BY <1>5, SettleStep DEF Dispatch
<1>6. ASSUME NEW n, LocalFailure(o, n)  PROVE ParentsStep
  BY <1>6, SettleStep, NoParentStep DEF LocalFailure
<1>7. ASSUME NEW p, NEW row, Annotate(p, row, o)  PROVE ParentsStep
  BY <1>7, SettleStep, NoParentStep DEF Annotate
<1>8. ASSUME NEW n, AnswerUsable(o, n)  PROVE ParentsStep
  BY <1>7, <1>8, SettleStep DEF AnswerUsable
<1>9. CASE AnswerExceeds(o) \/ AnswerUncertain(o)
  BY <1>7, <1>9 DEF AnswerExceeds, AnswerUncertain
<1>10. ASSUME NEW n, SearchFails(o, n)  PROVE ParentsStep
  BY <1>10, NoParentStep DEF SearchFails, store
<1>11. CASE Complete(o)
  <2>. DEFINE rows == ImportedRows(o)
              row == Recomputed(rows, parent[o], o)
              next == IF Children(rows, o) # {} THEN [row EXCEPT !.state = "completed"]
                      ELSE [row EXCEPT !.state = "completed",
                                       !.attempts = Max({@, run[o].attempts}),
                                       !.observed = run[o].observed]
  <2>1. ParentShape(row)
    BY RecomputedShape
  <2>2. parent' = [parent EXCEPT ![o] = next]
    BY <1>11 DEF Complete
  <2>. HIDE DEF row
  <2>3. PICK attempts, observed :
           \/ next = [row EXCEPT !.state = "completed"]
           \/ next = [row EXCEPT !.state = "completed", !.attempts = attempts,
                                 !.observed = observed]
    OBVIOUS
  <2>. HIDE DEF next
  <2>4. ParentShape(next)
    BY <2>1, <2>3 DEF ParentShape
  <2>. QED  BY <1>11, <2>2, <2>4, OwnParentStep
<1>12. CASE Fail(o)
  <2>. DEFINE failed == [parent[o] EXCEPT !.state = "failed"]
              row == Recomputed(person, failed, o)
              attempts == Max({row.attempts, run[o].attempts})
              observed == Max({row.observed, run[o].observed})
              changed == [row EXCEPT !.state = "failed", !.attempts = attempts,
                                     !.observed = observed]
  <2>1. failed = [parent[o] EXCEPT !.state = "failed"]
    OBVIOUS
  <2>. HIDE DEF failed
  <2>2. ParentShape(failed) /\ failed.state = "failed"
    BY <2>1, StateShape
  <2>3. ParentShape(row) /\ row.state = "failed"
    BY <2>2, RecomputedShape
  <2>4. [row EXCEPT !.attempts = attempts, !.observed = observed] = changed
    <3>. HIDE DEF row, attempts, observed
    <3>. QED  BY <2>3 DEF ParentShape
  <2>5. \/ parent' = parent \/ parent' = [parent EXCEPT ![o] = row]
        \/ parent' = [parent EXCEPT ![o] = changed]
    BY <1>12, <2>1, <2>4 DEF Fail
  <2>6. changed = [row EXCEPT !.state = "failed", !.attempts = attempts,
                              !.observed = observed]
    OBVIOUS
  <2>. HIDE DEF row, attempts, observed, changed
  <2>7. ParentShape(changed) /\ changed.state = "failed"
    BY <2>3, <2>6 DEF ParentShape
  <2>. QED  BY <2>3, <2>5, <2>7, OwnParentStep, NoParentStep
<1>. QED
  BY <1>1, <1>2, <1>3, <1>4, <1>5, <1>6, <1>8, <1>9, <1>10, <1>11, <1>12 DEF Begin, Advance

LEMMA EveryParentStep ==
  ASSUME ParentInv, [Next]_vars
  PROVE  ParentsStep
<1>1. CASE Operator
  BY <1>1, SettleStep DEF Operator, ResumeRetained, SafeRelease, RecordConsumption
<1>2. CASE World \/ Crash \/ UNCHANGED vars
  BY <1>2, NoParentStep DEF World, ApolloServes, StraySettles, GrowsStale, Crash, store, vars
<1>. QED  BY <1>1, <1>2, DiscoveryParents DEF Next

LEMMA ParentInvStep ==
  ASSUME TypeInv, RetainedInv, OwnedInv, ParentInv, [Next]_vars
  PROVE  ParentInv'
<1>. RowsTypeOK /\ RowsMove /\ ParentsStep
  BY EveryStepMoves, EveryParentStep DEF TypeInv
<1>1. parent' = [o \in Operations |-> parent'[o]]
  BY DEF ParentsStep
<1>2. ASSUME NEW o \in Operations  PROVE ParentShape(parent'[o])
  BY DEF ParentsStep, ParentStep
<1>3. ASSUME NEW o \in Operations, parent'[o].state = "completed"
      PROVE  /\ run'[o].pc = "done"
             /\ \A p \in People : person'[p].owner = o =>
                  person'[p].lifecycle = "completed-imported"
  <2>1. CASE parent[o].state = "completed"
    <3>1. /\ run[o].pc = "done"
          /\ \A p \in People : person[p].owner = o =>
               person[p].lifecycle = "completed-imported"
      BY <2>1 DEF ParentInv
    <3>2. run'[o].pc = "done"
      BY <3>1, DoneStaysDone
    <3>3. ASSUME NEW p \in People, person'[p].owner = o
          PROVE  person'[p].lifecycle = "completed-imported"
      <4>1. person[p].owner = o
        BY <3>1, <3>3, OwnerMoves DEF ClaimPerson
      <4>. QED  BY <3>1, <4>1, SettledRow
    <3>. QED  BY <3>2, <3>3
  <2>2. CASE Complete(o)
    <3>1. run'[o].pc = "done" /\ run[o].pc = "complete"
      BY <2>2, EndedType DEF Complete, TypeInv
    <3>2. ASSUME NEW p \in People, person'[p].owner = o
          PROVE  person'[p].lifecycle = "completed-imported"
      <4>1. person[p].owner = o
        BY <3>1, <3>2, OwnerMoves DEF ClaimPerson
      <4>2. p \in run[o].records
        BY <3>1, <4>1 DEF OwnedInv, Knows
      <4>3. person'[p] = Imported(person[p]) /\ person[p] \in Reservation
        BY <2>2, <4>2 DEF Complete, ImportedRows, RowsTypeOK
      <4>. QED  BY <4>3 DEF Imported, Reservation
    <3>. QED  BY <3>1, <3>2
  <2>. QED  BY <1>3, <2>1, <2>2 DEF ParentsStep, ParentStep
<1>. QED  BY <1>1, <1>2, <1>3 DEF ParentInv, ParentShape

-----------------------------------------------------------------------------
(* The safety theorems.                                                     *)

LEMMA InvInit == Init => IInv
<1>. SUFFICES ASSUME Init  PROVE IInv
  OBVIOUS
<1>1. LookupInv /\ RetainedInv /\ ImportedInv
  BY DEF Init, NoReservation, LookupInv, RetainedInv, ImportedInv
<1>2. OwnedInv
  BY DiscoveryAssumption DEF Init, NoReservation, OwnedInv
<1>3. ParentInv
  BY DEF Init, ParentInv, ParentShape
<1>. QED  BY TypeInit, <1>1, <1>2, <1>3 DEF IInv

THEOREM Invariance == Spec => []IInv
<1>1. Init => IInv
  BY InvInit
<1>2. IInv /\ [Next]_vars => IInv'
  <2>. SUFFICES ASSUME IInv, [Next]_vars  PROVE IInv'
    OBVIOUS
  <2>1. TypeInv' /\ RowsMove /\ RowsTypeOK
    BY TypeStep, EveryStepMoves DEF IInv, TypeInv
  <2>2. LookupInv' /\ RetainedInv' /\ ImportedInv'
    BY <2>1, LookupStep, RetainedStep, ImportedStep DEF IInv
  <2>3. OwnedInv' /\ ParentInv'
    BY OwnedStep, ParentInvStep DEF IInv
  <2>. QED  BY <2>1, <2>2, <2>3 DEF IInv
<1>. QED  BY <1>1, <1>2, PTL DEF Spec

\* Nobody is looked up again unless the operator released them as free of charge: for
\* any number of operations, takeovers, crashes and late answers.
THEOREM LookupsAreBounded == Spec => []LookupsBounded
<1>1. IInv => LookupsBounded
  BY DEF IInv, LookupInv, LookupsBounded
<1>. QED  BY <1>1, Invariance, PTL

\* A completed operation has imported everyone it owns.
THEOREM CompletionImports == Spec => []CompletedIsImported
<1>1. IInv => CompletedIsImported
  BY DEF IInv, TypeInv, ParentInv, ImportedInv, CompletedIsImported, Children
<1>. QED  BY <1>1, Invariance, PTL

\* No step changes the row of a person who was imported or written off.
THEOREM SettlementIsFinal == Spec => SettledForGood
<1>1. IInv /\ [Next]_vars =>
        [\A p \in People :
           person[p].lifecycle \in {"completed-imported", "consumed-no-import"}
             => person'[p] = person[p]]_vars
  BY EveryStepMoves, SettledRow DEF IInv, TypeInv
<1>. QED  BY <1>1, Invariance, PTL DEF Spec, SettledForGood

\* No step loses a retained result, except to an import or a write-off.
THEOREM ResultsAreKept == Spec => PaidResultsKept
<1>1. ASSUME IInv, [Next]_vars, NEW p \in People, person[p].retained
      PROVE  \/ person'[p].retained
             \/ p \in imported'
             \/ person'[p].lifecycle = "consumed-no-import"
  <2>1. OneRow(p) /\ person[p] \in Reservation
    BY <1>1, EveryStepMoves, EachRow DEF IInv, TypeInv
  <2>2. person[p].lifecycle = "attempted-result-usable"
    BY <1>1 DEF IInv, RetainedInv
  <2>3. RowChange(p, person'[p]) => \E n \in Nat : person'[p] = Consumed(person[p], n)
    BY <2>2 DEF RowChange, Claimable, MayRelease
  <2>4. \A n \in Nat : Consumed(person[p], n).lifecycle = "consumed-no-import"
    BY <2>1 DEF Consumed, Reservation
  <2>. QED  BY <1>1, <2>1, <2>3, <2>4 DEF OneRow
<1>2. IInv /\ [Next]_vars =>
        [\A p \in People : person[p].retained =>
           \/ person'[p].retained
           \/ p \in imported'
           \/ person'[p].lifecycle = "consumed-no-import"]_vars
  BY <1>1
<1>. QED  BY <1>2, Invariance, PTL DEF Spec, PaidResultsKept

-----------------------------------------------------------------------------
(* Exclusion.  A lookup in progress keeps its person to itself, provided the *)
(* operator settles no lookup before its outcome is known.                  *)

CallInv ==
  \A o \in Operations : run[o].pc = "call" => AwaitsOutcome(person[run[o].current], o)

\* The only step of a discovery that leads to a call is its dispatch.
LEMMA CallBegins ==
  ASSUME TypeInv, NEW o \in Operations, Begin(o) \/ Advance(o), run'[o].pc = "call"
  PROVE  Dispatch(o)
<1>. run \in [Operations -> Run]
  BY DEF TypeInv
<1>1. ASSUME NEW n  PROVE ~GiveUp(o, n)
  BY DEF GiveUp, Ready
<1>2. run' # [run EXCEPT ![o] = Ended]
  BY EndedType
<1>3. ASSUME NEW n  PROVE ~AnswerUsable(o, n)
  <2>1. CASE run' = [run EXCEPT ![o].pc = "choose", ![o].call = "none",
                                ![o].current = NoPerson,
                                ![o].records = @ \cup {run[o].current},
                                ![o].observed = Plus(@, n)]
    BY <2>1 DEF Run
  <2>. QED  BY <1>1, <2>1 DEF AnswerUsable
<1>4. \A n : ~Authorize(o, n) /\ ~Search(o, n)
  BY DEF Authorize, Goto, Search, Run
<1>5. \A p \in People : ~ClaimPerson(o, p)
  BY DEF ClaimPerson, Run
<1>6. \A n : ~SearchFails(o, n) /\ ~LocalFailure(o, n)
  BY <1>1 DEF SearchFails, LocalFailure
<1>7. ~AnswerExceeds(o) /\ ~AnswerUncertain(o) /\ ~CompleteFails(o) /\ ~ClaimFails(o)
  BY <1>1 DEF AnswerExceeds, AnswerUncertain, CompleteFails, ClaimFails
<1>8. ~Complete(o) /\ ~Fail(o) /\ ~Exhaust(o)
  BY <1>2 DEF Complete, Fail, Exhaust, Run
<1>. QED  BY <1>3, <1>4, <1>5, <1>6, <1>7, <1>8 DEF Begin, Advance

\* A step of another discovery does not touch a person who is being looked up.
LEMMA OthersLeaveAlone ==
  ASSUME RowsTypeOK, NEW o \in Operations, NEW q \in Operations, q # o,
         Begin(q) \/ Advance(q), NEW p \in People, AwaitsOutcome(person[p], o)
  PROVE  person'[p] = person[p]
<1>. person \in [People -> Reservation]
  BY DEF RowsTypeOK
<1>1. ASSUME NEW r, NEW row, Settle(r, row, q), r # p
      PROVE  person'[p] = person[p]
  BY <1>1 DEF Settle
<1>2. ASSUME NEW r, NEW row, Annotate(r, row, q)
      PROVE  person'[p] = person[p]
  BY <1>1, <1>2 DEF Annotate, AwaitsOutcome
<1>3. ASSUME NEW n, Authorize(q, n) \/ Search(q, n) \/ SearchFails(q, n)
      PROVE  person'[p] = person[p]
  BY <1>3 DEF Authorize, Search, SearchFails, store
<1>4. ASSUME NEW r \in People, ClaimPerson(q, r)
      PROVE  person'[p] = person[p]
  BY <1>4 DEF ClaimPerson, Claimable, AwaitsOutcome
<1>5. CASE Dispatch(q)
  BY <1>1, <1>5 DEF Dispatch, HeldUnattempted, AwaitsOutcome
<1>6. ASSUME NEW n, LocalFailure(q, n)
      PROVE  person'[p] = person[p]
  BY <1>1, <1>6 DEF LocalFailure, HeldUnattempted, AwaitsOutcome
<1>7. ASSUME NEW n, AnswerUsable(q, n)
      PROVE  person'[p] = person[p]
  BY <1>1, <1>2, <1>7 DEF AnswerUsable, AwaitsOutcome
<1>8. CASE AnswerExceeds(q) \/ AnswerUncertain(q)
  BY <1>2, <1>8 DEF AnswerExceeds, AnswerUncertain
<1>9. CASE Complete(q)
  BY <1>9 DEF Complete, ImportedRows, MayImport, AwaitsOutcome
<1>10. CASE Exhaust(q) \/ CompleteFails(q) \/ ClaimFails(q) \/ Fail(q)
  BY <1>10 DEF Exhaust, CompleteFails, ClaimFails, Fail, store
<1>. QED
  BY <1>3, <1>4, <1>5, <1>6, <1>7, <1>8, <1>9, <1>10 DEF Begin, Advance

LEMMA CallStep ==
  ASSUME ~HastyOperator, TypeInv, CallInv, [Next]_vars
  PROVE  CallInv'
<1>. SUFFICES ASSUME NEW o \in Operations, run'[o].pc = "call"
              PROVE  AwaitsOutcome(person'[run'[o].current], o)
  BY DEF CallInv
<1>. run \in [Operations -> Run] /\ person \in [People -> Reservation]
  BY DEF TypeInv, RowsTypeOK
<1>. DEFINE p == run[o].current
<1>1. ASSUME run[o].pc = "call"
      PROVE  p \in People /\ AwaitsOutcome(person[p], o) /\ InFlight(p)
  BY <1>1 DEF TypeInv, CallInv, InFlight
<1>2. CASE Dispatch(o)
  <2>1. p \in People /\ HeldUnattempted(person[p], o)
    BY <1>2 DEF Dispatch, TypeInv
  <2>2. run'[o].current = p /\ person'[p] = Attempted(person[p])
    BY <1>2, <2>1 DEF Dispatch, Settle, Run
  <2>. QED  BY <2>1, <2>2 DEF Attempted, HeldUnattempted, AwaitsOutcome, Reservation
<1>3. ASSUME NEW q \in Operations, q # o, Begin(q) \/ Advance(q)
      PROVE  AwaitsOutcome(person'[run'[o].current], o)
  <2>1. run'[o] = run[o]
    BY <1>3, AdvanceMovesRun DEF RunMove
  <2>2. person'[p] = person[p]
    BY <1>1, <1>3, <2>1, OthersLeaveAlone DEF TypeInv
  <2>. QED  BY <1>1, <2>1, <2>2
<1>4. CASE Operator
  <2>1. run' = run
    BY <1>4 DEF Operator, ResumeRetained, SafeRelease, RecordConsumption
  <2>2. ASSUME NEW r \in People, NEW row, Settle(r, row, person[r].owner), r # p
        PROVE  person'[p] = person[p]
    BY <2>2 DEF Settle
  <2>3. ASSUME NEW r \in People, ResumeRetained(r)  PROVE person'[p] = person[p]
    BY <1>1, <2>1, <2>2, <2>3 DEF ResumeRetained, MayResume, AwaitsOutcome
  <2>4. ASSUME NEW r \in People, SafeRelease(r)  PROVE person'[p] = person[p]
    BY <1>1, <2>1, <2>2, <2>4 DEF SafeRelease, Evident
  <2>5. ASSUME NEW r \in People, NEW n, RecordConsumption(r, n)
        PROVE  person'[p] = person[p]
    BY <1>1, <2>1, <2>2, <2>5 DEF RecordConsumption, Evident
  <2>. QED  BY <1>1, <1>4, <2>1, <2>3, <2>4, <2>5 DEF Operator
<1>5. CASE World
  <2>1. run[o].pc = "call" /\ run'[o].current = p
    <3>1. ASSUME NEW q \in Operations, NEW cost, ApolloServes(q, cost)
          PROVE  run'[o].pc = run[o].pc /\ run'[o].current = p
      BY <3>1 DEF ApolloServes, Run
    <3>. QED  BY <1>5, <3>1 DEF World, StraySettles, GrowsStale
  <2>2. person'[p] = person[p]
    BY <1>1, <1>5, <2>1
    DEF World, ApolloServes, StraySettles, GrowsStale, store, AwaitsOutcome
  <2>. QED  BY <1>1, <2>1, <2>2
<1>6. CASE Crash
  BY <1>6, EndedType DEF Crash
<1>7. CASE UNCHANGED vars
  BY <1>1, <1>7 DEF vars
<1>. QED  BY <1>2, <1>3, <1>4, <1>5, <1>6, <1>7, CallBegins DEF Next

\* With an operator who waits for the outcome, two discoveries never look up the same
\* person at the same time, whatever reservation changes hands.
THEOREM LookupsExclude == ASSUME ~HastyOperator PROVE Spec => []OneLookupAtATime
<1>1. Init => CallInv
  BY DEF Init, Ready, CallInv
<1>2. TypeInv /\ CallInv /\ [Next]_vars => CallInv'
  BY CallStep
<1>3. TypeInv /\ [Next]_vars => TypeInv'
  BY TypeStep
<1>4. CallInv => OneLookupAtATime
  BY DEF CallInv, AwaitsOutcome, OneLookupAtATime
<1>. QED  BY TypeInit, <1>1, <1>2, <1>3, <1>4, PTL DEF Spec

-----------------------------------------------------------------------------
(* The refinement.                                                          *)

\* Where each kind of row change leads.
LEMMA PhaseOfChange ==
  ASSUME NEW row \in Reservation
  PROVE  /\ \A o \in Operations : /\ Phase(Claimed(row, o)) = "claimed"
                                  /\ Claimed(row, o).owner = o
                                  /\ Claimed(row, o).attempts = row.attempts
                                  /\ Claimed(row, o).releases = row.releases
         /\ /\ Phase(Attempted(row)) = "looking-up" /\ Attempted(row).owner = row.owner
            /\ Attempted(row).attempts = row.attempts + 1
            /\ Attempted(row).releases = row.releases
         /\ /\ Phase(ReleasedUnattempted(row)) = "free"
            /\ ReleasedUnattempted(row).owner = row.owner
            /\ ReleasedUnattempted(row).attempts = row.attempts
            /\ ReleasedUnattempted(row).releases = row.releases
         /\ /\ Phase(SafelyReleased(row)) = "free" /\ SafelyReleased(row).owner = row.owner
            /\ SafelyReleased(row).attempts = row.attempts
            /\ SafelyReleased(row).releases = row.releases + 1
         /\ /\ Phase(Imported(row)) = "settled" /\ Imported(row).owner = row.owner
            /\ Imported(row).attempts = row.attempts
            /\ Imported(row).releases = row.releases
<1>1. \A o \in Operations : /\ Phase(Claimed(row, o)) = "claimed"
                            /\ Claimed(row, o).owner = o
                            /\ Claimed(row, o).attempts = row.attempts
                            /\ Claimed(row, o).releases = row.releases
  BY DEF Phase, Claimed, Reservation
<1>2. /\ Phase(Attempted(row)) = "looking-up" /\ Attempted(row).owner = row.owner
      /\ Attempted(row).attempts = row.attempts + 1
      /\ Attempted(row).releases = row.releases
  BY DEF Phase, Attempted, Reservation
<1>3. /\ Phase(ReleasedUnattempted(row)) = "free"
      /\ ReleasedUnattempted(row).owner = row.owner
      /\ ReleasedUnattempted(row).attempts = row.attempts
      /\ ReleasedUnattempted(row).releases = row.releases
  BY DEF Phase, ReleasedUnattempted, Reservation
<1>4. /\ Phase(SafelyReleased(row)) = "free" /\ SafelyReleased(row).owner = row.owner
      /\ SafelyReleased(row).attempts = row.attempts
      /\ SafelyReleased(row).releases = row.releases + 1
  BY DEF Phase, SafelyReleased, Reservation
<1>5. /\ Phase(Imported(row)) = "settled" /\ Imported(row).owner = row.owner
      /\ Imported(row).attempts = row.attempts
      /\ Imported(row).releases = row.releases
  BY DEF Phase, Imported, Reservation
<1>. QED  BY <1>1, <1>2, <1>3, <1>4, <1>5

\* Changes that the promise does not see, or sees as a result or a write-off.
LEMMA PhaseOfAnswer ==
  ASSUME NEW row \in Reservation
  PROVE  /\ \A n \in Nat \cup {Unknown}, b \in BOOLEAN :
              /\ Phase(Usable(row, n, b)) = "result" /\ Usable(row, n, b).owner = row.owner
              /\ Usable(row, n, b).attempts = row.attempts
              /\ Usable(row, n, b).releases = row.releases
         /\ \A n \in Nat :
              /\ Phase(Consumed(row, n)) = "settled" /\ Consumed(row, n).owner = row.owner
              /\ Consumed(row, n).attempts = row.attempts
              /\ Consumed(row, n).releases = row.releases
         /\ \A next \in {Uncertain(row), [row EXCEPT !.stale = TRUE]} :
              /\ Phase(next) = Phase(row) /\ next.owner = row.owner
              /\ next.attempts = row.attempts /\ next.releases = row.releases
<1>1. ASSUME NEW n \in Nat \cup {Unknown}, NEW b \in BOOLEAN
      PROVE  /\ Phase(Usable(row, n, b)) = "result" /\ Usable(row, n, b).owner = row.owner
             /\ Usable(row, n, b).attempts = row.attempts
             /\ Usable(row, n, b).releases = row.releases
  BY DEF Phase, Usable, Reservation
<1>2. ASSUME NEW n \in Nat
      PROVE  /\ Phase(Consumed(row, n)) = "settled" /\ Consumed(row, n).owner = row.owner
             /\ Consumed(row, n).attempts = row.attempts
             /\ Consumed(row, n).releases = row.releases
  BY DEF Phase, Consumed, Reservation
<1>3. /\ Phase(Uncertain(row)) = Phase(row) /\ Uncertain(row).owner = row.owner
      /\ Uncertain(row).attempts = row.attempts /\ Uncertain(row).releases = row.releases
  BY DEF Phase, Uncertain, Reservation
<1>4. /\ Phase([row EXCEPT !.stale = TRUE]) = Phase(row)
      /\ [row EXCEPT !.stale = TRUE].owner = row.owner
      /\ [row EXCEPT !.stale = TRUE].attempts = row.attempts
      /\ [row EXCEPT !.stale = TRUE].releases = row.releases
  BY DEF Phase, Reservation
<1>. QED  BY <1>1, <1>2, <1>3, <1>4

phases  == [p \in People |-> Phase(person[p])]
holders == [p \in People |-> person[p].owner]
lookups == [p \in People |-> person[p].attempts]
permits == [p \in People |-> person[p].releases]

LEMMA MappedRow ==
  ASSUME RowsTypeOK, NEW p \in People, NEW row \in Reservation,
         person' = [person EXCEPT ![p] = row]
  PROVE  /\ phases' = [phases EXCEPT ![p] = Phase(row)]
         /\ holders' = [holders EXCEPT ![p] = row.owner]
         /\ lookups' = [lookups EXCEPT ![p] = row.attempts]
         /\ permits' = [permits EXCEPT ![p] = row.releases]
<1>1. \A q \in People : person'[q] = IF q = p THEN row ELSE person[q]
  BY DEF RowsTypeOK
<1>2. \A q \in People :
        /\ Phase(person'[q]) = IF q = p THEN Phase(row) ELSE Phase(person[q])
        /\ person'[q].owner = IF q = p THEN row.owner ELSE person[q].owner
        /\ person'[q].attempts = IF q = p THEN row.attempts ELSE person[q].attempts
        /\ person'[q].releases = IF q = p THEN row.releases ELSE person[q].releases
  BY <1>1
<1>3. phases' = [phases EXCEPT ![p] = Phase(row)]
  BY <1>2 DEF phases
<1>4. holders' = [holders EXCEPT ![p] = row.owner]
  BY <1>2 DEF holders
<1>5. lookups' = [lookups EXCEPT ![p] = row.attempts]
  BY <1>2 DEF lookups
<1>6. permits' = [permits EXCEPT ![p] = row.releases]
  BY <1>2 DEF permits
<1>. QED  BY <1>3, <1>4, <1>5, <1>6

\* A row that looks the same to the promise.
LEMMA SameRow ==
  ASSUME RowsTypeOK, NEW p \in People, NEW row \in Reservation,
         person' = [person EXCEPT ![p] = row],
         Phase(row) = Phase(person[p]), row.owner = person[p].owner,
         row.attempts = person[p].attempts, row.releases = person[p].releases
  PROVE  UNCHANGED Lookups!vars
<1>1. /\ phases' = phases /\ holders' = holders /\ lookups' = lookups
      /\ permits' = permits
  BY MappedRow DEF phases, holders, lookups, permits
<1>. QED  BY <1>1 DEF Lookups!vars, phases, holders, lookups, permits

LEMMA MappedChange ==
  ASSUME RowsTypeOK, LookupInv, NEW p \in People, NEW row \in Reservation,
         RowChange(p, row), person' = [person EXCEPT ![p] = row]
  PROVE  Lookups!Next \/ UNCHANGED Lookups!vars
<1>. DEFINE old == person[p]
<1>. /\ phases' = [phases EXCEPT ![p] = Phase(row)]
     /\ holders' = [holders EXCEPT ![p] = row.owner]
     /\ lookups' = [lookups EXCEPT ![p] = row.attempts]
     /\ permits' = [permits EXCEPT ![p] = row.releases]
  BY MappedRow
<1>0. /\ old \in Reservation
      /\ phases[p] = Phase(old) /\ holders[p] = old.owner
      /\ lookups[p] = old.attempts /\ permits[p] = old.releases
  BY DEF RowsTypeOK, phases, holders, lookups, permits
<1>. HIDE DEF old
<1>k. /\ row.owner = old.owner => UNCHANGED holders
      /\ row.attempts = old.attempts => UNCHANGED lookups
      /\ row.releases = old.releases => UNCHANGED permits
  BY <1>0 DEF holders, lookups, permits
<1>o. old = person[p]
  BY DEF old
<1>1. ASSUME NEW o \in Operations, Claimable(old), row = Claimed(old, o)
      PROVE  Lookups!Claim(p, o)
  <2>1. Phase(old) \in {"free", "claimed"}
    BY <1>1 DEF Claimable, Phase
  <2>2. /\ phases' = [phases EXCEPT ![p] = "claimed"] /\ holders' = [holders EXCEPT ![p] = o]
        /\ UNCHANGED <<lookups, permits>>
    BY <1>0, <1>1, <1>k, PhaseOfChange
  <2>. QED
    BY <1>0, <2>1, <2>2 DEF Lookups!Claim, Lookups!Move, phases, holders, lookups, permits
<1>2. ASSUME old.lifecycle = "reserved-never-attempted", row = Attempted(old)
      PROVE  Lookups!LookUp(p)
  <2>1. Phase(old) = "claimed" /\ old.attempts <= old.releases
    BY <1>o, <1>2 DEF Phase, LookupInv
  <2>2. /\ phases' = [phases EXCEPT ![p] = "looking-up"]
        /\ lookups' = [lookups EXCEPT ![p] = lookups[p] + 1]
        /\ UNCHANGED <<holders, permits>>
    BY <1>0, <1>2, <1>k, PhaseOfChange
  <2>. QED
    BY <1>0, <2>1, <2>2 DEF Lookups!LookUp, Lookups!Move, phases, holders, lookups, permits
<1>3. ASSUME old.lifecycle = "reserved-never-attempted", row = ReleasedUnattempted(old)
      PROVE  Lookups!GiveBack(p)
  <2>1. Phase(old) = "claimed"
    BY <1>3 DEF Phase
  <2>2. /\ phases' = [phases EXCEPT ![p] = "free"]
        /\ UNCHANGED <<holders, lookups, permits>>
    BY <1>0, <1>3, <1>k, PhaseOfChange
  <2>. QED
    BY <1>0, <2>1, <2>2 DEF Lookups!GiveBack, Lookups!Move, phases, holders, lookups, permits
<1>4. ASSUME row = [old EXCEPT !.stale = TRUE] \/ row = Uncertain(old)
      PROVE  UNCHANGED Lookups!vars
  <2>1. /\ Phase(row) = Phase(old) /\ row.owner = old.owner
        /\ row.attempts = old.attempts /\ row.releases = old.releases
    BY <1>0, <1>4, PhaseOfAnswer
  <2>. QED  BY <1>o, <2>1, SameRow
<1>5. ASSUME old.lifecycle = "reconciliation-required",
             NEW n \in Nat \cup {Unknown}, NEW b \in BOOLEAN, row = Usable(old, n, b)
      PROVE  Lookups!Retain(p)
  <2>1. Phase(old) = "looking-up"
    BY <1>5 DEF Phase
  <2>2. /\ Phase(row) = "result" /\ row.owner = old.owner
        /\ row.attempts = old.attempts /\ row.releases = old.releases
    BY <1>0, <1>5, PhaseOfAnswer
  <2>. QED
    BY <1>0, <1>k, <2>1, <2>2 DEF Lookups!Retain, Lookups!Move, phases, holders, lookups, permits
<1>6. ASSUME MayRelease(old), row = SafelyReleased(old)
      PROVE  Lookups!Permit(p)
  <2>1. Phase(old) = "looking-up"
    BY <1>6 DEF MayRelease, Phase
  <2>2. /\ phases' = [phases EXCEPT ![p] = "free"]
        /\ permits' = [permits EXCEPT ![p] = permits[p] + 1]
        /\ UNCHANGED <<holders, lookups>>
    BY <1>0, <1>6, <1>k, PhaseOfChange
  <2>. QED
    BY <1>0, <2>1, <2>2 DEF Lookups!Permit, Lookups!Move, phases, holders, lookups, permits
<1>7. ASSUME NEW n \in Nat, MayRecordConsumption(old, n), row = Consumed(old, n)
      PROVE  Lookups!SettleAll({p})
  <2>1. Phase(old) \in {"looking-up", "result"}
    BY <1>7 DEF MayRecordConsumption, Phase
  <2>2. /\ phases' = [phases EXCEPT ![p] = "settled"]
        /\ UNCHANGED <<holders, lookups, permits>>
    BY <1>0, <1>7, <1>k, PhaseOfAnswer
  <2>3. phases' = [q \in People |-> IF q \in {p} THEN "settled" ELSE phases[q]]
    BY <2>2 DEF phases
  <2>. QED
    BY <1>0, <2>1, <2>2, <2>3 DEF Lookups!SettleAll, phases, holders, lookups, permits
<1>. QED
  BY <1>1, <1>2, <1>3, <1>4, <1>5, <1>6, <1>7, <1>o DEF RowChange, Lookups!Next

LEMMA MappedImport ==
  ASSUME RowsTypeOK, NEW S \in SUBSET People, ImportStep(S)
  PROVE  Lookups!Next \/ UNCHANGED Lookups!vars
<1>. DEFINE T == {p \in S : person[p].lifecycle = "attempted-result-usable"}
<1>1. ASSUME NEW p \in People
      PROVE  /\ Phase(person'[p]) = IF p \in T THEN "settled" ELSE Phase(person[p])
             /\ person'[p].owner = person[p].owner
             /\ person'[p].attempts = person[p].attempts
             /\ person'[p].releases = person[p].releases
  <2>1. person[p] \in Reservation
    BY DEF RowsTypeOK
  <2>2. CASE p \in S
    <3>1. person'[p] = Imported(person[p])
      BY <2>2 DEF ImportStep
    <3>2. p \in T \/ person[p].lifecycle = "completed-imported"
      BY <2>2 DEF ImportStep, MayImport
    <3>3. person[p].lifecycle = "completed-imported" => Phase(person[p]) = "settled"
      BY DEF Phase
    <3>. QED  BY <2>1, <3>1, <3>2, <3>3, PhaseOfChange
  <2>3. CASE p \notin S
    BY <2>3 DEF ImportStep
  <2>. QED  BY <2>2, <2>3
<1>2. \A p \in T : Phase(person[p]) = "result"
  BY DEF Phase
<1>. HIDE DEF T
<1>3. /\ phases' = [p \in People |-> IF p \in T THEN "settled" ELSE phases[p]]
      /\ UNCHANGED <<holders, lookups, permits>>
  BY <1>1 DEF phases, holders, lookups, permits
<1>4. T \in SUBSET People /\ \A p \in T : phases[p] \in {"looking-up", "result"}
  BY <1>2 DEF T, phases
<1>5. Lookups!SettleAll(T)
  BY <1>3, <1>4 DEF Lookups!SettleAll, phases, holders, lookups, permits
<1>. QED  BY <1>4, <1>5 DEF Lookups!Next

\* The reservations implement the promise of PaidLookups.
THEOREM LookupPromiseKept == Spec => KeepsLookupPromise
<1>1. Init => Lookups!Init
  BY DEF Init, NoReservation, Phase, Lookups!Init
<1>2. ASSUME IInv, [Next]_vars
      PROVE  Lookups!Next \/ UNCHANGED Lookups!vars
  <2>1. RowsTypeOK /\ LookupInv /\ RowsMove
    BY <1>2, EveryStepMoves DEF IInv, TypeInv
  <2>2. CASE person' = person
    BY <2>2 DEF Lookups!vars
  <2>. QED  BY <2>1, <2>2, MappedChange, MappedImport DEF RowsMove
<1>3. IInv /\ [Next]_vars => [Lookups!Next]_(Lookups!vars)
  BY <1>2
<1>. QED  BY <1>1, <1>3, Invariance, PTL DEF Spec, KeepsLookupPromise, Lookups!Spec

-----------------------------------------------------------------------------
(* The accounting.  What an operation's row says of its people is inductive *)
(* once its fields are known to be numbers.                                 *)

ParentTypeInv ==
  \A o \in Operations : /\ parent[o].attempts \in Nat
                        /\ parent[o].observed \in Nat \cup {Unknown}
                        /\ parent[o].exposure \in Nat

\* What AccountingIsConservative says of one operation.
Accounted(rows, row, o) ==
  /\ row.attempts >= Cardinality(Counted(rows, o))
  /\ row.observed # Unknown => /\ Known(rows, o) = Counted(rows, o)
                               /\ row.observed >= KnownCredits(rows, o)
  /\ (\E p \in Children(rows, o) : rows[p].violation) => row.state = "failed"

AccountInv == \A o \in Operations : Accounted(person, parent[o], o)

-----------------------------------------------------------------------------
(* The allowance, when a lookup costs one credit at most.                   *)

Running(o) == run[o].pc \notin {"idle", "done"}

\* No lookup is known to cost more than one.
CheapInv ==
  \A p \in People : /\ actual[p] <= 1
                    /\ person[p].observed <= 1
                    /\ person[p].violation = FALSE

PhaseInv ==
  \A o \in Operations :
    /\ Running(o) => parent[o].state = "authorized"
    /\ parent[o].state = "absent" =>
         /\ Children(person, o) = {}
         /\ parent[o].attempts = 0 /\ parent[o].observed <= 0

\* A discovery attempts no more than it was authorized to, and observes no more than it
\* attempted; nor does its row.
SpentOnce(o) ==
  /\ Running(o) => /\ Cardinality(Counted(person, o)) <= run[o].attempts
                   /\ run[o].attempts <= parent[o].exposure
                   /\ run[o].observed <= run[o].attempts
  /\ run[o].pc = "claimed" => run[o].attempts < parent[o].exposure
  /\ run[o].pc = "call" => run[o].observed < run[o].attempts
  /\ run[o].pc = "idle" => run[o].attempts = 0 /\ run[o].observed = 0
  /\ Cardinality(Counted(person, o)) <= parent[o].exposure
  /\ parent[o].attempts <= parent[o].exposure
  /\ parent[o].observed <= parent[o].exposure

BoundInv == \A o \in Operations : SpentOnce(o)

\* What a reservation in each lifecycle says of the charge.
ChargeInv ==
  \A p \in People :
    /\ person[p].lifecycle \in {"absent", "reserved-never-attempted"} => ~person[p].attempted
    /\ person[p].lifecycle = "reconciliation-required" => person[p].attempted
    /\ person[p].lifecycle = "released-no-consumption" /\ person[p].attempted
         => actual[p] = 0

\* A lookup on the wire has not been charged, and nobody else has one of that person.
WireInv ==
  /\ \A o \in Operations : run[o].pc = "call" /\ run[o].call = "pending" =>
       actual[run[o].current] = 0
  /\ \A o \in Operations, p \in People : <<o, p>> \in stray =>
       /\ AwaitsOutcome(person[p], o)
       /\ actual[p] = 0
       /\ run[o].pc \in {"failing", "done"}

Charged(o) == {p \in Counted(person, o) : actual[p] = 1}

SpendInv == \A o \in Operations : spent[o] <= Cardinality(Charged(o))

-----------------------------------------------------------------------------
(* Lemmas about the operators of the accounting.                            *)

LEMMA MaxOfTwo ==
  ASSUME NEW a \in Int, NEW b \in Int
  PROVE  /\ Max({a, b}) \in {a, b}
         /\ Max({a, b}) >= a /\ Max({a, b}) >= b
<1>1. \E x \in {a, b} : \A y \in {a, b} : x >= y
  OBVIOUS
<1>. QED  BY <1>1 DEF Max

LEMMA MaxOfThree ==
  ASSUME NEW a \in Int, NEW b \in Int, NEW c \in Int
  PROVE  /\ Max({a, b, c}) \in {a, b, c}
         /\ Max({a, b, c}) >= a /\ Max({a, b, c}) >= b /\ Max({a, b, c}) >= c
<1>1. \E x \in {a, b, c} : \A y \in {a, b, c} : x >= y
  <2>1. CASE a >= b /\ a >= c
    BY <2>1
  <2>2. CASE b >= a /\ b >= c
    BY <2>2
  <2>3. CASE c >= a /\ c >= b
    BY <2>3
  <2>. QED  BY <2>1, <2>2, <2>3
<1>. QED  BY <1>1 DEF Max

LEMMA MinOfThree ==
  ASSUME NEW a \in Int, NEW b \in Int, NEW c \in Int
  PROVE  /\ Min({a, b, c}) \in {a, b, c}
         /\ Min({a, b, c}) <= a /\ Min({a, b, c}) <= b /\ Min({a, b, c}) <= c
<1>1. \E x \in {a, b, c} : \A y \in {a, b, c} : x <= y
  <2>1. CASE a <= b /\ a <= c
    BY <2>1
  <2>2. CASE b <= a /\ b <= c
    BY <2>2
  <2>3. CASE c <= a /\ c <= b
    BY <2>3
  <2>. QED  BY <2>1, <2>2, <2>3
<1>. QED  BY <1>1 DEF Min

\* The people of an operation are finitely many, and what is known of them is a number.
LEMMA CountTypes ==
  ASSUME NEW rows \in [People -> Reservation], NEW o
  PROVE  /\ Known(rows, o) \subseteq Counted(rows, o)
         /\ IsFiniteSet(Counted(rows, o)) /\ IsFiniteSet(Known(rows, o))
         /\ Cardinality(Counted(rows, o)) \in Nat
         /\ Cardinality(Known(rows, o)) \in Nat
         /\ Cardinality(Known(rows, o)) <= Cardinality(Counted(rows, o))
         /\ [p \in Known(rows, o) |-> rows[p].observed] \in [Known(rows, o) -> Nat]
         /\ KnownCredits(rows, o) \in Nat
<1>1. /\ Known(rows, o) \subseteq Counted(rows, o)
      /\ Counted(rows, o) \subseteq People
  BY DEF Known, Counted, Children
<1>2. IsFiniteSet(People)
  BY DiscoveryAssumption
<1>3. /\ IsFiniteSet(Counted(rows, o)) /\ IsFiniteSet(Known(rows, o))
      /\ Cardinality(Known(rows, o)) <= Cardinality(Counted(rows, o))
  BY <1>1, <1>2, FS_Subset
<1>4. Cardinality(Counted(rows, o)) \in Nat /\ Cardinality(Known(rows, o)) \in Nat
  BY <1>3, FS_CardinalityType
<1>5. [p \in Known(rows, o) |-> rows[p].observed] \in [Known(rows, o) -> Nat]
  <2>1. ASSUME NEW p \in Known(rows, o)  PROVE rows[p].observed \in Nat
    <3>1. rows[p] \in Reservation /\ rows[p].observed # Unknown
      BY <1>1 DEF Known
    <3>. QED  BY <3>1 DEF Reservation
  <2>. QED  BY <2>1
<1>6. KnownCredits(rows, o) \in Nat
  BY <1>3, <1>5, UnitsAreFinite DEF KnownCredits
<1>. QED  BY <1>1, <1>3, <1>4, <1>5, <1>6

\* A row that another operation took over, or that starts over, says less.
Undisturbed(rows, next, o) ==
  \A p \in People : next[p].owner = o =>
    \/ /\ rows[p].owner = o
       /\ next[p].attempted = rows[p].attempted
       /\ next[p].observed = rows[p].observed
       /\ next[p].violation = rows[p].violation
    \/ next[p].attempted = FALSE /\ next[p].violation = FALSE

LEMMA CountShrinks ==
  ASSUME NEW rows \in [People -> Reservation], NEW next \in [People -> Reservation], NEW o,
         Undisturbed(rows, next, o)
  PROVE  /\ Counted(next, o) \subseteq Counted(rows, o)
         /\ Cardinality(Counted(next, o)) <= Cardinality(Counted(rows, o))
         /\ Known(rows, o) = Counted(rows, o) => Known(next, o) = Counted(next, o)
         /\ KnownCredits(next, o) <= KnownCredits(rows, o)
         /\ (\E p \in Children(next, o) : next[p].violation)
              => \E p \in Children(rows, o) : rows[p].violation
<1>1. ASSUME NEW p \in Counted(next, o)
      PROVE  p \in Counted(rows, o) /\ next[p].observed = rows[p].observed
  BY <1>1 DEF Counted, Children, Undisturbed
<1>2. Known(next, o) \subseteq Known(rows, o)
  BY <1>1 DEF Known
<1>3. Known(rows, o) = Counted(rows, o) => Known(next, o) = Counted(next, o)
  BY <1>1 DEF Known
<1>4. Cardinality(Counted(next, o)) <= Cardinality(Counted(rows, o))
  BY <1>1, CountTypes, FS_Subset
<1>5. KnownCredits(next, o) <= KnownCredits(rows, o)
  <2>. DEFINE f == [p \in Known(next, o) |-> next[p].observed]
              g == [p \in Known(rows, o) |-> rows[p].observed]
  <2>1. /\ f \in [Known(next, o) -> Nat] /\ g \in [Known(rows, o) -> Nat]
        /\ IsFiniteSet(Known(rows, o))
    BY CountTypes
  <2>2. \A p \in Known(next, o) : f[p] = g[p]
    BY <1>1, <1>2 DEF Known
  <2>3. \A p \in Known(next, o) : f[p] <= g[p]
    <3>1. \A p \in Known(next, o) : f[p] \in Nat
      BY <2>1
    <3>. HIDE DEF f, g
    <3>. QED  BY <2>2, <3>1
  <2>. HIDE DEF f, g
  <2>4. Total(f) <= Total(g)
    BY <1>2, <2>1, <2>3, TotalGrows
  <2>. QED  BY <2>4 DEF f, g, KnownCredits
<1>6. ASSUME NEW p \in Children(next, o), next[p].violation
      PROVE  p \in Children(rows, o) /\ rows[p].violation
  BY <1>6 DEF Children, Undisturbed
<1>. QED  BY <1>1, <1>3, <1>4, <1>5, <1>6

\* An operation without people has nothing to account for.
LEMMA NobodyCounts ==
  ASSUME NEW rows, NEW o, Children(rows, o) = {}
  PROVE  /\ Counted(rows, o) = {} /\ Known(rows, o) = {}
         /\ Cardinality(Counted(rows, o)) = 0 /\ KnownCredits(rows, o) = 0
<1>1. Counted(rows, o) = {} /\ Known(rows, o) = {}
  BY DEF Counted, Known
<1>2. Cardinality(Counted(rows, o)) = 0
  BY <1>1, FS_EmptySet
<1>3. Units([p \in Known(rows, o) |-> rows[p].observed]) = {}
  BY <1>1 DEF Units
<1>4. KnownCredits(rows, o) = 0
  BY <1>3, FS_EmptySet DEF KnownCredits, Total
<1>. QED  BY <1>1, <1>2, <1>4

ParentTyped(row) ==
  /\ ParentShape(row) /\ row.attempts \in Nat /\ row.observed \in Nat \cup {Unknown}
  /\ row.exposure \in Nat

\* The accounting of an operation, computed anew.
LEMMA RecomputedValues ==
  ASSUME NEW rows \in [People -> Reservation], NEW o, NEW row, ParentTyped(row),
         NEW next, next = Recomputed(rows, row, o)
  PROVE  /\ ParentTyped(next) /\ Accounted(rows, next, o)
         /\ next.exposure = row.exposure
         /\ Children(rows, o) = {} => next = row
         /\ Children(rows, o) # {} =>
              /\ next.attempts = Cardinality(Counted(rows, o))
              /\ next.observed \in {KnownCredits(rows, o), Unknown}
         /\ (\A p \in Children(rows, o) : ~rows[p].violation) => next.state = row.state
         /\ next.state \in {row.state, "failed"}
<1>. DEFINE attempts == Cardinality(Counted(rows, o))
            credits == KnownCredits(rows, o)
            observed == IF Known(rows, o) = Counted(rows, o) THEN credits ELSE Unknown
            violated == \E p \in Children(rows, o) : rows[p].violation
            state == IF violated THEN "failed" ELSE row.state
<1>1. attempts \in Nat /\ credits \in Nat
  BY CountTypes
<1>2. CASE Children(rows, o) = {}
  <2>1. next = row
    BY <1>2 DEF Recomputed
  <2>2. Accounted(rows, row, o)
    BY <1>2, NobodyCounts DEF Accounted, ParentTyped, Unknown
  <2>. QED  BY <1>2, <2>1, <2>2
<1>3. CASE Children(rows, o) # {}
  <2>1. next = [row EXCEPT !.attempts = attempts, !.observed = observed, !.state = state]
    BY <1>3 DEF Recomputed
  <2>2. /\ observed \in {credits, Unknown}
        /\ observed # Unknown => Known(rows, o) = Counted(rows, o)
    OBVIOUS
  <2>3. state \in {row.state, "failed"} /\ (violated => state = "failed")
        /\ (~violated => state = row.state)
    OBVIOUS
  <2>4. next = [state |-> state, exposure |-> row.exposure,
                attempts |-> attempts, observed |-> observed]
    <3>. HIDE DEF attempts, observed, state, credits
    <3>. QED  BY <2>1 DEF ParentTyped, ParentShape
  <2>5. ~violated <=> \A p \in Children(rows, o) : ~rows[p].violation
    OBVIOUS
  <2>6. attempts = Cardinality(Counted(rows, o)) /\ credits = KnownCredits(rows, o)
        /\ (violated <=> \E p \in Children(rows, o) : rows[p].violation)
    OBVIOUS
  <2>. HIDE DEF attempts, credits, observed, violated, state
  <2>7. /\ next.state = state /\ next.exposure = row.exposure
        /\ next.attempts = attempts /\ next.observed = observed
    BY <2>4
  <2>8. ParentTyped(next)
    BY <1>1, <2>2, <2>4 DEF ParentTyped, ParentShape
  <2>9. Accounted(rows, next, o)
    BY <1>1, <2>2, <2>3, <2>6, <2>7 DEF Accounted
  <2>. QED  BY <1>3, <2>2, <2>3, <2>5, <2>6, <2>7, <2>8, <2>9
<1>. QED  BY <1>2, <1>3

LEMMA AccountShrinks ==
  ASSUME NEW rows \in [People -> Reservation], NEW next \in [People -> Reservation], NEW o,
         NEW row, ParentTyped(row), Undisturbed(rows, next, o), Accounted(rows, row, o)
  PROVE  Accounted(next, row, o)
<1>1. /\ Cardinality(Counted(rows, o)) \in Nat /\ KnownCredits(rows, o) \in Nat
      /\ Cardinality(Counted(next, o)) \in Nat /\ KnownCredits(next, o) \in Nat
  BY CountTypes
<1>2. row.attempts >= Cardinality(Counted(next, o))
  BY <1>1, CountShrinks DEF Accounted, ParentTyped
<1>3. row.observed # Unknown => /\ Known(next, o) = Counted(next, o)
                                /\ row.observed >= KnownCredits(next, o)
  BY <1>1, CountShrinks DEF Accounted, ParentTyped
<1>4. (\E p \in Children(next, o) : next[p].violation) => row.state = "failed"
  BY CountShrinks DEF Accounted
<1>. QED  BY <1>2, <1>3, <1>4 DEF Accounted

-----------------------------------------------------------------------------
(* What a step does to the accounting of one operation.                     *)

Settled(o) ==
  /\ parent'[o] = Recomputed(person', parent[o], o)
  /\ Dispatch(o) \/ Counted(person', o) \subseteq Counted(person, o)

OneAccount(o) ==
  \/ parent'[o] = parent[o] /\ Undisturbed(person, person', o)
  \/ Settled(o)
  \/ \E n \in 1..MaximumPerBatch : Authorize(o, n)
  \/ Complete(o)
  \/ Fail(o)

\* The changes that leave the owner and the attempt alone.
LEMMA KeepsAttempt ==
  ASSUME NEW row \in Reservation
  PROVE  /\ /\ ReleasedUnattempted(row).owner = row.owner
            /\ ReleasedUnattempted(row).attempted = row.attempted
         /\ Uncertain(row).owner = row.owner /\ Uncertain(row).attempted = row.attempted
         /\ /\ SafelyReleased(row).owner = row.owner
            /\ SafelyReleased(row).attempted = row.attempted
         /\ Imported(row).owner = row.owner /\ Imported(row).attempted = row.attempted
         /\ \A n, b : /\ Usable(row, n, b).owner = row.owner
                      /\ Usable(row, n, b).attempted = row.attempted
         /\ \A n : /\ Consumed(row, n).owner = row.owner
                   /\ Consumed(row, n).attempted = row.attempted
BY DEF ReleasedUnattempted, Uncertain, SafelyReleased, Imported, Usable, Consumed,
       Reservation

LEMMA ImportKeepsAccount ==
  ASSUME NEW row \in Reservation
  PROVE  /\ Imported(row).owner = row.owner /\ Imported(row).attempted = row.attempted
         /\ Imported(row).observed = row.observed
         /\ Imported(row).violation = row.violation
BY DEF Imported, Reservation

LEMMA SettleAccounts ==
  ASSUME TypeInv, ParentInv, NEW p \in People, NEW row \in Reservation, NEW o,
         Settle(p, row, o), person[p].owner = o, row.owner = o,
         o \in Operations => Dispatch(o) \/ row.attempted = person[p].attempted,
         NEW q \in Operations
  PROVE  OneAccount(q)
<1>. person \in [People -> Reservation]
  BY DEF TypeInv, RowsTypeOK
<1>1. /\ \A r \in People : r # p => person'[r] = person[r]
      /\ person'[p] = row
  BY DEF Settle
<1>2. CASE q = o
  <2>1. parent'[q] = Recomputed(person', parent[q], q)
    BY <1>2 DEF Settle, ParentInv
  <2>2. Dispatch(q) \/ Counted(person', q) \subseteq Counted(person, q)
    BY <1>1, <1>2 DEF Counted, Children
  <2>. QED  BY <2>1, <2>2 DEF OneAccount, Settled
<1>3. CASE q # o
  <2>1. parent'[q] = parent[q]
    BY <1>3 DEF Settle, ParentInv
  <2>2. Undisturbed(person, person', q)
    BY <1>1, <1>3 DEF Undisturbed
  <2>. QED  BY <2>1, <2>2 DEF OneAccount
<1>. QED  BY <1>2, <1>3

LEMMA NobodyDisturbed ==
  ASSUME UNCHANGED <<person, parent>>, NEW q \in Operations
  PROVE  OneAccount(q)
BY DEF OneAccount, Undisturbed

LEMMA AnnotateAccounts ==
  ASSUME TypeInv, ParentInv, NEW p \in People, NEW row \in Reservation,
         NEW o \in Operations, Annotate(p, row, o),
         row.owner = person[p].owner, row.attempted = person[p].attempted,
         NEW q \in Operations
  PROVE  OneAccount(q)
BY SettleAccounts, NobodyDisturbed DEF Annotate, AwaitsOutcome

LEMMA DiscoveryAccounts ==
  ASSUME TypeInv, ParentInv, NEW o \in Operations, Begin(o) \/ Advance(o),
         NEW q \in Operations
  PROVE  OneAccount(q)
<1>. person \in [People -> Reservation] /\ run \in [Operations -> Run]
  BY DEF TypeInv, RowsTypeOK
<1>1. ASSUME NEW n \in 1..MaximumPerBatch, Authorize(o, n)  PROVE OneAccount(q)
  <2>1. CASE q = o
    BY <1>1, <2>1 DEF OneAccount
  <2>2. CASE q # o
    <3>1. parent'[q] = parent[q] /\ person' = person
      BY <1>1, <2>2 DEF Authorize, ParentInv
    <3>. QED  BY <3>1 DEF OneAccount, Undisturbed
  <2>. QED  BY <2>1, <2>2
<1>2. ASSUME NEW p \in People, ClaimPerson(o, p)  PROVE OneAccount(q)
  <2>1. CASE Claimable(person[p])
    <3>1. person' = [person EXCEPT ![p] = Claimed(person[p], o)] /\ parent' = parent
      BY <1>2, <2>1 DEF ClaimPerson
    <3>2. /\ \A r \in People : r # p => person'[r] = person[r]
          /\ person'[p] = Claimed(person[p], o)
      BY <3>1
    <3>3. Claimed(person[p], o).attempted = FALSE /\ Claimed(person[p], o).violation = FALSE
      BY DEF Claimed, Reservation
    <3>4. Undisturbed(person, person', q)
      BY <3>2, <3>3 DEF Undisturbed
    <3>. QED  BY <3>1, <3>4 DEF OneAccount
  <2>2. CASE ~Claimable(person[p])
    BY <1>2, <2>2, NobodyDisturbed DEF ClaimPerson
  <2>. QED  BY <2>1, <2>2
<1>3. ASSUME NEW n, Search(o, n) \/ SearchFails(o, n)  PROVE OneAccount(q)
  BY <1>3, NobodyDisturbed DEF Search, SearchFails, store
<1>4. CASE Exhaust(o) \/ CompleteFails(o) \/ ClaimFails(o)
  BY <1>4, NobodyDisturbed DEF Exhaust, CompleteFails, ClaimFails, store
<1>5. CASE Dispatch(o)
  <2>. DEFINE p == run[o].current
  <2>1. /\ p \in People /\ person[p].owner = o
        /\ Settle(p, Attempted(person[p]), o)
    BY <1>5 DEF Dispatch, TypeInv, HeldUnattempted
  <2>2. Attempted(person[p]) \in Reservation /\ Attempted(person[p]).owner = o
    BY <2>1, OwnerTypes, PhaseOfChange
  <2>. HIDE DEF p
  <2>. QED  BY <1>5, <2>1, <2>2, SettleAccounts
<1>6. ASSUME NEW n, LocalFailure(o, n)  PROVE OneAccount(q)
  <2>. DEFINE p == run[o].current
  <2>1. p \in People
    BY <1>6 DEF LocalFailure, TypeInv
  <2>2. CASE HeldUnattempted(person[p], o)
    <3>1. Settle(p, ReleasedUnattempted(person[p]), o) /\ person[p].owner = o
      BY <1>6, <2>2 DEF LocalFailure, HeldUnattempted
    <3>2. ReleasedUnattempted(person[p]) \in Reservation
      BY <2>1, OwnerTypes
    <3>. HIDE DEF p
    <3>. QED  BY <2>1, <3>1, <3>2, KeepsAttempt, SettleAccounts
  <2>3. CASE ~HeldUnattempted(person[p], o)
    BY <1>6, <2>3, NobodyDisturbed DEF LocalFailure
  <2>. QED  BY <2>2, <2>3
<1>7. ASSUME NEW p \in People, NEW row,
             \/ row = Uncertain(person[p])
             \/ \E n \in Nat \cup {Unknown}, b \in BOOLEAN : row = Usable(person[p], n, b)
      PROVE  /\ row \in Reservation
             /\ row.owner = person[p].owner /\ row.attempted = person[p].attempted
  <2>1. person[p] \in Reservation
    OBVIOUS
  <2>2. CASE row = Uncertain(person[p])
    BY <2>1, <2>2, OwnerTypes, KeepsAttempt
  <2>3. ASSUME NEW n \in Nat \cup {Unknown}, NEW b \in BOOLEAN, row = Usable(person[p], n, b)
        PROVE  /\ row \in Reservation
               /\ row.owner = person[p].owner /\ row.attempted = person[p].attempted
    <3>1. row \in Reservation
      BY <2>1, <2>3, ChargedTypes
    <3>. QED  BY <2>1, <2>3, <3>1, KeepsAttempt
  <2>. QED  BY <1>7, <2>2, <2>3
<1>8. ASSUME NEW n \in {0, 1, Unknown}, AnswerUsable(o, n)  PROVE OneAccount(q)
  <2>. DEFINE p == run[o].current
  <2>1. p \in People
    BY <1>8 DEF AnswerUsable, TypeInv
  <2>2. \/ Annotate(p, Usable(person[p], n, FALSE), o)
        \/ Annotate(p, Uncertain(person[p]), o)
    BY <1>8 DEF AnswerUsable, Annotate
  <2>3. n \in Nat \cup {Unknown} /\ FALSE \in BOOLEAN
    OBVIOUS
  <2>. HIDE DEF p
  <2>. QED  BY <1>7, <2>1, <2>2, <2>3, AnnotateAccounts
<1>9. CASE AnswerExceeds(o)
  <2>. DEFINE p == run[o].current
  <2>1. p \in People /\ actual[p] \in Nat \cup {Unknown} /\ TRUE \in BOOLEAN
    BY <1>9 DEF AnswerExceeds, TypeInv
  <2>2. Annotate(p, Usable(person[p], actual[p], TRUE), o)
    BY <1>9 DEF AnswerExceeds
  <2>. HIDE DEF p
  <2>. QED  BY <1>7, <2>1, <2>2, AnnotateAccounts
<1>10. CASE AnswerUncertain(o)
  <2>. DEFINE p == run[o].current
  <2>1. p \in People /\ Annotate(p, Uncertain(person[p]), o)
    BY <1>10 DEF AnswerUncertain, TypeInv
  <2>. HIDE DEF p
  <2>. QED  BY <1>7, <2>1, AnnotateAccounts
<1>11. CASE Complete(o)
  <2>1. CASE q = o
    BY <1>11, <2>1 DEF OneAccount
  <2>2. CASE q # o
    <3>1. parent'[q] = parent[q] /\ person' = ImportedRows(o)
      BY <1>11, <2>2 DEF Complete, ParentInv
    <3>2. \A p \in People : /\ person'[p].owner = person[p].owner
                            /\ person'[p].attempted = person[p].attempted
                            /\ person'[p].observed = person[p].observed
                            /\ person'[p].violation = person[p].violation
      <4>1. \A p \in People : person'[p] \in {person[p], Imported(person[p])}
        BY <3>1 DEF ImportedRows
      <4>. QED  BY <4>1, ImportKeepsAccount
    <3>3. Undisturbed(person, person', q)
      BY <3>2 DEF Undisturbed
    <3>. QED  BY <3>1, <3>3 DEF OneAccount
  <2>. QED  BY <2>1, <2>2
<1>12. CASE Fail(o)
  <2>1. CASE q = o
    BY <1>12, <2>1 DEF OneAccount
  <2>2. CASE q # o
    <3>1. parent'[q] = parent[q] /\ person' = person
      BY <1>12, <2>2 DEF Fail, ParentInv
    <3>. QED  BY <3>1 DEF OneAccount, Undisturbed
  <2>. QED  BY <2>1, <2>2
<1>. QED
  BY <1>1, <1>2, <1>3, <1>4, <1>5, <1>6, <1>8, <1>9, <1>10, <1>11, <1>12
  DEF Begin, Advance

LEMMA EachAccount ==
  ASSUME TypeInv, ParentInv, [Next]_vars, NEW q \in Operations
  PROVE  OneAccount(q)
<1>. person \in [People -> Reservation]
  BY DEF TypeInv, RowsTypeOK
<1>1. CASE Operator
  <2>1. ASSUME NEW p \in People, ResumeRetained(p)  PROVE OneAccount(q)
    <3>1. Settle(p, Imported(person[p]), person[p].owner)
      BY <2>1 DEF ResumeRetained
    <3>. QED  BY <3>1, OwnerTypes, KeepsAttempt, SettleAccounts
  <2>2. ASSUME NEW p \in People, SafeRelease(p)  PROVE OneAccount(q)
    <3>1. Settle(p, SafelyReleased(person[p]), person[p].owner)
      BY <2>2 DEF SafeRelease
    <3>. QED  BY <3>1, OwnerTypes, KeepsAttempt, SettleAccounts
  <2>3. ASSUME NEW p \in People, NEW n \in 1..MaxCost, RecordConsumption(p, n)
        PROVE  OneAccount(q)
    <3>1. Settle(p, Consumed(person[p], n), person[p].owner)
      BY <2>3 DEF RecordConsumption
    <3>2. n \in Nat /\ TRUE \in BOOLEAN
      OBVIOUS
    <3>3. Consumed(person[p], n) \in Reservation
      BY <3>2, ChargedTypes
    <3>. QED  BY <3>1, <3>3, KeepsAttempt, SettleAccounts
  <2>. QED  BY <1>1, <2>1, <2>2, <2>3 DEF Operator
<1>2. CASE World
  <2>1. ASSUME NEW p \in People, GrowsStale(p)  PROVE OneAccount(q)
    <3>1. /\ parent' = parent
          /\ \A r \in People : /\ person'[r].owner = person[r].owner
                               /\ person'[r].attempted = person[r].attempted
                               /\ person'[r].observed = person[r].observed
                               /\ person'[r].violation = person[r].violation
      BY <2>1 DEF GrowsStale, Reservation
    <3>. QED  BY <3>1 DEF OneAccount, Undisturbed
  <2>. QED
    BY <1>2, <2>1, NobodyDisturbed DEF World, ApolloServes, StraySettles, store
<1>3. CASE Crash \/ UNCHANGED vars
  BY <1>3, NobodyDisturbed DEF Crash, store, vars
<1>. QED  BY <1>1, <1>2, <1>3, DiscoveryAccounts DEF Next

-----------------------------------------------------------------------------
(* The accounting is conservative.                                          *)

\* The ways in which an operation changes its own row.
WithState(row, state) == [row EXCEPT !.state = state]
WithGrant(row, exposure) == [row EXCEPT !.state = "authorized", !.exposure = exposure]
WithCounts(row, attempts, observed) ==
  [row EXCEPT !.attempts = attempts, !.observed = observed]
WithAll(row, state, attempts, observed) ==
  [row EXCEPT !.state = state, !.attempts = attempts, !.observed = observed]

LEMMA StateChanged ==
  ASSUME NEW row, ParentTyped(row), NEW state
  PROVE  /\ ParentTyped(WithState(row, state))
         /\ WithState(row, state).state = state
         /\ WithState(row, state).exposure = row.exposure
         /\ WithState(row, state).attempts = row.attempts
         /\ WithState(row, state).observed = row.observed
<1>. DEFINE next == WithState(row, state)
<1>1. next = [row EXCEPT !.state = state]
  BY DEF WithState
<1>. HIDE DEF next
<1>2. /\ ParentTyped(next) /\ next.state = state /\ next.exposure = row.exposure
      /\ next.attempts = row.attempts /\ next.observed = row.observed
  BY <1>1 DEF ParentTyped, ParentShape
<1>. QED  BY <1>2 DEF next

LEMMA GrantChanged ==
  ASSUME NEW row, ParentTyped(row), NEW exposure \in Nat
  PROVE  /\ ParentTyped(WithGrant(row, exposure))
         /\ WithGrant(row, exposure).state = "authorized"
         /\ WithGrant(row, exposure).exposure = exposure
         /\ WithGrant(row, exposure).attempts = row.attempts
         /\ WithGrant(row, exposure).observed = row.observed
<1>. DEFINE next == WithGrant(row, exposure)
<1>1. next = [row EXCEPT !.state = "authorized", !.exposure = exposure]
  BY DEF WithGrant
<1>. HIDE DEF next
<1>2. /\ ParentTyped(next) /\ next.state = "authorized" /\ next.exposure = exposure
      /\ next.attempts = row.attempts /\ next.observed = row.observed
  BY <1>1 DEF ParentTyped, ParentShape
<1>. QED  BY <1>2 DEF next

LEMMA CountsChanged ==
  ASSUME NEW row, ParentTyped(row), NEW attempts \in Nat, NEW observed \in Nat \cup {Unknown}
  PROVE  /\ ParentTyped(WithCounts(row, attempts, observed))
         /\ WithCounts(row, attempts, observed).state = row.state
         /\ WithCounts(row, attempts, observed).exposure = row.exposure
         /\ WithCounts(row, attempts, observed).attempts = attempts
         /\ WithCounts(row, attempts, observed).observed = observed
<1>. DEFINE next == WithCounts(row, attempts, observed)
<1>1. next = [row EXCEPT !.attempts = attempts, !.observed = observed]
  BY DEF WithCounts
<1>. HIDE DEF next
<1>2. /\ ParentTyped(next) /\ next.state = row.state /\ next.exposure = row.exposure
      /\ next.attempts = attempts /\ next.observed = observed
  BY <1>1 DEF ParentTyped, ParentShape
<1>. QED  BY <1>2 DEF next

LEMMA AllChanged ==
  ASSUME NEW row, ParentTyped(row), NEW state,
         NEW attempts \in Nat, NEW observed \in Nat \cup {Unknown}
  PROVE  /\ ParentTyped(WithAll(row, state, attempts, observed))
         /\ WithAll(row, state, attempts, observed).state = state
         /\ WithAll(row, state, attempts, observed).exposure = row.exposure
         /\ WithAll(row, state, attempts, observed).attempts = attempts
         /\ WithAll(row, state, attempts, observed).observed = observed
<1>. DEFINE next == WithAll(row, state, attempts, observed)
<1>1. next = [row EXCEPT !.state = state, !.attempts = attempts,
                        !.observed = observed]
  BY DEF WithAll
<1>. HIDE DEF next
<1>2. /\ ParentTyped(next) /\ next.state = state /\ next.exposure = row.exposure
      /\ next.attempts = attempts /\ next.observed = observed
  BY <1>1 DEF ParentTyped, ParentShape
<1>. QED  BY <1>2 DEF next

\* A row's numbers are numbers.
LEMMA TypedFields ==
  ASSUME NEW row, ParentTyped(row)
  PROVE  /\ row.attempts \in Nat /\ row.attempts \in Int
         /\ row.observed \in Nat \cup {Unknown} /\ row.observed \in Int
         /\ row.exposure \in Nat
BY DEF ParentTyped, Unknown

LEMMA HeldType ==
  ASSUME TypeInv, ParentTypeInv
  PROVE  /\ [o \in Operations |-> Held(o)] \in [Operations -> Nat]
         /\ Total([o \in Operations |-> Held(o)]) \in Nat
         /\ HeldToday \in Nat /\ Remaining \in Int
<1>1. ASSUME NEW o \in Operations  PROVE Held(o) \in Nat
  <2>1. /\ parent[o].attempts \in Nat /\ parent[o].exposure \in Nat
        /\ parent[o].observed \in Int /\ KnownCredits(person, o) \in Nat
    BY CountTypes DEF ParentTypeInv, TypeInv, RowsTypeOK, Unknown
  <2>. DEFINE most == Max({parent[o].attempts, parent[o].observed, KnownCredits(person, o)})
  <2>2. /\ most \in {parent[o].attempts, parent[o].observed, KnownCredits(person, o)}
        /\ most >= parent[o].attempts
    <3>1. parent[o].attempts \in Int /\ KnownCredits(person, o) \in Int
      BY <2>1
    <3>. HIDE DEF most
    <3>. QED  BY ONLY <2>1, <3>1, MaxOfThree DEF most
  <2>3. Held(o) \in {0, parent[o].exposure, most}
    BY DEF Held
  <2>. HIDE DEF most
  <2>. QED  BY <2>1, <2>2, <2>3
<1>2. [o \in Operations |-> Held(o)] \in [Operations -> Nat]
  BY <1>1
<1>. DEFINE held == [o \in Operations |-> Held(o)]
<1>. HIDE DEF held
<1>3. IsFiniteSet(Operations) /\ ExternalSpend \in Nat /\ MaximumPerDay \in Nat
  BY DiscoveryAssumption
<1>4. Total(held) \in Nat
  BY <1>2, <1>3, UnitsAreFinite DEF held
<1>5. HeldToday = ExternalSpend + Total(held)
  BY DEF HeldToday, held
<1>. QED  BY <1>2, <1>3, <1>4, <1>5 DEF Remaining, held

\* What an authorization grants.
LEMMA Granted ==
  ASSUME TypeInv, ParentInv, ParentTypeInv, NEW o \in Operations,
         NEW n \in 1..MaximumPerBatch, Authorize(o, n)
  PROVE  \E maximum \in Nat \ {0} :
           /\ maximum <= Remaining
           /\ parent[o].state = "absent"
           /\ parent' = [parent EXCEPT ![o] =
                [parent[o] EXCEPT !.state = "authorized", !.exposure = maximum]]
           /\ person' = person
<1>. DEFINE maximum == Min({n, MaximumPerBatch, Remaining})
<1>1. n \in Int /\ MaximumPerBatch \in Int /\ Remaining \in Int
  BY HeldType, DiscoveryAssumption
<1>2. maximum <= Remaining /\ maximum \in Int
  BY <1>1, MinOfThree
<1>3. maximum >= 1 /\ parent[o].state = "absent" /\ person' = person
  BY DEF Authorize
<1>4. parent' = [parent EXCEPT ![o].state = "authorized", ![o].exposure = maximum]
  BY DEF Authorize
<1>. HIDE DEF maximum
<1>5. parent' = [parent EXCEPT ![o] =
                [parent[o] EXCEPT !.state = "authorized", !.exposure = maximum]]
  BY <1>4 DEF ParentInv
<1>6. maximum \in Nat \ {0}
  BY <1>2, <1>3
<1>. QED  BY <1>2, <1>3, <1>5, <1>6

MoneyInv == TypeInv /\ ParentInv /\ ParentTypeInv /\ AccountInv

LEMMA ParentsTyped ==
  ASSUME ParentInv, ParentTypeInv, NEW o \in Operations
  PROVE  ParentTyped(parent[o])
BY DEF ParentInv, ParentTypeInv, ParentTyped

AccountKept(o) == ParentTyped(parent'[o]) /\ Accounted(person', parent'[o], o)

LEMMA CompleteAccounts ==
  ASSUME MoneyInv, RowsTypeOK', NEW o \in Operations, Complete(o)
  PROVE  AccountKept(o)
<1>. DEFINE row == Recomputed(person', parent[o], o)
<1>. person' \in [People -> Reservation]
  BY DEF RowsTypeOK
<1>1. ParentTyped(parent[o])
  BY ParentsTyped DEF MoneyInv
<1>2. ParentTyped(row) /\ Accounted(person', row, o)
  BY <1>1, RecomputedValues
<1>3. /\ row.state = "authorized"
      /\ parent' = [parent EXCEPT ![o] =
           IF Children(person', o) # {} THEN [row EXCEPT !.state = "completed"]
           ELSE [row EXCEPT !.state = "completed",
                            !.attempts = Max({row.attempts, run[o].attempts}),
                            !.observed = run[o].observed]]
  BY DEF Complete, ImportedRows
<1>. HIDE DEF row
<1>4. /\ run[o].attempts \in Nat /\ run[o].observed \in Nat \cup {Unknown}
      /\ run[o].attempts \in Int
  BY DEF MoneyInv, TypeInv, Run
<1>5. ~ \E p \in Children(person', o) : person'[p].violation
  BY <1>2, <1>3 DEF Accounted
<1>6. CASE Children(person', o) # {}
  <2>. DEFINE next == [row EXCEPT !.state = "completed"]
  <2>1. parent'[o] = next
    BY <1>3, <1>6 DEF MoneyInv, ParentInv
  <2>2. /\ ParentTyped(next) /\ next.attempts = row.attempts
        /\ next.observed = row.observed
    <3>1. next = WithState(row, "completed")
      BY DEF WithState
    <3>. HIDE DEF next
    <3>. QED  BY <1>2, <3>1, StateChanged
  <2>. HIDE DEF next
  <2>. QED  BY <1>2, <1>5, <2>1, <2>2 DEF Accounted, AccountKept
<1>7. CASE Children(person', o) = {}
  <2>. DEFINE attempts == Max({row.attempts, run[o].attempts})
              next == [row EXCEPT !.state = "completed", !.attempts = attempts,
                                  !.observed = run[o].observed]
  <2>1. parent'[o] = next
    BY <1>3, <1>7 DEF MoneyInv, ParentInv
  <2>2. attempts \in Nat
    <3>1. row.attempts \in Nat /\ row.attempts \in Int
      BY <1>2, TypedFields
    <3>. QED  BY <1>4, <3>1, MaxOfTwo
  <2>. HIDE DEF attempts
  <2>3. ParentTyped(next)
    <3>1. next = WithAll(row, "completed", attempts, run[o].observed)
      BY DEF WithAll
    <3>. HIDE DEF next
    <3>. QED  BY <1>2, <1>4, <2>2, <3>1, AllChanged
  <2>. HIDE DEF next
  <2>4. Accounted(person', next, o)
    BY <1>7, <2>3, NobodyCounts DEF Accounted, ParentTyped, Unknown
  <2>. QED  BY <2>1, <2>3, <2>4 DEF AccountKept
<1>. QED  BY <1>6, <1>7

LEMMA FailAccounts ==
  ASSUME MoneyInv, NEW o \in Operations, Fail(o)
  PROVE  AccountKept(o)
<1>. DEFINE failed == [parent[o] EXCEPT !.state = "failed"]
            row == Recomputed(person, failed, o)
<1>. person \in [People -> Reservation]
  BY DEF MoneyInv, TypeInv, RowsTypeOK
<1>1. ParentTyped(parent[o]) /\ Accounted(person, parent[o], o) /\ person' = person
  BY ParentsTyped DEF MoneyInv, AccountInv, Fail
<1>2. ParentTyped(failed)
  <2>1. failed = WithState(parent[o], "failed")
    BY DEF WithState
  <2>. HIDE DEF failed
  <2>. QED  BY <1>1, <2>1, StateChanged
<1>3. /\ parent' =
           IF Children(person, o) # {}
           THEN IF Conflict(o, row) THEN parent ELSE [parent EXCEPT ![o] = row]
           ELSE [parent EXCEPT ![o] =
                   [row EXCEPT !.attempts = Max({row.attempts, run[o].attempts}),
                               !.observed = Max({row.observed, run[o].observed})]]
  BY DEF Fail
<1>. HIDE DEF failed
<1>4. ParentTyped(row) /\ Accounted(person, row, o)
  BY <1>2, RecomputedValues
<1>. HIDE DEF row
<1>5. /\ run[o].attempts \in Nat /\ run[o].observed \in Nat \cup {Unknown}
      /\ run[o].attempts \in Int /\ run[o].observed \in Int
  BY DEF MoneyInv, TypeInv, Run, Unknown
<1>r. /\ row.attempts \in Nat /\ row.observed \in Nat \cup {Unknown}
      /\ row.attempts \in Int /\ row.observed \in Int /\ row.exposure \in Nat
  BY <1>4, TypedFields
<1>6. CASE parent' = parent \/ parent' = [parent EXCEPT ![o] = row]
  BY <1>1, <1>4, <1>6 DEF AccountKept, MoneyInv, ParentInv
<1>7. CASE Children(person, o) = {}
  <2>. DEFINE attempts == Max({row.attempts, run[o].attempts})
              observed == Max({row.observed, run[o].observed})
              next == [row EXCEPT !.attempts = attempts, !.observed = observed]
  <2>1. parent'[o] = next
    BY <1>3, <1>7 DEF MoneyInv, ParentInv
  <2>2. attempts \in Nat
    BY <1>5, <1>r, MaxOfTwo
  <2>3. observed \in Nat \cup {Unknown}
    BY <1>5, <1>r, MaxOfTwo
  <2>. HIDE DEF attempts, observed
  <2>4. ParentTyped(next)
    <3>1. next = WithCounts(row, attempts, observed)
      BY DEF WithCounts
    <3>. HIDE DEF next
    <3>. QED  BY <1>4, <2>2, <2>3, <3>1, CountsChanged
  <2>. HIDE DEF next
  <2>5. Accounted(person, next, o)
    BY <1>7, <2>4, NobodyCounts DEF Accounted, ParentTyped, Unknown
  <2>. QED  BY <1>1, <2>1, <2>4, <2>5 DEF AccountKept
<1>. QED  BY <1>3, <1>6, <1>7

LEMMA AccountStep ==
  ASSUME MoneyInv, [Next]_vars, NEW o \in Operations
  PROVE  AccountKept(o)
<1>1. /\ person \in [People -> Reservation] /\ person' \in [People -> Reservation]
      /\ RowsTypeOK'
  BY EveryStepMoves, RowTypesMove DEF MoneyInv, TypeInv, RowsTypeOK
<1>2. ParentTyped(parent[o]) /\ Accounted(person, parent[o], o)
  BY ParentsTyped DEF MoneyInv, AccountInv
<1>3. CASE parent'[o] = parent[o] /\ Undisturbed(person, person', o)
  BY <1>1, <1>2, <1>3, AccountShrinks DEF AccountKept
<1>4. CASE Settled(o)
  <2>1. parent'[o] = Recomputed(person', parent[o], o)
    BY <1>4 DEF Settled
  <2>. QED  BY <1>1, <1>2, <2>1, RecomputedValues DEF AccountKept
<1>5. ASSUME NEW n \in 1..MaximumPerBatch, Authorize(o, n)  PROVE AccountKept(o)
  <2>1. PICK maximum \in Nat \ {0} :
          /\ parent[o].state = "absent" /\ person' = person
          /\ parent' = [parent EXCEPT ![o] =
               [parent[o] EXCEPT !.state = "authorized", !.exposure = maximum]]
    BY <1>5, Granted DEF MoneyInv
  <2>. DEFINE next == [parent[o] EXCEPT !.state = "authorized", !.exposure = maximum]
  <2>2. parent'[o] = next
    BY <2>1 DEF MoneyInv, ParentInv
  <2>3. /\ ParentTyped(next) /\ next.attempts = parent[o].attempts
        /\ next.observed = parent[o].observed
    <3>1. next = WithGrant(parent[o], maximum)
      BY DEF WithGrant
    <3>2. maximum \in Nat
      OBVIOUS
    <3>. HIDE DEF next
    <3>. QED  BY <1>2, <3>1, <3>2, GrantChanged
  <2>. HIDE DEF next
  <2>4. ~ \E p \in Children(person, o) : person[p].violation
    BY <1>2, <2>1 DEF Accounted
  <2>. QED  BY <1>2, <2>1, <2>2, <2>3, <2>4 DEF Accounted, AccountKept
<1>6. CASE Complete(o)
  BY <1>1, <1>6, CompleteAccounts
<1>7. CASE Fail(o)
  BY <1>7, FailAccounts
<1>8. OneAccount(o)
  BY EachAccount DEF MoneyInv
<1>. QED  BY <1>3, <1>4, <1>5, <1>6, <1>7, <1>8 DEF OneAccount

LEMMA AccountInit == Init => ParentTypeInv /\ AccountInv
<1>. SUFFICES ASSUME Init  PROVE ParentTypeInv /\ AccountInv
  OBVIOUS
<1>1. ParentTypeInv
  BY DEF Init, ParentTypeInv, Unknown
<1>2. ASSUME NEW o \in Operations  PROVE Children(person, o) = {}
  BY DiscoveryAssumption DEF Init, NoReservation, Children
<1>3. ASSUME NEW o \in Operations  PROVE Accounted(person, parent[o], o)
  <2>1. parent[o].attempts = 0 /\ parent[o].observed = Unknown
    BY DEF Init
  <2>. QED  BY <1>2, <2>1, NobodyCounts DEF Accounted
<1>. QED  BY <1>1, <1>3 DEF AccountInv

LEMMA AccountInvariance == Spec => [](IInv /\ MoneyInv)
<1>1. IInv /\ MoneyInv /\ IInv' /\ [Next]_vars => MoneyInv'
  BY AccountStep DEF IInv, MoneyInv, AccountKept, ParentTyped, ParentTypeInv, AccountInv
<1>2. Init /\ IInv => MoneyInv
  BY AccountInit DEF IInv, MoneyInv
<1>. QED  BY <1>1, <1>2, Invariance, PTL DEF Spec

\* No attempt is missing from the row of an operation, and a consumption is stated only
\* when all of it is known, whatever is charged, released, reclaimed or annotated late.
THEOREM AccountingStaysConservative == Spec => []AccountingIsConservative
<1>1. MoneyInv => AccountingIsConservative
  BY DEF MoneyInv, AccountInv, Accounted, AccountingIsConservative
<1>. QED  BY <1>1, AccountInvariance, PTL

-----------------------------------------------------------------------------
(* No lookup costs more than one credit.                                    *)

CheapRow(row) == row.observed <= 1 /\ row.violation = FALSE
CheapRows == \A p \in People : CheapRow(person[p])

LEMMA CheapChanges ==
  ASSUME NEW row \in Reservation, CheapRow(row)
  PROVE  /\ \A o \in Operations : CheapRow(Claimed(row, o))
         /\ CheapRow(Attempted(row)) /\ CheapRow(ReleasedUnattempted(row))
         /\ CheapRow(Uncertain(row)) /\ CheapRow(Imported(row))
         /\ CheapRow(SafelyReleased(row)) /\ CheapRow([row EXCEPT !.stale = TRUE])
<1>1. \A o \in Operations : CheapRow(Claimed(row, o))
  BY DEF CheapRow, Claimed, Reservation, Unknown
<1>2. CheapRow(Attempted(row)) /\ CheapRow(Uncertain(row))
  BY DEF CheapRow, Attempted, Uncertain, Reservation, Unknown
<1>3. CheapRow(ReleasedUnattempted(row)) /\ CheapRow(Imported(row))
  BY DEF CheapRow, ReleasedUnattempted, Imported, Reservation
<1>4. CheapRow(SafelyReleased(row)) /\ CheapRow([row EXCEPT !.stale = TRUE])
  BY DEF CheapRow, SafelyReleased, Reservation
<1>. QED  BY <1>1, <1>2, <1>3, <1>4

LEMMA CheapAnswers ==
  ASSUME NEW row \in Reservation, CheapRow(row), NEW n \in {0, 1, Unknown}
  PROVE  CheapRow(Usable(row, n, FALSE)) /\ CheapRow(Consumed(row, 1))
<1>1. ~(n > 1) /\ ~(1 > 1) /\ n <= 1 /\ 1 <= 1
  BY DEF Unknown
<1>2. row.violation = FALSE
  BY DEF CheapRow
<1>3. (row.violation \/ FALSE \/ n > 1) = FALSE /\ (row.violation \/ 1 > 1) = FALSE
  BY <1>1, <1>2
<1>4. /\ Usable(row, n, FALSE).violation = (row.violation \/ FALSE \/ n > 1)
      /\ Usable(row, n, FALSE).observed = n
  BY DEF Usable, Reservation
<1>5. /\ Consumed(row, 1).violation = (row.violation \/ 1 > 1)
      /\ Consumed(row, 1).observed = 1
  BY DEF Consumed, Reservation
<1>. QED  BY <1>1, <1>3, <1>4, <1>5 DEF CheapRow

LEMMA OneCheapRow ==
  ASSUME CheapRows, RowsTypeOK, NEW p \in People, NEW row,
         person' = [person EXCEPT ![p] = row], CheapRow(row)
  PROVE  CheapRows'
<1>1. ASSUME NEW q \in People  PROVE CheapRow(person'[q])
  <2>1. person'[q] \in {row, person[q]}
    BY DEF RowsTypeOK
  <2>. QED  BY <2>1 DEF CheapRows
<1>. QED  BY <1>1 DEF CheapRows

LEMMA SettleCheap ==
  ASSUME CheapRows, RowsTypeOK, NEW p \in People, NEW row, NEW o,
         \/ Settle(p, row, o) \/ Annotate(p, row, o),
         CheapRow(row)
  PROVE  CheapRows'
<1>1. CASE person' = person
  BY <1>1 DEF CheapRows
<1>2. CASE Settle(p, row, o)
  BY <1>2, OneCheapRow DEF Settle
<1>. QED  BY <1>1, <1>2 DEF Annotate

LEMMA CheapDiscovery ==
  ASSUME TypeInv, CheapRows, \A p \in People : actual[p] <= 1,
         NEW o \in Operations, Begin(o) \/ Advance(o)
  PROVE  CheapRows' /\ \A p \in People : actual'[p] <= 1
<1>. person \in [People -> Reservation] /\ run \in [Operations -> Run]
     /\ actual \in [People -> Nat] /\ RowsTypeOK
  BY DEF TypeInv, RowsTypeOK
<1>. DEFINE p == run[o].current
<1>0. ASSUME run[o].pc \in {"claimed", "call"}
      PROVE  p \in People /\ person[p] \in Reservation /\ CheapRow(person[p])
  BY <1>0 DEF TypeInv, CheapRows
<1>. HIDE DEF p
<1>1. ASSUME NEW n, Authorize(o, n) \/ Search(o, n) \/ SearchFails(o, n)
      PROVE  CheapRows' /\ actual' = actual
  BY <1>1 DEF Authorize, Search, SearchFails, store, apollo, CheapRows
<1>2. ASSUME NEW q \in People, ClaimPerson(o, q)
      PROVE  CheapRows' /\ actual' = actual
  <2>1. actual' = actual
    BY <1>2 DEF ClaimPerson, apollo
  <2>2. CASE person' = person
    BY <2>1, <2>2 DEF CheapRows
  <2>3. CASE person' = [person EXCEPT ![q] = Claimed(person[q], o)]
    <3>1. CheapRow(Claimed(person[q], o))
      BY CheapChanges DEF CheapRows
    <3>. QED  BY <2>1, <2>3, <3>1, OneCheapRow
  <2>. QED  BY <1>2, <2>2, <2>3 DEF ClaimPerson
<1>3. CASE Exhaust(o) \/ CompleteFails(o) \/ ClaimFails(o) \/ Fail(o)
  BY <1>3 DEF Exhaust, CompleteFails, ClaimFails, Fail, store, apollo, CheapRows
<1>4. CASE Dispatch(o)
  <2>1. /\ Settle(p, Attempted(person[p]), o) /\ actual' = [actual EXCEPT ![p] = 0]
        /\ run[o].pc = "claimed"
    BY <1>4 DEF Dispatch, p
  <2>2. CheapRows'
    BY <1>0, <2>1, CheapChanges, SettleCheap
  <2>3. \A q \in People : actual'[q] <= 1
    BY <2>1
  <2>. QED  BY <2>2, <2>3
<1>5. ASSUME NEW n, LocalFailure(o, n)
      PROVE  CheapRows' /\ actual' = actual
  <2>1. actual' = actual /\ run[o].pc = "claimed"
    BY <1>5 DEF LocalFailure, apollo
  <2>2. person' = person \/ Settle(p, ReleasedUnattempted(person[p]), o)
    BY <1>5 DEF LocalFailure, p
  <2>3. CASE person' = person
    BY <2>1, <2>3 DEF CheapRows
  <2>. QED  BY <1>0, <2>1, <2>2, <2>3, CheapChanges, SettleCheap
<1>6. ASSUME NEW n \in {0, 1, Unknown}, AnswerUsable(o, n)
      PROVE  CheapRows' /\ actual' = actual
  <2>1. actual' = actual /\ run[o].pc = "call"
    BY <1>6 DEF AnswerUsable, apollo
  <2>2. \/ Annotate(p, Usable(person[p], n, FALSE), o)
        \/ Annotate(p, Uncertain(person[p]), o)
    BY <1>6 DEF AnswerUsable, Annotate, p
  <2>. QED  BY <1>0, <2>1, <2>2, CheapChanges, CheapAnswers, SettleCheap
<1>7. CASE AnswerUncertain(o)
  <2>1. /\ actual' = actual /\ run[o].pc = "call" /\ Annotate(p, Uncertain(person[p]), o)
    BY <1>7 DEF AnswerUncertain, p
  <2>. QED  BY <1>0, <2>1, CheapChanges, SettleCheap
<1>8. ~AnswerExceeds(o)
  <2>. SUFFICES ASSUME AnswerExceeds(o)  PROVE FALSE
    OBVIOUS
  <2>1. run[o].pc = "call" /\ actual[p] > 1
    BY DEF AnswerExceeds, p
  <2>2. p \in People
    BY <1>0, <2>1
  <2>3. actual[p] \in Nat /\ actual[p] <= 1
    BY <2>2
  <2>. QED  BY <2>1, <2>3
<1>9. CASE Complete(o)
  <2>1. actual' = actual /\ \A q \in People : person'[q] \in {person[q], Imported(person[q])}
    BY <1>9 DEF Complete, ImportedRows, apollo
  <2>. QED  BY <2>1, CheapChanges DEF CheapRows
<1>. QED
  BY <1>1, <1>2, <1>3, <1>4, <1>5, <1>6, <1>7, <1>8, <1>9 DEF Begin, Advance

LEMMA CheapStep ==
  ASSUME MaxCost <= 1, TypeInv, CheapInv, [Next]_vars
  PROVE  CheapInv'
<1>. person \in [People -> Reservation] /\ actual \in [People -> Nat] /\ RowsTypeOK
  BY DEF TypeInv, RowsTypeOK
<1>0. CheapRows /\ \A p \in People : actual[p] <= 1
  BY DEF CheapInv, CheapRows, CheapRow
<1>. SUFFICES CheapRows' /\ \A p \in People : actual'[p] <= 1
  BY DEF CheapInv, CheapRows, CheapRow
<1>1. ASSUME NEW o \in Operations, Begin(o) \/ Advance(o)
      PROVE  CheapRows' /\ \A p \in People : actual'[p] <= 1
  BY <1>0, <1>1, CheapDiscovery
<1>2. CASE Operator
  <2>1. actual' = actual
    BY <1>2 DEF Operator, ResumeRetained, SafeRelease, RecordConsumption, apollo
  <2>2. ASSUME NEW p \in People, ResumeRetained(p) \/ SafeRelease(p)  PROVE CheapRows'
    <3>1. CheapRow(person[p])
      BY <1>0 DEF CheapRows
    <3>2. \/ Settle(p, Imported(person[p]), person[p].owner)
          \/ Settle(p, SafelyReleased(person[p]), person[p].owner)
      BY <2>2 DEF ResumeRetained, SafeRelease
    <3>. QED  BY <1>0, <3>1, <3>2, CheapChanges, SettleCheap
  <2>3. ASSUME NEW p \in People, NEW n \in 1..MaxCost, RecordConsumption(p, n)
        PROVE  CheapRows'
    <3>1. CheapRow(person[p])
      BY <1>0 DEF CheapRows
    <3>2. n = 1
      BY DiscoveryAssumption
    <3>3. Settle(p, Consumed(person[p], 1), person[p].owner)
      BY <2>3, <3>2 DEF RecordConsumption
    <3>. QED  BY <1>0, <3>1, <3>3, CheapAnswers, SettleCheap
  <2>. QED  BY <1>0, <1>2, <2>1, <2>2, <2>3 DEF Operator
<1>3. CASE World
  <2>1. ASSUME NEW o \in Operations, NEW cost \in 0..MaxCost,
               \/ ApolloServes(o, cost) \/ \E p \in People : StraySettles(o, p, cost)
        PROVE  CheapRows' /\ \A p \in People : actual'[p] <= 1
    <3>1. person' = person /\ \E p : actual' = [actual EXCEPT ![p] = cost]
      BY <2>1 DEF ApolloServes, StraySettles, store
    <3>2. cost \in Nat /\ cost <= 1
      BY DiscoveryAssumption
    <3>. QED  BY <1>0, <3>1, <3>2 DEF CheapRows
  <2>2. ASSUME NEW p \in People, GrowsStale(p)
        PROVE  CheapRows' /\ actual' = actual
    <3>1. actual' = actual /\ person' = [person EXCEPT ![p] = [person[p] EXCEPT !.stale = TRUE]]
      BY <2>2 DEF GrowsStale, apollo
    <3>2. CheapRow([person[p] EXCEPT !.stale = TRUE])
      BY <1>0, CheapChanges DEF CheapRows
    <3>. QED  BY <1>0, <3>1, <3>2, OneCheapRow
  <2>. QED  BY <1>0, <1>3, <2>1, <2>2 DEF World
<1>4. CASE Crash \/ UNCHANGED vars
  BY <1>0, <1>4 DEF Crash, store, vars, CheapRows
<1>. QED  BY <1>1, <1>2, <1>3, <1>4 DEF Next

-----------------------------------------------------------------------------
(* The phases of an operation, and the bounds on what it attempts.          *)

\* What is known of one-credit lookups is at most their number.
LEMMA KnownIsCounted ==
  ASSUME NEW rows \in [People -> Reservation], NEW o, \A p \in People : rows[p].observed <= 1
  PROVE  KnownCredits(rows, o) <= Cardinality(Counted(rows, o))
<1>. DEFINE f == [p \in Known(rows, o) |-> rows[p].observed]
<1>1. /\ f \in [Known(rows, o) -> Nat] /\ IsFiniteSet(Known(rows, o))
      /\ Cardinality(Known(rows, o)) <= Cardinality(Counted(rows, o))
      /\ Cardinality(Known(rows, o)) \in Nat /\ Cardinality(Counted(rows, o)) \in Nat
      /\ KnownCredits(rows, o) \in Nat
  BY CountTypes
<1>2. \A p \in Known(rows, o) : f[p] <= 1
  BY DEF Known, Counted, Children
<1>3. KnownCredits(rows, o) = Total(f)
  BY DEF KnownCredits
<1>. HIDE DEF f
<1>4. Total(f) <= Cardinality(Known(rows, o))
  BY <1>1, <1>2, TotalOfOnes
<1>. QED  BY <1>1, <1>3, <1>4

\* The row of an operation moves within what its people show and its discovery counts.
Bounded(o) ==
  /\ parent'[o].exposure = parent[o].exposure
  /\ parent'[o].attempts \in {parent[o].attempts, run[o].attempts,
                              Cardinality(Counted(person', o))}
  /\ parent'[o].observed \in {parent[o].observed, run[o].observed,
                              KnownCredits(person', o), Unknown}

Steady(o) ==
  /\ parent'[o].state = parent[o].state
  /\ parent'[o].exposure = parent[o].exposure
  /\ Dispatch(o) \/ Counted(person', o) \subseteq Counted(person, o)
  /\ parent'[o].attempts \in {parent[o].attempts, Cardinality(Counted(person', o))}
  /\ parent'[o].observed \in {parent[o].observed, KnownCredits(person', o), Unknown}

LEMMA CompleteRow ==
  ASSUME MoneyInv, RowsTypeOK', NEW o \in Operations, Complete(o)
  PROVE  /\ Bounded(o) /\ parent'[o].state = "completed"
         /\ Counted(person', o) \subseteq Counted(person, o)
<1>. DEFINE row == Recomputed(person', parent[o], o)
<1>. person' \in [People -> Reservation] /\ person \in [People -> Reservation]
  BY DEF RowsTypeOK, MoneyInv, TypeInv
<1>1. ParentTyped(parent[o])
  BY ParentsTyped DEF MoneyInv
<1>2. /\ ParentTyped(row) /\ row.exposure = parent[o].exposure
      /\ Children(person', o) = {} => row = parent[o]
      /\ Children(person', o) # {} =>
           /\ row.attempts = Cardinality(Counted(person', o))
           /\ row.observed \in {KnownCredits(person', o), Unknown}
  BY <1>1, RecomputedValues
<1>3. /\ row.state = "authorized"
      /\ parent' = [parent EXCEPT ![o] =
           IF Children(person', o) # {} THEN [row EXCEPT !.state = "completed"]
           ELSE [row EXCEPT !.state = "completed",
                            !.attempts = Max({row.attempts, run[o].attempts}),
                            !.observed = run[o].observed]]
  BY DEF Complete, ImportedRows
<1>. HIDE DEF row
<1>4. /\ run[o].attempts \in Nat /\ run[o].observed \in Nat \cup {Unknown}
      /\ run[o].attempts \in Int
  BY DEF MoneyInv, TypeInv, Run
<1>5. Counted(person', o) \subseteq Counted(person, o)
  <2>1. \A p \in People : person'[p] \in {person[p], Imported(person[p])}
    BY DEF Complete, ImportedRows
  <2>2. \A p \in People : /\ person'[p].owner = person[p].owner
                          /\ person'[p].attempted = person[p].attempted
    BY <2>1, ImportKeepsAccount
  <2>. QED  BY <2>2 DEF Counted, Children
<1>6. CASE Children(person', o) # {}
  <2>1. parent'[o] = WithState(row, "completed")
    BY <1>3, <1>6 DEF MoneyInv, ParentInv, WithState
  <2>2. /\ parent'[o].state = "completed" /\ parent'[o].exposure = row.exposure
        /\ parent'[o].attempts = row.attempts /\ parent'[o].observed = row.observed
    BY <1>2, <2>1, StateChanged
  <2>. QED  BY <1>2, <1>5, <1>6, <2>2 DEF Bounded
<1>7. CASE Children(person', o) = {}
  <2>. DEFINE attempts == Max({row.attempts, run[o].attempts})
  <2>1. parent'[o] = WithAll(row, "completed", attempts, run[o].observed)
    BY <1>3, <1>7 DEF MoneyInv, ParentInv, WithAll
  <2>2. attempts \in Nat /\ attempts \in {row.attempts, run[o].attempts}
    <3>1. row.attempts \in Nat /\ row.attempts \in Int
      BY <1>2, TypedFields
    <3>. QED  BY <1>4, <3>1, MaxOfTwo
  <2>. HIDE DEF attempts
  <2>3. /\ parent'[o].state = "completed" /\ parent'[o].exposure = row.exposure
        /\ parent'[o].attempts = attempts /\ parent'[o].observed = run[o].observed
    <3>1. /\ ParentTyped(row) /\ attempts \in Nat
          /\ run[o].observed \in Nat \cup {Unknown}
      BY <1>2, <1>4, <2>2
    <3>2. PICK observed \in Nat \cup {Unknown} : observed = run[o].observed
      BY <3>1
    <3>. DEFINE next == WithAll(row, "completed", attempts, observed)
    <3>3. /\ next.state = "completed" /\ next.exposure = row.exposure
          /\ next.attempts = attempts /\ next.observed = observed
      BY ONLY <3>1, observed \in Nat \cup {Unknown}, AllChanged
    <3>. QED  BY <2>1, <3>2, <3>3
  <2>. QED  BY <1>2, <1>5, <1>7, <2>2, <2>3 DEF Bounded
<1>. QED  BY <1>6, <1>7

LEMMA FailRow ==
  ASSUME MoneyInv, NEW o \in Operations, Fail(o)
  PROVE  /\ Bounded(o) /\ parent'[o].state \in {parent[o].state, "failed"}
         /\ person' = person
<1>. DEFINE failed == [parent[o] EXCEPT !.state = "failed"]
            row == Recomputed(person, failed, o)
<1>. person \in [People -> Reservation]
  BY DEF MoneyInv, TypeInv, RowsTypeOK
<1>1. ParentTyped(parent[o]) /\ person' = person
  BY ParentsTyped DEF MoneyInv, Fail
<1>2. /\ ParentTyped(failed) /\ failed.state = "failed"
      /\ failed.exposure = parent[o].exposure
      /\ failed.attempts = parent[o].attempts /\ failed.observed = parent[o].observed
  <2>1. failed = WithState(parent[o], "failed")
    BY DEF WithState
  <2>. HIDE DEF failed
  <2>. QED  BY <1>1, <2>1, StateChanged
<1>3. /\ parent' =
           IF Children(person, o) # {}
           THEN IF Conflict(o, row) THEN parent ELSE [parent EXCEPT ![o] = row]
           ELSE [parent EXCEPT ![o] =
                   [row EXCEPT !.attempts = Max({row.attempts, run[o].attempts}),
                               !.observed = Max({row.observed, run[o].observed})]]
  BY DEF Fail
<1>. HIDE DEF failed
<1>4. /\ ParentTyped(row) /\ row.state = "failed" /\ row.exposure = parent[o].exposure
      /\ Children(person, o) = {} => row = failed
      /\ Children(person, o) # {} =>
           /\ row.attempts = Cardinality(Counted(person, o))
           /\ row.observed \in {KnownCredits(person, o), Unknown}
  BY <1>2, RecomputedValues
<1>. HIDE DEF row
<1>5. /\ run[o].attempts \in Nat /\ run[o].observed \in Nat \cup {Unknown}
      /\ run[o].attempts \in Int /\ run[o].observed \in Int
  BY DEF MoneyInv, TypeInv, Run, Unknown
<1>6. CASE parent' = parent
  BY <1>1, <1>6 DEF Bounded
<1>7. CASE Children(person, o) # {} /\ parent' = [parent EXCEPT ![o] = row]
  <2>1. parent'[o] = row
    BY <1>7 DEF MoneyInv, ParentInv
  <2>. QED  BY <1>1, <1>4, <1>7, <2>1 DEF Bounded
<1>8. CASE Children(person, o) = {}
  <2>. DEFINE attempts == Max({row.attempts, run[o].attempts})
              observed == Max({row.observed, run[o].observed})
  <2>1. parent'[o] = WithCounts(row, attempts, observed)
    BY <1>3, <1>8 DEF MoneyInv, ParentInv, WithCounts
  <2>2. /\ row.attempts \in Nat /\ row.observed \in Nat \cup {Unknown}
        /\ row.attempts \in Int /\ row.observed \in Int
    BY <1>4, TypedFields
  <2>3. /\ attempts \in Nat /\ attempts \in {row.attempts, run[o].attempts}
        /\ observed \in Nat \cup {Unknown} /\ observed \in {row.observed, run[o].observed}
    BY <1>5, <2>2, MaxOfTwo
  <2>. HIDE DEF attempts, observed
  <2>4. /\ parent'[o].state = "failed" /\ parent'[o].exposure = row.exposure
        /\ parent'[o].attempts = attempts /\ parent'[o].observed = observed
    <3>1. /\ ParentTyped(row) /\ attempts \in Nat /\ observed \in Nat \cup {Unknown}
      BY <1>4, <2>3
    <3>. DEFINE next == WithCounts(row, attempts, observed)
    <3>3. /\ next.state = row.state /\ next.exposure = row.exposure
          /\ next.attempts = attempts /\ next.observed = observed
      BY ONLY <3>1, CountsChanged
    <3>. QED  BY <1>4, <2>1, <3>3
  <2>. QED  BY <1>1, <1>2, <1>4, <1>8, <2>3, <2>4 DEF Bounded
<1>. QED  BY <1>3, <1>6, <1>7, <1>8

LEMMA AccountsMove ==
  ASSUME MoneyInv, CheapInv', [Next]_vars, NEW o \in Operations
  PROVE  \/ Steady(o)
         \/ \E n \in 1..MaximumPerBatch : Authorize(o, n)
         \/ Complete(o)
         \/ Fail(o)
<1>1. person \in [People -> Reservation] /\ person' \in [People -> Reservation]
  BY EveryStepMoves, RowTypesMove DEF MoneyInv, TypeInv, RowsTypeOK
<1>2. CASE parent'[o] = parent[o] /\ Undisturbed(person, person', o)
  <2>1. Counted(person', o) \subseteq Counted(person, o)
    BY <1>1, <1>2, CountShrinks
  <2>. QED  BY <1>2, <2>1 DEF Steady
<1>3. CASE Settled(o)
  <2>1. \A p \in Children(person', o) : ~person'[p].violation
    BY DEF CheapInv, Children
  <2>2. ParentTyped(parent[o]) /\ parent'[o] = Recomputed(person', parent[o], o)
    BY <1>3, ParentsTyped DEF MoneyInv, Settled
  <2>3. /\ parent'[o].exposure = parent[o].exposure
        /\ parent'[o].state = parent[o].state
        /\ Children(person', o) = {} => parent'[o] = parent[o]
        /\ Children(person', o) # {} =>
             /\ parent'[o].attempts = Cardinality(Counted(person', o))
             /\ parent'[o].observed \in {KnownCredits(person', o), Unknown}
    BY <1>1, <2>1, <2>2, RecomputedValues
  <2>. QED  BY <1>3, <2>3 DEF Steady, Settled
<1>. QED  BY <1>2, <1>3, EachAccount DEF MoneyInv, OneAccount

\* What a discovery counts while it runs, of an exposure e.
Counts(r, e) ==
  /\ r.attempts <= e /\ r.observed <= r.attempts
  /\ r.pc = "claimed" => r.attempts < e
  /\ r.pc = "call" => r.observed < r.attempts

CountsMove(o) ==
  \/ run'[o].pc = "done"
  \/ /\ run'[o].pc # "idle"
     /\ Counts(run'[o], parent[o].exposure)
     /\ run'[o].attempts = IF Dispatch(o) THEN run[o].attempts + 1 ELSE run[o].attempts

LEMMA GiveUpCounts ==
  ASSUME run \in [Operations -> Run], NEW o \in Operations,
         NEW n \in Nat \cup {Unknown}, GiveUp(o, n)
  PROVE  /\ run'[o].pc = "failing" /\ run'[o].attempts = run[o].attempts
         /\ run'[o].observed = n
BY DEF GiveUp, Ready

LEMMA AdvanceRuns ==
  ASSUME NEW o \in Operations, Advance(o)
  PROVE  Running(o)
BY DEF Advance, Search, SearchFails, ClaimPerson, ClaimFails, Exhaust, Dispatch,
       LocalFailure, AnswerUsable, AnswerExceeds, AnswerUncertain, Complete, CompleteFails,
       Fail, Running

LEMMA RunCounts ==
  ASSUME TypeInv, \A p \in People : actual[p] <= 1, NEW o \in Operations, Advance(o),
         parent[o].exposure \in Nat, Counts(run[o], parent[o].exposure)
  PROVE  CountsMove(o)
<1>. DEFINE e == parent[o].exposure
<1>. run \in [Operations -> Run] /\ run[o] \in Run
  BY DEF TypeInv
<1>t. /\ run[o].attempts \in Nat /\ run[o].observed \in Nat \cup {Unknown}
      /\ run[o].observed \in Int /\ Unknown = -1 /\ e \in Nat
  BY DEF Run, Unknown
<1>c. /\ run[o].attempts <= e /\ run[o].observed <= run[o].attempts
      /\ run[o].pc = "claimed" => run[o].attempts < e
      /\ run[o].pc = "call" => run[o].observed < run[o].attempts
  BY DEF Counts
<1>. HIDE DEF e
<1>e. e = parent[o].exposure
  BY DEF e
\* Giving up keeps the attempts and ends with an observation that is no larger.
<1>g. ASSUME NEW n \in Nat \cup {Unknown}, n <= run[o].attempts, GiveUp(o, n), ~Dispatch(o)
      PROVE  CountsMove(o)
  <2>1. /\ run'[o].pc = "failing" /\ run'[o].attempts = run[o].attempts
        /\ run'[o].observed = n
    BY <1>g, GiveUpCounts
  <2>. QED  BY <1>g, <1>t, <1>c, <1>e, <2>1 DEF CountsMove, Counts
\* Most steps change the phase alone.
<1>p. ASSUME run'[o].attempts = run[o].attempts, run'[o].observed = run[o].observed,
             run'[o].pc \in {"search", "choose", "claimed", "complete"},
             run'[o].pc = "claimed" => run[o].attempts < e, ~Dispatch(o)
      PROVE  CountsMove(o)
  BY <1>p, <1>t, <1>c, <1>e DEF CountsMove, Counts
<1>1. ASSUME NEW found, Search(o, found)  PROVE CountsMove(o)
  <2>1. /\ run'[o].attempts = run[o].attempts /\ run'[o].observed = run[o].observed
        /\ run'[o].pc = "choose" /\ ~Dispatch(o)
    BY <1>1 DEF Search, Dispatch, Run
  <2>. QED  BY <1>p, <2>1
<1>2. ASSUME NEW p, ClaimPerson(o, p)  PROVE CountsMove(o)
  <2>1. /\ run'[o].attempts = run[o].attempts /\ run'[o].observed = run[o].observed
        /\ run'[o].pc \in {"choose", "claimed"} /\ ~Dispatch(o)
    BY <1>2 DEF ClaimPerson, Dispatch, Run
  <2>2. run[o].attempts < e
    BY <1>2, <1>e DEF ClaimPerson
  <2>. QED  BY <1>p, <2>1, <2>2
<1>3. CASE Exhaust(o)
  <2>1. /\ run'[o].attempts = run[o].attempts /\ run'[o].observed = run[o].observed
        /\ run'[o].pc = "complete" /\ ~Dispatch(o)
    BY <1>3 DEF Exhaust, Dispatch, Run
  <2>. QED  BY <1>p, <2>1
<1>4. CASE Dispatch(o)
  <2>1. /\ run'[o].attempts = run[o].attempts + 1 /\ run'[o].observed = run[o].observed
        /\ run'[o].pc = "call" /\ run[o].pc = "claimed"
    BY <1>4 DEF Dispatch, Run
  <2>2. Counts(run'[o], parent[o].exposure)
    BY <1>t, <1>c, <1>e, <2>1 DEF Counts
  <2>. QED  BY <1>4, <2>1, <2>2 DEF CountsMove
<1>5. CASE ClaimFails(o) \/ CompleteFails(o)
  <2>1. GiveUp(o, run[o].observed) /\ ~Dispatch(o)
    BY <1>5 DEF ClaimFails, CompleteFails, Dispatch
  <2>. QED  BY <1>g, <1>t, <1>c, <2>1
<1>6. ASSUME NEW n \in {0, Unknown}, SearchFails(o, n)  PROVE CountsMove(o)
  <2>1. GiveUp(o, n) /\ ~Dispatch(o)
    BY <1>6 DEF SearchFails, Dispatch
  <2>2. n \in Nat \cup {Unknown} /\ n <= run[o].attempts
    BY <1>t
  <2>. QED  BY <1>g, <2>1, <2>2
<1>7. ASSUME NEW n \in {run[o].observed, 0, Unknown}, LocalFailure(o, n)
      PROVE  CountsMove(o)
  <2>1. GiveUp(o, n) /\ (\E q \in Operations : TRUE)
    BY <1>7 DEF LocalFailure
  <2>2. n \in Nat \cup {Unknown} /\ n <= run[o].attempts
    BY <1>t, <1>c
  <2>3. ~Dispatch(o)
    BY <2>1, <2>2, GiveUpCounts DEF Dispatch, Run
  <2>. QED  BY <1>g, <2>1, <2>2, <2>3
<1>8. ASSUME NEW n \in {0, 1, Unknown}, AnswerUsable(o, n)  PROVE CountsMove(o)
  <2>1. run[o].pc = "call" /\ ~Dispatch(o)
    BY <1>8 DEF AnswerUsable, Dispatch
  <2>2. /\ Plus(run[o].observed, n) \in Nat \cup {Unknown}
        /\ Plus(run[o].observed, n) <= run[o].attempts
    BY <1>t, <1>c, <2>1, PlusType DEF Plus
  <2>3. CASE GiveUp(o, Plus(run[o].observed, n))
    BY <1>g, <2>1, <2>2, <2>3
  <2>4. CASE run' = [run EXCEPT ![o].pc = "choose", ![o].call = "none",
                                ![o].current = NoPerson,
                                ![o].records = @ \cup {run[o].current},
                                ![o].observed = Plus(@, n)]
    <3>1. /\ run'[o].attempts = run[o].attempts /\ run'[o].pc = "choose"
          /\ run'[o].observed = Plus(run[o].observed, n)
      BY <2>4 DEF Run
    <3>2. Counts(run'[o], parent[o].exposure)
      BY <1>t, <1>c, <1>e, <2>2, <3>1 DEF Counts
    <3>. QED  BY <2>1, <3>1, <3>2 DEF CountsMove
  <2>. QED  BY <1>8, <2>3, <2>4 DEF AnswerUsable
<1>9. ~AnswerExceeds(o)
  <2>. SUFFICES ASSUME AnswerExceeds(o)  PROVE FALSE
    OBVIOUS
  <2>1. run[o].current \in People /\ actual[run[o].current] > 1
    BY DEF AnswerExceeds, TypeInv
  <2>2. actual[run[o].current] \in Nat /\ actual[run[o].current] <= 1
    BY <2>1 DEF TypeInv
  <2>. QED  BY <2>1, <2>2
<1>10. CASE AnswerUncertain(o)
  <2>1. GiveUp(o, Unknown) /\ ~Dispatch(o)
    BY <1>10 DEF AnswerUncertain, Dispatch
  <2>. QED  BY <1>g, <1>t, <2>1
<1>11. CASE Complete(o) \/ Fail(o)
  <2>1. run'[o].pc = "done"
    BY <1>11, EndedType DEF Complete, Fail
  <2>. QED  BY <2>1 DEF CountsMove
<1>. QED
  BY <1>1, <1>2, <1>3, <1>4, <1>5, <1>6, <1>7, <1>8, <1>9, <1>10, <1>11 DEF Advance

\* A discovery that does not step itself stays as it is, or dies.
LEMMA RunStays ==
  ASSUME TypeInv, [Next]_vars, NEW o \in Operations, ~(Begin(o) \/ Advance(o))
  PROVE  \/ run'[o].pc = "done"
         \/ /\ run'[o].pc = run[o].pc /\ run'[o].current = run[o].current
            /\ run'[o].attempts = run[o].attempts /\ run'[o].observed = run[o].observed
<1>. run \in [Operations -> Run]
  BY DEF TypeInv
<1>1. ASSUME NEW q \in Operations, Begin(q) \/ Advance(q)
      PROVE  run'[o] = run[o]
  BY <1>1, AdvanceMovesRun DEF RunMove
<1>2. CASE Operator
  BY <1>2 DEF Operator, ResumeRetained, SafeRelease, RecordConsumption
<1>3. CASE World
  <2>1. ASSUME NEW q \in Operations, NEW cost, ApolloServes(q, cost)
        PROVE  /\ run'[o].pc = run[o].pc /\ run'[o].current = run[o].current
               /\ run'[o].attempts = run[o].attempts /\ run'[o].observed = run[o].observed
    BY <2>1 DEF ApolloServes, Run
  <2>2. run' = run \/ \E q \in Operations, cost \in 0..MaxCost : ApolloServes(q, cost)
    BY <1>3 DEF World, StraySettles, GrowsStale
  <2>. QED  BY <2>1, <2>2
<1>4. CASE Crash
  BY <1>4, EndedType DEF Crash
<1>5. CASE UNCHANGED vars
  BY <1>5 DEF vars
<1>. QED  BY <1>1, <1>2, <1>3, <1>4, <1>5 DEF Next

DailyInv == MoneyInv /\ CheapInv /\ PhaseInv /\ BoundInv

\* What an authorization leaves behind.
LEMMA Authorized ==
  ASSUME MoneyInv, NEW o \in Operations, NEW n \in 1..MaximumPerBatch, Authorize(o, n)
  PROVE  /\ parent'[o].state = "authorized" /\ parent'[o].exposure \in Nat
         /\ parent'[o].exposure <= Remaining
         /\ parent'[o].attempts = parent[o].attempts
         /\ parent'[o].observed = parent[o].observed
         /\ \A q \in Operations : q # o => parent'[q] = parent[q]
         /\ parent[o].state = "absent" /\ person' = person
         /\ run[o].pc = "idle" /\ run'[o].pc = "search"
         /\ run'[o].attempts = run[o].attempts /\ run'[o].observed = run[o].observed
<1>1. PICK maximum \in Nat \ {0} :
        /\ maximum <= Remaining /\ parent[o].state = "absent" /\ person' = person
        /\ parent' = [parent EXCEPT ![o] =
             [parent[o] EXCEPT !.state = "authorized", !.exposure = maximum]]
  BY Granted DEF MoneyInv
<1>2. parent'[o] = WithGrant(parent[o], maximum)
  BY <1>1 DEF MoneyInv, ParentInv, WithGrant
<1>3. maximum \in Nat /\ ParentTyped(parent[o])
  BY ParentsTyped DEF MoneyInv
<1>4. /\ parent'[o].state = "authorized" /\ parent'[o].exposure = maximum
      /\ parent'[o].attempts = parent[o].attempts
      /\ parent'[o].observed = parent[o].observed
  BY <1>2, <1>3, GrantChanged
<1>5. \A q \in Operations : q # o => parent'[q] = parent[q]
  BY <1>1 DEF MoneyInv, ParentInv
<1>6. /\ run[o].pc = "idle" /\ run'[o].pc = "search"
      /\ run'[o].attempts = run[o].attempts /\ run'[o].observed = run[o].observed
  BY DEF Authorize, Goto, MoneyInv, TypeInv, Run
<1>. QED  BY <1>1, <1>3, <1>4, <1>5, <1>6

\* The steps of an operation itself, told from those of the others.
LEMMA WhoSteps ==
  ASSUME MoneyInv, CheapInv', [Next]_vars, NEW o \in Operations
  PROVE  \/ \E n \in 1..MaximumPerBatch : Authorize(o, n)
         \/ Advance(o) /\ (Complete(o) \/ Fail(o))
         \/ Advance(o) /\ Steady(o)
         \/ ~(Begin(o) \/ Advance(o)) /\ Steady(o)
BY AccountsMove DEF Begin, Advance

LEMMA PhaseStep ==
  ASSUME DailyInv, CheapInv', RowsTypeOK', [Next]_vars
  PROVE  PhaseInv'
<1>. SUFFICES ASSUME NEW o \in Operations
              PROVE  /\ Running(o)' => parent'[o].state = "authorized"
                     /\ parent'[o].state = "absent" =>
                          /\ Children(person', o) = {}
                          /\ parent'[o].attempts = 0 /\ parent'[o].observed <= 0
  BY DEF PhaseInv
<1>0. /\ MoneyInv /\ TypeInv /\ RowsTypeOK
      /\ Running(o) => parent[o].state = "authorized"
      /\ parent[o].state = "absent" =>
           /\ Children(person, o) = {}
           /\ parent[o].attempts = 0 /\ parent[o].observed <= 0
  BY DEF DailyInv, MoneyInv, TypeInv, PhaseInv
<1>1. ASSUME NEW n \in 1..MaximumPerBatch, Authorize(o, n)
      PROVE  parent'[o].state = "authorized"
  BY <1>0, <1>1, Authorized
<1>2. ASSUME Advance(o), Complete(o) \/ Fail(o)
      PROVE  ~Running(o)' /\ parent'[o].state # "absent"
  <2>1. run'[o].pc = "done"
    BY <1>2, <1>0, EndedType DEF Complete, Fail, TypeInv
  <2>2. parent[o].state = "authorized"
    BY <1>0, <1>2, AdvanceRuns
  <2>. QED  BY <1>0, <1>2, <2>1, <2>2, CompleteRow, FailRow DEF Running
<1>3. ASSUME Steady(o), parent[o].state = "absent"
      PROVE  /\ Children(person', o) = {}
             /\ parent'[o].attempts = 0 /\ parent'[o].observed <= 0
  <2>1. ASSUME NEW p \in Children(person', o)  PROVE FALSE
    <3>1. p \in People /\ person'[p].owner = o
      BY <2>1 DEF Children
    <3>2. person[p].owner # o
      BY <1>0, <1>3, <3>1 DEF Children
    <3>3. ClaimPerson(o, p)
      BY <1>0, <3>1, <3>2, EveryStepMoves, OwnerMoves
    <3>. QED  BY <1>0, <1>3, <3>3 DEF ClaimPerson, Running
  <2>2. Children(person', o) = {}
    BY <2>1
  <2>3. Cardinality(Counted(person', o)) = 0 /\ KnownCredits(person', o) = 0
    BY <2>2, NobodyCounts
  <2>. QED  BY <1>0, <1>3, <2>2, <2>3 DEF Steady, Unknown
<1>4. ASSUME Steady(o), Running(o)' => Running(o)
      PROVE  /\ Running(o)' => parent'[o].state = "authorized"
             /\ parent'[o].state = "absent" =>
                  /\ Children(person', o) = {}
                  /\ parent'[o].attempts = 0 /\ parent'[o].observed <= 0
  <2>1. parent'[o].state = parent[o].state
    BY <1>4 DEF Steady
  <2>. QED  BY <1>0, <1>3, <1>4, <2>1
<1>5. ASSUME ~(Begin(o) \/ Advance(o))
      PROVE  Running(o)' => Running(o)
  BY <1>0, <1>5, RunStays DEF Running
<1>6. Advance(o) => (Running(o)' => Running(o))
  BY AdvanceRuns
<1>. QED  BY <1>0, <1>1, <1>2, <1>4, <1>5, <1>6, WhoSteps

LEMMA BoundStep ==
  ASSUME DailyInv, CheapInv', RowsTypeOK', [Next]_vars
  PROVE  BoundInv'
<1>. SUFFICES ASSUME NEW o \in Operations
              PROVE  SpentOnce(o)'
  BY DEF BoundInv
<1>. DEFINE c == Cardinality(Counted(person, o))
            d == Cardinality(Counted(person', o))
            k == KnownCredits(person', o)
            e == parent[o].exposure
<1>0. /\ MoneyInv /\ TypeInv /\ RowsTypeOK /\ run \in [Operations -> Run]
      /\ Running(o) => parent[o].state = "authorized"
      /\ parent[o].state = "absent" =>
           /\ Children(person, o) = {}
           /\ parent[o].attempts = 0 /\ parent[o].observed <= 0
      /\ \A p \in People : actual[p] <= 1
  BY DEF DailyInv, MoneyInv, TypeInv, PhaseInv, CheapInv
<1>t. /\ c \in Nat /\ d \in Nat /\ k \in Nat /\ k <= d
      /\ IsFiniteSet(Counted(person, o)) /\ IsFiniteSet(Counted(person', o))
      /\ e \in Nat /\ parent[o].attempts \in Nat
      /\ parent[o].observed \in Int /\ Unknown = -1
      /\ run[o].attempts \in Nat /\ run[o].observed \in Int
  <2>1. \A p \in People : person'[p].observed <= 1
    BY DEF CheapInv
  <2>2. person \in [People -> Reservation] /\ person' \in [People -> Reservation]
    BY <1>0 DEF RowsTypeOK
  <2>3. /\ c \in Nat /\ d \in Nat /\ k \in Nat
        /\ IsFiniteSet(Counted(person, o)) /\ IsFiniteSet(Counted(person', o))
    BY <2>2, CountTypes
  <2>4. k <= d
    BY <2>1, <2>2, KnownIsCounted
  <2>5. /\ e \in Nat /\ parent[o].attempts \in Nat
        /\ parent[o].observed \in Int /\ Unknown = -1
    BY <1>0 DEF MoneyInv, ParentTypeInv, Unknown
  <2>6. run[o].attempts \in Nat /\ run[o].observed \in Int
    BY <1>0 DEF Run, Unknown
  <2>. QED  BY <2>3, <2>4, <2>5, <2>6
<1>b. /\ Running(o) => c <= run[o].attempts /\ Counts(run[o], e)
      /\ run[o].pc = "idle" => run[o].attempts = 0 /\ run[o].observed = 0
      /\ c <= e /\ parent[o].attempts <= e /\ parent[o].observed <= e
  BY DEF DailyInv, BoundInv, SpentOnce, Counts
<1>s. Counted(person', o) \subseteq Counted(person, o) => d <= c
  BY <1>t, FS_Subset
<1>. HIDE DEF c, d, k, e
<1>q. ASSUME /\ Running(o)' => /\ d <= run'[o].attempts
                               /\ Counts(run'[o], parent'[o].exposure)
             /\ run'[o].pc = "idle" => run'[o].attempts = 0 /\ run'[o].observed = 0
             /\ d <= parent'[o].exposure
             /\ parent'[o].attempts <= parent'[o].exposure
             /\ parent'[o].observed <= parent'[o].exposure
      PROVE  SpentOnce(o)'
  BY <1>q DEF SpentOnce, Counts, Running, d
<1>1. ASSUME NEW n \in 1..MaximumPerBatch, Authorize(o, n)
      PROVE  SpentOnce(o)'
  <2>1. /\ parent'[o].exposure \in Nat
        /\ parent'[o].attempts = parent[o].attempts
        /\ parent'[o].observed = parent[o].observed
        /\ parent[o].state = "absent" /\ person' = person
        /\ run[o].pc = "idle" /\ run'[o].pc = "search"
        /\ run'[o].attempts = run[o].attempts /\ run'[o].observed = run[o].observed
    BY <1>0, <1>1, Authorized
  <2>2. d = 0
    BY <1>0, <2>1, NobodyCounts DEF d
  <2>3. Counts(run'[o], parent'[o].exposure)
    BY <1>b, <2>1 DEF Counts
  <2>4. parent[o].attempts = 0 /\ parent[o].observed <= 0
    BY <1>0, <2>1
  <2>. QED  BY <1>b, <1>q, <1>t, <2>1, <2>2, <2>3, <2>4
<1>2. ASSUME Advance(o), Complete(o) \/ Fail(o)
      PROVE  SpentOnce(o)'
  <2>1. run'[o].pc = "done"
    BY <1>2, <1>0, EndedType DEF Complete, Fail
  <2>2. Bounded(o) /\ Counted(person', o) \subseteq Counted(person, o)
    BY <1>0, <1>2, CompleteRow, FailRow
  <2>3. run[o].attempts <= e /\ run[o].observed <= run[o].attempts
    BY <1>b, <1>2, AdvanceRuns DEF Counts
  <2>4. /\ parent'[o].exposure = e /\ parent'[o].attempts \in {parent[o].attempts, run[o].attempts, d}
        /\ parent'[o].observed \in {parent[o].observed, run[o].observed, k, Unknown}
    BY <2>2 DEF Bounded, d, e, k
  <2>5. d <= e /\ parent'[o].attempts <= e /\ parent'[o].observed <= e
    BY <1>b, <1>s, <1>t, <2>2, <2>3, <2>4
  <2>. QED  BY <1>q, <2>1, <2>4, <2>5 DEF Running
<1>3. ASSUME Steady(o), d <= e
      PROVE  /\ parent'[o].exposure = e
             /\ parent'[o].attempts <= e /\ parent'[o].observed <= e
  <2>1. /\ parent'[o].exposure = e /\ parent'[o].attempts \in {parent[o].attempts, d}
        /\ parent'[o].observed \in {parent[o].observed, k, Unknown}
    BY <1>3 DEF Steady, d, e, k
  <2>. QED  BY <1>b, <1>t, <1>3, <2>1
<1>4. ASSUME Advance(o), Steady(o)
      PROVE  SpentOnce(o)'
  <2>1. Running(o) /\ c <= run[o].attempts /\ Counts(run[o], e)
    BY <1>b, <1>4, AdvanceRuns
  <2>2. CountsMove(o)
    BY <1>0, <1>t, <1>4, <2>1, RunCounts DEF e
  <2>3. CASE Dispatch(o)
    <3>1. /\ run[o].current \in People
          /\ person' = [person EXCEPT ![run[o].current] = Attempted(person[run[o].current])]
          /\ run[o].pc = "claimed"
      BY <1>0, <2>3 DEF Dispatch, Settle, TypeInv
    <3>2. Counted(person', o) \subseteq Counted(person, o) \cup {run[o].current}
      BY <1>0, <3>1 DEF Counted, Children, RowsTypeOK
    <3>3. /\ IsFiniteSet(Counted(person, o) \cup {run[o].current})
          /\ Cardinality(Counted(person, o) \cup {run[o].current}) <= c + 1
      BY <1>t, FS_AddElement DEF c
    <3>4. Cardinality(Counted(person, o) \cup {run[o].current}) \in Nat
      BY <3>3, FS_CardinalityType
    <3>5. d <= c + 1
      BY <1>t, <3>2, <3>3, <3>4, FS_Subset DEF d
    <3>6. run'[o].attempts = run[o].attempts + 1 /\ run'[o].pc = "call"
          /\ run[o].attempts < e
      BY <1>0, <2>1, <2>3, <3>1 DEF Dispatch, Run, Counts
    <3>7. Counts(run'[o], e)
      BY <2>2, <3>6 DEF CountsMove, e
    <3>8. d <= run'[o].attempts /\ d <= e
      BY <1>t, <2>1, <3>5, <3>6
    <3>9. /\ parent'[o].exposure = e
          /\ parent'[o].attempts <= e /\ parent'[o].observed <= e
      BY <1>3, <1>4, <3>8
    <3>. QED  BY <1>q, <3>6, <3>7, <3>8, <3>9
  <2>4. CASE ~Dispatch(o)
    <3>1. d <= c
      BY <1>4, <1>s, <2>4 DEF Steady
    <3>2. d <= e
      BY <1>b, <1>t, <3>1
    <3>3. /\ parent'[o].exposure = e
          /\ parent'[o].attempts <= e /\ parent'[o].observed <= e
      BY <1>3, <1>4, <3>2
    <3>4. CASE run'[o].pc = "done"
      BY <1>q, <3>2, <3>3, <3>4 DEF Running
    <3>5. CASE /\ run'[o].pc # "idle" /\ Counts(run'[o], e)
               /\ run'[o].attempts = run[o].attempts
      BY <1>q, <1>t, <2>1, <3>1, <3>2, <3>3, <3>5
    <3>. QED  BY <2>2, <2>4, <3>4, <3>5 DEF CountsMove, e
  <2>. QED  BY <2>3, <2>4
<1>5. ASSUME ~(Begin(o) \/ Advance(o)), Steady(o)
      PROVE  SpentOnce(o)'
  <2>1. ~Dispatch(o)
    BY <1>5 DEF Advance
  <2>2. d <= c
    BY <1>5, <1>s, <2>1 DEF Steady
  <2>3. d <= e
    BY <1>b, <1>t, <2>2
  <2>4. /\ parent'[o].exposure = e
        /\ parent'[o].attempts <= e /\ parent'[o].observed <= e
    BY <1>3, <1>5, <2>3
  <2>5. CASE run'[o].pc = "done"
    BY <1>q, <2>3, <2>4, <2>5 DEF Running
  <2>6. CASE /\ run'[o].pc = run[o].pc
             /\ run'[o].attempts = run[o].attempts /\ run'[o].observed = run[o].observed
    <3>1. Running(o)' => Running(o)
      BY <2>6 DEF Running
    <3>2. Running(o) => Counts(run'[o], e)
      BY <1>b, <2>6 DEF Counts
    <3>3. Running(o)' => d <= run'[o].attempts
      BY <1>b, <1>t, <2>2, <2>6, <3>1
    <3>. QED  BY <1>b, <1>q, <2>3, <2>4, <2>6, <3>1, <3>2, <3>3
  <2>. QED  BY <1>0, <1>5, <2>5, <2>6, RunStays
<1>. QED  BY <1>0, <1>1, <1>2, <1>4, <1>5, WhoSteps

-----------------------------------------------------------------------------
(* What the operations hold together.                                       *)

Share(rows, row, o) ==
  CASE row.state = "absent"     -> 0
    [] row.state = "authorized" -> row.exposure
    [] OTHER -> Max({row.attempts, row.observed, KnownCredits(rows, o)})

\* A finished operation holds what its row says, as its people show no more.
LEMMA ShareValue ==
  ASSUME NEW rows \in [People -> Reservation], \A p \in People : rows[p].observed <= 1,
         NEW o, NEW row, ParentTyped(row), Accounted(rows, row, o)
  PROVE  /\ Share(rows, row, o) \in Nat
         /\ row.state = "absent" => Share(rows, row, o) = 0
         /\ row.state = "authorized" => Share(rows, row, o) = row.exposure
         /\ row.state \notin {"absent", "authorized"} =>
              /\ Share(rows, row, o) \in {row.attempts, row.observed}
              /\ Share(rows, row, o) >= row.attempts
              /\ Share(rows, row, o) >= row.observed
<1>. DEFINE a == row.attempts
            b == row.observed
            k == KnownCredits(rows, o)
            most == Max({a, b, k})
<1>1. a \in Nat /\ a \in Int /\ b \in Int /\ row.exposure \in Nat
  BY TypedFields
<1>2. k \in Nat /\ k \in Int /\ k <= a
  <2>1. /\ k \in Nat /\ Cardinality(Counted(rows, o)) \in Nat
        /\ k <= Cardinality(Counted(rows, o))
    BY CountTypes, KnownIsCounted
  <2>2. Cardinality(Counted(rows, o)) <= a
    BY <1>1, <2>1 DEF Accounted
  <2>. HIDE DEF k, a
  <2>. QED  BY <1>1, <2>1, <2>2
<1>3. /\ row.state = "absent" => Share(rows, row, o) = 0
      /\ row.state = "authorized" => Share(rows, row, o) = row.exposure
      /\ row.state \notin {"absent", "authorized"} => Share(rows, row, o) = most
  BY DEF Share
<1>. HIDE DEF a, b, k
<1>4. most \in {a, b, k} /\ most >= a /\ most >= b
  BY <1>1, <1>2, MaxOfThree
<1>. HIDE DEF most
<1>5. most \in {a, b} /\ most \in Nat
  BY <1>1, <1>2, <1>4
<1>. QED  BY <1>1, <1>3, <1>4, <1>5 DEF a, b

\* No step but its authorization lets an operation hold more.
LEMMA HeldMoves ==
  ASSUME DailyInv, DailyInv', [Next]_vars, NEW o \in Operations,
         \A n \in 1..MaximumPerBatch : ~Authorize(o, n)
  PROVE  Held(o)' <= Held(o)
<1>. DEFINE h == Share(person, parent[o], o)
            i == Share(person', parent'[o], o)
            c == Cardinality(Counted(person, o))
            d == Cardinality(Counted(person', o))
            k == KnownCredits(person', o)
            e == parent[o].exposure
<1>h. Held(o) = h /\ Held(o)' = i
  BY DEF Held, Share
<1>0. /\ MoneyInv /\ MoneyInv' /\ TypeInv /\ CheapInv'
      /\ Running(o) => parent[o].state = "authorized"
      /\ parent'[o].attempts <= parent'[o].exposure
      /\ parent'[o].observed <= parent'[o].exposure
  BY DEF DailyInv, MoneyInv, PhaseInv, BoundInv, SpentOnce
<1>1. /\ person \in [People -> Reservation] /\ person' \in [People -> Reservation]
      /\ \A p \in People : person[p].observed <= 1
      /\ \A p \in People : person'[p].observed <= 1
  BY DEF DailyInv, MoneyInv, TypeInv, RowsTypeOK, CheapInv
<1>2. /\ ParentTyped(parent[o]) /\ Accounted(person, parent[o], o)
      /\ ParentTyped(parent'[o]) /\ Accounted(person', parent'[o], o)
  BY <1>0, ParentsTyped DEF MoneyInv, AccountInv, ParentInv, ParentTypeInv, ParentTyped
<1>3. /\ h \in Nat
      /\ parent[o].state = "absent" => h = 0
      /\ parent[o].state = "authorized" => h = e
      /\ parent[o].state \notin {"absent", "authorized"} =>
           h \in {parent[o].attempts, parent[o].observed}
           /\ h >= parent[o].attempts /\ h >= parent[o].observed
  BY <1>1, <1>2, ShareValue
<1>4. /\ i \in Nat
      /\ parent'[o].state = "absent" => i = 0
      /\ parent'[o].state = "authorized" => i = parent'[o].exposure
      /\ parent'[o].state \notin {"absent", "authorized"} =>
           i \in {parent'[o].attempts, parent'[o].observed}
  BY <1>1, <1>2, ShareValue
<1>5. /\ c \in Nat /\ d \in Nat /\ k \in Nat /\ k <= d /\ IsFiniteSet(Counted(person, o))
      /\ c <= parent[o].attempts /\ parent[o].attempts \in Nat
      /\ parent[o].observed \in Int /\ Unknown = -1 /\ e \in Nat
  <2>1. /\ c \in Nat /\ d \in Nat /\ k \in Nat /\ IsFiniteSet(Counted(person, o))
    BY <1>1, CountTypes
  <2>2. k <= d
    BY <1>1, KnownIsCounted
  <2>3. /\ parent[o].attempts \in Nat /\ parent[o].observed \in Int /\ Unknown = -1
        /\ e \in Nat
    BY <1>2, TypedFields DEF Unknown
  <2>4. c <= parent[o].attempts
    BY <1>2, <2>1, <2>3 DEF Accounted
  <2>. QED  BY <2>1, <2>2, <2>3, <2>4
<1>6. Counted(person', o) \subseteq Counted(person, o) => d <= c
  BY <1>5, FS_Subset
<1>. HIDE DEF h, i, c, d, k, e
<1>7. ASSUME Steady(o)  PROVE i <= h
  <2>1. /\ parent'[o].state = parent[o].state /\ parent'[o].exposure = e
        /\ Dispatch(o) \/ Counted(person', o) \subseteq Counted(person, o)
        /\ parent'[o].attempts \in {parent[o].attempts, d}
        /\ parent'[o].observed \in {parent[o].observed, k, Unknown}
    BY <1>7 DEF Steady, d, k, e
  <2>2. CASE parent[o].state \in {"absent", "authorized"}
    BY <1>3, <1>4, <1>5, <2>1, <2>2
  <2>3. CASE parent[o].state \notin {"absent", "authorized"}
    <3>1. ~Dispatch(o)
      BY <1>0, <2>3 DEF Dispatch, Running
    <3>2. d <= c
      BY <1>6, <2>1, <3>1
    <3>3. i \in {parent[o].attempts, d, parent[o].observed, k, Unknown}
      BY <1>4, <2>1, <2>3
    <3>4. h >= parent[o].attempts /\ h >= parent[o].observed
      BY <1>3, <2>3
    <3>. QED  BY <1>3, <1>4, <1>5, <3>2, <3>3, <3>4
  <2>. QED  BY <2>2, <2>3
<1>8. ASSUME Advance(o), Complete(o) \/ Fail(o)  PROVE i <= h
  <2>1. parent[o].state = "authorized" /\ h = e
    BY <1>0, <1>3, <1>8, AdvanceRuns
  <2>2. /\ parent'[o].exposure = e
        /\ parent'[o].state \in {"authorized", "completed", "failed"}
    <3>1. RowsTypeOK'
      BY <1>0 DEF MoneyInv, TypeInv
    <3>. QED  BY <1>0, <1>8, <2>1, <3>1, CompleteRow, FailRow DEF Bounded, e
  <2>3. parent'[o].attempts <= e /\ parent'[o].observed <= e
    BY <1>0, <2>2
  <2>. QED  BY <1>4, <2>1, <2>2, <2>3
<1>. QED  BY <1>0, <1>7, <1>8, <1>h, WhoSteps

LEMMA SharesType ==
  ASSUME DailyInv
  PROVE  /\ [o \in Operations |-> Held(o)] \in [Operations -> Nat]
         /\ HeldToday = ExternalSpend + Total([o \in Operations |-> Held(o)])
         /\ Total([o \in Operations |-> Held(o)]) \in Nat
         /\ HeldToday \in Nat
BY HeldType DEF DailyInv, MoneyInv, HeldToday

\* An operation that is absent holds nothing, and one that is authorized its exposure.
LEMMA HeldByState ==
  ASSUME NEW o \in Operations
  PROVE  /\ parent[o].state = "absent" => Held(o) = 0
         /\ parent[o].state = "authorized" => Held(o) = parent[o].exposure
BY DEF Held

LEMMA AllowanceStep ==
  ASSUME DailyInv, DailyInv', WithinDailyAllowance, [Next]_vars
  PROVE  WithinDailyAllowance'
<1>. DEFINE f == [q \in Operations |-> Held(q)]
            g == [q \in Operations |-> Held(q)']
            limit == Max({MaximumPerDay, ExternalSpend})
<1>1. /\ f \in [Operations -> Nat] /\ g \in [Operations -> Nat]
      /\ IsFiniteSet(Operations) /\ Total(f) \in Nat /\ Total(g) \in Nat
      /\ HeldToday = ExternalSpend + Total(f) /\ HeldToday' = ExternalSpend + Total(g)
      /\ ExternalSpend \in Nat /\ MaximumPerDay \in Nat
  <2>1. /\ f \in [Operations -> Nat] /\ Total(f) \in Nat
        /\ HeldToday = ExternalSpend + Total(f)
    BY SharesType
  <2>2. g \in [Operations -> Nat]
    <3>1. /\ person' \in [People -> Reservation]
          /\ \A p \in People : person'[p].observed <= 1
      BY DEF DailyInv, MoneyInv, TypeInv, RowsTypeOK, CheapInv
    <3>2. ASSUME NEW q \in Operations  PROVE g[q] \in Nat
      <4>1. ParentTyped(parent'[q]) /\ Accounted(person', parent'[q], q)
        BY DEF DailyInv, MoneyInv, AccountInv, ParentInv, ParentTypeInv, ParentTyped
      <4>2. Share(person', parent'[q], q) \in Nat
        BY <3>1, <4>1, ShareValue
      <4>. QED  BY <4>2 DEF Held, Share
    <3>. QED  BY <3>2
  <2>3. IsFiniteSet(Operations)
    BY DiscoveryAssumption
  <2>4. HeldToday' = ExternalSpend + Total(g)
    BY DEF HeldToday
  <2>. HIDE DEF g
  <2>5. Total(g) \in Nat
    BY <2>2, <2>3, UnitsAreFinite
  <2>. QED  BY <2>1, <2>2, <2>3, <2>4, <2>5, DiscoveryAssumption
<1>2. limit \in Int /\ limit >= MaximumPerDay /\ HeldToday <= limit
  <2>1. MaximumPerDay \in Int /\ ExternalSpend \in Int
    BY <1>1
  <2>. QED  BY <2>1, MaxOfTwo DEF WithinDailyAllowance
<1>3. \A q \in Operations : f[q] = Held(q) /\ g[q] = Held(q)'
  OBVIOUS
<1>. SUFFICES HeldToday' <= limit
  BY DEF WithinDailyAllowance
<1>. HIDE DEF f, g, limit
<1>4. ASSUME NEW o \in Operations, NEW n \in 1..MaximumPerBatch, Authorize(o, n)
      PROVE  HeldToday' <= limit
  <2>1. /\ parent'[o].state = "authorized" /\ parent'[o].exposure \in Nat
        /\ parent'[o].exposure <= Remaining /\ person' = person
        /\ \A q \in Operations : q # o => parent'[q] = parent[q]
        /\ parent[o].state = "absent"
    BY <1>4, Authorized DEF DailyInv
  <2>2. f[o] = 0 /\ g[o] = parent'[o].exposure
    BY <1>3, <2>1, HeldByState DEF Held
  <2>3. \A q \in Operations \ {o} : f[q] = g[q]
    BY <1>3, <2>1 DEF Held
  <2>4. Total(g) = (Total(f) - f[o]) + g[o]
    BY <1>1, <2>3, TotalChanges
  <2>5. Remaining = MaximumPerDay - HeldToday
    BY DEF Remaining
  <2>. QED  BY <1>1, <1>2, <2>1, <2>2, <2>4, <2>5
<1>5. ASSUME \A o \in Operations, n \in 1..MaximumPerBatch : ~Authorize(o, n)
      PROVE  HeldToday' <= limit
  <2>1. \A o \in Operations : g[o] <= f[o]
    BY <1>3, <1>5, HeldMoves
  <2>2. Total(g) <= Total(f)
    BY <1>1, <2>1, TotalGrows
  <2>. QED  BY <1>1, <1>2, <2>2
<1>. QED  BY <1>4, <1>5

LEMMA DailyInit == Init => DailyInv /\ WithinDailyAllowance
<1>. SUFFICES ASSUME Init  PROVE DailyInv /\ WithinDailyAllowance
  OBVIOUS
<1>1. MoneyInv
  <2>1. IInv
    BY InvInit
  <2>. QED  BY <2>1, AccountInit DEF IInv, MoneyInv
<1>2. CheapInv
  BY DEF Init, CheapInv, NoReservation, Unknown
<1>3. ASSUME NEW q \in Operations
      PROVE  Children(person, q) = {} /\ Cardinality(Counted(person, q)) = 0
  <2>1. Children(person, q) = {}
    BY DiscoveryAssumption DEF Init, NoReservation, Children
  <2>. QED  BY <2>1, NobodyCounts
<1>4. ASSUME NEW q \in Operations
      PROVE  /\ run[q].pc = "idle" /\ run[q].attempts = 0 /\ run[q].observed = 0
             /\ parent[q].state = "absent" /\ parent[q].attempts = 0
             /\ parent[q].exposure = 0 /\ parent[q].observed = -1
  BY DEF Init, Ready, Unknown
<1>5. PhaseInv
  <2>1. ASSUME NEW q \in Operations
        PROVE  /\ ~Running(q)
               /\ parent[q].state = "absent"
               /\ Children(person, q) = {}
               /\ parent[q].attempts = 0 /\ parent[q].observed <= 0
    BY <1>3, <1>4 DEF Running
  <2>. QED  BY <2>1 DEF PhaseInv
<1>6. BoundInv
  <2>1. ASSUME NEW q \in Operations  PROVE SpentOnce(q)
    BY <1>3, <1>4 DEF SpentOnce, Running
  <2>. QED  BY <2>1 DEF BoundInv
<1>7. DailyInv
  BY <1>1, <1>2, <1>5, <1>6 DEF DailyInv
<1>. DEFINE held == [o \in Operations |-> Held(o)]
<1>8. ASSUME NEW q \in Operations  PROVE held[q] = 0
  BY <1>4, HeldByState
<1>9. held \in [Operations -> Nat] /\ HeldToday = ExternalSpend + Total(held)
  BY <1>7, SharesType
<1>. HIDE DEF held
<1>10. Total(held) = 0
  BY <1>8, <1>9, TotalOfNothing
<1>11. WithinDailyAllowance
  <2>1. ExternalSpend \in Int /\ MaximumPerDay \in Int
    BY DiscoveryAssumption
  <2>2. Max({MaximumPerDay, ExternalSpend}) >= ExternalSpend
    BY <2>1, MaxOfTwo
  <2>. QED  BY <1>9, <1>10, <2>1, <2>2 DEF WithinDailyAllowance
<1>. QED  BY <1>7, <1>11

LEMMA DailyStep ==
  ASSUME MaxCost <= 1, IInv', MoneyInv', DailyInv, [Next]_vars
  PROVE  DailyInv'
<1>1. TypeInv /\ CheapInv /\ RowsTypeOK'
  BY DEF DailyInv, MoneyInv, TypeInv, IInv
<1>2. CheapInv'
  BY <1>1, CheapStep
<1>. QED  BY <1>1, <1>2, PhaseStep, BoundStep DEF DailyInv

LEMMA DailyInvariance ==
  ASSUME MaxCost <= 1
  PROVE  Spec => [](IInv /\ DailyInv /\ WithinDailyAllowance)
<1>1. Init => DailyInv /\ WithinDailyAllowance
  BY DailyInit
<1>2. IInv' /\ MoneyInv' /\ DailyInv /\ [Next]_vars => DailyInv'
  BY DailyStep
<1>3. DailyInv /\ DailyInv' /\ WithinDailyAllowance /\ [Next]_vars => WithinDailyAllowance'
  BY AllowanceStep
<1>. QED  BY <1>1, <1>2, <1>3, Invariance, AccountInvariance, PTL DEF Spec

\* However many operations authorize, fail, crash and settle late, what they hold and
\* what was spent outside stay within the allowance of the day, when no lookup costs
\* more than one credit.
THEOREM AllowanceIsKept == ASSUME MaxCost <= 1 PROVE Spec => []WithinDailyAllowance
BY DailyInvariance, PTL

-----------------------------------------------------------------------------
(* What Apollo charges.  A charge needs a lookup on the wire, whose row      *)
(* awaits the outcome and is counted; the row is not freed while the lookup  *)
(* is on the wire or once it was charged.                                    *)

SpentInv == spent \in [Operations -> Nat]

ChargingInv == TypeInv /\ CallInv /\ SpentInv /\ ChargeInv /\ WireInv

\* A lookup on the wire: its discovery waits for it, or gave it up.
OnTheWire(o, p) ==
  \/ run[o].pc = "call" /\ run[o].call = "pending" /\ p = run[o].current
  \/ <<o, p>> \in stray

\* A lookup of p for o is charged, and leaves the wire.
Served(o, p, cost) ==
  /\ p \in People /\ cost \in 0..MaxCost
  /\ AwaitsOutcome(person[p], o) /\ actual[p] = 0
  /\ person' = person /\ ~OnTheWire(o, p)'
  /\ actual' = [actual EXCEPT ![p] = cost]
  /\ spent' = [spent EXCEPT ![o] = @ + cost]

\* Apollo charges what is on the wire, and nothing else changes what was charged but the
\* dispatch of a reservation that was never attempted.
LEMMA ChargesMove ==
  ASSUME ChargingInv, [Next]_vars
  PROVE  \/ UNCHANGED <<actual, spent>>
         \/ /\ spent' = spent
            /\ \E p \in People : /\ person[p].lifecycle = "reserved-never-attempted"
                                 /\ actual' = [actual EXCEPT ![p] = 0]
         \/ \E o \in Operations, p \in People, cost \in 0..MaxCost : Served(o, p, cost)
<1>0. /\ run \in [Operations -> Run]
      /\ \A o \in Operations : run[o].pc = "call" => run[o].current \in People
  BY DEF ChargingInv, TypeInv
<1>1. ASSUME NEW o \in Operations, Begin(o) \/ Advance(o), ~Dispatch(o)
      PROVE  UNCHANGED <<actual, spent>>
  <2>1. ASSUME NEW n, Authorize(o, n) \/ Search(o, n) \/ SearchFails(o, n)
        PROVE  UNCHANGED <<actual, spent>>
    BY <2>1 DEF Authorize, Search, SearchFails, apollo
  <2>2. ASSUME NEW n, ClaimPerson(o, n) \/ LocalFailure(o, n) \/ AnswerUsable(o, n)
        PROVE  UNCHANGED <<actual, spent>>
    BY <2>2 DEF ClaimPerson, LocalFailure, AnswerUsable, apollo
  <2>3. CASE ClaimFails(o) \/ Exhaust(o) \/ AnswerExceeds(o) \/ AnswerUncertain(o)
    BY <2>3 DEF ClaimFails, Exhaust, AnswerExceeds, AnswerUncertain, apollo
  <2>4. CASE Complete(o) \/ CompleteFails(o) \/ Fail(o)
    BY <2>4 DEF Complete, CompleteFails, Fail, apollo
  <2>. QED  BY <1>1, <2>1, <2>2, <2>3, <2>4 DEF Begin, Advance
<1>2. ASSUME NEW o \in Operations, Dispatch(o)
      PROVE  /\ spent' = spent
             /\ \E p \in People : /\ person[p].lifecycle = "reserved-never-attempted"
                                  /\ actual' = [actual EXCEPT ![p] = 0]
  <2>1. run[o].current \in People
    BY <1>2 DEF Dispatch, ChargingInv, TypeInv
  <2>. QED  BY <1>2, <2>1 DEF Dispatch, HeldUnattempted
<1>3. CASE Operator
  BY <1>3 DEF Operator, ResumeRetained, SafeRelease, RecordConsumption, apollo
<1>4. ASSUME NEW o \in Operations, NEW cost \in 0..MaxCost, ApolloServes(o, cost)
      PROVE  Served(o, run[o].current, cost) /\ run[o].current \in People
  <2>1. run'[o].call = "served" /\ run[o].pc = "call" /\ run[o].current \in People
    BY <1>0, <1>4 DEF ApolloServes, Run
  <2>2. <<o, run[o].current>> \notin stray
    BY <2>1 DEF ChargingInv, WireInv
  <2>3. ~OnTheWire(o, run[o].current)'
    BY <1>4, <2>1, <2>2 DEF OnTheWire, ApolloServes
  <2>. QED
    BY <1>4, <2>1, <2>3 DEF ApolloServes, Served, ChargingInv, CallInv, WireInv, store
<1>5. ASSUME NEW o \in Operations, NEW p \in People, NEW cost \in 0..MaxCost,
             StraySettles(o, p, cost)
      PROVE  Served(o, p, cost)
  <2>1. run[o].pc \in {"failing", "done"} /\ run' = run
    BY <1>5 DEF StraySettles, ChargingInv, WireInv
  <2>2. ~OnTheWire(o, p)'
    BY <1>5, <2>1 DEF OnTheWire, StraySettles
  <2>. QED  BY <1>5, <2>2 DEF StraySettles, Served, ChargingInv, WireInv, store
<1>6. ASSUME NEW p \in People, GrowsStale(p)
      PROVE  UNCHANGED <<actual, spent>>
  BY <1>6 DEF GrowsStale, apollo
<1>7. CASE World
  BY <1>4, <1>5, <1>6, <1>7 DEF World
<1>8. CASE Crash \/ UNCHANGED vars
  BY <1>8 DEF Crash, vars, apollo
<1>. QED  BY <1>1, <1>2, <1>3, <1>7, <1>8 DEF Next

\* A discovery frees nobody who is being looked up.
LEMMA NobodyFreed ==
  ASSUME RowsTypeOK, NEW q \in Operations, Begin(q) \/ Advance(q), NEW p \in People,
         person[p].lifecycle = "reconciliation-required"
  PROVE  person'[p].lifecycle # "released-no-consumption"
<1>. person \in [People -> Reservation] /\ person[p] \in Reservation
  BY DEF RowsTypeOK
<1>0. /\ Attempted(person[p]).lifecycle # "released-no-consumption"
      /\ Uncertain(person[p]).lifecycle # "released-no-consumption"
      /\ Imported(person[p]).lifecycle # "released-no-consumption"
      /\ \A n, b : Usable(person[p], n, b).lifecycle # "released-no-consumption"
  BY DEF Attempted, Uncertain, Imported, Usable, Reservation
<1>1. ASSUME NEW r, NEW row, Settle(r, row, q),
             r = p => row.lifecycle # "released-no-consumption"
      PROVE  person'[p].lifecycle # "released-no-consumption"
  BY <1>1 DEF Settle
<1>2. ASSUME NEW r, NEW row, Annotate(r, row, q),
             r = p => row.lifecycle # "released-no-consumption"
      PROVE  person'[p].lifecycle # "released-no-consumption"
  BY <1>1, <1>2 DEF Annotate
<1>3. ASSUME NEW n, Authorize(q, n) \/ Search(q, n) \/ SearchFails(q, n)
      PROVE  person'[p] = person[p]
  BY <1>3 DEF Authorize, Search, SearchFails, store
<1>4. ASSUME NEW r \in People, ClaimPerson(q, r)
      PROVE  person'[p] = person[p]
  BY <1>4 DEF ClaimPerson, Claimable
<1>5. ASSUME Dispatch(q)
      PROVE  person'[p].lifecycle # "released-no-consumption"
  BY <1>0, <1>1, <1>5 DEF Dispatch
<1>6. ASSUME NEW n, LocalFailure(q, n)
      PROVE  person'[p].lifecycle # "released-no-consumption"
  <2>1. CASE HeldUnattempted(person[run[q].current], q)
    BY <1>1, <1>6, <2>1 DEF LocalFailure, HeldUnattempted
  <2>. QED  BY <1>6, <2>1 DEF LocalFailure
<1>7. ASSUME NEW n, AnswerUsable(q, n)
      PROVE  person'[p].lifecycle # "released-no-consumption"
  <2>. DEFINE r == run[q].current
  <2>1. CASE Settle(r, Usable(person[r], n, FALSE), q)
    BY <1>0, <1>1, <2>1
  <2>2. CASE Annotate(r, Uncertain(person[r]), q)
    BY <1>0, <1>2, <2>2
  <2>. QED  BY <1>7, <2>1, <2>2 DEF AnswerUsable
<1>8. ASSUME AnswerExceeds(q) \/ AnswerUncertain(q)
      PROVE  person'[p].lifecycle # "released-no-consumption"
  BY <1>0, <1>2, <1>8 DEF AnswerExceeds, AnswerUncertain
<1>9. ASSUME Complete(q)
      PROVE  person'[p].lifecycle # "released-no-consumption"
  BY <1>0, <1>9 DEF Complete, ImportedRows
<1>10. ASSUME Exhaust(q) \/ CompleteFails(q) \/ ClaimFails(q) \/ Fail(q)
       PROVE  person'[p] = person[p]
  BY <1>10 DEF Exhaust, CompleteFails, ClaimFails, Fail, store
<1>. QED
  BY <1>3, <1>4, <1>5, <1>6, <1>7, <1>8, <1>9, <1>10 DEF Begin, Advance

\* An operator who waits for the outcome releases only what was not charged.
LEMMA ReleaseIsFree ==
  ASSUME ~HastyOperator, RowsTypeOK, [Next]_vars, NEW p \in People,
         person[p].lifecycle = "reconciliation-required",
         person'[p].lifecycle = "released-no-consumption"
  PROVE  actual'[p] = 0
<1>. person \in [People -> Reservation] /\ person[p] \in Reservation
  BY DEF RowsTypeOK
<1>1. ASSUME NEW r \in People, NEW row, Settle(r, row, person[r].owner), r # p
      PROVE  FALSE
  BY <1>1 DEF Settle
<1>2. ASSUME NEW r \in People, ResumeRetained(r)
      PROVE  FALSE
  BY <1>1, <1>2 DEF ResumeRetained, MayResume
<1>3. ASSUME NEW r \in People, NEW n, RecordConsumption(r, n)
      PROVE  FALSE
  <2>1. CASE r = p
    <3>1. person'[p] = Consumed(person[p], n)
      BY <1>3, <2>1 DEF RecordConsumption, Settle
    <3>. QED  BY <3>1 DEF Consumed, Reservation
  <2>. QED  BY <1>1, <1>3, <2>1 DEF RecordConsumption
<1>4. ASSUME NEW r \in People, SafeRelease(r)
      PROVE  actual'[p] = 0
  <2>1. r = p /\ actual' = actual
    BY <1>1, <1>4 DEF SafeRelease, apollo
  <2>. QED  BY <1>4, <2>1 DEF SafeRelease, Evident
<1>5. CASE World
  <2>1. ASSUME NEW r \in People, GrowsStale(r)  PROVE person'[p] = person[p]
    BY <2>1 DEF GrowsStale
  <2>2. \/ person' = person
        \/ \E r \in People : GrowsStale(r)
    BY <1>5 DEF World, ApolloServes, StraySettles, store
  <2>. QED  BY <2>1, <2>2
<1>6. CASE Crash \/ UNCHANGED vars
  BY <1>6 DEF Crash, vars, store
<1>. QED  BY <1>2, <1>3, <1>4, <1>5, <1>6, NobodyFreed DEF Next, Operator

\* What ChargeInv says of one row.
ChargeOK(row, charged) ==
  /\ row.lifecycle \in {"absent", "reserved-never-attempted"} => ~row.attempted
  /\ row.lifecycle = "reconciliation-required" => row.attempted
  /\ row.lifecycle = "released-no-consumption" /\ row.attempted => charged = 0

LEMMA ChargeOfRows ==
  ASSUME NEW row \in Reservation, NEW was, ChargeOK(row, was), NEW charged,
         NEW n, NEW b, NEW o
  PROVE  /\ ChargeOK(Claimed(row, o), charged)
         /\ ChargeOK(Attempted(row), charged)
         /\ row.lifecycle = "reserved-never-attempted" =>
              /\ ChargeOK(ReleasedUnattempted(row), charged)
              /\ ChargeOK([row EXCEPT !.stale = TRUE], charged)
         /\ row.lifecycle = "reconciliation-required" => ChargeOK(Uncertain(row), charged)
         /\ ChargeOK(Usable(row, n, b), charged)
         /\ ChargeOK(SafelyReleased(row), 0)
         /\ ChargeOK(Consumed(row, n), charged)
         /\ ChargeOK(Imported(row), charged)
<1>1. ChargeOK(Claimed(row, o), charged)
  BY DEF ChargeOK, Claimed, Reservation
<1>2. ChargeOK(Attempted(row), charged)
  BY DEF ChargeOK, Attempted, Reservation
<1>3. ASSUME row.lifecycle = "reserved-never-attempted"
      PROVE  /\ ChargeOK(ReleasedUnattempted(row), charged)
             /\ ChargeOK([row EXCEPT !.stale = TRUE], charged)
  <2>1. row.attempted = FALSE
    BY <1>3 DEF ChargeOK, Reservation
  <2>2. ReleasedUnattempted(row).attempted = FALSE
    BY <2>1 DEF ReleasedUnattempted, Reservation
  <2>3. ReleasedUnattempted(row).lifecycle = "released-no-consumption"
    BY DEF ReleasedUnattempted, Reservation
  <2>4. [row EXCEPT !.stale = TRUE].attempted = FALSE
    BY <2>1 DEF Reservation
  <2>5. [row EXCEPT !.stale = TRUE].lifecycle = "reserved-never-attempted"
    BY <1>3 DEF Reservation
  <2>. QED  BY <2>2, <2>3, <2>4, <2>5, Zenon DEF ChargeOK
<1>4. ASSUME row.lifecycle = "reconciliation-required"
      PROVE  ChargeOK(Uncertain(row), charged)
  <2>1. Uncertain(row).lifecycle = row.lifecycle
    BY DEF Uncertain, Reservation
  <2>2. Uncertain(row).attempted = row.attempted
    BY DEF Uncertain, Reservation
  <2>. QED  BY <1>4, <2>1, <2>2, Zenon DEF ChargeOK
<1>5. ChargeOK(Usable(row, n, b), charged)
  BY DEF ChargeOK, Usable, Reservation
<1>6. ChargeOK(SafelyReleased(row), 0)
  BY DEF ChargeOK, SafelyReleased, Reservation
<1>7. ChargeOK(Consumed(row, n), charged) /\ ChargeOK(Imported(row), charged)
  BY DEF ChargeOK, Consumed, Imported, Reservation
<1>. QED  BY <1>1, <1>2, <1>3, <1>4, <1>5, <1>6, <1>7

LEMMA ChargeStep ==
  ASSUME ~HastyOperator, ChargingInv, [Next]_vars
  PROVE  ChargeInv'
<1>. SUFFICES ASSUME NEW p \in People
              PROVE  ChargeOK(person'[p], actual'[p])
  BY DEF ChargeInv, ChargeOK
<1>. DEFINE row == person[p]
            next == person'[p]
<1>1. /\ OneRow(p) /\ row \in Reservation /\ RowsTypeOK
      /\ ChargeOK(row, actual[p]) /\ actual \in [People -> Nat]
  BY EveryStepMoves, EachRow DEF ChargingInv, TypeInv, ChargeInv, ChargeOK
<1>2. \/ actual'[p] = actual[p]
      \/ actual'[p] = 0
      \/ next = row /\ row.lifecycle = "reconciliation-required"
  <2>1. ASSUME NEW q \in People, actual' = [actual EXCEPT ![q] = 0]
        PROVE  actual'[p] = actual[p] \/ actual'[p] = 0
    BY <1>1, <2>1
  <2>2. ASSUME NEW q \in People, NEW o, NEW cost, Served(o, q, cost)
        PROVE  \/ actual'[p] = actual[p]
               \/ next = row /\ row.lifecycle = "reconciliation-required"
    BY <1>1, <2>2 DEF Served, AwaitsOutcome
  <2>. QED  BY <2>1, <2>2, ChargesMove
<1>3. CASE next = row
  <2>1. /\ row.lifecycle \in {"absent", "reserved-never-attempted"} => ~row.attempted
        /\ row.lifecycle = "reconciliation-required" => row.attempted
        /\ row.lifecycle = "released-no-consumption" /\ row.attempted => actual[p] = 0
    BY <1>1 DEF ChargeOK
  <2>2. row.lifecycle = "released-no-consumption" /\ row.attempted => actual'[p] = 0
    BY <1>2, <2>1
  <2>. QED  BY <1>3, <2>1, <2>2, Zenon DEF ChargeOK
<1>4. ASSUME NEW o, Claimable(row), next = Claimed(row, o)
      PROVE  ChargeOK(next, actual'[p])
  BY <1>1, <1>4, ChargeOfRows
<1>5. CASE /\ row.lifecycle = "reserved-never-attempted"
           /\ next \in {Attempted(row), ReleasedUnattempted(row), [row EXCEPT !.stale = TRUE]}
  BY <1>1, <1>5, ChargeOfRows
<1>6. CASE row.lifecycle = "reconciliation-required" /\ next = Uncertain(row)
  BY <1>1, <1>6, ChargeOfRows
<1>7. ASSUME NEW n, NEW b, next = Usable(row, n, b)
      PROVE  ChargeOK(next, actual'[p])
  BY <1>1, <1>7, ChargeOfRows
<1>8. CASE MayRelease(row) /\ next = SafelyReleased(row)
  <2>1. /\ row.lifecycle = "reconciliation-required"
        /\ next.lifecycle = "released-no-consumption"
    BY <1>1, <1>8 DEF MayRelease, SafelyReleased, Reservation
  <2>2. actual'[p] = 0
    BY <1>1, <2>1, ReleaseIsFree
  <2>3. ChargeOK(SafelyReleased(row), 0)
    BY <1>1, ChargeOfRows
  <2>. QED  BY <1>8, <2>2, <2>3
<1>9. ASSUME NEW n, next = Consumed(row, n)
      PROVE  ChargeOK(next, actual'[p])
  BY <1>1, <1>9, ChargeOfRows
<1>10. CASE next = Imported(row)
  BY <1>1, <1>10, ChargeOfRows
<1>. QED
  BY <1>1, <1>3, <1>4, <1>5, <1>6, <1>7, <1>8, <1>9, <1>10 DEF OneRow, RowChange


\* What a discovery may do while its lookup is on the wire, and after it gave up.
LEMMA OnlyStep ==
  ASSUME NEW o \in Operations, Begin(o) \/ Advance(o)
  PROVE  /\ run[o].pc \in {"failing", "done"} => Fail(o)
         /\ run[o].pc = "call" /\ run[o].call = "pending" => AnswerUncertain(o)
<1>. SUFFICES ASSUME \/ run[o].pc \in {"failing", "done"}
                     \/ run[o].pc = "call" /\ run[o].call = "pending"
              PROVE  Fail(o) \/ AnswerUncertain(o)
  BY DEF Fail, AnswerUncertain
<1>1. \A n : ~Authorize(o, n) /\ ~Search(o, n) /\ ~SearchFails(o, n)
  BY DEF Authorize, Search, SearchFails
<1>2. \A n : ~ClaimPerson(o, n) /\ ~LocalFailure(o, n) /\ ~AnswerUsable(o, n)
  BY DEF ClaimPerson, LocalFailure, AnswerUsable
<1>3. ~ClaimFails(o) /\ ~Exhaust(o) /\ ~Dispatch(o) /\ ~AnswerExceeds(o)
  BY DEF ClaimFails, Exhaust, Dispatch, AnswerExceeds
<1>4. ~Complete(o) /\ ~CompleteFails(o)
  BY DEF Complete, CompleteFails
<1>. QED  BY <1>1, <1>2, <1>3, <1>4 DEF Begin, Advance

\* A lookup on the wire keeps its row, whoever else steps.
LEMMA WireAwaits ==
  ASSUME ~HastyOperator, ChargingInv, [Next]_vars, NEW o \in Operations, NEW p \in People,
         OnTheWire(o, p)
  PROVE  AwaitsOutcome(person'[p], o)
<1>1. /\ AwaitsOutcome(person[p], o) /\ InFlight(p) /\ RowsTypeOK
      /\ \/ run[o].pc \in {"failing", "done"}
         \/ run[o].pc = "call" /\ run[o].call = "pending" /\ p = run[o].current
  <2>1. RowsTypeOK
    BY DEF ChargingInv, TypeInv
  <2>2. CASE <<o, p>> \in stray
    BY <2>1, <2>2 DEF ChargingInv, WireInv, InFlight
  <2>3. CASE run[o].pc = "call" /\ run[o].call = "pending" /\ p = run[o].current
    BY <2>1, <2>3 DEF ChargingInv, CallInv, InFlight
  <2>. QED  BY <2>2, <2>3 DEF OnTheWire
<1>. person \in [People -> Reservation]
  BY <1>1 DEF RowsTypeOK
<1>2. ASSUME Begin(o) \/ Advance(o)
      PROVE  AwaitsOutcome(person'[p], o)
  <2>1. Fail(o) \/ (AnswerUncertain(o) /\ p = run[o].current)
    BY <1>1, <1>2, OnlyStep
  <2>2. CASE Fail(o)
    BY <1>1, <2>2 DEF Fail
  <2>3. CASE AnswerUncertain(o) /\ p = run[o].current
    <3>1. Annotate(p, Uncertain(person[p]), o)
      BY <1>1, <2>3 DEF AnswerUncertain
    <3>2. CASE person'[p] = Uncertain(person[p])
      BY <1>1, <3>2 DEF Uncertain, AwaitsOutcome, Reservation
    <3>. QED  BY <1>1, <3>1, <3>2 DEF Annotate, Settle
  <2>. QED  BY <2>1, <2>2, <2>3
<1>3. ASSUME NEW q \in Operations, q # o, Begin(q) \/ Advance(q)
      PROVE  AwaitsOutcome(person'[p], o)
  BY <1>1, <1>3, OthersLeaveAlone
<1>4. CASE Operator
  <2>2. ASSUME NEW r \in People, NEW row, Settle(r, row, person[r].owner), r # p
        PROVE  person'[p] = person[p]
    BY <2>2 DEF Settle
  <2>3. ASSUME NEW r \in People, ResumeRetained(r)  PROVE person'[p] = person[p]
    BY <1>1, <2>2, <2>3 DEF ResumeRetained, MayResume, AwaitsOutcome
  <2>4. ASSUME NEW r \in People, SafeRelease(r)  PROVE person'[p] = person[p]
    BY <1>1, <2>2, <2>4 DEF SafeRelease, Evident
  <2>5. ASSUME NEW r \in People, NEW n, RecordConsumption(r, n)
        PROVE  person'[p] = person[p]
    BY <1>1, <2>2, <2>5 DEF RecordConsumption, Evident
  <2>. QED  BY <1>1, <1>4, <2>3, <2>4, <2>5 DEF Operator
<1>5. CASE World
  BY <1>1, <1>5 DEF World, ApolloServes, StraySettles, GrowsStale, store, AwaitsOutcome
<1>6. CASE Crash \/ UNCHANGED vars
  BY <1>1, <1>6 DEF Crash, vars, store
<1>. QED  BY <1>2, <1>3, <1>4, <1>5, <1>6 DEF Next

\* What a discovery gave up was on the wire before.
LEMMA StrayMoves ==
  ASSUME ChargingInv, [Next]_vars, NEW o \in Operations, NEW p \in People,
         <<o, p>> \in stray'
  PROVE  /\ OnTheWire(o, p)
         /\ run'[o].pc \in {"failing", "done"}
<1>0. /\ run \in [Operations -> Run]
      /\ \A q \in Operations, r \in People :
           <<q, r>> \in stray => run[q].pc \in {"failing", "done"}
      /\ TypeInv
  BY DEF ChargingInv, TypeInv, WireInv
<1>1. ASSUME <<o, p>> \in stray
      PROVE  /\ OnTheWire(o, p)
             /\ run'[o].pc \in {"failing", "done"}
  <2>1. run[o].pc \in {"failing", "done"}
    BY <1>0, <1>1
  <2>2. ASSUME Begin(o) \/ Advance(o)  PROVE run'[o].pc = "done"
    <3>1. Fail(o)
      BY <2>1, <2>2, OnlyStep
    <3>. QED  BY <1>0, <3>1, EndedType DEF Fail
  <2>3. ASSUME ~(Begin(o) \/ Advance(o))  PROVE run'[o].pc \in {"failing", "done"}
    BY <1>0, <2>1, <2>3, RunStays
  <2>. QED  BY <1>1, <2>1, <2>2, <2>3 DEF OnTheWire
<1>2. ASSUME NEW q \in Operations, AnswerUncertain(q), <<o, p>> \notin stray
      PROVE  /\ OnTheWire(o, p)
             /\ run'[o].pc \in {"failing", "done"}
  <2>1. /\ run[q].pc = "call" /\ run[q].call = "pending" /\ q = o /\ p = run[q].current
        /\ GiveUp(q, Unknown)
    BY <1>2 DEF AnswerUncertain
  <2>2. Unknown \in Nat \cup {Unknown}
    OBVIOUS
  <2>3. run'[o].pc = "failing"
    BY <1>0, <2>1, <2>2, GiveUpType
  <2>. QED  BY <1>0, <2>1, <2>3 DEF OnTheWire
<1>3. ASSUME Crash, <<o, p>> \notin stray
      PROVE  /\ OnTheWire(o, p)
             /\ run'[o].pc \in {"failing", "done"}
  <2>1. /\ run[o].pc = "call" /\ run[o].call = "pending" /\ p = run[o].current
        /\ run'[o] = Ended
    BY <1>3 DEF Crash
  <2>. QED  BY <1>0, <2>1, EndedType DEF OnTheWire
<1>4. ASSUME NEW q \in Operations, Begin(q) \/ Advance(q), ~AnswerUncertain(q)
      PROVE  stray' = stray
  <2>1. ASSUME NEW n, Authorize(q, n) \/ Search(q, n) \/ SearchFails(q, n)
        PROVE  stray' = stray
    BY <2>1 DEF Authorize, Search, SearchFails, apollo
  <2>2. ASSUME NEW n, ClaimPerson(q, n) \/ LocalFailure(q, n) \/ AnswerUsable(q, n)
        PROVE  stray' = stray
    BY <2>2 DEF ClaimPerson, LocalFailure, AnswerUsable, apollo
  <2>3. CASE ClaimFails(q) \/ Exhaust(q) \/ AnswerExceeds(q) \/ Dispatch(q)
    BY <2>3 DEF ClaimFails, Exhaust, AnswerExceeds, Dispatch, apollo
  <2>4. CASE Complete(q) \/ CompleteFails(q) \/ Fail(q)
    BY <2>4 DEF Complete, CompleteFails, Fail, apollo
  <2>. QED  BY <1>4, <2>1, <2>2, <2>3, <2>4 DEF Begin, Advance
<1>5. CASE Operator
  <2>1. stray' = stray
    BY <1>5 DEF Operator, ResumeRetained, SafeRelease, RecordConsumption, apollo
  <2>. QED  BY <1>1, <2>1
<1>6. CASE World
  <2>1. stray' \subseteq stray
    BY <1>6 DEF World, ApolloServes, StraySettles, GrowsStale, apollo
  <2>. QED  BY <1>1, <2>1
<1>7. CASE UNCHANGED vars
  BY <1>1, <1>7 DEF vars, apollo
<1>. QED  BY <1>1, <1>2, <1>3, <1>4, <1>5, <1>6, <1>7 DEF Next

\* What is on the wire was on the wire before, or is dispatched now.
LEMMA WireMoves ==
  ASSUME ChargingInv, [Next]_vars, NEW o \in Operations, NEW p \in People,
         OnTheWire(o, p)'
  PROVE  OnTheWire(o, p) \/ (Dispatch(o) /\ p = run[o].current)
<1>0. TypeInv /\ run \in [Operations -> Run]
  BY DEF ChargingInv, TypeInv
<1>1. CASE <<o, p>> \in stray'
  BY <1>1, StrayMoves
<1>2. CASE run'[o].pc = "call" /\ run'[o].call = "pending" /\ p = run'[o].current
  <2>1. CASE Begin(o) \/ Advance(o)
    <3>1. Dispatch(o)
      BY <1>0, <1>2, <2>1, CallBegins
    <3>2. run'[o].current = run[o].current
      BY <1>0, <3>1 DEF Dispatch, Run
    <3>. QED  BY <1>2, <3>1, <3>2
  <2>2. CASE ~(Begin(o) \/ Advance(o))
    <3>1. run[o].pc = "call" /\ p = run[o].current
      BY <1>0, <1>2, <2>2, RunStays
    <3>2. run[o].call = "pending"
      <4>1. ASSUME NEW q \in Operations, Begin(q) \/ Advance(q)
            PROVE  run'[o] = run[o]
        BY <1>0, <2>2, <4>1, AdvanceMovesRun DEF RunMove
      <4>2. CASE Operator \/ UNCHANGED vars
        BY <1>2, <4>2
        DEF Operator, ResumeRetained, SafeRelease, RecordConsumption, vars
      <4>3. CASE World
        <5>1. ASSUME NEW q \in Operations, NEW cost, ApolloServes(q, cost)
              PROVE  run[o].call = "pending"
          BY <1>0, <1>2, <5>1 DEF ApolloServes, Run
        <5>2. run' = run \/ \E q \in Operations, cost \in 0..MaxCost : ApolloServes(q, cost)
          BY <4>3 DEF World, StraySettles, GrowsStale
        <5>. QED  BY <1>2, <5>1, <5>2
      <4>4. CASE Crash
        BY <1>2, <3>1, <4>4, EndedType DEF Crash
      <4>. QED  BY <1>2, <4>1, <4>2, <4>3, <4>4 DEF Next
    <3>. QED  BY <3>1, <3>2 DEF OnTheWire
  <2>. QED  BY <2>1, <2>2
<1>. QED  BY <1>1, <1>2 DEF OnTheWire

LEMMA WireStep ==
  ASSUME ~HastyOperator, ChargingInv, [Next]_vars
  PROVE  WireInv'
<1>0. actual \in [People -> Nat] /\ run \in [Operations -> Run]
  BY DEF ChargingInv, TypeInv
<1>1. ASSUME NEW o \in Operations, NEW p \in People, OnTheWire(o, p)'
      PROVE  actual'[p] = 0
  <2>1. CASE Dispatch(o) /\ p = run[o].current
    BY <1>0, <2>1 DEF Dispatch
  <2>2. CASE OnTheWire(o, p)
    <3>1. p \in People /\ actual[p] = 0 /\ AwaitsOutcome(person[p], o)
      BY <1>1, <2>2, WireMoves DEF ChargingInv, WireInv, CallInv, OnTheWire
    <3>2. ASSUME NEW q \in People, actual' = [actual EXCEPT ![q] = 0]
          PROVE  actual'[p] = 0
      BY <1>0, <3>1, <3>2
    <3>3. ASSUME NEW r \in Operations, NEW q \in People, NEW cost \in 0..MaxCost,
                 Served(r, q, cost)
          PROVE  actual'[p] = 0
      <4>1. CASE q = p
        <5>1. r = o
          BY <3>1, <3>3, <4>1 DEF Served, AwaitsOutcome
        <5>. QED  BY <1>1, <3>3, <4>1, <5>1 DEF Served
      <4>2. CASE q # p
        BY <1>0, <3>1, <3>3, <4>2 DEF Served
      <4>. QED  BY <4>1, <4>2
    <3>. QED  BY <3>1, <3>2, <3>3, ChargesMove
  <2>. QED  BY <1>1, <2>1, <2>2, WireMoves
<1>2. ASSUME NEW o \in Operations, run'[o].pc = "call", run'[o].call = "pending"
      PROVE  actual'[run'[o].current] = 0
  <2>1. TypeInv'
    BY TypeStep DEF ChargingInv
  <2>2. run'[o].current \in People
    BY <1>2, <2>1 DEF TypeInv
  <2>3. PICK p \in People : p = run'[o].current
    BY <2>2
  <2>4. OnTheWire(o, p)'
    BY <1>2, <2>3 DEF OnTheWire
  <2>. QED  BY <1>1, <2>3, <2>4
<1>3. ASSUME NEW o \in Operations, NEW p \in People, <<o, p>> \in stray'
      PROVE  /\ AwaitsOutcome(person'[p], o) /\ actual'[p] = 0
             /\ run'[o].pc \in {"failing", "done"}
  <2>1. OnTheWire(o, p)'
    BY <1>3 DEF OnTheWire
  <2>. QED  BY <1>1, <1>3, <2>1, StrayMoves, WireAwaits
<1>. QED  BY <1>2, <1>3 DEF WireInv

LEMMA SpentStep ==
  ASSUME ChargingInv, [Next]_vars
  PROVE  SpentInv'
<1>1. spent \in [Operations -> Nat]
  BY DEF ChargingInv, SpentInv
<1>2. ASSUME NEW o \in Operations, NEW p \in People, NEW cost \in 0..MaxCost,
             Served(o, p, cost)
      PROVE  spent' \in [Operations -> Nat]
  BY <1>1, <1>2, DiscoveryAssumption DEF Served
<1>. QED  BY <1>1, <1>2, ChargesMove DEF SpentInv

\* A charged lookup stays charged to the operation: nobody else can claim the person.
LEMMA ChargedStay ==
  ASSUME ChargingInv, [Next]_vars, NEW o \in Operations
  PROVE  Charged(o) \subseteq Charged(o)'
<1>. SUFFICES ASSUME NEW p \in Charged(o)
              PROVE  p \in Charged(o)'
  OBVIOUS
<1>. DEFINE row == person[p]
            next == person'[p]
<1>1. /\ p \in People /\ row.owner = o /\ row.attempted /\ actual[p] = 1
  BY DEF Charged, Counted, Children
<1>2. /\ OneRow(p) /\ row \in Reservation /\ actual \in [People -> Nat]
  BY <1>1, EveryStepMoves, EachRow DEF ChargingInv, TypeInv
<1>3. ~Claimable(row) /\ row.lifecycle # "reserved-never-attempted"
  <2>1. /\ row.lifecycle \notin {"absent", "reserved-never-attempted"}
        /\ row.lifecycle # "released-no-consumption"
    BY <1>1 DEF ChargingInv, ChargeInv
  <2>. QED  BY <2>1 DEF Claimable
<1>4. next.owner = o
  <2>1. Uncertain(row).owner = o /\ SafelyReleased(row).owner = o /\ Imported(row).owner = o
    BY <1>1, <1>2 DEF Uncertain, SafelyReleased, Imported, Reservation
  <2>2. ASSUME NEW n, NEW b  PROVE Usable(row, n, b).owner = o /\ Consumed(row, n).owner = o
    BY <1>1, <1>2 DEF Usable, Consumed, Reservation
  <2>. QED  BY <1>1, <1>2, <1>3, <2>1, <2>2 DEF OneRow, RowChange
<1>5. next.attempted
  <2>1. /\ Uncertain(row).attempted = row.attempted
        /\ SafelyReleased(row).attempted = row.attempted
        /\ Imported(row).attempted = row.attempted
    BY <1>2 DEF Uncertain, SafelyReleased, Imported, Reservation
  <2>2. ASSUME NEW n, NEW b
        PROVE  /\ Usable(row, n, b).attempted = row.attempted
               /\ Consumed(row, n).attempted = row.attempted
    BY <1>2 DEF Usable, Consumed, Reservation
  <2>3. next.attempted = row.attempted
    BY <1>1, <1>2, <1>3, <2>1, <2>2 DEF OneRow, RowChange
  <2>. QED  BY <1>1, <2>3, Zenon
<1>6. actual'[p] = 1
  <2>1. ASSUME NEW q \in People, person[q].lifecycle = "reserved-never-attempted",
               actual' = [actual EXCEPT ![q] = 0]
        PROVE  actual'[p] = 1
    BY <1>1, <1>2, <1>3, <2>1
  <2>2. ASSUME NEW r \in Operations, NEW q \in People, NEW cost \in 0..MaxCost,
               Served(r, q, cost)
        PROVE  actual'[p] = 1
    BY <1>1, <1>2, <2>2 DEF Served
  <2>. QED  BY <1>1, <2>1, <2>2, ChargesMove
<1>. QED  BY <1>1, <1>4, <1>5, <1>6 DEF Charged, Counted, Children

LEMMA ChargedType ==
  ASSUME NEW rows \in [People -> Reservation], NEW o, NEW S, S \subseteq Counted(rows, o)
  PROVE  /\ IsFiniteSet(S) /\ Cardinality(S) \in Nat
         /\ Cardinality(S) <= Cardinality(Counted(rows, o))
BY CountTypes, FS_Subset, FS_CardinalityType

LEMMA SpendStep ==
  ASSUME MaxCost <= 1, ChargingInv, RowsTypeOK', SpendInv, [Next]_vars
  PROVE  SpendInv'
<1>. SUFFICES ASSUME NEW o \in Operations
              PROVE  spent'[o] <= Cardinality(Charged(o)')
  BY DEF SpendInv
<1>. DEFINE C == Charged(o)
            D == Charged(o)'
<1>1. /\ IsFiniteSet(C) /\ Cardinality(C) \in Nat
      /\ IsFiniteSet(D) /\ Cardinality(D) \in Nat
      /\ C \subseteq D
  <2>1. person \in [People -> Reservation] /\ person' \in [People -> Reservation]
    BY DEF ChargingInv, TypeInv, RowsTypeOK
  <2>2. C \subseteq Counted(person, o) /\ D \subseteq Counted(person', o)
    BY DEF Charged
  <2>3. C \subseteq D
    BY ChargedStay
  <2>. HIDE DEF C, D
  <2>. QED  BY <2>1, <2>2, <2>3, ChargedType
<1>2. spent \in [Operations -> Nat] /\ spent[o] <= Cardinality(C) /\ spent[o] \in Nat
  BY DEF ChargingInv, SpentInv, SpendInv
<1>3. ASSUME NEW p \in People, NEW cost \in 0..MaxCost, Served(o, p, cost), cost = 1
      PROVE  p \in D /\ p \notin C
  <2>1. p \notin C
    BY <1>3 DEF Served, Charged
  <2>2. person'[p].owner = o /\ person'[p].attempted
    BY <1>3 DEF Served, AwaitsOutcome, ChargingInv, ChargeInv
  <2>3. actual'[p] = 1
    BY <1>3 DEF Served, ChargingInv, TypeInv
  <2>. QED  BY <2>1, <2>2, <2>3 DEF Charged, Counted, Children
<1>. HIDE DEF C, D
<1>4. Cardinality(C) <= Cardinality(D)
  BY <1>1, FS_Subset
<1>5. ASSUME NEW p \in D, p \notin C
      PROVE  Cardinality(C) + 1 <= Cardinality(D)
  <2>1. /\ C \cup {p} \subseteq D
    BY <1>1, <1>5
  <2>2. IsFiniteSet(C \cup {p}) /\ Cardinality(C \cup {p}) = Cardinality(C) + 1
    BY <1>1, <1>5, FS_AddElement
  <2>3. Cardinality(C \cup {p}) <= Cardinality(D)
    BY <1>1, <2>1, FS_Subset
  <2>. QED  BY <2>2, <2>3
<1>. SUFFICES spent'[o] <= Cardinality(D)
  BY DEF D
<1>6. ASSUME NEW r \in Operations, NEW p \in People, NEW cost \in 0..MaxCost,
             Served(r, p, cost)
      PROVE  spent'[o] <= Cardinality(D)
  <2>0. cost \in {0, 1}
    BY DiscoveryAssumption
  <2>1. CASE r # o
    <3>1. spent'[o] = spent[o]
      BY <1>2, <1>6, <2>1 DEF Served
    <3>. QED  BY <1>1, <1>2, <1>4, <3>1
  <2>2. CASE r = o /\ cost = 0
    <3>1. spent'[o] = spent[o]
      BY <1>2, <1>6, <2>2 DEF Served
    <3>. QED  BY <1>1, <1>2, <1>4, <3>1
  <2>3. CASE r = o /\ cost = 1
    <3>1. spent'[o] = spent[o] + 1
      BY <1>2, <1>6, <2>3 DEF Served
    <3>2. Cardinality(C) + 1 <= Cardinality(D)
      BY <1>3, <1>5, <1>6, <2>3
    <3>. QED  BY <1>1, <1>2, <3>1, <3>2
  <2>. QED  BY <2>0, <2>1, <2>2, <2>3
<1>7. CASE spent' = spent
  BY <1>1, <1>2, <1>4, <1>7
<1>. QED  BY <1>6, <1>7, ChargesMove

LEMMA SpendInit == Init => CallInv /\ SpentInv /\ ChargeInv /\ WireInv /\ SpendInv
<1>. SUFFICES ASSUME Init  PROVE CallInv /\ SpentInv /\ ChargeInv /\ WireInv /\ SpendInv
  OBVIOUS
<1>1. CallInv /\ SpentInv /\ WireInv
  BY DEF Init, Ready, CallInv, SpentInv, WireInv
<1>2. ChargeInv
  BY DEF Init, NoReservation, ChargeInv
<1>3. ASSUME NEW q \in Operations  PROVE spent[q] <= Cardinality(Charged(q))
  <2>1. person \in [People -> Reservation]
    BY TypeInit DEF TypeInv, RowsTypeOK
  <2>2. Charged(q) \subseteq Counted(person, q)
    BY DEF Charged
  <2>3. Cardinality(Charged(q)) \in Nat
    BY <2>1, <2>2, ChargedType
  <2>. QED  BY <2>3 DEF Init
<1>. QED  BY <1>1, <1>2, <1>3 DEF SpendInv

\* What an operation holds covers the people counted for it.
LEMMA HeldCovers ==
  ASSUME DailyInv, NEW o \in Operations
  PROVE  Cardinality(Counted(person, o)) <= Held(o)
<1>. DEFINE c == Cardinality(Counted(person, o))
            h == Share(person, parent[o], o)
<1>1. /\ person \in [People -> Reservation]
      /\ \A p \in People : person[p].observed <= 1
      /\ ParentTyped(parent[o]) /\ Accounted(person, parent[o], o)
  BY ParentsTyped DEF DailyInv, MoneyInv, TypeInv, RowsTypeOK, CheapInv, AccountInv
<1>2. /\ h \in Nat
      /\ parent[o].state = "absent" => h = 0
      /\ parent[o].state = "authorized" => h = parent[o].exposure
      /\ parent[o].state \notin {"absent", "authorized"} => h >= parent[o].attempts
  BY <1>1, ShareValue
<1>3. c \in Nat /\ parent[o].attempts \in Nat /\ parent[o].exposure \in Nat
  BY <1>1, CountTypes, TypedFields
<1>4. c <= parent[o].attempts
  BY <1>1, <1>3 DEF Accounted
<1>5. c <= parent[o].exposure
  BY DEF DailyInv, BoundInv, SpentOnce
<1>6. parent[o].state = "absent" => c = 0
  BY NobodyCounts DEF DailyInv, PhaseInv
<1>7. Held(o) = h
  BY DEF Held, Share
<1>. HIDE DEF c, h
<1>8. c <= h
  BY <1>2, <1>3, <1>4, <1>5, <1>6
<1>. QED  BY <1>7, <1>8 DEF c

\* Whatever Apollo charges for an operation, early or late, is held by it, when no lookup
\* costs more than one credit and the operator settles no lookup before its outcome is
\* known.
THEOREM SpendStaysHeld == ASSUME MaxCost <= 1, ~HastyOperator PROVE Spec => []SpendIsHeld
<1>. DEFINE Inv == CallInv /\ SpentInv /\ ChargeInv /\ WireInv /\ SpendInv
<1>1. Init => Inv
  BY SpendInit
<1>2. IInv /\ IInv' /\ Inv /\ [Next]_vars => Inv'
  <2>. SUFFICES ASSUME IInv, IInv', Inv, [Next]_vars  PROVE Inv'
    OBVIOUS
  <2>1. ChargingInv /\ TypeInv /\ RowsTypeOK'
    BY DEF ChargingInv, IInv, TypeInv
  <2>2. CallInv'
    BY <2>1, CallStep
  <2>3. SpentInv' /\ ChargeInv' /\ WireInv'
    BY <2>1, SpentStep, ChargeStep, WireStep
  <2>4. SpendInv'
    BY <2>1, SpendStep
  <2>. QED  BY <2>2, <2>3, <2>4
<1>3. DailyInv /\ Inv => SpendIsHeld
  <2>. SUFFICES ASSUME DailyInv, Inv  PROVE SpendIsHeld
    OBVIOUS
  <2>. SUFFICES ASSUME NEW o \in Operations
                PROVE  spent[o] <= Held(o)
    BY DEF SpendIsHeld
  <2>1. person \in [People -> Reservation]
    BY DEF DailyInv, MoneyInv, TypeInv, RowsTypeOK
  <2>2. Charged(o) \subseteq Counted(person, o)
    BY DEF Charged
  <2>. DEFINE a == Cardinality(Charged(o))
              c == Cardinality(Counted(person, o))
              h == Held(o)
  <2>3. a \in Nat /\ c \in Nat /\ a <= c
    BY <2>1, <2>2, ChargedType, CountTypes
  <2>4. spent[o] <= a /\ spent[o] \in Nat
    BY DEF SpendInv, SpentInv
  <2>5. c <= h /\ h \in Nat
    <3>1. [q \in Operations |-> Held(q)] \in [Operations -> Nat]
      BY SharesType
    <3>2. h \in Nat
      BY <3>1
    <3>. QED  BY <3>2, HeldCovers
  <2>. HIDE DEF a, c, h
  <2>6. spent[o] <= h
    BY <2>3, <2>4, <2>5
  <2>. QED  BY <2>6 DEF h
<1>. HIDE DEF Inv
<1>. QED  BY <1>1, <1>2, <1>3, Invariance, DailyInvariance, PTL DEF Spec

(***************************************************************************)
(* What DiscoveriesEnd rests on besides fairness: a discovery has only so  *)
(* many steps left.                                                        *)
(***************************************************************************)

\* The steps a discovery takes at most in a phase with n people left to claim: three for
\* each of them (claim, request, answer), and those that end it.
PhaseSteps(phase, n) ==
  CASE phase = "done"     -> 0
    [] phase = "failing"  -> 1
    [] phase = "complete" -> 2
    [] phase = "choose"   -> 3 * n + 3
    [] phase = "call"     -> 3 * n + 4
    [] phase = "claimed"  -> 3 * n + 5
    [] phase = "search"   -> 3 * Cardinality(People) + 4
    [] OTHER              -> 3 * Cardinality(People) + 5

StepsLeft(x) == PhaseSteps(x.pc, Cardinality(x.todo))

StepsAreCounted == \A o \in Operations : StepsLeft(run[o]) \in Nat

\* Each step of a discovery lowers what it has left, and no step of another discovery, of
\* the operator, of Apollo or of the clock raises it.
RunsDown ==
  \A o \in Operations :
    /\ Begin(o) \/ Advance(o) => StepsLeft(run'[o]) < StepsLeft(run[o])
    /\ StepsLeft(run'[o]) <= StepsLeft(run[o])

LEMMA StepNumbers ==
  ASSUME NEW n \in Nat
  PROVE  /\ PhaseSteps("done", n) = 0 /\ PhaseSteps("failing", n) = 1
         /\ PhaseSteps("complete", n) = 2
         /\ PhaseSteps("choose", n) = 3 * n + 3
         /\ PhaseSteps("call", n) = 3 * n + 4
         /\ PhaseSteps("claimed", n) = 3 * n + 5
         /\ PhaseSteps("search", n) = 3 * Cardinality(People) + 4
         /\ PhaseSteps("idle", n) = 3 * Cardinality(People) + 5
BY DEF PhaseSteps

\* The people a discovery has left are a finite set, no larger than all of them.
LEMMA FewLeft ==
  ASSUME NEW S \in SUBSET People
  PROVE  /\ Cardinality(S) \in Nat /\ Cardinality(People) \in Nat
         /\ Cardinality(S) <= Cardinality(People)
         /\ \A p \in S : Cardinality(S \ {p}) = Cardinality(S) - 1
BY DiscoveryAssumption, FS_Subset, FS_CardinalityType, FS_RemoveElement

LEMMA StepsAreNatural ==
  ASSUME NEW x \in Run
  PROVE  StepsLeft(x) \in Nat
<1>. DEFINE n == Cardinality(x.todo)
<1>1. n \in Nat /\ Cardinality(People) \in Nat
  BY FewLeft DEF Run
<1>2. x.pc \in {"idle", "search", "choose", "claimed", "call", "complete", "failing",
                "done"}
  BY DEF Run
<1>3. StepsLeft(x) = PhaseSteps(x.pc, n)
  BY DEF StepsLeft
<1>. HIDE DEF n
<1>4. \A phase \in {"idle", "search", "choose", "claimed", "call", "complete", "failing",
                   "done"} : PhaseSteps(phase, n) \in Nat
  <2>0. 3 * n \in Nat /\ 3 * Cardinality(People) \in Nat
    BY <1>1
  <2>1. /\ PhaseSteps("idle", n) \in Nat /\ PhaseSteps("search", n) \in Nat
        /\ PhaseSteps("choose", n) \in Nat /\ PhaseSteps("claimed", n) \in Nat
        /\ PhaseSteps("call", n) \in Nat /\ PhaseSteps("complete", n) \in Nat
        /\ PhaseSteps("failing", n) \in Nat /\ PhaseSteps("done", n) \in Nat
    BY <1>1, <2>0 DEF PhaseSteps
  <2>. QED  BY <2>1, Zenon
<1>. QED  BY <1>2, <1>3, <1>4

LEMMA RunIsCounted ==
  ASSUME TypeInv
  PROVE  StepsAreCounted
<1>1. ASSUME NEW o \in Operations
      PROVE  StepsLeft(run[o]) \in Nat
  <2>1. run[o] \in Run
    BY DEF TypeInv
  <2>. QED  BY <2>1, StepsAreNatural
<1>. QED  BY <1>1, Zenon DEF StepsAreCounted

\* Giving up leaves one step, and every running phase but the last has more.
LEMMA GivingUpRunsDown ==
  ASSUME TypeInv, NEW o \in Operations, NEW n, GiveUp(o, n),
         run[o].pc \in {"search", "choose", "claimed", "call", "complete"}
  PROVE  StepsLeft(run'[o]) < StepsLeft(run[o])
<1>. DEFINE k == Cardinality(run[o].todo)
<1>1. run[o] \in Run
  BY DEF TypeInv
<1>2. run'[o].pc = "failing" /\ run'[o].todo = {}
  BY DEF GiveUp, Ready, TypeInv
<1>3. k \in Nat /\ Cardinality(People) \in Nat /\ Cardinality({}) = 0
  BY <1>1, FewLeft, FS_EmptySet DEF Run
<1>4. StepsLeft(run[o]) = PhaseSteps(run[o].pc, k) /\ StepsLeft(run'[o]) = 1
  BY <1>2, <1>3, StepNumbers DEF StepsLeft
<1>. HIDE DEF k
<1>5. \A phase \in {"search", "choose", "claimed", "call", "complete"} :
        1 < PhaseSteps(phase, k)
  <2>1. /\ 1 < PhaseSteps("search", k) /\ 1 < PhaseSteps("choose", k)
        /\ 1 < PhaseSteps("claimed", k) /\ 1 < PhaseSteps("call", k)
        /\ 1 < PhaseSteps("complete", k)
    BY <1>3 DEF PhaseSteps
  <2>. QED  BY <2>1, Zenon
<1>. QED  BY <1>4, <1>5

LEMMA AdvanceRunsDown ==
  ASSUME TypeInv, NEW o \in Operations, Begin(o) \/ Advance(o)
  PROVE  StepsLeft(run'[o]) < StepsLeft(run[o])
<1>. DEFINE n == Cardinality(run[o].todo)
            m == Cardinality(run'[o].todo)
<1>0. run \in [Operations -> Run] /\ run[o] \in Run /\ run[o].todo \in SUBSET People
  BY DEF TypeInv, Run
<1>1. run'[o].todo \in SUBSET People
  BY AdvanceMovesRun DEF RunMove, Run
<1>2. /\ n \in Nat /\ m \in Nat /\ Cardinality(People) \in Nat /\ Cardinality({}) = 0
      /\ m <= Cardinality(People)
  BY <1>0, <1>1, FewLeft, FS_EmptySet
<1>3. /\ StepsLeft(run[o]) = PhaseSteps(run[o].pc, n)
      /\ StepsLeft(run'[o]) = PhaseSteps(run'[o].pc, m)
  BY DEF StepsLeft
<1>4. ASSUME NEW k \in 1..MaximumPerBatch, Authorize(o, k)
      PROVE  StepsLeft(run'[o]) < StepsLeft(run[o])
  <2>1. run[o].pc = "idle" /\ run'[o].pc = "search"
    BY <1>0, <1>4 DEF Authorize, Goto, Run
  <2>. HIDE DEF n, m
  <2>. QED  BY <1>2, <1>3, <2>1, StepNumbers
<1>5. ASSUME NEW found \in SUBSET People, Search(o, found)
      PROVE  StepsLeft(run'[o]) < StepsLeft(run[o])
  <2>1. run[o].pc = "search" /\ run'[o].pc = "choose"
    BY <1>0, <1>5 DEF Search, Run
  <2>. HIDE DEF n, m
  <2>. QED  BY <1>2, <1>3, <2>1, StepNumbers
<1>6. ASSUME NEW p \in People, ClaimPerson(o, p)
      PROVE  StepsLeft(run'[o]) < StepsLeft(run[o])
  <2>1. /\ run[o].pc = "choose" /\ p \in run[o].todo
        /\ run'[o].pc \in {"choose", "claimed"} /\ run'[o].todo = run[o].todo \ {p}
    BY <1>0, <1>6 DEF ClaimPerson, Run
  <2>2. m = n - 1
    BY <1>0, <2>1, FewLeft
  <2>. HIDE DEF n, m
  <2>3. StepsLeft(run[o]) = 3 * n + 3
    BY <1>2, <1>3, <2>1, StepNumbers
  <2>4. StepsLeft(run'[o]) \in {3 * m + 3, 3 * m + 5}
    BY <1>2, <1>3, <2>1, StepNumbers
  <2>. QED  BY <1>2, <2>2, <2>3, <2>4
<1>7. CASE Exhaust(o)
  <2>1. run[o].pc = "choose" /\ run'[o].pc = "complete"
    BY <1>0, <1>7 DEF Exhaust, Run
  <2>. HIDE DEF n, m
  <2>. QED  BY <1>2, <1>3, <2>1, StepNumbers
<1>8. CASE Dispatch(o)
  <2>1. /\ run[o].pc = "claimed" /\ run'[o].pc = "call" /\ run'[o].todo = run[o].todo
    BY <1>0, <1>8 DEF Dispatch, Run
  <2>2. m = n
    BY <2>1
  <2>. HIDE DEF n, m
  <2>. QED  BY <1>2, <1>3, <2>1, <2>2, StepNumbers
<1>9. ASSUME NEW k, AnswerUsable(o, k)
      PROVE  StepsLeft(run'[o]) < StepsLeft(run[o])
  <2>1. CASE GiveUp(o, Plus(run[o].observed, k))
    BY <1>9, <2>1, GivingUpRunsDown DEF AnswerUsable
  <2>2. CASE run' = [run EXCEPT ![o].pc = "choose", ![o].call = "none",
                                ![o].current = NoPerson,
                                ![o].records = @ \cup {run[o].current},
                                ![o].observed = Plus(@, k)]
    <3>1. /\ run[o].pc = "call" /\ run'[o].pc = "choose" /\ run'[o].todo = run[o].todo
      BY <1>0, <1>9, <2>2 DEF AnswerUsable, Run
    <3>2. m = n
      BY <3>1
    <3>. HIDE DEF n, m
    <3>. QED  BY <1>2, <1>3, <3>1, <3>2, StepNumbers
  <2>. QED  BY <1>9, <2>1, <2>2 DEF AnswerUsable
<1>10. CASE \/ ClaimFails(o) \/ CompleteFails(o) \/ AnswerExceeds(o) \/ AnswerUncertain(o)
            \/ \E k \in {0, Unknown} : SearchFails(o, k)
            \/ \E k \in {run[o].observed, 0, Unknown} : LocalFailure(o, k)
  BY <1>10, GivingUpRunsDown
  DEF ClaimFails, CompleteFails, AnswerExceeds, AnswerUncertain, SearchFails, LocalFailure
<1>11. CASE Complete(o) \/ Fail(o)
  <2>1. run[o].pc \in {"complete", "failing"} /\ run'[o].pc = "done"
    BY <1>0, <1>11, EndedType DEF Complete, Fail
  <2>. HIDE DEF n, m
  <2>2. StepsLeft(run[o]) \in {1, 2}
    BY <1>2, <1>3, <2>1, StepNumbers
  <2>3. StepsLeft(run'[o]) = 0
    BY <1>2, <1>3, <2>1, StepNumbers
  <2>. QED  BY <2>2, <2>3
<1>. QED
  BY <1>4, <1>5, <1>6, <1>7, <1>8, <1>9, <1>10, <1>11 DEF Begin, Advance

\* What does not step a discovery leaves its phase and its people alone, or ends it.
LEMMA OthersRunDown ==
  ASSUME TypeInv, [Next]_vars, NEW o \in Operations, ~(Begin(o) \/ Advance(o))
  PROVE  StepsLeft(run'[o]) <= StepsLeft(run[o])
<1>0. run \in [Operations -> Run] /\ StepsLeft(run[o]) \in Nat
  BY StepsAreNatural DEF TypeInv
<1>1. ASSUME run'[o].pc = run[o].pc, run'[o].todo = run[o].todo
      PROVE  StepsLeft(run'[o]) <= StepsLeft(run[o])
  <2>1. StepsLeft(run'[o]) = StepsLeft(run[o])
    BY <1>1 DEF StepsLeft
  <2>. QED  BY <1>0, <2>1
<1>2. ASSUME NEW q \in Operations, Begin(q) \/ Advance(q)
      PROVE  run'[o] = run[o]
  BY <1>2, AdvanceMovesRun DEF RunMove
<1>3. ASSUME NEW q \in Operations, NEW cost, ApolloServes(q, cost)
      PROVE  run'[o].pc = run[o].pc /\ run'[o].todo = run[o].todo
  BY <1>0, <1>3 DEF ApolloServes, Run
<1>4. ASSUME Operator \/ UNCHANGED vars
      PROVE  run' = run
  BY <1>4 DEF Operator, ResumeRetained, SafeRelease, RecordConsumption, vars
<1>5. ASSUME World
      PROVE  run' = run \/ \E q \in Operations, cost \in 0..MaxCost : ApolloServes(q, cost)
  BY <1>5 DEF World, StraySettles, GrowsStale
<1>6. CASE Crash
  <2>1. run'[o] = run[o] \/ run'[o] = Ended
    BY <1>0, <1>6 DEF Crash
  <2>2. StepsLeft(Ended) = 0
    <3>1. Ended.pc = "done" /\ Ended.todo = {} /\ Cardinality({}) = 0
      BY FS_EmptySet DEF Ended, Ready
    <3>. QED  BY <3>1, StepNumbers DEF StepsLeft
  <2>. QED  BY <1>0, <1>1, <2>1, <2>2
<1>. QED  BY <1>1, <1>2, <1>3, <1>4, <1>5, <1>6 DEF Next

\* A discovery takes at most three steps for each person there is and five besides: none
\* of its steps, no lost reservation and no late answer leads it back, whatever Apollo,
\* the operator, the other discoveries and the clock do meanwhile (refreshScopedCandidateReserve).
THEOREM DiscoveriesRunDown ==
  Spec => /\ []StepsAreCounted
          /\ [][RunsDown]_vars
<1>1. ASSUME TypeInv, [Next]_vars
      PROVE  RunsDown
  <2>. SUFFICES ASSUME NEW o \in Operations
                PROVE  /\ Begin(o) \/ Advance(o) => StepsLeft(run'[o]) < StepsLeft(run[o])
                       /\ StepsLeft(run'[o]) <= StepsLeft(run[o])
    BY DEF RunsDown
  <2>1. StepsLeft(run[o]) \in Nat /\ StepsLeft(run'[o]) \in Nat
    BY <1>1, StepsAreNatural, TypeStep DEF TypeInv
  <2>2. Begin(o) \/ Advance(o) => StepsLeft(run'[o]) < StepsLeft(run[o])
    BY <1>1, AdvanceRunsDown
  <2>. QED  BY <1>1, <2>1, <2>2, OthersRunDown
<1>2. ASSUME TypeInv
      PROVE  StepsAreCounted
  BY <1>2, RunIsCounted
<1>3. TypeInv /\ [Next]_vars => TypeInv'
  BY TypeStep
<1>4. TypeInv /\ [Next]_vars => [RunsDown]_vars
  BY <1>1
<1>5. TypeInv => StepsAreCounted
  BY <1>2
<1>. QED  BY TypeInit, <1>3, <1>4, <1>5, PTL DEF Spec
==============================================================================
