-------------------------- MODULE SearchPagesProofs --------------------------
(***************************************************************************)
(* Proofs about SearchPages: no page is given out twice, and the rotation  *)
(* reaches every plan before it comes back to one, for any number of       *)
(* operations, plans, calls and crashes.                                   *)
(***************************************************************************)
EXTENDS SearchPages, FiniteSetTheorems, WellFoundedInduction, TLAPS

-----------------------------------------------------------------------------
(* Type correctness.                                                        *)

\* What the count of calls says after an answer is again a search.
LEMMA CountedIsSearch ==
  ASSUME NEW s \in Search, NEW total \in Nat, NEW employers \in {"few", "enough"}
  PROVE  Counted(s, total, employers) \in Search
<1>1. s.calls + 1 \in Nat /\ s.searched \cup {s.plan} \in SUBSET Plans
  BY DEF Search
<1>2. (IF total # Unknown /\ s.page >= total THEN s.exhausted \cup {s.plan}
                                             ELSE s.exhausted) \in SUBSET Plans
  BY DEF Search
<1> QED BY <1>1, <1>2 DEF Counted, Search

\* Each field of a query's cursor keeps its type when a page is claimed or observed.
LEMMA CursorTypes ==
  ASSUME NEW c \in Cursor, NEW page, NEW total \in Nat
  PROVE  /\ Advanced(c) \in Cursor
         /\ Observed(c, page, total) \in Cursor
         /\ Observed(c, page, total).nextPage = c.nextPage
         /\ Advanced(c).nextPage = c.nextPage + 1
BY DEF Cursor, Advanced, Observed, Unknown

\* The initial states.
LEMMA InitTypes == ASSUME Init PROVE TypeOK
<1> USE SearchAssumption DEF Init
<1>1. cursor \in [Queries -> Cursor]
  BY DEF Cursor, Unknown
<1>2. \A f \in Filters : [Started(f) EXCEPT !.pc = "idle"] \in Search
  BY DEF Started, Search, Plans
<1>3. search \in [Operations -> Search]
  BY <1>2
<1> QED BY <1>1, <1>3 DEF TypeOK

\* The shape of every step of an operation: the search of that operation alone changes,
\* and the cursor of one query at most.
LEMMA StepTypes ==
  ASSUME TypeOK, NEW o \in Operations, Begin(o) \/ Step(o)
  PROVE  TypeOK'
<1> USE SearchAssumption DEF TypeOK
<1>0. /\ search[o] \in Search /\ Query(o) \in Queries
      /\ search[o].filter \in Filters
  BY DEF Search, Query, Queries
<1>1. CASE Begin(o)
  <2>1. Started(search[o].filter) \in Search
    BY <1>0 DEF Started, Search, Plans
  <2> QED BY <1>1, <2>1 DEF Begin
<1>2. CASE ClaimPage(o)
  <2> PICK i \in Plans :
        LET q == <<i, search[o].filter>> IN
          /\ cursor' = [cursor EXCEPT ![q] = Advanced(@)]
          /\ search' = [search EXCEPT ![o].pc = "call", ![o].plan = i,
                                      ![o].page = cursor[q].nextPage]
    BY <1>2 DEF ClaimPage
  <2> DEFINE q == <<i, search[o].filter>>
  <2>1. q \in Queries /\ cursor[q] \in Cursor /\ cursor[q].nextPage \in Nat
    BY <1>0 DEF Queries, Cursor
  <2>2. [search[o] EXCEPT !.pc = "call", !.plan = i, !.page = cursor[q].nextPage]
          \in Search
    BY <1>0, <2>1 DEF Search
  <2>3. search' \in [Operations -> Search]
    BY <2>2
  <2>4. Advanced(cursor[q]) \in Cursor
    BY <2>1, CursorTypes
  <2>5. cursor' \in [Queries -> Cursor]
    BY <2>1, <2>4
  <2> QED BY <1>2, <2>3, <2>5 DEF ClaimPage
<1>3. CASE FindExhausted(o)
  <2> PICK i \in Plans : search' = [search EXCEPT ![o] = Exhausted(@, i)]
    BY <1>3 DEF FindExhausted
  <2>1. Exhausted(search[o], i) \in Search
    BY <1>0 DEF Exhausted, Search
  <2> QED BY <1>3, <2>1 DEF FindExhausted
<1>4. CASE Stop(o)
  <2>1. [search[o] EXCEPT !.pc = "done"] \in Search
    BY <1>0 DEF Search
  <2> QED BY <1>4, <2>1 DEF Stop
<1>5. CASE Answer(o)
  <2> PICK total \in 0..MaxTotal, employers \in {"few", "enough"} :
        LET next == Counted(search[o], total, employers) IN
          /\ cursor' = [cursor EXCEPT ![Query(o)] = Observed(@, search[o].page, total)]
          /\ search' = [search EXCEPT ![o] = [next EXCEPT
                          !.pc = IF Satisfied(next) THEN "done" ELSE "choose"]]
    BY <1>5 DEF Answer
  <2> DEFINE next == Counted(search[o], total, employers)
  <2>0. total \in Nat
    OBVIOUS
  <2>1. total \in Nat /\ next \in Search
    BY <1>0, <2>0, CountedIsSearch
  <2> HIDE DEF next
  <2>2. [next EXCEPT !.pc = IF Satisfied(next) THEN "done" ELSE "choose"] \in Search
    BY <2>1 DEF Search
  <2>3. search' \in [Operations -> Search]
    BY <2>2 DEF next
  <2>4. cursor[Query(o)] \in Cursor
    BY <1>0
  <2>6. Observed(cursor[Query(o)], search[o].page, total) \in Cursor
    BY <2>0, <2>4, CursorTypes
  <2>5. cursor' \in [Queries -> Cursor]
    BY <1>0, <2>6
  <2> QED BY <1>5, <2>3, <2>5 DEF Answer
<1>6. CASE AnswerRejected(o)
  <2> PICK total \in 0..MaxTotal :
        cursor' = [cursor EXCEPT ![Query(o)] = Observed(@, search[o].page, total)]
    BY <1>6 DEF AnswerRejected
  <2>0. cursor[Query(o)] \in Cursor /\ total \in Nat
    BY <1>0
  <2>1. Observed(cursor[Query(o)], search[o].page, total) \in Cursor
    BY <2>0, CursorTypes
  <2>2. [search[o] EXCEPT !.pc = "failed"] \in Search
    BY <1>0 DEF Search
  <2> QED BY <1>0, <1>6, <2>1, <2>2 DEF AnswerRejected
<1>7. CASE SearchFails(o)
  <2>1. [search[o] EXCEPT !.pc = "failed"] \in Search
    BY <1>0 DEF Search
  <2> QED BY <1>7, <2>1 DEF SearchFails
<1> QED BY <1>1, <1>2, <1>3, <1>4, <1>5, <1>6, <1>7 DEF Step

\* Crashes leave every search a search.
LEMMA CrashTypes == ASSUME TypeOK, Crash PROVE TypeOK'
<1>1. \A o \in Operations : [search[o] EXCEPT !.pc = "failed"] \in Search
  BY DEF TypeOK, Search
<1> QED BY <1>1 DEF TypeOK, Crash

\* The rows and the operations' memory have their types, at any instance.
THEOREM TypeCorrect == Spec => []TypeOK
<1>1. TypeOK /\ [Next]_vars => TypeOK'
  BY StepTypes, CrashTypes DEF Next, vars, TypeOK
<1> QED BY InitTypes, <1>1, PTL DEF Spec

-----------------------------------------------------------------------------
(* Pages are given out once.                                                *)

\* What a set of cursors has given out.  Nothing need be known of the calls in the air:
\* the page claimed is the cursor's own, and the cursor then moves past it.
Given(c) == [q \in Queries |-> 1..(c[q].nextPage - 1)]

\* A claim is a page given.
LEMMA ClaimGives ==
  ASSUME TypeOK, NEW o \in Operations, ClaimPage(o)
  PROVE  Dispenser!Next
<1> USE SearchAssumption
<1> PICK i \in Plans, f \in Filters :
      /\ MayCall(o) /\ f = search[o].filter
      /\ ~AtEnd(cursor[<<i, f>>])
      /\ cursor' = [cursor EXCEPT ![<<i, f>>] = Advanced(@)]
      /\ search' = [search EXCEPT ![o].pc = "call", ![o].plan = i,
                                  ![o].page = cursor[<<i, f>>].nextPage]
  BY DEF ClaimPage, TypeOK, Search
<1> DEFINE q == <<i, f>>
<1>1. /\ q \in Queries /\ cursor[q] \in Cursor
      /\ search[o] \in Search
  BY DEF TypeOK, Queries
<1> PICK p \in Nat \ {0} : p = cursor[q].nextPage
  BY <1>1 DEF Cursor
<1>2. p \in 1..PageLimit /\ p \notin 1..(p - 1)
  BY <1>1 DEF AtEnd
<1>3. \A r \in Queries :
        cursor'[r].nextPage = IF r = q THEN p + 1 ELSE cursor[r].nextPage
  BY <1>1, CursorTypes DEF TypeOK
<1>4. 1..((p + 1) - 1) = (1..(p - 1)) \cup {p}
  OBVIOUS
<1>5. \A r \in Queries : 1..(cursor'[r].nextPage - 1) =
        IF r = q THEN 1..(p - 1) \cup {p} ELSE 1..(cursor[r].nextPage - 1)
  BY <1>3, <1>4
<1>6. Given(cursor') = [Given(cursor) EXCEPT ![q] = @ \cup {p}]
  BY <1>1, <1>5 DEF Given
<1>7. \A u \in Operations :
        Held(u)' = IF u = o THEN {<<q, p>>} ELSE Held(u)
  BY <1>1 DEF Held, Query, TypeOK, Search
<1>8. Held(o) = {}
  BY DEF Held, MayCall
<1>9. [u \in Operations |-> Held(u)'] =
        [[u \in Operations |-> Held(u)] EXCEPT ![o] = {<<q, p>>}]
  BY <1>7
<1>10. Dispenser!Give(o, q, p)
  BY <1>1, <1>2, <1>6, <1>8, <1>9 DEF Dispenser!Give, Dispenser!Pages, Given
<1>11. q \in Queries /\ p \in Dispenser!Pages
  BY <1>1, <1>2 DEF Dispenser!Pages
<1> HIDE DEF q
<1> QED BY <1>10, <1>11 DEF Dispenser!Next

\* A step that leaves the pages where they are and may only end calls.
LEMMA OthersLetGo ==
  ASSUME TypeOK,
         \A q \in Queries : cursor'[q].nextPage = cursor[q].nextPage,
         \A u \in Operations : Held(u)' \in {Held(u), {}}
  PROVE  Dispenser!Next
<1>1. Given(cursor') = Given(cursor)
  BY DEF Given
<1>2. Dispenser!LetGo
  BY <1>1 DEF Dispenser!LetGo, Given
<1> QED BY <1>2 DEF Dispenser!Next

\* Each step of an operation is a page given, or ends a call at most.
LEMMA StepDispenses ==
  ASSUME TypeOK, NEW o \in Operations, Begin(o) \/ Step(o)
  PROVE  Dispenser!Next
<1>0. /\ search[o] \in Search /\ Query(o) \in Queries
      /\ \A q \in Queries : cursor[q] \in Cursor
  BY DEF TypeOK, Search, Query, Queries
<1>1. CASE ClaimPage(o)
  BY <1>1, ClaimGives
<1>2. CASE Begin(o)
  BY <1>2, OthersLetGo DEF Begin, Held, Query, TypeOK, Started
<1>3. CASE FindExhausted(o)
  <2>1. MayCall(o) /\ cursor' = cursor /\ \E i \in Plans :
          search' = [search EXCEPT ![o] = Exhausted(@, i)]
    BY <1>3 DEF FindExhausted
  <2>2. \A u \in Operations : Held(u)' = Held(u)
    BY <1>0, <2>1 DEF Held, Query, Exhausted, TypeOK, MayCall, Search
  <2> QED BY <2>1, <2>2, OthersLetGo
<1>4. CASE Stop(o)
  BY <1>4, OthersLetGo DEF Stop, Held, Query, TypeOK
<1>5. CASE Answer(o)
  <2> PICK total \in 0..MaxTotal, employers \in {"few", "enough"} :
        LET next == Counted(search[o], total, employers) IN
          /\ cursor' = [cursor EXCEPT ![Query(o)] = Observed(@, search[o].page, total)]
          /\ search' = [search EXCEPT ![o] = [next EXCEPT
                          !.pc = IF Satisfied(next) THEN "done" ELSE "choose"]]
    BY <1>5 DEF Answer
  <2> DEFINE next == Counted(search[o], total, employers)
  <2>0. total \in Nat
    BY SearchAssumption
  <2>1. next \in Search /\ total \in Nat
    BY <1>0, <2>0, CountedIsSearch
  <2>2. \A q \in Queries : cursor'[q].nextPage = cursor[q].nextPage
    BY <1>0, <2>1, CursorTypes DEF TypeOK
  <2> HIDE DEF next
  <2>3. \A u \in Operations \ {o} : search'[u] = search[u]
    BY DEF TypeOK, next
  <2>4. search'[o].pc \in {"done", "choose"}
    BY <2>1 DEF TypeOK, next, Search
  <2>5. \A u \in Operations : Held(u)' \in {Held(u), {}}
    BY <2>3, <2>4 DEF Held, Query
  <2> QED BY <2>2, <2>5, OthersLetGo
<1>6. CASE AnswerRejected(o)
  <2> PICK total \in 0..MaxTotal :
        cursor' = [cursor EXCEPT ![Query(o)] = Observed(@, search[o].page, total)]
    BY <1>6 DEF AnswerRejected
  <2>1. \A q \in Queries : cursor'[q].nextPage = cursor[q].nextPage
    BY <1>0, CursorTypes, SearchAssumption DEF TypeOK
  <2>2. \A u \in Operations : Held(u)' \in {Held(u), {}}
    BY <1>6 DEF AnswerRejected, Held, Query, TypeOK
  <2> QED BY <2>1, <2>2, OthersLetGo
<1>7. CASE SearchFails(o)
  BY <1>7, OthersLetGo DEF SearchFails, Held, Query, TypeOK
<1> QED BY <1>1, <1>2, <1>3, <1>4, <1>5, <1>6, <1>7 DEF Step

\* The search of scoped discoveries implements PageDispenser.
THEOREM PagesOnce == Spec => DispensesPagesOnce
<1> DEFINE dvars == <<[q \in Queries |-> 1..(cursor[q].nextPage - 1)],
                      [o \in Operations |-> Held(o)]>>
<1>1. Init => Dispenser!Init
  <2> SUFFICES ASSUME Init PROVE Dispenser!Init
    OBVIOUS
  <2>1. \A q \in Queries : 1..(cursor[q].nextPage - 1) = {}
    BY DEF Init
  <2>3. \A o \in Operations : \E f \in Filters :
          search[o] = [Started(f) EXCEPT !.pc = "idle"]
    BY DEF Init
  <2>2. \A o \in Operations : Held(o) = {}
    BY <2>3 DEF Held, Started
  <2> QED BY <2>1, <2>2 DEF Dispenser!Init
<1>2. TypeOK /\ [Next]_vars => [Dispenser!Next]_dvars
  <2> SUFFICES ASSUME TypeOK, [Next]_vars PROVE [Dispenser!Next]_dvars
    OBVIOUS
  <2>1. CASE Crash
    <3>1. \A u \in Operations : Held(u)' \in {Held(u), {}}
      BY <2>1 DEF Crash, Held, Query, TypeOK
    <3> QED BY <2>1, <3>1, OthersLetGo DEF Crash
  <2>2. CASE UNCHANGED vars
    BY <2>2 DEF vars, Held, Query
  <2> QED BY <2>1, <2>2, StepDispenses DEF Next
<1> QED BY <1>1, <1>2, TypeCorrect, PTL DEF Spec, DispensesPagesOnce, Dispenser!Spec

-----------------------------------------------------------------------------
(* The rotation.                                                            *)

Covered(s) == Plans = s.searched \cup s.exhausted

\* As long as a plan waits for its first turn, no plan had two: the turns have moved up to
\* some place m, with every plan below it served and none above it searched; a call in
\* the air is for the first plan above it that is still open.
UpTo(s, m) ==
  /\ s.calls <= m
  /\ \A i \in Plans : i <= m => i \in s.searched \cup s.exhausted
  /\ \A i \in s.searched : i <= m
  /\ s.pc = "call" => /\ m < s.plan
                      /\ \A i \in Plans : i < s.plan => i \in s.searched \cup s.exhausted

FirstRound(s) == s.calls = Cardinality(s.searched) /\ \E m \in Nat : UpTo(s, m)

Rotates == \A o \in Operations : Covered(search[o]) \/ FirstRound(search[o])

\* The invariant says what EveryPlanHasItsTurn asks.
LEMMA RotatesSuffices == ASSUME TypeOK, Rotates PROVE EveryPlanHasItsTurn
<1> SUFFICES ASSUME NEW o \in Operations, Revisits(search[o]), ~Covered(search[o])
             PROVE  FALSE
  BY DEF EveryPlanHasItsTurn, Covered
<1>1. search[o] \in Search /\ FirstRound(search[o])
  BY DEF Rotates, TypeOK
<1> PICK m \in Nat : UpTo(search[o], m)
  BY <1>1 DEF FirstRound
<1>2. search[o].pc = "call" /\ search[o].plan \in search[o].searched
  BY <1>1 DEF FirstRound, Revisits, Search
<1> QED BY <1>1, <1>2 DEF UpTo, Search, Plans

\* The plan chosen while one waits is the first open one above the place reached.
LEMMA NextIsFirstOpen ==
  ASSUME NEW s \in Search, NEW m \in Nat, UpTo(s, m), ~Covered(s), NEW i \in Plans,
         IsNext(s, i)
  PROVE  /\ m < i
         /\ \A j \in Plans : j < i => j \in s.searched \cup s.exhausted
<1> USE SearchAssumption DEF Plans
<1>1. s.calls \in Nat /\ s.searched \subseteq Plans /\ s.exhausted \subseteq Plans
  BY DEF Search
<1>2. PICK w \in Plans : w \notin s.searched \cup s.exhausted
  BY <1>1 DEF Covered
<1>3. \A j \in Plans : j \notin s.searched \cup s.exhausted => m < j
  BY DEF UpTo
<1>4. s.calls < PlanCount
  BY <1>1, <1>2, <1>3 DEF UpTo
<1>5. s.calls % PlanCount = s.calls
  BY <1>1, <1>4
<1>6. \A j \in Plans : j \notin s.searched \cup s.exhausted => j \in Turns(s)
  BY <1>1, <1>3, <1>5 DEF Turns, Open, UpTo
<1>7. Candidates(s) = Turns(s)
  BY <1>2, <1>6 DEF Candidates
<1>8. i \in Turns(s) /\ \A j \in Turns(s) : i <= j
  BY <1>7 DEF IsNext
<1>9. i \notin s.searched \cup s.exhausted
  BY <1>4, <1>8, <1>1 DEF Turns, Open
<1> QED BY <1>3, <1>6, <1>8, <1>9

\* What a search has gone through is only added to.
LEMMA RotationSteps ==
  ASSUME TypeOK, Rotates, NEW o \in Operations, Begin(o) \/ Step(o)
  PROVE  Rotates'
<1> USE SearchAssumption
<1> DEFINE s == search[o]
<1>0. s \in Search /\ (Covered(s) \/ FirstRound(s))
  BY DEF TypeOK, Rotates
<1> SUFFICES ASSUME \A u \in Operations \ {o} : search'[u] = search[u]
             PROVE  Covered(search'[o]) \/ FirstRound(search'[o])
  BY DEF Rotates, Begin, Step, ClaimPage, FindExhausted, Stop, Answer, AnswerRejected,
         SearchFails, TypeOK
<1>1. CASE Begin(o)
  <2>1. search'[o] = Started(s.filter)
    BY <1>1 DEF Begin, TypeOK
  <2>2. UpTo(Started(s.filter), 0)
    BY DEF UpTo, Started, Plans
  <2>3. FirstRound(Started(s.filter))
    BY <2>2, FS_EmptySet DEF FirstRound, Started
  <2> QED BY <2>1, <2>3
<1>2. CASE ClaimPage(o)
  <2> PICK i \in Plans :
        /\ s.pc = "choose" /\ IsNext(s, i)
        /\ search'[o] = [s EXCEPT !.pc = "call", !.plan = i,
                                   !.page = cursor[<<i, s.filter>>].nextPage]
    BY <1>2 DEF ClaimPage, MayCall, TypeOK
  <2>1. /\ search'[o].searched = s.searched /\ search'[o].exhausted = s.exhausted
        /\ search'[o].calls = s.calls /\ search'[o].plan = i
    BY <1>0 DEF Search
  <2>2. CASE Covered(s)
    BY <2>1, <2>2 DEF Covered
  <2>3. CASE ~Covered(s)
    <3> PICK m \in Nat : UpTo(s, m)
      BY <1>0, <2>3 DEF FirstRound
    <3>1. m < i /\ \A j \in Plans : j < i => j \in s.searched \cup s.exhausted
      BY <1>0, <2>3, NextIsFirstOpen
    <3>2. UpTo(search'[o], m)
      BY <2>1, <3>1 DEF UpTo
    <3> QED BY <1>0, <2>1, <2>3, <3>2 DEF FirstRound
  <2> QED BY <2>2, <2>3
<1>3. CASE FindExhausted(o)
  <2> PICK i \in Plans : s.pc = "choose" /\ search'[o] = Exhausted(s, i)
    BY <1>3 DEF FindExhausted, MayCall, TypeOK
  <2>1. /\ search'[o].searched = s.searched /\ search'[o].exhausted = s.exhausted \cup {i}
        /\ search'[o].calls = s.calls /\ search'[o].pc = "choose"
        /\ s.exhausted \subseteq Plans
    BY <1>0 DEF Search, Exhausted
  <2>2. \A m \in Nat : UpTo(s, m) => UpTo(search'[o], m)
    BY <2>1 DEF UpTo
  <2> QED BY <1>0, <2>1, <2>2 DEF Covered, FirstRound
<1>4. CASE Stop(o) \/ AnswerRejected(o) \/ SearchFails(o)
  <2>1. \E phase \in {"done", "failed"} : search'[o] = [s EXCEPT !.pc = phase]
    BY <1>4 DEF Stop, AnswerRejected, SearchFails, TypeOK
  <2>2. /\ search'[o].searched = s.searched /\ search'[o].exhausted = s.exhausted
        /\ search'[o].calls = s.calls /\ search'[o].pc # "call"
    BY <1>0, <2>1 DEF Search
  <2>3. \A m \in Nat : UpTo(s, m) => UpTo(search'[o], m)
    BY <2>2 DEF UpTo
  <2> QED BY <1>0, <2>2, <2>3 DEF Covered, FirstRound
<1>5. CASE Answer(o)
  <2> PICK total \in 0..MaxTotal, employers \in {"few", "enough"} :
        LET next == Counted(s, total, employers) IN
          /\ s.pc = "call"
          /\ search'[o] = [next EXCEPT
                            !.pc = IF Satisfied(next) THEN "done" ELSE "choose"]
    BY <1>5 DEF Answer, TypeOK
  <2> DEFINE next == Counted(s, total, employers)
  <2>0. total \in Nat
    OBVIOUS
  <2>5. next \in Search
    BY <1>0, <2>0, CountedIsSearch
  <2>6. /\ next.calls = s.calls + 1
        /\ next.searched = s.searched \cup {s.plan}
        /\ s.exhausted \subseteq next.exhausted
    BY <1>0 DEF Counted, Search
  <2>1. /\ next \in Search /\ next.calls = s.calls + 1
        /\ next.searched = s.searched \cup {s.plan}
        /\ s.exhausted \subseteq next.exhausted /\ next.exhausted \subseteq Plans
    BY <2>5, <2>6 DEF Search
  <2> HIDE DEF next
  <2>2. /\ search'[o].searched = next.searched /\ search'[o].exhausted = next.exhausted
        /\ search'[o].calls = next.calls /\ search'[o].pc # "call"
    BY <2>1 DEF Search, next
  <2>3. CASE Covered(s)
    <3>1. s.plan \in Plans /\ s.searched \subseteq Plans
      BY <1>0 DEF Search
    <3> QED BY <2>1, <2>2, <2>3, <3>1 DEF Covered
  <2>4. CASE ~Covered(s)
    <3> PICK m \in Nat : UpTo(s, m)
      BY <1>0, <2>4 DEF FirstRound
    <3>1. /\ s.plan \in Nat /\ s.plan \in Plans /\ s.searched \subseteq Plans
          /\ s.calls \in Nat
      BY <1>0 DEF Search, Plans
    <3>2. m < s.plan /\ s.plan \notin s.searched
      BY <3>1 DEF UpTo, Plans
    <3>7. search'[o].calls <= s.plan
      BY <2>1, <2>2, <3>1, <3>2 DEF UpTo
    <3>8. \A i \in Plans :
            i <= s.plan => i \in search'[o].searched \cup search'[o].exhausted
      <4>1. \A i \in Plans : i <= s.plan => i < s.plan \/ i = s.plan
        BY <3>1 DEF Plans
      <4>2. \A i \in Plans : i < s.plan => i \in s.searched \cup s.exhausted
        BY DEF UpTo
      <4> QED BY <2>1, <2>2, <4>1, <4>2
    <3>9. \A i \in search'[o].searched : i <= s.plan
      BY <2>1, <2>2, <3>1, <3>2 DEF UpTo, Plans
    <3>3. UpTo(search'[o], s.plan)
      BY <2>2, <3>7, <3>8, <3>9 DEF UpTo
    <3>4. IsFiniteSet(s.searched)
      <4>1. 1 \in Int /\ PlanCount \in Int
        OBVIOUS
      <4>2. IsFiniteSet(Plans)
        BY <4>1, FS_Interval DEF Plans
      <4> QED BY <3>1, <4>2, FS_Subset
    <3>5. Cardinality(s.searched \cup {s.plan}) = Cardinality(s.searched) + 1
      BY <3>2, <3>4, FS_AddElement
    <3>6. s.calls = Cardinality(s.searched)
      BY <1>0, <2>4 DEF FirstRound
    <3> QED BY <2>1, <2>2, <3>1, <3>3, <3>5, <3>6 DEF FirstRound
  <2> QED BY <2>3, <2>4
<1> QED BY <1>1, <1>2, <1>3, <1>4, <1>5 DEF Step

\* Starting and crashing.
LEMMA RotationStarts == ASSUME Init PROVE Rotates
<1>1. \A f \in Filters : UpTo([Started(f) EXCEPT !.pc = "idle"], 0)
  BY DEF UpTo, Started, Plans
<1>3. \A f \in Filters : /\ [Started(f) EXCEPT !.pc = "idle"].calls = 0
                         /\ [Started(f) EXCEPT !.pc = "idle"].searched = {}
  BY DEF Started
<1>2. \A f \in Filters : FirstRound([Started(f) EXCEPT !.pc = "idle"])
  BY <1>1, <1>3, FS_EmptySet DEF FirstRound
<1> QED BY <1>2 DEF Rotates, Init

LEMMA CrashRotates == ASSUME TypeOK, Rotates, Crash PROVE Rotates'
<1> SUFFICES ASSUME NEW o \in Operations
             PROVE  Covered(search'[o]) \/ FirstRound(search'[o])
  BY DEF Rotates
<1>0. search[o] \in Search /\ (Covered(search[o]) \/ FirstRound(search[o]))
  BY DEF TypeOK, Rotates
<1>1. \/ search'[o] = search[o]
      \/ search'[o] = [search[o] EXCEPT !.pc = "failed"]
  BY DEF Crash
<1>2. CASE search'[o] = [search[o] EXCEPT !.pc = "failed"]
  <2>1. /\ search'[o].searched = search[o].searched
        /\ search'[o].exhausted = search[o].exhausted
        /\ search'[o].calls = search[o].calls /\ search'[o].pc # "call"
    BY <1>0, <1>2 DEF Search
  <2>2. \A m \in Nat : UpTo(search[o], m) => UpTo(search'[o], m)
    BY <2>1 DEF UpTo
  <2> QED BY <1>0, <2>1, <2>2 DEF Covered, FirstRound
<1> QED BY <1>0, <1>1, <1>2

\* Every plan has its turn before one has a second, for any number of plans, calls and
\* operations, whatever the answers.
THEOREM RotationIsFair == Spec => []EveryPlanHasItsTurn
<1>1. TypeOK /\ Rotates /\ [Next]_vars => Rotates'
  BY RotationSteps, CrashRotates DEF Next, vars, Rotates
<1>2. Spec => []Rotates
  BY RotationStarts, <1>1, TypeCorrect, PTL DEF Spec
<1>3. TypeOK /\ Rotates => EveryPlanHasItsTurn
  BY RotatesSuffices
<1> QED BY <1>2, <1>3, TypeCorrect, PTL

-----------------------------------------------------------------------------
(* Searches run down.  Beside fairness, a search ends because what is left  *)
(* of it falls with each of its steps and one of its steps is possible.     *)

Running == {"choose", "call"}

\* An answer uses up a call, a page that is not there a plan, a claim or a failure the phase.
PhasesLeft(s) == IF s.pc = "choose" THEN 2 ELSE IF s.pc = "call" THEN 1 ELSE 0
Remaining(s) == PhasesLeft(s) + 2 * (MaximumSearchCalls - s.calls) + Cardinality(Open(s))

WithinCalls(s) ==
  s.calls <= MaximumSearchCalls /\ (s.pc = "call" => s.calls < MaximumSearchCalls)
CallsBounded == \A o \in Operations : WithinCalls(search[o])

\* A step of a search leaves less of it.
RunsDown ==
  \A o \in Operations :
    search[o].pc \in Running /\ search'[o] # search[o] => Remaining(search'[o]) < Remaining(search[o])

\* Every running search waits for an answer, has to stop, or has a next plan.
GoesOn ==
  \A o \in Operations : search[o].pc \in Running =>
    \/ search[o].pc = "call"
    \/ search[o].calls = MaximumSearchCalls \/ Open(search[o]) = {}
    \/ \E i \in Plans : MayCall(o) /\ IsNext(search[o], i)

LEMMA PlansAreFinite ==
  ASSUME NEW s \in Search
  PROVE  IsFiniteSet(Open(s)) /\ Cardinality(Open(s)) \in Nat
<1>1. 1 \in Int /\ PlanCount \in Int
  BY SearchAssumption
<1>2. IsFiniteSet(Plans)
  BY <1>1, FS_Interval DEF Plans
<1>3. IsFiniteSet(Open(s))
  BY <1>2, FS_Subset DEF Open
<1>4. QED
  BY <1>3, FS_CardinalityType

\* What is left of a search is a number.
LEMMA RemainingType ==
  ASSUME NEW s \in Search, WithinCalls(s)
  PROVE  Remaining(s) \in Nat
<1>1. s.calls \in Nat /\ MaximumSearchCalls \in Nat
  BY SearchAssumption DEF Search
<1>2. MaximumSearchCalls - s.calls \in Nat
  BY <1>1 DEF WithinCalls
<1>3. Cardinality(Open(s)) \in Nat
  BY PlansAreFinite
<1>4. PhasesLeft(s) \in Nat
  BY DEF PhasesLeft
<1>5. QED
  BY <1>2, <1>3, <1>4 DEF Remaining

\* When no plan comes back there are no more open ones than before, and fewer when one goes.
LEMMA OpenShrinks ==
  ASSUME NEW s \in Search, NEW t \in Search, s.exhausted \subseteq t.exhausted
  PROVE  /\ Cardinality(Open(t)) <= Cardinality(Open(s))
         /\ \A i \in Open(s) : i \in t.exhausted => Cardinality(Open(t)) < Cardinality(Open(s))
<1>1. IsFiniteSet(Open(s)) /\ Cardinality(Open(s)) \in Nat
  BY PlansAreFinite
<1>2. Open(t) \subseteq Open(s)
  BY DEF Open
<1>3. Cardinality(Open(t)) <= Cardinality(Open(s))
  BY <1>1, <1>2, FS_Subset
<1>4. ASSUME NEW i \in Open(s), i \in t.exhausted
      PROVE  Cardinality(Open(t)) < Cardinality(Open(s))
  <2>1. Open(t) \subseteq Open(s) \ {i}
    BY <1>2, <1>4 DEF Open
  <2>2. IsFiniteSet(Open(s) \ {i}) /\ Cardinality(Open(s) \ {i}) = Cardinality(Open(s)) - 1
    BY <1>1, FS_RemoveElement
  <2>3. Cardinality(Open(t)) <= Cardinality(Open(s) \ {i})
    BY <2>1, <2>2, FS_Subset
  <2>4. Cardinality(Open(t)) \in Nat
    BY PlansAreFinite
  <2>5. QED
    BY <1>1, <2>2, <2>3, <2>4
<1>5. QED
  BY <1>3, <1>4

\* A search whose phase ends has less left.
LEMMA FailingRunsDown ==
  ASSUME NEW s \in Search, s.pc \in Running, WithinCalls(s), NEW pc \in {"done", "failed"},
         NEW t, t = [s EXCEPT !.pc = pc]
  PROVE  WithinCalls(t) /\ Remaining(t) < Remaining(s)
<1>1. t \in Search /\ t.calls = s.calls /\ t.pc = pc /\ t.exhausted = s.exhausted
  BY DEF Search
<1>2. WithinCalls(t)
  BY <1>1 DEF WithinCalls
<1>3. Cardinality(Open(t)) = Cardinality(Open(s)) /\ Cardinality(Open(s)) \in Nat
  BY <1>1, PlansAreFinite DEF Open
<1>4. PhasesLeft(t) = 0 /\ PhasesLeft(s) \in {1, 2}
  BY <1>1 DEF PhasesLeft, Running
<1>5. s.calls \in Nat /\ MaximumSearchCalls \in Nat
  BY SearchAssumption DEF Search
<1>6. QED
  BY <1>1, <1>2, <1>3, <1>4, <1>5 DEF Remaining

\* Every step of an operation.
LEMMA StepRunsDown ==
  ASSUME TypeOK, NEW o \in Operations, WithinCalls(search[o]), Step(o)
  PROVE  /\ WithinCalls(search'[o])
         /\ search[o].pc \in Running /\ Remaining(search'[o]) < Remaining(search[o])
         /\ \A p \in Operations \ {o} : search'[p] = search[p]
<1> DEFINE s == search[o]
           t == search'[o]
<1>1. /\ s \in Search /\ s.calls \in Nat /\ MaximumSearchCalls \in Nat
      /\ s.exhausted \subseteq Plans /\ s.searched \subseteq Plans
      /\ Cardinality(Open(s)) \in Nat
  BY PlansAreFinite, SearchAssumption DEF TypeOK, Search
<1>2. s.calls <= MaximumSearchCalls
  BY DEF WithinCalls
<1>3. search \in [Operations -> Search]
  BY DEF TypeOK
<1>4. CASE ClaimPage(o)
  <2>1. PICK i \in Plans :
          /\ MayCall(o)
          /\ search' = [search EXCEPT ![o].pc = "call", ![o].plan = i,
                                      ![o].page = cursor[<<i, search[o].filter>>].nextPage]
    BY <1>4 DEF ClaimPage
  <2>2. /\ t = [s EXCEPT !.pc = "call", !.plan = i, !.page = cursor[<<i, s.filter>>].nextPage]
        /\ \A p \in Operations \ {o} : search'[p] = search[p]
    BY <1>3, <2>1
  <2> HIDE DEF t
  <2>3. t.pc = "call" /\ t.calls = s.calls /\ t.exhausted = s.exhausted
    BY <1>1, <2>2 DEF Search
  <2>4. s.pc = "choose" /\ s.calls < MaximumSearchCalls
    BY <2>1 DEF MayCall
  <2>5. PhasesLeft(t) = 1 /\ PhasesLeft(s) = 2 /\ Open(t) = Open(s)
    BY <2>3, <2>4 DEF PhasesLeft, Open
  <2>6. Remaining(t) < Remaining(s)
    BY <1>1, <1>2, <2>3, <2>5 DEF Remaining
  <2>7. QED
    BY <2>2, <2>3, <2>4, <2>6 DEF WithinCalls, Running, t
<1>5. CASE FindExhausted(o)
  <2>1. PICK i \in Plans :
          MayCall(o) /\ IsNext(search[o], i) /\ search' = [search EXCEPT ![o] = Exhausted(@, i)]
    BY <1>5 DEF FindExhausted
  <2>2. /\ t = [s EXCEPT !.exhausted = s.exhausted \cup {i}]
        /\ \A p \in Operations \ {o} : search'[p] = search[p]
    BY <1>3, <2>1 DEF Exhausted
  <2> HIDE DEF t
  <2>3. t.pc = s.pc /\ t.calls = s.calls /\ t.exhausted = s.exhausted \cup {i} /\ t \in Search
    BY <1>1, <2>2 DEF Search
  <2>4. i \in Open(s)
    BY <2>1 DEF IsNext, Candidates, Turns
  <2>5. Cardinality(Open(t)) < Cardinality(Open(s)) /\ Cardinality(Open(t)) \in Nat
    BY <1>1, <2>3, <2>4, OpenShrinks, PlansAreFinite
  <2>6. PhasesLeft(t) = PhasesLeft(s) /\ PhasesLeft(s) \in Nat
    BY <2>3 DEF PhasesLeft
  <2>7. Remaining(t) < Remaining(s)
    BY <1>1, <1>2, <2>3, <2>5, <2>6 DEF Remaining
  <2>8. QED
    BY <2>1, <2>2, <2>3, <2>7 DEF WithinCalls, Running, MayCall, t
<1>6. CASE Stop(o)
  <2>1. s.pc \in Running /\ t = [s EXCEPT !.pc = "done"]
        /\ \A p \in Operations \ {o} : search'[p] = search[p]
    BY <1>3, <1>6 DEF Stop, Running
  <2>2. QED
    BY <1>1, <2>1, FailingRunsDown
<1>7. CASE Answer(o)
  <2>1. PICK total \in 0..MaxTotal, employers \in {"few", "enough"} :
          LET next == Counted(search[o], total, employers) IN
            /\ search[o].pc = "call"
            /\ search' = [search EXCEPT ![o] = [next EXCEPT
                            !.pc = IF Satisfied(next) THEN "done" ELSE "choose"]]
    BY <1>7 DEF Answer
  <2> DEFINE next == Counted(s, total, employers)
  <2>2. /\ s.pc = "call" /\ t = [next EXCEPT !.pc = IF Satisfied(next) THEN "done" ELSE "choose"]
        /\ \A p \in Operations \ {o} : search'[p] = search[p]
    BY <1>3, <2>1
  <2>3. total \in Nat
    BY SearchAssumption
  <2>4. next \in Search
    BY <1>1, <2>3, CountedIsSearch
  <2>5. next.calls = s.calls + 1 /\ s.exhausted \subseteq next.exhausted
    BY <1>1 DEF Counted, Search
  <2> HIDE DEF next, t
  <2>6. /\ t \in Search /\ t.pc \in {"done", "choose"} /\ t.calls = s.calls + 1
        /\ s.exhausted \subseteq t.exhausted
    BY <2>2, <2>4, <2>5 DEF Search
  <2>7. s.calls < MaximumSearchCalls
    BY <2>2 DEF WithinCalls
  <2>8. Cardinality(Open(t)) <= Cardinality(Open(s)) /\ Cardinality(Open(t)) \in Nat
    BY <1>1, <2>6, OpenShrinks, PlansAreFinite
  <2>9. PhasesLeft(t) \in {0, 2} /\ PhasesLeft(s) = 1
    BY <2>2, <2>6 DEF PhasesLeft
  <2>10. Remaining(t) < Remaining(s)
    BY <1>1, <2>6, <2>7, <2>8, <2>9 DEF Remaining
  <2>11. QED
    BY <1>1, <2>2, <2>6, <2>7, <2>10 DEF WithinCalls, Running, t
<1>8. CASE AnswerRejected(o)
  <2>1. s.pc \in Running /\ t = [s EXCEPT !.pc = "failed"]
        /\ \A p \in Operations \ {o} : search'[p] = search[p]
    BY <1>3, <1>8 DEF AnswerRejected, Running
  <2>2. QED
    BY <1>1, <2>1, FailingRunsDown
<1>9. CASE SearchFails(o)
  <2>1. s.pc \in Running /\ t = [s EXCEPT !.pc = "failed"]
        /\ \A p \in Operations \ {o} : search'[p] = search[p]
    BY <1>3, <1>9 DEF SearchFails, Running
  <2>2. QED
    BY <1>1, <2>1, FailingRunsDown
<1>10. QED
  BY <1>4, <1>5, <1>6, <1>7, <1>8, <1>9 DEF Step

\* Searches that begin or crash.
LEMMA OtherRunsDown ==
  ASSUME TypeOK, CallsBounded, Crash \/ (\E o \in Operations : Begin(o)) \/ UNCHANGED vars
  PROVE  CallsBounded' /\ RunsDown
<1>1. search \in [Operations -> Search]
  BY DEF TypeOK
<1>2. CASE Crash
  <2> SUFFICES ASSUME NEW o \in Operations
               PROVE  /\ WithinCalls(search'[o])
                      /\ search[o].pc \in Running /\ search'[o] # search[o]
                           => Remaining(search'[o]) < Remaining(search[o])
    BY DEF CallsBounded, RunsDown
  <2>1. WithinCalls(search[o]) /\ search[o] \in Search
    BY <1>1 DEF CallsBounded
  <2>2. CASE search[o].pc \in Running
    <3>1. search'[o] = [search[o] EXCEPT !.pc = "failed"]
      BY <1>2, <2>2 DEF Crash, Running
    <3>2. QED
      BY <2>1, <2>2, <3>1, FailingRunsDown
  <2>3. CASE search[o].pc \notin Running
    <3>1. search'[o] = search[o]
      BY <1>2, <2>3 DEF Crash, Running
    <3>2. QED
      BY <2>1, <3>1
  <2>4. QED
    BY <2>2, <2>3
<1>3. CASE \E o \in Operations : Begin(o)
  <2>1. PICK o \in Operations : Begin(o)
    BY <1>3
  <2>2. /\ search[o].pc = "idle" /\ search'[o] = Started(search[o].filter)
        /\ \A p \in Operations \ {o} : search'[p] = search[p]
    BY <1>1, <2>1 DEF Begin
  <2>3. WithinCalls(search'[o])
    BY <2>2, SearchAssumption DEF WithinCalls, Started
  <2>4. QED
    BY <2>2, <2>3 DEF CallsBounded, RunsDown, Running
<1>4. CASE UNCHANGED vars
  BY <1>4 DEF vars, CallsBounded, RunsDown
<1>5. QED
  BY <1>2, <1>3, <1>4

LEMMA CallsStart == Init => CallsBounded
<1>1. \A f \in Filters : WithinCalls([Started(f) EXCEPT !.pc = "idle"])
  BY SearchAssumption DEF WithinCalls, Started
<1>2. QED
  BY <1>1 DEF Init, CallsBounded

LEMMA NextRunsDown ==
  ASSUME TypeOK, CallsBounded, [Next]_vars
  PROVE  CallsBounded' /\ RunsDown
<1>1. CASE \E o \in Operations : Step(o)
  <2>1. PICK o \in Operations : Step(o)
    BY <1>1
  <2>2. /\ WithinCalls(search'[o])
        /\ Remaining(search'[o]) < Remaining(search[o])
        /\ \A p \in Operations \ {o} : search'[p] = search[p]
    BY <2>1, StepRunsDown DEF CallsBounded
  <2>3. QED
    BY <2>2 DEF CallsBounded, RunsDown
<1>2. QED
  BY <1>1, OtherRunsDown DEF Next

\* No search makes more calls than the policy allows, what is left of a running search is a
\* natural number, and each of its steps lowers it, whatever the answers say of the pages
\* that are left and whoever else claims them (searchPeople's loop).
THEOREM SearchesRunDown ==
  Spec => /\ []CallsBounded
          /\ [](\A o \in Operations : Remaining(search[o]) \in Nat)
          /\ [][RunsDown]_vars
<1>1. TypeOK /\ CallsBounded /\ [Next]_vars => CallsBounded'
  BY NextRunsDown
<1>2. TypeOK /\ CallsBounded /\ [Next]_vars => [RunsDown]_vars
  BY NextRunsDown
<1>3. TypeOK /\ CallsBounded => \A o \in Operations : Remaining(search[o]) \in Nat
  BY RemainingType DEF TypeOK, CallsBounded
<1>4. QED
  BY <1>1, <1>2, <1>3, CallsStart, TypeCorrect, PTL DEF Spec

\* A set of natural numbers has a least element.
LEMMA LeastExists ==
  ASSUME NEW S, S \subseteq Nat, S # {}
  PROVE  \E n \in S : \A m \in S : n <= m
<1> DEFINE R == OpToRel(<, Nat)
<1>1. IsWellFoundedOn(R, Nat)
  BY NatLessThanWellFounded
<1>2. \A a, b \in Nat : <<a, b>> \in R <=> a < b
  BY DEF OpToRel
<1> HIDE DEF R
<1>3. PICK x \in S : \A y \in S : ~ (<<y, x>> \in R)
  BY <1>1, WFMin
<1>4. ASSUME NEW m \in S PROVE x <= m
  <2>1. x \in Nat /\ m \in Nat
    OBVIOUS
  <2>2. ~ (<<m, x>> \in R)
    BY <1>3
  <2>3. ~ (m < x)
    BY <1>2, <2>1, <2>2, Zenon
  <2>4. QED
    BY <2>1, <2>3
<1>5. QED
  BY <1>4

\* A running search is never stuck: as long as it has calls and open plans one of them is
\* next, and that has a page to claim or none.
THEOREM SearchesGoOn == Spec => []GoesOn
<1>1. ASSUME TypeOK, CallsBounded PROVE GoesOn
  <2> SUFFICES ASSUME NEW o \in Operations, search[o].pc = "choose",
                      search[o].calls # MaximumSearchCalls, Open(search[o]) # {}
               PROVE  \E i \in Plans : MayCall(o) /\ IsNext(search[o], i)
    BY DEF GoesOn, Running
  <2>1. Candidates(search[o]) # {} /\ Candidates(search[o]) \subseteq Plans
    BY DEF Candidates, Turns, Open
  <2>2. Plans \subseteq Nat
    BY DEF Plans
  <2>3. PICK i \in Candidates(search[o]) : \A j \in Candidates(search[o]) : i <= j
    BY <2>1, <2>2, LeastExists
  <2>4. search[o].calls < MaximumSearchCalls
    BY <1>1, SearchAssumption DEF CallsBounded, WithinCalls, TypeOK, Search
  <2>5. MayCall(o)
    BY <2>4 DEF MayCall
  <2>6. QED
    BY <2>1, <2>3, <2>5 DEF IsNext
<1>2. TypeOK /\ CallsBounded /\ [Next]_vars => CallsBounded'
  BY NextRunsDown
<1>3. QED
  BY <1>1, <1>2, CallsStart, TypeCorrect, PTL DEF Spec
=============================================================================
