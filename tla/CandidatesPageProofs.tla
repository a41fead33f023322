------------------------- MODULE CandidatesPageProofs -------------------------
(***************************************************************************)
(* Proofs about CandidatesPage for every list of people, every set of      *)
(* groups, request identifiers and settings, and any number of             *)
(* submissions, decisions and changes made elsewhere.                      *)
(***************************************************************************)
EXTENDS CandidatesPage, Totals, FiniteSetTheorems, FunctionTheorems, WellFoundedInduction, TLAPS

(***************************************************************************)
(* What the total of what is held rests on.                                *)
(***************************************************************************)

\* An interval from one has its length.
LEMMA IntervalIsFinite ==
  ASSUME NEW n \in Nat
  PROVE  IsFiniteSet(1 .. n) /\ Cardinality(1 .. n) = n
<1>1. 1 \in Int /\ n \in Int
  OBVIOUS
<1>2. QED
  BY <1>1, FS_Interval

\* One term has as many units as it says.
LEMMA UnitsOfOne ==
  ASSUME NEW x, NEW n \in Nat
  PROVE  IsFiniteSet({x} \X (1 .. n)) /\ Cardinality({x} \X (1 .. n)) = n
<1>1. IsFiniteSet({x}) /\ Cardinality({x}) = 1
  BY FS_Singleton
<1>2. IsFiniteSet({x} \X (1 .. n)) /\ Cardinality({x} \X (1 .. n)) = Cardinality({x}) * Cardinality(1 .. n)
  BY <1>1, IntervalIsFinite, FS_Product
<1>3. QED
  BY <1>1, <1>2, IntervalIsFinite

\* A total is a natural number.
LEMMA UnitsAreFinite ==
  ASSUME NEW S, IsFiniteSet(S), NEW f \in [S -> Nat]
  PROVE  IsFiniteSet(Units(f)) /\ Total(f) \in Nat
<1> DEFINE T == {{x} \X (1 .. f[x]) : x \in S}
           g == [x \in S |-> {x} \X (1 .. f[x])]
<1>1. g \in Surjection(S, T)
  BY DEF Surjection
<1>2. IsFiniteSet(T)
  BY <1>1, FS_Surjection
<1>3. \A U \in T : IsFiniteSet(U)
  <2>1. \A x \in S : f[x] \in Nat
    OBVIOUS
  <2>2. \A x \in S : IsFiniteSet({x} \X (1 .. f[x]))
    BY <2>1, UnitsOfOne
  <2>3. QED
    BY <2>2
<1>4. Units(f) = UNION T
  BY DEF Units
<1> HIDE DEF T
<1>5. IsFiniteSet(Units(f))
  BY <1>2, <1>3, <1>4, FS_UNION
<1>6. QED
  BY <1>5, FS_CardinalityType DEF Total

\* A total is one of its terms and the total of the others.
LEMMA TotalWithout ==
  ASSUME NEW S, IsFiniteSet(S), NEW f \in [S -> Nat], NEW x \in S
  PROVE  Total(f) = f[x] + Total([y \in S \ {x} |-> f[y]])
<1> DEFINE R == S \ {x}
           g == [y \in R |-> f[y]]
<1>1. IsFiniteSet(R) /\ g \in [R -> Nat]
  BY FS_RemoveElement
<1>2. Units(f) = Units(g) \cup ({x} \X (1 .. f[x]))
  BY DEF Units
<1>3. Units(g) \cap ({x} \X (1 .. f[x])) = {}
  BY DEF Units
<1> HIDE DEF R, g
<1>4. IsFiniteSet(Units(g)) /\ Total(g) \in Nat
  BY <1>1, UnitsAreFinite
<1>5. /\ IsFiniteSet({x} \X (1 .. f[x])) /\ Cardinality({x} \X (1 .. f[x])) = f[x]
      /\ f[x] \in Nat
  BY UnitsOfOne
<1>6. Cardinality(Units(f)) = Cardinality(Units(g)) + Cardinality({x} \X (1 .. f[x])) - Cardinality({})
  BY <1>2, <1>3, <1>4, <1>5, FS_Union
<1>7. Cardinality({}) = 0
  BY FS_EmptySet
<1>8. QED
  BY <1>4, <1>5, <1>6, <1>7 DEF Total, R, g

\* A total changes with one of its terms.
LEMMA TotalChanges ==
  ASSUME NEW S, IsFiniteSet(S), NEW f \in [S -> Nat], NEW g \in [S -> Nat], NEW x \in S,
         \A y \in S \ {x} : f[y] = g[y]
  PROVE  Total(g) = (Total(f) - f[x]) + g[x]
<1>1. [y \in S \ {x} |-> f[y]] = [y \in S \ {x} |-> g[y]]
  OBVIOUS
<1>2. /\ Total(f) = f[x] + Total([y \in S \ {x} |-> f[y]])
      /\ Total(g) = g[x] + Total([y \in S \ {x} |-> g[y]])
  BY TotalWithout
<1>3. IsFiniteSet(S \ {x}) /\ [y \in S \ {x} |-> f[y]] \in [S \ {x} -> Nat]
  BY FS_RemoveElement
<1>4. Total([y \in S \ {x} |-> f[y]]) \in Nat /\ f[x] \in Nat /\ g[x] \in Nat
  BY <1>3, UnitsAreFinite
<1>5. QED
  BY <1>1, <1>2, <1>4

\* Nothing adds up to nothing.
LEMMA TotalOfNothing ==
  ASSUME NEW S, NEW f \in [S -> Nat], \A x \in S : f[x] = 0
  PROVE  Total(f) = 0
<1>1. Units(f) = {}
  BY DEF Units
<1>2. QED
  BY <1>1, FS_EmptySet DEF Total

(***************************************************************************)
(* The inductive invariant.                                                *)
(***************************************************************************)

States == {"none", "authorized", "completed", "failed"}
Steps  == {"none", "sent", "checked", "running", "done", "over"}

RunType == [state : States, group : Scope, maximum : Nat, seen : Scope, shown : Nat,
            today : {"yes", "no"}]
TryType == [step : Steps, request : Requests \cup {NoRequest}, group : Scope, seen : Scope,
            asked : Nat, shown : Nat, policy : LimitsOf, answer : {"none", "page", "threw"}]
PageType   == [group : Scope, findMore : BOOLEAN, stage : [People -> Stages],
               most : 0..LargestPerRun, request : Requests \cup {NoRequest}]
ClientType == [group : Scope, selected : Person]

\* The store and the tab are of their types.
StoreTypes ==
  /\ Valid(limits) /\ exposure \in Nat /\ others \in Nat /\ loosest \in Nat
  /\ overcharged \in Nat
  /\ runs \in [Requests -> RunType] /\ people \in PeopleRecord
TabTypes ==
  /\ page \in PageType /\ client \in ClientType /\ tab \in {"idle", "waiting", "error", "away"}
  /\ tries \in [Tries -> TryType]
  /\ decisions \in 0..MaxDecisions /\ elsewhere \in 0..MaxElsewhere

\* A search runs under the request of one submission only, and that request is
\* authorized: no two submissions ever share a search.
RunningInv ==
  /\ \A t \in Tries : tries[t].step \in {"sent", "checked", "running"} => tries[t].request \in Requests
  /\ \A t \in Tries : tries[t].step = "running" => runs[tries[t].request].state = "authorized"
  /\ \A t, u \in Tries : /\ tries[t].step = "running" /\ tries[u].step = "running"
                         /\ tries[t].request = tries[u].request
                         => t = u

\* The group of a submission is the one shown when it was confirmed, from the
\* confirmation until the search is authorized and ever after.
ShownInv ==
  /\ \A t \in Tries : tries[t].step \in {"sent", "checked"} => tries[t].group = tries[t].seen
  /\ SearchesTheShownGroup

\* What each submission holds of today's exposure.
Held(ts, rs) == [t \in Tries |->
  IF ts[t].step = "running" /\ rs[ts[t].request].today = "yes" THEN rs[ts[t].request].maximum ELSE 0]

\* The exposure covers what is held, here and elsewhere.  But for what was overcharged it
\* stays within the largest allowance in force so far, as every policy does that a
\* submission has read.
BudgetInv ==
  /\ FirstLimits.perDay <= loosest /\ limits.perDay <= loosest
  /\ \A t \in Tries : tries[t].policy.perDay <= loosest
  /\ exposure <= loosest + overcharged
  /\ others + Total(Held(tries, runs)) <= exposure

IInv == StoreTypes /\ TabTypes /\ RunningInv /\ ShownInv /\ BudgetInv

(***************************************************************************)
(* The list of people.                                                     *)
(***************************************************************************)

\* Among some natural numbers there is a least one.
LEMMA LeastExists ==
  ASSUME NEW S, S \subseteq Nat, S # {}
  PROVE  \E n \in S : \A m \in S : n <= m
<1> DEFINE R == OpToRel(<, Nat)
<1>1. IsWellFoundedOn(R, Nat)
  BY NatLessThanWellFounded
<1>2. \A a, b \in Nat : <<a, b>> \in R <=> a < b
  BY DEF OpToRel
<1> HIDE DEF R
<1>3. PICK x \in S : \A y \in S : ~ (<<y, x>> \in R)
  BY <1>1, WFMin
<1>4. ASSUME NEW m \in S PROVE x <= m
  <2>1. x \in Nat /\ m \in Nat
    OBVIOUS
  <2>2. ~ (<<m, x>> \in R)
    BY <1>3
  <2>3. ~ (m < x)
    BY <1>2, <2>1, <2>2, Zenon
  <2>4. QED
    BY <2>1, <2>3
<1>5. QED
  BY <1>4

\* Every person has a place in the list.
LEMMA PlaceType ==
  ASSUME NEW p \in People
  PROVE  Place(p) \in 1..Len(Ranked) /\ Ranked[Place(p)] = p
<1>1. DOMAIN Ranked = 1..Len(Ranked)
  BY CandidatesPageAssumption
<1>2. \E i \in 1..Len(Ranked) : Ranked[i] = p
  BY <1>1 DEF People, Range
<1>3. QED
  BY <1>2 DEF Place

\* The first and the last of some people are among them.
LEMMA FirstIsListed ==
  ASSUME NEW S, S \subseteq People, S # {}
  PROVE  FirstOf(S) \in S
<1> DEFINE N == {Place(p) : p \in S}
<1>1. \A p \in S : Place(p) \in Nat
  <2>1. Len(Ranked) \in Nat
    BY CandidatesPageAssumption
  <2>2. QED
    BY <2>1, PlaceType
<1>2. N \subseteq Nat /\ N # {}
  BY <1>1
<1> HIDE DEF N
<1>3. PICK n \in N : \A m \in N : n <= m
  BY <1>2, LeastExists
<1>4. PICK p \in S : Place(p) = n
  BY DEF N
<1>5. \A q \in S : Place(p) <= Place(q)
  BY <1>3, <1>4 DEF N
<1>6. QED
  BY <1>5 DEF FirstOf

LEMMA LastIsListed ==
  ASSUME NEW S, S \subseteq People, S # {}
  PROVE  LastOf(S) \in S
<1> DEFINE N == {Len(Ranked) - Place(p) : p \in S}
<1>1. Len(Ranked) \in Nat
  BY CandidatesPageAssumption
<1>2. \A p \in S : Place(p) \in Nat /\ Place(p) <= Len(Ranked)
  BY <1>1, PlaceType
<1>3. N \subseteq Nat /\ N # {}
  BY <1>1, <1>2
<1>4. PICK n \in N : \A m \in N : n <= m
  <2> HIDE DEF N
  <2>1. QED
    BY <1>3, LeastExists
<1>5. PICK p \in S : Len(Ranked) - Place(p) = n
  OBVIOUS
<1>6. \A q \in S : Len(Ranked) - Place(q) \in N
  OBVIOUS
<1> HIDE DEF N
<1>7. ASSUME NEW q \in S PROVE Place(p) >= Place(q)
  <2>1. n <= Len(Ranked) - Place(q)
    BY <1>4, <1>6
  <2>2. QED
    BY <1>1, <1>2, <1>5, <2>1
<1>8. QED
  BY <1>7 DEF LastOf

\* What the inspector shows, and what it moves on to, is a person or nobody.
LEMMA FirstType ==
  ASSUME NEW S, S \subseteq People
  PROVE  FirstOf(S) \in Person
<1>1. CASE S = {}
  BY <1>1 DEF FirstOf, Person
<1>2. CASE S # {}
  BY <1>2, FirstIsListed DEF Person
<1>3. QED
  BY <1>1, <1>2

LEMMA LastType ==
  ASSUME NEW S, S \subseteq People
  PROVE  LastOf(S) \in Person
<1>1. CASE S = {}
  BY <1>1 DEF LastOf, Person
<1>2. CASE S # {}
  BY <1>2, LastIsListed DEF Person
<1>3. QED
  BY <1>1, <1>2

LEMMA ShownType ==
  ASSUME NEW pg, NEW c
  PROVE  Shown(pg, c) \in Person
<1>1. Rows(pg, c.group) \subseteq People
  BY DEF Rows
<1>2. FirstOf(Rows(pg, c.group)) \in Person
  BY <1>1, FirstType
<1>3. QED
  BY <1>1, <1>2 DEF Shown, Person

LEMMA NextType ==
  ASSUME NEW pg, NEW c
  PROVE  NextOf(pg, c) \in Person
<1> DEFINE shown == Place(Shown(pg, c))
           below == {p \in Rows(pg, c.group) : Place(p) > shown}
           above == {p \in Rows(pg, c.group) : Place(p) < shown}
<1>1. below \subseteq People /\ above \subseteq People
  BY DEF Rows
<1>2. NextOf(pg, c) = IF below # {} THEN FirstOf(below) ELSE LastOf(above)
  BY DEF NextOf
<1> HIDE DEF below, above
<1>3. FirstOf(below) \in Person /\ LastOf(above) \in Person
  BY <1>1, FirstType, LastType
<1>4. QED
  BY <1>2, <1>3

(***************************************************************************)
(* The types of what the tab receives and of what the server authorizes.   *)
(***************************************************************************)

\* The constants the proofs compute with.
LEMMA Bounds ==
  /\ LargestPerDay \in Nat /\ LargestPerRun \in Nat /\ MaxTries \in Nat
  /\ MaxCost \in Nat /\ Excess \in Nat
  /\ MaxDecisions \in Nat /\ MaxElsewhere \in Nat
  /\ FirstLimits \in LimitsOf /\ \A l \in LimitsOf : l.perDay \in Nat /\ l.perRun \in 1..LargestPerRun
<1>1. FirstLimits \in LimitsOf
  BY CandidatesPageAssumption DEF Valid
<1>2. \A l \in LimitsOf : l.perDay \in Nat /\ l.perRun \in 1..LargestPerRun
  BY CandidatesPageAssumption DEF LimitsOf
<1>3. MaxCost \in Nat /\ Excess \in Nat
  BY CandidatesPageAssumption DEF Excess
<1>4. QED
  BY <1>1, <1>2, <1>3, CandidatesPageAssumption

\* What an allowance leaves never exceeds it, and using it up stays within it.
LEMMA RemainingType ==
  ASSUME NEW l \in LimitsOf, NEW used \in Nat
  PROVE  /\ Remaining(l, used) \in Nat
         /\ Remaining(l, used) > 0 => used + Remaining(l, used) = l.perDay
<1>1. l.perDay \in Nat
  BY Bounds
<1>2. QED
  BY <1>1 DEF Remaining

LEMMA LeastType ==
  ASSUME NEW a \in Nat, NEW b \in Nat
  PROVE  Least(a, b) \in Nat /\ Least(a, b) <= a /\ Least(a, b) <= b
BY DEF Least

LEMMA StageType ==
  ASSUME NEW p
  PROVE  Stage(p) \in Stages
BY DEF Stage, Stages

LEMMA RenderedType ==
  ASSUME StoreTypes, NEW g \in Scope, NEW open \in BOOLEAN
  PROVE  Rendered(g, open) \in PageType
<1> DEFINE request == IF Fresh = {} THEN NoRequest ELSE CHOOSE r \in Fresh : TRUE
           most    == Least(limits.perRun, Remaining(limits, exposure))
           stage   == [p \in People |-> Stage(p)]
<1>1. request \in Requests \cup {NoRequest}
  <2>1. Fresh \subseteq Requests
    BY DEF Fresh
  <2>2. QED
    BY <2>1
<1>2. most \in 0..LargestPerRun
  <2>1. limits \in LimitsOf
    BY DEF StoreTypes, Valid
  <2>2. limits.perRun \in 1..LargestPerRun
    BY <2>1, Bounds
  <2>3. Remaining(limits, exposure) \in Nat
    BY <2>1, RemainingType DEF StoreTypes
  <2>4. limits.perRun \in Nat
    BY <2>2, Bounds
  <2>5. most \in Nat /\ most <= limits.perRun
    BY <2>3, <2>4, LeastType
  <2>6. QED
    BY <2>2, <2>4, <2>5, Bounds
<1>3. stage \in [People -> Stages]
  BY StageType
<1>4. Rendered(g, open) = [group |-> g, findMore |-> open, stage |-> stage, most |-> most, request |-> request]
  BY DEF Rendered
<1> HIDE DEF request, most, stage
<1>5. CASE open = TRUE
  BY <1>1, <1>2, <1>3, <1>4, <1>5 DEF PageType
<1>6. CASE open = FALSE
  BY <1>1, <1>2, <1>3, <1>4, <1>6 DEF PageType
<1>7. QED
  BY <1>5, <1>6

LEMMA MountedType ==
  ASSUME NEW pg \in PageType, NEW url \in Person
  PROVE  Mounted(pg, url) \in ClientType
<1>1. Rows(pg, "all") \subseteq People
  BY DEF Rows
<1>2. FirstOf(Rows(pg, "all")) \in Person
  BY <1>1, FirstType
<1>3. pg.group \in Scope
  BY DEF PageType
<1>4. QED
  BY <1>2, <1>3 DEF Mounted, ClientType

LEMMA ReceiveType ==
  ASSUME TabTypes, NEW pg \in PageType, NEW url \in Person, Receive(pg, url)
  PROVE  page' \in PageType /\ client' \in ClientType
<1>1. Mounted(pg, url) \in ClientType
  BY MountedType
<1>2. page' = pg
  BY DEF Receive
<1>3. client' = client \/ client' = Mounted(pg, url)
  BY DEF Receive
<1>4. QED
  BY <1>1, <1>2, <1>3 DEF TabTypes

LEMMA NoTryType ==
  /\ NoTry \in TryType
  /\ \A t \in Tries : TabTypes => tries[t] \in TryType
<1>1. NoTry \in TryType
  BY Bounds DEF NoTry, TryType, Steps, Scope
<1>2. QED
  BY <1>1 DEF TabTypes

\* A submission that is over, and one whose answer is ready, field by field.
LEMMA OverRecord ==
  ASSUME NEW r \in Requests \cup {NoRequest},
         NEW u, u = [NoTry EXCEPT !.step = "over", !.request = r]
  PROVE  u \in TryType /\ u.step = "over" /\ u.request = r /\ u.policy = FirstLimits
BY NoTryType DEF TryType, Steps, NoTry

DoneOf(s, g, answer) == [s EXCEPT !.step = "done", !.answer = answer, !.group = g]

LEMMA DoneRecord ==
  ASSUME NEW s \in TryType, NEW g \in Scope, NEW answer \in {"page", "threw"}
  PROVE  /\ DoneOf(s, g, answer) \in TryType /\ DoneOf(s, g, answer).step = "done"
         /\ DoneOf(s, g, answer).policy = s.policy
<1>1. PICK u : u = [s EXCEPT !.step = "done", !.answer = answer, !.group = g]
  OBVIOUS
<1>2. u \in TryType /\ u.step = "done" /\ u.policy = s.policy
  BY <1>1 DEF TryType, Steps
<1>3. u = DoneOf(s, g, answer)
  BY <1>1, Zenon DEF DoneOf
<1>4. QED
  BY <1>2, <1>3

\* What is left of a submission that is over.
LEMMA DoneType ==
  ASSUME TabTypes, NEW t \in Tries, NEW answer \in {"page", "threw"}
  PROVE  /\ Over(t) \in TryType /\ Over(t).step = "over" /\ Over(t).policy = FirstLimits
         /\ Done(t, answer) \in TryType /\ Done(t, answer).step \in {"done", "over"}
         /\ Done(t, answer).policy = FirstLimits
<1>1. tries[t] \in TryType
  BY NoTryType
<1>2. PICK r \in Requests \cup {NoRequest}, g \in Scope : r = tries[t].request /\ g = tries[t].group
  BY <1>1 DEF TryType
<1>3. PICK over : over = [NoTry EXCEPT !.step = "over", !.request = r]
  OBVIOUS
<1>4. over \in TryType /\ over.step = "over" /\ over.policy = FirstLimits
  BY <1>3, OverRecord, Zenon
<1>5. Over(t) = over
  BY <1>2, <1>3, Zenon DEF Over
<1>6. /\ DoneOf(over, g, answer) \in TryType /\ DoneOf(over, g, answer).step = "done"
      /\ DoneOf(over, g, answer).policy = over.policy
  BY <1>4, DoneRecord
<1>7. Done(t, answer) = DoneOf(over, g, answer) \/ Done(t, answer) = over
  BY <1>2, <1>5, Zenon DEF Done, DoneOf
<1>8. QED
  BY <1>4, <1>5, <1>6, <1>7

\* A submission confirmed, one whose limits were read, and one whose search runs.
SentOf(r, g, c, n, m) == [NoTry EXCEPT !.step = "sent", !.request = r, !.group = g,
                                       !.seen = c, !.asked = n, !.shown = m]
CheckedOf(s, l)       == [s EXCEPT !.policy = l, !.step = "checked"]
RunningOf(s)          == [s EXCEPT !.step = "running"]

LEMMA SentRecord ==
  ASSUME NEW r \in Requests, NEW g \in Scope, NEW c \in Scope, NEW n \in Nat, NEW m \in Nat
  PROVE  /\ SentOf(r, g, c, n, m) \in TryType /\ SentOf(r, g, c, n, m).step = "sent"
         /\ SentOf(r, g, c, n, m).request = r /\ SentOf(r, g, c, n, m).group = g
         /\ SentOf(r, g, c, n, m).seen = c /\ SentOf(r, g, c, n, m).policy = FirstLimits
<1>1. PICK u : u = [NoTry EXCEPT !.step = "sent", !.request = r, !.group = g,
                                 !.seen = c, !.asked = n, !.shown = m]
  OBVIOUS
<1>2. /\ u \in TryType /\ u.step = "sent" /\ u.request = r /\ u.group = g
      /\ u.seen = c /\ u.policy = FirstLimits
  BY <1>1, NoTryType DEF TryType, Steps, NoTry
<1>3. u = SentOf(r, g, c, n, m)
  BY <1>1, Zenon DEF SentOf
<1>4. QED
  BY <1>2, <1>3

LEMMA CheckedRecord ==
  ASSUME NEW s \in TryType, NEW l \in LimitsOf
  PROVE  /\ CheckedOf(s, l) \in TryType /\ CheckedOf(s, l).step = "checked"
         /\ CheckedOf(s, l).request = s.request /\ CheckedOf(s, l).group = s.group
         /\ CheckedOf(s, l).seen = s.seen /\ CheckedOf(s, l).policy = l
<1>1. PICK u : u = [s EXCEPT !.policy = l, !.step = "checked"]
  OBVIOUS
<1>2. /\ u \in TryType /\ u.step = "checked" /\ u.request = s.request /\ u.group = s.group
      /\ u.seen = s.seen /\ u.policy = l
  BY <1>1 DEF TryType, Steps
<1>3. u = CheckedOf(s, l)
  BY <1>1, Zenon DEF CheckedOf
<1>4. QED
  BY <1>2, <1>3

LEMMA RunningRecord ==
  ASSUME NEW s \in TryType
  PROVE  /\ RunningOf(s) \in TryType /\ RunningOf(s).step = "running"
         /\ RunningOf(s).request = s.request /\ RunningOf(s).policy = s.policy
<1>1. PICK u : u = [s EXCEPT !.step = "running"]
  OBVIOUS
<1>2. u \in TryType /\ u.step = "running" /\ u.request = s.request /\ u.policy = s.policy
  BY <1>1 DEF TryType, Steps
<1>3. u = RunningOf(s)
  BY <1>1, Zenon DEF RunningOf
<1>4. QED
  BY <1>2, <1>3

\* A search that ends, and one whose day is over.
EndedOf(q, state) == [q EXCEPT !.state = state]
PastOf(q)         == [q EXCEPT !.today = "no"]

LEMMA EndedRecord ==
  ASSUME NEW q \in RunType, NEW state \in {"completed", "failed"}
  PROVE  /\ EndedOf(q, state) \in RunType /\ EndedOf(q, state).state = state
         /\ EndedOf(q, state).group = q.group /\ EndedOf(q, state).seen = q.seen
         /\ EndedOf(q, state).maximum = q.maximum /\ EndedOf(q, state).today = q.today
<1>1. PICK u : u = [q EXCEPT !.state = state]
  OBVIOUS
<1>2. /\ u \in RunType /\ u.state = state /\ u.group = q.group /\ u.seen = q.seen
      /\ u.maximum = q.maximum /\ u.today = q.today
  BY <1>1 DEF RunType, States
<1>3. u = EndedOf(q, state)
  BY <1>1, Zenon DEF EndedOf
<1>4. QED
  BY <1>2, <1>3

LEMMA PastRecord ==
  ASSUME NEW q \in RunType
  PROVE  /\ PastOf(q) \in RunType /\ PastOf(q).state = q.state
         /\ PastOf(q).group = q.group /\ PastOf(q).seen = q.seen
         /\ PastOf(q).maximum = q.maximum /\ PastOf(q).today = "no"
<1>1. PICK u : u = [q EXCEPT !.today = "no"]
  OBVIOUS
<1>2. /\ u \in RunType /\ u.state = q.state /\ u.group = q.group /\ u.seen = q.seen
      /\ u.maximum = q.maximum /\ u.today = "no"
  BY <1>1 DEF RunType
<1>3. u = PastOf(q)
  BY <1>1, Zenon DEF PastOf
<1>4. QED
  BY <1>2, <1>3

(***************************************************************************)
(* What is held of the exposure.                                           *)
(***************************************************************************)

\* Every running submission names a request.
Named(ts) == \A t \in Tries : ts[t].step = "running" => ts[t].request \in Requests

LEMMA TriesAreFinite == IsFiniteSet(Tries)
BY Bounds, IntervalIsFinite DEF Tries

LEMMA HeldType ==
  ASSUME NEW ts \in [Tries -> TryType], NEW rs \in [Requests -> RunType], Named(ts)
  PROVE  Held(ts, rs) \in [Tries -> Nat] /\ Total(Held(ts, rs)) \in Nat
<1>1. ASSUME NEW t \in Tries
      PROVE  (IF ts[t].step = "running" /\ rs[ts[t].request].today = "yes"
              THEN rs[ts[t].request].maximum ELSE 0) \in Nat
  <2>1. CASE ts[t].step = "running"
    <3>1. rs[ts[t].request] \in RunType
      BY <2>1 DEF Named
    <3>2. rs[ts[t].request].maximum \in Nat
      BY <3>1 DEF RunType
    <3>3. QED
      BY <3>2
  <2>2. CASE ts[t].step # "running"
    BY <2>2
  <2>3. QED
    BY <2>1, <2>2
<1>2. Held(ts, rs) \in [Tries -> Nat]
  BY <1>1 DEF Held
<1>3. QED
  BY <1>2, TriesAreFinite, UnitsAreFinite

\* Each submission's part is within the total.
LEMMA HeldWithin ==
  ASSUME NEW ts \in [Tries -> TryType], NEW rs \in [Requests -> RunType], Named(ts), NEW t \in Tries
  PROVE  Held(ts, rs)[t] \in Nat /\ Held(ts, rs)[t] <= Total(Held(ts, rs))
<1> DEFINE f == Held(ts, rs)
           g == [u \in Tries \ {t} |-> f[u]]
<1>1. f \in [Tries -> Nat]
  BY HeldType
<1> HIDE DEF f
<1>2. g \in [Tries \ {t} -> Nat] /\ IsFiniteSet(Tries \ {t})
  BY <1>1, TriesAreFinite, FS_RemoveElement
<1>3. Total(g) \in Nat
  BY <1>2, UnitsAreFinite
<1>4. Total(f) = f[t] + Total(g)
  BY <1>1, TriesAreFinite, TotalWithout
<1>5. f[t] \in Nat
  BY <1>1
<1>6. QED
  BY <1>3, <1>4, <1>5 DEF f

(***************************************************************************)
(* What a step does to the submissions.  Most steps leave them alone, or   *)
(* move one of them that has no search running.                            *)
(***************************************************************************)

Advances(t, u) ==
  /\ tries' = [tries EXCEPT ![t] = u]
  /\ tries[t].step # "running" /\ u.step # "running"
  /\ u.step \in {"sent", "checked"} => u.request \in Requests /\ u.group = u.seen
  /\ u.policy.perDay <= loosest
  /\ UNCHANGED <<limits, exposure, others, runs, loosest, overcharged>>

LEMMA NamesFollow == IInv => Named(tries)
BY DEF IInv, RunningInv, Named

LEMMA QuietKeeps ==
  ASSUME IInv, UNCHANGED <<limits, exposure, others, runs, tries, loosest, overcharged>>
  PROVE  RunningInv' /\ ShownInv' /\ BudgetInv'
<1>1. RunningInv' /\ ShownInv'
  BY DEF IInv, RunningInv, ShownInv, SearchesTheShownGroup
<1>2. Total(Held(tries, runs))' = Total(Held(tries, runs))
  BY Zenon
<1>3. QED
  BY <1>1, <1>2 DEF IInv, BudgetInv

LEMMA AdvanceKeeps ==
  ASSUME IInv, NEW t \in Tries, NEW u \in TryType, Advances(t, u)
  PROVE  tries' \in [Tries -> TryType] /\ RunningInv' /\ ShownInv' /\ BudgetInv'
<1>1. tries \in [Tries -> TryType] /\ runs \in [Requests -> RunType]
  BY DEF IInv, TabTypes, StoreTypes
<1>2. tries' = [tries EXCEPT ![t] = u] /\ runs' = runs
  BY DEF Advances
<1>3. tries' \in [Tries -> TryType] /\ \A v \in Tries : tries'[v] = IF v = t THEN u ELSE tries[v]
  BY <1>1, <1>2
<1>4. RunningInv'
  BY <1>2, <1>3 DEF IInv, RunningInv, Advances
<1>5. ShownInv'
  BY <1>2, <1>3 DEF IInv, ShownInv, SearchesTheShownGroup, Advances
<1>6. Held(tries, runs)' = Held(tries, runs)
  <2>1. ASSUME NEW v \in Tries
        PROVE  (IF tries'[v].step = "running" /\ runs'[tries'[v].request].today = "yes"
                THEN runs'[tries'[v].request].maximum ELSE 0)
               = (IF tries[v].step = "running" /\ runs[tries[v].request].today = "yes"
                  THEN runs[tries[v].request].maximum ELSE 0)
    <3>1. CASE v = t
      BY <1>3, <3>1 DEF Advances
    <3>2. CASE v # t
      <4>1. tries'[v] = tries[v]
        BY <1>3, <3>2
      <4>2. QED
        BY <1>2, <4>1
    <3>3. QED
      BY <3>1, <3>2
  <2>2. QED
    BY <2>1, Zenon DEF Held
<1>7. BudgetInv'
  <2>1. Total(Held(tries, runs))' = Total(Held(tries, runs))
    BY <1>6
  <2>2. \A v \in Tries : tries'[v].policy.perDay <= loosest
    BY <1>3 DEF IInv, BudgetInv, Advances
  <2>3. UNCHANGED <<limits, exposure, others, loosest, overcharged>>
    BY DEF Advances
  <2>4. QED
    BY <2>1, <2>2, <2>3 DEF IInv, BudgetInv
<1>8. QED
  BY <1>3, <1>4, <1>5, <1>7

(***************************************************************************)
(* The initial state, and one step of each action.                         *)
(***************************************************************************)

LEMMA Initially == Init => IInv
<1> SUFFICES ASSUME Init PROVE IInv
  OBVIOUS
<1>1. runs \in [Requests -> RunType] /\ \A r \in Requests : runs[r] = NoRun
  <2>1. NoRun \in RunType
    BY DEF NoRun, RunType, States, Scope
  <2>2. QED
    BY <2>1 DEF Init
<1>2. /\ Valid(limits) /\ exposure \in Nat /\ others \in Nat /\ loosest \in Nat
      /\ limits.perDay \in Nat /\ limits.perDay <= loosest /\ others <= exposure
      /\ overcharged \in Nat /\ exposure <= loosest + overcharged
  <2>1. limits = FirstLimits /\ Valid(FirstLimits) /\ FirstLimits.perDay \in Nat
    BY CandidatesPageAssumption, Bounds DEF Init
  <2>2. exposure \in 0..FirstLimits.perDay /\ others = exposure /\ loosest = FirstLimits.perDay
        /\ overcharged = 0
    BY CandidatesPageAssumption DEF Init
  <2>3. QED
    BY <2>1, <2>2
<1>3. people \in PeopleRecord
  BY CandidatesPageAssumption DEF Init, PeopleRecord
<1>4. StoreTypes
  BY <1>1, <1>2, <1>3 DEF StoreTypes
<1>5. page \in PageType /\ client \in ClientType
  <2>1. page = Rendered("all", FALSE) /\ client = Mounted(page, "nobody")
    BY DEF Init
  <2>2. "all" \in Scope /\ FALSE \in BOOLEAN /\ "nobody" \in Person
    BY DEF Scope, Person
  <2>3. page \in PageType
    BY <1>4, <2>1, <2>2, RenderedType
  <2>4. QED
    BY <2>1, <2>2, <2>3, MountedType
<1>6. tries \in [Tries -> TryType] /\ \A t \in Tries : tries[t] = NoTry
  BY NoTryType DEF Init
<1>7. TabTypes
  <2>1. MaxDecisions \in Nat /\ MaxElsewhere \in Nat
    BY Bounds
  <2>2. tab = "idle" /\ decisions = 0 /\ elsewhere = 0
    BY DEF Init
  <2>3. decisions \in 0..MaxDecisions /\ elsewhere \in 0..MaxElsewhere
    BY <2>1, <2>2
  <2>4. QED
    BY <1>5, <1>6, <2>2, <2>3 DEF TabTypes
<1>8. NoTry.step = "none" /\ NoTry.policy = FirstLimits /\ NoRun.state = "none"
  BY DEF NoTry, NoRun
<1>9. RunningInv /\ ShownInv
  BY <1>1, <1>6, <1>8 DEF RunningInv, ShownInv, SearchesTheShownGroup
<1>10. Total(Held(tries, runs)) = 0
  <2>1. Held(tries, runs) \in [Tries -> Nat]
    BY <1>1, <1>6, <1>8, HeldType DEF Named
  <2>2. \A t \in Tries : Held(tries, runs)[t] = 0
    BY <1>6, <1>8 DEF Held
  <2>3. QED
    BY <2>1, <2>2, TotalOfNothing
<1>11. BudgetInv
  BY <1>2, <1>6, <1>8, <1>10 DEF BudgetInv, Init
<1>12. QED
  BY <1>4, <1>7, <1>9, <1>11 DEF IInv

LEMMA SelectGroupKeeps ==
  ASSUME IInv, NEW g \in Scope, SelectGroup(g)
  PROVE  IInv'
<1>1. RunningInv' /\ ShownInv' /\ BudgetInv'
  BY QuietKeeps DEF SelectGroup, store
<1>2. StoreTypes'
  BY DEF IInv, StoreTypes, SelectGroup, store
<1>3. client' \in ClientType
  <2>1. Rows(page, g) \subseteq People
    BY DEF Rows
  <2>2. FirstOf(Rows(page, g)) \in Person
    BY <2>1, FirstType
  <2>3. client.selected \in Person
    BY DEF IInv, TabTypes, ClientType
  <2> DEFINE next == IF client.selected \in Rows(page, g) THEN client.selected ELSE FirstOf(Rows(page, g))
  <2>4. next \in Person
    BY <2>2, <2>3
  <2>5. client' = [group |-> g, selected |-> next]
    BY DEF SelectGroup
  <2> HIDE DEF next
  <2>6. QED
    BY <2>4, <2>5 DEF ClientType
<1>4. TabTypes'
  BY <1>3 DEF IInv, TabTypes, SelectGroup, store
<1>5. QED
  BY <1>1, <1>2, <1>4 DEF IInv

LEMMA SelectPersonKeeps ==
  ASSUME IInv, NEW p \in People, SelectPerson(p)
  PROVE  IInv'
<1>1. RunningInv' /\ ShownInv' /\ BudgetInv'
  BY QuietKeeps DEF SelectPerson, store
<1>2. StoreTypes'
  BY DEF IInv, StoreTypes, SelectPerson, store
<1>3. client' \in ClientType
  BY DEF IInv, TabTypes, ClientType, SelectPerson, Person
<1>4. TabTypes'
  BY <1>3 DEF IInv, TabTypes, SelectPerson, store
<1>5. QED
  BY <1>1, <1>2, <1>4 DEF IInv

LEMMA FindPeopleKeeps ==
  ASSUME IInv, NEW g \in Groups, FindPeople(g)
  PROVE  IInv'
<1>1. RunningInv' /\ ShownInv' /\ BudgetInv'
  BY QuietKeeps DEF FindPeople, store
<1>2. StoreTypes'
  BY DEF IInv, StoreTypes, FindPeople, store
<1>3. Rendered(g, TRUE) \in PageType
  <2>1. g \in Scope /\ TRUE \in BOOLEAN
    BY DEF Scope
  <2>2. QED
    BY <2>1, RenderedType DEF IInv
<1>4. page' \in PageType /\ client' \in ClientType
  <2>1. Receive(Rendered(g, TRUE), "nobody") /\ "nobody" \in Person
    BY DEF FindPeople, Person
  <2>2. QED
    BY <1>3, <2>1, ReceiveType DEF IInv
<1>5. TabTypes'
  BY <1>4 DEF IInv, TabTypes, FindPeople
<1>6. QED
  BY <1>1, <1>2, <1>5 DEF IInv

LEMMA VisitKeeps ==
  ASSUME IInv, NEW g \in Scope, Visit(g)
  PROVE  IInv'
<1>1. RunningInv' /\ ShownInv' /\ BudgetInv'
  BY QuietKeeps DEF Visit, store
<1>2. StoreTypes'
  BY DEF IInv, StoreTypes, Visit, store
<1>3. page' \in PageType
  <2>1. FALSE \in BOOLEAN /\ page' = Rendered(g, FALSE)
    BY DEF Visit
  <2>2. QED
    BY <2>1, RenderedType DEF IInv
<1>4. client' \in ClientType
  <2>1. client' = Mounted(page', "nobody") /\ "nobody" \in Person
    BY DEF Visit, Person
  <2>2. QED
    BY <1>3, <2>1, MountedType
<1>5. TabTypes'
  BY <1>3, <1>4 DEF IInv, TabTypes, Visit
<1>6. QED
  BY <1>1, <1>2, <1>5 DEF IInv

LEMMA TryAgainKeeps ==
  ASSUME IInv, TryAgain
  PROVE  IInv'
<1>1. RunningInv' /\ ShownInv' /\ BudgetInv'
  BY QuietKeeps DEF TryAgain, store
<1>2. StoreTypes'
  BY DEF IInv, StoreTypes, TryAgain, store
<1>3. client' \in ClientType
  <2>1. client' = Mounted(page, "nobody") /\ "nobody" \in Person /\ page \in PageType
    BY DEF TryAgain, Person, IInv, TabTypes
  <2>2. QED
    BY <2>1, MountedType
<1>4. TabTypes'
  BY <1>3 DEF IInv, TabTypes, TryAgain
<1>5. QED
  BY <1>1, <1>2, <1>4 DEF IInv

LEMMA ConfirmKeeps ==
  ASSUME IInv, NEW n \in Sizes, Confirm(n)
  PROVE  IInv'
<1>1. /\ ConfirmationShown /\ page.request # NoRequest
      /\ UNCHANGED <<store, page, client, decisions, elsewhere, loosest, overcharged>>
  BY DEF Confirm
<1>2. PICK t \in Tries :
        /\ tries[t].step = "none"
        /\ tries' = [tries EXCEPT ![t] =
             [NoTry EXCEPT !.step = "sent", !.request = page.request, !.group = page.group,
                           !.seen = client.group, !.asked = n, !.shown = ShownMaximum(n)]]
        /\ tab' = "waiting"
  BY DEF Confirm
<1>3. /\ page.request \in Requests /\ page.group \in Scope /\ client.group = page.group /\ page.most \in Nat
  <2>1. page \in PageType /\ client \in ClientType
    BY DEF IInv, TabTypes
  <2>2. page.most \in 0..LargestPerRun
    BY <2>1 DEF PageType
  <2>3. QED
    BY <1>1, <2>1, <2>2, Bounds DEF PageType, ConfirmationShown
<1>4. n \in Nat
  BY CandidatesPageAssumption
<1>5. PICK r \in Requests, g \in Scope, m \in Nat :
        /\ r = page.request /\ g = page.group /\ g = client.group /\ m = ShownMaximum(n)
  <2>1. ShownMaximum(n) \in Nat
    BY <1>3, <1>4, LeastType DEF ShownMaximum
  <2>2. QED
    BY <1>3, <2>1
<1> DEFINE u == SentOf(r, g, g, n, m)
<1>6. /\ u \in TryType /\ u.step = "sent" /\ u.request = r /\ u.group = g /\ u.seen = g
      /\ u.policy = FirstLimits
  BY <1>4, SentRecord
<1>7. tries' = [tries EXCEPT ![t] = u]
  BY <1>2, <1>5, Zenon DEF SentOf
<1> HIDE DEF u
<1>8. Advances(t, u)
  <2>1. FirstLimits.perDay <= loosest
    BY DEF IInv, BudgetInv
  <2>2. QED
    BY <1>1, <1>2, <1>6, <1>7, <2>1 DEF Advances, store
<1>9. tries' \in [Tries -> TryType] /\ RunningInv' /\ ShownInv' /\ BudgetInv'
  BY <1>6, <1>8, AdvanceKeeps
<1>10. StoreTypes' /\ TabTypes'
  BY <1>1, <1>2, <1>9 DEF IInv, StoreTypes, TabTypes, store
<1>11. QED
  BY <1>9, <1>10 DEF IInv

\* The server action ends without a search: nothing of the store changes.
LEMMA RefusedKeeps ==
  ASSUME IInv, NEW t \in Tries, NEW answer \in {"page", "threw"}, tries[t].step # "running",
         tries' = [tries EXCEPT ![t] = Done(t, answer)],
         UNCHANGED <<store, page, client, tab, decisions, elsewhere, loosest, overcharged>>
  PROVE  IInv'
<1>1. PICK u \in TryType : u = Done(t, answer) /\ u.step \in {"done", "over"} /\ u.policy = FirstLimits
  BY DoneType DEF IInv
<1>2. tries' = [tries EXCEPT ![t] = u]
  BY <1>1
<1>3. Advances(t, u)
  <2>1. FirstLimits.perDay <= loosest
    BY DEF IInv, BudgetInv
  <2>2. UNCHANGED <<limits, exposure, others, runs, loosest, overcharged>>
    BY DEF store
  <2>3. QED
    BY <1>1, <1>2, <2>1, <2>2 DEF Advances
<1>4. tries' \in [Tries -> TryType] /\ RunningInv' /\ ShownInv' /\ BudgetInv'
  BY <1>3, AdvanceKeeps
<1>5. StoreTypes' /\ TabTypes'
  BY <1>4 DEF IInv, StoreTypes, TabTypes, store
<1>6. QED
  BY <1>4, <1>5 DEF IInv

LEMMA BeginRefreshKeeps ==
  ASSUME IInv, NEW t \in Tries, BeginRefresh(t)
  PROVE  IInv'
<1>1. /\ tries[t].step = "sent"
      /\ UNCHANGED <<store, page, client, tab, decisions, elsewhere, loosest, overcharged>>
  BY DEF BeginRefresh
<1>2. CASE tries' = [tries EXCEPT ![t] = Done(t, "page")]
  BY <1>1, <1>2, RefusedKeeps
<1>3. CASE tries' = [tries EXCEPT ![t] = [@ EXCEPT !.policy = limits, !.step = "checked"]]
  <2>1. PICK s \in TryType : s = tries[t]
    BY DEF IInv, TabTypes
  <2>2. PICK l \in LimitsOf : l = limits
    BY DEF IInv, StoreTypes, Valid
  <2> DEFINE u == CheckedOf(s, l)
  <2>3. /\ u \in TryType /\ u.step = "checked" /\ u.request = s.request
        /\ u.group = s.group /\ u.seen = s.seen /\ u.policy = l
    BY CheckedRecord
  <2>4. tries' = [tries EXCEPT ![t] = u]
    BY <1>3, <2>1, <2>2 DEF CheckedOf
  <2> HIDE DEF u
  <2>5. s.request \in Requests /\ s.group = s.seen /\ l.perDay <= loosest
    BY <1>1, <2>1, <2>2 DEF IInv, RunningInv, ShownInv, BudgetInv
  <2>6. Advances(t, u)
    BY <1>1, <2>1, <2>3, <2>4, <2>5 DEF Advances, store
  <2>7. tries' \in [Tries -> TryType] /\ RunningInv' /\ ShownInv' /\ BudgetInv'
    BY <2>3, <2>6, AdvanceKeeps
  <2>8. StoreTypes' /\ TabTypes'
    BY <1>1, <2>7 DEF IInv, StoreTypes, TabTypes, store
  <2>9. QED
    BY <2>7, <2>8 DEF IInv
<1>4. QED
  BY <1>2, <1>3 DEF BeginRefresh

\* What a claim authorizes fits into the allowance that was read for it.
LEMMA ClaimedType ==
  ASSUME StoreTypes, NEW s \in TryType, NEW t \in Tries, s = tries[t]
  PROVE  /\ Claimed(t) \in Nat
         /\ Claimed(t) > 0 => exposure + Claimed(t) <= s.policy.perDay
<1>1. s.asked \in Nat /\ s.policy \in LimitsOf
  BY DEF TryType
<1>2. s.policy.perRun \in Nat /\ s.policy.perDay \in Nat
  BY <1>1, Bounds
<1> DEFINE left == Remaining(s.policy, exposure)
           run  == Least(s.policy.perRun, left)
<1>3. left \in Nat /\ (left > 0 => exposure + left = s.policy.perDay)
  BY <1>1, RemainingType DEF StoreTypes
<1>4. Claimed(t) = Least(s.asked, run)
  BY DEF Claimed
<1> HIDE DEF left
<1>5. run \in Nat /\ run <= left
  BY <1>2, <1>3, LeastType
<1> HIDE DEF run
<1>6. Claimed(t) \in Nat /\ Claimed(t) <= run
  BY <1>1, <1>4, <1>5, LeastType
<1>7. QED
  BY <1>2, <1>3, <1>5, <1>6 DEF StoreTypes

LEMMA ClaimKeeps ==
  ASSUME IInv, NEW t \in Tries, Claim(t)
  PROVE  IInv'
<1>1. /\ tries[t].step = "checked"
      /\ UNCHANGED <<limits, others, people, page, client, tab, decisions, elsewhere, loosest, overcharged>>
  BY DEF Claim
<1>2. ASSUME NEW answer \in {"page", "threw"},
             tries' = [tries EXCEPT ![t] = Done(t, answer)], UNCHANGED <<runs, exposure>>
      PROVE  IInv'
  BY <1>1, <1>2, RefusedKeeps DEF store
<1>3. ASSUME runs[tries[t].request].state = "none", Claimed(t) > 0,
             runs' = [runs EXCEPT ![tries[t].request] = Authorized(t, Claimed(t))],
             exposure' = exposure + Claimed(t),
             tries' = [tries EXCEPT ![t].step = "running"]
      PROVE  IInv'
  <2>1. PICK s \in TryType : s = tries[t]
    BY DEF IInv, TabTypes
  <2>2. PICK r \in Requests : r = s.request
    BY <1>1, <2>1 DEF IInv, RunningInv
  <2>3. PICK n \in Nat : n = Claimed(t) /\ n > 0 /\ exposure + n <= s.policy.perDay
    BY <1>3, <2>1, ClaimedType DEF IInv
  <2>4. PICK q : q = [state |-> "authorized", group |-> s.group, maximum |-> n,
                      seen |-> s.seen, shown |-> s.shown, today |-> "yes"]
    OBVIOUS
  <2>5. /\ q \in RunType /\ q.state = "authorized" /\ q.group = q.seen /\ q.maximum = n /\ q.today = "yes"
    <3>1. s.group = s.seen
      BY <1>1, <2>1 DEF IInv, ShownInv
    <3>2. QED
      BY <2>4, <3>1 DEF RunType, TryType, States
  <2>6. runs' = [runs EXCEPT ![r] = q]
    BY <1>3, <2>1, <2>2, <2>3, <2>4 DEF Authorized
  <2>7. PICK u \in TryType : /\ u = RunningOf(s) /\ u.step = "running"
                             /\ u.request = r /\ u.policy = s.policy
    BY <2>2, RunningRecord
  <2>8. tries' = [tries EXCEPT ![t] = u]
    BY <1>3, <2>1, <2>7 DEF RunningOf
  <2>9. /\ tries \in [Tries -> TryType] /\ runs \in [Requests -> RunType]
        /\ exposure \in Nat /\ others \in Nat
    BY DEF IInv, TabTypes, StoreTypes
  <2>10. tries' \in [Tries -> TryType] /\ \A v \in Tries : tries'[v] = IF v = t THEN u ELSE tries[v]
    BY <2>8, <2>9
  <2>11. runs' \in [Requests -> RunType] /\ \A p \in Requests : runs'[p] = IF p = r THEN q ELSE runs[p]
    BY <2>5, <2>6, <2>9
  <2>12. runs[r].state = "none" /\ exposure' = exposure + n
    BY <1>3, <2>1, <2>2, <2>3
  <2>13. \A v \in Tries : v # t /\ tries[v].step = "running" =>
           /\ tries[v].request \in Requests /\ runs[tries[v].request].state = "authorized"
           /\ tries[v].request # r
    BY <2>12 DEF IInv, RunningInv
  <2>14. RunningInv'
    BY <2>5, <2>7, <2>10, <2>11, <2>13 DEF IInv, RunningInv
  <2>15. ShownInv'
    BY <2>5, <2>7, <2>10, <2>11 DEF IInv, ShownInv, SearchesTheShownGroup
  <2>16. Total(Held(tries', runs')) = Total(Held(tries, runs)) + n /\ Total(Held(tries, runs)) \in Nat
    <3> DEFINE f == Held(tries, runs)
               g == Held(tries', runs')
    <3>1. Named(tries) /\ Named(tries')
      BY <2>14, NamesFollow DEF RunningInv, Named
    <3>2. f \in [Tries -> Nat] /\ Total(f) \in Nat /\ g \in [Tries -> Nat]
      BY <2>9, <2>10, <2>11, <3>1, HeldType
    <3>3. f[t] = 0 /\ g[t] = n
      BY <1>1, <2>5, <2>7, <2>10, <2>11 DEF Held
    <3>4. ASSUME NEW v \in Tries \ {t} PROVE f[v] = g[v]
      <4>1. tries'[v] = tries[v]
        BY <2>10
      <4>2. CASE tries[v].step = "running"
        <5>1. runs'[tries[v].request] = runs[tries[v].request]
          BY <2>11, <2>13, <4>2
        <5>2. QED
          BY <4>1, <5>1 DEF Held
      <4>3. CASE tries[v].step # "running"
        BY <4>1, <4>3 DEF Held
      <4>4. QED
        BY <4>2, <4>3
    <3> HIDE DEF f, g
    <3>5. Total(g) = (Total(f) - f[t]) + g[t]
      BY <3>2, <3>4, TriesAreFinite, TotalChanges
    <3>6. QED
      BY <3>2, <3>3, <3>5 DEF f, g
  <2>17. BudgetInv'
    <3>1. \A v \in Tries : tries'[v].policy.perDay <= loosest
      BY <2>1, <2>7, <2>10 DEF IInv, BudgetInv
    <3>2. Total(Held(tries, runs))' = Total(Held(tries', runs'))
      OBVIOUS
    <3>3. exposure' <= loosest + overcharged
      <4>1. s.policy.perDay <= loosest /\ s.policy.perDay \in Nat /\ loosest \in Nat /\ overcharged \in Nat
        BY <2>1, Bounds DEF IInv, BudgetInv, TryType, StoreTypes
      <4>2. QED
        BY <2>3, <2>9, <2>12, <4>1
    <3>4. others + Total(Held(tries', runs')) <= exposure'
      BY <2>9, <2>12, <2>16 DEF IInv, BudgetInv
    <3>5. QED
      BY <1>1, <3>1, <3>2, <3>3, <3>4 DEF IInv, BudgetInv
  <2>18. StoreTypes'
    BY <1>1, <2>9, <2>11, <2>12 DEF IInv, StoreTypes
  <2>19. TabTypes'
    BY <1>1, <2>10 DEF IInv, TabTypes
  <2>20. QED
    BY <2>14, <2>15, <2>17, <2>18, <2>19 DEF IInv
<1>4. QED
  BY <1>2, <1>3 DEF Claim

LEMMA EndRunKeeps ==
  ASSUME IInv, NEW t \in Tries, NEW state \in {"completed", "failed"}, NEW kept \in Nat,
         EndRun(t, state, kept)
  PROVE  IInv'
<1>1. /\ tries[t].step = "running"
      /\ UNCHANGED <<limits, others, page, client, tab, decisions, elsewhere, loosest>>
  BY DEF EndRun
<1>2. PICK r \in Requests : r = tries[t].request
  BY <1>1 DEF IInv, RunningInv
<1>3. /\ runs' = [runs EXCEPT ![r].state = state]
      /\ exposure' = IF runs[r].today = "yes" THEN exposure - runs[r].maximum + kept ELSE exposure
      /\ overcharged' = overcharged + (IF runs[r].today = "yes" /\ kept > runs[r].maximum
                                       THEN kept - runs[r].maximum ELSE 0)
  BY <1>2 DEF EndRun
<1>4. PICK new \in SUBSET People : people' = [people EXCEPT !.known = @ \cup new]
  BY <1>2 DEF EndRun
<1>5. PICK answer \in {"page", "threw"} : tries' = [tries EXCEPT ![t] = Done(t, answer)]
  BY DEF EndRun
<1>6. PICK u \in TryType : u = Done(t, answer) /\ u.step \in {"done", "over"} /\ u.policy = FirstLimits
  BY DoneType DEF IInv
<1>7. /\ tries \in [Tries -> TryType] /\ runs \in [Requests -> RunType]
      /\ exposure \in Nat /\ others \in Nat /\ overcharged \in Nat /\ loosest \in Nat
      /\ exposure <= loosest + overcharged
  BY DEF IInv, TabTypes, StoreTypes, BudgetInv
<1>8. PICK q \in RunType : q = runs[r]
  BY <1>7
<1>9. PICK e \in RunType : /\ e = EndedOf(q, state) /\ e.state = state /\ e.group = q.group
                           /\ e.seen = q.seen /\ e.maximum = q.maximum /\ e.today = q.today
  BY EndedRecord
<1>10. q.maximum \in Nat /\ q.state = "authorized"
  BY <1>1, <1>2, <1>8 DEF RunType, IInv, RunningInv
<1>11. runs' = [runs EXCEPT ![r] = e]
  BY <1>3, <1>8, <1>9 DEF EndedOf
<1>12. tries' \in [Tries -> TryType] /\ \A v \in Tries : tries'[v] = IF v = t THEN u ELSE tries[v]
  BY <1>5, <1>6, <1>7
<1>13. runs' \in [Requests -> RunType] /\ \A p \in Requests : runs'[p] = IF p = r THEN e ELSE runs[p]
  BY <1>7, <1>11
<1>14. \A v \in Tries : v # t /\ tries[v].step = "running" =>
         tries[v].request \in Requests /\ tries[v].request # r
  BY <1>1, <1>2 DEF IInv, RunningInv
<1>15. RunningInv'
  BY <1>6, <1>12, <1>13, <1>14 DEF IInv, RunningInv
<1>16. ShownInv'
  <2>1. \A v \in Tries : tries'[v].step \in {"sent", "checked"} => tries'[v].group = tries'[v].seen
    BY <1>6, <1>12 DEF IInv, ShownInv
  <2>2. e.group = e.seen
    BY <1>8, <1>9, <1>10 DEF IInv, ShownInv, SearchesTheShownGroup
  <2>3. QED
    BY <1>13, <2>1, <2>2 DEF IInv, ShownInv, SearchesTheShownGroup
<1> DEFINE f == Held(tries, runs)
           g == Held(tries', runs')
<1>17. Named(tries) /\ Named(tries')
  BY <1>15, NamesFollow DEF RunningInv, Named
<1>18. /\ f \in [Tries -> Nat] /\ Total(f) \in Nat /\ g \in [Tries -> Nat] /\ Total(g) \in Nat
  BY <1>7, <1>12, <1>13, <1>17, HeldType
<1>19. f[t] = IF q.today = "yes" THEN q.maximum ELSE 0
  BY <1>1, <1>2, <1>8 DEF Held
<1>20. g[t] = 0
  BY <1>6, <1>12 DEF Held
<1>21. ASSUME NEW v \in Tries \ {t} PROVE f[v] = g[v]
  <2>1. tries'[v] = tries[v]
    BY <1>12
  <2>2. CASE tries[v].step = "running"
    <3>1. runs'[tries[v].request] = runs[tries[v].request]
      BY <1>13, <1>14, <2>2
    <3>2. QED
      BY <2>1, <3>1 DEF Held
  <2>3. CASE tries[v].step # "running"
    BY <2>1, <2>3 DEF Held
  <2>4. QED
    BY <2>2, <2>3
<1>22. f[t] <= Total(f) /\ others + Total(f) <= exposure
  BY <1>7, <1>17, HeldWithin DEF IInv, BudgetInv
<1> HIDE DEF f, g
<1>23. Total(g) = (Total(f) - f[t]) + g[t]
  BY <1>18, <1>21, TriesAreFinite, TotalChanges
<1>24. /\ exposure' \in Nat /\ overcharged' \in Nat
       /\ exposure' <= loosest + overcharged' /\ others + Total(g) <= exposure'
  <2>1. CASE q.today = "yes"
    <3>1. exposure' = exposure - q.maximum + kept /\ f[t] = q.maximum
      BY <1>3, <1>8, <1>19, <2>1
    <3>2. overcharged' \in Nat /\ kept - q.maximum <= overcharged' - overcharged
      BY <1>3, <1>7, <1>8, <1>10, <2>1
    <3>3. exposure' \in Nat /\ others + Total(g) <= exposure'
      BY <1>7, <1>10, <1>18, <1>20, <1>22, <1>23, <3>1
    <3>4. exposure' <= loosest + overcharged'
      BY <1>7, <1>10, <3>1, <3>2
    <3>5. QED
      BY <3>2, <3>3, <3>4
  <2>2. CASE q.today # "yes"
    <3>1. exposure' = exposure /\ f[t] = 0 /\ overcharged' = overcharged
      BY <1>3, <1>7, <1>8, <1>19, <2>2
    <3>2. QED
      BY <1>7, <1>18, <1>20, <1>22, <1>23, <3>1
  <2>3. QED
    BY <2>1, <2>2
<1>25. BudgetInv'
  <2>1. \A v \in Tries : tries'[v].policy.perDay <= loosest
    BY <1>6, <1>12 DEF IInv, BudgetInv
  <2>2. Total(Held(tries, runs))' = Total(g)
    BY DEF g
  <2>3. QED
    BY <1>1, <1>24, <2>1, <2>2 DEF IInv, BudgetInv
<1>26. people' \in PeopleRecord
  BY <1>4 DEF IInv, StoreTypes, PeopleRecord
<1>27. StoreTypes' /\ TabTypes'
  BY <1>1, <1>12, <1>13, <1>24, <1>26 DEF IInv, StoreTypes, TabTypes
<1>28. QED
  BY <1>15, <1>16, <1>25, <1>27 DEF IInv

LEMMA OverKeeps ==
  ASSUME IInv, NEW t \in Tries, tries[t].step # "running",
         tries' = [tries EXCEPT ![t] = Over(t)], UNCHANGED <<store, loosest, overcharged>>
  PROVE  tries' \in [Tries -> TryType] /\ StoreTypes' /\ RunningInv' /\ ShownInv' /\ BudgetInv'
<1>1. PICK u \in TryType : u = Over(t) /\ u.step = "over" /\ u.policy = FirstLimits
  BY DoneType DEF IInv
<1>2. Advances(t, u)
  <2>1. FirstLimits.perDay <= loosest
    BY DEF IInv, BudgetInv
  <2>2. QED
    BY <1>1, <2>1 DEF Advances, store
<1>3. QED
  BY <1>2, AdvanceKeeps DEF IInv, StoreTypes, store

LEMMA AnswerKeeps ==
  ASSUME IInv, NEW t \in Tries, Answer(t)
  PROVE  IInv'
<1>1. /\ tries[t].step = "done" /\ tries' = [tries EXCEPT ![t] = Over(t)]
      /\ UNCHANGED <<store, decisions, elsewhere, loosest, overcharged>>
  BY DEF Answer
<1>2. tries' \in [Tries -> TryType] /\ StoreTypes' /\ RunningInv' /\ ShownInv' /\ BudgetInv'
  BY <1>1, OverKeeps
<1>3. page' \in PageType /\ client' \in ClientType /\ tab' \in {"idle", "error"}
  <2>1. CASE UNCHANGED <<page, client>> /\ tab' = "error"
    BY <2>1 DEF IInv, TabTypes
  <2>2. CASE Receive(Rendered(tries[t].group, FALSE), "nobody") /\ tab' = "idle"
    <3>1. tries[t].group \in Scope /\ FALSE \in BOOLEAN /\ "nobody" \in Person
      BY DEF IInv, TabTypes, TryType, Person
    <3>2. Rendered(tries[t].group, FALSE) \in PageType
      BY <3>1, RenderedType DEF IInv
    <3>3. QED
      BY <2>2, <3>1, <3>2, ReceiveType DEF IInv
  <2>3. QED
    BY <2>1, <2>2 DEF Answer
<1>4. TabTypes'
  BY <1>1, <1>2, <1>3 DEF IInv, TabTypes
<1>5. QED
  BY <1>2, <1>4 DEF IInv

LEMMA LoseAnswerKeeps ==
  ASSUME IInv, NEW t \in Tries, LoseAnswer(t)
  PROVE  IInv'
<1>1. tab' = "error" /\ UNCHANGED <<store, page, client, decisions, elsewhere, loosest, overcharged>>
  BY DEF LoseAnswer
<1>2. tries' \in [Tries -> TryType] /\ StoreTypes' /\ RunningInv' /\ ShownInv' /\ BudgetInv'
  <2>1. CASE tries[t].step = "done"
    BY <1>1, <2>1, OverKeeps DEF LoseAnswer
  <2>2. CASE tries[t].step # "done"
    <3>1. tries' = tries
      BY <2>2 DEF LoseAnswer
    <3>2. UNCHANGED <<limits, exposure, others, runs, tries, loosest, overcharged>>
      BY <1>1, <3>1 DEF store
    <3>3. RunningInv' /\ ShownInv' /\ BudgetInv'
      BY <3>2, QuietKeeps
    <3>4. QED
      BY <1>1, <3>1, <3>3 DEF IInv, StoreTypes, TabTypes, store
  <2>3. QED
    BY <2>1, <2>2
<1>3. TabTypes'
  BY <1>1, <1>2 DEF IInv, TabTypes
<1>4. QED
  BY <1>2, <1>3 DEF IInv

\* A rendering with other stages.
StagedOf(pg, s) == [pg EXCEPT !.stage = s]

LEMMA StagedRecord ==
  ASSUME NEW pg \in PageType, NEW s \in [People -> Stages]
  PROVE  StagedOf(pg, s) \in PageType
<1>1. PICK u : u = [pg EXCEPT !.stage = s]
  OBVIOUS
<1>2. u \in PageType
  BY <1>1 DEF PageType
<1>3. u = StagedOf(pg, s)
  BY <1>1, Zenon DEF StagedOf
<1>4. QED
  BY <1>2, <1>3

LEMMA DisposeKeeps ==
  ASSUME IInv, NEW kind, Dispose(kind)
  PROVE  IInv'
<1>1. /\ decisions < MaxDecisions /\ decisions' = decisions + 1
      /\ UNCHANGED <<limits, exposure, others, runs, tries, elsewhere, loosest, overcharged>>
  BY DEF Dispose, Decides
<1>2. RunningInv' /\ ShownInv' /\ BudgetInv'
  BY <1>1, QuietKeeps
<1>3. people \in PeopleRecord /\ page \in PageType /\ client \in ClientType
  BY DEF IInv, StoreTypes, TabTypes
<1>4. PICK p \in People : p = Shown(page, client)
  <2>1. Shown(page, client) # "nobody"
    BY DEF Dispose
  <2>2. QED
    BY <2>1, ShownType DEF Person
<1>5. ASSUME UNCHANGED <<people, page, client>>, tab' = "error"
      PROVE  people' \in PeopleRecord /\ page' \in PageType /\ client' \in ClientType /\ tab' \in {"idle", "error"}
  BY <1>3, <1>5
<1>6. ASSUME people' = Recorded(p, kind), tab' = "idle",
             Receive([Rendered(client.group, FALSE) EXCEPT !.stage = [q \in People |-> Stage(q)']],
                     NextOf(page, client))
      PROVE  people' \in PeopleRecord /\ page' \in PageType /\ client' \in ClientType /\ tab' \in {"idle", "error"}
  <2>1. people' \in PeopleRecord
    <3>1. people' = people \/ people' = [people EXCEPT !.skipped = @ \cup {p}]
            \/ people' = [people EXCEPT !.excluded = @ \cup {p}]
      BY <1>6 DEF Recorded
    <3>2. QED
      BY <1>3, <3>1 DEF PeopleRecord
  <2>2. PICK s \in [People -> Stages] : s = [q \in People |-> Stage(q)']
    <3>1. \A q \in People : Stage(q)' \in Stages
      BY DEF Stage, Stages
    <3>2. QED
      BY <3>1
  <2>3. PICK pg \in PageType : pg = Rendered(client.group, FALSE)
    <3>1. client.group \in Scope /\ FALSE \in BOOLEAN
      BY <1>3 DEF ClientType
    <3>2. QED
      BY <3>1, RenderedType DEF IInv
  <2>4. PICK url \in Person : url = NextOf(page, client)
    BY NextType
  <2>5. Receive(StagedOf(pg, s), url)
    BY <1>6, <2>2, <2>3, <2>4 DEF StagedOf
  <2>6. StagedOf(pg, s) \in PageType
    BY StagedRecord
  <2>7. page' \in PageType /\ client' \in ClientType
    BY <2>5, <2>6, ReceiveType DEF IInv
  <2>8. QED
    BY <1>6, <2>1, <2>7
<1>7. people' \in PeopleRecord /\ page' \in PageType /\ client' \in ClientType /\ tab' \in {"idle", "error"}
  <2>1. \/ UNCHANGED <<people, page, client>> /\ tab' = "error"
        \/ /\ people' = Recorded(p, kind) /\ tab' = "idle"
           /\ Receive([Rendered(client.group, FALSE) EXCEPT !.stage = [q \in People |-> Stage(q)']],
                      NextOf(page, client))
    BY <1>4 DEF Dispose
  <2>2. QED
    BY <1>5, <1>6, <2>1
<1>8. decisions' \in 0..MaxDecisions
  BY <1>1, Bounds DEF IInv, TabTypes
<1>9. StoreTypes' /\ TabTypes'
  BY <1>1, <1>7, <1>8 DEF IInv, StoreTypes, TabTypes
<1>10. QED
  BY <1>2, <1>9 DEF IInv

LEMMA CreateDraftKeeps ==
  ASSUME IInv, CreateDraft
  PROVE  IInv'
<1>1. /\ decisions < MaxDecisions /\ decisions' = decisions + 1 /\ tab' \in {"away", "error"}
      /\ UNCHANGED <<limits, exposure, others, runs, page, client, tries, elsewhere, loosest, overcharged>>
  BY DEF CreateDraft, Decides
<1>2. RunningInv' /\ ShownInv' /\ BudgetInv'
  BY <1>1, QuietKeeps
<1>3. people' = people \/ \E p : people' = [people EXCEPT !.draft[p] = "today"]
  BY DEF CreateDraft
<1>4. people' \in PeopleRecord
  BY <1>3 DEF IInv, StoreTypes, PeopleRecord
<1>5. decisions' \in 0..MaxDecisions
  BY <1>1, Bounds DEF IInv, TabTypes
<1>6. StoreTypes' /\ TabTypes'
  BY <1>1, <1>4, <1>5 DEF IInv, StoreTypes, TabTypes
<1>7. QED
  BY <1>2, <1>6 DEF IInv

LEMMA SaveLimitsKeeps ==
  ASSUME IInv, NEW l \in Settings, SaveLimits(l)
  PROVE  IInv'
<1>1. /\ limits' = l /\ Valid(l) /\ elsewhere < MaxElsewhere /\ elsewhere' = elsewhere + 1
      /\ loosest' = IF l.perDay > loosest THEN l.perDay ELSE loosest
      /\ UNCHANGED <<exposure, overcharged, others, runs, people, page, client, tab, tries, decisions>>
  BY DEF SaveLimits, OutsideOnly, Elsewhere
<1>2. l.perDay \in Nat
  BY <1>1, Bounds DEF Valid
<1>3. loosest' \in Nat /\ loosest <= loosest' /\ l.perDay <= loosest'
  BY <1>1, <1>2 DEF IInv, StoreTypes
<1>4. RunningInv' /\ ShownInv'
  BY <1>1 DEF IInv, RunningInv, ShownInv, SearchesTheShownGroup
<1>5. BudgetInv'
  <2>1. Total(Held(tries, runs))' = Total(Held(tries, runs))
    BY <1>1, Zenon
  <2>2. ASSUME NEW n \in Nat, n <= loosest PROVE n <= loosest'
    BY <1>3, <2>2 DEF IInv, StoreTypes
  <2>3. \A t \in Tries : tries'[t].policy.perDay <= loosest'
    <3>1. ASSUME NEW t \in Tries PROVE tries'[t].policy.perDay <= loosest'
      <4>1. tries[t].policy \in LimitsOf
        BY DEF IInv, TabTypes, TryType
      <4>2. tries[t].policy.perDay \in Nat /\ tries[t].policy.perDay <= loosest
        BY <4>1, Bounds DEF IInv, BudgetInv
      <4>3. QED
        BY <1>1, <2>2, <4>2
    <3>2. QED
      BY <3>1
  <2>4. FirstLimits.perDay <= loosest'
    BY <2>2, Bounds DEF IInv, BudgetInv
  <2>5. exposure' <= loosest' + overcharged'
    BY <1>1, <1>3 DEF IInv, BudgetInv, StoreTypes
  <2>6. others' + Total(Held(tries, runs))' <= exposure'
    BY <1>1, <2>1 DEF IInv, BudgetInv
  <2>7. limits'.perDay <= loosest'
    BY <1>1, <1>3
  <2>8. QED
    BY <2>3, <2>4, <2>5, <2>6, <2>7 DEF BudgetInv
<1>6. elsewhere' \in 0..MaxElsewhere
  BY <1>1, Bounds DEF IInv, TabTypes
<1>7. StoreTypes' /\ TabTypes'
  BY <1>1, <1>3, <1>6 DEF IInv, StoreTypes, TabTypes
<1>8. QED
  BY <1>4, <1>5, <1>7 DEF IInv

LEMMA OtherSearchKeeps ==
  ASSUME IInv, NEW n \in -LargestPerRun..LargestPerRun, OtherSearch(n)
  PROVE  IInv'
<1>1. /\ elsewhere < MaxElsewhere /\ elsewhere' = elsewhere + 1
      /\ others' = others + n /\ exposure' = exposure + n
      /\ UNCHANGED <<limits, runs, people, loosest, overcharged, page, client, tab, tries, decisions>>
  BY DEF OtherSearch, OutsideOnly, Elsewhere
<1>2. n \in Int /\ exposure \in Nat /\ others \in Nat /\ loosest \in Nat
      /\ overcharged \in Nat
  BY Bounds DEF IInv, StoreTypes
<1>3. /\ exposure <= loosest + overcharged /\ limits.perDay <= loosest /\ others + Total(Held(tries, runs)) <= exposure
      /\ Total(Held(tries, runs)) \in Nat
  BY NamesFollow, HeldType DEF IInv, BudgetInv, StoreTypes, TabTypes
<1>4. limits \in LimitsOf /\ limits.perDay \in Nat
  BY Bounds DEF IInv, StoreTypes, Valid
<1>5. others' \in Nat /\ exposure' \in Nat /\ exposure' <= loosest + overcharged
  <2>1. CASE 0 < n /\ n <= Remaining(limits, exposure)
    <3>1. Remaining(limits, exposure) \in Nat /\ exposure + Remaining(limits, exposure) = limits.perDay
      BY <1>2, <1>4, <2>1, RemainingType
    <3>2. exposure + n <= limits.perDay
      BY <1>2, <1>4, <2>1, <3>1
    <3>3. QED
      BY <1>1, <1>2, <1>3, <1>4, <2>1, <3>2
  <2>2. CASE n < 0 /\ 0 <= others + n
    BY <1>1, <1>2, <1>3, <2>2
  <2>3. QED
    BY <2>1, <2>2 DEF OtherSearch
<1>6. RunningInv' /\ ShownInv'
  BY <1>1 DEF IInv, RunningInv, ShownInv, SearchesTheShownGroup
<1>7. BudgetInv'
  <2>1. Total(Held(tries, runs))' = Total(Held(tries, runs))
    BY <1>1, Zenon
  <2>2. others' + Total(Held(tries, runs)) <= exposure'
    BY <1>1, <1>2, <1>3
  <2>3. QED
    BY <1>1, <1>5, <2>1, <2>2 DEF IInv, BudgetInv
<1>8. elsewhere' \in 0..MaxElsewhere
  BY <1>1, Bounds DEF IInv, TabTypes
<1>9. StoreTypes' /\ TabTypes'
  BY <1>1, <1>5, <1>8 DEF IInv, StoreTypes, TabTypes
<1>10. QED
  BY <1>6, <1>7, <1>9 DEF IInv

LEMMA ChargedLateKeeps ==
  ASSUME IInv, NEW n \in Nat, ChargedLate(n)
  PROVE  IInv'
<1>1. /\ elsewhere < MaxElsewhere /\ elsewhere' = elsewhere + 1
      /\ exposure' = exposure + n /\ overcharged' = overcharged + n
      /\ UNCHANGED <<limits, others, runs, people, loosest, page, client, tab, tries, decisions>>
  BY DEF ChargedLate, OutsideOnly, Elsewhere
<1>2. /\ exposure \in Nat /\ others \in Nat /\ loosest \in Nat /\ overcharged \in Nat
      /\ exposure <= loosest + overcharged /\ others + Total(Held(tries, runs)) <= exposure
      /\ Total(Held(tries, runs)) \in Nat
  BY NamesFollow, HeldType DEF IInv, BudgetInv, StoreTypes, TabTypes
<1>3. /\ exposure' \in Nat /\ overcharged' \in Nat
      /\ exposure' <= loosest + overcharged' /\ others + Total(Held(tries, runs)) <= exposure'
  BY <1>1, <1>2
<1>4. RunningInv' /\ ShownInv'
  BY <1>1 DEF IInv, RunningInv, ShownInv, SearchesTheShownGroup
<1>5. BudgetInv'
  <2>1. Total(Held(tries, runs))' = Total(Held(tries, runs))
    BY <1>1, Zenon
  <2>2. QED
    BY <1>1, <1>3, <2>1 DEF IInv, BudgetInv
<1>6. elsewhere' \in 0..MaxElsewhere
  BY <1>1, Bounds DEF IInv, TabTypes
<1>7. StoreTypes' /\ TabTypes'
  BY <1>1, <1>3, <1>6 DEF IInv, StoreTypes, TabTypes
<1>8. QED
  BY <1>4, <1>5, <1>7 DEF IInv

LEMMA OtherDecisionKeeps ==
  ASSUME IInv, NEW p \in People, OtherDecision(p)
  PROVE  IInv'
<1>1. /\ elsewhere < MaxElsewhere /\ elsewhere' = elsewhere + 1
      /\ UNCHANGED <<limits, exposure, others, runs, loosest, overcharged, page, client, tab, tries, decisions>>
  BY DEF OtherDecision, OutsideOnly, Elsewhere
<1>2. RunningInv' /\ ShownInv' /\ BudgetInv'
  BY <1>1, QuietKeeps
<1>3. people' \in PeopleRecord
  <2>1. people \in PeopleRecord
    BY DEF IInv, StoreTypes
  <2>2. \/ people' = [people EXCEPT !.draft[p] = "today"]
        \/ people' = [people EXCEPT !.draft[p] = "dropped"]
        \/ people' = [people EXCEPT !.skipped = @ \cup {p}]
        \/ people' = [people EXCEPT !.excluded = @ \cup {p}]
        \/ people' = [people EXCEPT !.contacted = @ \cup {p}]
    BY DEF OtherDecision, Skipped
  <2>3. QED
    BY <2>1, <2>2 DEF PeopleRecord
<1>4. elsewhere' \in 0..MaxElsewhere
  BY <1>1, Bounds DEF IInv, TabTypes
<1>5. StoreTypes' /\ TabTypes'
  BY <1>1, <1>3, <1>4 DEF IInv, StoreTypes, TabTypes
<1>6. QED
  BY <1>2, <1>5 DEF IInv

LEMMA MidnightKeeps ==
  ASSUME IInv, Midnight
  PROVE  IInv'
<1>1. /\ elsewhere < MaxElsewhere /\ elsewhere' = elsewhere + 1
      /\ exposure' = 0 /\ others' = 0 /\ overcharged' = 0
      /\ runs' = [r \in Requests |-> [runs[r] EXCEPT !.today = "no"]]
      /\ UNCHANGED <<limits, loosest, page, client, tab, tries, decisions>>
  BY DEF Midnight, OutsideOnly, Elsewhere
<1>2. tries \in [Tries -> TryType] /\ runs \in [Requests -> RunType]
  BY DEF IInv, TabTypes, StoreTypes
<1>3. \A r \in Requests : runs'[r] = PastOf(runs[r])
  BY <1>1 DEF PastOf
<1>4. \A r \in Requests :
        /\ runs'[r] \in RunType /\ runs'[r].state = runs[r].state /\ runs'[r].group = runs[r].group
        /\ runs'[r].seen = runs[r].seen /\ runs'[r].today = "no"
  BY <1>2, <1>3, PastRecord
<1>5. runs' \in [Requests -> RunType]
  <2>1. runs' = [r \in Requests |-> runs'[r]]
    BY <1>1
  <2>2. QED
    BY <1>4, <2>1
<1>6. RunningInv' /\ ShownInv'
  <2>1. tries' = tries
    BY <1>1
  <2>2. RunningInv'
    BY <1>4, <2>1 DEF IInv, RunningInv
  <2>3. ShownInv'
    BY <1>4, <2>1 DEF IInv, ShownInv, SearchesTheShownGroup
  <2>4. QED
    BY <2>2, <2>3
<1>7. Total(Held(tries, runs')) = 0
  <2>1. Named(tries)
    BY NamesFollow
  <2>2. Held(tries, runs') \in [Tries -> Nat]
    BY <1>2, <1>5, <2>1, HeldType
  <2>3. \A t \in Tries : Held(tries, runs')[t] = 0
    BY <1>4, <2>1 DEF Held, Named
  <2>4. QED
    BY <2>2, <2>3, TotalOfNothing
<1>8. BudgetInv'
  <2>1. Total(Held(tries, runs))' = Total(Held(tries, runs'))
    BY <1>1
  <2>2. loosest \in Nat
    BY DEF IInv, StoreTypes
  <2>3. QED
    BY <1>1, <1>7, <2>1, <2>2 DEF IInv, BudgetInv
<1>9. people' \in PeopleRecord
  <2>1. people \in PeopleRecord
    BY DEF IInv, StoreTypes
  <2>2. PICK d : d = [p \in People |-> IF people.draft[p] # "today" THEN people.draft[p]
                                       ELSE IF p \in people.skipped THEN "dropped" ELSE "earlier"]
    OBVIOUS
  <2>3. d \in [People -> {"none", "today", "earlier", "dropped"}]
    BY <2>1, <2>2 DEF PeopleRecord
  <2>4. people' = [people EXCEPT !.skipped = {}, !.draft = d]
    BY <2>1, <2>2 DEF Midnight
  <2>5. QED
    BY <2>1, <2>3, <2>4 DEF PeopleRecord
<1>10. elsewhere' \in 0..MaxElsewhere
  BY <1>1, Bounds DEF IInv, TabTypes
<1>11. StoreTypes' /\ TabTypes'
  BY <1>1, <1>5, <1>9, <1>10 DEF IInv, StoreTypes, TabTypes
<1>12. QED
  BY <1>6, <1>8, <1>11 DEF IInv

LEMMA StutterKeeps ==
  ASSUME IInv, UNCHANGED vars
  PROVE  IInv'
<1>1. UNCHANGED <<limits, exposure, others, runs, tries, loosest, overcharged>>
  BY DEF vars, store
<1>2. RunningInv' /\ ShownInv' /\ BudgetInv'
  BY <1>1, QuietKeeps
<1>3. StoreTypes' /\ TabTypes'
  BY DEF IInv, StoreTypes, TabTypes, vars, store
<1>4. QED
  BY <1>2, <1>3 DEF IInv

LEMMA StepKeeps == IInv /\ [Next]_vars => IInv'
<1> SUFFICES ASSUME IInv, [Next]_vars PROVE IInv'
  OBVIOUS
<1>1. CASE UNCHANGED vars
  BY <1>1, StutterKeeps
<1>2. ASSUME NEW g \in Scope, SelectGroup(g) \/ Visit(g)
      PROVE  IInv'
  BY <1>2, SelectGroupKeeps, VisitKeeps
<1>3. ASSUME NEW p \in People, SelectPerson(p) \/ OtherDecision(p)
      PROVE  IInv'
  BY <1>3, SelectPersonKeeps, OtherDecisionKeeps
<1>4. ASSUME NEW g \in Groups, FindPeople(g)
      PROVE  IInv'
  BY <1>4, FindPeopleKeeps
<1>5. CASE TryAgain
  BY <1>5, TryAgainKeeps
<1>6. ASSUME NEW n \in Sizes, Confirm(n)
      PROVE  IInv'
  BY <1>6, ConfirmKeeps
<1>7. ASSUME NEW t \in Tries, BeginRefresh(t) \/ Claim(t) \/ Answer(t) \/ LoseAnswer(t)
      PROVE  IInv'
  BY <1>7, BeginRefreshKeeps, ClaimKeeps, AnswerKeeps, LoseAnswerKeeps
<1>8. ASSUME NEW t \in Tries, NEW state \in {"completed", "failed"},
             NEW kept \in 0..(LargestPerRun + Excess), EndRun(t, state, kept)
      PROVE  IInv'
  <2>1. kept \in Nat
    BY Bounds
  <2>2. QED
    BY <1>8, <2>1, EndRunKeeps
<1>9. ASSUME NEW kind \in {"skip", "do-not-show-again"}, Dispose(kind)
      PROVE  IInv'
  BY <1>9, DisposeKeeps
<1>10. CASE CreateDraft
  BY <1>10, CreateDraftKeeps
<1>11. ASSUME NEW l \in Settings, SaveLimits(l)
       PROVE  IInv'
  BY <1>11, SaveLimitsKeeps
<1>12. ASSUME NEW n \in -LargestPerRun..LargestPerRun, OtherSearch(n)
       PROVE  IInv'
  BY <1>12, OtherSearchKeeps
<1>13. CASE Midnight
  BY <1>13, MidnightKeeps
<1>14. ASSUME NEW n \in 1..Excess, ChargedLate(n)
       PROVE  IInv'
  <2>1. n \in Nat
    BY Bounds
  <2>2. QED
    BY <1>14, <2>1, ChargedLateKeeps
<1>15. QED
  BY <1>1, <1>2, <1>3, <1>4, <1>5, <1>6, <1>7, <1>8, <1>9, <1>10, <1>11, <1>12, <1>13, <1>14, Zenon DEF Next

LEMMA Inductive == Spec => []IInv
BY Initially, StepKeeps, PTL DEF Spec

(***************************************************************************)
(* The theorems.                                                           *)
(***************************************************************************)

\* The variables have their types; in particular what other tabs hold is part of the
\* exposure of the day, and the tab selects a person of the list or nobody.
THEOREM TypeCorrect == Spec => []TypeOK
<1>1. IInv => TypeOK
  <2> SUFFICES ASSUME IInv PROVE TypeOK
    OBVIOUS
  <2>1. others \in 0..exposure
    <3>1. /\ exposure \in Nat /\ others \in Nat /\ others + Total(Held(tries, runs)) <= exposure
          /\ Total(Held(tries, runs)) \in Nat
      BY NamesFollow, HeldType DEF IInv, StoreTypes, TabTypes, BudgetInv
    <3>2. QED
      BY <3>1
  <2>2. QED
    BY <2>1 DEF IInv, StoreTypes, TabTypes, TypeOK, RunType, TryType, PageType, ClientType, States, Steps
<1>2. QED
  BY <1>1, Inductive, PTL

\* A search spends on the group that the operator was looking at when confirming.
THEOREM SearchesFollowTheOperator == Spec => []SearchesTheShownGroup
<1>1. IInv => SearchesTheShownGroup
  BY DEF IInv, ShownInv
<1>2. QED
  BY <1>1, Inductive, PTL

\* The exposure of a day exceeds the largest allowance that was ever in force only by what
\* Apollo charged beyond the credit authorized for a lookup, whatever searches run at the
\* same time and whenever the limits change.
THEOREM AllowancesAreKept == Spec => []WithinSavedAllowances
<1>1. IInv => WithinSavedAllowances
  BY DEF IInv, BudgetInv, WithinSavedAllowances
<1>2. QED
  BY <1>1, Inductive, PTL

\* When a lookup never costs more than the one credit it is authorized for, the exposure
\* of a day never exceeds the largest allowance that was ever in force.
THEOREM OneCreditKeepsAllowances ==
  ASSUME MaxCost <= 1
  PROVE  Spec => [](exposure <= loosest)
<1> DEFINE Exact == overcharged = 0
<1>1. Excess = 0
  BY Bounds DEF Excess
<1>2. Init => Exact
  BY DEF Init
<1>3. IInv /\ Exact /\ [Next]_vars => Exact'
  <2> SUFFICES ASSUME IInv, overcharged = 0, [Next]_vars PROVE overcharged' = 0
    OBVIOUS
  <2>1. CASE UNCHANGED vars
    BY <2>1 DEF vars
  <2>2. ASSUME NEW t \in Tries, NEW state \in {"completed", "failed"},
               NEW kept \in 0..(LargestPerRun + Excess), EndRun(t, state, kept)
        PROVE  overcharged' = 0
    <3>1. tries[t].request \in Requests
      BY <2>2 DEF EndRun, IInv, RunningInv
    <3>2. PICK m \in Nat : m = runs[tries[t].request].maximum
      BY <3>1 DEF IInv, StoreTypes, RunType
    <3>3. kept \in Nat /\ kept <= m + 0
      BY <1>1, <2>2, <3>2, Bounds DEF EndRun
    <3>4. ~ (kept > m)
      BY <3>2, <3>3
    <3>5. overcharged' = overcharged + 0
      BY <2>2, <3>2, <3>4 DEF EndRun
    <3>6. QED
      BY <3>5
  <2>3. ASSUME NEW n \in 1..Excess
        PROVE  FALSE
    BY <1>1, <2>3
  <2>4. ASSUME NEW g, NEW p, NEW n, NEW t, NEW kind, NEW l,
               \/ SelectGroup(g) \/ Visit(g) \/ SelectPerson(p) \/ OtherDecision(p) \/ FindPeople(g)
               \/ TryAgain \/ Confirm(n) \/ Dispose(kind) \/ CreateDraft \/ SaveLimits(l) \/ OtherSearch(n)
               \/ BeginRefresh(t) \/ Claim(t) \/ Answer(t) \/ LoseAnswer(t) \/ Midnight
        PROVE  overcharged' = 0
    BY <2>4 DEF SelectGroup, Visit, SelectPerson, OtherDecision, FindPeople, TryAgain, Confirm,
                Dispose, CreateDraft, SaveLimits, OtherSearch, BeginRefresh, Claim, Answer,
                LoseAnswer, Midnight
  <2>5. QED
    BY <2>1, <2>2, <2>3, <2>4, Zenon DEF Next
<1>4. Exact /\ WithinSavedAllowances /\ IInv => exposure <= loosest
  BY DEF WithinSavedAllowances, IInv, StoreTypes
<1>5. QED
  BY <1>2, <1>3, <1>4, AllowancesAreKept, Inductive, PTL DEF Spec

\* What no step takes from an authorized search.
Once ==
  \A r \in Requests : runs[r].state # "none" =>
    /\ runs'[r].maximum = runs[r].maximum /\ runs'[r].group = runs[r].group
    /\ runs[r].state \in {"completed", "failed"} => runs'[r].state = runs[r].state

LEMMA ClaimIsOnce ==
  ASSUME IInv, NEW t \in Tries, Claim(t)
  PROVE  Once
<1>1. CASE UNCHANGED runs
  BY <1>1 DEF Once
<1>2. CASE /\ runs[tries[t].request].state = "none"
           /\ runs' = [runs EXCEPT ![tries[t].request] = Authorized(t, Claimed(t))]
  <2>1. ASSUME NEW r \in Requests, runs[r].state # "none"
        PROVE  runs'[r] = runs[r]
    BY <1>2, <2>1 DEF IInv, StoreTypes
  <2>2. QED
    BY <2>1 DEF Once
<1>3. QED
  BY <1>1, <1>2 DEF Claim

LEMMA EndRunIsOnce ==
  ASSUME IInv, NEW t \in Tries, NEW state \in {"completed", "failed"}, NEW kept,
         EndRun(t, state, kept)
  PROVE  Once
<1>1. PICK o : o = tries[t].request
  OBVIOUS
<1>2. runs' = [runs EXCEPT ![o].state = state] /\ tries[t].step = "running"
  BY <1>1 DEF EndRun
<1>3. runs \in [Requests -> RunType]
  BY DEF IInv, StoreTypes
<1>4. runs[o].state = "authorized" /\ o \in Requests
  BY <1>1, <1>2 DEF IInv, RunningInv
<1>5. PICK q \in RunType : q = runs[o]
  BY <1>3, <1>4
<1>6. EndedOf(q, state).group = q.group /\ EndedOf(q, state).maximum = q.maximum
  BY EndedRecord
<1>7. runs'[o] = EndedOf(q, state)
  BY <1>2, <1>3, <1>4, <1>5 DEF EndedOf
<1>8. ASSUME NEW r \in Requests, r # o
      PROVE  runs'[r] = runs[r]
  BY <1>2, <1>3, <1>8
<1>9. ASSUME NEW r \in Requests, runs[r].state # "none"
      PROVE  /\ runs'[r].maximum = runs[r].maximum /\ runs'[r].group = runs[r].group
             /\ runs[r].state \in {"completed", "failed"} => runs'[r].state = runs[r].state
  <2>1. CASE r = o
    BY <1>4, <1>5, <1>6, <1>7, <2>1
  <2>2. CASE r # o
    BY <1>8, <2>2
  <2>3. QED
    BY <2>1, <2>2
<1>10. QED
  BY <1>9 DEF Once

LEMMA MidnightIsOnce ==
  ASSUME IInv, Midnight
  PROVE  Once
<1>1. \A r \in Requests : runs[r] \in RunType /\ runs'[r] = PastOf(runs[r])
  BY DEF Midnight, IInv, StoreTypes, PastOf
<1>2. ASSUME NEW r \in Requests
      PROVE  /\ runs'[r].maximum = runs[r].maximum /\ runs'[r].group = runs[r].group
             /\ runs'[r].state = runs[r].state
  BY <1>1, PastRecord
<1>3. QED
  BY <1>2 DEF Once

\* One rendering of the form starts at most one search: a request that is authorized
\* keeps its group and maximum, and an ended search is not begun again.
THEOREM FormsSearchOnce == Spec => OneSearchPerForm
<1>1. ASSUME IInv, [Next]_vars
      PROVE  [Once]_vars
  <2> USE <1>1
  <2>1. CASE UNCHANGED vars
    BY <2>1
  <2>2. ASSUME UNCHANGED runs
        PROVE  Once
    BY <2>2 DEF Once
  <2>3. ASSUME NEW t \in Tries, BeginRefresh(t) \/ Claim(t) \/ Answer(t) \/ LoseAnswer(t)
        PROVE  Once
    <3>1. BeginRefresh(t) \/ Answer(t) \/ LoseAnswer(t) => UNCHANGED runs
      BY DEF BeginRefresh, Answer, LoseAnswer, store
    <3>2. QED
      BY <2>2, <2>3, <3>1, ClaimIsOnce
  <2>4. ASSUME NEW t \in Tries, NEW state \in {"completed", "failed"}, NEW kept,
               EndRun(t, state, kept)
        PROVE  Once
    BY <2>4, EndRunIsOnce
  <2>5. CASE Midnight
    BY <2>5, MidnightIsOnce
  <2>6. ASSUME NEW g, NEW p, NEW n, NEW kind, NEW l,
               \/ SelectGroup(g) \/ Visit(g) \/ SelectPerson(p) \/ OtherDecision(p) \/ FindPeople(g)
               \/ TryAgain \/ Confirm(n) \/ Dispose(kind) \/ CreateDraft \/ SaveLimits(l) \/ OtherSearch(n)
               \/ ChargedLate(n)
        PROVE  Once
    <3>1. UNCHANGED runs
      BY <2>6 DEF SelectGroup, Visit, SelectPerson, OtherDecision, FindPeople, TryAgain, Confirm,
                  Dispose, CreateDraft, SaveLimits, OtherSearch, ChargedLate, store
    <3>2. QED
      BY <2>2, <3>1
  <2>7. QED
    BY <2>1, <2>3, <2>4, <2>5, <2>6, Zenon DEF Next
<1>2. Spec => [][Once]_vars
  BY <1>1, Inductive, PTL DEF Spec
<1>3. QED
  BY <1>2, PTL DEF OneSearchPerForm, Once
==============================================================================
