----------------------------- MODULE SearchPages -----------------------------
(***************************************************************************)
(* The search of a scoped discovery: operations take turns through the     *)
(* query plans of their bucket, and page through Apollo's people search    *)
(* with one persisted cursor per query, shared by every operation of every *)
(* process.                                                                *)
(*                                                                         *)
(* Claiming a page is a transaction and so is observing its answer; the    *)
(* call to Apollo lies between them.  Totals are counted in pages.  What   *)
(* follows a finished search is ApolloDiscovery, at its phase "choose".    *)
(***************************************************************************)
EXTENDS Integers, FiniteSets

CONSTANTS
  Operations,
  PlanCount,          \* query plans of the bucket, cut to the search cap
  Filters,            \* what else identifies a query: scope, page size, excluded domains
  MaximumSearchCalls, \* policy: answered searches of one operation
  PageLimit,          \* Apollo serves no page beyond it (500)
  MaxTotal,           \* external: pages a query has, at most
  MaxCrashes          \* bound on the process crashes of a behaviour

ASSUME SearchAssumption ==
  /\ PlanCount \in Nat \ {0} /\ MaximumSearchCalls \in Nat /\ PlanCount <= MaximumSearchCalls
  /\ PageLimit \in Nat /\ MaxTotal \in Nat \ {0} /\ MaxCrashes \in Nat

VARIABLES
  cursor,   \* the persisted progress of each query
  search,   \* the searches of the operations, in memory
  crashes

vars == <<cursor, search, crashes>>

Plans   == 1..PlanCount
Queries == Plans \X Filters

Unknown == 0

\* lastPage and lastReturned are written beside these and read by nobody.
Cursor == [nextPage : Nat \ {0}, totalPages : Nat]

Search == [pc : {"idle", "choose", "call", "done", "failed"}, filter : Filters,
           plan : Plans, page : Nat, calls : Nat,
           exhausted : SUBSET Plans, searched : SUBSET Plans,
           employers : {"few", "enough"}]

TypeOK ==
  /\ cursor \in [Queries -> Cursor]
  /\ search \in [Operations -> Search]
  /\ crashes \in Nat

Started(f) == [pc |-> "choose", filter |-> f, plan |-> 1, page |-> 0, calls |-> 0,
               exhausted |-> {}, searched |-> {}, employers |-> "few"]

Init ==
  /\ cursor = [q \in Queries |-> [nextPage |-> 1, totalPages |-> Unknown]]
  /\ search \in [Operations -> {[Started(f) EXCEPT !.pc = "idle"] : f \in Filters}]
  /\ crashes = 0

-----------------------------------------------------------------------------
(* The rotation over the plans.                                             *)

Open(s) == Plans \ s.exhausted

\* Plans whose turn it is: of the first round those not yet searched, from the place
\* the count of calls points at.
TurnsWithoutRounds(s) == \* mutant: a plan searched in the first round may be taken again in it
  {i \in Open(s) : i > s.calls % PlanCount}
Turns(s) ==
  {i \in Open(s) : /\ i > s.calls % PlanCount
                   /\ s.calls >= PlanCount \/ i \notin s.searched}

Candidates(s) == IF Turns(s) # {} THEN Turns(s) ELSE Open(s)

\* The first of them.
IsNext(s, i) == i \in Candidates(s) /\ \A j \in Candidates(s) : i <= j

\* Every plan was searched and there are employers enough.
Satisfied(s) == s.searched = Plans /\ s.employers = "enough"

-----------------------------------------------------------------------------
(* The cursor: SqliteApolloSearchProgressStore.                             *)

AtEnd(c) == (c.totalPages # Unknown /\ c.nextPage > c.totalPages) \/ c.nextPage > PageLimit

Advanced(c) == [c EXCEPT !.nextPage = @ + 1]

\* An answer without a total leaves the total as it was.
ObservedFromPage(c, page, total) == \* mutant: the cursor follows the observed page
  [c EXCEPT !.nextPage = page + 1, !.totalPages = IF total = Unknown THEN @ ELSE total]
Observed(c, page, total) ==
  [c EXCEPT !.totalPages = IF total = Unknown THEN @ ELSE total]

-----------------------------------------------------------------------------
(* A search.                                                                *)

Query(o) == <<search[o].plan, search[o].filter>>

\* The companies to leave out are read once, here.
Begin(o) ==
  /\ search[o].pc = "idle"
  /\ search' = [search EXCEPT ![o] = Started(search[o].filter)]
  /\ UNCHANGED <<cursor, crashes>>

MayCall(o) == search[o].pc = "choose" /\ search[o].calls < MaximumSearchCalls

ClaimPage(o) ==
  \E i \in Plans :
    /\ MayCall(o) /\ IsNext(search[o], i)
    /\ LET q == <<i, search[o].filter>> IN
         /\ ~AtEnd(cursor[q])
         /\ cursor' = [cursor EXCEPT ![q] = Advanced(@)]
         /\ search' = [search EXCEPT ![o].pc = "call", ![o].plan = i,
                                     ![o].page = cursor[q].nextPage]
    /\ UNCHANGED crashes

\* No page is left: the operation drops the plan and chooses again.
ExhaustedForgotten(s, i) == s \* mutant: the plan is not dropped
Exhausted(s, i) == [s EXCEPT !.exhausted = @ \cup {i}]

FindExhausted(o) ==
  \E i \in Plans :
    /\ MayCall(o) /\ IsNext(search[o], i)
    /\ AtEnd(cursor[<<i, search[o].filter>>])
    /\ search' = [search EXCEPT ![o] = Exhausted(@, i)]
    /\ UNCHANGED <<cursor, crashes>>

Stop(o) ==
  /\ search[o].pc = "choose"
  /\ search[o].calls = MaximumSearchCalls \/ Open(search[o]) = {}
  /\ search' = [search EXCEPT ![o].pc = "done"]
  /\ UNCHANGED <<cursor, crashes>>

\* An operation's own count after an answer with so many pages in all.
Counted(s, total, employers) ==
  [s EXCEPT !.calls = @ + 1, !.searched = @ \cup {s.plan},
            !.exhausted = IF total # Unknown /\ s.page >= total
                          THEN @ \cup {s.plan} ELSE @,
            !.employers = employers]

\* Apollo's total is its own and may change between pages, or be absent.
Answer(o) ==
  \E total \in 0..MaxTotal, employers \in {"few", "enough"} :
    LET next == Counted(search[o], total, employers) IN
      /\ search[o].pc = "call"
      /\ search[o].employers = "enough" => employers = "enough"
      /\ cursor' = [cursor EXCEPT ![Query(o)] = Observed(@, search[o].page, total)]
      /\ search' = [search EXCEPT ![o] = [next EXCEPT
                      !.pc = IF Satisfied(next) THEN "done" ELSE "choose"]]
      /\ UNCHANGED crashes

\* Records of an unexpected shape, under the strict setting: observed, then thrown.
AnswerRejected(o) ==
  \E total \in 0..MaxTotal :
    /\ search[o].pc = "call"
    /\ cursor' = [cursor EXCEPT ![Query(o)] = Observed(@, search[o].page, total)]
    /\ search' = [search EXCEPT ![o].pc = "failed"]
    /\ UNCHANGED crashes

\* Apollo or the database throws: the claimed page is not given back.
SearchFails(o) ==
  /\ search[o].pc \in {"choose", "call"}
  /\ search' = [search EXCEPT ![o].pc = "failed"]
  /\ UNCHANGED <<cursor, crashes>>

\* The cursors are all that survives.
Crash ==
  /\ crashes < MaxCrashes
  /\ crashes' = crashes + 1
  /\ search' = [o \in Operations |->
                  IF search[o].pc \in {"choose", "call"}
                  THEN [search[o] EXCEPT !.pc = "failed"] ELSE search[o]]
  /\ UNCHANGED cursor

Step(o) ==
  \/ ClaimPage(o) \/ FindExhausted(o) \/ Stop(o)
  \/ Answer(o) \/ AnswerRejected(o) \/ SearchFails(o)

Next == Crash \/ \E o \in Operations : Begin(o) \/ Step(o)

\* The loop runs on and Apollo's transport answers or times out; nobody has to start
\* a discovery, and nothing need fail between two calls.
Progress(o) ==
  \/ ClaimPage(o) \/ FindExhausted(o) \/ Stop(o)
  \/ search[o].pc = "call" /\ (Answer(o) \/ AnswerRejected(o) \/ SearchFails(o))

Spec == Init /\ [][Next]_vars /\ \A o \in Operations : WF_vars(Progress(o))

-----------------------------------------------------------------------------
(* Properties.                                                              *)

\* No page of a query is handed out twice, to whichever operation, before or after a
\* failure or a crash, and answers that arrive out of order never send the cursor back
\* (claimNextPage and observePage update one settings row).
Held(o) == IF search[o].pc = "call" THEN {<<Query(o), search[o].page>>} ELSE {}
Dispenser == INSTANCE PageDispenser WITH
  Searchers <- Operations,
  given <- [q \in Queries |-> 1..(cursor[q].nextPage - 1)],
  held <- [o \in Operations |-> Held(o)]
DispensesPagesOnce == Dispenser!Spec

\* An operation comes back to a plan only when each of the others has had its turn or
\* has no page left, also when plans drop out in the middle of the first round.
Revisits(s) == s.calls > Cardinality(s.searched)
               \/ (s.pc = "call" /\ s.plan \in s.searched)
EveryPlanHasItsTurn ==
  \A o \in Operations :
    Revisits(search[o]) => Plans = search[o].searched \cup search[o].exhausted

\* Every search that was begun ends, although each answer may move the end of the query
\* and other operations use up its pages.
SearchesEnd ==
  \A o \in Operations : search[o].pc = "choose" ~> search[o].pc \in {"done", "failed"}
=============================================================================
