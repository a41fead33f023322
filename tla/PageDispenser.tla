---------------------------- MODULE PageDispenser ----------------------------
(***************************************************************************)
(* What the shared search cursor promises: whoever asks for the next page  *)
(* of a query gets one that nobody was given before, whatever became of    *)
(* the searches it was given to.                                           *)
(***************************************************************************)
EXTENDS Naturals

CONSTANTS Searchers, Queries, PageLimit

VARIABLES
  given,   \* pages given out so far, of each query
  held     \* what a searcher is searching: at most one page of one query

Pages == 1..PageLimit

Init ==
  /\ given = [q \in Queries |-> {}]
  /\ held = [s \in Searchers |-> {}]

Give(s, q, p) ==
  /\ p \in Pages \ given[q]
  /\ held[s] = {}
  /\ given' = [given EXCEPT ![q] = @ \cup {p}]
  /\ held' = [held EXCEPT ![s] = {<<q, p>>}]

\* Searched, failed or lost in a crash: the page does not come back.
LetGo ==
  /\ given' = given
  /\ \A s \in Searchers : held'[s] \in {held[s], {}}
  /\ DOMAIN held' = Searchers

Next ==
  \/ \E s \in Searchers, q \in Queries, p \in Pages : Give(s, q, p)
  \/ LetGo

Spec == Init /\ [][Next]_<<given, held>>
=============================================================================
