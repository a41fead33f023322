--------------------------- MODULE CandidatesPage ---------------------------
(****************************************************************************)
(* The Candidates page in one browser tab (src/app/candidates), the server  *)
(* actions its forms call, the sourcing limits it shows and the searches it *)
(* starts.                                                                  *)
(*                                                                          *)
(* The server renders the page from one reading of the store: the people,   *)
(* their stages, the limits, today's exposure and a request identifier for  *)
(* the search form.  The tab keeps what the operator selected, also over a  *)
(* rendering with the same route key.  Everything the operator confirms is  *)
(* what the page showed; everything the server does is what the store says  *)
(* by then.  Other tabs, the command line and midnight change the store     *)
(* meanwhile, at most MaxElsewhere times.                                   *)
(*                                                                          *)
(* A search is the one of ApolloDiscovery seen from outside: it reads the   *)
(* limits, awaits the provider's check, authorizes a maximum and ends with  *)
(* a part of it spent, or with more when Apollo charges a lookup more than  *)
(* the one credit it was authorized for.  Filters, the early-career option, *)
(* reviews and the people's evidence are left out; a draft that the reserve *)
(* refuses for a reason not modelled here is a refusal that may happen at   *)
(* any time.                                                                *)
(****************************************************************************)
EXTENDS Integers, Sequences, FiniteSets, SequencesExt

CONSTANTS
  Ranked,        \* the people the store may come to hold, in the order listed
  Groups,        \* the recipient groups
  GroupOf,       \* the group of each person
  Known,         \* the people imported at first
  Requests,      \* the identifiers renderings of the page may carry
  NoRequest,     \* the identifier of a rendering beyond the bound
  Settings,      \* the limits the operator may save
  FirstLimits,   \* the limits configured at first
  FirstHeld,     \* credits that searches of other tabs hold at first
  LargestPerDay, \* the bounds of the settings form: 1,000 and 20 in the code
  LargestPerRun,
  MaxCost,       \* external: what Apollo charges for one lookup, at most
  Sizes,         \* the desired quantities the operator may confirm
  MaxTries,      \* bound: submissions of the search form
  MaxDecisions,  \* bound: dispositions and drafts of this tab
  MaxElsewhere   \* bound: changes made outside this tab

People   == Range(Ranked)
Person   == People \cup {"nobody"}
Scope    == Groups \cup {"all"}
Tries    == 1..MaxTries
Stages   == {"absent", "qualified-available", "in-draft-queue", "suppressed"}
LimitsOf == [perDay : 1..LargestPerDay, perRun : 1..LargestPerRun]

\* Limits the settings form accepts.
Valid(l) == l \in LimitsOf /\ l.perRun <= l.perDay

ASSUME CandidatesPageAssumption ==
  /\ Ranked \in Seq(People) /\ IsInjective(Ranked) /\ Known \subseteq People
  /\ GroupOf \in [People -> Groups] /\ "all" \notin Groups /\ "nobody" \notin People
  /\ NoRequest \notin Requests
  /\ LargestPerDay \in Nat /\ LargestPerRun \in Nat /\ MaxCost \in Nat /\ Sizes \subseteq 1..LargestPerRun
  /\ FirstLimits \in Settings /\ \A l \in Settings : Valid(l)
  /\ FirstHeld \in 0..FirstLimits.perDay
  /\ MaxTries \in Nat /\ MaxDecisions \in Nat /\ MaxElsewhere \in Nat

VARIABLES
  limits,     \* the saved sourcing limits
  exposure,   \* credits accounted or held for today
  others,     \* the part of the exposure held by searches of other tabs
  runs,       \* per request identifier: the search it authorized
  people,     \* the imported people and what was decided about them
  page,       \* what the tab last received
  client,     \* what the tab keeps itself: the group and the person selected
  tab,        \* "idle", "waiting" for its last submission, on the error page, or away
  tries,      \* the submissions of the search form
  decisions,  \* dispositions and drafts asked for in this tab so far
  elsewhere,  \* changes made outside this tab so far
  loosest,    \* history: the largest allowance ever in force
  overcharged \* history: what Apollo charged today beyond what searches had authorized

store == <<limits, exposure, others, runs, people>>
vars  == <<store, page, client, tab, tries, decisions, elsewhere, loosest, overcharged>>

(***************************** the store ************************************)

\* What is decided of the people: who is imported, whose draft was made today or
\* earlier or was dropped by a skip on its own day, who is skipped today, who is
\* excluded for good and who is contacted.
PeopleRecord == [known : SUBSET People, draft : [People -> {"none", "today", "earlier", "dropped"}],
                 skipped : SUBSET People, excluded : SUBSET People, contacted : SUBSET People]
Drafted == {p \in People : people.draft[p] # "none"}

\* The stage the command center computes for a person.  A dismissal of today counts as
\* a draft of the queue, a dropped draft of an earlier day does not.
Stage(p) ==
  IF p \notin people.known \/ p \in people.contacted THEN "absent"
  ELSE IF p \in people.excluded THEN "suppressed"
  ELSE IF people.draft[p] \in {"today", "earlier"} \/ p \in people.skipped THEN "in-draft-queue"
  ELSE "qualified-available"

\* Who may enter a draft: the reserve's own test, repeated at the time of the command.
\* Whoever was in a draft of any day is out.
Ready == people.known \ (Drafted \cup people.skipped \cup people.excluded \cup people.contacted)

\* A run keeps, besides what the store has, the group and the maximum that the page
\* showed when it was confirmed.
NoRun == [state |-> "none", group |-> "all", maximum |-> 0, seen |-> "all", shown |-> 0, today |-> "no"]

Remaining(l, used) == IF used >= l.perDay THEN 0 ELSE l.perDay - used
Least(a, b)        == IF a <= b THEN a ELSE b

(***************************** the page *************************************)

\* One rendering: a snapshot of the store with a fresh request identifier.
Fresh == {r \in Requests : runs[r].state = "none" /\ \A t \in Tries : tries[t].request # r}
Rendered(g, open) ==
  [group |-> g, findMore |-> open, stage |-> [p \in People |-> Stage(p)],
   most |-> Least(limits.perRun, Remaining(limits, exposure)),
   request |-> IF Fresh = {} THEN NoRequest ELSE CHOOSE r \in Fresh : TRUE]

\* The key of the workspace: with an equal key the tab keeps its state.
RouteKey(pg) == <<pg.group, pg.findMore>>

\* The people listed for a selection, the first and the last of some of them in the
\* order of the list, and the one the inspector shows.
Rows(pg, g) == {p \in People : pg.stage[p] # "absent" /\ g \in {"all", GroupOf[p]}}
Place(p)    == CHOOSE i \in 1..Len(Ranked) : Ranked[i] = p
FirstOf(S)  == IF S = {} THEN "nobody" ELSE CHOOSE p \in S : \A q \in S : Place(p) <= Place(q)
LastOf(S)   == IF S = {} THEN "nobody" ELSE CHOOSE p \in S : \A q \in S : Place(p) >= Place(q)
Shown(pg, c) == IF c.selected \in Rows(pg, c.group) THEN c.selected ELSE FirstOf(Rows(pg, c.group))

\* The person below the one shown, or else the one above.
NextOf(pg, c) ==
  LET shown == Place(Shown(pg, c))
      below == {p \in Rows(pg, c.group) : Place(p) > shown}
      above == {p \in Rows(pg, c.group) : Place(p) < shown}
  IN  IF below # {} THEN FirstOf(below) ELSE LastOf(above)

\* The state of a workspace mounted on a rendering, with the selection the URL names.
Mounted(pg, url) ==
  [group |-> pg.group, selected |-> IF url # "nobody" THEN url ELSE FirstOf(Rows(pg, "all"))]

\* The tab receives a rendering: the workspace is mounted anew when its key changed.
Receive(pg, url) ==
  /\ page' = pg
  /\ client' = IF RouteKey(pg) = RouteKey(page) THEN client ELSE Mounted(pg, url)

\* mutant: only the tab's own selection is asked for
ConfirmationAnyScope == page.findMore /\ client.group \in Groups /\ page.group \in Groups

\* The search form is offered for the group that both the rendering and the tab name.
ConfirmationShown ==
  /\ page.findMore /\ client.group \in Groups
  /\ page.group = client.group

\* "Maximum credits this run", for a desired quantity n.
ShownMaximum(n) == Least(n, page.most)

(***************************** initial state ********************************)

NoTry == [step |-> "none", request |-> NoRequest, group |-> "all", seen |-> "all", asked |-> 0,
          shown |-> 0, policy |-> FirstLimits, answer |-> "none"]

Init ==
  /\ limits = FirstLimits /\ loosest = FirstLimits.perDay /\ overcharged = 0
  /\ exposure = FirstHeld /\ others = FirstHeld
  /\ runs = [r \in Requests |-> NoRun]
  /\ tries = [t \in Tries |-> NoTry]
  /\ people = [known |-> Known, draft |-> [p \in People |-> "none"], skipped |-> {}, excluded |-> {}, contacted |-> {}]
  /\ page = Rendered("all", FALSE) /\ client = Mounted(page, "nobody")
  /\ tab = "idle" /\ decisions = 0 /\ elsewhere = 0

(***************************** in the tab ***********************************)

\* The operator selects another group: nothing is asked of the server.
SelectGroup(g) ==
  /\ tab = "idle" /\ g # client.group
  /\ client' = [group |-> g,
                selected |-> IF client.selected \in Rows(page, g) THEN client.selected
                             ELSE FirstOf(Rows(page, g))]
  /\ UNCHANGED <<store, page, tab, tries, decisions, elsewhere, loosest, overcharged>>

\* The operator selects a person of the list.
SelectPerson(p) ==
  /\ tab = "idle" /\ p \in Rows(page, client.group) /\ p # client.selected
  /\ client' = [client EXCEPT !.selected = p]
  /\ UNCHANGED <<store, page, tab, tries, decisions, elsewhere, loosest, overcharged>>

\* "Find people": the page is asked for again with the group and its form open.  The
\* group is chosen beside the link when none is selected.
FindPeople(g) ==
  /\ tab = "idle" /\ client.group \in {"all", g}
  /\ Receive(Rendered(g, TRUE), "nobody")
  /\ UNCHANGED <<store, tab, tries, decisions, elsewhere, loosest, overcharged>>

\* The page is opened from elsewhere, or loaded again at the address the tab shows, which
\* follows the group selected: nothing of the tab survives.
Visit(g) ==
  /\ g \in {"all", client.group}
  /\ tab \in {"idle", "error", "away"}
  /\ page' = Rendered(g, FALSE) /\ client' = Mounted(page', "nobody")
  /\ tab' = "idle"
  /\ UNCHANGED <<store, tries, decisions, elsewhere, loosest, overcharged>>

\* "Try again" of the error page mounts what the tab had received.
TryAgain ==
  /\ tab = "error"
  /\ client' = Mounted(page, "nobody") /\ tab' = "idle"
  /\ UNCHANGED <<store, page, tries, decisions, elsewhere, loosest, overcharged>>

\* The operator confirms a search for n people.
Confirm(n) ==
  /\ tab = "idle" /\ ConfirmationShown
  /\ page.request # NoRequest /\ page.most > 0
  /\ \E t \in Tries :
       /\ tries[t].step = "none" /\ \A u \in 1..(t - 1) : tries[u].step # "none"
       /\ tries' = [tries EXCEPT ![t] =
            [NoTry EXCEPT !.step = "sent", !.request = page.request, !.group = page.group,
                          !.seen = client.group, !.asked = n, !.shown = ShownMaximum(n)]]
       /\ tab' = "waiting"
  /\ UNCHANGED <<store, page, client, decisions, elsewhere, loosest, overcharged>>

(***************************** a search on the server ***********************)

\* The tab waits for its last submission.
Awaited(t) == tab = "waiting" /\ tries[t].step # "none" /\ \A u \in (t + 1)..MaxTries : tries[u].step = "none"

\* The action ends: the page of the group is its answer, or it threw; nobody hears of an
\* answer the tab no longer waits for.
Over(t) == [NoTry EXCEPT !.step = "over", !.request = tries[t].request]
Done(t, answer) ==
  IF Awaited(t)
  THEN [Over(t) EXCEPT !.step = "done", !.answer = answer, !.group = tries[t].group]
  ELSE Over(t)

\* The server action reads the limits and looks whether a search could start at all.
\* A request that is completed already passes.
BeginRefresh(t) ==
  /\ tries[t].step = "sent"
  /\ LET ready == runs[tries[t].request].state = "completed" \/ Remaining(limits, exposure) > 0
     IN  tries' = [tries EXCEPT ![t] =
            IF ready THEN [@ EXCEPT !.policy = limits, !.step = "checked"] ELSE Done(t, "page")]
  /\ UNCHANGED <<store, page, client, tab, decisions, elsewhere, loosest, overcharged>>

\* mutant: the allowance left is not read again after the provider's check
ClaimedBlind(t) == Least(tries[t].asked, tries[t].policy.perRun)

\* What a claim authorizes: the quantity asked for, within the limits read when the
\* request began and the exposure of now.
Claimed(t) ==
  Least(tries[t].asked, Least(tries[t].policy.perRun, Remaining(tries[t].policy, exposure)))

Authorized(t, n) == [state |-> "authorized", group |-> tries[t].group, maximum |-> n,
                     seen |-> tries[t].seen, shown |-> tries[t].shown, today |-> "yes"]

\* mutant: a request that failed is authorized once more
ClaimRetried(t) ==
  /\ tries[t].step = "checked"
  /\ LET r == tries[t].request
         n == Claimed(t)
     IN  IF runs[r].state \in {"none", "failed"} /\ n > 0
         THEN /\ runs' = [runs EXCEPT ![r] = Authorized(t, n)]
              /\ exposure' = exposure + n
              /\ tries' = [tries EXCEPT ![t].step = "running"]
         ELSE /\ tries' = [tries EXCEPT ![t] = Done(t, IF runs[r].state = "completed" THEN "page" ELSE "threw")]
              /\ UNCHANGED <<runs, exposure>>
  /\ UNCHANGED <<limits, others, people, page, client, tab, decisions, elsewhere, loosest, overcharged>>

\* After the provider's check: the authorization, in one transaction.  A request that
\* was authorized before has its result shown again, or is refused.
Claim(t) ==
  /\ tries[t].step = "checked"
  /\ LET r == tries[t].request
         n == Claimed(t)
     IN  IF runs[r].state = "none" /\ n > 0
         THEN /\ runs' = [runs EXCEPT ![r] = Authorized(t, n)]
              /\ exposure' = exposure + n
              /\ tries' = [tries EXCEPT ![t].step = "running"]
         ELSE /\ tries' = [tries EXCEPT ![t] = Done(t,
                             IF runs[r].state = "completed" /\ runs[r].group = tries[t].group THEN "page" ELSE "threw")]
              /\ UNCHANGED <<runs, exposure>>
  /\ UNCHANGED <<limits, others, people, page, client, tab, decisions, elsewhere, loosest, overcharged>>

\* What one lookup may cost beyond the credit authorized for it.
Excess == IF MaxCost > 1 THEN MaxCost - 1 ELSE 0

\* The search ends: what it attempted or was charged stays in the exposure, the rest of
\* its maximum is given back.  Only a lookup that was charged too much takes it above the
\* maximum; that lookup is its last, and it fails.  People of its group are imported when
\* it completed.  A failure shows the page with its reason, or the error page.
EndRun(t, state, kept) ==
  /\ tries[t].step = "running"
  /\ LET r    == tries[t].request
         over == IF runs[r].today = "yes" /\ kept > runs[r].maximum THEN kept - runs[r].maximum ELSE 0
     IN  /\ kept <= runs[r].maximum + (IF state = "failed" THEN Excess ELSE 0)
         /\ runs' = [runs EXCEPT ![r].state = state]
         /\ exposure' = IF runs[r].today = "yes" THEN exposure - runs[r].maximum + kept ELSE exposure
         /\ overcharged' = overcharged + over
         /\ \E new \in SUBSET {p \in People \ people.known : GroupOf[p] = runs[r].group} :
              /\ Cardinality(new) <= IF state = "completed" THEN kept ELSE 0
              /\ people' = [people EXCEPT !.known = @ \cup new]
  /\ \E answer \in {"page", "threw"} :
       /\ state = "completed" => answer = "page"
       /\ tries' = [tries EXCEPT ![t] = Done(t, answer)]
  /\ UNCHANGED <<limits, others, page, client, tab, decisions, elsewhere, loosest>>

\* The answer of the action reaches the tab: the page of the group, without its form,
\* or the error page.
Answer(t) ==
  /\ Awaited(t) /\ tries[t].step = "done"
  /\ IF tries[t].answer = "page"
     THEN Receive(Rendered(tries[t].group, FALSE), "nobody") /\ tab' = "idle"
     ELSE tab' = "error" /\ UNCHANGED <<page, client>>
  /\ tries' = [tries EXCEPT ![t] = Over(t)]
  /\ UNCHANGED <<store, decisions, elsewhere, loosest, overcharged>>

\* The connection is lost before the answer; the server goes on.
LoseAnswer(t) ==
  /\ Awaited(t) /\ tab' = "error"
  /\ tries' = IF tries[t].step = "done" THEN [tries EXCEPT ![t] = Over(t)] ELSE tries
  /\ UNCHANGED <<store, page, client, decisions, elsewhere, loosest, overcharged>>

(***************************** one person ***********************************)

Decides == tab = "idle" /\ decisions < MaxDecisions /\ decisions' = decisions + 1

\* A disposition before a draft exists: nothing is changed for an excluded person, and
\* a person with a draft is refused.
Recorded(p, kind) ==
  IF p \in people.excluded THEN people
  ELSE IF kind = "skip" THEN [people EXCEPT !.skipped = @ \cup {p}]
  ELSE [people EXCEPT !.excluded = @ \cup {p}]

\* Skip, or Don't show again and its confirmation, for the person shown.
Dispose(kind) ==
  LET p == Shown(page, client)
  IN  /\ Decides /\ p # "nobody" /\ page.stage[p] = "qualified-available"
      /\ IF p \in Drafted
         THEN tab' = "error" /\ UNCHANGED <<people, page, client>>
         ELSE /\ people' = Recorded(p, kind)
              /\ tab' = "idle"
              /\ Receive([Rendered(client.group, FALSE) EXCEPT !.stage = [q \in People |-> Stage(q)']],
                         NextOf(page, client))
      /\ UNCHANGED <<limits, exposure, others, runs, tries, elsewhere, loosest, overcharged>>

\* Create draft for the person shown: the reserve decides again, and may refuse for a
\* reason not modelled; a request made before has its draft shown.  The tab moves on to
\* the draft, or to the error page when the command is refused or its answer is lost.
CreateDraft ==
  LET p == Shown(page, client)
  IN  /\ Decides /\ p # "nobody" /\ page.stage[p] = "qualified-available"
      /\ \/ p \in Ready /\ people' = [people EXCEPT !.draft[p] = "today"]
         \/ UNCHANGED people
      /\ tab' \in {"away", "error"}
      /\ UNCHANGED <<limits, exposure, others, runs, page, client, tries, elsewhere, loosest, overcharged>>

(***************************** outside this tab *****************************)

Elsewhere == elsewhere < MaxElsewhere /\ elsewhere' = elsewhere + 1
OutsideOnly == Elsewhere /\ UNCHANGED <<page, client, tab, tries, decisions>>

\* mutant: each setting is stored by itself, and one of them may fail
SaveOneLimit(l) ==
  /\ OutsideOnly /\ Valid(l)
  /\ limits' = [limits EXCEPT !.perDay = l.perDay]
  /\ loosest' = IF l.perDay > loosest THEN l.perDay ELSE loosest
  /\ UNCHANGED <<exposure, others, runs, people, overcharged>>

\* The operator saves new limits: both settings in one transaction.
SaveLimits(l) ==
  /\ OutsideOnly /\ Valid(l)
  /\ limits' = l
  /\ loosest' = IF l.perDay > loosest THEN l.perDay ELSE loosest
  /\ UNCHANGED <<exposure, others, runs, people, overcharged>>

\* A search of another tab authorizes within the limits, or gives back what it held.
OtherSearch(n) ==
  /\ OutsideOnly
  /\ \/ 0 < n /\ n <= limits.perRun /\ n <= Remaining(limits, exposure)
     \/ n < 0 /\ 0 <= others + n
  /\ others' = others + n /\ exposure' = exposure + n
  /\ UNCHANGED <<limits, runs, people, loosest, overcharged>>

\* A search of today is found to have been charged more than it holds: a lookup of another
\* tab costs too much, or one that was interrupted in this tab did.
ChargedLate(n) ==
  /\ OutsideOnly /\ n <= Excess /\ exposure > 0
  /\ others > 0 \/ \E r \in Requests : runs[r].state = "failed" /\ runs[r].today = "yes"
  /\ exposure' = exposure + n /\ overcharged' = overcharged + n
  /\ UNCHANGED <<limits, others, runs, people, loosest>>

\* A skip is over with its day; the skip of a draft of an earlier day drops it.
Skipped(p) ==
  IF people.draft[p] = "earlier" THEN [people EXCEPT !.draft[p] = "dropped"]
  ELSE [people EXCEPT !.skipped = @ \cup {p}]

\* Another tab changes what is known of a person: a draft is made, is skipped or
\* excluded, or the person is contacted.
OtherDecision(p) ==
  /\ OutsideOnly
  /\ \/ p \in Ready /\ people' = [people EXCEPT !.draft[p] = "today"]
     \/ (p \in Ready \/ people.draft[p] \in {"today", "earlier"}) /\ people' = Skipped(p)
     \/ (people.draft[p] \in {"today", "earlier"} \/ p \in Ready)
        /\ people' = [people EXCEPT !.excluded = @ \cup {p}]
     \/ Stage(p) = "in-draft-queue" /\ p \in Drafted \ people.skipped
        /\ people' = [people EXCEPT !.contacted = @ \cup {p}]
  /\ UNCHANGED <<limits, exposure, others, runs, loosest, overcharged>>

\* Midnight: a new day of the budget, and the dismissals of the day are over; a draft
\* that was skipped does not come back.
Midnight ==
  /\ OutsideOnly
  /\ exposure' = 0 /\ others' = 0 /\ overcharged' = 0
  /\ runs' = [r \in Requests |-> [runs[r] EXCEPT !.today = "no"]]
  /\ people' = [people EXCEPT !.skipped = {}, !.draft = [p \in People |->
       IF @[p] # "today" THEN @[p] ELSE IF p \in people.skipped THEN "dropped" ELSE "earlier"]]
  /\ UNCHANGED <<limits, loosest>>

(***************************** the whole ************************************)

Next ==
  \/ \E g \in Scope : SelectGroup(g) \/ Visit(g)
  \/ \E p \in People : SelectPerson(p) \/ OtherDecision(p)
  \/ \E g \in Groups : FindPeople(g)
  \/ TryAgain
  \/ \E n \in Sizes : Confirm(n)
  \/ \E t \in Tries : BeginRefresh(t) \/ Claim(t) \/ Answer(t) \/ LoseAnswer(t)
  \/ \E t \in Tries, state \in {"completed", "failed"}, kept \in 0..(LargestPerRun + Excess) :
       EndRun(t, state, kept)
  \/ \E kind \in {"skip", "do-not-show-again"} : Dispose(kind)
  \/ CreateDraft
  \/ \E l \in Settings : SaveLimits(l)
  \/ \E n \in -LargestPerRun..LargestPerRun : OtherSearch(n)
  \/ \E n \in 1..Excess : ChargedLate(n)
  \/ Midnight

Spec == Init /\ [][Next]_vars

(***************************** properties ***********************************)

\* Every variable has its type, and the saved limits are ones the settings form would
\* accept: both settings are written together or not at all.
TypeOK ==
  /\ Valid(limits) /\ exposure \in Nat /\ others \in 0..exposure
  /\ loosest \in Nat /\ overcharged \in Nat
  /\ runs \in [Requests -> [state : {"none", "authorized", "completed", "failed"}, group : Scope,
                            maximum : Nat, seen : Scope, shown : Nat, today : {"yes", "no"}]]
  /\ people \in PeopleRecord
  /\ page \in [group : Scope, findMore : BOOLEAN, stage : [People -> Stages], most : 0..LargestPerRun,
               request : Requests \cup {NoRequest}]
  /\ client \in [group : Scope, selected : Person]
  /\ tab \in {"idle", "waiting", "error", "away"}
  /\ tries \in [Tries -> [step : {"none", "sent", "checked", "running", "done", "over"}, request : Requests \cup {NoRequest},
                          group : Scope, seen : Scope, asked : Nat, shown : Nat, policy : LimitsOf,
                          answer : {"none", "page", "threw"}]]
  /\ decisions \in 0..MaxDecisions /\ elsewhere \in 0..MaxElsewhere

\* One rendering of the form starts at most one search, however often it is submitted:
\* once a request is authorized, its group, quantity and maximum stay, and an ended
\* search is not begun again (scoped-discovery.ts, claim).
OneSearchPerForm ==
  [][\A r \in Requests : runs[r].state # "none" =>
       /\ runs'[r].maximum = runs[r].maximum /\ runs'[r].group = runs[r].group
       /\ runs[r].state \in {"completed", "failed"} => runs'[r].state = runs[r].state]_vars

\* A search spends on the group the operator was looking at when confirming, though the
\* tab changes its selection without asking the server (candidates-workspace.tsx,
\* showScopedConfirmation).
SearchesTheShownGroup ==
  \A r \in Requests : runs[r].state # "none" => runs[r].group = runs[r].seen

\* The exposure of a day exceeds the largest allowance that was ever in force only by what
\* Apollo charged beyond the credit authorized for a lookup: what was authorized fits,
\* whatever searches run at the same time and whenever the limits change
\* (scoped-discovery.ts, claim; apollo-accounting.ts, reservedExposure).
WithinSavedAllowances == exposure <= loosest + overcharged

\* What the page says of a search: it may use Apollo "up to the displayed maximum"
\* (refresh-control.tsx:203).
SpendsNoMoreThanShown ==
  \A r \in Requests : runs[r].state # "none" => runs[r].maximum <= runs[r].shown

\* What the page says of a person In Drafts: "already represented in the active draft
\* workflow" (candidates-workspace.tsx, history).
InDraftsHasADraft ==
  \A p \in People : Stage(p) = "in-draft-queue" => p \in Drafted \ people.skipped

\* What the page says of an available person: "Ready to create a draft"
\* (candidates-workspace.tsx, the current status).
AvailableIsReady == \A p \in People : Stage(p) = "qualified-available" => p \in Ready

=============================================================================
