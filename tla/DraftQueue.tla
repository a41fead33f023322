------------------------------ MODULE DraftQueue ------------------------------
(***************************************************************************)
(* The draft queue: how candidates of the reserve become drafts, and how   *)
(* drafts leave the queue again.                                           *)
(*                                                                         *)
(* Nothing stores the queue.  It is projected, at every request, from the  *)
(* append-only generations of drafts, the dispositions, the Gmail          *)
(* operations and the candidates as they are classified now.  Every        *)
(* operation below is one SQLite transaction that reads the projection and *)
(* appends a generation or a disposition; what makes it hard is that two   *)
(* clocks (UTC and the campaign calendar) and four tables have to agree.   *)
(*                                                                         *)
(* The five-bucket feature is on.  Candidates are qualified but for their  *)
(* recipient bucket.  Approval and sending are those of GmailOutreach,     *)
(* reduced to what the queue reads of them: a sent message and its entry   *)
(* in the ledger are one step here, and outcomes are left out.             *)
(***************************************************************************)
EXTENDS Integers, Sequences, FiniteSets

CONSTANTS
  Cand, NoOne,
  CompanyOf, Rank,          \* of each candidate; a smaller rank is planned first
  Bucket, FirstClass,       \* recipient buckets; the class each candidate starts with
  Legacy,                   \* the pilot recommendations, in their order
  Request, NoRequest, Counts,
  MaxNow, UtcDay, CampaignDay, \* instants, and the day of each in both calendars
  MaxGens, MaxDispositions, MaxApprovals, MaxReviews \* bounds

Unclassified == "unclassified"
InReview     == "review-required"
Class        == Bucket \cup {Unclassified, InReview}
Days         == {UtcDay[t] : t \in 1..MaxNow} \cup {CampaignDay[t] : t \in 1..MaxNow}
CooldownDays == 7

ASSUME QueueAssumption ==
  /\ MaxNow \in Nat \ {0} /\ UtcDay \in [1..MaxNow -> Nat] /\ CampaignDay \in [1..MaxNow -> Nat]
  /\ \A t, u \in 1..MaxNow : t <= u => UtcDay[t] <= UtcDay[u] /\ CampaignDay[t] <= CampaignDay[u]
  /\ Rank \in [Cand -> Nat] /\ \A c, d \in Cand : Rank[c] = Rank[d] => c = d
  /\ IsFiniteSet(Cand) /\ DOMAIN CompanyOf = Cand /\ FirstClass \in [Cand -> Class]
  /\ Legacy \in Seq(Cand) /\ NoOne \notin Cand /\ NoRequest \notin Request
  /\ Counts \subseteq 1..20 /\ Bucket \cap {Unclassified, InReview, "edited"} = {}
  /\ MaxGens \in Nat /\ MaxDispositions \in Nat /\ MaxApprovals \in Nat /\ MaxReviews \in Nat

VARIABLES
  now,         \* the instant
  gens,        \* daily_refresh_runs, by time
  disp,        \* draft_dispositions: of a candidate on a day
  audit,       \* draft_disposition_audit, per candidate and day
  suppressed,  \* candidate_suppression_entries, those of exclusions by the operator
  class,       \* the recipient bucket a candidate is projected to have
  op,          \* the Gmail operation of a candidate
  approvedAt,
  sentAt,      \* when the last send was started; once it is sent, when it was sent
  page,        \* the correction form an operator has open
  reviews      \* reclassifications so far

queueVars == <<gens, disp, audit, suppressed>>
sendVars  == <<op, approvedAt, sentAt>>
vars == <<now, queueVars, class, sendVars, page, reviews>>

\* A copy is written for a class and says so; edited text belongs to none.  "approved":
\* the review was carried over together with its operation.
Copy == [class : Class, text : Class \cup {"edited"}, stage : {"draft", "approved"}]

Generation ==
  [kind : {"addition", "correction"}, request : Request \cup {NoRequest}, day : Days,
   listed : Seq(Cand), copy : UNION {[S -> Copy] : S \in SUBSET Cand},
   replaced : Cand \cup {NoOne}, index : Int]

Live == {"open", "sending", "send-status-uncertain"}
Disposition == {"none", "skipped", "permanently-excluded"}
Event == {"draft-skipped", "candidate-permanently-excluded"}

TypeOK ==
  /\ now \in 1..MaxNow
  /\ gens \in Seq(Generation)
  /\ disp \in [Cand -> [Days -> Disposition]]
  /\ audit \in [Cand -> [Days -> Seq(Event)]]
  /\ suppressed \in SUBSET Cand
  /\ class \in [Cand -> Class]
  /\ op \in [Cand -> Live \cup {"none", "sent"}]
  /\ approvedAt \in [Cand -> 1..MaxNow] /\ sentAt \in [Cand -> 1..MaxNow]
  /\ page \in [cand : Cand \cup {NoOne}, copy : Copy]
  /\ reviews \in Nat

NoPage == [cand |-> NoOne, copy |-> [class |-> InReview, text |-> InReview, stage |-> "draft"]]

Init ==
  /\ now = 1 /\ gens = <<>> /\ suppressed = {} /\ class = FirstClass /\ reviews = 0
  /\ disp = [c \in Cand |-> [d \in Days |-> "none"]]
  /\ audit = [c \in Cand |-> [d \in Days |-> <<>>]]
  /\ op = [c \in Cand |-> "none"]
  /\ approvedAt = [c \in Cand |-> 1] /\ sentAt = [c \in Cand |-> 1]
  /\ page = NoPage

-----------------------------------------------------------------------------
(* The projection: loadQueueReviews, and what activeDrafts keeps of it.     *)

Elements(s) == {s[i] : i \in DOMAIN s}
Listed(g)   == DOMAIN g.copy
Planned     == UNION {Listed(gens[i]) : i \in DOMAIN gens}
LastOf(c)   == CHOOSE i \in DOMAIN gens : /\ c \in Listed(gens[i])
                                          /\ \A j \in DOMAIN gens : c \in Listed(gens[j]) => j <= i

IsLive(c)     == op[c] \in Live
Renderable(c) == class[c] # InReview
Rendered(c)   == [class |-> class[c], text |-> class[c], stage |-> "draft"]

Draft(c) == IF c \in Planned THEN gens[LastOf(c)].copy[c] ELSE Rendered(c)

\* draftCampaignDate.
DraftDay(c) == IF c \in Planned THEN gens[LastOf(c)].day
               ELSE IF IsLive(c) THEN UtcDay[approvedAt[c]] ELSE UtcDay[now]

IsExcluded(c)       == \E d \in Days : disp[c][d] = "permanently-excluded"
DismissedOn(c, day) == disp[c][day] # "none" \/ IsExcluded(c)

InQueue(c) ==
  /\ \/ c \in Planned
     \/ gens = <<>> /\ c \in Elements(Legacy) /\ Renderable(c)
     \/ IsLive(c) /\ Renderable(c)
  /\ ~DismissedOn(c, DraftDay(c))

CoolingDown(k) == \E c \in Cand : /\ CompanyOf[c] = k /\ op[c] = "sent"
                                  /\ UtcDay[now] < UtcDay[sentAt[c]] + CooldownDays

\* The classification is no longer the one the copy was written for.
Changed(c) == /\ ~IsLive(c) /\ Draft(c).stage = "draft"
              /\ class[c] # Unclassified /\ class[c] # Draft(c).class

\* A blocked draft is hidden, unless it waits for a classification to be settled.
Blocked(c) == /\ ~Changed(c) /\ class[c] # InReview
              /\ c \in suppressed \/ op[c] = "sent" \/ CoolingDown(CompanyOf[c])

Shown(c) == InQueue(c) /\ (IsLive(c) \/ (Draft(c).stage = "draft" /\ ~Blocked(c)))

(* The order: first come first, then every replacement is moved to the place of the
   draft it replaced, one after the other. *)

\* What is left of s when only the members of S are kept.
Keep(s, S) ==
  LET kept[i \in 0..Len(s)] ==
        IF i = 0 THEN <<>> ELSE IF s[i] \in S THEN Append(kept[i - 1], s[i]) ELSE kept[i - 1]
  IN  kept[Len(s)]

AppendNew(s, t) == s \o Keep(t, Cand \ Elements(s))

BaseOrder ==
  LET f[i \in 0..Len(gens)] == IF i = 0 THEN <<>> ELSE AppendNew(f[i - 1], gens[i].listed)
      first == IF gens = <<>> THEN Legacy ELSE f[Len(gens)]
      rest  == {c \in Cand : IsLive(c) /\ c \notin Elements(first)}
  IN  first \o (CHOOSE s \in [1..Cardinality(rest) -> rest] :
                  \A i, j \in DOMAIN s : i < j => Rank[s[i]] < Rank[s[j]])

MoveTo(s, c, k) ==
  IF c \notin Elements(s) THEN s
  ELSE LET others == Keep(s, Cand \ {c})
           at == IF k < Len(others) THEN k ELSE Len(others)
       IN  SubSeq(others, 1, at) \o <<c>> \o SubSeq(others, at + 1, Len(others))

\* The draft a replacement brought in is the last one its generation lists.
Moved(s, g) == IF g.replaced = NoOne THEN s ELSE MoveTo(s, g.listed[Len(g.listed)], g.index)

Queue ==
  LET f[i \in 0..Len(gens)] == IF i = 0 THEN Keep(BaseOrder, {c \in Cand : InQueue(c)})
                                      ELSE Moved(f[i - 1], gens[i])
  IN  Keep(f[Len(gens)], {c \in Cand : Shown(c)})

QueueIndex(c) == IF \E i \in DOMAIN Queue : Queue[i] = c
                 THEN (CHOOSE i \in DOMAIN Queue : Queue[i] = c) - 1 ELSE -1

-----------------------------------------------------------------------------
(* The reserve, and what a batch takes from it.                             *)

\* Companies that have a draft, but for the one about to be replaced, or an operation.
OccupiedByNone(except) == {} \* mutant: a company may have several drafts
Occupied(except) == {CompanyOf[c] : c \in {d \in Cand : (Shown(d) /\ d # except) \/ IsLive(d)}}

EligibleAgain(b, except) == \* mutant: only today's dispositions are looked at
  {c \in Cand : /\ class[c] = b /\ c \notin suppressed /\ op[c] = "none"
                /\ ~DismissedOn(c, CampaignDay[now])
                /\ CompanyOf[c] \notin Occupied(except) /\ ~CoolingDown(CompanyOf[c])}
Eligible(b, except) ==
  {c \in Cand : /\ class[c] = b
                /\ c \notin suppressed /\ c \notin Planned /\ op[c] = "none"
                /\ ~DismissedOn(c, CampaignDay[now])
                /\ CompanyOf[c] \notin Occupied(except)
                /\ ~CoolingDown(CompanyOf[c])}

\* The best of each company; all of one bucket are of one track.
BestOf(E) == {c \in E : \A d \in E : CompanyOf[d] = CompanyOf[c] => Rank[c] <= Rank[d]}

\* planNextDraftBatch: the n best of them in order (ranks differ, so there is one plan).
Plans(E, n) ==
  LET best == BestOf(E)
      size == IF Cardinality(best) < n THEN Cardinality(best) ELSE n
  IN  {s \in [1..size -> best] :
         /\ \A i, j \in 1..size : i < j => Rank[s[i]] < Rank[s[j]]
         /\ \A c \in best \ Elements(s) : \A i \in 1..size : Rank[s[i]] < Rank[c]}

Fresh(q)   == q = NoRequest \/ \A i \in DOMAIN gens : gens[i].request # q
HasRoom    == Len(gens) < MaxGens
CanDismiss == Cardinality({p \in Cand \X Days : disp[p[1]][p[2]] # "none"}) < MaxDispositions

Saved(g) == gens' = Append(gens, g)

\* A live review is carried over with its operation in it.
CopyOf(c) == IF IsLive(c) THEN [Draft(c) EXCEPT !.stage = "approved"] ELSE Draft(c)

\* The generation an Add writes.  The first of all carries the visible queue over.
CarriedNothing(except) == <<>> \* mutant: the first generation starts a queue of its own
Carried(except) == IF gens = <<>> THEN Keep(Queue, Cand \ {except}) ELSE <<>>

Addition(q, new, except) ==
  LET old == Carried(except)
  IN  [kind |-> "addition", request |-> q, day |-> CampaignDay[now],
       listed |-> old \o new,
       copy |-> [c \in Elements(old) \cup Elements(new) |->
                   IF c \in Elements(new) THEN Rendered(c) ELSE CopyOf(c)],
       replaced |-> except, index |-> IF except = NoOne THEN 0 ELSE QueueIndex(except)]

-----------------------------------------------------------------------------
(* Operations.  A request that was answered before is answered again, or is *)
(* refused as a conflict, and changes nothing: Fresh.                       *)

AddBucketDrafts(q, b, n) ==
  /\ Fresh(q) /\ HasRoom
  /\ \E new \in Plans(Eligible(b, NoOne), n) :
       /\ new # <<>> \/ q # NoRequest \* an empty answer is kept for its request
       /\ Saved(Addition(q, new, NoOne))
  /\ UNCHANGED <<now, disp, audit, suppressed, class, sendVars, page, reviews>>

\* Dismissing and replacing are one transaction.  Without reserve nothing happens.
ReplaceDraft(c, b) ==
  /\ Shown(c) /\ ~IsLive(c) /\ Draft(c).class = b
  /\ HasRoom /\ CanDismiss
  /\ \E new \in Plans(Eligible(b, c), 1) :
       /\ new # <<>>
       /\ disp' = [disp EXCEPT ![c][DraftDay(c)] = IF @ = "none" THEN "skipped" ELSE @]
       /\ audit' = [audit EXCEPT ![c][DraftDay(c)] = Append(@, "draft-skipped")]
       /\ Saved(Addition(NoRequest, new, c))
  /\ UNCHANGED <<now, suppressed, class, sendVars, page, reviews>>

\* It carries nothing over.
CreateExactDraft(c, q) ==
  /\ Fresh(q) /\ HasRoom
  /\ class[c] \in Bucket /\ c \in Eligible(class[c], NoOne)
  /\ Saved([kind |-> "addition", request |-> q, day |-> CampaignDay[now], listed |-> <<c>>,
            copy |-> [d \in {c} |-> Rendered(c)], replaced |-> NoOne, index |-> 0])
  /\ UNCHANGED <<now, disp, audit, suppressed, class, sendVars, page, reviews>>

\* The operator opens a draft whose classification changed.
OpenCorrection(c) ==
  /\ Shown(c) /\ Changed(c)
  /\ page' = [cand |-> c, copy |-> Draft(c)]
  /\ UNCHANGED <<now, queueVars, class, sendVars, reviews>>

\* The decision, with the copy of the page it was taken on as its snapshot; the page may
\* be old.  Kept text may have been edited on the form.
Corrected(c, decision) ==
  IF decision = "regenerate" THEN {Rendered(c)}
  ELSE {[class |-> class[c], text |-> t, stage |-> "draft"] : t \in {page.copy.text, "edited"}}

SameSnapshotIgnored(c) == TRUE \* mutant: the snapshot of the page is not compared
SameSnapshot(c) == page.copy = Draft(c)

ResolveCorrection(c, decision) ==
  /\ page.cand = c /\ HasRoom
  /\ Shown(c) /\ Changed(c)
  /\ SameSnapshot(c)
  /\ decision = "regenerate" => Renderable(c)
  /\ \E copy \in Corrected(c, decision) :
       Saved([kind |-> "correction", request |-> NoRequest, day |-> CampaignDay[now],
              listed |-> <<c>>, copy |-> [d \in {c} |-> copy], replaced |-> NoOne, index |-> 0])
  /\ UNCHANGED <<now, disp, audit, suppressed, class, sendVars, page, reviews>>

Settle(c, day, disposition) ==
  /\ disp' = [disp EXCEPT ![c][day] = disposition]
  /\ audit' = [audit EXCEPT ![c][day] = Append(@,
                 IF disposition = "skipped" THEN "draft-skipped" ELSE "candidate-permanently-excluded")]
  /\ suppressed' = IF disposition = "skipped" THEN suppressed ELSE suppressed \cup {c}
  /\ UNCHANGED <<now, gens, class, sendVars, page, reviews>>

\* Skip, or do not show again, on a draft.  One that is dismissed already is not shown.
MayDismissAny(c) == TRUE \* mutant: an unanswered send is not looked at
MayDismiss(c) == op[c] \notin {"sending", "send-status-uncertain"}

DismissDraft(c, disposition) ==
  /\ Shown(c) /\ MayDismiss(c) /\ CanDismiss
  /\ Settle(c, DraftDay(c), disposition)

\* The same on a candidate of the reserve, under the day drafts are planned for.  A retry
\* and a skip after an exclusion change nothing.
NotDrafted(c) == c \notin Planned /\ op[c] = "none"
AlwaysNew(c, day, disposition) == TRUE \* mutant: a retry is recorded again
IsNew(c, day, disposition) == disp[c][day] \notin {disposition, "permanently-excluded"}

DismissCandidate(c, disposition) ==
  LET day == CampaignDay[now]
  IN  /\ NotDrafted(c) /\ c \notin suppressed
      /\ IsNew(c, day, disposition)
      /\ CanDismiss \/ disp[c][day] # "none"
      /\ Settle(c, day, disposition)

-----------------------------------------------------------------------------
(* What the queue reads: sending, reviews of candidates, time.              *)

\* A page of the queue allows approval; it goes through an edit, whose snapshot id is
\* never that of the stored bucket copy.
Approve(c) ==
  /\ Shown(c) /\ op[c] = "none" /\ ~Changed(c) /\ ~Blocked(c) /\ Draft(c).class # InReview
  /\ Cardinality({d \in Cand : op[d] # "none"}) < MaxApprovals
  /\ op' = [op EXCEPT ![c] = "open"]
  /\ approvedAt' = [approvedAt EXCEPT ![c] = now]
  /\ UNCHANGED <<now, queueVars, class, sentAt, page, reviews>>

StartSend(c) ==
  /\ op[c] = "open" /\ Shown(c) /\ c \notin suppressed /\ ~CoolingDown(CompanyOf[c])
  /\ op' = [op EXCEPT ![c] = "sending"]
  /\ sentAt' = [sentAt EXCEPT ![c] = now]
  /\ UNCHANGED <<now, queueVars, class, approvedAt, page, reviews>>

SendUnanswered(c) ==
  /\ op[c] = "sending"
  /\ op' = [op EXCEPT ![c] = "send-status-uncertain"]
  /\ UNCHANGED <<now, queueVars, class, approvedAt, sentAt, page, reviews>>

\* Answered by Gmail now, or reconciled by the operator, who reads the true time in Gmail.
SendConfirmed(c) ==
  /\ op[c] \in {"sending", "send-status-uncertain"}
  /\ op' = [op EXCEPT ![c] = "sent"]
  /\ \E t \in sentAt[c]..now : sentAt' = [sentAt EXCEPT ![c] = t]
  /\ UNCHANGED <<now, queueVars, class, approvedAt, page, reviews>>

SendRefutedAsNotSent(c) == \* mutant: Gmail's word instead of the operation's
  /\ op[c] \in {"sending", "send-status-uncertain"}
  /\ op' = [op EXCEPT ![c] = "not-sent"]
  /\ UNCHANGED <<now, queueVars, class, approvedAt, sentAt, page, reviews>>
SendRefuted(c) ==
  /\ op[c] \in {"sending", "send-status-uncertain"}
  /\ op' = [op EXCEPT ![c] = "open"]
  /\ UNCHANGED <<now, queueVars, class, approvedAt, sentAt, page, reviews>>

\* A correction, a trust decision or the current policy projects another bucket.
Reclassify(c, k) ==
  /\ reviews < MaxReviews /\ reviews' = reviews + 1
  /\ k \in (Bucket \cup {InReview}) \ {class[c]}
  /\ class' = [class EXCEPT ![c] = k]
  /\ UNCHANGED <<now, queueVars, sendVars, page>>

Tick ==
  /\ now < MaxNow /\ now' = now + 1
  /\ UNCHANGED <<queueVars, class, sendVars, page, reviews>>

Next ==
  \/ \E q \in Request \cup {NoRequest}, b \in Bucket, n \in Counts : AddBucketDrafts(q, b, n)
  \/ \E c \in Cand, b \in Bucket : ReplaceDraft(c, b)
  \/ \E c \in Cand, q \in Request : CreateExactDraft(c, q)
  \/ \E c \in Cand : OpenCorrection(c)
  \/ \E c \in Cand, decision \in {"keep-edits", "regenerate"} : ResolveCorrection(c, decision)
  \/ \E c \in Cand, d \in {"skipped", "permanently-excluded"} :
       DismissDraft(c, d) \/ DismissCandidate(c, d)
  \/ \E c \in Cand : \/ Approve(c) \/ StartSend(c)
                     \/ SendUnanswered(c) \/ SendConfirmed(c) \/ SendRefuted(c)
  \/ \E c \in Cand, k \in Class : Reclassify(c, k)
  \/ Tick

Spec == Init /\ [][Next]_vars

-----------------------------------------------------------------------------
(* Properties.                                                              *)

Drafts == {c \in Cand : Shown(c) /\ op[c] # "sent"}

\* The queue keeps what it promises although nothing stores it: a candidate is drafted at
\* most once, a company has one open draft at a time, a replacement swaps exactly two
\* candidates, and no clock, review, cooldown or later batch brings back a draft that was
\* sent or set aside (loadQueueReviews, projectBucketReserve).  Sent drafts are left out:
\* SentLeavesDrafts is about those.
Promise == INSTANCE DraftPromise WITH
  queued <- Drafts, closed <- suppressed \cup (Planned \ Drafts)
KeepsPromise == Promise!Spec

\* No two people of a company are written to within the cooldown, whatever was open,
\* unanswered or being sent when the second was drafted and approved.
OneContactPerCompany ==
  \A c, d \in Cand :
    c # d /\ CompanyOf[c] = CompanyOf[d] /\ op[c] = "sent" /\ op[d] = "sent" =>
      \/ UtcDay[sentAt[c]] >= UtcDay[sentAt[d]] + CooldownDays
      \/ UtcDay[sentAt[d]] >= UtcDay[sentAt[c]] + CooldownDays

\* While it is open whether a message went out, the operator sees its draft: no skip, no
\* exclusion, no review and no day hides it (draft-disposition-verify-send-first).
UncertainStaysListed == \A c \in Cand : op[c] \in {"sending", "send-status-uncertain"} => Shown(c)

\* The dispositions, their audit and the suppression list tell one story, kept by two
\* entry points: each change is recorded once, an exclusion is never downgraded by a
\* later skip, and whoever is excluded on any day is suppressed, has no draft and is in
\* no reserve.
Told(disposition) ==
  CASE disposition = "none"    -> {<<>>}
    [] disposition = "skipped" -> {<<"draft-skipped">>}
    [] OTHER -> {<<"candidate-permanently-excluded">>,
                 <<"draft-skipped", "candidate-permanently-excluded">>}
DispositionsAgree ==
  /\ \A c \in Cand, day \in Days : audit[c][day] \in Told(disp[c][day])
  /\ \A c \in Cand : IsExcluded(c) <=> c \in suppressed
  /\ \A c \in suppressed : ~Shown(c) /\ \A b \in Bucket : c \notin Eligible(b, NoOne)

\* Edited text is given up only by a decision taken on a page that showed it: neither a
\* page left open from before nor a batch overwrites it (bucket-copy-decision-stale).
EditsKept ==
  [][\A c \in Drafts : Draft(c).text = "edited" =>
       Draft(c)'.text = "edited" \/ (page.cand = c /\ page.copy = Draft(c))]_vars

\* Adding drafts takes none away and rewrites none of those there are, also when the first
\* batch has to carry over a queue that was never stored.
Adds == Len(gens') > Len(gens) /\ gens'[Len(gens')].kind = "addition" /\ gens'[Len(gens')].replaced = NoOne
AddKeepsDrafts == [][Adds => \A c \in Drafts : Shown(c)' /\ Draft(c)'.text = Draft(c).text]_vars

\* The documents' word: a confirmed send removes the record from Drafts.  It may come back
\* (MCDraftQueue_resurfaced.cfg).
SentLeavesDrafts == \A c \in Cand : op[c] = "sent" => ~Shown(c)

\* The documents' word: removing a draft retains the other rows' order.  It does not
\* (MCDraftQueue_order.cfg).
IsOrderOf(s, t) == s = Keep(t, Elements(s))
SkipKeepsOrder == [][gens' = gens /\ disp' # disp => IsOrderOf(Queue', Queue)]_vars

\* The documents' word: skipped candidates are excluded from the drafts added next.  A
\* legacy draft is not (MCDraftQueue_legacy.cfg).
SkippedTodayNotAdded == [][\A c \in Planned' \ Planned : disp[c][UtcDay[now]] # "skipped"]_vars

\* The tests' word: a replaced draft leaves another in its place.  A legacy draft may not
\* (MCDraftQueue_legacy.cfg).
ReplacementIsShown ==
  [][Len(gens') > Len(gens) /\ gens'[Len(gens')].replaced # NoOne
       => Cardinality(Drafts') = Cardinality(Drafts)]_vars
=============================================================================
