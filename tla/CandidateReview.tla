-------------------------- MODULE CandidateReview --------------------------
(***************************************************************************)
(* How an imported candidate becomes, stays or stops being someone the     *)
(* operator may write to: the import and the completion of a scoped        *)
(* discovery (application/ingestion/import-candidates.ts,                  *)
(* infrastructure/sqlite/scoped-candidate-completion.ts), the operator's   *)
(* reviews and bucket corrections (database.ts reviewCandidate,            *)
(* application/ingestion/review-bucket.ts), the exclusion of a person, and *)
(* the audited trust decisions about an employer                           *)
(* (application/company-trust/review-company-trust.ts).                    *)
(*                                                                         *)
(* What is stored is a snapshot per candidate.  Nothing reads it as it is: *)
(* every reader gets its projection, View, which applies the bucket policy *)
(* and the employer's current trust to the snapshot each time              *)
(* (application/ingestion/recruiter-company-trust.ts).                     *)
(*                                                                         *)
(* A gate is one of the reasons not to write to somebody.  One employer is *)
(* modelled, with one provider id and the domains its people's records     *)
(* name.  Left out: scores, the early-career scope, chief executives,      *)
(* agencies, employers that are not identified, and titles (a recruiter is *)
(* one by title; a title-supported leader is one of the profiles).         *)
(***************************************************************************)
EXTENDS Integers, Sequences, SequencesExt

CONSTANTS
    Candidates,    \* people the provider knows
    Profiles,      \* what a provider's record may say of a person, see Profile
    Tabs,          \* where a trust decision is prepared
    MaxCommands,   \* bound: trust commands prepared
    MaxReviews     \* bound: reviews, corrections and exclusions

Buckets  == {"recruiters", "peers", "executives"}
HardGates   == {"email", "experience", "seniority", "disallowed", "suppressed"}
ReviewGates == {"bucket", "scope", "trust", "function"}
Gates    == HardGates \cup ReviewGates
Domains  == {"old", "new"}
Decisions == {"trusted", "disallowed"}
Supports == {"none", "title", "evidence"}

\* scope: the bucket a scoped discovery asked for, or "legacy" for an import
\* made without the five buckets; bucket: what the record's evidence says
Profile == [track: {"recruiter", "professional"}, scope: Buckets \cup {"legacy"},
            domain: Domains, support: Supports, bucket: Buckets,
            gates: SUBSET {"email", "experience", "seniority", "function"}]

ASSUME ProfilesAssumption == Profiles \subseteq Profile
ASSUME BoundsAssumption == {MaxCommands, MaxReviews} \subseteq Nat

VARIABLES
    profile,    \* the provider's record of each person
    snapshots,  \* imported_candidates: the stored snapshot of each candidate
    excluded,   \* candidate_suppression_entries: people never shown again
    prospects,  \* prospects: people the campaign planner may plan
    blocked,    \* suppression_entries: prospects the planner leaves out
    decisions,  \* company_trust_audit of the employer, oldest first
    prepared,   \* the trust command each tab has ready, if any
    issued,     \* trust commands prepared so far
    reviews,    \* reviews, corrections and exclusions so far
    barred      \* history: people the operator suppressed or excluded

candidacy == <<snapshots, excluded, prospects, blocked, reviews, barred>>
trusting  == <<decisions, prepared, issued>>
vars      == <<profile, snapshots, excluded, prospects, blocked, decisions,
               prepared, issued, reviews, barred>>

Unclassified == [bucket |-> "none", accepted |-> FALSE, support |-> "none"]
Absent == [state |-> "absent", review |-> "pending", gates |-> {}, class |-> Unclassified,
           bucketed |-> FALSE, role |-> "unknown", consent |-> "given"]
NoCommand == [candidate |-> "none", version |-> 0, command |-> 0]

Imported(c) == snapshots[c].state # "absent"
Bucketed(s) == s.bucketed

---------------------------------------------------------------------------
(* Projection: bucket policy and employer trust applied to a snapshot.     *)

\* The exceptions a classification makes to the gates; all others stay
BucketAware(class, gates) ==
    LET evident == gates \ {"bucket"}
        leader  == class.bucket = "executives"
    IN  IF ~class.accepted
        THEN evident \cup {"bucket"}
        ELSE evident
             \ ((IF class.bucket # "recruiters" THEN {"trust"} ELSE {})
                \cup (IF class.bucket = "peers" THEN {"experience", "seniority"} ELSE {})
                \cup (IF leader /\ class.support \in {"title", "operator"}
                      THEN {"seniority", "function"} ELSE {}))

StateByGates(s, gates) ==
    CASE s.consent = "suppressed" -> "suppressed"
      [] s.consent # "suppressed" /\ gates = {} -> "eligible"
      [] s.consent # "suppressed" /\ gates # {} /\ gates \subseteq ReviewGates -> "review-required"
      [] OTHER -> "rejected"

\* applyCurrentRecipientPolicy: a snapshot without buckets is left alone
ApplyPolicy(s) ==
    IF ~Bucketed(s) THEN s
    ELSE LET gates == BucketAware(s.class, s.gates)
         IN  [s EXCEPT !.gates = gates, !.state = StateByGates(s, gates)]

\* The last decision counts for the domain it was made about, no other
Trust(c) ==
    IF decisions # <<>> /\ Last(decisions).domain = profile[c].domain
    THEN Last(decisions).decision
    ELSE "unverified"

\* An unverified employer is no obstacle to a recruiter found by a discovery of
\* recruiters whose recruiting function is evident
NetworkingException(c, support) ==
    /\ Trust(c) = "unverified"
    /\ profile[c].scope = "recruiters"
    /\ support \in {"evidence", "operator"}

\* mutant: an employer found disallowed is only a matter for review
LenientTrustGates(c, support) ==
    IF Trust(c) = "trusted" \/ NetworkingException(c, support) \/ Trust(c) = "disallowed"
    THEN {} ELSE {"trust"}

\* qualifyRecruiterWithCompanyTrust
TrustGates(c, support) ==
    CASE Trust(c) = "disallowed" -> {"disallowed"}
      [] Trust(c) = "unverified" /\ ~NetworkingException(c, support) -> {"trust"}
      [] OTHER -> {}

\* A recruiter's class, accepted when the evidence and the employer are
RecruiterClass(c, support) ==
    [bucket |-> "recruiters", support |-> support,
     accepted |-> support # "none" /\ TrustGates(c, support) = {}]

\* applyCurrentCompanyTrust: gates that depend on trust are computed afresh
ApplyTrust(c, s) ==
    IF profile[c].track # "recruiter" THEN ApplyPolicy(s)
    ELSE LET support  == IF Bucketed(s) THEN s.class.support ELSE profile[c].support
             class    == IF Bucketed(s) THEN RecruiterClass(c, support) ELSE s.class
             met      == Bucketed(s) /\ s.class.bucket = profile[c].scope
             retained == s.gates \ ({"trust", "disallowed"} \cup IF met THEN {"scope"} ELSE {})
             gates    == LET all == retained \cup TrustGates(c, support)
                         IN  IF Bucketed(s) THEN BucketAware(class, all) ELSE all
         IN  ApplyPolicy([s EXCEPT !.class = class, !.gates = gates,
                                   !.state = StateByGates(s, gates)])

\* projectCurrentCompanyTrust: policy, then trust, then policy
Projected(c) == ApplyTrust(c, ApplyPolicy(snapshots[c]))

\* listImportedCandidates: what every reader is shown
View(c) ==
    LET s == IF Imported(c) THEN Projected(c) ELSE Absent
    IN  IF c \in excluded
        THEN [s EXCEPT !.state = "suppressed", !.consent = "suppressed",
                       !.gates = @ \cup {"suppressed"}]
        ELSE s

---------------------------------------------------------------------------
(* Import.                                                                 *)

\* classifyRecipientBucket and projectTitleSupportedPersonalNetworking
FirstClass(c) ==
    LET p == profile[c]
    IN  CASE p.scope = "legacy" -> Unclassified
          [] p.scope # "legacy" /\ p.track = "recruiter" -> RecruiterClass(c, p.support)
          [] p.scope # "legacy" /\ p.track = "professional" /\ p.support = "none" -> Unclassified
          [] OTHER -> [bucket |-> IF p.support = "title" THEN p.scope ELSE p.bucket,
                       accepted |-> TRUE, support |-> p.support]

FirstSnapshot(c) ==
    LET p     == profile[c]
        class == FirstClass(c)
        found == p.gates \cup IF p.track = "recruiter" THEN TrustGates(c, p.support) ELSE {}
        gates == IF p.scope = "legacy" THEN found ELSE BucketAware(class, found)
        base  == [Absent EXCEPT !.class = class, !.gates = gates, !.bucketed = (p.scope # "legacy"),
                                !.role = IF p.track = "recruiter" THEN "unknown" ELSE "known"]
    IN  [base EXCEPT !.state = StateByGates(base, gates)]

\* The completion stores the projection, and marks who is not in the scope
Completed(c, s) ==
    LET shown == ApplyTrust(c, ApplyPolicy(s))
        inScope == shown.class.bucket = profile[c].scope
    IN  IF inScope THEN shown
        ELSE [shown EXCEPT !.gates = @ \cup {"scope"},
                           !.state = IF @ = "eligible" THEN "review-required" ELSE @]

\* Only a candidate without buckets, with a known role, goes to the planner
Materialized(s) == ~Bucketed(s) /\ s.role = "known"

\* mutant: a record that is known already is imported once more
ImportOver(c) ==
    /\ LET s == FirstSnapshot(c)
       IN  snapshots' = [snapshots EXCEPT ![c] = IF Bucketed(s) THEN Completed(c, s) ELSE s]
    /\ UNCHANGED <<profile, excluded, prospects, blocked, reviews, barred, trusting>>

\* importCandidateBatch, and completeScopedCandidateRecords for a scoped batch.
\* A known record is skipped; a changed one makes the batch fail
Import(c) ==
    /\ ~Imported(c)
    /\ LET s == FirstSnapshot(c)
       IN  /\ snapshots' = [snapshots EXCEPT ![c] = IF Bucketed(s) THEN Completed(c, s) ELSE s]
           /\ prospects' = IF s.state = "eligible" /\ Materialized(s)
                           THEN prospects \cup {c} ELSE prospects
    /\ UNCHANGED <<profile, excluded, blocked, reviews, barred, trusting>>

---------------------------------------------------------------------------
(* Reviews.                                                                *)

CountReview == reviews < MaxReviews /\ reviews' = reviews + 1

\* What a review makes of the stored snapshot (not of its projection)
Reviewed(s, action) ==
    LET gates == CASE action = "correct" -> s.gates \ {"function"}
                   [] action = "suppress" -> s.gates \cup {"suppressed"}
                   [] OTHER -> s.gates
    IN  [s EXCEPT !.gates = gates,
                  !.role = IF action = "correct" THEN "known" ELSE @,
                  !.consent = IF action = "suppress" THEN "suppressed" ELSE @,
                  !.review = CASE action = "pending" -> "pending"
                               [] action = "correct" -> "corrected"
                               [] action = "confirm" -> "confirmed"
                               [] action = "suppress" -> "suppressed"
                               [] OTHER -> "rejected",
                  !.state = CASE action = "pending" -> "review-required"
                              [] action = "suppress" -> "suppressed"
                              [] action = "reject" -> "rejected"
                              [] OTHER -> "eligible"]

\* confirm and correct are refused while any gate is left
Allowed(s, action) ==
    action \in {"confirm", "correct"} => Reviewed(s, action).gates = {}

\* mutant: only a rejection keeps a planned person from the planner
RejectOnlyBlocks(c, s, action) ==
    IF s.state = "eligible"
    THEN IF Materialized(s) THEN blocked \ {c} ELSE blocked
    ELSE IF c \in prospects /\ action # "pending" THEN blocked \cup {c} ELSE blocked

\* Who the planner leaves out after a review
BlockedAfter(c, s, action) ==
    IF s.state = "eligible"
    THEN IF Materialized(s) THEN blocked \ {c} ELSE blocked
    ELSE IF c \in prospects THEN blocked \cup {c} ELSE blocked

ReviewCandidate(c, action) ==
    /\ Imported(c)
    /\ Allowed(snapshots[c], action)
    /\ CountReview
    /\ LET s == Reviewed(snapshots[c], action)
       IN  /\ snapshots' = [snapshots EXCEPT ![c] = s]
           /\ prospects' = IF s.state = "eligible" /\ Materialized(s)
                           THEN prospects \cup {c} ELSE prospects
           /\ blocked' = BlockedAfter(c, s, action)
    /\ barred' = IF action = "suppress" THEN barred \cup {c} ELSE barred
    /\ UNCHANGED <<profile, excluded, trusting>>

\* reviewedBucketCorrection: the operator vouches for a bucket
Corrected(s, bucket) ==
    LET class   == [bucket |-> bucket, accepted |-> TRUE, support |-> "operator"]
        gates   == BucketAware(class, s.gates)
        stopped == s.consent = "suppressed" \/ s.state = "suppressed"
                   \/ s.review \in {"rejected", "suppressed"}
    IN  [s EXCEPT !.class = class, !.bucketed = TRUE, !.gates = gates,
                  !.review = IF stopped THEN @ ELSE "corrected",
                  !.state = CASE s.consent = "suppressed" \/ @ = "suppressed" -> "suppressed"
                              [] s.consent # "suppressed" /\ @ # "suppressed" /\ stopped -> @
                              [] OTHER -> IF gates = {} THEN "eligible" ELSE "review-required"]

\* Only a recruiter by title can be corrected to a recruiter, and to nothing else
CorrectBucket(c, bucket) ==
    /\ Imported(c)
    /\ (profile[c].track = "recruiter") <=> (bucket = "recruiters")
    /\ CountReview
    /\ snapshots' = [snapshots EXCEPT ![c] = Corrected(snapshots[c], bucket)]
    /\ UNCHANGED <<profile, excluded, prospects, blocked, barred, trusting>>

\* mutant: whoever the page named is excluded, imported or not
ExcludeAnyone(c) ==
    /\ c \notin excluded
    /\ CountReview
    /\ excluded' = excluded \cup {c}
    /\ barred' = barred \cup {c}
    /\ UNCHANGED <<profile, snapshots, prospects, blocked, trusting>>

\* recordCandidateDispositionInRepository with do-not-show-again, for somebody
\* without a draft
Exclude(c) ==
    /\ Imported(c)
    /\ c \notin excluded
    /\ CountReview
    /\ excluded' = excluded \cup {c}
    /\ barred' = barred \cup {c}
    /\ UNCHANGED <<profile, snapshots, prospects, blocked, trusting>>

---------------------------------------------------------------------------
(* Trust decisions about the employer.                                     *)

\* The page prepares a command for a candidate whose employer is unverified,
\* with the version of the trust it shows
Prepare(t, c) ==
    /\ issued < MaxCommands
    /\ Imported(c)
    /\ Trust(c) = "unverified"
    /\ issued' = issued + 1
    /\ prepared' = [prepared EXCEPT ![t] =
                      [candidate |-> c, version |-> Len(decisions), command |-> issued + 1]]
    /\ UNCHANGED <<profile, decisions, candidacy>>

\* mutant: a decision is appended whatever version the operator saw
DecideBlind(t, decision) ==
    LET form == prepared[t]
    IN  /\ form # NoCommand
        /\ \A i \in DOMAIN decisions : decisions[i].command # form.command
        /\ decisions' = Append(decisions,
                            [domain |-> profile[form.candidate].domain, decision |-> decision,
                             command |-> form.command, shown |-> form.version])
        /\ UNCHANGED <<profile, prepared, issued, candidacy>>

\* reviewCompanyTrust: a command already recorded is replayed (or refused when
\* it says something else), a version that is not the current one is refused
Decide(t, decision) ==
    LET form == prepared[t]
    IN  /\ form # NoCommand
        /\ \A i \in DOMAIN decisions : decisions[i].command # form.command
        /\ form.version = Len(decisions)
        /\ decisions' = Append(decisions,
                            [domain |-> profile[form.candidate].domain, decision |-> decision,
                             command |-> form.command, shown |-> form.version])
        /\ UNCHANGED <<profile, prepared, issued, candidacy>>

---------------------------------------------------------------------------
Init ==
    /\ profile \in [Candidates -> Profiles]
    /\ snapshots = [c \in Candidates |-> Absent]
    /\ excluded = {} /\ prospects = {} /\ blocked = {} /\ barred = {}
    /\ decisions = <<>>
    /\ prepared = [t \in Tabs |-> NoCommand]
    /\ issued = 0 /\ reviews = 0

Next ==
    \/ \E c \in Candidates :
        \/ Import(c)
        \/ \E action \in {"confirm", "correct", "reject", "suppress", "pending"} :
              ReviewCandidate(c, action)
        \/ \E bucket \in Buckets : CorrectBucket(c, bucket)
        \/ Exclude(c)
    \/ \E t \in Tabs :
        \/ \E c \in Candidates : Prepare(t, c)
        \/ \E decision \in Decisions : Decide(t, decision)

Spec == Init /\ [][Next]_vars

---------------------------------------------------------------------------
(* Properties.                                                             *)

Snapshot == [state: {"absent", "eligible", "review-required", "rejected", "suppressed"},
             review: {"pending", "confirmed", "corrected", "rejected", "suppressed"},
             gates: SUBSET Gates,
             class: [bucket: Buckets \cup {"none"}, accepted: BOOLEAN,
                     support: Supports \cup {"operator"}],
             bucketed: BOOLEAN, role: {"known", "unknown"}, consent: {"given", "suppressed"}]

\* Every variable has its type, and only imported people are reviewed,
\* excluded or planned.
TypeOK ==
    /\ snapshots \in [Candidates -> Snapshot]
    /\ excluded \cup prospects \cup blocked \cup barred
          \subseteq {c \in Candidates : Imported(c)}
    /\ \A i \in DOMAIN decisions :
          /\ decisions[i].domain \in Domains /\ decisions[i].decision \in Decisions
          /\ decisions[i].command \in 1 .. issued
    /\ \A t \in Tabs : prepared[t].command \in 0 .. issued

\* Whoever the operator suppressed in a review or excluded while browsing is
\* never shown as eligible again: not by a later review, by a correction of the
\* bucket, by a new decision about the employer, or by another import of the
\* same person (import-candidates.ts:24, review-bucket.ts:197).
SuppressedStaySuppressed == \A c \in barred : View(c).state # "eligible"

\* Nobody is eligible whose address is unverified, whatever was confirmed or
\* corrected; and no recruiter is eligible whose employer, at the domain of
\* that recruiter's own record, is neither trusted nor covered by the exception
\* for recruiters found as such, although the snapshot was stored under an
\* earlier decision (recruiter-company-trust.ts:108-140, database.ts:118).
EligibleIsEarned ==
    \A c \in Candidates : View(c).state = "eligible" =>
        /\ "email" \notin profile[c].gates
        /\ profile[c].track = "recruiter" =>
              Trust(c) = "trusted" \/ NetworkingException(c, View(c).class.support)

\* Whoever the campaign planner may plan was last left eligible by the import
\* or by the operator's reviews: the planner's tables follow every review
\* (database.ts:115-118).
PlannerFollowsReviews ==
    \A c \in prospects \ blocked : snapshots[c].state = "eligible"

\* Every decision about the employer was taken on the decision it follows: no
\* tab overwrites one it has not seen, and no command counts twice, although
\* tabs keep their commands and repeat them (review-company-trust.ts:94-128).
DecisionsAreInformed ==
    /\ \A i \in DOMAIN decisions : decisions[i].shown = i - 1
    /\ \A i, j \in DOMAIN decisions : decisions[i].command = decisions[j].command => i = j

---------------------------------------------------------------------------
(* What the repository says and the code does not do.                      *)

\* Whoever the operator rejected in a review is not shown as eligible while the
\* review stands.  review-bucket.ts:196: a classification review cannot undo a
\* prior operator rejection.  The projection computes the state from the gates
\* alone, and a rejection leaves none.
RejectionHolds ==
    \A c \in Candidates : snapshots[c].review = "rejected" => View(c).state # "eligible"

\* While the last decision about the employer is that it is a recruiting
\* service, none of its recruiters is eligible.  docs/audited-company-trust.md:9
\* and :31: a disallowed company, and any later domain drift, fails closed.  A
\* record with another domain makes the employer unverified, and the exception
\* for recruiters found as such applies.
DisallowFailsClosed ==
    decisions # <<>> /\ Last(decisions).decision = "disallowed" =>
        \A c \in Candidates :
            profile[c].track = "recruiter" => View(c).state # "eligible"

\* Nobody is eligible as an executive without the experience the import found
\* missing.  recipient-buckets/index.ts:100: only the exceptions of a reviewed
\* bucket are removed, all other gates remain.  A classification as a peer
\* removes the gate from the snapshot, and a correction does not bring it back.
GatesOutlastCorrections ==
    \A c \in Candidates :
        View(c).state = "eligible" /\ View(c).class.bucket = "executives" =>
            "experience" \notin profile[c].gates

=============================================================================
