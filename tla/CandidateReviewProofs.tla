------------------------ MODULE CandidateReviewProofs ------------------------
(***************************************************************************)
(* Proofs about CandidateReview for every set of people, kinds of record   *)
(* and tabs, and any number of commands and reviews.                       *)
(***************************************************************************)
EXTENDS CandidateReview, TLAPS

(***************************************************************************)
(* The inductive invariant.  Eligibility is computed from what is stored,  *)
(* so every fact about it rests on a fact about stored snapshots: which    *)
(* gates the writers between them can never lose.                          *)
(***************************************************************************)

\* Gates an import may record for a person that no writer takes away.
Lasting == {"email", "suppressed"}

\* What holds of a stored snapshot of c, whoever wrote it last.
Sound(c, s) ==
  /\ s.state = "eligible" => s.gates = {}
  /\ s.consent = "suppressed" => "suppressed" \in s.gates
  /\ s.state # "absent" =>
       /\ "email" \in profile[c].gates => "email" \in s.gates
       /\ s.bucketed \/ profile[c].scope = "legacy"

SoundInv == \A c \in Candidates : Sound(c, snapshots[c])

BarredInv == \A c \in barred : c \in excluded \/ snapshots[c].consent = "suppressed"

\* A prepared command names a candidate and has a number of its own.
CommandInv ==
  \A t \in Tabs : prepared[t] # NoCommand =>
    prepared[t].candidate \in Candidates /\ prepared[t].command \in 1 .. issued

DecisionType == [domain : Domains, decision : Decisions, command : Nat, shown : Int]

TypeInv ==
  /\ TypeOK
  /\ profile \in [Candidates -> Profile]
  /\ prepared \in [Tabs -> [candidate : Candidates \cup {"none"}, version : Nat, command : Nat]]
  /\ decisions \in Seq(DecisionType)
  /\ issued \in Nat /\ reviews \in Nat

-----------------------------------------------------------------------------
(* The operators on snapshots.                                              *)

LEMMA BucketAwareGates ==
  ASSUME NEW class, NEW gates \in SUBSET Gates
  PROVE  /\ BucketAware(class, gates) \in SUBSET Gates
         /\ gates \cap Lasting \subseteq BucketAware(class, gates)
         /\ gates = {} /\ class.accepted => BucketAware(class, gates) = {}
BY DEF BucketAware, Gates, HardGates, ReviewGates, Lasting

LEMMA StateOfGates ==
  ASSUME NEW s, NEW gates
  PROVE  /\ StateByGates(s, gates) \in {"eligible", "review-required", "rejected", "suppressed"}
         /\ StateByGates(s, gates) = "eligible" => gates = {} /\ s.consent # "suppressed"
BY DEF StateByGates

\* New gates, and the state they lead to, leave a snapshot well-typed.
LEMMA RetypedSnapshot ==
  ASSUME NEW s \in Snapshot, NEW g \in SUBSET Gates,
         NEW st \in {"eligible", "review-required", "rejected", "suppressed"}
  PROVE  [s EXCEPT !.gates = g, !.state = st] \in Snapshot
BY DEF Snapshot

LEMMA PolicyKeeps ==
  ASSUME NEW s \in Snapshot
  PROVE  /\ ApplyPolicy(s) \in Snapshot
         /\ ApplyPolicy(s).class = s.class /\ ApplyPolicy(s).consent = s.consent
         /\ ApplyPolicy(s).bucketed = s.bucketed
         /\ s.gates \cap Lasting \subseteq ApplyPolicy(s).gates
<1>1. CASE ~Bucketed(s)
  BY <1>1 DEF ApplyPolicy
<1>2. CASE Bucketed(s)
  <2> DEFINE g == BucketAware(s.class, s.gates)
             st == StateByGates(s, g)
  <2>1. s.gates \in SUBSET Gates
    BY DEF Snapshot
  <2>2. g \in SUBSET Gates /\ s.gates \cap Lasting \subseteq g
    BY <2>1, BucketAwareGates
  <2>3. st \in {"eligible", "review-required", "rejected", "suppressed"}
    BY StateOfGates
  <2>4. ApplyPolicy(s) = [s EXCEPT !.gates = g, !.state = st]
    BY <1>2 DEF ApplyPolicy
  <2> HIDE DEF g, st
  <2>5. [s EXCEPT !.gates = g, !.state = st] \in Snapshot
    BY <2>2, <2>3, RetypedSnapshot
  <2>6. QED
    BY <2>2, <2>4, <2>5 DEF Snapshot
<1>3. QED
  BY <1>1, <1>2

\* What the policy makes eligible has no gate left.
LEMMA PolicyJudges ==
  ASSUME NEW s \in Snapshot, Bucketed(s)
  PROVE  LET v == ApplyPolicy(s)
         IN  /\ v.gates = BucketAware(s.class, s.gates)
             /\ v.state = StateByGates(s, BucketAware(s.class, s.gates))
BY DEF ApplyPolicy, Snapshot

LEMMA PolicyStates ==
  ASSUME NEW s \in Snapshot
  PROVE  /\ s.state # "absent" => ApplyPolicy(s).state # "absent"
         /\ (s.state = "eligible" => s.gates = {} /\ s.consent # "suppressed")
              => (ApplyPolicy(s).state = "eligible" =>
                    ApplyPolicy(s).gates = {} /\ ApplyPolicy(s).consent # "suppressed")
<1>1. CASE ~Bucketed(s)
  BY <1>1 DEF ApplyPolicy
<1>2. CASE Bucketed(s)
  BY <1>2, PolicyJudges, PolicyKeeps, StateOfGates
<1>3. QED
  BY <1>1, <1>2

\* The class of a recruiter follows the employer.
RecruiterView(c, s) ==
  LET support == IF Bucketed(s) THEN s.class.support ELSE profile[c].support
      class   == IF Bucketed(s) THEN RecruiterClass(c, support) ELSE s.class
      met     == Bucketed(s) /\ s.class.bucket = profile[c].scope
      all     == (s.gates \ ({"trust", "disallowed"} \cup IF met THEN {"scope"} ELSE {}))
                   \cup TrustGates(c, support)
      gates   == IF Bucketed(s) THEN BucketAware(class, all) ELSE all
  IN  [s EXCEPT !.class = class, !.gates = gates, !.state = StateByGates(s, gates)]

LEMMA TrustIsARecruitersView ==
  ASSUME NEW c, NEW s, profile[c].track = "recruiter"
  PROVE  ApplyTrust(c, s) = ApplyPolicy(RecruiterView(c, s))
BY DEF ApplyTrust, RecruiterView

LEMMA TrustGatesType ==
  ASSUME NEW c, NEW support
  PROVE  /\ TrustGates(c, support) \in SUBSET Gates
         /\ TrustGates(c, support) = {} => 
              /\ Trust(c) # "disallowed"
              /\ Trust(c) # "unverified" \/ NetworkingException(c, support)
BY DEF TrustGates, Gates, HardGates, ReviewGates

LEMMA ReclassedSnapshot ==
  ASSUME NEW s \in Snapshot, NEW g \in SUBSET Gates, NEW k,
         k \in [bucket: Buckets \cup {"none"}, accepted: BOOLEAN, support: Supports \cup {"operator"}],
         NEW st \in {"eligible", "review-required", "rejected", "suppressed"}
  PROVE  [s EXCEPT !.class = k, !.gates = g, !.state = st] \in Snapshot
BY DEF Snapshot

LEMMA RecruiterViewKeeps ==
  ASSUME NEW c \in Candidates, NEW s \in Snapshot, profile \in [Candidates -> Profile]
  PROVE  LET w == RecruiterView(c, s)
         IN  /\ w \in Snapshot
             /\ w.consent = s.consent /\ w.bucketed = s.bucketed
             /\ s.gates \cap Lasting \subseteq w.gates
             /\ w.state # "absent"
             /\ w.state = "eligible" => w.gates = {} /\ s.consent # "suppressed"
             /\ Bucketed(s) => w.class = RecruiterClass(c, s.class.support)
             /\ ~Bucketed(s) => TrustGates(c, profile[c].support) \subseteq w.gates
<1> DEFINE support == IF Bucketed(s) THEN s.class.support ELSE profile[c].support
           class   == IF Bucketed(s) THEN RecruiterClass(c, support) ELSE s.class
           met     == Bucketed(s) /\ s.class.bucket = profile[c].scope
           all     == (s.gates \ ({"trust", "disallowed"} \cup IF met THEN {"scope"} ELSE {}))
                        \cup TrustGates(c, support)
           gates   == IF Bucketed(s) THEN BucketAware(class, all) ELSE all
           st      == StateByGates(s, gates)
           Class   == [bucket: Buckets \cup {"none"}, accepted: BOOLEAN, support: Supports \cup {"operator"}]
<1>1. s.gates \in SUBSET Gates /\ s.class \in Class /\ s.class.support \in Supports \cup {"operator"}
  BY DEF Snapshot
<1>2. support \in Supports \cup {"operator"}
  BY <1>1 DEF Profile
<1>3. class \in Class
  BY <1>1, <1>2 DEF RecruiterClass, Buckets
<1>4. all \in SUBSET Gates /\ s.gates \cap Lasting \subseteq all
  BY <1>1, TrustGatesType DEF Lasting
<1>5. gates \in SUBSET Gates /\ s.gates \cap Lasting \subseteq gates
  BY <1>4, BucketAwareGates
<1>6. /\ st \in {"eligible", "review-required", "rejected", "suppressed"}
      /\ st = "eligible" => gates = {} /\ s.consent # "suppressed"
  BY StateOfGates
<1>7. ~Bucketed(s) => TrustGates(c, profile[c].support) \subseteq gates
  OBVIOUS
<1>8. Bucketed(s) => class = RecruiterClass(c, s.class.support)
  OBVIOUS
<1>9. RecruiterView(c, s) = [s EXCEPT !.class = class, !.gates = gates, !.state = st]
  BY DEF RecruiterView
<1> HIDE DEF support, class, met, all, gates, st, Class
<1>10. [s EXCEPT !.class = class, !.gates = gates, !.state = st] \in Snapshot
  BY <1>3, <1>5, <1>6, ReclassedSnapshot DEF Class
<1>11. QED
  BY <1>5, <1>6, <1>7, <1>8, <1>9, <1>10 DEF Snapshot

\* What every reader of c's snapshot s is shown, before exclusions.
LEMMA ProjectionKeeps ==
  ASSUME NEW c \in Candidates, NEW s \in Snapshot, profile \in [Candidates -> Profile]
  PROVE  LET v == ApplyTrust(c, s)
         IN  /\ v \in Snapshot
             /\ v.consent = s.consent /\ v.bucketed = s.bucketed
             /\ s.gates \cap Lasting \subseteq v.gates
             /\ s.state # "absent" => v.state # "absent"
             /\ (s.state = "eligible" => s.gates = {} /\ s.consent # "suppressed")
                  => (v.state = "eligible" => v.gates = {} /\ s.consent # "suppressed")
<1>1. CASE profile[c].track # "recruiter"
  <2>1. ApplyTrust(c, s) = ApplyPolicy(s)
    BY <1>1 DEF ApplyTrust
  <2>2. QED
    BY <2>1, PolicyKeeps, PolicyStates
<1>2. CASE profile[c].track = "recruiter"
  <2> DEFINE w == RecruiterView(c, s)
  <2>1. ApplyTrust(c, s) = ApplyPolicy(w)
    BY <1>2, TrustIsARecruitersView
  <2>2. /\ w \in Snapshot /\ w.consent = s.consent /\ w.bucketed = s.bucketed
        /\ s.gates \cap Lasting \subseteq w.gates /\ w.state # "absent"
        /\ w.state = "eligible" => w.gates = {} /\ w.consent # "suppressed"
    BY RecruiterViewKeeps
  <2> HIDE DEF w
  <2>3. QED
    BY <2>1, <2>2, PolicyKeeps, PolicyStates
<1>3. QED
  BY <1>1, <1>2

\* A recruiter left without gates has an employer that permits it, now.
LEMMA RecruiterEarned ==
  ASSUME TypeInv, NEW c \in Candidates, NEW s \in Snapshot, profile[c].track = "recruiter",
         Bucketed(s) \/ profile[c].scope = "legacy",
         ApplyTrust(c, s).gates = {}
  PROVE  Trust(c) = "trusted" \/ NetworkingException(c, ApplyTrust(c, s).class.support)
<1> DEFINE w == RecruiterView(c, s)
<1>1. ApplyTrust(c, s) = ApplyPolicy(w)
  BY TrustIsARecruitersView
<1>2. /\ w \in Snapshot /\ w.bucketed = s.bucketed
      /\ Bucketed(s) => w.class = RecruiterClass(c, s.class.support)
      /\ ~Bucketed(s) => TrustGates(c, profile[c].support) \subseteq w.gates
  BY RecruiterViewKeeps DEF TypeInv
<1>3. Trust(c) \in {"trusted", "disallowed", "unverified"}
  <2>1. decisions \in Seq(DecisionType)
    BY DEF TypeInv
  <2>2. decisions # <<>> => decisions[Len(decisions)].decision \in Decisions
    <3>1. decisions # <<>> => Len(decisions) \in 1 .. Len(decisions)
      BY <2>1
    <3>2. decisions # <<>> => decisions[Len(decisions)] \in DecisionType
      BY <2>1, <3>1
    <3>3. QED
      BY <3>2 DEF DecisionType
  <2>3. QED
    BY <2>2 DEF Trust, Last, Decisions
<1> HIDE DEF w
<1>4. CASE Bucketed(s)
  <2>1. Bucketed(w)
    BY <1>2, <1>4 DEF Bucketed
  <2>2. BucketAware(w.class, w.gates) = {}
    BY <1>1, <1>2, <2>1, PolicyJudges
  <2>3. w.class.accepted
    BY <2>2 DEF BucketAware
  <2>4. TrustGates(c, s.class.support) = {} /\ w.class.support = s.class.support
    <3>1. w.class = RecruiterClass(c, s.class.support)
      BY <1>2, <1>4
    <3>2. RecruiterClass(c, s.class.support).accepted => TrustGates(c, s.class.support) = {}
      BY DEF RecruiterClass
    <3>3. RecruiterClass(c, s.class.support).support = s.class.support
      BY DEF RecruiterClass
    <3>4. QED
      BY <2>3, <3>1, <3>2, <3>3
  <2>5. ApplyTrust(c, s).class = w.class
    BY <1>1, <1>2, PolicyKeeps
  <2>6. QED
    BY <1>3, <2>4, <2>5, TrustGatesType
<1>5. CASE ~Bucketed(s)
  <2>1. ApplyPolicy(w) = w
    BY <1>2, <1>5 DEF ApplyPolicy, Bucketed
  <2>2. TrustGates(c, profile[c].support) = {}
    BY <1>1, <1>2, <1>5, <2>1
  <2>3. QED
    BY <1>3, <1>5, <2>2, TrustGatesType DEF NetworkingException
<1>6. QED
  BY <1>4, <1>5

-----------------------------------------------------------------------------
(* What each writer stores.                                                 *)

LEMMA FirstSnapshotSound ==
  ASSUME NEW c \in Candidates, profile \in [Candidates -> Profile]
  PROVE  LET s == FirstSnapshot(c)
         IN  s \in Snapshot /\ s.state # "absent" /\ s.consent = "given" /\ Sound(c, s)
<1> DEFINE p     == profile[c]
           class == FirstClass(c)
           found == p.gates \cup IF p.track = "recruiter" THEN TrustGates(c, p.support) ELSE {}
           gates == IF p.scope = "legacy" THEN found ELSE BucketAware(class, found)
           base  == [Absent EXCEPT !.class = class, !.gates = gates, !.bucketed = (p.scope # "legacy"),
                                   !.role = IF p.track = "recruiter" THEN "unknown" ELSE "known"]
           st    == StateByGates(base, gates)
           Class == [bucket: Buckets \cup {"none"}, accepted: BOOLEAN, support: Supports \cup {"operator"}]
<1>1. p \in Profile
  OBVIOUS
<1>2. /\ p.gates \in SUBSET Gates /\ p.support \in Supports /\ p.bucket \in Buckets
      /\ p.scope # "legacy" => p.scope \in Buckets
  BY <1>1 DEF Profile, Gates, HardGates, ReviewGates
<1>3. class \in Class
  <2>1. RecruiterClass(c, p.support) \in Class
    BY <1>2 DEF RecruiterClass, Buckets
  <2>2. Unclassified \in Class
    BY DEF Unclassified, Supports
  <2>3. CASE p.scope = "legacy" \/ p.track = "recruiter" \/ p.support = "none"
    BY <1>1, <2>1, <2>2, <2>3 DEF FirstClass, Profile
  <2>4. CASE ~(p.scope = "legacy" \/ p.track = "recruiter" \/ p.support = "none")
    <3>1. class = [bucket |-> IF p.support = "title" THEN p.scope ELSE p.bucket,
                   accepted |-> TRUE, support |-> p.support]
      BY <1>1, <2>4 DEF FirstClass, Profile
    <3>2. (IF p.support = "title" THEN p.scope ELSE p.bucket) \in Buckets \cup {"none"}
      BY <1>2, <2>4
    <3>3. QED
      BY <1>2, <3>1, <3>2
  <2>5. QED
    BY <2>3, <2>4
<1>4. found \in SUBSET Gates /\ p.gates \subseteq found
  BY <1>2, TrustGatesType
<1>5. gates \in SUBSET Gates /\ ("email" \in p.gates => "email" \in gates)
  BY <1>4, BucketAwareGates DEF Lasting
<1>6. base.consent = "given" /\ base.bucketed = (p.scope # "legacy")
  BY DEF Absent
<1>7. st \in {"eligible", "review-required", "rejected", "suppressed"} /\ (st = "eligible" => gates = {})
  BY StateOfGates
<1> DEFINE role == IF p.track = "recruiter" THEN "unknown" ELSE "known"
           inBuckets == p.scope # "legacy"
<1>8. FirstSnapshot(c) = [base EXCEPT !.state = st]
  BY DEF FirstSnapshot
<1>9. inBuckets \in BOOLEAN /\ role \in {"known", "unknown"} /\ base.gates = gates
  BY DEF Absent
<1>10. base = [Absent EXCEPT !.class = class, !.gates = gates, !.bucketed = inBuckets, !.role = role]
  OBVIOUS
<1> HIDE DEF class, found, gates, base, st, role, inBuckets
<1>11. base = [state |-> "absent", review |-> "pending", gates |-> gates, class |-> class,
               bucketed |-> inBuckets, role |-> role, consent |-> "given"]
  BY <1>10 DEF Absent
<1>12. base \in Snapshot
  BY <1>3, <1>5, <1>9, <1>11 DEF Snapshot
<1>13. [base EXCEPT !.gates = gates, !.state = st] \in Snapshot
  BY <1>5, <1>7, <1>12, RetypedSnapshot
<1>14. [base EXCEPT !.gates = gates, !.state = st] = [base EXCEPT !.state = st]
  BY <1>9, <1>12 DEF Snapshot
<1>15. FirstSnapshot(c) \in Snapshot
  BY <1>8, <1>13, <1>14
<1>16. /\ FirstSnapshot(c).state = st /\ FirstSnapshot(c).gates = gates
       /\ FirstSnapshot(c).consent = "given"
       /\ FirstSnapshot(c).bucketed = base.bucketed
  BY <1>6, <1>8, <1>9, <1>12 DEF Snapshot
<1>17. FirstSnapshot(c).bucketed \/ p.scope = "legacy"
  BY <1>6, <1>16
<1>18. Sound(c, FirstSnapshot(c))
  BY <1>5, <1>7, <1>16, <1>17 DEF Sound
<1>19. QED
  BY <1>7, <1>15, <1>16, <1>18

LEMMA CompletedSound ==
  ASSUME NEW c \in Candidates, profile \in [Candidates -> Profile],
         NEW s \in Snapshot, Sound(c, s), s.state # "absent"
  PROVE  LET v == Completed(c, s)
         IN  v \in Snapshot /\ v.state # "absent" /\ v.consent = s.consent /\ Sound(c, v)
<1> DEFINE q == ApplyPolicy(s)
           v == ApplyTrust(c, q)
<1>1. /\ q \in Snapshot /\ q.consent = s.consent /\ q.bucketed = s.bucketed /\ q.state # "absent"
      /\ s.gates \cap Lasting \subseteq q.gates
      /\ q.state = "eligible" => q.gates = {} /\ q.consent # "suppressed"
  BY PolicyKeeps, PolicyStates DEF Sound, Lasting
<1> HIDE DEF q
<1>2. /\ v \in Snapshot /\ v.consent = s.consent /\ v.bucketed = s.bucketed /\ v.state # "absent"
      /\ s.gates \cap Lasting \subseteq v.gates
      /\ v.state = "eligible" => v.gates = {} /\ v.consent # "suppressed"
  BY <1>1, ProjectionKeeps
<1>3. Sound(c, v)
  BY <1>2 DEF Sound, Lasting
<1>4. Completed(c, s) = IF v.class.bucket = profile[c].scope THEN v
                        ELSE [v EXCEPT !.gates = v.gates \cup {"scope"},
                                       !.state = IF v.state = "eligible" THEN "review-required" ELSE v.state]
  BY DEF Completed, q
<1> HIDE DEF v
<1> DEFINE g == v.gates \cup {"scope"}
           st == IF v.state = "eligible" THEN "review-required" ELSE v.state
<1>5. g \in SUBSET Gates /\ st \in {"eligible", "review-required", "rejected", "suppressed"}
      /\ st # "eligible"
  BY <1>2 DEF Snapshot, Gates, ReviewGates
<1>6. v.gates \subseteq g
  OBVIOUS
<1> HIDE DEF g, st
<1> DEFINE w == [v EXCEPT !.gates = g, !.state = st]
<1>7. w \in Snapshot
  BY <1>2, <1>5, RetypedSnapshot
<1>8. w.gates = g /\ w.state = st /\ w.consent = v.consent /\ w.bucketed = v.bucketed
  BY <1>2 DEF Snapshot
<1>9. Sound(c, w)
  BY <1>3, <1>5, <1>6, <1>8, <1>2 DEF Sound
<1>10. QED
  BY <1>2, <1>3, <1>4, <1>5, <1>7, <1>8, <1>9 DEF g, st

\* What an allowed review stores is sound again.
LEMMA ReviewedSound ==
  ASSUME NEW c \in Candidates, NEW s \in Snapshot, Sound(c, s), s.state # "absent",
         NEW action \in {"confirm", "correct", "reject", "suppress", "pending"},
         Allowed(s, action)
  PROVE  LET v == Reviewed(s, action)
         IN  /\ v \in Snapshot /\ v.state # "absent" /\ Sound(c, v)
             /\ s.consent = "suppressed" => v.consent = "suppressed"
             /\ action = "suppress" => v.consent = "suppressed"
<1> DEFINE g == CASE action = "correct" -> s.gates \ {"function"}
                  [] action = "suppress" -> s.gates \cup {"suppressed"}
                  [] OTHER -> s.gates
           role == IF action = "correct" THEN "known" ELSE s.role
           consent == IF action = "suppress" THEN "suppressed" ELSE s.consent
           review == CASE action = "pending" -> "pending"
                       [] action = "correct" -> "corrected"
                       [] action = "confirm" -> "confirmed"
                       [] action = "suppress" -> "suppressed"
                       [] OTHER -> "rejected"
           st == CASE action = "pending" -> "review-required"
                   [] action = "suppress" -> "suppressed"
                   [] action = "reject" -> "rejected"
                   [] OTHER -> "eligible"
           v == Reviewed(s, action)
<1>1. v = [s EXCEPT !.gates = g, !.role = role, !.consent = consent, !.review = review, !.state = st]
  BY DEF Reviewed
<1>2. s.gates \in SUBSET Gates /\ s.role \in {"known", "unknown"} /\ s.consent \in {"given", "suppressed"}
  BY DEF Snapshot
<1>3. g \in SUBSET Gates /\ s.gates \cap Lasting \subseteq g
  BY <1>2 DEF Gates, HardGates, Lasting
<1>4. role \in {"known", "unknown"} /\ consent \in {"given", "suppressed"}
  BY <1>2
<1>5. review \in {"pending", "confirmed", "corrected", "rejected", "suppressed"}
  OBVIOUS
<1>6. st \in {"eligible", "review-required", "rejected", "suppressed"}
  OBVIOUS
<1>7. st = "eligible" => action \in {"confirm", "correct"}
  OBVIOUS
<1>8. /\ s.consent = "suppressed" => consent = "suppressed"
      /\ action = "suppress" => consent = "suppressed" /\ "suppressed" \in g
      /\ action # "suppress" => consent = s.consent
  OBVIOUS
<1> HIDE DEF g, role, consent, review, st, v
<1>9. [s EXCEPT !.gates = g, !.role = role, !.consent = consent, !.review = review, !.state = st]
         \in Snapshot
  BY <1>3, <1>4, <1>5, <1>6 DEF Snapshot
<1>10. v \in Snapshot /\ v.state = st /\ v.gates = g /\ v.consent = consent /\ v.bucketed = s.bucketed
  BY <1>1, <1>9 DEF Snapshot
<1>11. st = "eligible" => g = {}
  BY <1>7, <1>10 DEF Allowed, v
<1>12. Sound(c, v)
  BY <1>3, <1>6, <1>8, <1>10, <1>11 DEF Sound, Lasting
<1>13. QED
  BY <1>6, <1>8, <1>10, <1>12 DEF v

\* A correction of the bucket stores a sound snapshot, and makes nobody
\* ineligible who was eligible.
LEMMA CorrectedSound ==
  ASSUME NEW c \in Candidates, NEW s \in Snapshot, Sound(c, s), s.state # "absent",
         NEW bucket \in Buckets
  PROVE  LET v == Corrected(s, bucket)
         IN  /\ v \in Snapshot /\ v.state # "absent" /\ Sound(c, v)
             /\ v.consent = s.consent
             /\ s.state = "eligible" => v.state = "eligible"
<1> DEFINE class == [bucket |-> bucket, accepted |-> TRUE, support |-> "operator"]
           g == BucketAware(class, s.gates)
           stopped == s.consent = "suppressed" \/ s.state = "suppressed"
                      \/ s.review \in {"rejected", "suppressed"}
           review == IF stopped THEN s.review ELSE "corrected"
           st == CASE s.consent = "suppressed" \/ s.state = "suppressed" -> "suppressed"
                   [] s.consent # "suppressed" /\ s.state # "suppressed" /\ stopped -> s.state
                   [] OTHER -> IF g = {} THEN "eligible" ELSE "review-required"
           v == Corrected(s, bucket)
<1>1. v = [s EXCEPT !.class = class, !.bucketed = TRUE, !.gates = g,
                    !.review = review, !.state = st]
  BY DEF Corrected
<1>2. /\ s.gates \in SUBSET Gates
      /\ s.review \in {"pending", "confirmed", "corrected", "rejected", "suppressed"}
      /\ s.state \in {"eligible", "review-required", "rejected", "suppressed"}
  BY DEF Snapshot
<1>3. class \in [bucket: Buckets \cup {"none"}, accepted: BOOLEAN, support: Supports \cup {"operator"}]
      /\ class.accepted
  OBVIOUS
<1>4. /\ g \in SUBSET Gates /\ s.gates \cap Lasting \subseteq g
      /\ s.gates = {} => g = {}
  BY <1>2, <1>3, BucketAwareGates
<1>5. review \in {"pending", "confirmed", "corrected", "rejected", "suppressed"}
  BY <1>2
<1>6. /\ st \in {"eligible", "review-required", "rejected", "suppressed"}
      /\ st = "eligible" => g = {} \/ s.state = "eligible"
      /\ s.state = "eligible" /\ s.consent # "suppressed" /\ g = {} => st = "eligible"
  BY <1>2
<1> HIDE DEF class, g, stopped, review, st, v
<1>7. [s EXCEPT !.class = class, !.bucketed = TRUE, !.gates = g, !.review = review, !.state = st]
         \in Snapshot
  BY <1>3, <1>4, <1>5, <1>6 DEF Snapshot
<1>8. v \in Snapshot /\ v.state = st /\ v.gates = g /\ v.consent = s.consent /\ v.bucketed
  BY <1>1, <1>7 DEF Snapshot
<1>9. st = "eligible" => g = {}
  BY <1>4, <1>6 DEF Sound
<1>10. s.state = "eligible" => st = "eligible"
  BY <1>4, <1>6 DEF Sound
<1>11. Sound(c, v)
  <2>1. s.consent = "suppressed" => "suppressed" \in g
    BY <1>4 DEF Sound, Lasting
  <2>2. "email" \in profile[c].gates => "email" \in g
    BY <1>4 DEF Sound, Lasting
  <2>3. QED
    BY <1>8, <1>9, <2>1, <2>2 DEF Sound
<1>12. QED
  BY <1>6, <1>8, <1>10, <1>11 DEF v

-----------------------------------------------------------------------------
(* The invariant is inductive.                                              *)

\* What holds of the candidates...
CandidacyInv ==
  /\ profile \in [Candidates -> Profile] /\ snapshots \in [Candidates -> Snapshot] /\ reviews \in Nat
  /\ excluded \cup prospects \cup blocked \cup barred \subseteq {c \in Candidates : Imported(c)}
  /\ SoundInv /\ BarredInv /\ PlannerFollowsReviews

\* ... and of the decisions about the employer.
TrustingInv ==
  /\ decisions \in Seq(DecisionType) /\ issued \in Nat
  /\ prepared \in [Tabs -> [candidate : Candidates \cup {"none"}, version : Nat, command : Nat]]
  /\ \A i \in DOMAIN decisions : decisions[i].command \in 1 .. issued
  /\ CommandInv /\ DecisionsAreInformed

IInv == CandidacyInv /\ TrustingInv

LEMMA InitInv == Init => IInv
<1> SUFFICES ASSUME Init PROVE IInv
  OBVIOUS
<1>1. Absent \in Snapshot /\ Absent.state = "absent" /\ Absent.consent = "given" /\ Absent.gates = {}
  BY DEF Absent, Snapshot, Unclassified, Supports
<1>2. profile \in [Candidates -> Profile] /\ snapshots \in [Candidates -> Snapshot] /\ reviews \in Nat
  BY <1>1, ProfilesAssumption DEF Init
<1>3. SoundInv
  BY <1>1 DEF Init, SoundInv, Sound
<1>4. CandidacyInv
  BY <1>2, <1>3 DEF Init, CandidacyInv, BarredInv, PlannerFollowsReviews
<1>5. NoCommand \in [candidate : Candidates \cup {"none"}, version : Nat, command : Nat]
  BY DEF NoCommand
<1>6. TrustingInv
  BY <1>5 DEF Init, TrustingInv, CommandInv, DecisionsAreInformed
<1>7. QED
  BY <1>4, <1>6 DEF IInv

\* Storing a sound snapshot of c.
LEMMA StoreKeeps ==
  ASSUME CandidacyInv, NEW c \in Candidates, NEW v \in Snapshot,
         v.state # "absent", Sound(c, v), profile' = profile,
         snapshots' = [snapshots EXCEPT ![c] = v]
  PROVE  /\ profile' \in [Candidates -> Profile] /\ snapshots' \in [Candidates -> Snapshot] /\ SoundInv'
         /\ snapshots'[c] = v /\ \A d \in Candidates \ {c} : snapshots'[d] = snapshots[d]
         /\ {d \in Candidates : Imported(d)} \cup {c} \subseteq {d \in Candidates : Imported(d)'}
<1>1. snapshots \in [Candidates -> Snapshot] /\ profile \in [Candidates -> Profile] /\ SoundInv
  BY DEF CandidacyInv
<1>2. snapshots'[c] = v /\ \A d \in Candidates \ {c} : snapshots'[d] = snapshots[d]
  BY <1>1
<1>3. SoundInv'
  <2> SUFFICES ASSUME NEW d \in Candidates PROVE Sound(d, snapshots[d])'
    BY DEF SoundInv
  <2>1. CASE d = c
    BY <1>2, <2>1 DEF Sound
  <2>2. CASE d # c
    <3>1. Sound(d, snapshots[d]) /\ snapshots'[d] = snapshots[d]
      BY <1>1, <1>2, <2>2 DEF SoundInv
    <3>2. QED
      BY <3>1 DEF Sound
  <2>3. QED
    BY <2>1, <2>2
<1>4. snapshots' \in [Candidates -> Snapshot]
  BY <1>1
<1>5. QED
  BY <1>1, <1>2, <1>3, <1>4 DEF Imported

LEMMA TrustingUntouched ==
  ASSUME TrustingInv, UNCHANGED trusting
  PROVE  TrustingInv'
BY DEF TrustingInv, trusting, CommandInv, DecisionsAreInformed

LEMMA CandidacyUntouched ==
  ASSUME CandidacyInv, UNCHANGED candidacy, UNCHANGED profile
  PROVE  CandidacyInv'
BY DEF CandidacyInv, candidacy, SoundInv, Sound, BarredInv, PlannerFollowsReviews, Imported

LEMMA ImportKeeps ==
  ASSUME IInv, NEW c \in Candidates, Import(c)
  PROVE  IInv'
<1> DEFINE s == FirstSnapshot(c)
           v == IF Bucketed(s) THEN Completed(c, s) ELSE s
<1>1. CandidacyInv /\ TrustingInv
  BY DEF IInv
<1>2. profile \in [Candidates -> Profile] /\ snapshots \in [Candidates -> Snapshot] /\ profile' = profile
  BY <1>1 DEF CandidacyInv, Import
<1>3. s \in Snapshot /\ s.state # "absent" /\ Sound(c, s)
  BY <1>2, FirstSnapshotSound
<1>4. v \in Snapshot /\ v.state # "absent" /\ Sound(c, v)
  BY <1>2, <1>3, CompletedSound
<1>5. ~Imported(c) /\ snapshots' = [snapshots EXCEPT ![c] = v]
  BY DEF Import
<1>6. /\ prospects' = prospects \/ (prospects' = prospects \cup {c} /\ s.state = "eligible" /\ v = s)
      /\ UNCHANGED <<excluded, blocked, reviews, barred, trusting>>
  BY DEF Import, Materialized
<1> HIDE DEF v, s
<1>7. /\ profile' \in [Candidates -> Profile] /\ snapshots' \in [Candidates -> Snapshot] /\ SoundInv'
      /\ snapshots'[c] = v /\ \A d \in Candidates \ {c} : snapshots'[d] = snapshots[d]
      /\ {d \in Candidates : Imported(d)} \cup {c} \subseteq {d \in Candidates : Imported(d)'}
  BY <1>1, <1>2, <1>4, <1>5, StoreKeeps
<1>8. c \notin excluded \cup prospects \cup blocked \cup barred
  BY <1>1, <1>5 DEF CandidacyInv
<1>9. (excluded \cup prospects \cup blocked \cup barred \subseteq {d \in Candidates : Imported(d)})'
  BY <1>1, <1>6, <1>7 DEF CandidacyInv
<1>10. BarredInv'
  BY <1>1, <1>6, <1>7, <1>8 DEF CandidacyInv, BarredInv
<1>11. PlannerFollowsReviews'
  <2> SUFFICES ASSUME NEW d \in prospects' \ blocked' PROVE snapshots'[d].state = "eligible"
    BY DEF PlannerFollowsReviews
  <2>1. CASE d = c
    BY <1>6, <1>7, <1>8, <2>1
  <2>2. CASE d # c
    <3>1. d \in prospects \ blocked /\ d \in Candidates
      BY <1>1, <1>6, <2>2 DEF CandidacyInv
    <3>2. QED
      BY <1>1, <1>7, <2>2, <3>1 DEF CandidacyInv, PlannerFollowsReviews
  <2>3. QED
    BY <2>1, <2>2
<1>12. CandidacyInv'
  BY <1>1, <1>6, <1>7, <1>9, <1>10, <1>11 DEF CandidacyInv
<1>13. QED
  BY <1>1, <1>6, <1>12, TrustingUntouched DEF IInv

LEMMA ReviewKeeps ==
  ASSUME IInv, NEW c \in Candidates,
         NEW action \in {"confirm", "correct", "reject", "suppress", "pending"},
         ReviewCandidate(c, action)
  PROVE  IInv'
<1> DEFINE v == Reviewed(snapshots[c], action)
<1>1. CandidacyInv /\ TrustingInv
  BY DEF IInv
<1>2. profile \in [Candidates -> Profile] /\ snapshots \in [Candidates -> Snapshot] /\ profile' = profile
  BY <1>1 DEF CandidacyInv, ReviewCandidate
<1>3. snapshots[c] \in Snapshot /\ snapshots[c].state # "absent" /\ Sound(c, snapshots[c])
  BY <1>1, <1>2 DEF ReviewCandidate, Imported, CandidacyInv, SoundInv
<1>4. /\ v \in Snapshot /\ v.state # "absent" /\ Sound(c, v)
      /\ snapshots[c].consent = "suppressed" => v.consent = "suppressed"
      /\ action = "suppress" => v.consent = "suppressed"
  BY <1>3, ReviewedSound DEF ReviewCandidate
<1>5. snapshots' = [snapshots EXCEPT ![c] = v] /\ Imported(c)
  BY DEF ReviewCandidate
<1>6. /\ prospects' = prospects \/ (prospects' = prospects \cup {c} /\ v.state = "eligible")
      /\ blocked' \in {blocked, blocked \ {c}, blocked \cup {c}}
      /\ v.state # "eligible" => c \notin prospects' \/ c \in blocked'
      /\ barred' = IF action = "suppress" THEN barred \cup {c} ELSE barred
      /\ reviews' = reviews + 1
      /\ UNCHANGED <<excluded, trusting>>
  BY DEF ReviewCandidate, BlockedAfter, CountReview
<1> HIDE DEF v
<1>7. /\ profile' \in [Candidates -> Profile] /\ snapshots' \in [Candidates -> Snapshot] /\ SoundInv'
      /\ snapshots'[c] = v /\ \A d \in Candidates \ {c} : snapshots'[d] = snapshots[d]
      /\ {d \in Candidates : Imported(d)} \cup {c} \subseteq {d \in Candidates : Imported(d)'}
  BY <1>1, <1>2, <1>4, <1>5, StoreKeeps
<1>8. prospects' \subseteq prospects \cup {c} /\ blocked' \subseteq blocked \cup {c}
      /\ barred' \subseteq barred \cup {c} /\ excluded' = excluded
  BY <1>6
<1>9. (excluded \cup prospects \cup blocked \cup barred \subseteq {d \in Candidates : Imported(d)})'
  BY <1>1, <1>7, <1>8 DEF CandidacyInv
<1>10. BarredInv'
  <2> SUFFICES ASSUME NEW d \in barred' PROVE d \in excluded' \/ snapshots'[d].consent = "suppressed"
    BY DEF BarredInv
  <2>1. CASE d = c
    <3>1. action = "suppress" \/ c \in barred
      BY <1>6, <2>1
    <3>2. QED
      BY <1>1, <1>4, <1>7, <1>8, <2>1, <3>1 DEF CandidacyInv, BarredInv
  <2>2. CASE d # c
    <3>1. d \in barred /\ d \in Candidates
      BY <1>1, <1>8, <2>2 DEF CandidacyInv
    <3>2. QED
      BY <1>1, <1>7, <1>8, <2>2, <3>1 DEF CandidacyInv, BarredInv
  <2>3. QED
    BY <2>1, <2>2
<1>11. PlannerFollowsReviews'
  <2> SUFFICES ASSUME NEW d \in prospects' \ blocked' PROVE snapshots'[d].state = "eligible"
    BY DEF PlannerFollowsReviews
  <2>1. CASE d = c
    BY <1>6, <1>7, <2>1
  <2>2. CASE d # c
    <3>1. d \in prospects \ blocked /\ d \in Candidates
      BY <1>1, <1>6, <1>8, <2>2 DEF CandidacyInv
    <3>2. QED
      BY <1>1, <1>7, <2>2, <3>1 DEF CandidacyInv, PlannerFollowsReviews
  <2>3. QED
    BY <2>1, <2>2
<1>12. reviews' \in Nat
  BY <1>1, <1>6 DEF CandidacyInv
<1>13. CandidacyInv'
  BY <1>7, <1>9, <1>10, <1>11, <1>12 DEF CandidacyInv
<1>14. QED
  BY <1>1, <1>6, <1>13, TrustingUntouched DEF IInv

LEMMA CorrectKeeps ==
  ASSUME IInv, NEW c \in Candidates, NEW bucket \in Buckets, CorrectBucket(c, bucket)
  PROVE  IInv'
<1> DEFINE v == Corrected(snapshots[c], bucket)
<1>1. CandidacyInv /\ TrustingInv
  BY DEF IInv
<1>2. snapshots[c] \in Snapshot /\ snapshots[c].state # "absent" /\ Sound(c, snapshots[c])
  BY <1>1 DEF CorrectBucket, Imported, CandidacyInv, SoundInv
<1>3. /\ v \in Snapshot /\ v.state # "absent" /\ Sound(c, v)
      /\ v.consent = snapshots[c].consent
      /\ snapshots[c].state = "eligible" => v.state = "eligible"
  BY <1>2, CorrectedSound
<1>4. /\ snapshots' = [snapshots EXCEPT ![c] = v]
      /\ UNCHANGED <<profile, excluded, prospects, blocked, barred, trusting>>
      /\ reviews' = reviews + 1
  BY DEF CorrectBucket, CountReview
<1> HIDE DEF v
<1>5. /\ profile' \in [Candidates -> Profile] /\ snapshots' \in [Candidates -> Snapshot] /\ SoundInv'
      /\ snapshots'[c] = v /\ \A d \in Candidates \ {c} : snapshots'[d] = snapshots[d]
      /\ {d \in Candidates : Imported(d)} \cup {c} \subseteq {d \in Candidates : Imported(d)'}
  BY <1>1, <1>3, <1>4, StoreKeeps
<1>6. \A d \in Candidates : /\ snapshots'[d].consent = snapshots[d].consent
                            /\ snapshots[d].state = "eligible" => snapshots'[d].state = "eligible"
  BY <1>3, <1>5
<1>7. CandidacyInv'
  BY <1>1, <1>4, <1>5, <1>6 DEF CandidacyInv, BarredInv, PlannerFollowsReviews
<1>8. QED
  BY <1>1, <1>4, <1>7, TrustingUntouched DEF IInv

LEMMA ExcludeKeeps ==
  ASSUME IInv, NEW c \in Candidates, Exclude(c)
  PROVE  IInv'
<1>1. CandidacyInv /\ TrustingInv
  BY DEF IInv
<1>2. /\ Imported(c) /\ excluded' = excluded \cup {c} /\ barred' = barred \cup {c}
      /\ reviews' = reviews + 1
      /\ UNCHANGED <<profile, snapshots, prospects, blocked, trusting>>
  BY DEF Exclude, CountReview
<1>3. SoundInv' /\ PlannerFollowsReviews' /\ BarredInv'
  BY <1>1, <1>2 DEF CandidacyInv, SoundInv, Sound, PlannerFollowsReviews, BarredInv
<1>4. CandidacyInv'
  BY <1>1, <1>2, <1>3 DEF CandidacyInv, Imported
<1>5. QED
  BY <1>1, <1>2, <1>4, TrustingUntouched DEF IInv

LEMMA PrepareKeeps ==
  ASSUME IInv, NEW t \in Tabs, NEW c \in Candidates, Prepare(t, c)
  PROVE  IInv'
<1> DEFINE r == [candidate |-> c, version |-> Len(decisions), command |-> issued + 1]
<1>1. CandidacyInv /\ TrustingInv
  BY DEF IInv
<1>2. /\ issued' = issued + 1 /\ prepared' = [prepared EXCEPT ![t] = r]
      /\ UNCHANGED <<profile, decisions, candidacy>>
  BY DEF Prepare
<1>3. decisions \in Seq(DecisionType) /\ issued \in Nat
  BY <1>1 DEF TrustingInv
<1>4. r \in [candidate : Candidates \cup {"none"}, version : Nat, command : Nat]
      /\ r.candidate \in Candidates /\ r.command = issued + 1
  BY <1>3
<1> HIDE DEF r
<1>5. prepared' \in [Tabs -> [candidate : Candidates \cup {"none"}, version : Nat, command : Nat]]
  BY <1>1, <1>2, <1>4 DEF TrustingInv
<1>6. CommandInv'
  <2> SUFFICES ASSUME NEW u \in Tabs, prepared'[u] # NoCommand
               PROVE  prepared'[u].candidate \in Candidates /\ prepared'[u].command \in 1 .. issued'
    BY DEF CommandInv
  <2>1. CASE u = t
    BY <1>1, <1>2, <1>3, <1>4, <2>1 DEF TrustingInv
  <2>2. CASE u # t
    <3>1. prepared'[u] = prepared[u]
      BY <1>1, <1>2, <2>2 DEF TrustingInv
    <3>2. prepared[u].candidate \in Candidates /\ prepared[u].command \in 1 .. issued
      BY <1>1, <3>1 DEF TrustingInv, CommandInv
    <3>3. QED
      BY <1>2, <1>3, <3>1, <3>2
  <2>3. QED
    BY <2>1, <2>2
<1>7. \A i \in DOMAIN decisions' : decisions'[i].command \in 1 .. issued'
  BY <1>1, <1>2, <1>3 DEF TrustingInv
<1>8. TrustingInv'
  BY <1>1, <1>2, <1>3, <1>5, <1>6, <1>7 DEF TrustingInv, DecisionsAreInformed
<1>9. QED
  BY <1>1, <1>2, <1>8, CandidacyUntouched DEF IInv

LEMMA DecideKeeps ==
  ASSUME IInv, NEW t \in Tabs, NEW decision \in Decisions, Decide(t, decision)
  PROVE  IInv'
<1> DEFINE form == prepared[t]
           r == [domain |-> profile[form.candidate].domain, decision |-> decision,
                 command |-> form.command, shown |-> form.version]
<1>1. CandidacyInv /\ TrustingInv
  BY DEF IInv
<1>2. /\ form # NoCommand /\ form.version = Len(decisions)
      /\ \A i \in DOMAIN decisions : decisions[i].command # form.command
      /\ decisions' = Append(decisions, r)
      /\ UNCHANGED <<profile, prepared, issued, candidacy>>
  BY DEF Decide
<1>3. decisions \in Seq(DecisionType) /\ issued \in Nat
  BY <1>1 DEF TrustingInv
<1>4. form.candidate \in Candidates /\ form.command \in 1 .. issued /\ form.command \in Nat
  BY <1>1, <1>2 DEF TrustingInv, CommandInv
<1>5. profile[form.candidate].domain \in Domains
  BY <1>1, <1>4 DEF CandidacyInv, Profile
<1>6. r \in DecisionType /\ r.command = form.command /\ r.shown = Len(decisions)
  BY <1>2, <1>3, <1>4, <1>5 DEF DecisionType
<1> HIDE DEF form, r
<1>7. /\ decisions' \in Seq(DecisionType) /\ DOMAIN decisions' = 1 .. Len(decisions) + 1
      /\ \A i \in 1 .. Len(decisions) : decisions'[i] = decisions[i]
      /\ decisions'[Len(decisions) + 1] = r
      /\ DOMAIN decisions = 1 .. Len(decisions) /\ Len(decisions) \in Nat
  BY <1>2, <1>3, <1>6
<1>8. \A i \in DOMAIN decisions' : i \in DOMAIN decisions \/ i = Len(decisions) + 1
  BY <1>7
<1>9. \A i \in DOMAIN decisions' : decisions'[i].command \in 1 .. issued'
  BY <1>1, <1>2, <1>4, <1>6, <1>7, <1>8 DEF TrustingInv
<1>10. \A i \in DOMAIN decisions' : decisions'[i].shown = i - 1
  BY <1>1, <1>6, <1>7, <1>8 DEF TrustingInv, DecisionsAreInformed
<1>11. \A i, j \in DOMAIN decisions' : decisions'[i].command = decisions'[j].command => i = j
  BY <1>1, <1>2, <1>6, <1>7, <1>8 DEF TrustingInv, DecisionsAreInformed
<1>12. TrustingInv'
  BY <1>1, <1>2, <1>3, <1>7, <1>9, <1>10, <1>11 DEF TrustingInv, CommandInv, DecisionsAreInformed
<1>13. QED
  BY <1>1, <1>2, <1>12, CandidacyUntouched DEF IInv

LEMMA StutterKeeps ==
  ASSUME IInv, UNCHANGED vars
  PROVE  IInv'
BY TrustingUntouched, CandidacyUntouched DEF IInv, vars, trusting, candidacy

LEMMA NextKeeps == IInv /\ [Next]_vars => IInv'
<1> SUFFICES ASSUME IInv, [Next]_vars PROVE IInv'
  OBVIOUS
<1>1. ASSUME NEW c \in Candidates, Import(c) PROVE IInv'
  BY <1>1, ImportKeeps
<1>2. ASSUME NEW c \in Candidates,
             NEW action \in {"confirm", "correct", "reject", "suppress", "pending"},
             ReviewCandidate(c, action)
      PROVE IInv'
  BY <1>2, ReviewKeeps
<1>3. ASSUME NEW c \in Candidates, NEW bucket \in Buckets, CorrectBucket(c, bucket) PROVE IInv'
  BY <1>3, CorrectKeeps
<1>4. ASSUME NEW c \in Candidates, Exclude(c) PROVE IInv'
  BY <1>4, ExcludeKeeps
<1>5. ASSUME NEW t \in Tabs, NEW c \in Candidates, Prepare(t, c) PROVE IInv'
  BY <1>5, PrepareKeeps
<1>6. ASSUME NEW t \in Tabs, NEW decision \in Decisions, Decide(t, decision) PROVE IInv'
  BY <1>6, DecideKeeps
<1>7. CASE UNCHANGED vars
  BY <1>7, StutterKeeps
<1>8. QED
  BY <1>1, <1>2, <1>3, <1>4, <1>5, <1>6, <1>7 DEF Next

LEMMA Inductive == Spec => []IInv
BY InitInv, NextKeeps, PTL DEF Spec

LEMMA TypesFollow == IInv => TypeInv
<1> SUFFICES ASSUME IInv PROVE TypeInv
  OBVIOUS
<1>1. CandidacyInv /\ TrustingInv
  BY DEF IInv
<1>2. decisions \in Seq(DecisionType) /\ issued \in Nat
  BY <1>1 DEF TrustingInv
<1>3. \A i \in DOMAIN decisions : decisions[i] \in DecisionType
  BY <1>2
<1>4. \A i \in DOMAIN decisions : /\ decisions[i].domain \in Domains /\ decisions[i].decision \in Decisions
                                  /\ decisions[i].command \in 1 .. issued
  BY <1>1, <1>3 DEF TrustingInv, DecisionType
<1>5. ASSUME NEW t \in Tabs PROVE prepared[t].command \in 0 .. issued
  <2>1. CASE prepared[t] = NoCommand
    BY <1>2, <2>1 DEF NoCommand
  <2>2. CASE prepared[t] # NoCommand
    BY <1>1, <1>2, <2>2 DEF TrustingInv, CommandInv
  <2>3. QED
    BY <2>1, <2>2
<1>6. TypeOK
  BY <1>1, <1>4, <1>5 DEF TypeOK, CandidacyInv
<1>7. QED
  BY <1>1, <1>6 DEF TypeInv, CandidacyInv, TrustingInv

\* Who a reader is shown as eligible, and what the stored snapshot then says.
LEMMA ShownEligible ==
  ASSUME IInv, NEW c \in Candidates, View(c).state = "eligible"
  PROVE  /\ c \notin excluded /\ Imported(c)
         /\ View(c) = ApplyTrust(c, ApplyPolicy(snapshots[c]))
         /\ snapshots[c].consent # "suppressed"
         /\ View(c).gates = {} /\ "email" \notin profile[c].gates
         /\ ApplyPolicy(snapshots[c]) \in Snapshot
         /\ ApplyPolicy(snapshots[c]).bucketed \/ profile[c].scope = "legacy"
<1> DEFINE s == snapshots[c]
           q == ApplyPolicy(s)
           v == ApplyTrust(c, q)
           shown == IF Imported(c) THEN Projected(c) ELSE Absent
<1>1. profile \in [Candidates -> Profile] /\ s \in Snapshot /\ Sound(c, s)
  BY DEF IInv, CandidacyInv, SoundInv
<1>2. Imported(c) => s.state # "absent"
  BY DEF Imported
<1>3. Projected(c) = v
  BY DEF Projected
<1>4. View(c) = IF c \in excluded
                THEN [shown EXCEPT !.state = "suppressed", !.consent = "suppressed",
                                   !.gates = shown.gates \cup {"suppressed"}]
                ELSE shown
  BY DEF View
<1>5. Absent \in Snapshot /\ Absent.state = "absent"
  BY DEF Absent, Snapshot, Unclassified, Supports
<1> HIDE DEF s
<1>6. /\ q \in Snapshot /\ q.consent = s.consent /\ q.bucketed = s.bucketed
      /\ s.gates \cap Lasting \subseteq q.gates
      /\ q.state = "eligible" => q.gates = {} /\ q.consent # "suppressed"
  BY <1>1, PolicyKeeps, PolicyStates DEF Sound, Lasting
<1> HIDE DEF q
<1>7. /\ v \in Snapshot /\ s.gates \cap Lasting \subseteq v.gates
      /\ v.state = "eligible" => v.gates = {} /\ q.consent # "suppressed"
  BY <1>1, <1>6, ProjectionKeeps DEF Lasting
<1> HIDE DEF v
<1>8. shown \in Snapshot
  BY <1>3, <1>5, <1>7
<1> HIDE DEF shown
<1>9. c \notin excluded
  <2>1. [shown EXCEPT !.state = "suppressed", !.consent = "suppressed",
                      !.gates = shown.gates \cup {"suppressed"}].state = "suppressed"
    BY <1>8 DEF Snapshot
  <2>2. QED
    BY <1>4, <2>1
<1>10. Imported(c) /\ View(c) = v
  BY <1>3, <1>4, <1>5, <1>9 DEF shown
<1>11. v.gates = {} /\ s.consent # "suppressed"
  BY <1>6, <1>7, <1>10
<1>12. "email" \notin profile[c].gates
  BY <1>1, <1>2, <1>7, <1>10, <1>11 DEF Sound, Lasting
<1>13. q.bucketed \/ profile[c].scope = "legacy"
  BY <1>1, <1>2, <1>6, <1>10 DEF Sound
<1>14. QED
  BY <1>6, <1>9, <1>10, <1>11, <1>12, <1>13 DEF s, q, v

-----------------------------------------------------------------------------
(* The theorems.                                                            *)

\* Every variable keeps its type, and only imported people are reviewed,
\* excluded or planned.
THEOREM TypeCorrect == Spec => []TypeOK
<1>1. IInv => TypeOK
  BY TypesFollow DEF TypeInv
<1>2. QED
  BY <1>1, Inductive, PTL

\* Nobody suppressed in a review or excluded while browsing is ever shown as
\* eligible again.
THEOREM SuppressionLasts == Spec => []SuppressedStaySuppressed
<1>1. IInv => SuppressedStaySuppressed
  <2> SUFFICES ASSUME IInv, NEW c \in barred, View(c).state = "eligible" PROVE FALSE
    BY DEF SuppressedStaySuppressed
  <2>1. c \in Candidates /\ (c \in excluded \/ snapshots[c].consent = "suppressed")
    BY DEF IInv, CandidacyInv, BarredInv
  <2>2. QED
    BY <2>1, ShownEligible
<1>2. QED
  BY <1>1, Inductive, PTL

\* Nobody is shown as eligible without a verified address, and no recruiter
\* without an employer that the last decision about the recruiter's own domain
\* permits.
THEOREM EligibilityIsEarned == Spec => []EligibleIsEarned
<1>1. IInv => EligibleIsEarned
  <2> SUFFICES ASSUME IInv, NEW c \in Candidates, View(c).state = "eligible"
               PROVE  /\ "email" \notin profile[c].gates
                      /\ profile[c].track = "recruiter" =>
                           Trust(c) = "trusted" \/ NetworkingException(c, View(c).class.support)
    BY DEF EligibleIsEarned
  <2>1. "email" \notin profile[c].gates
    BY ShownEligible
  <2>2. ASSUME profile[c].track = "recruiter"
        PROVE  Trust(c) = "trusted" \/ NetworkingException(c, View(c).class.support)
    <3> DEFINE q == ApplyPolicy(snapshots[c])
    <3>1. /\ q \in Snapshot
          /\ q.bucketed \/ profile[c].scope = "legacy"
          /\ View(c) = ApplyTrust(c, q) /\ View(c).gates = {}
      BY ShownEligible
    <3>2. TypeInv
      BY TypesFollow
    <3> HIDE DEF q
    <3>3. Bucketed(q) \/ profile[c].scope = "legacy"
      BY <3>1 DEF Bucketed
    <3>4. q \in Snapshot /\ ApplyTrust(c, q).gates = {}
      BY <3>1
    <3>5. Trust(c) = "trusted" \/ NetworkingException(c, ApplyTrust(c, q).class.support)
      BY <2>2, <3>2, <3>3, <3>4, RecruiterEarned
    <3>6. QED
      BY <3>1, <3>5
  <2>3. QED
    BY <2>1, <2>2
<1>2. QED
  BY <1>1, Inductive, PTL

\* Whoever the planner may plan was last left eligible by the import or by the
\* operator's reviews.
THEOREM ThePlannerFollows == Spec => []PlannerFollowsReviews
<1>1. IInv => PlannerFollowsReviews
  BY DEF IInv, CandidacyInv
<1>2. QED
  BY <1>1, Inductive, PTL

\* Every decision about the employer was taken on the one it follows, and no
\* command counts twice, however many tabs keep and repeat their commands.
THEOREM DecisionsAreTakenInTurn == Spec => []DecisionsAreInformed
<1>1. IInv => DecisionsAreInformed
  BY DEF IInv, TrustingInv
<1>2. QED
  BY <1>1, Inductive, PTL
==============================================================================
