------------------------ MODULE LiveValidationProofs ------------------------
(***************************************************************************)
(* Proofs about LiveValidation for any number of buckets, any allowance    *)
(* and any use of the account by others.                                   *)
(***************************************************************************)
EXTENDS LiveValidation, FiniteSetTheorems, FunctionTheorems, SequenceTheorems, TLAPS

Steps == {"idle", "baseline", "before", "claim", "search", "answered", "returned", "threw",
          "after", "afterFailure"}

Outcome == [bucket : Buckets, attempts : Credits, after : Nat]
Session == [baseline : [cycle : Nat, used : Nat], snapshot : Nat, outcomes : Seq(Outcome),
            stopped : {"none", "no", "outside", "failed", "anomaly"}]
Operation == [state : {"none", "authorized", "completed", "failed"}, attempts : Credits,
              observed : Reports, day : Nat, evidence : {"none", "clean", "faulty"}]
Memory == [bucket : Buckets, state : Session, usedBefore : Nat, attempts : Credits,
           observed : Reports]

\* The provider is called by whoever made the claim, once.
CallInv ==
  /\ \A b \in Buckets : calls[b] <= 1 /\ (ops[b].state = "none" => calls[b] = 0)
  /\ \A t \in Terminals : pc[t] \in {"search", "answered"} => ops[mine[t].bucket].state # "none"
  /\ \A t \in Terminals : pc[t] = "search" => calls[mine[t].bucket] = 0
  /\ \A t, u \in Terminals :
       pc[t] = "search" /\ pc[u] = "search" /\ mine[t].bucket = mine[u].bucket => t = u

TypeInv ==
  /\ saved \in Session /\ ops \in [Buckets -> Operation]
  /\ account \in [cycle : Nat, used : Nat]
  /\ outside \in Nat /\ protected \in Nat /\ days \in Nat
  /\ pc \in [Terminals -> Steps] /\ mine \in [Terminals -> Memory]
  /\ calls \in [Buckets -> Nat] /\ charged \in [Buckets -> Nat]

\* One terminal: what a phase remembers of the session is the session.
PhaseInv ==
  \A t \in Terminals :
    /\ pc[t] \notin {"idle", "baseline"} =>
         /\ saved.stopped = "no" /\ mine[t].state = saved
         /\ mine[t].bucket = Len(saved.outcomes) + 1
    /\ pc[t] \notin {"idle", "baseline", "before"} => mine[t].usedBefore = Prior(saved)
    /\ pc[t] \in {"search", "answered"} => ops[mine[t].bucket].state = "authorized"
    /\ pc[t] \in {"returned", "after"} => ops[mine[t].bucket].state = "completed"

OutcomesInv ==
  \A i \in DOMAIN saved.outcomes :
    /\ saved.outcomes[i].bucket = i /\ ops[i].state = "completed"
    /\ saved.stopped = "no" => ops[i].evidence # "faulty"

SettledInv == PhaseInv /\ OutcomesInv

IInv == TypeInv /\ CallInv

-----------------------------------------------------------------------------
(* Types.                                                                   *)

LEMMA CountTypes ==
  /\ BucketCount \in Nat \ {0} /\ DailyCap \in Nat \ {0} /\ 1 \in Buckets
BY CountsAssumption DEF Buckets

LEMMA ForgottenType == Forgotten \in Memory /\ NoSession \in Session /\ NoOperation \in Operation
BY CountTypes DEF Forgotten, NoSession, NoOperation, Memory, Session, Operation, Credits, Reports

LEMMA StoppedType ==
  ASSUME NEW s \in Session, NEW r \in {"none", "no", "outside", "failed", "anomaly"}
  PROVE  /\ Stop(s, r) \in Session /\ Stop(s, r).outcomes = s.outcomes
         /\ Stop(s, r).baseline = s.baseline /\ Stop(s, r).stopped = r
BY DEF Stop, Session

LEMMA OutcomeType ==
  ASSUME ops \in [Buckets -> Operation], NEW b \in Buckets, NEW n \in Nat
  PROVE  OutcomeOf(b, n) \in Outcome
BY DEF OutcomeOf, Outcome, Operation

LEMMA WithOutcomeShape ==
  ASSUME ops \in [Buckets -> Operation], NEW s \in Session, NEW b \in Buckets,
         NEW before \in Nat, NEW used \in Nat
  PROVE  LET v == WithOutcome(s, b, before, used)
         IN  /\ v \in Session
             /\ v.outcomes = Append(s.outcomes, OutcomeOf(b, used)) /\ v.baseline = s.baseline
             /\ v.stopped = "no" =>
                  /\ ops[b].state = "completed" /\ ops[b].evidence # "faulty"
                  /\ ~StagedAccountUsageAnomaly(ops[b].attempts, ops[b].observed, used - before)
<1> DEFINE outcomes == Append(s.outcomes, OutcomeOf(b, used))
           anomaly == \/ InspectionAnomaly(b, s.snapshot)
                      \/ StagedAccountUsageAnomaly(ops[b].attempts, ops[b].observed, used - before)
                      \/ used - s.baseline.used > DailyCap
                      \/ SessionAttempts(outcomes) > DailyCap
           st == IF anomaly THEN "anomaly" ELSE "no"
           v == WithOutcome(s, b, before, used)
<1>1. v = [s EXCEPT !.outcomes = outcomes, !.stopped = st]
  BY DEF WithOutcome
<1>2. s.outcomes \in Seq(Outcome)
  BY DEF Session
<1>3. OutcomeOf(b, used) \in Outcome
  BY OutcomeType
<1>4. outcomes \in Seq(Outcome)
  BY <1>2, <1>3
<1>5. st \in {"anomaly", "no"} /\ (st = "no" => ~anomaly)
  OBVIOUS
<1>6. ~anomaly => /\ ops[b].state = "completed" /\ ops[b].evidence # "faulty"
                  /\ ~StagedAccountUsageAnomaly(ops[b].attempts, ops[b].observed, used - before)
  BY DEF InspectionAnomaly
<1> HIDE DEF outcomes, anomaly, st
<1>7. [s EXCEPT !.outcomes = outcomes, !.stopped = st] \in Session
  BY <1>4, <1>5 DEF Session
<1>8. v.outcomes = outcomes /\ v.stopped = st /\ v.baseline = s.baseline
  BY <1>1 DEF Session
<1>9. QED
  BY <1>1, <1>5, <1>6, <1>7, <1>8 DEF outcomes

\* A reassessment keeps the buckets and the measured use of every outcome.
LEMMA ReassessedShape ==
  ASSUME ops \in [Buckets -> Operation], NEW s \in Session
  PROVE  LET v == Reassessed(s)
         IN  /\ v \in Session /\ v.baseline = s.baseline
             /\ Len(v.outcomes) = Len(s.outcomes)
             /\ \A i \in 1 .. Len(s.outcomes) : /\ v.outcomes[i].bucket = s.outcomes[i].bucket
                                                /\ v.outcomes[i].after = s.outcomes[i].after
             /\ v.stopped = "no" => \A i \in 1 .. Len(s.outcomes) :
                  LET b == s.outcomes[i].bucket
                  IN  /\ ops[b].state = "completed" /\ ops[b].evidence # "faulty"
                      /\ ~StagedAccountUsageAnomaly(ops[b].attempts, ops[b].observed,
                                                    s.outcomes[i].after - UsedBefore(s, i))
<1> DEFINE wrong(i) == LET o == s.outcomes[i]
                       IN \/ InspectionAnomaly(o.bucket, s.snapshot)
                          \/ StagedAccountUsageAnomaly(ops[o.bucket].attempts, ops[o.bucket].observed,
                                                       o.after - UsedBefore(s, i))
           outcomes == [i \in DOMAIN s.outcomes |-> OutcomeOf(s.outcomes[i].bucket, s.outcomes[i].after)]
           anomaly == \/ protected # s.snapshot
                      \/ \E i \in DOMAIN outcomes : wrong(i)
                      \/ Prior(s) - s.baseline.used > DailyCap
                      \/ SessionAttempts(outcomes) > DailyCap
           st == IF anomaly THEN "anomaly" ELSE "no"
           v == Reassessed(s)
<1>1. v = [s EXCEPT !.outcomes = outcomes, !.stopped = st]
  BY DEF Reassessed
<1>2. /\ s.outcomes \in Seq(Outcome) /\ Len(s.outcomes) \in Nat
      /\ DOMAIN s.outcomes = 1 .. Len(s.outcomes)
  BY DEF Session
<1>3. \A i \in 1 .. Len(s.outcomes) : s.outcomes[i] \in Outcome
  BY <1>2
<1>4. \A i \in 1 .. Len(s.outcomes) : OutcomeOf(s.outcomes[i].bucket, s.outcomes[i].after) \in Outcome
  BY <1>3, OutcomeType DEF Outcome
<1>5. /\ outcomes \in [1 .. Len(s.outcomes) -> Outcome]
      /\ \A i \in 1 .. Len(s.outcomes) : /\ outcomes[i].bucket = s.outcomes[i].bucket
                                         /\ outcomes[i].after = s.outcomes[i].after
  BY <1>2, <1>4 DEF OutcomeOf
<1>6. outcomes \in Seq(Outcome) /\ Len(outcomes) = Len(s.outcomes)
  <2>1. outcomes \in Seq(Outcome)
    BY <1>2, <1>5, SeqDef
  <2>2. DOMAIN outcomes = 1 .. Len(s.outcomes)
    BY <1>5
  <2> HIDE DEF outcomes
  <2>3. QED
    BY <2>1, <2>2, <1>2, LenProperties
<1>7. st \in {"anomaly", "no"} /\ (st = "no" => ~anomaly)
  OBVIOUS
<1>8. ~anomaly => \A i \in 1 .. Len(s.outcomes) :
         LET b == s.outcomes[i].bucket
         IN  /\ ops[b].state = "completed" /\ ops[b].evidence # "faulty"
             /\ ~StagedAccountUsageAnomaly(ops[b].attempts, ops[b].observed,
                                           s.outcomes[i].after - UsedBefore(s, i))
  BY <1>2, <1>5 DEF InspectionAnomaly
<1> HIDE DEF outcomes, anomaly, st
<1>9. [s EXCEPT !.outcomes = outcomes, !.stopped = st] \in Session
  BY <1>6, <1>7 DEF Session
<1>10. v.outcomes = outcomes /\ v.stopped = st /\ v.baseline = s.baseline
  BY <1>1 DEF Session
<1>11. QED
  BY <1>1, <1>5, <1>6, <1>7, <1>8, <1>9, <1>10

-----------------------------------------------------------------------------
(* The types are kept.                                                      *)

LEMMA EndType ==
  ASSUME TypeInv, NEW t \in Terminals, Ends(t)
  PROVE  /\ pc' \in [Terminals -> Steps] /\ mine' \in [Terminals -> Memory]
         /\ pc'[t] = "idle" /\ mine'[t] = Forgotten
         /\ \A u \in Terminals \ {t} : pc'[u] = pc[u] /\ mine'[u] = mine[u]
BY ForgottenType DEF TypeInv, Ends, Goes, Steps

LEMMA GoType ==
  ASSUME TypeInv, NEW t \in Terminals, NEW to \in Steps, Goes(t, to)
  PROVE  /\ pc' \in [Terminals -> Steps] /\ pc'[t] = to
         /\ \A u \in Terminals \ {t} : pc'[u] = pc[u]
BY DEF TypeInv, Goes, Steps

\* What a step of a terminal may write: the session, its operation, its memory.
LEMMA ScriptTypes ==
  ASSUME TypeInv, NEW t \in Terminals,
         \/ Baseline(t) \/ BaselineMeasured(t)
         \/ \E b \in Buckets : ValidateBucket(t, b)
         \/ UsageChangedOutside(t) \/ UsageConfirmed(t)
         \/ ClaimReplays(t) \/ ClaimRefused(t)
         \/ ReadAgain(t) \/ RecordOutcome(t) \/ RecordFailure(t)
         \/ ReassessStoppedSession(t) \/ Ended(t)
  PROVE  TypeInv'
<1> USE ForgottenType DEF TypeInv, durable, world, history
<1>1. CASE Baseline(t)
  BY <1>1, GoType DEF Baseline, Steps
<1>2. CASE BaselineMeasured(t)
  <2>1. saved' \in Session
    BY <1>2, EmptySeq DEF BaselineMeasured, Session
  <2>2. QED
    BY <1>2, <2>1, EndType DEF BaselineMeasured
<1>3. ASSUME NEW b \in Buckets, ValidateBucket(t, b) PROVE TypeInv'
  <2>1. [Forgotten EXCEPT !.bucket = b, !.state = saved] \in Memory
    BY DEF Memory
  <2>2. mine' \in [Terminals -> Memory]
    BY <1>3, <2>1 DEF ValidateBucket
  <2>3. QED
    BY <1>3, <2>2, GoType DEF ValidateBucket, Steps
<1>4. CASE UsageChangedOutside(t)
  <2>1. saved' \in Session
    BY <1>4, StoppedType DEF UsageChangedOutside, Memory
  <2>2. QED
    BY <1>4, <2>1, EndType DEF UsageChangedOutside
<1>5. CASE UsageConfirmed(t)
  <2>1. mine' \in [Terminals -> Memory]
    BY <1>5 DEF UsageConfirmed, Memory
  <2>2. QED
    BY <1>5, <2>1, GoType DEF UsageConfirmed, Steps
<1>6. CASE ClaimReplays(t)
  BY <1>6, GoType DEF ClaimReplays, Steps
<1>7. CASE ClaimRefused(t)
  BY <1>7, GoType DEF ClaimRefused, Steps
<1>8. CASE ReadAgain(t)
  <2>1. mine' \in [Terminals -> Memory]
    BY <1>8 DEF ReadAgain, Memory
  <2>2. QED
    BY <1>8, <2>1, GoType DEF ReadAgain, Steps
<1>9. CASE RecordOutcome(t)
  <2>1. mine[t] \in Memory /\ account.used \in Nat
    OBVIOUS
  <2>2. saved' \in Session
    BY <1>9, <2>1, WithOutcomeShape DEF RecordOutcome, Memory
  <2>3. QED
    BY <1>9, <2>2, EndType DEF RecordOutcome
<1>10. CASE RecordFailure(t)
  <2>1. saved' \in Session
    BY <1>10, StoppedType DEF RecordFailure, Memory
  <2>2. QED
    BY <1>10, <2>1, EndType DEF RecordFailure
<1>11. CASE ReassessStoppedSession(t)
  BY <1>11, ReassessedShape DEF ReassessStoppedSession
<1>12. CASE Ended(t)
  BY <1>12, EndType DEF Ended
<1>13. QED
  BY <1>1, <1>2, <1>3, <1>4, <1>5, <1>6, <1>7, <1>8, <1>9, <1>10, <1>11, <1>12

LEMMA LookupTypes ==
  ASSUME TypeInv, NEW t \in Terminals,
         \/ Claim(t)
         \/ \E attempts, charge \in Credits, named \in BOOLEAN : Discover(t, attempts, charge, named)
         \/ \E evidence \in {"none", "clean", "faulty"} : Complete(t, evidence)
         \/ Fail(t)
  PROVE  TypeInv'
<1> USE DEF TypeInv, durable, world, history
<1>1. mine[t].bucket \in Buckets /\ mine[t].attempts \in Credits /\ mine[t].observed \in Reports
  BY DEF Memory
<1>2. CASE Claim(t)
  <2>1. [NoOperation EXCEPT !.state = "authorized", !.day = days] \in Operation
    BY ForgottenType DEF Operation
  <2>2. ops' \in [Buckets -> Operation]
    BY <1>1, <1>2, <2>1 DEF Claim
  <2>3. QED
    BY <1>2, <2>2, GoType DEF Claim, Steps
<1>3. ASSUME NEW attempts \in Credits, NEW charge \in Credits, NEW named \in BOOLEAN,
             Discover(t, attempts, charge, named)
      PROVE  TypeInv'
  <2>1. charge \in Nat /\ (IF named THEN charge ELSE -1) \in Reports
    BY DEF Credits, Reports
  <2>2. account' \in [cycle : Nat, used : Nat]
    <3>1. account' = [account EXCEPT !.used = account.used + charge]
      BY <1>3 DEF Discover
    <3>2. account.used + charge \in Nat
      BY <2>1
    <3>3. QED
      BY <3>1, <3>2
  <2>3. mine' \in [Terminals -> Memory]
    <3> DEFINE n == IF named THEN charge ELSE -1
    <3>1. mine' = [mine EXCEPT ![t].attempts = attempts, ![t].observed = n]
      BY <1>3 DEF Discover
    <3>2. n \in Reports
      BY <2>1
    <3> HIDE DEF n
    <3>3. QED
      BY <3>1, <3>2 DEF Memory
  <2>4. calls' \in [Buckets -> Nat] /\ charged' \in [Buckets -> Nat]
    <3> DEFINE b == mine[t].bucket
    <3>1. /\ calls' = [calls EXCEPT ![b] = calls[b] + 1]
          /\ charged' = [charged EXCEPT ![b] = charged[b] + charge]
      BY <1>3 DEF Discover
    <3>2. calls[b] + 1 \in Nat /\ charged[b] + charge \in Nat
      BY <1>1, <2>1
    <3> HIDE DEF b
    <3>3. QED
      BY <3>1, <3>2
  <2>5. QED
    <3>1. pc' \in [Terminals -> Steps]
      BY <1>3, GoType DEF Discover, Steps
    <3>2. UNCHANGED <<saved, ops, outside, protected, days>>
      BY <1>3 DEF Discover
    <3>3. QED
      BY <2>2, <2>3, <2>4, <3>1, <3>2
<1>4. ASSUME NEW st \in {"completed", "failed"}, NEW evidence \in {"none", "clean", "faulty"},
             Finalized(t, st, evidence)
      PROVE  ops' \in [Buckets -> Operation]
  BY <1>1, <1>4 DEF Finalized, Operation
<1>5. ASSUME NEW evidence \in {"none", "clean", "faulty"}, Complete(t, evidence) PROVE TypeInv'
  BY <1>4, <1>5, GoType DEF Complete, Steps
<1>6. CASE Fail(t)
  BY <1>4, <1>6, GoType DEF Fail, Steps
<1>7. QED
  BY <1>2, <1>3, <1>5, <1>6

LEMMA WorldTypes ==
  ASSUME TypeInv, OutsideUse \/ NewCycle \/ ProtectedWrite \/ Midnight
  PROVE  TypeInv' /\ UNCHANGED <<durable, pc, mine, history>>
<1> USE DEF TypeInv, durable, history
<1>1. CASE OutsideUse
  BY <1>1 DEF OutsideUse
<1>2. CASE NewCycle
  BY <1>2 DEF NewCycle
<1>3. CASE ProtectedWrite
  BY <1>3 DEF ProtectedWrite
<1>4. CASE Midnight
  BY <1>4 DEF Midnight
<1>5. QED
  BY <1>1, <1>2, <1>3, <1>4

LEMMA TypeInit == Init => TypeInv
BY ForgottenType, CountTypes DEF Init, TypeInv, Steps

LEMMA TypeStep == TypeInv /\ [Next]_vars => TypeInv'
<1> SUFFICES ASSUME TypeInv, [Next]_vars PROVE TypeInv'
  OBVIOUS
<1>1. CASE UNCHANGED vars
  BY <1>1 DEF vars, TypeInv
<1>2. CASE OutsideUse \/ NewCycle \/ ProtectedWrite \/ Midnight
  BY <1>2, WorldTypes
<1>3. QED
  BY <1>1, <1>2, ScriptTypes, LookupTypes DEF Next

-----------------------------------------------------------------------------
(* One call per bucket, at any number of terminals.                         *)

\* A step that neither claims nor calls: whoever is about to call was before.
LEMMA QuietStep ==
  ASSUME TypeInv, CallInv, UNCHANGED <<ops, calls>>, NEW t \in Terminals,
         \A u \in Terminals \ {t} : pc'[u] = pc[u] /\ mine'[u].bucket = mine[u].bucket,
         pc'[t] \notin {"search", "answered"}
  PROVE  CallInv'
BY DEF CallInv

\* Which actions of the script are such steps.
LEMMA ScriptIsQuiet ==
  ASSUME TypeInv, NEW t \in Terminals,
         \/ Baseline(t) \/ BaselineMeasured(t)
         \/ \E b \in Buckets : ValidateBucket(t, b)
         \/ UsageChangedOutside(t) \/ UsageConfirmed(t)
         \/ ClaimReplays(t) \/ ClaimRefused(t)
         \/ ReadAgain(t) \/ RecordOutcome(t) \/ RecordFailure(t) \/ Ended(t)
  PROVE  /\ UNCHANGED <<ops, calls, charged>>
         /\ \A u \in Terminals \ {t} : pc'[u] = pc[u] /\ mine'[u] = mine[u]
         /\ pc'[t] \notin {"search", "answered"}
<1> USE DEF TypeInv, durable, world, history
<1>1. CASE Baseline(t)
  BY <1>1, GoType DEF Baseline, Steps
<1>2. CASE BaselineMeasured(t)
  BY <1>2, EndType DEF BaselineMeasured
<1>3. ASSUME NEW b \in Buckets, ValidateBucket(t, b)
      PROVE  /\ UNCHANGED <<ops, calls, charged>>
             /\ \A u \in Terminals \ {t} : pc'[u] = pc[u] /\ mine'[u] = mine[u]
             /\ pc'[t] \notin {"search", "answered"}
  BY <1>3, GoType DEF ValidateBucket, Steps
<1>4. CASE UsageChangedOutside(t)
  BY <1>4, EndType DEF UsageChangedOutside
<1>5. CASE UsageConfirmed(t)
  BY <1>5, GoType DEF UsageConfirmed, Steps
<1>6. CASE ClaimReplays(t)
  BY <1>6, GoType DEF ClaimReplays, Steps
<1>7. CASE ClaimRefused(t)
  BY <1>7, GoType DEF ClaimRefused, Steps
<1>8. CASE ReadAgain(t)
  <2>1. /\ \A u \in Terminals \ {t} : pc'[u] = pc[u]
        /\ pc'[t] \in {"after", "afterFailure"}
    BY <1>8, GoType DEF ReadAgain, Steps
  <2>2. \A u \in Terminals \ {t} : mine'[u] = mine[u]
    BY <1>8 DEF ReadAgain
  <2>3. QED
    BY <1>8, <2>1, <2>2 DEF ReadAgain
<1>9. CASE RecordOutcome(t)
  BY <1>9, EndType DEF RecordOutcome
<1>10. CASE RecordFailure(t)
  BY <1>10, EndType DEF RecordFailure
<1>11. CASE Ended(t)
  BY <1>11, EndType DEF Ended
<1>12. QED
  BY <1>1, <1>2, <1>3, <1>4, <1>5, <1>6, <1>7, <1>8, <1>9, <1>10, <1>11

\* The operation of a claim, and what it leaves alone.
LEMMA ClaimStep ==
  ASSUME TypeInv, NEW t \in Terminals, Claim(t)
  PROVE  LET b == mine[t].bucket
         IN  /\ b \in Buckets /\ ops[b].state = "none" /\ ops'[b].state = "authorized"
             /\ \A c \in Buckets \ {b} : ops'[c] = ops[c]
             /\ pc[t] = "claim" /\ pc'[t] = "search"
             /\ \A u \in Terminals \ {t} : pc'[u] = pc[u]
             /\ UNCHANGED <<saved, mine, calls, charged>>
<1> DEFINE b == mine[t].bucket
           op == [NoOperation EXCEPT !.state = "authorized", !.day = days]
<1>1. b \in Buckets
  BY DEF TypeInv, Memory
<1>2. ops' = [ops EXCEPT ![b] = op] /\ ops[b].state = "none"
  BY DEF Claim
<1>3. op.state = "authorized"
  BY DEF NoOperation
<1> HIDE DEF op
<1>4. ops'[b].state = "authorized" /\ \A c \in Buckets \ {b} : ops'[c] = ops[c]
  BY <1>1, <1>2, <1>3 DEF TypeInv
<1>5. QED
  BY <1>1, <1>2, <1>4, GoType DEF Claim, Steps, world, history

LEMMA DiscoverStep ==
  ASSUME TypeInv, NEW t \in Terminals, NEW attempts \in Credits, NEW charge \in Credits,
         NEW named \in BOOLEAN, Discover(t, attempts, charge, named)
  PROVE  LET b == mine[t].bucket
         IN  /\ b \in Buckets
             /\ calls'[b] = calls[b] + 1 /\ charged'[b] = charged[b] + charge
             /\ \A c \in Buckets \ {b} : calls'[c] = calls[c] /\ charged'[c] = charged[c]
             /\ pc[t] = "search" /\ pc'[t] = "answered"
             /\ \A u \in Terminals \ {t} : pc'[u] = pc[u]
             /\ mine'[t].bucket = b /\ mine'[t].state = mine[t].state
             /\ mine'[t].observed \in {charge, -1}
             /\ \A u \in Terminals \ {t} : mine'[u] = mine[u]
             /\ UNCHANGED <<saved, ops>>
<1> DEFINE b == mine[t].bucket
           n == IF named THEN charge ELSE -1
<1>1. b \in Buckets
  BY DEF TypeInv, Memory
<1>2. /\ calls' = [calls EXCEPT ![b] = calls[b] + 1]
      /\ charged' = [charged EXCEPT ![b] = charged[b] + charge]
      /\ mine' = [mine EXCEPT ![t].attempts = attempts, ![t].observed = n]
      /\ UNCHANGED <<saved, ops>>
  BY DEF Discover, durable
<1>3. n \in {charge, -1}
  OBVIOUS
<1>4. pc[t] = "search" /\ pc'[t] = "answered" /\ \A u \in Terminals \ {t} : pc'[u] = pc[u]
  BY GoType DEF Discover, Steps
<1> HIDE DEF n
<1>5. /\ mine'[t].bucket = b /\ mine'[t].state = mine[t].state /\ mine'[t].observed = n
      /\ \A u \in Terminals \ {t} : mine'[u] = mine[u]
  BY <1>2 DEF TypeInv, Memory
<1> HIDE DEF b
<1>6. /\ calls'[b] = calls[b] + 1 /\ charged'[b] = charged[b] + charge
      /\ \A c \in Buckets \ {b} : calls'[c] = calls[c] /\ charged'[c] = charged[c]
  BY <1>1, <1>2 DEF TypeInv
<1>7. QED
  BY <1>1, <1>2, <1>3, <1>4, <1>5, <1>6 DEF b

\* The operation's end.
LEMMA FinalStep ==
  ASSUME TypeInv, NEW t \in Terminals,
         \/ \E evidence \in {"none", "clean", "faulty"} : Complete(t, evidence)
         \/ Fail(t)
  PROVE  LET b == mine[t].bucket
         IN  /\ b \in Buckets /\ ops'[b].state \in {"completed", "failed"}
             /\ ops'[b].observed = mine[t].observed
             /\ \A c \in Buckets \ {b} : ops'[c] = ops[c]
             /\ pc[t] = "answered" /\ pc'[t] \in {"returned", "threw"}
             /\ pc'[t] = "returned" => ops'[b].state = "completed"
             /\ \A u \in Terminals \ {t} : pc'[u] = pc[u]
             /\ UNCHANGED <<saved, mine, calls, charged>>
<1> DEFINE b == mine[t].bucket
<1>1. b \in Buckets
  BY DEF TypeInv, Memory
<1>2. ASSUME NEW st \in {"completed", "failed"}, NEW evidence \in {"none", "clean", "faulty"},
             Finalized(t, st, evidence)
      PROVE  /\ ops'[b].state = st /\ ops'[b].observed = mine[t].observed
             /\ \A c \in Buckets \ {b} : ops'[c] = ops[c]
  BY <1>1, <1>2 DEF Finalized, TypeInv, Operation
<1>3. ASSUME NEW evidence \in {"none", "clean", "faulty"}, Complete(t, evidence)
      PROVE  /\ Finalized(t, "completed", evidence) /\ Goes(t, "returned")
             /\ pc[t] = "answered" /\ UNCHANGED <<saved, mine, calls, charged>>
  BY <1>3 DEF Complete, history
<1>4. ASSUME Fail(t)
      PROVE  /\ Finalized(t, "failed", "none") /\ Goes(t, "threw")
             /\ pc[t] = "answered" /\ UNCHANGED <<saved, mine, calls, charged>>
  BY <1>4 DEF Fail, history
<1>5. QED
  BY <1>1, <1>2, <1>3, <1>4, GoType DEF Steps

LEMMA CallStep == TypeInv /\ CallInv /\ [Next]_vars => CallInv'
<1> SUFFICES ASSUME TypeInv, CallInv, [Next]_vars PROVE CallInv'
  OBVIOUS
<1>1. ASSUME NEW t \in Terminals,
             \/ Baseline(t) \/ BaselineMeasured(t)
             \/ \E b \in Buckets : ValidateBucket(t, b)
             \/ UsageChangedOutside(t) \/ UsageConfirmed(t)
             \/ ClaimReplays(t) \/ ClaimRefused(t)
             \/ ReadAgain(t) \/ RecordOutcome(t) \/ RecordFailure(t) \/ Ended(t)
      PROVE  CallInv'
  <2>1. /\ UNCHANGED <<ops, calls>>
        /\ \A u \in Terminals \ {t} : pc'[u] = pc[u] /\ mine'[u].bucket = mine[u].bucket
        /\ pc'[t] \notin {"search", "answered"}
    BY <1>1, ScriptIsQuiet
  <2>2. QED
    BY <2>1, QuietStep
<1>2. ASSUME NEW t \in Terminals, ReassessStoppedSession(t) PROVE CallInv'
  BY <1>2 DEF ReassessStoppedSession, CallInv, history
<1>3. ASSUME NEW t \in Terminals, Claim(t) PROVE CallInv'
  <2> DEFINE b == mine[t].bucket
  <2>1. /\ b \in Buckets /\ ops[b].state = "none" /\ ops'[b].state = "authorized"
        /\ \A c \in Buckets \ {b} : ops'[c] = ops[c]
        /\ pc[t] = "claim" /\ pc'[t] = "search" /\ \A u \in Terminals \ {t} : pc'[u] = pc[u]
        /\ mine' = mine /\ calls' = calls
    BY <1>3, ClaimStep
  <2>2. \A u \in Terminals : mine[u].bucket \in Buckets
    BY DEF TypeInv, Memory
  <2>3. \A u \in Terminals : pc[u] = "search" => mine[u].bucket # b
    BY <2>1 DEF CallInv
  <2>4. calls[b] = 0
    BY <2>1 DEF CallInv
  <2>5. \A c \in Buckets : ops'[c].state = "none" => ops[c].state = "none"
    BY <2>1
  <2>6. \A u \in Terminals : pc'[u] = "search" => calls[mine[u].bucket] = 0
    BY <2>1, <2>4 DEF CallInv
  <2>7. \A u \in Terminals : pc'[u] \in {"search", "answered"} => ops'[mine[u].bucket].state # "none"
    BY <2>1, <2>2, <2>5 DEF CallInv
  <2>8. \A u, v \in Terminals :
          pc'[u] = "search" /\ pc'[v] = "search" /\ mine[u].bucket = mine[v].bucket => u = v
    BY <2>1, <2>3 DEF CallInv
  <2>9. QED
    BY <2>1, <2>5, <2>6, <2>7, <2>8 DEF CallInv
<1>4. ASSUME NEW t \in Terminals, NEW attempts \in Credits, NEW charge \in Credits,
             NEW named \in BOOLEAN, Discover(t, attempts, charge, named)
      PROVE  CallInv'
  <2> DEFINE b == mine[t].bucket
  <2>1. /\ b \in Buckets /\ calls'[b] = calls[b] + 1
        /\ \A c \in Buckets \ {b} : calls'[c] = calls[c]
        /\ pc[t] = "search" /\ pc'[t] = "answered" /\ \A u \in Terminals \ {t} : pc'[u] = pc[u]
        /\ ops' = ops
    BY <1>4, DiscoverStep
  <2>2. \A u \in Terminals : mine[u].bucket \in Buckets /\ mine'[u].bucket = mine[u].bucket
    BY <1>4, DiscoverStep DEF TypeInv, Memory
  <2>3. calls[b] = 0 /\ ops[b].state # "none"
    BY <2>1 DEF CallInv
  <2>4. \A u \in Terminals : pc'[u] = "search" => pc[u] = "search" /\ mine[u].bucket # b
    BY <2>1 DEF CallInv
  <2>5. \A c \in Buckets : calls'[c] <= 1 /\ (ops[c].state = "none" => calls'[c] = 0)
    BY <2>1, <2>3 DEF CallInv
  <2>6. \A u \in Terminals : pc'[u] = "search" => calls'[mine[u].bucket] = 0
    BY <2>1, <2>2, <2>4 DEF CallInv
  <2>7. \A u \in Terminals : pc'[u] \in {"search", "answered"} => ops[mine[u].bucket].state # "none"
    BY <2>1, <2>3 DEF CallInv
  <2>8. QED
    BY <2>1, <2>2, <2>4, <2>5, <2>6, <2>7 DEF CallInv
<1>5. ASSUME NEW t \in Terminals,
             \/ \E evidence \in {"none", "clean", "faulty"} : Complete(t, evidence)
             \/ Fail(t)
      PROVE  CallInv'
  <2> DEFINE b == mine[t].bucket
  <2>1. /\ b \in Buckets /\ ops'[b].state # "none"
        /\ \A c \in Buckets \ {b} : ops'[c] = ops[c]
        /\ pc'[t] \notin {"search", "answered"} /\ \A u \in Terminals \ {t} : pc'[u] = pc[u]
        /\ mine' = mine /\ calls' = calls
    BY <1>5, FinalStep
  <2>2. \A c \in Buckets : ops'[c].state = "none" => ops[c].state = "none"
    BY <2>1
  <2>3. \A u \in Terminals : mine[u].bucket \in Buckets
    BY DEF TypeInv, Memory
  <2>4. QED
    BY <2>1, <2>2, <2>3 DEF CallInv
<1>6. CASE OutsideUse \/ NewCycle \/ ProtectedWrite \/ Midnight
  BY <1>6, WorldTypes DEF CallInv, durable, history
<1>7. CASE UNCHANGED vars
  BY <1>7 DEF vars, CallInv
<1>8. QED
  BY <1>1, <1>2, <1>3, <1>4, <1>5, <1>6, <1>7 DEF Next

LEMMA Inductive == Spec => []IInv
<1>1. Init => IInv
  BY TypeInit DEF Init, IInv, CallInv
<1>2. IInv /\ [Next]_vars => IInv'
  BY TypeStep, CallStep DEF IInv
<1>3. QED
  BY <1>1, <1>2, PTL DEF Spec

\* However often the operator interrupts, starts over or reassesses, and at
\* however many terminals: the provider is run at most once for each bucket.
THEOREM CallsAreSingle == Spec => []OneCallPerBucket
<1>1. IInv => OneCallPerBucket
  BY DEF IInv, CallInv, OneCallPerBucket
<1>2. QED
  BY <1>1, Inductive, PTL

-----------------------------------------------------------------------------
(* One terminal.                                                            *)

\* What a terminal learned of the charge is what Apollo charged, if it learned it.
ChargeInv ==
  /\ \A b \in Buckets :
       /\ ops[b].state = "none" => charged[b] = 0
       /\ ops[b].state \in {"completed", "failed"} /\ ops[b].observed # -1
            => charged[b] = ops[b].observed
  /\ \A t \in Terminals :
       /\ pc[t] = "search" => charged[mine[t].bucket] = 0
       /\ pc[t] = "answered" => mine[t].observed \in {-1, charged[mine[t].bucket]}

\* A session that is not stopped has nothing wrong with any of its outcomes.
DeltaInv ==
  saved.stopped = "no" => \A i \in DOMAIN saved.outcomes :
    ~StagedAccountUsageAnomaly(ops[i].attempts, ops[i].observed,
                               saved.outcomes[i].after - UsedBefore(saved, i))

\* What was charged for the first k buckets.
Spent(k) == Total([b \in Buckets |-> IF b <= k THEN charged[b] ELSE 0])

\* As long as each outcome differs from the one before by its own charge, the account
\* differs from the baseline by all of them.
Explained(s, k) ==
  (\A i \in 1 .. k : s.outcomes[i].after - UsedBefore(s, i) = charged[i])
    => UsedBefore(s, k + 1) - s.baseline.used = Spent(k)

SumInv == \A k \in 0 .. Len(saved.outcomes) : Explained(saved, k)

OneInv == TypeInv /\ SettledInv /\ ChargeInv /\ DeltaInv /\ SumInv

OneTerminal == \A t, u \in Terminals : t = u

LEMMA SessionFacts ==
  ASSUME NEW s \in Session
  PROVE  /\ s.outcomes \in Seq(Outcome) /\ Len(s.outcomes) \in Nat
         /\ DOMAIN s.outcomes = 1 .. Len(s.outcomes)
         /\ \A i \in 1 .. Len(s.outcomes) : s.outcomes[i] \in Outcome /\ s.outcomes[i].after \in Nat
         /\ \A i \in 1 .. Len(s.outcomes) + 1 : UsedBefore(s, i) \in Nat
         /\ s.baseline.used \in Nat
<1>1. s.outcomes \in Seq(Outcome) /\ s.baseline.used \in Nat
  BY DEF Session
<1>2. Len(s.outcomes) \in Nat /\ DOMAIN s.outcomes = 1 .. Len(s.outcomes)
  BY <1>1
<1>3. \A i \in 1 .. Len(s.outcomes) : s.outcomes[i] \in Outcome
  BY <1>1
<1>4. \A i \in 1 .. Len(s.outcomes) : s.outcomes[i].after \in Nat
  BY <1>3 DEF Outcome
<1>5. ASSUME NEW i \in 1 .. Len(s.outcomes) + 1 PROVE UsedBefore(s, i) \in Nat
  <2>1. i = 1 \/ i - 1 \in 1 .. Len(s.outcomes)
    BY <1>2
  <2>2. QED
    BY <1>1, <1>4, <2>1 DEF UsedBefore
<1>6. QED
  BY <1>1, <1>2, <1>3, <1>4, <1>5

\* The bucket of a phase is the next one, and no outcome is about it.
LEMMA PhaseBucket ==
  ASSUME TypeInv, PhaseInv, NEW t \in Terminals, pc[t] \notin {"idle", "baseline"}
  PROVE  /\ mine[t].bucket \in Buckets /\ mine[t].bucket = Len(saved.outcomes) + 1
         /\ DOMAIN saved.outcomes = 1 .. Len(saved.outcomes) /\ Len(saved.outcomes) \in Nat
         /\ mine[t].bucket \notin DOMAIN saved.outcomes
         /\ saved.stopped = "no" /\ mine[t].state = saved
<1>1. Len(saved.outcomes) \in Nat /\ DOMAIN saved.outcomes = 1 .. Len(saved.outcomes)
  BY SessionFacts DEF TypeInv
<1>2. mine[t].bucket \in Buckets
  BY DEF TypeInv, Memory
<1>3. mine[t].bucket = Len(saved.outcomes) + 1 /\ saved.stopped = "no" /\ mine[t].state = saved
  BY DEF PhaseInv
<1>4. QED
  BY <1>1, <1>2, <1>3

\* What a session says is about its own buckets only: a change of another bucket's
\* operation, or of what was charged for it, leaves it true.
LEMMA SameSession ==
  ASSUME TypeInv, OutcomesInv, DeltaInv, SumInv, saved' = saved,
         \A i \in DOMAIN saved.outcomes : ops'[i] = ops[i] /\ charged'[i] = charged[i]
  PROVE  OutcomesInv' /\ DeltaInv' /\ SumInv'
<1>1. OutcomesInv'
  BY DEF OutcomesInv
<1>2. DeltaInv'
  BY DEF DeltaInv, StagedAccountUsageAnomaly, UsedBefore
<1>3. SumInv'
  <2> DEFINE n == Len(saved.outcomes)
  <2>1. n \in Nat /\ DOMAIN saved.outcomes = 1 .. n
    BY SessionFacts DEF TypeInv
  <2>2. \A k \in 0 .. n : Spent(k)' = Spent(k)
    <3> SUFFICES ASSUME NEW k \in 0 .. n PROVE Spent(k)' = Spent(k)
      OBVIOUS
    <3>1. \A b \in Buckets : b <= k => b \in DOMAIN saved.outcomes
      BY <2>1 DEF Buckets
    <3>2. \A b \in Buckets : (IF b <= k THEN charged'[b] ELSE 0) = (IF b <= k THEN charged[b] ELSE 0)
      BY <3>1
    <3>3. [b \in Buckets |-> IF b <= k THEN charged'[b] ELSE 0]
            = [b \in Buckets |-> IF b <= k THEN charged[b] ELSE 0]
      BY <3>2
    <3>4. QED
      BY <3>3 DEF Spent, Total, Units
  <2>3. ASSUME NEW k \in 0 .. n PROVE Explained(saved, k)'
    <3>1. Explained(saved, k)
      BY DEF SumInv
    <3>2. \A i \in 1 .. k : i \in DOMAIN saved.outcomes
      BY <2>1
    <3>3. QED
      BY <2>2, <3>1, <3>2 DEF Explained, UsedBefore
  <2>4. QED
    BY <2>3 DEF SumInv
<1>4. QED
  BY <1>1, <1>2, <1>3

\* The same outcomes and baseline, whether the session is stopped or not.
LEMMA SameOutcomes ==
  ASSUME TypeInv, SumInv, saved' \in Session, charged' = charged,
         saved'.baseline = saved.baseline, Len(saved'.outcomes) = Len(saved.outcomes),
         \A i \in 1 .. Len(saved.outcomes) : saved'.outcomes[i].after = saved.outcomes[i].after
  PROVE  SumInv'
<1> DEFINE n == Len(saved.outcomes)
<1>1. n \in Nat
  BY SessionFacts DEF TypeInv
<1>2. ASSUME NEW k \in 0 .. n PROVE Explained(saved, k)'
  <2>1. \A i \in 1 .. k + 1 : UsedBefore(saved', i) = UsedBefore(saved, i)
    BY <1>1 DEF UsedBefore
  <2>2. Explained(saved, k)
    BY DEF SumInv
  <2>3. Spent(k)' = Spent(k)
    BY DEF Spent, Total, Units
  <2>4. SUFFICES ASSUME \A i \in 1 .. k : saved'.outcomes[i].after - UsedBefore(saved', i) = charged'[i]
                 PROVE  UsedBefore(saved', k + 1) - saved'.baseline.used = Spent(k)'
    BY DEF Explained
  <2>5. \A i \in 1 .. k : saved.outcomes[i].after - UsedBefore(saved, i) = charged[i]
    BY <1>1, <2>1, <2>4
  <2>6. UsedBefore(saved, k + 1) - saved.baseline.used = Spent(k)
    BY <2>2, <2>5 DEF Explained
  <2>7. QED
    BY <1>1, <2>1, <2>3, <2>6
<1>3. QED
  BY <1>2 DEF SumInv

-----------------------------------------------------------------------------
(* The steps of the only terminal.                                          *)

\* A phase that goes on, or ends having written nothing.
LEMMA WaitingStep ==
  ASSUME OneTerminal, OneInv, TypeInv', NEW t \in Terminals,
         \/ Baseline(t)
         \/ \E b \in Buckets : ValidateBucket(t, b)
         \/ UsageConfirmed(t)
         \/ ClaimReplays(t) \/ ClaimRefused(t)
         \/ ReadAgain(t) \/ Ended(t)
  PROVE  OneInv'
<1>1. TypeInv /\ PhaseInv /\ OutcomesInv /\ ChargeInv /\ DeltaInv /\ SumInv
  BY DEF OneInv, SettledInv
<1>2. /\ UNCHANGED <<ops, calls, charged>> /\ pc'[t] \notin {"search", "answered"}
  BY <1>1, ScriptIsQuiet
<1>3. saved' = saved
  BY DEF Baseline, ValidateBucket, UsageConfirmed, ClaimReplays, ClaimRefused, ReadAgain, Ended, durable
<1>4. OutcomesInv' /\ DeltaInv' /\ SumInv'
  BY <1>1, <1>2, <1>3, SameSession
<1>5. \A u \in Terminals : u = t
  BY DEF OneTerminal
<1>6. ChargeInv'
  BY <1>1, <1>2, <1>5 DEF ChargeInv
<1>7. /\ pc'[t] \notin {"idle", "baseline"} =>
           /\ saved.stopped = "no" /\ mine'[t].state = saved /\ mine'[t].bucket = Len(saved.outcomes) + 1
      /\ pc'[t] \in {"returned", "after"} => ops[mine'[t].bucket].state = "completed"
  <2>1. CASE Baseline(t)
    BY <1>1, <2>1, GoType DEF Baseline, Steps
  <2>2. ASSUME NEW b \in Buckets, ValidateBucket(t, b)
        PROVE  /\ pc'[t] = "before" /\ saved.stopped = "no"
               /\ mine'[t].state = saved /\ mine'[t].bucket = Len(saved.outcomes) + 1
    <3>1. pc'[t] = "before" /\ saved.stopped = "no" /\ b = Len(saved.outcomes) + 1
      BY <1>1, <2>2, GoType DEF ValidateBucket, Steps
    <3>2. mine'[t] = [Forgotten EXCEPT !.bucket = b, !.state = saved]
      BY <1>1, <2>2 DEF ValidateBucket, TypeInv
    <3>3. [Forgotten EXCEPT !.bucket = b, !.state = saved].state = saved
          /\ [Forgotten EXCEPT !.bucket = b, !.state = saved].bucket = b
      BY DEF Forgotten
    <3>4. QED
      BY <3>1, <3>2, <3>3
  <2>3. CASE UsageConfirmed(t)
    <3>1. pc[t] = "before" /\ pc'[t] = "claim"
      BY <1>1, <2>3, GoType DEF UsageConfirmed, Steps
    <3>2. mine'[t].state = mine[t].state /\ mine'[t].bucket = mine[t].bucket
      BY <1>1, <2>3 DEF UsageConfirmed, TypeInv, Memory
    <3>3. QED
      BY <1>1, <3>1, <3>2, PhaseBucket
  <2>4. CASE ClaimReplays(t)
    <3>1. pc[t] = "claim" /\ pc'[t] = "returned" /\ mine' = mine /\ ops[mine[t].bucket].state = "completed"
      BY <1>1, <2>4, GoType DEF ClaimReplays, Steps
    <3>2. QED
      BY <1>1, <3>1, PhaseBucket
  <2>5. CASE ClaimRefused(t)
    <3>1. pc[t] = "claim" /\ pc'[t] = "threw" /\ mine' = mine
      BY <1>1, <2>5, GoType DEF ClaimRefused, Steps
    <3>2. QED
      BY <1>1, <3>1, PhaseBucket
  <2>6. CASE ReadAgain(t)
    <3>1. \/ pc[t] = "returned" /\ pc'[t] = "after"
          \/ pc[t] = "threw" /\ pc'[t] = "afterFailure"
      BY <1>1, <2>6, GoType DEF ReadAgain, Steps
    <3>2. mine'[t].state = saved /\ mine'[t].bucket = mine[t].bucket
      BY <1>1, <2>6 DEF ReadAgain, TypeInv, Memory
    <3>3. pc[t] = "returned" => ops[mine[t].bucket].state = "completed"
      BY <1>1 DEF PhaseInv
    <3>4. QED
      BY <1>1, <3>1, <3>2, <3>3, PhaseBucket
  <2>7. CASE Ended(t)
    BY <1>1, <2>7, EndType DEF Ended
  <2>8. QED
    BY <2>1, <2>2, <2>3, <2>4, <2>5, <2>6, <2>7
<1>8. pc'[t] \notin {"idle", "baseline", "before"} => mine'[t].usedBefore = Prior(saved)
  <2>1. CASE Baseline(t)
    BY <1>1, <2>1, GoType DEF Baseline, Steps
  <2>2. ASSUME NEW b \in Buckets, ValidateBucket(t, b) PROVE pc'[t] = "before"
    BY <1>1, <2>2, GoType DEF ValidateBucket, Steps
  <2>3. CASE UsageConfirmed(t)
    <3>1. pc[t] = "before" /\ account.used = Prior(mine[t].state)
      BY <2>3 DEF UsageConfirmed, SameAccount
    <3>2. mine'[t].usedBefore = account.used
      BY <1>1, <2>3 DEF UsageConfirmed, TypeInv, Memory
    <3>3. QED
      BY <1>1, <3>1, <3>2, PhaseBucket
  <2>4. CASE ClaimReplays(t) \/ ClaimRefused(t) \/ ReadAgain(t)
    <3>1. pc[t] \in {"claim", "returned", "threw"}
      BY <2>4 DEF ClaimReplays, ClaimRefused, ReadAgain
    <3>2. mine'[t].usedBefore = mine[t].usedBefore
      BY <1>1, <2>4 DEF ClaimReplays, ClaimRefused, ReadAgain, TypeInv, Memory
    <3>3. QED
      BY <1>1, <3>1, <3>2 DEF PhaseInv
  <2>5. CASE Ended(t)
    BY <1>1, <2>5, EndType DEF Ended
  <2>6. QED
    BY <2>1, <2>2, <2>3, <2>4, <2>5
<1>9. PhaseInv'
  BY <1>2, <1>3, <1>5, <1>7, <1>8 DEF PhaseInv
<1>10. QED
  BY <1>4, <1>6, <1>9 DEF OneInv, SettledInv

\* A phase that ends by writing the session.
LEMMA IdleAgain ==
  ASSUME OneTerminal, NEW t \in Terminals, pc'[t] = "idle",
         ChargeInv, UNCHANGED <<ops, charged>>
  PROVE  PhaseInv' /\ ChargeInv'
<1>1. \A u \in Terminals : u = t
  BY DEF OneTerminal
<1>2. QED
  BY <1>1 DEF PhaseInv, ChargeInv

LEMMA BaselineStep ==
  ASSUME OneTerminal, OneInv, TypeInv', NEW t \in Terminals, BaselineMeasured(t)
  PROVE  OneInv'
<1>1. TypeInv /\ ChargeInv
  BY DEF OneInv
<1>2. UNCHANGED <<ops, charged>> /\ pc'[t] = "idle"
  BY <1>1, ScriptIsQuiet, EndType DEF BaselineMeasured
<1>3. PhaseInv' /\ ChargeInv'
  BY <1>1, <1>2, IdleAgain
<1>4. saved'.outcomes = <<>> /\ saved' \in Session
  BY DEF BaselineMeasured, TypeInv
<1>5. Len(saved'.outcomes) = 0 /\ DOMAIN saved'.outcomes = {}
  BY <1>4
<1>6. OutcomesInv' /\ DeltaInv'
  BY <1>5 DEF OutcomesInv, DeltaInv
<1>7. SumInv'
  <2>1. charged' \in [Buckets -> Nat]
    BY DEF TypeInv
  <2>2. Spent(0)' = 0
    <3> DEFINE f == [b \in Buckets |-> IF b <= 0 THEN charged'[b] ELSE 0]
    <3>1. \A b \in Buckets : f[b] = 0
      BY DEF Buckets
    <3>2. Units(f) = {}
      BY <3>1 DEF Units
    <3> HIDE DEF f
    <3>3. QED
      BY <3>2, FS_EmptySet DEF Spent, f, Total, Units
  <2>3. saved'.baseline.used \in Nat
    BY <1>4, SessionFacts
  <2>4. UsedBefore(saved', 1) - saved'.baseline.used = 0
    BY <2>3 DEF UsedBefore
  <2>5. Explained(saved, 0)'
    BY <2>2, <2>4 DEF Explained
  <2>6. \A k \in 0 .. 0 : k = 0
    OBVIOUS
  <2>7. QED
    BY <1>5, <2>5, <2>6 DEF SumInv
<1>8. QED
  BY <1>3, <1>6, <1>7 DEF OneInv, SettledInv

LEMMA StoppingStep ==
  ASSUME OneTerminal, OneInv, TypeInv', NEW t \in Terminals,
         UsageChangedOutside(t) \/ RecordFailure(t)
  PROVE  OneInv'
<1>1. TypeInv /\ PhaseInv /\ OutcomesInv /\ ChargeInv /\ SumInv
  BY DEF OneInv, SettledInv
<1>2. UNCHANGED <<ops, charged>> /\ pc'[t] = "idle"
  BY <1>1, ScriptIsQuiet, EndType DEF UsageChangedOutside, RecordFailure
<1>3. PhaseInv' /\ ChargeInv'
  BY <1>1, <1>2, IdleAgain
<1>4. pc[t] \notin {"idle", "baseline"}
      /\ \E r \in {"outside", "failed"} : saved' = Stop(mine[t].state, r)
  BY DEF UsageChangedOutside, RecordFailure
<1>5. \E r \in {"outside", "failed"} : saved' = Stop(saved, r)
  BY <1>1, <1>4, PhaseBucket
<1>6. /\ saved' \in Session /\ saved'.outcomes = saved.outcomes
      /\ saved'.baseline = saved.baseline /\ saved'.stopped # "no"
  BY <1>1, <1>5, StoppedType DEF TypeInv
<1>7. OutcomesInv'
  BY <1>1, <1>2, <1>6 DEF OutcomesInv
<1>8. DeltaInv'
  BY <1>6 DEF DeltaInv
<1>9. SumInv'
  BY <1>1, <1>2, <1>6, SameOutcomes
<1>10. QED
  BY <1>3, <1>7, <1>8, <1>9 DEF OneInv, SettledInv

LEMMA ReassessStep ==
  ASSUME OneTerminal, OneInv, TypeInv', NEW t \in Terminals, ReassessStoppedSession(t)
  PROVE  OneInv'
<1>1. TypeInv /\ OutcomesInv /\ ChargeInv /\ SumInv
  BY DEF OneInv, SettledInv
<1>2. UNCHANGED <<ops, charged>> /\ pc'[t] = "idle" /\ saved' = Reassessed(saved)
  BY DEF ReassessStoppedSession, history
<1>3. PhaseInv' /\ ChargeInv'
  BY <1>1, <1>2, IdleAgain
<1>4. Len(saved.outcomes) \in Nat /\ DOMAIN saved.outcomes = 1 .. Len(saved.outcomes)
  BY <1>1, SessionFacts DEF TypeInv
<1>5. /\ saved' \in Session /\ saved'.baseline = saved.baseline
      /\ Len(saved'.outcomes) = Len(saved.outcomes)
      /\ \A i \in 1 .. Len(saved.outcomes) : /\ saved'.outcomes[i].bucket = saved.outcomes[i].bucket
                                             /\ saved'.outcomes[i].after = saved.outcomes[i].after
      /\ saved'.stopped = "no" => \A i \in 1 .. Len(saved.outcomes) :
           LET b == saved.outcomes[i].bucket
           IN  /\ ops[b].state = "completed" /\ ops[b].evidence # "faulty"
               /\ ~StagedAccountUsageAnomaly(ops[b].attempts, ops[b].observed,
                                             saved.outcomes[i].after - UsedBefore(saved, i))
  BY <1>1, <1>2, ReassessedShape DEF TypeInv
<1>6. DOMAIN saved'.outcomes = 1 .. Len(saved.outcomes)
  BY <1>5, SessionFacts
<1>7. \A i \in 1 .. Len(saved.outcomes) : saved.outcomes[i].bucket = i /\ ops[i].state = "completed"
  BY <1>1, <1>4 DEF OutcomesInv
<1>8. OutcomesInv'
  BY <1>2, <1>5, <1>6, <1>7 DEF OutcomesInv
<1>9. \A i \in 1 .. Len(saved.outcomes) : UsedBefore(saved', i) = UsedBefore(saved, i)
  BY <1>4, <1>5 DEF UsedBefore
<1>10. DeltaInv'
  <2> SUFFICES ASSUME saved'.stopped = "no", NEW i \in 1 .. Len(saved.outcomes)
               PROVE  ~StagedAccountUsageAnomaly(ops'[i].attempts, ops'[i].observed,
                          saved'.outcomes[i].after - UsedBefore(saved', i))
    BY <1>6 DEF DeltaInv, StagedAccountUsageAnomaly
  <2>1. ~StagedAccountUsageAnomaly(ops[i].attempts, ops[i].observed,
                                   saved.outcomes[i].after - UsedBefore(saved, i))
    BY <1>5, <1>7
  <2>2. QED
    BY <1>2, <1>5, <1>9, <2>1
<1>11. SumInv'
  BY <1>1, <1>2, <1>5, SameOutcomes
<1>12. QED
  BY <1>3, <1>8, <1>10, <1>11 DEF OneInv, SettledInv

\* The units of one bucket, and of the buckets up to one, can be counted.
LEMMA UnitsOfOne ==
  ASSUME NEW b, NEW n \in Nat
  PROVE  IsFiniteSet({b} \X (1 .. n)) /\ Cardinality({b} \X (1 .. n)) = n
<1>1. IsFiniteSet({b}) /\ Cardinality({b}) = 1
  BY FS_Singleton
<1>2. IsFiniteSet(1 .. n) /\ Cardinality(1 .. n) = n
  <2>1. 1 \in Int /\ n \in Int
    OBVIOUS
  <2>2. QED
    BY <2>1, FS_Interval
<1>3. IsFiniteSet({b} \X (1 .. n)) /\ Cardinality({b} \X (1 .. n)) = Cardinality({b}) * Cardinality(1 .. n)
  BY <1>1, <1>2, FS_Product
<1>4. QED
  BY <1>1, <1>2, <1>3

LEMMA UnitsAreFinite ==
  ASSUME NEW f \in [Buckets -> Nat]
  PROVE  IsFiniteSet(Units(f))
<1> DEFINE T == {{b} \X (1 .. f[b]) : b \in Buckets}
           g == [b \in Buckets |-> {b} \X (1 .. f[b])]
<1>1. g \in Surjection(Buckets, T)
  BY DEF Surjection
<1>2. IsFiniteSet(Buckets)
  <2>1. 1 \in Int /\ BucketCount \in Int
    BY CountTypes
  <2>2. QED
    BY <2>1, FS_Interval DEF Buckets
<1>3. IsFiniteSet(T)
  BY <1>1, <1>2, FS_Surjection
<1>4. \A U \in T : IsFiniteSet(U)
  <2>1. \A b \in Buckets : f[b] \in Nat
    OBVIOUS
  <2>2. \A b \in Buckets : IsFiniteSet({b} \X (1 .. f[b]))
    BY <2>1, UnitsOfOne
  <2>3. QED
    BY <2>2
<1>5. Units(f) = UNION T
  BY DEF Units
<1> HIDE DEF T
<1>6. QED
  BY <1>3, <1>4, <1>5, FS_UNION

\* One outcome more: the sum gains the charge of its bucket.
LEMMA SpentGrows ==
  ASSUME TypeInv, NEW k \in Nat, k + 1 \in Buckets
  PROVE  Spent(k + 1) = Spent(k) + charged[k + 1]
<1> DEFINE x == k + 1
           f == [b \in Buckets |-> IF b <= k THEN charged[b] ELSE 0]
           g == [b \in Buckets |-> IF b <= x THEN charged[b] ELSE 0]
           more == {x} \X (1 .. charged[x])
<1>1. charged \in [Buckets -> Nat] /\ Buckets \subseteq Nat
  BY DEF TypeInv, Buckets
<1>2. f \in [Buckets -> Nat]
  BY <1>1
<1>3. x \in Buckets /\ x \notin 0 .. k /\ charged[x] \in Nat
  BY <1>1
<1>4. \A b \in Buckets : g[b] = IF b = x THEN charged[x] ELSE f[b]
  <2>1. \A b \in Buckets : b <= x <=> b = x \/ b <= k
    BY <1>1
  <2>2. QED
    BY <2>1
<1>5. f[x] = 0 /\ DOMAIN f = Buckets /\ DOMAIN g = Buckets
  BY <1>1
<1>6. Spent(k) = Total(f) /\ Spent(x) = Total(g)
  BY DEF Spent
<1> HIDE DEF f, g, x
<1>7. Units(g) = Units(f) \cup more
  BY <1>3, <1>4, <1>5 DEF Units
<1>8. Units(f) \cap more = {}
  BY <1>5 DEF Units
<1>9. IsFiniteSet(Units(f)) /\ IsFiniteSet(more) /\ Cardinality(more) = charged[x]
  BY <1>2, <1>3, UnitsAreFinite, UnitsOfOne
<1> HIDE DEF more
<1>10. Cardinality(Units(g)) = Cardinality(Units(f)) + Cardinality(more) - Cardinality({})
  BY <1>7, <1>8, <1>9, FS_Union
<1>11. Cardinality({}) = 0 /\ Cardinality(Units(f)) \in Nat
  BY <1>9, FS_EmptySet, FS_CardinalityType
<1>12. QED
  BY <1>3, <1>6, <1>9, <1>10, <1>11 DEF Total, x

LEMMA OutcomeStep ==
  ASSUME OneTerminal, OneInv, TypeInv', NEW t \in Terminals, RecordOutcome(t)
  PROVE  OneInv'
<1> DEFINE b == mine[t].bucket
           n == Len(saved.outcomes)
           used == account.used
<1>1. TypeInv /\ PhaseInv /\ OutcomesInv /\ ChargeInv /\ DeltaInv /\ SumInv
  BY DEF OneInv, SettledInv
<1>2. UNCHANGED <<ops, charged>> /\ pc'[t] = "idle"
  BY <1>1, ScriptIsQuiet, EndType DEF RecordOutcome
<1>3. PhaseInv' /\ ChargeInv'
  BY <1>1, <1>2, IdleAgain
<1>4. pc[t] = "after" /\ saved' = WithOutcome(mine[t].state, b, mine[t].usedBefore, used)
  BY DEF RecordOutcome
<1>5. /\ b \in Buckets /\ b = n + 1 /\ n \in Nat /\ DOMAIN saved.outcomes = 1 .. n
      /\ saved.stopped = "no" /\ mine[t].state = saved
  BY <1>1, <1>4, PhaseBucket
<1>6. ops[b].state = "completed" /\ mine[t].usedBefore = UsedBefore(saved, n + 1)
  BY <1>1, <1>4 DEF PhaseInv, Prior
<1>7. mine[t].usedBefore \in Nat /\ used \in Nat /\ saved \in Session
  BY <1>1 DEF TypeInv, Memory
<1> DEFINE o == OutcomeOf(b, used)
           w == WithOutcome(saved, b, mine[t].usedBefore, used)
<1>8. saved' = w
  BY <1>4, <1>5
<1>9. o.bucket = b /\ o.after = used
  BY DEF OutcomeOf
<1>10. ops \in [Buckets -> Operation]
  BY <1>1 DEF TypeInv
<1> HIDE DEF b, n, used
<1>11. /\ w \in Session /\ w.outcomes = Append(saved.outcomes, o)
       /\ w.baseline = saved.baseline
       /\ w.stopped = "no" =>
            /\ ops[b].evidence # "faulty"
            /\ ~StagedAccountUsageAnomaly(ops[b].attempts, ops[b].observed, used - mine[t].usedBefore)
  <2>1. /\ saved \in Session /\ b \in Buckets /\ used \in Nat
        /\ mine[t].usedBefore \in Nat /\ ops \in [Buckets -> Operation]
    BY <1>5, <1>7, <1>10
  <2>2. QED
    BY ONLY <2>1, WithOutcomeShape
<1> HIDE DEF o, w
<1>12. saved.outcomes \in Seq(Outcome)
  BY <1>7, SessionFacts
<1>13. /\ Len(saved'.outcomes) = n + 1 /\ DOMAIN saved'.outcomes = 1 .. n + 1
       /\ \A i \in 1 .. n : saved'.outcomes[i] = saved.outcomes[i]
       /\ saved'.outcomes[n + 1] = o
  <2>1. o \in Outcome
    BY <1>5, <1>7, <1>10, OutcomeType DEF o
  <2>2. QED
    BY <1>5, <1>8, <1>11, <1>12, <2>1 DEF n
<1>14. \A i \in 1 .. n + 1 : i \in 1 .. n \/ i = b
  BY <1>5
<1>15. \A i \in 1 .. n + 1 : UsedBefore(saved', i) = UsedBefore(saved, i)
  BY <1>5, <1>8, <1>11, <1>13 DEF UsedBefore
<1>16. OutcomesInv'
  BY <1>1, <1>2, <1>5, <1>6, <1>8, <1>9, <1>11, <1>13, <1>14 DEF OutcomesInv
<1>17. DeltaInv'
  <2> SUFFICES ASSUME saved'.stopped = "no", NEW i \in 1 .. n + 1
               PROVE  ~StagedAccountUsageAnomaly(ops'[i].attempts, ops'[i].observed,
                          saved'.outcomes[i].after - UsedBefore(saved', i))
    BY <1>13 DEF DeltaInv, StagedAccountUsageAnomaly
  <2>1. CASE i = b
    BY <1>2, <1>5, <1>6, <1>8, <1>9, <1>11, <1>13, <1>15, <2>1
  <2>2. CASE i \in 1 .. n
    <3>1. ~StagedAccountUsageAnomaly(ops[i].attempts, ops[i].observed,
                                     saved.outcomes[i].after - UsedBefore(saved, i))
      BY <1>1, <1>5, <2>2 DEF DeltaInv
    <3>2. QED
      BY <1>2, <1>13, <1>15, <2>2, <3>1
  <2>3. QED
    BY <1>14, <2>1, <2>2
<1>18. SumInv'
  <2>1. \A k \in 0 .. n + 1 : Spent(k)' = Spent(k)
    BY <1>2 DEF Spent, Total, Units
  <2>2. ASSUME NEW k \in 0 .. n PROVE Explained(saved, k)'
    <3>1. Explained(saved, k)
      BY <1>1, <2>2 DEF SumInv, n
    <3>2. SUFFICES ASSUME \A i \in 1 .. k : saved'.outcomes[i].after - UsedBefore(saved', i) = charged'[i]
                   PROVE  UsedBefore(saved', k + 1) - saved'.baseline.used = Spent(k)'
      BY DEF Explained
    <3>3. \A i \in 1 .. k : saved.outcomes[i].after - UsedBefore(saved, i) = charged[i]
      BY <1>2, <1>5, <1>13, <1>15, <3>2
    <3>4. UsedBefore(saved, k + 1) - saved.baseline.used = Spent(k)
      BY <3>1, <3>3 DEF Explained
    <3>5. QED
      BY <1>5, <1>8, <1>11, <1>15, <2>1, <3>4
  <2>3. ASSUME NEW k \in Nat, k = n + 1 PROVE Explained(saved, k)'
    <3>1. SUFFICES ASSUME \A i \in 1 .. k :
                            saved'.outcomes[i].after - UsedBefore(saved', i) = charged'[i]
                   PROVE  UsedBefore(saved', k + 1) - saved'.baseline.used = Spent(k)'
      BY DEF Explained
    <3>2. Explained(saved, n)
      BY <1>1, <1>5 DEF SumInv, n
    <3>3. \A i \in 1 .. n : saved.outcomes[i].after - UsedBefore(saved, i) = charged[i]
      BY <1>2, <1>5, <1>13, <1>15, <2>3, <3>1
    <3>4. UsedBefore(saved, n + 1) - saved.baseline.used = Spent(n)
      BY <3>2, <3>3 DEF Explained
    <3>5. used - UsedBefore(saved, n + 1) = charged[n + 1]
      BY <1>2, <1>5, <1>9, <1>13, <1>15, <3>1, <2>3
    <3>6. UsedBefore(saved', k + 1) = used
      BY <2>3, <1>5, <1>9, <1>13 DEF UsedBefore
    <3>7. Spent(k) = Spent(n) + charged[k]
      BY <2>3, <1>1, <1>5, SpentGrows
    <3>8. /\ used \in Nat /\ UsedBefore(saved, n + 1) \in Nat /\ saved.baseline.used \in Nat
          /\ charged[n + 1] \in Nat
      BY <1>1, <1>5, <1>7, SessionFacts DEF TypeInv, n
    <3>9. used - saved.baseline.used = Spent(k)
      BY <2>3, <3>4, <3>5, <3>7, <3>8
    <3>10. QED
      BY <1>5, <1>8, <1>11, <2>1, <2>3, <3>6, <3>9
  <2>4. \A k \in 0 .. n + 1 : k \in 0 .. n \/ k = n + 1
    BY <1>5
  <2>5. QED
    BY <1>13, <2>2, <2>3, <2>4 DEF SumInv
<1>19. QED
  BY <1>3, <1>16, <1>17, <1>18 DEF OneInv, SettledInv

\* The lookup itself changes what is known of the next bucket only.
LEMMA ClaimOne ==
  ASSUME OneTerminal, OneInv, TypeInv', NEW t \in Terminals, Claim(t)
  PROVE  OneInv'
<1> DEFINE b == mine[t].bucket
<1>1. TypeInv /\ PhaseInv /\ OutcomesInv /\ ChargeInv /\ DeltaInv /\ SumInv
  BY DEF OneInv, SettledInv
<1>2. /\ b \in Buckets /\ ops[b].state = "none" /\ ops'[b].state = "authorized"
      /\ \A c \in Buckets \ {b} : ops'[c] = ops[c]
      /\ pc[t] = "claim" /\ pc'[t] = "search"
      /\ UNCHANGED <<saved, mine, calls, charged>>
  BY <1>1, ClaimStep
<1>3. /\ b = Len(saved.outcomes) + 1 /\ b \notin DOMAIN saved.outcomes
      /\ saved.stopped = "no" /\ mine[t].state = saved
  BY <1>1, <1>2, PhaseBucket
<1>4. mine[t].usedBefore = Prior(saved)
  BY <1>1, <1>2 DEF PhaseInv
<1> HIDE DEF b
<1>5. \A i \in DOMAIN saved.outcomes : i \in Buckets /\ i # b
  <2>1. \A i \in DOMAIN saved.outcomes : saved.outcomes[i] \in Outcome /\ saved.outcomes[i].bucket = i
    BY <1>1, SessionFacts DEF TypeInv, OutcomesInv
  <2>2. QED
    BY <1>3, <2>1 DEF Outcome
<1>6. OutcomesInv' /\ DeltaInv' /\ SumInv'
  BY <1>1, <1>2, <1>5, SameSession
<1>7. \A u \in Terminals : u = t
  BY DEF OneTerminal
<1>8. PhaseInv'
  BY <1>2, <1>3, <1>4, <1>7 DEF PhaseInv, b
<1>9. ChargeInv'
  <2>1. \A c \in Buckets : /\ ops'[c].state = "none" => charged[c] = 0
                           /\ ops'[c].state \in {"completed", "failed"} /\ ops'[c].observed # -1
                                => charged[c] = ops'[c].observed
    BY <1>1, <1>2 DEF ChargeInv
  <2>2. charged[b] = 0
    BY <1>1, <1>2 DEF ChargeInv
  <2>3. QED
    BY <1>2, <1>7, <2>1, <2>2 DEF ChargeInv, b
<1>10. QED
  BY <1>6, <1>8, <1>9 DEF OneInv, SettledInv

LEMMA DiscoverOne ==
  ASSUME OneTerminal, OneInv, TypeInv', NEW t \in Terminals, NEW attempts \in Credits,
         NEW charge \in Credits, NEW named \in BOOLEAN, Discover(t, attempts, charge, named)
  PROVE  OneInv'
<1> DEFINE b == mine[t].bucket
<1>1. TypeInv /\ PhaseInv /\ OutcomesInv /\ ChargeInv /\ DeltaInv /\ SumInv
  BY DEF OneInv, SettledInv
<1>2. /\ b \in Buckets /\ charged'[b] = charged[b] + charge
      /\ \A c \in Buckets \ {b} : charged'[c] = charged[c]
      /\ pc[t] = "search" /\ pc'[t] = "answered"
      /\ mine'[t].bucket = b /\ mine'[t].state = mine[t].state
      /\ mine'[t].observed \in {charge, -1}
      /\ UNCHANGED <<saved, ops>>
  BY <1>1, DiscoverStep
<1>3. mine'[t].usedBefore = mine[t].usedBefore
  BY <1>1 DEF Discover, TypeInv, Memory
<1>4. /\ b = Len(saved.outcomes) + 1 /\ b \notin DOMAIN saved.outcomes
      /\ saved.stopped = "no" /\ mine[t].state = saved
  BY <1>1, <1>2, PhaseBucket
<1>5. mine[t].usedBefore = Prior(saved) /\ ops[b].state = "authorized" /\ charged[b] = 0
  BY <1>1, <1>2 DEF PhaseInv, ChargeInv
<1> HIDE DEF b
<1>6. \A i \in DOMAIN saved.outcomes : i \in Buckets /\ i # b
  <2>1. \A i \in DOMAIN saved.outcomes : saved.outcomes[i] \in Outcome /\ saved.outcomes[i].bucket = i
    BY <1>1, SessionFacts DEF TypeInv, OutcomesInv
  <2>2. QED
    BY <1>4, <2>1 DEF Outcome
<1>7. OutcomesInv' /\ DeltaInv' /\ SumInv'
  BY <1>1, <1>2, <1>6, SameSession
<1>8. \A u \in Terminals : u = t
  BY DEF OneTerminal
<1>9. PhaseInv'
  BY <1>2, <1>3, <1>4, <1>5, <1>8 DEF PhaseInv
<1>10. ChargeInv'
  <2>1. \A c \in Buckets : /\ ops[c].state = "none" => charged'[c] = 0
                           /\ ops[c].state \in {"completed", "failed"} /\ ops[c].observed # -1
                                => charged'[c] = ops[c].observed
    BY <1>1, <1>2, <1>5 DEF ChargeInv
  <2>2. charged'[b] = charge
    BY <1>2, <1>5 DEF Credits
  <2>3. QED
    BY <1>2, <1>8, <2>1, <2>2 DEF ChargeInv
<1>11. QED
  BY <1>7, <1>9, <1>10 DEF OneInv, SettledInv

LEMMA FinalOne ==
  ASSUME OneTerminal, OneInv, TypeInv', NEW t \in Terminals,
         \/ \E evidence \in {"none", "clean", "faulty"} : Complete(t, evidence)
         \/ Fail(t)
  PROVE  OneInv'
<1> DEFINE b == mine[t].bucket
<1>1. TypeInv /\ PhaseInv /\ OutcomesInv /\ ChargeInv /\ DeltaInv /\ SumInv
  BY DEF OneInv, SettledInv
<1>2. /\ b \in Buckets /\ ops'[b].state \in {"completed", "failed"}
      /\ ops'[b].observed = mine[t].observed
      /\ \A c \in Buckets \ {b} : ops'[c] = ops[c]
      /\ pc[t] = "answered" /\ pc'[t] \in {"returned", "threw"}
      /\ pc'[t] = "returned" => ops'[b].state = "completed"
      /\ UNCHANGED <<saved, mine, calls, charged>>
  BY <1>1, FinalStep
<1>3. /\ b = Len(saved.outcomes) + 1 /\ b \notin DOMAIN saved.outcomes
      /\ saved.stopped = "no" /\ mine[t].state = saved
  BY <1>1, <1>2, PhaseBucket
<1>4. mine[t].usedBefore = Prior(saved) /\ mine[t].observed \in {-1, charged[b]}
  BY <1>1, <1>2 DEF PhaseInv, ChargeInv
<1> HIDE DEF b
<1>5. \A i \in DOMAIN saved.outcomes : i \in Buckets /\ i # b
  <2>1. \A i \in DOMAIN saved.outcomes : saved.outcomes[i] \in Outcome /\ saved.outcomes[i].bucket = i
    BY <1>1, SessionFacts DEF TypeInv, OutcomesInv
  <2>2. QED
    BY <1>3, <2>1 DEF Outcome
<1>6. OutcomesInv' /\ DeltaInv' /\ SumInv'
  BY <1>1, <1>2, <1>5, SameSession
<1>7. \A u \in Terminals : u = t
  BY DEF OneTerminal
<1>8. PhaseInv'
  BY <1>2, <1>3, <1>4, <1>7 DEF PhaseInv, b
<1>9. ChargeInv'
  <2>1. \A c \in Buckets : /\ ops'[c].state = "none" => charged[c] = 0
                           /\ ops'[c].state \in {"completed", "failed"} /\ ops'[c].observed # -1
                                => charged[c] = ops'[c].observed
    BY <1>1, <1>2, <1>4 DEF ChargeInv
  <2>2. QED
    BY <1>2, <1>7, <2>1 DEF ChargeInv
<1>10. QED
  BY <1>6, <1>8, <1>9 DEF OneInv, SettledInv

LEMMA UntouchedOne ==
  ASSUME OneInv, TypeInv', UNCHANGED <<saved, ops, pc, mine, charged>>
  PROVE  OneInv'
<1>1. TypeInv /\ PhaseInv /\ OutcomesInv /\ ChargeInv /\ DeltaInv /\ SumInv
  BY DEF OneInv, SettledInv
<1>2. OutcomesInv' /\ DeltaInv' /\ SumInv'
  BY <1>1, SameSession
<1>3. PhaseInv' /\ ChargeInv'
  BY <1>1 DEF PhaseInv, ChargeInv
<1>4. QED
  BY <1>2, <1>3 DEF OneInv, SettledInv

LEMMA OneStep ==
  ASSUME OneTerminal
  PROVE  OneInv /\ [Next]_vars => OneInv'
<1> SUFFICES ASSUME OneInv, [Next]_vars PROVE OneInv'
  OBVIOUS
<1>1. TypeInv'
  BY TypeStep DEF OneInv
<1>2. ASSUME NEW t \in Terminals,
             \/ Baseline(t)
             \/ \E b \in Buckets : ValidateBucket(t, b)
             \/ UsageConfirmed(t)
             \/ ClaimReplays(t) \/ ClaimRefused(t)
             \/ ReadAgain(t) \/ Ended(t)
      PROVE  OneInv'
  BY <1>1, <1>2, WaitingStep
<1>3. ASSUME NEW t \in Terminals, BaselineMeasured(t) PROVE OneInv'
  BY <1>1, <1>3, BaselineStep
<1>4. ASSUME NEW t \in Terminals, UsageChangedOutside(t) \/ RecordFailure(t) PROVE OneInv'
  BY <1>1, <1>4, StoppingStep
<1>5. ASSUME NEW t \in Terminals, ReassessStoppedSession(t) PROVE OneInv'
  BY <1>1, <1>5, ReassessStep
<1>6. ASSUME NEW t \in Terminals, RecordOutcome(t) PROVE OneInv'
  BY <1>1, <1>6, OutcomeStep
<1>7. ASSUME NEW t \in Terminals, Claim(t) PROVE OneInv'
  BY <1>1, <1>7, ClaimOne
<1>8. ASSUME NEW t \in Terminals, NEW attempts \in Credits, NEW charge \in Credits,
             NEW named \in BOOLEAN, Discover(t, attempts, charge, named)
      PROVE  OneInv'
  BY <1>1, <1>8, DiscoverOne
<1>9. ASSUME NEW t \in Terminals,
             \/ \E evidence \in {"none", "clean", "faulty"} : Complete(t, evidence)
             \/ Fail(t)
      PROVE  OneInv'
  BY <1>1, <1>9, FinalOne
<1>10. CASE OutsideUse \/ NewCycle \/ ProtectedWrite \/ Midnight
  <2>1. UNCHANGED <<durable, pc, mine, history>>
    BY <1>10, WorldTypes DEF OneInv
  <2>2. QED
    BY <1>1, <2>1, UntouchedOne DEF durable, history
<1>11. CASE UNCHANGED vars
  BY <1>1, <1>11, UntouchedOne DEF vars
<1>12. QED
  BY <1>2, <1>3, <1>4, <1>5, <1>6, <1>7, <1>8, <1>9, <1>10, <1>11 DEF Next

LEMMA OneInit == Init => OneInv
<1> SUFFICES ASSUME Init PROVE OneInv
  OBVIOUS
<1>1. TypeInv
  BY TypeInit
<1>2. saved.outcomes = <<>> /\ saved.stopped = "none" /\ saved.baseline.used = 0
  BY DEF Init, NoSession
<1>3. Len(saved.outcomes) = 0 /\ DOMAIN saved.outcomes = {}
  BY <1>2
<1>4. \A b \in Buckets : ops[b].state = "none" /\ charged[b] = 0
  BY DEF Init, NoOperation
<1>5. SettledInv /\ DeltaInv /\ ChargeInv
  BY <1>2, <1>3, <1>4 DEF Init, SettledInv, PhaseInv, OutcomesInv, DeltaInv, ChargeInv
<1>6. Spent(0) = 0
  <2> DEFINE f == [b \in Buckets |-> IF b <= 0 THEN charged[b] ELSE 0]
  <2>1. \A b \in Buckets : f[b] = 0
    BY <1>4
  <2>2. Units(f) = {}
    BY <2>1 DEF Units
  <2> HIDE DEF f
  <2>3. QED
    BY <2>2, FS_EmptySet DEF Spent, f, Total
<1>7. SumInv
  <2>1. UsedBefore(saved, 1) - saved.baseline.used = 0
    BY <1>2 DEF UsedBefore
  <2>2. Explained(saved, 0)
    BY <1>6, <2>1 DEF Explained
  <2>3. \A k \in 0 .. 0 : k = 0
    OBVIOUS
  <2>4. QED
    BY <1>3, <2>2, <2>3 DEF SumInv
<1>8. QED
  BY <1>1, <1>5, <1>7 DEF OneInv

LEMMA OneTerminalInductive == ASSUME OneTerminal PROVE Spec => []OneInv
BY OneInit, OneStep, PTL DEF Spec

\* The buckets of a session's outcomes are the first ones.
LEMMA ValidatedAre ==
  ASSUME OneInv
  PROVE  Validated = 1 .. Len(saved.outcomes) /\ Len(saved.outcomes) \in Nat
         /\ DOMAIN saved.outcomes = 1 .. Len(saved.outcomes)
         /\ \A i \in 1 .. Len(saved.outcomes) : i \in Buckets
<1>1. saved \in Session /\ OutcomesInv
  BY DEF OneInv, TypeInv, SettledInv
<1>2. Len(saved.outcomes) \in Nat /\ DOMAIN saved.outcomes = 1 .. Len(saved.outcomes)
  BY <1>1, SessionFacts
<1>3. \A i \in 1 .. Len(saved.outcomes) : saved.outcomes[i] \in Outcome /\ saved.outcomes[i].bucket = i
  BY <1>1, <1>2, SessionFacts DEF OutcomesInv
<1>4. \A i \in 1 .. Len(saved.outcomes) : i \in Buckets
  BY <1>3 DEF Outcome
<1>5. QED
  BY <1>2, <1>3, <1>4 DEF Validated

\* At one terminal, whatever is interrupted, repeated or reassessed: a lookup starts
\* only on a session that is not stopped, whose outcomes are those of all earlier
\* buckets, each completed with evidence nothing contradicts.
THEOREM LookupsFollowASettledSession ==
  ASSUME OneTerminal
  PROVE  Spec => LookupsNeedASettledSession
<1> DEFINE Settled == \A b \in Buckets :
             ops[b].state = "none" /\ ops'[b].state = "authorized" =>
               /\ saved.stopped = "no"
               /\ Validated = 1 .. (b - 1)
               /\ \A earlier \in 1 .. (b - 1) :
                      ops[earlier].state = "completed" /\ ops[earlier].evidence # "faulty"
<1>1. OneInv /\ [Next]_vars => [Settled]_vars
  <2> SUFFICES ASSUME OneInv, Next, NEW b \in Buckets,
                      ops[b].state = "none", ops'[b].state = "authorized"
               PROVE  /\ saved.stopped = "no"
                      /\ Validated = 1 .. (b - 1)
                      /\ \A earlier \in 1 .. (b - 1) :
                             ops[earlier].state = "completed" /\ ops[earlier].evidence # "faulty"
    BY DEF vars
  <2>1. TypeInv /\ PhaseInv /\ OutcomesInv
    BY DEF OneInv, SettledInv
  <2>2. ASSUME ops' = ops PROVE FALSE
    BY <2>2
  <2>3. ASSUME NEW t \in Terminals,
               \/ Baseline(t) \/ BaselineMeasured(t)
               \/ \E c \in Buckets : ValidateBucket(t, c)
               \/ UsageChangedOutside(t) \/ UsageConfirmed(t)
               \/ ClaimReplays(t) \/ ClaimRefused(t)
               \/ ReadAgain(t) \/ RecordOutcome(t) \/ RecordFailure(t) \/ Ended(t)
        PROVE  FALSE
    BY <2>1, <2>2, <2>3, ScriptIsQuiet
  <2>4. ASSUME NEW t \in Terminals, ReassessStoppedSession(t) PROVE FALSE
    BY <2>2, <2>4 DEF ReassessStoppedSession
  <2>5. ASSUME NEW t \in Terminals, NEW attempts \in Credits, NEW charge \in Credits,
               NEW named \in BOOLEAN, Discover(t, attempts, charge, named)
        PROVE  FALSE
    BY <2>2, <2>5 DEF Discover, durable
  <2>6. ASSUME NEW t \in Terminals,
               \/ \E evidence \in {"none", "clean", "faulty"} : Complete(t, evidence)
               \/ Fail(t)
        PROVE  FALSE
    <3>1. /\ ops'[mine[t].bucket].state \in {"completed", "failed"}
          /\ \A c \in Buckets \ {mine[t].bucket} : ops'[c] = ops[c]
      BY <2>1, <2>6, FinalStep
    <3>2. QED
      BY <3>1
  <2>7. CASE OutsideUse \/ NewCycle \/ ProtectedWrite \/ Midnight
    BY <2>1, <2>2, <2>7, WorldTypes DEF durable
  <2>8. ASSUME NEW t \in Terminals, Claim(t)
        PROVE  /\ saved.stopped = "no"
               /\ Validated = 1 .. (b - 1)
               /\ \A earlier \in 1 .. (b - 1) :
                      ops[earlier].state = "completed" /\ ops[earlier].evidence # "faulty"
    <3>1. /\ \A c \in Buckets \ {mine[t].bucket} : ops'[c] = ops[c]
          /\ pc[t] = "claim"
      BY <2>1, <2>8, ClaimStep
    <3>2. b = mine[t].bucket
      BY <3>1
    <3>3. b = Len(saved.outcomes) + 1 /\ saved.stopped = "no"
      BY <2>1, <3>1, <3>2, PhaseBucket
    <3>4. /\ Validated = 1 .. Len(saved.outcomes) /\ Len(saved.outcomes) \in Nat
          /\ DOMAIN saved.outcomes = 1 .. Len(saved.outcomes)
      BY ValidatedAre
    <3>5. b - 1 = Len(saved.outcomes)
      BY <3>3, <3>4
    <3>6. \A earlier \in 1 .. Len(saved.outcomes) :
             ops[earlier].state = "completed" /\ ops[earlier].evidence # "faulty"
      BY <2>1, <3>3, <3>4 DEF OutcomesInv
    <3>7. QED
      BY <3>3, <3>4, <3>5, <3>6
  <2>9. QED
    BY <2>3, <2>4, <2>5, <2>6, <2>7, <2>8 DEF Next
<1>2. Spec => [][Settled]_vars
  BY <1>1, OneTerminalInductive, PTL DEF Spec
<1>3. QED
  BY <1>2 DEF LookupsNeedASettledSession

\* At one terminal: a session that is not stopped and whose answers named what they
\* consumed leaves no credit of the account unexplained.
THEOREM UseIsAccountedFor ==
  ASSUME OneTerminal
  PROVE  Spec => []UseIsExplained
<1>1. OneInv => UseIsExplained
  <2> DEFINE n == Len(saved.outcomes)
  <2> SUFFICES ASSUME OneInv, saved.stopped = "no", \A b \in Validated : ops[b].observed # -1
               PROVE  Prior(saved) - saved.baseline.used
                        = Total([b \in Buckets |-> IF b \in Validated THEN charged[b] ELSE 0])
    BY DEF UseIsExplained
  <2>1. TypeInv /\ OutcomesInv /\ ChargeInv /\ DeltaInv /\ SumInv
    BY DEF OneInv, SettledInv
  <2>2. /\ Validated = 1 .. n /\ n \in Nat /\ DOMAIN saved.outcomes = 1 .. n
        /\ \A i \in 1 .. n : i \in Buckets
    BY ValidatedAre
  <2>3. ASSUME NEW i \in 1 .. n
        PROVE  saved.outcomes[i].after - UsedBefore(saved, i) = charged[i]
    <3>1. ops[i].observed # -1 /\ ops[i].state = "completed" /\ i \in Buckets
      BY <2>1, <2>2 DEF OutcomesInv
    <3>2. ops[i].observed = charged[i]
      BY <2>1, <3>1 DEF ChargeInv
    <3>3. ~StagedAccountUsageAnomaly(ops[i].attempts, ops[i].observed,
                                     saved.outcomes[i].after - UsedBefore(saved, i))
      BY <2>1, <2>2 DEF DeltaInv
    <3>4. QED
      BY <3>1, <3>2, <3>3 DEF StagedAccountUsageAnomaly
  <2>4. Explained(saved, n)
    BY <2>1, <2>2 DEF SumInv
  <2> HIDE DEF n
  <2>5. UsedBefore(saved, n + 1) - saved.baseline.used = Spent(n)
    BY <2>3, <2>4 DEF Explained
  <2>6. \A b \in Buckets : b \in Validated <=> b <= n
    BY <2>2 DEF Buckets
  <2>7. [b \in Buckets |-> IF b \in Validated THEN charged[b] ELSE 0]
          = [b \in Buckets |-> IF b <= n THEN charged[b] ELSE 0]
    BY <2>6
  <2>8. QED
    BY <2>5, <2>7 DEF Prior, Spent, n
<1>2. QED
  BY <1>1, OneTerminalInductive, PTL
==============================================================================
