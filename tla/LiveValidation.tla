--------------------------- MODULE LiveValidation ---------------------------
(***************************************************************************)
(* The controlled validation of the five recipient buckets against the     *)
(* real provider (scripts/apollo-five-bucket-live-validation.ts).  An      *)
(* operator runs the script once per phase: a baseline, then one bucket    *)
(* after the other, each allowed one lookup, and a reassessment of the     *)
(* recorded evidence after a stop.  The session is one row of settings,    *)
(* read before and written after calls to Apollo's usage endpoint; the     *)
(* lookup itself goes through the discovery operations of the store, whose *)
(* request id is the session and the bucket.                               *)
(*                                                                         *)
(* Around the script: other users of the same Apollo account, its billing  *)
(* cycle, writes to the mail tables or the trust tables, midnight, calls   *)
(* of the usage endpoint that fail, and an operator who interrupts.        *)
(*                                                                         *)
(* Left out: the environment and file checks of the start (a run that      *)
(* fails them does nothing), the preflight phase (it writes nothing), the  *)
(* printed report.  What the local inspection reads of one lookup is a     *)
(* verdict fixed when the lookup completes.                                *)
(***************************************************************************)
EXTENDS Integers, Sequences, Totals

CONSTANTS
    Terminals,     \* where the operator runs the script
    BucketCount,   \* how many buckets are validated, in the order 1, 2, ...
    DailyCap,      \* lookups allowed per day, and credits per session
    MaxOutside,    \* bound: credits others use of the account
    MaxWrites,     \* bound: writes to the mail and trust tables
    MaxCycles,     \* bound: billing cycles that begin
    MaxDays        \* bound: midnights

ASSUME CountsAssumption ==
    /\ BucketCount \in Nat \ {0}
    /\ DailyCap \in Nat \ {0}
    /\ {MaxOutside, MaxWrites, MaxCycles, MaxDays} \subseteq Nat

VARIABLES
    saved,      \* the session in the settings table: no session, or its state
    ops,        \* the discovery operation of each bucket
    account,    \* Apollo's usage: the billing cycle and the credits used in it
    outside,    \* credits used by others so far
    protected,  \* fingerprint of the mail and trust tables
    days,       \* midnights so far
    pc,         \* what each terminal's script waits for
    mine,       \* what it read and remembers
    calls,      \* history: provider runs made for each bucket
    charged     \* history: credits Apollo charged for each bucket

durable  == <<saved, ops>>
world    == <<account, outside, protected, days>>
history  == <<calls, charged>>
vars     == <<saved, ops, account, outside, protected, days, pc, mine, calls, charged>>

Buckets == 1 .. BucketCount
NoSession == [baseline |-> [cycle |-> 0, used |-> 0], snapshot |-> 0,
              outcomes |-> <<>>, stopped |-> "none"]
NoOperation == [state |-> "none", attempts |-> 0, observed |-> 0, day |-> 0, evidence |-> "none"]
Forgotten == [bucket |-> 1, state |-> NoSession, usedBefore |-> 0, attempts |-> 0, observed |-> 0]

Credits == {0, 1}
Reports == Credits \union {-1}   \* -1: the answer named no consumption
Usages  == [cycle : 0 .. MaxCycles, used : 0 .. BucketCount + MaxOutside]
Outcomes == [bucket : Buckets, attempts : Credits, after : 0 .. BucketCount + MaxOutside]

Max2(a, b) == IF a > b THEN a ELSE b

-----------------------------------------------------------------------------
(***************************************************************************)
(* The store's side of a lookup.                                           *)
(***************************************************************************)
\* What one operation holds of the budget of its day.
Hold(op) ==
    CASE op.state = "none" -> 0
      [] op.state = "authorized" -> 1
      [] OTHER -> Max2(op.attempts, op.observed)

EffectiveExposure ==
    Total([b \in Buckets |-> IF ops[b].day = days THEN Hold(ops[b]) ELSE 0])

\* store.preflight: a completed request is ready whatever the budget says.
Ready(b) == ops[b].state = "completed" \/ EffectiveExposure < DailyCap

LocalPreflight == \A b \in Buckets : Ready(b)

(***************************************************************************)
(* What the script concludes from what it measured.                        *)
(***************************************************************************)
StagedAccountUsageAnomaly(attempts, observed, delta) ==
    IF observed = -1 THEN delta \notin 0 .. attempts ELSE delta # observed

InspectionAnomaly(b, snapshot) ==
    \/ ops[b].state # "completed"
    \/ ops[b].evidence = "faulty"
    \/ protected # snapshot

\* The account's use before outcome i of a session.
UsedBefore(state, i) ==
    IF i = 1 THEN state.baseline.used ELSE state.outcomes[i - 1].after

Prior(state) == UsedBefore(state, Len(state.outcomes) + 1)

SessionAttempts(outcomes) == Total([i \in DOMAIN outcomes |-> outcomes[i].attempts])

Stop(state, reason) == [state EXCEPT !.stopped = reason]

OutcomeOf(b, used) == [bucket |-> b, attempts |-> ops[b].attempts, after |-> used]

\* The session after bucket b was measured at `used`: one outcome more, and
\* the stop says whether anything was wrong with this one.
WithOutcome(state, b, before, used) ==
    LET outcomes == Append(state.outcomes, OutcomeOf(b, used))
        anomaly == \/ InspectionAnomaly(b, state.snapshot)
                   \/ StagedAccountUsageAnomaly(ops[b].attempts, ops[b].observed, used - before)
                   \/ used - state.baseline.used > DailyCap
                   \/ SessionAttempts(outcomes) > DailyCap
    IN [state EXCEPT !.outcomes = outcomes, !.stopped = IF anomaly THEN "anomaly" ELSE "no"]

\* mutant: a reassessment believes the outcomes and looks at the tables only
TrustingReassessed(state) ==
    [state EXCEPT !.stopped = IF protected # state.snapshot THEN "anomaly" ELSE "no"]

\* The session after every outcome was judged again from the stored evidence.
Reassessed(state) ==
    LET wrong(i) ==
            LET o == state.outcomes[i]
            IN \/ InspectionAnomaly(o.bucket, state.snapshot)
               \/ StagedAccountUsageAnomaly(ops[o.bucket].attempts, ops[o.bucket].observed,
                                            o.after - UsedBefore(state, i))
        outcomes == [i \in DOMAIN state.outcomes |->
                        OutcomeOf(state.outcomes[i].bucket, state.outcomes[i].after)]
        anomaly == \/ protected # state.snapshot
                   \/ \E i \in DOMAIN outcomes : wrong(i)
                   \/ Prior(state) - state.baseline.used > DailyCap
                   \/ SessionAttempts(outcomes) > DailyCap
    IN [state EXCEPT !.outcomes = outcomes, !.stopped = IF anomaly THEN "anomaly" ELSE "no"]

-----------------------------------------------------------------------------
Init ==
    /\ saved = NoSession
    /\ ops = [b \in Buckets |-> NoOperation]
    /\ account = [cycle |-> 0, used |-> 0]
    /\ outside = 0
    /\ protected = 0
    /\ days = 0
    /\ pc = [t \in Terminals |-> "idle"]
    /\ mine = [t \in Terminals |-> Forgotten]
    /\ calls = [b \in Buckets |-> 0]
    /\ charged = [b \in Buckets |-> 0]

Goes(t, to) == pc' = [pc EXCEPT ![t] = to]
\* The script ends, normally or with an error: its memory is gone.
Ends(t) == Goes(t, "idle") /\ mine' = [mine EXCEPT ![t] = Forgotten]

-----------------------------------------------------------------------------
(***************************************************************************)
(* The phase "baseline".                                                   *)
(***************************************************************************)
Baseline(t) ==
    /\ pc[t] = "idle"
    /\ LocalPreflight
    /\ saved.outcomes = <<>>
    /\ EffectiveExposure = 0
    /\ Goes(t, "baseline")
    /\ UNCHANGED <<durable, world, mine, history>>

\* The usage is read and the whole session written over.
BaselineMeasured(t) ==
    /\ pc[t] = "baseline"
    /\ saved' = [baseline |-> account, snapshot |-> protected, outcomes |-> <<>>, stopped |-> "no"]
    /\ Ends(t)
    /\ UNCHANGED <<ops, world, history>>

(***************************************************************************)
(* The phase of one bucket.                                                *)
(***************************************************************************)
ValidateBucket(t, b) ==
    /\ pc[t] = "idle"
    /\ saved.stopped = "no"
    /\ b = Len(saved.outcomes) + 1
    /\ protected = saved.snapshot
    /\ Goes(t, "before")
    /\ mine' = [mine EXCEPT ![t] = [Forgotten EXCEPT !.bucket = b, !.state = saved]]
    /\ UNCHANGED <<durable, world, history>>

\* mutant: the account is only compared with the baseline
AnyAccount(t) == account.used >= mine[t].state.baseline.used

SameAccount(t) ==
    /\ account.cycle = mine[t].state.baseline.cycle
    /\ account.used = Prior(mine[t].state)

\* The account moved since the last outcome: the session is stopped, as it was
\* read before the usage call.
UsageChangedOutside(t) ==
    /\ pc[t] = "before"
    /\ ~ SameAccount(t)
    /\ saved' = Stop(mine[t].state, "outside")
    /\ Ends(t)
    /\ UNCHANGED <<ops, world, history>>

UsageConfirmed(t) ==
    /\ pc[t] = "before"
    /\ SameAccount(t)
    /\ LocalPreflight
    /\ Goes(t, "claim")
    /\ mine' = [mine EXCEPT ![t].usedBefore = account.used]
    /\ UNCHANGED <<durable, world, history>>

\* mutant: an operation that ended in a failure is claimed again
ReclaimFailed(t) ==
    LET b == mine[t].bucket
    IN /\ pc[t] = "claim"
       /\ Ready(b)
       /\ ops[b].state \in {"none", "failed"}
       /\ ops' = [ops EXCEPT ![b] = [NoOperation EXCEPT !.state = "authorized", !.day = days]]
       /\ Goes(t, "search")
       /\ UNCHANGED <<saved, world, mine, history>>

\* runCandidateRefresh claims the operation of the request id.
Claim(t) ==
    LET b == mine[t].bucket
    IN /\ pc[t] = "claim"
       /\ Ready(b)
       /\ ops[b].state = "none"
       /\ ops' = [ops EXCEPT ![b] = [NoOperation EXCEPT !.state = "authorized", !.day = days]]
       /\ Goes(t, "search")
       /\ UNCHANGED <<saved, world, mine, history>>

\* The request was completed before: its result is returned, no call is made.
ClaimReplays(t) ==
    /\ pc[t] = "claim"
    /\ ops[mine[t].bucket].state = "completed"
    /\ Goes(t, "returned")
    /\ UNCHANGED <<durable, world, mine, history>>

\* Not ready, in progress, or to be reconciled by hand; or the provider's own
\* preflight failed.
ClaimRefused(t) ==
    /\ pc[t] = "claim"
    /\ ops[mine[t].bucket].state # "completed"
    /\ Goes(t, "threw")
    /\ UNCHANGED <<durable, world, mine, history>>

\* The searches, and at most one lookup: Apollo charges what it charges, and
\* its answer names the charge or nothing.
Discover(t, attempts, charge, named) ==
    LET b == mine[t].bucket
    IN /\ pc[t] = "search"
       /\ charge <= attempts
       /\ attempts = 0 => named
       /\ account' = [account EXCEPT !.used = @ + charge]
       /\ mine' = [mine EXCEPT ![t].attempts = attempts,
                               ![t].observed = IF named THEN charge ELSE -1]
       /\ calls' = [calls EXCEPT ![b] = @ + 1]
       /\ charged' = [charged EXCEPT ![b] = @ + charge]
       /\ Goes(t, "answered")
       /\ UNCHANGED <<durable, outside, protected, days>>

Finalized(t, state, evidence) ==
    ops' = [ops EXCEPT ![mine[t].bucket] =
               [@ EXCEPT !.state = state, !.attempts = mine[t].attempts,
                         !.observed = mine[t].observed, !.evidence = evidence]]

\* store.complete; what it imported is what the inspection will judge.
Complete(t, evidence) ==
    /\ pc[t] = "answered"
    /\ (evidence = "none") <=> (mine[t].attempts = 0)
    /\ Finalized(t, "completed", evidence)
    /\ Goes(t, "returned")
    /\ UNCHANGED <<saved, world, mine, history>>

\* store.fail, with the accounting of the failure.
Fail(t) ==
    /\ pc[t] = "answered"
    /\ Finalized(t, "failed", "none")
    /\ Goes(t, "threw")
    /\ UNCHANGED <<saved, world, mine, history>>

\* After the refresh the session is read again, before the usage call.
ReadAgain(t) ==
    /\ \/ pc[t] = "returned" /\ Goes(t, "after")
       \/ pc[t] = "threw" /\ Goes(t, "afterFailure")
    /\ mine' = [mine EXCEPT ![t].state = saved]
    /\ UNCHANGED <<durable, world, history>>

RecordOutcome(t) ==
    /\ pc[t] = "after"
    /\ saved' = WithOutcome(mine[t].state, mine[t].bucket, mine[t].usedBefore, account.used)
    /\ Ends(t)
    /\ UNCHANGED <<ops, world, history>>

RecordFailure(t) ==
    /\ pc[t] = "afterFailure"
    /\ saved' = Stop(mine[t].state, "failed")
    /\ Ends(t)
    /\ UNCHANGED <<ops, world, history>>

(***************************************************************************)
(* The phase "reassess": no call, judged from the stored evidence.         *)
(***************************************************************************)
ReassessStoppedSession(t) ==
    /\ pc[t] = "idle"
    /\ saved.outcomes # <<>>
    /\ saved' = Reassessed(saved)
    /\ UNCHANGED <<ops, world, pc, mine, history>>

\* The usage endpoint fails, the preflight after it refuses, or the operator
\* interrupts: the script ends where it waits, having written nothing.
Ended(t) ==
    /\ pc[t] # "idle"
    /\ Ends(t)
    /\ UNCHANGED <<durable, world, history>>

-----------------------------------------------------------------------------
(***************************************************************************)
(* The surroundings.                                                       *)
(***************************************************************************)
OutsideUse ==
    /\ outside < MaxOutside
    /\ outside' = outside + 1
    /\ account' = [account EXCEPT !.used = @ + 1]
    /\ UNCHANGED <<durable, protected, days, pc, mine, history>>

NewCycle ==
    /\ account.cycle < MaxCycles
    /\ account' = [cycle |-> account.cycle + 1, used |-> 0]
    /\ UNCHANGED <<durable, outside, protected, days, pc, mine, history>>

ProtectedWrite ==
    /\ protected < MaxWrites
    /\ protected' = protected + 1
    /\ UNCHANGED <<durable, account, outside, days, pc, mine, history>>

Midnight ==
    /\ days < MaxDays
    /\ days' = days + 1
    /\ UNCHANGED <<durable, account, outside, protected, pc, mine, history>>

Next ==
    \/ \E t \in Terminals :
        \/ Baseline(t) \/ BaselineMeasured(t)
        \/ \E b \in Buckets : ValidateBucket(t, b)
        \/ UsageChangedOutside(t) \/ UsageConfirmed(t)
        \/ Claim(t) \/ ClaimReplays(t) \/ ClaimRefused(t)
        \/ \E attempts, charge \in Credits, named \in BOOLEAN : Discover(t, attempts, charge, named)
        \/ \E evidence \in {"none", "clean", "faulty"} : Complete(t, evidence)
        \/ Fail(t) \/ ReadAgain(t) \/ RecordOutcome(t) \/ RecordFailure(t)
        \/ ReassessStoppedSession(t) \/ Ended(t)
    \/ OutsideUse \/ NewCycle \/ ProtectedWrite \/ Midnight

Spec == Init /\ [][Next]_vars

-----------------------------------------------------------------------------
(***************************************************************************)
(* Properties.                                                             *)
(***************************************************************************)
Validated == {saved.outcomes[i].bucket : i \in DOMAIN saved.outcomes}

\* However often the operator interrupts, starts over, reassesses or repeats
\* a phase, the provider is run at most once for each bucket: the operation
\* of the request id is never claimed twice, not even after a failure.
OneCallPerBucket == \A b \in Buckets : calls[b] <= 1

\* A lookup starts only on a settled session: every earlier bucket has its
\* outcome, at its place, and its operation completed with evidence nothing
\* contradicts.
LookupsNeedASettledSession ==
    [][\A b \in Buckets :
          ops[b].state = "none" /\ ops'[b].state = "authorized" =>
             /\ saved.stopped = "no"
             /\ Validated = 1 .. (b - 1)
             /\ \A earlier \in 1 .. (b - 1) :
                    ops[earlier].state = "completed" /\ ops[earlier].evidence # "faulty"]_vars

\* When every answer of a session that is not stopped named its consumption,
\* the account's use is that of the validated buckets and of nobody else: a
\* credit used by others, before, between or during the lookups, and a credit
\* of a lookup whose outcome was never written, cannot pass unnoticed as long
\* as the billing cycle is the one of the baseline.
UseIsExplained ==
    /\ saved.stopped = "no"
    /\ account.cycle = saved.baseline.cycle
    /\ \A b \in Validated : ops[b].observed # -1
    => Prior(saved) - saved.baseline.used
          = Total([b \in Buckets |-> IF b \in Validated THEN charged[b] ELSE 0])
=============================================================================
