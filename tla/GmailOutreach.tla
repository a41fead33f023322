---------------------------- MODULE GmailOutreach ----------------------------
(***************************************************************************)
(* The outreach workflow of NetworkPilot, from an approved e-mail snapshot *)
(* to the recorded contact.                                                *)
(*                                                                         *)
(* Durable state is the operational SQLite store: one row of               *)
(* gmail_draft_operations per approved snapshot together with its send     *)
(* audit and its reconciliation, the manual outreach records, suppressions *)
(* and draft dispositions.  Every repository method is one IMMEDIATE       *)
(* transaction, hence one step.                                            *)
(*                                                                         *)
(* Server actions are asynchronous functions: they read the queue, decide, *)
(* write, wait for Gmail, write again.  Each segment between two awaits    *)
(* (or two transactions) is a step of a request slot r, so that requests   *)
(* of several tabs, the operator's command-line tools and a process crash  *)
(* interleave with it.  Gmail is external: it acts on a call at some time  *)
(* of its own, and its answer may be lost.                                 *)
(***************************************************************************)
EXTENDS Naturals, FiniteSets

CONSTANTS
  Snapshots,      \* immutable e-mail contents; the id is a hash of the content
  Candidates,     \* people
  CandidateOf,    \* the recipient of a snapshot
  BaseSnapshot,   \* the snapshot the queue renders for a person with no live operation
  Resolvable,     \* snapshots whose person and company resolveManualDraft finds
  Requests,       \* slots for concurrent server-action invocations
  NoSnapshot,     \* target of an idle slot
  WritesMayFail,  \* whether the local commit after a successful create may throw
  MaxCrashes      \* bound on the process crashes of a behaviour

ASSUME SnapshotAssumption ==
  /\ CandidateOf \in [Snapshots -> Candidates]
  /\ BaseSnapshot \in [Candidates -> Snapshots]
  /\ \A c \in Candidates : CandidateOf[BaseSnapshot[c]] = c
  /\ Resolvable \subseteq Snapshots
  /\ NoSnapshot \notin Snapshots
  /\ WritesMayFail \in BOOLEAN
  /\ MaxCrashes \in Nat

VARIABLES
  op,           \* gmail_draft_operations, gmail_send_audit, gmail_send_reconciliations
  newer,        \* <<s, t>>: the row of s was updated after the row of t
  contact,      \* manual_outreach_records
  suppressed,   \* candidate_suppression_entries
  disposition,  \* draft_dispositions for the draft the queue displays
  req,          \* the server actions in progress
  gmail,        \* what Gmail holds for each snapshot (external)
  stray,        \* calls still on the wire after their request gave up (external)
  crashes

store   == <<op, newer, contact, suppressed, disposition>>
outside == <<gmail, stray>>
vars    == <<op, newer, contact, suppressed, disposition, req, gmail, stray, crashes>>

-----------------------------------------------------------------------------
DraftStates == {"absent", "approved-for-gmail-draft", "creating-gmail-draft",
                "gmail-draft-created", "reconciliation-required", "failed"}
SendStates  == {"not-sent", "sending", "sent", "send-status-uncertain"}
Sources     == {"operator", "networkpilot-gmail-send"}
\* "replied" stands for the four outcomes that neither suppress nor end anything:
\* replied, meeting-scheduled, declined and no-response.
Outcomes    == {"awaiting-response", "replied", "opt-out", "hard-bounce"}
Goals       == {"approve", "create", "send"}
Phases      == {"idle", "approve-load", "approve-edited-load", "approve-write",
                "create-load", "create-begin", "create-call",
                "send-load", "send-begin", "send-call", "record"}

\* Gmail drafts of one snapshot are counted up to DraftBound: two is already one too
\* many.
DraftBound == 2

Operation == [draft : DraftStates, send : SendStates,
              reconciled : {"none", "sent", "not-sent"},
              started : Nat, confirmed : Nat, uncertain : Nat]
Contact   == [source : Sources, outcome : Outcomes]
             \cup [source : {"none"}, outcome : {"none"}]
Request   == [pc : Phases, target : Snapshots \cup {NoSnapshot},
              shown : Snapshots \cup {NoSnapshot}, goal : Goals,
              call : {"none", "pending", "accepted", "rejected"}]
Mailbox   == [mail : {"absent", "draft", "sent", "sent-by-hand"}, drafts : 0..DraftBound]

NoOperation == [draft |-> "absent", send |-> "not-sent", reconciled |-> "none",
                started |-> 0, confirmed |-> 0, uncertain |-> 0]
NoContact   == [source |-> "none", outcome |-> "none"]
Idle        == [pc |-> "idle", target |-> NoSnapshot, shown |-> NoSnapshot,
                goal |-> "approve", call |-> "none"]

TypeOK ==
  /\ op \in [Snapshots -> Operation]
  /\ newer \in SUBSET (Snapshots \X Snapshots)
  /\ contact \in [Snapshots -> Contact]
  /\ suppressed \in SUBSET Candidates
  /\ disposition \in [Candidates -> {"none", "skipped", "permanently-excluded"}]
  /\ req \in [Requests -> Request]
  /\ gmail \in [Snapshots -> Mailbox]
  /\ stray \in SUBSET ({"create", "send"} \X Snapshots)
  /\ crashes \in Nat

Init ==
  /\ op = [s \in Snapshots |-> NoOperation]
  /\ newer = {}
  /\ contact = [s \in Snapshots |-> NoContact]
  /\ suppressed = {}
  /\ disposition = [c \in Candidates |-> "none"]
  /\ req = [r \in Requests |-> Idle]
  /\ gmail = [s \in Snapshots |-> [mail |-> "absent", drafts |-> 0]]
  /\ stray = {}
  /\ crashes = 0

-----------------------------------------------------------------------------
(* The draft queue, as loadQueueReviews projects it.                        *)

SnapshotsOf(c) == {s \in Snapshots : CandidateOf[s] = c}
Approved(s)    == op[s].draft # "absent"
Contacted(s)   == contact[s].source # "none"

\* The operations that can stand for c in the queue: a sent one is skipped.
Live(c) == {s \in SnapshotsOf(c) : Approved(s) /\ op[s].send # "sent"}

\* The most recently updated live operation replaces the rendered draft.
ShowsOperation(c, s) ==
  /\ s \in Live(c)
  /\ \A t \in Live(c) \ {s} : <<s, t>> \in newer

Shows(c, s) == \/ Live(c) = {} /\ s = BaseSnapshot[c]
               \/ ShowsOperation(c, s)

\* mutableDraftBlockReason: suppression and previous contact.  The remaining
\* reasons (company cooldown, consent of the source, employer trust, bucket
\* review) depend on other components: Refuse may happen at any load for them.
Blocked(c) == \/ c \in suppressed
              \/ \E s \in SnapshotsOf(c) : Contacted(s)

InQueue(c) == disposition[c] = "none"

-----------------------------------------------------------------------------
(* Steps of a request.                                                      *)

\* Writing row s makes its updated_at_utc the latest.
Touch(s) == newer' = (newer \ {<<t, s>> : t \in Snapshots})
                     \cup {<<s, t>> : t \in Snapshots \ {s}}

Enter(r, phase) == req' = [req EXCEPT ![r].pc = phase, ![r].call = "none"]
Finish(r)       == req' = [req EXCEPT ![r] = Idle]
Dispatch(r, phase) == req' = [req EXCEPT ![r].pc = phase, ![r].call = "pending"]

Begin(r, phase, shown, target, goal) ==
  /\ req[r].pc = "idle"
  /\ req' = [req EXCEPT ![r] = [pc |-> phase, target |-> target, shown |-> shown,
                                goal |-> goal, call |-> "none"]]
  /\ UNCHANGED <<store, outside, crashes>>

\* approveDraft: an unedited draft, with or without a resume attached.
StartApproveDraft(r, shown, target) ==
  Begin(r, "approve-load", shown, target, "approve")

\* approveEditedDraft and approveAndCreateGmailDraft.
StartApproveEdited(r, shown, target, goal) ==
  /\ goal \in {"approve", "create"}
  /\ Begin(r, "approve-edited-load", shown, target, goal)

StartCreateGmailDraft(r, s) == Begin(r, "create-load", s, s, "create")
StartSendGmailDraft(r, s)   == Begin(r, "send-load", s, s, "send")

\* sendDraft: confirmAndSendDraft looks the shown snapshot up first.  An existing
\* operation must hold exactly the submitted content.
StartConfirmAndSend(r, shown, target) ==
  \/ ~Approved(shown) /\ Begin(r, "approve-edited-load", shown, target, "send")
  \/ /\ Approved(shown) /\ target = shown
     /\ Begin(r, IF op[shown].draft = "gmail-draft-created" THEN "send-load"
                                                            ELSE "create-load",
              shown, shown, "send")

\* approveCommandCenterDraft and approveEditedCommandCenterDraft up to the write:
\* the reviewed draft is still the one shown and nothing blocks it.
ApproveLoad(r) ==
  LET s == req[r].shown
      c == CandidateOf[s]
  IN  /\ req[r].pc \in {"approve-load", "approve-edited-load"}
      /\ CandidateOf[req[r].target] = c
      /\ InQueue(c) /\ ~Blocked(c)
      /\ Shows(c, s)
      /\ ShowsOperation(c, s) =>
           IF req[r].pc = "approve-edited-load" THEN op[s].draft = "failed"
                                                ELSE op[s].draft # "gmail-draft-created"
      /\ Enter(r, "approve-write")
      /\ UNCHANGED <<store, outside, crashes>>

\* approveForGmailDraft: an operation with this content is reused, whatever its state.
ApproveWrite(r) ==
  LET s == req[r].target IN
  /\ req[r].pc = "approve-write"
  /\ IF Approved(s)
     THEN UNCHANGED <<op, newer>>
     ELSE /\ op' = [op EXCEPT ![s].draft = "approved-for-gmail-draft"]
          /\ Touch(s)
  /\ IF req[r].goal = "approve" THEN Finish(r)
     ELSE IF /\ req[r].goal = "send"
             /\ op[s].draft = "gmail-draft-created"
     THEN Enter(r, "send-load")
     ELSE Enter(r, "create-load")
  /\ UNCHANGED <<contact, suppressed, disposition, outside, crashes>>

\* createCommandCenterGmailDraft up to createApprovedGmailDraft.  The reason
\* "existing-gmail-draft" does not stop it.
CreateLoad(r) ==
  LET s == req[r].target
      c == CandidateOf[s]
  IN  /\ req[r].pc = "create-load"
      /\ InQueue(c) /\ ~Blocked(c)
      /\ Shows(c, s)
      /\ Approved(s)
      /\ Enter(r, "create-begin")
      /\ UNCHANGED <<store, outside, crashes>>

AfterCreate(r) == IF req[r].goal = "send" THEN Enter(r, "send-load") ELSE Finish(r)

\* beginGmailDraftOperation accepts a first creation and the retry of a failed one.
MayCreateAfterUnknown(s) == \* mutant: an unknown outcome is retried like a failure
  op[s].draft \in {"approved-for-gmail-draft", "failed", "reconciliation-required"}
MayCreate(s) == op[s].draft \in {"approved-for-gmail-draft", "failed"}

\* createApprovedGmailDraft up to the provider call.
CreateBegin(r) ==
  LET s == req[r].target IN
  /\ req[r].pc = "create-begin"
  /\ \/ /\ op[s].draft = "gmail-draft-created"
        /\ AfterCreate(r)
        /\ UNCHANGED <<op, newer>>
     \/ /\ op[s].draft # "gmail-draft-created" /\ ~MayCreate(s)
        /\ Finish(r)
        /\ UNCHANGED <<op, newer>>
     \/ /\ MayCreate(s)
        /\ op' = [op EXCEPT ![s].draft = "creating-gmail-draft"]
        /\ Touch(s)
        /\ Dispatch(r, "create-call")
  /\ UNCHANGED <<contact, suppressed, disposition, outside, crashes>>

\* The mailbox after one more draft of the snapshot was created.
WithDraft(box) == [mail |-> "draft",
                   drafts |-> IF box.drafts < DraftBound THEN box.drafts + 1
                                                         ELSE DraftBound]

\* Gmail acts on a create call.
GmailCreatesDraft(r) ==
  LET s == req[r].target IN
  /\ req[r].pc = "create-call" /\ req[r].call = "pending"
  /\ req' = [req EXCEPT ![r].call = "accepted"]
  /\ gmail' = [gmail EXCEPT ![s] = WithDraft(@)]
  /\ UNCHANGED <<store, stray, crashes>>

\* The answer names the draft and completeGmailDraftOperation commits.
CreateCompletes(r) ==
  LET s == req[r].target IN
  /\ req[r].pc = "create-call" /\ req[r].call = "accepted"
  /\ IF op[s].draft = "creating-gmail-draft"
     THEN /\ op' = [op EXCEPT ![s].draft = "gmail-draft-created"]
          /\ Touch(s)
          /\ AfterCreate(r)
     ELSE Finish(r) /\ UNCHANGED <<op, newer>>
  /\ UNCHANGED <<contact, suppressed, disposition, outside, crashes>>

\* The catch block: only a provider error marked outcomeUnknown leads to
\* reconciliation-required; any other exception, one thrown by
\* completeGmailDraftOperation included, is recorded as a definitive failure.
CreateFails(r, unknown) ==
  LET s == req[r].target IN
  /\ req[r].pc = "create-call"
  /\ unknown \/ req[r].call = "pending" \/ WritesMayFail
  /\ IF op[s].draft = "creating-gmail-draft"
     THEN /\ op' = [op EXCEPT ![s].draft =
                      IF unknown THEN "reconciliation-required" ELSE "failed"]
          /\ Touch(s)
     ELSE UNCHANGED <<op, newer>>
  /\ stray' = IF unknown /\ req[r].call = "pending"
              THEN stray \cup {<<"create", s>>} ELSE stray
  /\ Finish(r)
  /\ UNCHANGED <<contact, suppressed, disposition, gmail, crashes>>

\* gmailSendBlockReason on the draft on display.
SendableIgnoringBlock(s) == \* mutant: the gate forgets suppression and earlier contact
  LET c == CandidateOf[s] IN
  /\ op[s].send = "not-sent" /\ op[s].draft = "gmail-draft-created"
  /\ ShowsOperation(c, s)
  /\ InQueue(c)
Sendable(s) ==
  LET c == CandidateOf[s] IN
  /\ op[s].send = "not-sent" /\ op[s].draft = "gmail-draft-created"
  /\ ShowsOperation(c, s)
  /\ InQueue(c) /\ ~Blocked(c)

\* sendCommandCenterGmailDraft up to the gate: a send already recorded only needs
\* its contact record.
SendLoad(r) ==
  LET s == req[r].target
  IN  /\ req[r].pc = "send-load"
      /\ \/ op[s].send = "sent" /\ Enter(r, "record")
         \/ Sendable(s) /\ Enter(r, "send-begin")
      /\ UNCHANGED <<store, outside, crashes>>

\* beginGmailSend refuses a send in progress and one whose outcome is uncertain.
MayStartSend(s) == op[s].send = "not-sent"

SendBeginWaiting(r) == \* mutant: waits for the uncertain send to be settled
  LET s == req[r].target IN
  /\ req[r].pc = "send-begin"
  /\ \/ /\ op[s].send = "sent"
        /\ Enter(r, "record")
        /\ UNCHANGED <<op, newer>>
     \/ /\ MayStartSend(s)
        /\ op' = [op EXCEPT ![s].send = "sending", ![s].started = @ + 1]
        /\ Touch(s)
        /\ Dispatch(r, "send-call")
  /\ UNCHANGED <<contact, suppressed, disposition, outside, crashes>>

\* sendApprovedGmailDraft up to the provider call; beginGmailSend writes the state
\* and its audit event together.
SendBegin(r) ==
  LET s == req[r].target IN
  /\ req[r].pc = "send-begin"
  /\ \/ /\ op[s].send = "sent"
        /\ Enter(r, "record")
        /\ UNCHANGED <<op, newer>>
     \/ /\ op[s].send # "sent" /\ ~MayStartSend(s)
        /\ Finish(r)
        /\ UNCHANGED <<op, newer>>
     \/ /\ MayStartSend(s)
        /\ op' = [op EXCEPT ![s].send = "sending", ![s].started = @ + 1]
        /\ Touch(s)
        /\ Dispatch(r, "send-call")
  /\ UNCHANGED <<contact, suppressed, disposition, outside, crashes>>

\* Gmail acts on drafts.send: it delivers the draft and removes it, or refuses.
GmailSends(r) ==
  LET s == req[r].target IN
  /\ req[r].pc = "send-call" /\ req[r].call = "pending"
  /\ \/ /\ gmail[s].mail = "draft"
        /\ gmail' = [gmail EXCEPT ![s].mail = "sent"]
        /\ req' = [req EXCEPT ![r].call = "accepted"]
     \/ /\ req' = [req EXCEPT ![r].call = "rejected"]
        /\ UNCHANGED gmail
  /\ UNCHANGED <<store, stray, crashes>>

\* completeGmailSend and markGmailSendUncertain throw once the row has left "sending".
AlwaysAwaitsAnswer(s) == TRUE \* mutant: a late answer is recorded over a reconciliation
AwaitsAnswer(s) == op[s].send = "sending"

SendCompletesUnrecorded(r) == \* mutant: the contact record is left to a later visit
  LET s == req[r].target IN
  /\ req[r].pc = "send-call" /\ req[r].call = "accepted"
  /\ IF AwaitsAnswer(s)
     THEN /\ op' = [op EXCEPT ![s].send = "sent", ![s].confirmed = @ + 1]
          /\ Touch(s)
     ELSE UNCHANGED <<op, newer>>
  /\ Finish(r)
  /\ UNCHANGED <<contact, suppressed, disposition, outside, crashes>>

\* completeGmailSend; a refused answer ends the request.
SendCompletes(r) ==
  LET s == req[r].target IN
  /\ req[r].pc = "send-call" /\ req[r].call = "accepted"
  /\ IF AwaitsAnswer(s)
     THEN /\ op' = [op EXCEPT ![s].send = "sent", ![s].confirmed = @ + 1]
          /\ Touch(s)
          /\ Enter(r, "record")
     ELSE Finish(r) /\ UNCHANGED <<op, newer>>
  /\ UNCHANGED <<contact, suppressed, disposition, outside, crashes>>

SendUnresolvedAsNotSent(r) == \* mutant: an exception returns the draft to not-sent
  LET s == req[r].target IN
  /\ req[r].pc = "send-call"
  /\ IF AwaitsAnswer(s)
     THEN /\ op' = [op EXCEPT ![s].send = "not-sent", ![s].uncertain = @ + 1]
          /\ Touch(s)
     ELSE UNCHANGED <<op, newer>>
  /\ stray' = IF req[r].call = "pending" THEN stray \cup {<<"send", s>>} ELSE stray
  /\ Finish(r)
  /\ UNCHANGED <<contact, suppressed, disposition, gmail, crashes>>

\* Every exception of the send, a definitive refusal included, leaves the outcome
\* to reconciliation.  A call that timed out may still be on the wire.
SendUnresolved(r) ==
  LET s == req[r].target IN
  /\ req[r].pc = "send-call"
  /\ IF AwaitsAnswer(s)
     THEN /\ op' = [op EXCEPT ![s].send = "send-status-uncertain",
                              ![s].uncertain = @ + 1]
          /\ Touch(s)
     ELSE UNCHANGED <<op, newer>>
  /\ stray' = IF req[r].call = "pending" THEN stray \cup {<<"send", s>>} ELSE stray
  /\ Finish(r)
  /\ UNCHANGED <<contact, suppressed, disposition, gmail, crashes>>

\* createManualOutreach of a record in its first state.
CanRecord(s) == op[s].draft = "gmail-draft-created" /\ s \in Resolvable
Record(s, source, outcome) ==
  contact' = [contact EXCEPT ![s] = [source |-> source, outcome |-> outcome]]

\* sendAndRecordCommandCenterDraft after the send: confirmOperatorManualSend.
RecordContact(r) ==
  LET s == req[r].target IN
  /\ req[r].pc = "record"
  /\ IF ~Contacted(s) /\ CanRecord(s)
     THEN Record(s, "networkpilot-gmail-send", "awaiting-response")
     ELSE UNCHANGED contact
  /\ Finish(r)
  /\ UNCHANGED <<op, newer, suppressed, disposition, outside, crashes>>

\* A load stops the action: the draft is stale, blocked or not in the queue, or
\* Gmail is not ready.
Refuse(r) ==
  /\ \/ req[r].pc \in {"approve-load", "approve-edited-load", "create-load"}
     \/ req[r].pc = "send-load" /\ op[req[r].target].send # "sent"
  /\ Finish(r)
  /\ UNCHANGED <<store, outside, crashes>>

-----------------------------------------------------------------------------
(* The operator's synchronous commands: one transaction each.               *)

\* confirmAlreadySent.
ConfirmAlreadySent(s) ==
  /\ ~Contacted(s) /\ CanRecord(s)
  /\ Record(s, "operator", "awaiting-response")
  /\ UNCHANGED <<op, newer, suppressed, disposition, req, outside, crashes>>

MayReport(s, outcome) == Contacted(s) /\ contact[s].outcome \notin {outcome, "hard-bounce"}

\* recordOutcome: any outcome but a hard bounce, which is terminal.
ReportOutcome(s, outcome) ==
  /\ outcome \in Outcomes \ {"hard-bounce"}
  /\ MayReport(s, outcome)
  /\ contact' = [contact EXCEPT ![s].outcome = outcome]
  /\ suppressed' = IF outcome = "opt-out" THEN suppressed \cup {CandidateOf[s]}
                                          ELSE suppressed
  /\ UNCHANGED <<op, newer, disposition, req, outside, crashes>>

ReportHardBounceOnly(s) == \* mutant: the suppression is left to another transaction
  /\ \/ contact[s].outcome = "awaiting-response"
     \/ ~Contacted(s) /\ CanRecord(s)
  /\ Record(s, IF Contacted(s) THEN contact[s].source ELSE "operator", "hard-bounce")
  /\ UNCHANGED <<op, newer, suppressed, disposition, req, outside, crashes>>

\* reportDeliveryFailure: confirms the contact first when there is none.
ReportHardBounce(s) ==
  /\ \/ contact[s].outcome = "awaiting-response"
     \/ ~Contacted(s) /\ CanRecord(s)
  /\ Record(s, IF Contacted(s) THEN contact[s].source ELSE "operator", "hard-bounce")
  /\ suppressed' = suppressed \cup {CandidateOf[s]}
  /\ UNCHANGED <<op, newer, disposition, req, outside, crashes>>

\* The reconciliation row is keyed by the operation: a second one returns "existing"
\* or throws a conflict, and changes nothing.
MayReconcile(s) == /\ op[s].reconciled = "none"
                   /\ op[s].send \in {"sending", "send-status-uncertain"}


\* reconcileGmailSendStatus.
ReconcileSend(s, outcome) ==
  /\ MayReconcile(s)
  /\ \/ outcome = "not-sent" /\ UNCHANGED contact
     \/ /\ outcome = "sent"
        /\ IF Contacted(s) THEN UNCHANGED contact
           ELSE CanRecord(s) /\ Record(s, "operator", "awaiting-response")
  /\ op' = [op EXCEPT ![s].send = outcome, ![s].reconciled = outcome]
  /\ Touch(s)
  /\ UNCHANGED <<suppressed, disposition, req, outside, crashes>>

\* recordDraftDisposition of the draft on display.
RecordDisposition(c, permanent) ==
  /\ disposition[c] = "none"
  /\ \E s \in SnapshotsOf(c) :
       /\ Shows(c, s)
       /\ Blocked(c) => ShowsOperation(c, s)
       /\ ~Contacted(s)
       /\ ShowsOperation(c, s) => op[s].send = "not-sent"
  /\ disposition' = [disposition EXCEPT ![c] =
                       IF permanent THEN "permanently-excluded" ELSE "skipped"]
  /\ suppressed' = IF permanent THEN suppressed \cup {c} ELSE suppressed
  /\ UNCHANGED <<op, newer, contact, req, outside, crashes>>

\* A generation of a later campaign date displays the person again.
SkipExpires(c) ==
  /\ disposition[c] = "skipped"
  /\ disposition' = [disposition EXCEPT ![c] = "none"]
  /\ UNCHANGED <<op, newer, contact, suppressed, req, outside, crashes>>

-----------------------------------------------------------------------------
(* The world outside the process.                                           *)

OperatorSendsInGmail(s) ==
  /\ gmail[s].mail = "draft"
  /\ gmail' = [gmail EXCEPT ![s].mail = "sent-by-hand"]
  /\ UNCHANGED <<store, req, stray, crashes>>

StrayArrives(kind, s) ==
  /\ <<kind, s>> \in stray
  /\ stray' = stray \ {<<kind, s>>}
  /\ \/ kind = "create"
        /\ gmail' = [gmail EXCEPT ![s] = WithDraft(@)]
     \/ kind = "send" /\ gmail[s].mail = "draft"
        /\ gmail' = [gmail EXCEPT ![s].mail = "sent"]
     \/ UNCHANGED gmail
  /\ UNCHANGED <<store, req, crashes>>

\* The process dies.  Calls Gmail has not acted on may still be on the wire.
Crash ==
  /\ crashes < MaxCrashes
  /\ crashes' = crashes + 1
  /\ req' = [r \in Requests |-> Idle]
  /\ stray' = stray
       \cup {<<"create", s>> : s \in {req[r].target : r \in
               {q \in Requests : req[q].pc = "create-call" /\ req[q].call = "pending"}}}
       \cup {<<"send", s>> : s \in {req[r].target : r \in
               {q \in Requests : req[q].pc = "send-call" /\ req[q].call = "pending"}}}
  /\ UNCHANGED <<store, gmail>>

-----------------------------------------------------------------------------
Start(r) ==
  \E s, t \in Snapshots :
    \/ StartApproveDraft(r, s, t)
    \/ \E g \in Goals : StartApproveEdited(r, s, t, g)
    \/ StartCreateGmailDraft(r, s)
    \/ StartSendGmailDraft(r, s)
    \/ StartConfirmAndSend(r, s, t)

\* What the process does on its own once an action has begun.
Advance(r) ==
  \/ ApproveLoad(r) \/ ApproveWrite(r) \/ CreateLoad(r) \/ CreateBegin(r)
  \/ CreateCompletes(r) \/ \E unknown \in BOOLEAN : CreateFails(r, unknown)
  \/ SendLoad(r) \/ SendBegin(r) \/ SendCompletes(r) \/ SendUnresolved(r)
  \/ RecordContact(r) \/ Refuse(r)

Operator ==
  \/ \E s \in Snapshots :
       \/ ConfirmAlreadySent(s) \/ ReportHardBounce(s)
       \/ \E o \in Outcomes : ReportOutcome(s, o)
       \/ \E o \in {"sent", "not-sent"} : ReconcileSend(s, o)
  \/ \E c \in Candidates :
       \/ \E permanent \in BOOLEAN : RecordDisposition(c, permanent)
       \/ SkipExpires(c)

World ==
  \/ \E r \in Requests : GmailCreatesDraft(r) \/ GmailSends(r)
  \/ \E s \in Snapshots :
       OperatorSendsInGmail(s) \/ \E k \in {"create", "send"} : StrayArrives(k, s)

Next ==
  \/ \E r \in Requests : Start(r) \/ Advance(r)
  \/ Operator
  \/ World
  \/ Crash

\* Every await of a server action ends: the HTTP calls carry a timeout.  Nothing
\* obliges the operator or Gmail to act, or the process to crash.
Spec == Init /\ [][Next]_vars /\ \A r \in Requests : WF_vars(Advance(r))

-----------------------------------------------------------------------------
(* Properties.                                                              *)

\* An operation is posted to drafts.send at most once, and once more only after the
\* operator has recorded that Gmail did not send it, however the requests of several
\* tabs, the reconciliation and crashes interleave (beginGmailSend and the one
\* reconciliation per operation).
SendCallsBounded ==
  \A s \in Snapshots :
    op[s].started <= IF op[s].reconciled = "not-sent" THEN 2 ELSE 1

\* A send is recorded as sent on exactly one piece of evidence: Gmail's confirmation
\* or the operator's reconciliation, never both and never neither, although a late
\* answer of Gmail races the reconciliation of the same call.
OneProvenance ==
  \A s \in Snapshots :
    /\ op[s].confirmed <= 1
    /\ op[s].send = "sent" <=> (op[s].confirmed = 1 \/ op[s].reconciled = "sent")
    /\ ~(op[s].confirmed = 1 /\ op[s].reconciled = "sent")

\* A contact record that claims a Gmail-confirmed send has that confirmation in the
\* audit of its operation: reconciling a send never fabricates it.
GmailEvidence ==
  \A s \in Snapshots :
    contact[s].source = "networkpilot-gmail-send" => op[s].confirmed = 1

\* A message that NetworkPilot's own call delivered never looks unsent, unless the
\* operator recorded that it was not sent (while that call was still on the wire).
DeliveryNotForgotten ==
  \A s \in Snapshots :
    gmail[s].mail = "sent" /\ op[s].send = "not-sent" => op[s].reconciled = "not-sent"

\* The send audit accounts for every started call: each is confirmed, uncertain, in
\* progress, or was settled by the single reconciliation before it ended.
AuditBalances ==
  \A s \in Snapshots :
    LET settled == op[s].confirmed + op[s].uncertain
                   + (IF op[s].send = "sending" THEN 1 ELSE 0)
    IN  /\ settled <= op[s].started
        /\ op[s].started <= settled + (IF op[s].reconciled = "none" THEN 0 ELSE 1)

\* Nothing is sent, and no contact recorded, for an operation whose Gmail draft was
\* not confirmed; and the creation of a draft is never restarted under either.
SendNeedsCreatedDraft ==
  \A s \in Snapshots :
    Contacted(s) \/ op[s].send # "not-sent" => op[s].draft = "gmail-draft-created"

\* Retries of a failed creation never leave two drafts in the mailbox.
AtMostOneGmailDraft == \A s \in Snapshots : gmail[s].drafts <= 1

\* An opt-out or a hard bounce suppresses the person in the same transaction, so the
\* ledger never shows one for a person the gates would let through.
OutcomeSuppresses ==
  \A s \in Snapshots :
    contact[s].outcome \in {"opt-out", "hard-bounce"} => CandidateOf[s] \in suppressed

\* The contact ledger is never rewritten: a record keeps its source, and a hard
\* bounce is terminal, whatever is reported, reconciled or sent afterwards.
LedgerIsKept ==
  [][\A s \in Snapshots : Contacted(s) =>
        /\ contact'[s].source = contact[s].source
        /\ contact[s].outcome = "hard-bounce" => contact'[s].outcome = "hard-bounce"]_vars

\* A request between its gate and beginGmailSend.
PastGate(c) == \E r \in Requests :
                 req[r].pc = "send-begin" /\ CandidateOf[req[r].target] = c

\* Once a person is suppressed or contacted and no request has already passed its
\* gate, no send to that person starts again: by no other snapshot, retry, tab,
\* late outcome or restart.
Excluded(c) == Blocked(c) /\ ~PastGate(c)
ExclusionIsFinal ==
  [][\A c \in Candidates : Excluded(c) =>
        /\ Excluded(c)'
        /\ \A s \in SnapshotsOf(c) : op'[s].started = op[s].started]_vars

\* Every server action ends: no lost answer, conflict or late reconciliation leaves
\* one waiting.
RequestsFinish == \A r \in Requests : req[r].pc # "idle" ~> req[r].pc = "idle"

\* While the process does not crash, a confirmed send gets its contact record although
\* the two are separate transactions.
SentIsRecorded == \A s \in Resolvable : op[s].send = "sent" ~> Contacted(s)

\* docs/gmail-draft-only.md:53 offers the operator "record sent with the actual
\* timestamp, record not-sent, or leave the state uncertain": an uncertain send can
\* always be settled.
UncertainCanBeSettled ==
  \A s \in Snapshots :
    op[s].send = "send-status-uncertain" => op[s].reconciled = "none"

\* docs/gmail-draft-only.md:39: the application rechecks prior contact immediately
\* before the send, so no send starts to a person whom a send confirmed by Gmail has
\* reached.
NoSendAfterConfirmedSend ==
  [][\A s, t \in Snapshots :
        CandidateOf[s] = CandidateOf[t] /\ op[t].send = "sent"
          => op'[s].started = op[s].started]_vars

-----------------------------------------------------------------------------
(* The workflow keeps the promise of OutreachPromise.                       *)

Promise == INSTANCE OutreachPromise WITH
  Messages    <- Snapshots,
  People      <- Candidates,
  RecipientOf <- CandidateOf,
  outcome     <- [s \in Snapshots |-> op[s].send],
  attempts    <- [s \in Snapshots |-> op[s].started],
  settled     <- {s \in Snapshots : op[s].reconciled # "none"},
  ledger      <- {s \in Snapshots : Contacted(s)},
  closed      <- {c \in Candidates : Excluded(c)}

\* Every step of the server actions, the operator, Gmail and a crash is a step of the
\* promise or leaves it unchanged.
KeepsPromise == Promise!Spec
=============================================================================
