------------------------- MODULE GmailOutreachProofs -------------------------
(***************************************************************************)
(* Proofs about GmailOutreach for every set of snapshots, people and       *)
(* request slots, any number of crashes, and both values of WritesMayFail  *)
(* except where a theorem assumes one.                                     *)
(***************************************************************************)
EXTENDS GmailOutreach, TLAPS

USE DEF MayCreate, Sendable, MayStartSend, AwaitsAnswer, MayReport, MayReconcile

(***************************************************************************)
(* The inductive invariant.  SendCallsBounded is not inductive: whether a  *)
(* call may start depends on how many were started in each send state, so  *)
(* the count is fixed exactly by the state and the reconciliation.         *)
(***************************************************************************)
OneIf(b) == IF b THEN 1 ELSE 0

\* The number of calls is a function of the row.
CallsExact(s) ==
  op[s].started = OneIf(op[s].reconciled = "not-sent") + OneIf(op[s].send # "not-sent")

\* So is the number of confirmations.
ConfirmedExact(s) ==
  op[s].confirmed = OneIf(op[s].send = "sent" /\ op[s].reconciled # "sent")

\* A reconciliation as sent is final and left a contact record.
ReconciledSentIsFinal(s) ==
  op[s].reconciled = "sent" => op[s].send = "sent" /\ Contacted(s)

SettledCalls(s) == op[s].confirmed + op[s].uncertain + OneIf(op[s].send = "sending")

Balance(s) ==
  /\ SettledCalls(s) <= op[s].started
  /\ op[s].started <= SettledCalls(s) + OneIf(op[s].reconciled # "none")

OperationInv ==
  \A s \in Snapshots :
    /\ CallsExact(s) /\ ConfirmedExact(s) /\ ReconciledSentIsFinal(s) /\ Balance(s)
    /\ Contacted(s) \/ op[s].send # "not-sent" => op[s].draft = "gmail-draft-created"
    /\ contact[s].source = "networkpilot-gmail-send" => op[s].confirmed = 1

\* A delivered message, and every call to deliver one, was started.
DeliveryInv ==
  /\ \A s \in Snapshots : gmail[s].mail = "sent" => op[s].started > 0
  /\ \A s \in Snapshots : <<"send", s>> \in stray => op[s].started > 0

\* What a request knows about its row in each phase.
RequestInv ==
  \A r \in Requests :
    /\ req[r].pc # "idle" => req[r].target \in Snapshots /\ req[r].shown \in Snapshots
    /\ req[r].pc = "send-begin" => op[req[r].target].draft = "gmail-draft-created"
    /\ req[r].pc = "send-call" => op[req[r].target].started > 0
    /\ req[r].pc = "record" => op[req[r].target].send = "sent"

IInv == TypeOK /\ OperationInv /\ DeliveryInv /\ RequestInv
-----------------------------------------------------------------------------
(* Type correctness.                                                        *)

LEMMA TypeInit == Init => TypeOK
BY SnapshotAssumption
DEF Init, NoOperation, NoContact, Idle, TypeOK, Operation, Contact, Request, Mailbox, DraftStates, SendStates, Sources, Outcomes, Goals, Phases, DraftBound

\* The three ways a request moves on keep it well formed.
LEMMA RequestMoves ==
  ASSUME req \in [Requests -> Request], NEW r \in Requests,
         \/ Finish(r)
         \/ \E phase \in Phases : Enter(r, phase) \/ Dispatch(r, phase)
  PROVE  req' \in [Requests -> Request]
<1>1. CASE Finish(r)
  <2>1. Idle \in Request
    BY DEF Idle, Request, Phases, Goals
  <2>. QED  BY <1>1, <2>1 DEF Finish
<1>2. ASSUME NEW phase \in Phases, Enter(r, phase) \/ Dispatch(r, phase)
      PROVE  req' \in [Requests -> Request]
  <2>1. PICK call \in {"none", "pending"} :
           req' = [req EXCEPT ![r] = [@ EXCEPT !.pc = phase, !.call = call]]
    BY <1>2 DEF Enter, Dispatch
  <2>2. [req[r] EXCEPT !.pc = phase, !.call = call] \in Request
    BY DEF Request
  <2>. QED  BY <2>1, <2>2
<1>. QED  BY <1>1, <1>2

LEMMA TouchType ==
  ASSUME newer \in SUBSET (Snapshots \X Snapshots), NEW s \in Snapshots, Touch(s)
  PROVE  newer' \in SUBSET (Snapshots \X Snapshots)
BY DEF Touch

\* A row stays well formed when its draft state, its send state and reconciliation, or
\* its send state and one count of the audit change.
LEMMA RowTypes ==
  ASSUME NEW row \in Operation
  PROVE  /\ \A d \in DraftStates : [row EXCEPT !.draft = d] \in Operation
         /\ \A v \in SendStates, w \in {"none", "sent", "not-sent"} :
              [row EXCEPT !.send = v, !.reconciled = w] \in Operation
         /\ \A v \in SendStates :
              /\ [row EXCEPT !.send = v, !.started = @ + 1] \in Operation
              /\ [row EXCEPT !.send = v, !.confirmed = @ + 1] \in Operation
              /\ [row EXCEPT !.send = v, !.uncertain = @ + 1] \in Operation
<1>1. \A d \in DraftStates : [row EXCEPT !.draft = d] \in Operation
  BY DEF Operation
<1>2. \A v \in SendStates, w \in {"none", "sent", "not-sent"} :
        [row EXCEPT !.send = v, !.reconciled = w] \in Operation
  BY DEF Operation
<1>3. /\ row.started + 1 \in Nat
      /\ row.confirmed + 1 \in Nat
      /\ row.uncertain + 1 \in Nat
  BY DEF Operation
<1>4. ASSUME NEW v \in SendStates
      PROVE  [row EXCEPT !.send = v, !.started = row.started + 1] \in Operation
  BY <1>3 DEF Operation
<1>5. ASSUME NEW v \in SendStates
      PROVE  [row EXCEPT !.send = v, !.confirmed = row.confirmed + 1] \in Operation
  BY <1>3 DEF Operation
<1>6. ASSUME NEW v \in SendStates
      PROVE  [row EXCEPT !.send = v, !.uncertain = row.uncertain + 1] \in Operation
  BY <1>3 DEF Operation
<1>. QED  BY <1>1, <1>2, <1>4, <1>5, <1>6

\* One step of a request changes neither the type of a row nor that of a request.
LEMMA TypeAdvance ==
  ASSUME TypeOK, RequestInv, NEW r \in Requests, Advance(r)
  PROVE  TypeOK'
<1>. DEFINE s == req[r].target
<1>. USE DEF store, outside
<1>1. CASE ApproveLoad(r)
  <2>1. req' \in [Requests -> Request]
    BY <1>1, RequestMoves DEF TypeOK, ApproveLoad, Phases
  <2>. QED  BY <1>1, <2>1 DEF TypeOK, ApproveLoad
<1>2. CASE ApproveWrite(r)
  <2>1. req' \in [Requests -> Request]
    BY <1>2, RequestMoves DEF TypeOK, ApproveWrite, Phases
  <2>2. s \in Snapshots
    BY <1>2 DEF RequestInv, ApproveWrite
  <2>3. op' \in [Snapshots -> Operation]
    <3>1. [op[s] EXCEPT !.draft = "approved-for-gmail-draft"] \in Operation
      BY <2>2, RowTypes DEF TypeOK, DraftStates
    <3>. QED  BY <1>2, <2>2, <3>1 DEF TypeOK, ApproveWrite
  <2>4. newer' \in SUBSET (Snapshots \X Snapshots)
    BY <1>2, <2>2, TouchType DEF TypeOK, ApproveWrite
  <2>. QED  BY <1>2, <2>1, <2>3, <2>4 DEF TypeOK, ApproveWrite
<1>3. CASE CreateLoad(r)
  <2>1. req' \in [Requests -> Request]
    BY <1>3, RequestMoves DEF TypeOK, CreateLoad, Phases
  <2>. QED  BY <1>3, <2>1 DEF TypeOK, CreateLoad
<1>4. CASE CreateBegin(r)
  <2>1. req' \in [Requests -> Request]
    BY <1>4, RequestMoves DEF TypeOK, CreateBegin, AfterCreate, Phases
  <2>2. s \in Snapshots
    BY <1>4 DEF RequestInv, CreateBegin
  <2>3. op' \in [Snapshots -> Operation]
    <3>1. [op[s] EXCEPT !.draft = "creating-gmail-draft"] \in Operation
      BY <2>2, RowTypes DEF TypeOK, DraftStates
    <3>. QED  BY <1>4, <2>2, <3>1 DEF TypeOK, CreateBegin
  <2>4. newer' \in SUBSET (Snapshots \X Snapshots)
    BY <1>4, <2>2, TouchType DEF TypeOK, CreateBegin
  <2>. QED  BY <1>4, <2>1, <2>3, <2>4 DEF TypeOK, CreateBegin
<1>5. CASE CreateCompletes(r)
  <2>1. req' \in [Requests -> Request]
    BY <1>5, RequestMoves DEF TypeOK, CreateCompletes, AfterCreate, Phases
  <2>2. s \in Snapshots
    BY <1>5 DEF RequestInv, CreateCompletes
  <2>3. op' \in [Snapshots -> Operation]
    <3>1. [op[s] EXCEPT !.draft = "gmail-draft-created"] \in Operation
      BY <2>2, RowTypes DEF TypeOK, DraftStates
    <3>. QED  BY <1>5, <2>2, <3>1 DEF TypeOK, CreateCompletes
  <2>4. newer' \in SUBSET (Snapshots \X Snapshots)
    BY <1>5, <2>2, TouchType DEF TypeOK, CreateCompletes
  <2>. QED  BY <1>5, <2>1, <2>3, <2>4 DEF TypeOK, CreateCompletes
<1>6. ASSUME NEW unknown \in BOOLEAN, CreateFails(r, unknown)
      PROVE  TypeOK'
  <2>1. req' \in [Requests -> Request]
    BY <1>6, RequestMoves DEF TypeOK, CreateFails
  <2>2. s \in Snapshots
    BY <1>6 DEF RequestInv, CreateFails
  <2>3. op' \in [Snapshots -> Operation]
    <3>1. \A d \in {"reconciliation-required", "failed"} : [op[s] EXCEPT !.draft = d] \in Operation
      BY <2>2, RowTypes DEF TypeOK, DraftStates
    <3>. QED  BY <1>6, <2>2, <3>1 DEF TypeOK, CreateFails
  <2>4. newer' \in SUBSET (Snapshots \X Snapshots)
    BY <1>6, <2>2, TouchType DEF TypeOK, CreateFails
  <2>5. stray' \in SUBSET ({"create", "send"} \X Snapshots)
    BY <1>6, <2>2 DEF TypeOK, CreateFails
  <2>. QED  BY <1>6, <2>1, <2>3, <2>4, <2>5 DEF TypeOK, CreateFails
<1>7. CASE SendLoad(r)
  <2>1. req' \in [Requests -> Request]
    BY <1>7, RequestMoves DEF TypeOK, SendLoad, Phases
  <2>. QED  BY <1>7, <2>1 DEF TypeOK, SendLoad
<1>8. CASE SendBegin(r)
  <2>1. req' \in [Requests -> Request]
    BY <1>8, RequestMoves DEF TypeOK, SendBegin, Phases
  <2>2. s \in Snapshots
    BY <1>8 DEF RequestInv, SendBegin
  <2>3. op' \in [Snapshots -> Operation]
    <3>1. [op[s] EXCEPT !.send = "sending", !.started = @ + 1] \in Operation
      BY <2>2, RowTypes DEF TypeOK, SendStates
    <3>. QED  BY <1>8, <2>2, <3>1 DEF TypeOK, SendBegin
  <2>4. newer' \in SUBSET (Snapshots \X Snapshots)
    BY <1>8, <2>2, TouchType DEF TypeOK, SendBegin
  <2>. QED  BY <1>8, <2>1, <2>3, <2>4 DEF TypeOK, SendBegin
<1>9. CASE SendCompletes(r)
  <2>1. req' \in [Requests -> Request]
    BY <1>9, RequestMoves DEF TypeOK, SendCompletes, Phases
  <2>2. s \in Snapshots
    BY <1>9 DEF RequestInv, SendCompletes
  <2>3. op' \in [Snapshots -> Operation]
    <3>1. [op[s] EXCEPT !.send = "sent", !.confirmed = @ + 1] \in Operation
      BY <2>2, RowTypes DEF TypeOK, SendStates
    <3>. QED  BY <1>9, <2>2, <3>1 DEF TypeOK, SendCompletes
  <2>4. newer' \in SUBSET (Snapshots \X Snapshots)
    BY <1>9, <2>2, TouchType DEF TypeOK, SendCompletes
  <2>. QED  BY <1>9, <2>1, <2>3, <2>4 DEF TypeOK, SendCompletes
<1>10. CASE SendUnresolved(r)
  <2>1. req' \in [Requests -> Request]
    BY <1>10, RequestMoves DEF TypeOK, SendUnresolved
  <2>2. s \in Snapshots
    BY <1>10 DEF RequestInv, SendUnresolved
  <2>3. op' \in [Snapshots -> Operation]
    <3>1. [op[s] EXCEPT !.send = "send-status-uncertain", !.uncertain = @ + 1] \in Operation
      BY <2>2, RowTypes DEF TypeOK, SendStates
    <3>. QED  BY <1>10, <2>2, <3>1 DEF TypeOK, SendUnresolved
  <2>4. newer' \in SUBSET (Snapshots \X Snapshots)
    BY <1>10, <2>2, TouchType DEF TypeOK, SendUnresolved
  <2>5. stray' \in SUBSET ({"create", "send"} \X Snapshots)
    BY <1>10, <2>2 DEF TypeOK, SendUnresolved
  <2>. QED  BY <1>10, <2>1, <2>3, <2>4, <2>5 DEF TypeOK, SendUnresolved
<1>11. CASE RecordContact(r)
  <2>1. req' \in [Requests -> Request]
    BY <1>11, RequestMoves DEF TypeOK, RecordContact
  <2>2. contact' \in [Snapshots -> Contact]
    BY <1>11 DEF TypeOK, RecordContact, Record, Contact, Sources, Outcomes
  <2>. QED  BY <1>11, <2>1, <2>2 DEF TypeOK, RecordContact
<1>12. CASE Refuse(r)
  <2>1. req' \in [Requests -> Request]
    BY <1>12, RequestMoves DEF TypeOK, Refuse
  <2>. QED  BY <1>12, <2>1 DEF TypeOK, Refuse
<1>. QED  BY <1>1, <1>2, <1>3, <1>4, <1>5, <1>6, <1>7, <1>8, <1>9, <1>10, <1>11, <1>12
          DEF Advance

LEMMA TypeStart ==
  ASSUME TypeOK, NEW r \in Requests, Start(r)
  PROVE  TypeOK'
<1>1. PICK phase \in Phases, shown \in Snapshots, target \in Snapshots, goal \in Goals :
         Begin(r, phase, shown, target, goal)
  BY DEF Start, StartApproveDraft, StartApproveEdited, StartCreateGmailDraft,
         StartSendGmailDraft, StartConfirmAndSend, Goals, Phases
<1>2. req' \in [Requests -> Request]
  BY <1>1 DEF Begin, TypeOK, Request
<1>. QED  BY <1>1, <1>2 DEF Begin, TypeOK, store, outside

LEMMA TypeOperator ==
  ASSUME TypeOK, Operator
  PROVE  TypeOK'
<1>. USE SnapshotAssumption DEF outside
<1>1. ASSUME NEW s \in Snapshots, ConfirmAlreadySent(s)
      PROVE  TypeOK'
  <2>1. contact' \in [Snapshots -> Contact]
    BY <1>1 DEF TypeOK, ConfirmAlreadySent, Record, Contact, Sources, Outcomes
  <2>. QED  BY <1>1, <2>1 DEF TypeOK, ConfirmAlreadySent
<1>2. ASSUME NEW s \in Snapshots, ReportHardBounce(s)
      PROVE  TypeOK'
  <2>1. contact' \in [Snapshots -> Contact]
    BY <1>2 DEF TypeOK, ReportHardBounce, Record, Contacted, Contact, Sources, Outcomes
  <2>. QED  BY <1>2, <2>1 DEF TypeOK, ReportHardBounce
<1>3. ASSUME NEW s \in Snapshots, NEW o \in Outcomes, ReportOutcome(s, o)
      PROVE  TypeOK'
  <2>1. contact' \in [Snapshots -> Contact]
    <3>1. [contact[s] EXCEPT !.outcome = o] \in Contact
      BY <1>3 DEF TypeOK, ReportOutcome, Contacted, Contact
    <3>. QED  BY <1>3, <3>1 DEF TypeOK, ReportOutcome
  <2>. QED  BY <1>3, <2>1 DEF TypeOK, ReportOutcome
<1>4. ASSUME NEW s \in Snapshots, NEW o \in {"sent", "not-sent"}, ReconcileSend(s, o)
      PROVE  TypeOK'
  <2>1. contact' \in [Snapshots -> Contact]
    BY <1>4 DEF TypeOK, ReconcileSend, Record, Contact, Sources, Outcomes
  <2>2. op' \in [Snapshots -> Operation]
    <3>1. [op[s] EXCEPT !.send = o, !.reconciled = o] \in Operation
      BY RowTypes DEF TypeOK, SendStates
    <3>. QED  BY <1>4, <3>1 DEF TypeOK, ReconcileSend
  <2>3. newer' \in SUBSET (Snapshots \X Snapshots)
    BY <1>4, TouchType DEF TypeOK, ReconcileSend
  <2>. QED  BY <1>4, <2>1, <2>2, <2>3 DEF TypeOK, ReconcileSend
<1>5. ASSUME NEW c \in Candidates, NEW permanent \in BOOLEAN, RecordDisposition(c, permanent)
      PROVE  TypeOK'
  BY <1>5 DEF TypeOK, RecordDisposition
<1>6. ASSUME NEW c \in Candidates, SkipExpires(c)
      PROVE  TypeOK'
  BY <1>6 DEF TypeOK, SkipExpires
<1>. QED  BY <1>1, <1>2, <1>3, <1>4, <1>5, <1>6 DEF Operator

LEMMA TypeWorld ==
  ASSUME TypeOK, RequestInv, World
  PROVE  TypeOK'
<1>. USE DEF store
<1>0. \A s \in Snapshots : WithDraft(gmail[s]) \in Mailbox
  BY DEF TypeOK, WithDraft, Mailbox, DraftBound
<1>1. ASSUME NEW r \in Requests, GmailCreatesDraft(r)
      PROVE  TypeOK'
  <2>1. req' \in [Requests -> Request]
    <3>1. [req[r] EXCEPT !.call = "accepted"] \in Request
      BY DEF TypeOK, Request
    <3>. QED  BY <1>1, <3>1 DEF TypeOK, GmailCreatesDraft
  <2>2. req[r].target \in Snapshots
    BY <1>1 DEF RequestInv, GmailCreatesDraft
  <2>3. gmail' \in [Snapshots -> Mailbox]
    BY <1>0, <1>1, <2>2 DEF TypeOK, GmailCreatesDraft
  <2>. QED  BY <1>1, <2>1, <2>3 DEF TypeOK, GmailCreatesDraft
<1>2. ASSUME NEW r \in Requests, GmailSends(r)
      PROVE  TypeOK'
  <2>1. req' \in [Requests -> Request]
    <3>1. \A call \in {"accepted", "rejected"} : [req[r] EXCEPT !.call = call] \in Request
      BY DEF TypeOK, Request
    <3>. QED  BY <1>2, <3>1 DEF TypeOK, GmailSends
  <2>2. req[r].target \in Snapshots
    BY <1>2 DEF RequestInv, GmailSends
  <2>3. [gmail[req[r].target] EXCEPT !.mail = "sent"] \in Mailbox
    BY <2>2 DEF TypeOK, Mailbox
  <2>4. gmail' \in [Snapshots -> Mailbox]
    BY <1>2, <2>2, <2>3 DEF TypeOK, GmailSends
  <2>. QED  BY <1>2, <2>1, <2>4 DEF TypeOK, GmailSends
<1>3. ASSUME NEW s \in Snapshots, OperatorSendsInGmail(s)
      PROVE  TypeOK'
  <2>1. [gmail[s] EXCEPT !.mail = "sent-by-hand"] \in Mailbox
    BY DEF TypeOK, Mailbox
  <2>. QED  BY <1>3, <2>1 DEF TypeOK, OperatorSendsInGmail
<1>4. ASSUME NEW s \in Snapshots, NEW k \in {"create", "send"}, StrayArrives(k, s)
      PROVE  TypeOK'
  <2>1. [gmail[s] EXCEPT !.mail = "sent"] \in Mailbox
    BY DEF TypeOK, Mailbox
  <2>2. gmail' \in [Snapshots -> Mailbox]
    BY <1>0, <1>4, <2>1 DEF TypeOK, StrayArrives
  <2>. QED  BY <1>4, <2>2 DEF TypeOK, StrayArrives
<1>. QED  BY <1>1, <1>2, <1>3, <1>4 DEF World

LEMMA TypeCrash ==
  ASSUME TypeOK, RequestInv, Crash
  PROVE  TypeOK'
<1>1. req' \in [Requests -> Request]
  BY DEF Crash, Idle, Request, Phases, Goals
<1>2. stray' \in SUBSET ({"create", "send"} \X Snapshots)
  BY DEF TypeOK, RequestInv, Crash
<1>. QED  BY <1>1, <1>2 DEF TypeOK, Crash, store

LEMMA TypeStep ==
  ASSUME TypeOK, RequestInv, [Next]_vars
  PROVE  TypeOK'
<1>1. CASE UNCHANGED vars
  BY <1>1 DEF vars, TypeOK
<1>. QED  BY <1>1, TypeStart, TypeAdvance, TypeOperator, TypeWorld, TypeCrash DEF Next

-----------------------------------------------------------------------------
(* Every step rewrites at most one row, in one of six ways.  The invariants *)
(* on rows, and the ledger's, are proved from these ways alone.             *)

Kept(s) == op'[s] = op[s] /\ contact'[s] = contact[s]

DraftMoves(s) ==
  /\ op[s].draft # "gmail-draft-created"
  /\ \E d \in DraftStates : op'[s] = [op[s] EXCEPT !.draft = d]
  /\ contact'[s] = contact[s]

SendBegins(s) ==
  /\ op[s].send = "not-sent" /\ op[s].draft = "gmail-draft-created"
  /\ op'[s] = [op[s] EXCEPT !.send = "sending", !.started = @ + 1]
  /\ contact'[s] = contact[s]

SendConfirmed(s) ==
  /\ op[s].send = "sending"
  /\ op'[s] = [op[s] EXCEPT !.send = "sent", !.confirmed = @ + 1]
  /\ contact'[s] = contact[s]

SendLost(s) ==
  /\ op[s].send = "sending"
  /\ op'[s] = [op[s] EXCEPT !.send = "send-status-uncertain", !.uncertain = @ + 1]
  /\ contact'[s] = contact[s]

SendSettled(s, o) ==
  /\ op[s].send \in {"sending", "send-status-uncertain"}
  /\ op[s].reconciled = "none"
  /\ op'[s] = [op[s] EXCEPT !.send = o, !.reconciled = o]
  /\ \/ contact'[s] = contact[s]
     \/ o = "sent" /\ contact[s].source = "none" /\ contact'[s].source = "operator"
  /\ o = "sent" => contact'[s].source # "none"

LedgerWritten(s) ==
  /\ op'[s] = op[s]
  /\ op[s].draft = "gmail-draft-created"
  /\ contact'[s].source # "none"
  /\ contact[s].source # "none" =>
       /\ contact'[s].source = contact[s].source
       /\ contact[s].outcome # "hard-bounce"
  /\ contact'[s].source = "networkpilot-gmail-send" => op[s].confirmed = 1

RowChanges(s) ==
  \/ DraftMoves(s) \/ SendBegins(s) \/ SendConfirmed(s) \/ SendLost(s)
  \/ \E o \in {"sent", "not-sent"} : SendSettled(s, o)
  \/ LedgerWritten(s)

OneRow == \E s \in Snapshots : RowChanges(s) /\ \A t \in Snapshots \ {s} : Kept(t)
NoRow  == \A s \in Snapshots : Kept(s)

LEMMA AdvanceRows ==
  ASSUME IInv, NEW r \in Requests, Advance(r)
  PROVE  NoRow \/ OneRow
<1>. DEFINE s == req[r].target
<1>. USE DEF IInv, NoRow, Kept
<1>1. CASE ApproveLoad(r) \/ CreateLoad(r) \/ SendLoad(r) \/ Refuse(r)
  BY <1>1 DEF ApproveLoad, CreateLoad, SendLoad, Refuse, store
<1>2. CASE ApproveWrite(r)
  <2>1. s \in Snapshots
    BY <1>2 DEF RequestInv, ApproveWrite
  <2>2. CASE Approved(s)
    BY <1>2, <2>2 DEF ApproveWrite
  <2>3. CASE ~Approved(s)
    <3>1. DraftMoves(s) /\ \A t \in Snapshots \ {s} : Kept(t)
      BY <1>2, <2>1, <2>3 DEF ApproveWrite, Approved, DraftMoves, DraftStates, TypeOK
    <3>. QED  BY <2>1, <3>1 DEF OneRow, RowChanges
  <2>. QED  BY <2>2, <2>3
<1>4. CASE CreateBegin(r)
  <2>1. s \in Snapshots
    BY <1>4 DEF RequestInv, CreateBegin
  <2>2. CASE op' = op
    BY <1>4, <2>2 DEF CreateBegin
  <2>3. CASE op' # op
    <3>1. DraftMoves(s) /\ \A t \in Snapshots \ {s} : Kept(t)
      BY <1>4, <2>1, <2>3 DEF CreateBegin, DraftMoves, DraftStates, TypeOK
    <3>. QED  BY <2>1, <3>1 DEF OneRow, RowChanges
  <2>. QED  BY <2>2, <2>3
<1>5. CASE CreateCompletes(r)
  <2>1. s \in Snapshots
    BY <1>5 DEF RequestInv, CreateCompletes
  <2>2. CASE op' = op
    BY <1>5, <2>2 DEF CreateCompletes
  <2>3. CASE op' # op
    <3>1. DraftMoves(s) /\ \A t \in Snapshots \ {s} : Kept(t)
      BY <1>5, <2>1, <2>3 DEF CreateCompletes, DraftMoves, DraftStates, TypeOK
    <3>. QED  BY <2>1, <3>1 DEF OneRow, RowChanges
  <2>. QED  BY <2>2, <2>3
<1>6. ASSUME NEW unknown \in BOOLEAN, CreateFails(r, unknown)
      PROVE  NoRow \/ OneRow
  <2>1. s \in Snapshots
    BY <1>6 DEF RequestInv, CreateFails
  <2>2. CASE op' = op
    BY <1>6, <2>2 DEF CreateFails
  <2>3. CASE op' # op
    <3>1. DraftMoves(s) /\ \A t \in Snapshots \ {s} : Kept(t)
      BY <1>6, <2>1, <2>3 DEF CreateFails, DraftMoves, DraftStates, TypeOK
    <3>. QED  BY <2>1, <3>1 DEF OneRow, RowChanges
  <2>. QED  BY <2>2, <2>3
<1>8. CASE SendBegin(r)
  <2>1. s \in Snapshots /\ op[s].draft = "gmail-draft-created"
    BY <1>8 DEF RequestInv, SendBegin
  <2>2. CASE op[s].send # "not-sent"
    BY <1>8, <2>2 DEF SendBegin
  <2>3. CASE op[s].send = "not-sent"
    <3>1. SendBegins(s) /\ \A t \in Snapshots \ {s} : Kept(t)
      BY <1>8, <2>1, <2>3 DEF SendBegin, SendBegins, TypeOK
    <3>. QED  BY <2>1, <3>1 DEF OneRow, RowChanges
  <2>. QED  BY <2>2, <2>3
<1>9. CASE SendCompletes(r)
  <2>1. s \in Snapshots
    BY <1>9 DEF RequestInv, SendCompletes
  <2>2. CASE op[s].send # "sending"
    BY <1>9, <2>2 DEF SendCompletes
  <2>3. CASE op[s].send = "sending"
    <3>1. SendConfirmed(s) /\ \A t \in Snapshots \ {s} : Kept(t)
      BY <1>9, <2>1, <2>3 DEF SendCompletes, SendConfirmed, TypeOK
    <3>. QED  BY <2>1, <3>1 DEF OneRow, RowChanges
  <2>. QED  BY <2>2, <2>3
<1>10. CASE SendUnresolved(r)
  <2>1. s \in Snapshots
    BY <1>10 DEF RequestInv, SendUnresolved
  <2>2. CASE op[s].send # "sending"
    BY <1>10, <2>2 DEF SendUnresolved
  <2>3. CASE op[s].send = "sending"
    <3>1. SendLost(s) /\ \A t \in Snapshots \ {s} : Kept(t)
      BY <1>10, <2>1, <2>3 DEF SendUnresolved, SendLost, TypeOK
    <3>. QED  BY <2>1, <3>1 DEF OneRow, RowChanges
  <2>. QED  BY <2>2, <2>3
<1>11. CASE RecordContact(r)
  <2>1. s \in Snapshots /\ op[s].send = "sent"
    BY <1>11 DEF RequestInv, RecordContact
  <2>2. CASE Contacted(s) \/ ~CanRecord(s)
    BY <1>11, <2>2 DEF RecordContact
  <2>3. CASE ~Contacted(s) /\ CanRecord(s)
    <3>1. op[s].confirmed = 1
      BY <2>1, <2>3 DEF OperationInv, ConfirmedExact, ReconciledSentIsFinal, OneIf
    <3>2. LedgerWritten(s) /\ \A t \in Snapshots \ {s} : Kept(t)
      BY <1>11, <2>1, <2>3, <3>1
      DEF RecordContact, Record, Contacted, CanRecord, LedgerWritten, TypeOK
    <3>. QED  BY <2>1, <3>2 DEF OneRow, RowChanges
  <2>. QED  BY <2>2, <2>3
<1>. QED  BY <1>1, <1>2, <1>4, <1>5, <1>6, <1>8, <1>9, <1>10, <1>11 DEF Advance

LEMMA OperatorRows ==
  ASSUME IInv, Operator
  PROVE  NoRow \/ OneRow
<1>. USE DEF IInv, Kept
<1>1. ASSUME NEW s \in Snapshots, ConfirmAlreadySent(s)
      PROVE  OneRow
  <2>1. LedgerWritten(s) /\ \A t \in Snapshots \ {s} : Kept(t)
    BY <1>1 DEF ConfirmAlreadySent, Record, Contacted, CanRecord, LedgerWritten, TypeOK
  <2>. QED  BY <2>1 DEF OneRow, RowChanges
<1>2. ASSUME NEW s \in Snapshots, ReportHardBounce(s)
      PROVE  OneRow
  <2>1. op[s].draft = "gmail-draft-created"
    BY <1>2 DEF ReportHardBounce, CanRecord, OperationInv, Contacted, TypeOK, Contact, Sources
  <2>2. contact[s].source # "none" => contact[s].outcome # "hard-bounce"
    BY <1>2 DEF ReportHardBounce, Contacted
  <2>3. contact[s].source = "networkpilot-gmail-send" => op[s].confirmed = 1
    BY DEF OperationInv
  <2>4. LedgerWritten(s) /\ \A t \in Snapshots \ {s} : Kept(t)
    BY <1>2, <2>1, <2>2, <2>3 DEF ReportHardBounce, Record, Contacted, LedgerWritten, TypeOK
  <2>. QED  BY <2>4 DEF OneRow, RowChanges
<1>3. ASSUME NEW s \in Snapshots, NEW o \in Outcomes, ReportOutcome(s, o)
      PROVE  OneRow
  <2>1. op[s].draft = "gmail-draft-created"
    BY <1>3 DEF ReportOutcome, OperationInv
  <2>2. contact[s].source = "networkpilot-gmail-send" => op[s].confirmed = 1
    BY DEF OperationInv
  <2>3. contact'[s] = [contact[s] EXCEPT !.outcome = o]
    BY <1>3 DEF ReportOutcome, TypeOK
  <2>4. contact'[s].source = contact[s].source
    BY <1>3, <2>3 DEF ReportOutcome, TypeOK, Contact
  <2>5. LedgerWritten(s) /\ \A t \in Snapshots \ {s} : Kept(t)
    BY <1>3, <2>1, <2>2, <2>4 DEF ReportOutcome, Contacted, LedgerWritten, TypeOK
  <2>. QED  BY <2>5 DEF OneRow, RowChanges
<1>4. ASSUME NEW s \in Snapshots, NEW o \in {"sent", "not-sent"}, ReconcileSend(s, o)
      PROVE  OneRow
  <2>1. SendSettled(s, o)
    BY <1>4 DEF ReconcileSend, Record, Contacted, SendSettled, TypeOK
  <2>2. \A t \in Snapshots \ {s} : Kept(t)
    BY <1>4 DEF ReconcileSend, Record, TypeOK
  <2>. QED  BY <2>1, <2>2 DEF OneRow, RowChanges
<1>5. ASSUME NEW c \in Candidates, NEW permanent \in BOOLEAN,
             RecordDisposition(c, permanent) \/ SkipExpires(c)
      PROVE  NoRow
  BY <1>5 DEF RecordDisposition, SkipExpires, NoRow
<1>. QED  BY <1>1, <1>2, <1>3, <1>4, <1>5 DEF Operator

LEMMA NextRows ==
  ASSUME IInv, [Next]_vars
  PROVE  NoRow \/ OneRow
<1>1. ASSUME NEW r \in Requests, Start(r)
      PROVE  NoRow
  BY <1>1 DEF Start, StartApproveDraft, StartApproveEdited, StartCreateGmailDraft,
              StartSendGmailDraft, StartConfirmAndSend, Begin, store, NoRow, Kept
<1>2. CASE World
  BY <1>2 DEF World, GmailCreatesDraft, GmailSends, OperatorSendsInGmail, StrayArrives,
              store, NoRow, Kept
<1>3. CASE Crash
  BY <1>3 DEF Crash, store, NoRow, Kept
<1>4. CASE UNCHANGED vars
  BY <1>4 DEF vars, NoRow, Kept
<1>. QED  BY <1>1, <1>2, <1>3, <1>4, AdvanceRows, OperatorRows DEF Next

-----------------------------------------------------------------------------
(* The inductive invariant.                                                 *)

\* What is known of one row: a conjunct of OperationInv.
RowInv(s) ==
  /\ CallsExact(s) /\ ConfirmedExact(s) /\ ReconciledSentIsFinal(s) /\ Balance(s)
  /\ Contacted(s) \/ op[s].send # "not-sent" => op[s].draft = "gmail-draft-created"
  /\ contact[s].source = "networkpilot-gmail-send" => op[s].confirmed = 1

LEMMA RowStep ==
  ASSUME NEW s \in Snapshots, op[s] \in Operation, RowInv(s), RowChanges(s)
  PROVE  RowInv(s)'
<1>. USE DEF CallsExact, ConfirmedExact, ReconciledSentIsFinal, Balance, SettledCalls, OneIf, Contacted
<1>1. CASE DraftMoves(s)
  <2>1. PICK d \in DraftStates : op'[s] = [op[s] EXCEPT !.draft = d]
    BY <1>1 DEF DraftMoves
  <2>. QED  BY <1>1, <2>1 DEF DraftMoves, RowInv, Operation
<1>2. CASE SendBegins(s)
  BY <1>2 DEF SendBegins, RowInv, Operation
<1>3. CASE SendConfirmed(s)
  BY <1>3 DEF SendConfirmed, RowInv, Operation
<1>4. CASE SendLost(s)
  BY <1>4 DEF SendLost, RowInv, Operation
<1>5. ASSUME NEW o \in {"sent", "not-sent"}, SendSettled(s, o)
      PROVE  RowInv(s)'
  BY <1>5 DEF SendSettled, RowInv, Operation
<1>6. CASE LedgerWritten(s)
  BY <1>6 DEF LedgerWritten, RowInv
<1>. QED  BY <1>1, <1>2, <1>3, <1>4, <1>5, <1>6 DEF RowChanges

LEMMA OperationStep ==
  ASSUME IInv, [Next]_vars
  PROVE  OperationInv'
<1>. SUFFICES ASSUME NEW s \in Snapshots
              PROVE  RowInv(s)'
  BY DEF OperationInv, RowInv
<1>1. RowInv(s) /\ op[s] \in Operation
  BY DEF IInv, OperationInv, RowInv, TypeOK
<1>2. CASE Kept(s)
  BY <1>1, <1>2 DEF Kept, RowInv, CallsExact, ConfirmedExact, ReconciledSentIsFinal,
                    Balance, SettledCalls, Contacted
<1>3. CASE RowChanges(s)
  BY <1>1, <1>3, RowStep
<1>. QED  BY <1>2, <1>3, NextRows DEF NoRow, OneRow

\* What a later phase of a request relies on is never undone.
LEMMA RowsAdvance ==
  ASSUME IInv, [Next]_vars, NEW s \in Snapshots
  PROVE  /\ op[s].draft = "gmail-draft-created" => op'[s].draft = "gmail-draft-created"
         /\ op[s].started > 0 => op'[s].started > 0
         /\ op[s].send = "sent" => op'[s].send = "sent"
         /\ Contacted(s) => Contacted(s)' /\ contact'[s].source = contact[s].source
         /\ contact[s].outcome = "hard-bounce" => contact'[s].outcome = "hard-bounce"
<1>0. op[s] \in Operation /\ contact[s] \in Contact
  BY DEF IInv, TypeOK
<1>1. CASE Kept(s)
  BY <1>1 DEF Kept, Contacted
<1>2. CASE RowChanges(s)
  <2>1. CASE DraftMoves(s)
    <3>1. PICK d \in DraftStates : op'[s] = [op[s] EXCEPT !.draft = d]
      BY <2>1 DEF DraftMoves
    <3>. QED  BY <1>0, <2>1, <3>1 DEF DraftMoves, Operation, Contacted
  <2>2. CASE SendBegins(s)
    BY <1>0, <2>2 DEF SendBegins, Operation, Contacted
  <2>3. CASE SendConfirmed(s)
    BY <1>0, <2>3 DEF SendConfirmed, Operation, Contacted
  <2>4. CASE SendLost(s)
    BY <1>0, <2>4 DEF SendLost, Operation, Contacted
  <2>5. ASSUME NEW o \in {"sent", "not-sent"}, SendSettled(s, o)
        PROVE  /\ op'[s].draft = op[s].draft
               /\ op'[s].started = op[s].started
               /\ op[s].send # "sent"
               /\ Contacted(s) => contact'[s] = contact[s]
               /\ contact[s].outcome = "hard-bounce" => contact'[s] = contact[s]
    BY <1>0, <2>5 DEF SendSettled, Operation, Contacted, Contact, Sources
  <2>6. CASE LedgerWritten(s)
    BY <1>0, <2>6 DEF LedgerWritten, Contacted, Contact, Sources
  <2>. QED  BY <1>2, <2>1, <2>2, <2>3, <2>4, <2>5, <2>6 DEF RowChanges, Contacted
<1>. QED  BY <1>1, <1>2, NextRows DEF NoRow, OneRow

\* Which steps can change what is outside the process.
LEMMA OutsideFrame ==
  /\ \A r \in Requests : Start(r) => UNCHANGED outside
  /\ \A r \in Requests : Advance(r) =>
       /\ gmail' = gmail
       /\ stray' = stray \/ SendUnresolved(r) \/ \E unknown \in BOOLEAN : CreateFails(r, unknown)
  /\ Operator => UNCHANGED outside
  /\ World => stray' \subseteq stray
  /\ Crash => gmail' = gmail
<1>1. ASSUME NEW r \in Requests, Start(r)
      PROVE  UNCHANGED outside
  BY <1>1 DEF Start, StartApproveDraft, StartApproveEdited, StartCreateGmailDraft,
              StartSendGmailDraft, StartConfirmAndSend, Begin
<1>2. ASSUME NEW r \in Requests, Advance(r)
      PROVE  /\ gmail' = gmail
             /\ \/ stray' = stray
                \/ SendUnresolved(r)
                \/ \E unknown \in BOOLEAN : CreateFails(r, unknown)
  <2>1. CASE ApproveLoad(r) \/ ApproveWrite(r) \/ CreateLoad(r) \/ CreateBegin(r)
    BY <2>1 DEF ApproveLoad, ApproveWrite, CreateLoad, CreateBegin, outside
  <2>2. CASE CreateCompletes(r) \/ \E unknown \in BOOLEAN : CreateFails(r, unknown)
    BY <2>2 DEF CreateCompletes, CreateFails, outside
  <2>3. CASE SendLoad(r) \/ SendBegin(r) \/ SendCompletes(r) \/ SendUnresolved(r)
    BY <2>3 DEF SendLoad, SendBegin, SendCompletes, SendUnresolved, outside
  <2>4. CASE RecordContact(r) \/ Refuse(r)
    BY <2>4 DEF RecordContact, Refuse, outside
  <2>. QED  BY <1>2, <2>1, <2>2, <2>3, <2>4 DEF Advance
<1>3. ASSUME Operator
      PROVE  UNCHANGED outside
  BY <1>3 DEF Operator, ConfirmAlreadySent, ReportHardBounce, ReportOutcome, ReconcileSend,
              RecordDisposition, SkipExpires
<1>4. ASSUME World
      PROVE  stray' \subseteq stray
  BY <1>4 DEF World, GmailCreatesDraft, GmailSends, OperatorSendsInGmail, StrayArrives
<1>5. ASSUME Crash
      PROVE  gmail' = gmail
  BY <1>5 DEF Crash
<1>. QED  BY <1>1, <1>2, <1>3, <1>4, <1>5

LEMMA DeliveryStep ==
  ASSUME IInv, [Next]_vars
  PROVE  DeliveryInv'
<1>. USE DEF IInv, outside
<1>1. \A s \in Snapshots : op[s].started > 0 => op'[s].started > 0
  BY RowsAdvance
<1>2. ASSUME NEW s \in Snapshots, gmail'[s].mail = "sent", gmail[s].mail # "sent"
      PROVE  op[s].started > 0
  <2>1. ASSUME NEW r \in Requests, GmailSends(r)
        PROVE  op[s].started > 0
    BY <1>2, <2>1 DEF GmailSends, RequestInv, TypeOK
  <2>2. ASSUME NEW r \in Requests, GmailCreatesDraft(r)
        PROVE  FALSE
    BY <1>2, <2>2 DEF GmailCreatesDraft, WithDraft, TypeOK
  <2>3. ASSUME NEW t \in Snapshots, OperatorSendsInGmail(t)
        PROVE  FALSE
    BY <1>2, <2>3 DEF OperatorSendsInGmail, TypeOK, Mailbox
  <2>4. ASSUME NEW t \in Snapshots, NEW k \in {"create", "send"}, StrayArrives(k, t)
        PROVE  op[s].started > 0
    BY <1>2, <2>4 DEF StrayArrives, WithDraft, TypeOK, Mailbox, DeliveryInv
  <2>5. gmail' = gmail \/ World
    BY OutsideFrame DEF Next, vars
  <2>. QED  BY <1>2, <2>1, <2>2, <2>3, <2>4, <2>5 DEF World
<1>3. ASSUME NEW s \in Snapshots, <<"send", s>> \in stray', <<"send", s>> \notin stray
      PROVE  op[s].started > 0
  <2>1. ASSUME NEW r \in Requests, SendUnresolved(r)
        PROVE  op[s].started > 0
    BY <1>3, <2>1 DEF SendUnresolved, RequestInv
  <2>2. ASSUME NEW r \in Requests, NEW unknown \in BOOLEAN, CreateFails(r, unknown)
        PROVE  FALSE
    BY <1>3, <2>2 DEF CreateFails
  <2>3. CASE Crash
    BY <1>3, <2>3 DEF Crash, RequestInv
  <2>4. \/ stray' \subseteq stray
        \/ Crash
        \/ \E r \in Requests : SendUnresolved(r)
        \/ \E r \in Requests, unknown \in BOOLEAN : CreateFails(r, unknown)
    BY OutsideFrame DEF Next, vars
  <2>. QED  BY <1>3, <2>1, <2>2, <2>3, <2>4
<1>. QED  BY <1>1, <1>2, <1>3 DEF DeliveryInv

\* The clauses of RequestInv about one request.
Aimed(r) ==
  /\ req[r].pc # "idle" => req[r].target \in Snapshots /\ req[r].shown \in Snapshots
  /\ req[r].pc = "send-begin" => op[req[r].target].draft = "gmail-draft-created"
  /\ req[r].pc = "send-call" => op[req[r].target].started > 0
  /\ req[r].pc = "record" => op[req[r].target].send = "sent"

LEMMA AimedAdvance ==
  ASSUME IInv, NEW r \in Requests, Advance(r)
  PROVE  Aimed(r)'
<1>. DEFINE s == req[r].target
<1>. USE DEF IInv, RequestInv, TypeOK, Request, Enter, Finish, Dispatch, Idle, Aimed
<1>1. CASE ApproveLoad(r)
  BY <1>1 DEF ApproveLoad, store
<1>2. CASE ApproveWrite(r)
  BY <1>2 DEF ApproveWrite
<1>3. CASE CreateLoad(r)
  BY <1>3 DEF CreateLoad
<1>4. CASE CreateBegin(r)
  BY <1>4 DEF CreateBegin, AfterCreate
<1>5. CASE CreateCompletes(r)
  BY <1>5 DEF CreateCompletes, AfterCreate
<1>6. CASE \E unknown \in BOOLEAN : CreateFails(r, unknown)
  BY <1>6 DEF CreateFails
<1>7. CASE SendLoad(r)
  BY <1>7 DEF SendLoad, store
<1>8. CASE SendBegin(r)
  <2>1. s \in Snapshots /\ op[s] \in Operation
    BY <1>8 DEF SendBegin
  <2>2. CASE op[s].send # "not-sent"
    BY <1>8, <2>1, <2>2 DEF SendBegin
  <2>3. CASE op[s].send = "not-sent"
    <3>1. op'[s].started = op[s].started + 1 /\ op[s].started \in Nat
      BY <1>8, <2>1, <2>3 DEF SendBegin, Operation
    <3>. QED  BY <1>8, <2>1, <2>3, <3>1 DEF SendBegin
  <2>. QED  BY <2>2, <2>3
<1>9. CASE SendCompletes(r)
  <2>1. s \in Snapshots /\ op[s] \in Operation
    BY <1>9 DEF SendCompletes
  <2>2. CASE op[s].send # "sending"
    BY <1>9, <2>1, <2>2 DEF SendCompletes
  <2>3. CASE op[s].send = "sending"
    <3>1. op'[s].send = "sent"
      BY <1>9, <2>1, <2>3 DEF SendCompletes, Operation
    <3>. QED  BY <1>9, <2>1, <2>3, <3>1 DEF SendCompletes
  <2>. QED  BY <2>2, <2>3
<1>10. CASE SendUnresolved(r)
  BY <1>10 DEF SendUnresolved
<1>11. CASE RecordContact(r)
  BY <1>11 DEF RecordContact
<1>12. CASE Refuse(r)
  BY <1>12 DEF Refuse
<1>. QED  BY <1>1, <1>2, <1>3, <1>4, <1>5, <1>6, <1>7, <1>8, <1>9, <1>10, <1>11, <1>12
          DEF Advance

\* A request that does not move keeps its aim.
LEMMA AimedStays ==
  ASSUME IInv, [Next]_vars, NEW r \in Requests,
         req'[r].pc = req[r].pc, req'[r].target = req[r].target, req'[r].shown = req[r].shown
  PROVE  Aimed(r)'
<1>1. CASE req[r].pc = "idle"
  BY <1>1 DEF Aimed
<1>2. CASE req[r].pc # "idle"
  <2>1. Aimed(r) /\ req[r].target \in Snapshots
    BY <1>2 DEF IInv, RequestInv, Aimed
  <2>. QED  BY <2>1, RowsAdvance DEF Aimed
<1>. QED  BY <1>1, <1>2

LEMMA RequestStep ==
  ASSUME IInv, [Next]_vars
  PROVE  RequestInv'
<1>. SUFFICES ASSUME NEW q \in Requests
              PROVE  Aimed(q)'
  BY DEF RequestInv, Aimed
<1>. DEFINE Still == /\ req'[q].pc = req[q].pc
                     /\ req'[q].target = req[q].target
                     /\ req'[q].shown = req[q].shown
<1>. USE DEF IInv, TypeOK, Request
<1>1. ASSUME NEW r \in Requests, Start(r), q = r
      PROVE  Aimed(q)'
  BY <1>1 DEF Start, StartApproveDraft, StartApproveEdited, StartCreateGmailDraft,
              StartSendGmailDraft, StartConfirmAndSend, Begin, Aimed
<1>2. ASSUME NEW r \in Requests, Start(r), q # r
      PROVE  Still
  BY <1>2 DEF Start, StartApproveDraft, StartApproveEdited, StartCreateGmailDraft,
              StartSendGmailDraft, StartConfirmAndSend, Begin
<1>3. ASSUME NEW r \in Requests, Advance(r), q # r
      PROVE  Still
  BY <1>3 DEF Advance, ApproveLoad, ApproveWrite, CreateLoad, CreateBegin, CreateCompletes,
              CreateFails, SendLoad, SendBegin, SendCompletes, SendUnresolved,
              RecordContact, Refuse, AfterCreate, Enter, Finish, Dispatch
<1>4. CASE Operator
  BY <1>4, AimedStays
  DEF Operator, ConfirmAlreadySent, ReportHardBounce, ReportOutcome, ReconcileSend,
      RecordDisposition, SkipExpires
<1>5. CASE World
  <2>1. ASSUME NEW r \in Requests, GmailCreatesDraft(r) \/ GmailSends(r)
        PROVE  Still
    <3>1. PICK call \in {"accepted", "rejected"} :
             req' = [req EXCEPT ![r] = [@ EXCEPT !.call = call]]
      BY <2>1 DEF GmailCreatesDraft, GmailSends
    <3>. QED  BY <3>1
  <2>2. ASSUME NEW s \in Snapshots, NEW k \in {"create", "send"},
               OperatorSendsInGmail(s) \/ StrayArrives(k, s)
        PROVE  Still
    BY <2>2 DEF OperatorSendsInGmail, StrayArrives
  <2>3. Still
    BY <1>5, <2>1, <2>2 DEF World
  <2>. QED  BY <2>3, AimedStays
<1>6. CASE Crash
  BY <1>6 DEF Crash, Aimed, Idle
<1>7. CASE UNCHANGED vars
  BY <1>7, AimedStays DEF vars
<1>. QED  BY <1>1, <1>2, <1>3, <1>4, <1>5, <1>6, <1>7, AimedAdvance, AimedStays DEF Next

LEMMA InvariantInit == Init => IInv
<1>. SUFFICES ASSUME Init
              PROVE  IInv
  OBVIOUS
<1>1. OperationInv
  BY DEF Init, OperationInv, CallsExact, ConfirmedExact, ReconciledSentIsFinal, Balance,
         SettledCalls, OneIf, Contacted, NoOperation, NoContact
<1>2. DeliveryInv /\ RequestInv
  BY DEF Init, DeliveryInv, RequestInv, Idle
<1>. QED  BY <1>1, <1>2, TypeInit DEF IInv

LEMMA InvariantStep ==
  ASSUME IInv, [Next]_vars
  PROVE  IInv'
BY TypeStep, OperationStep, DeliveryStep, RequestStep DEF IInv

-----------------------------------------------------------------------------
(* Exclusion: who may still be sent to.                                     *)

LEMMA SuppressionGrows ==
  ASSUME [Next]_vars
  PROVE  suppressed \subseteq suppressed'
<1>1. ASSUME NEW r \in Requests, Advance(r)
      PROVE  suppressed' = suppressed
  BY <1>1 DEF Advance, ApproveLoad, ApproveWrite, CreateLoad, CreateBegin, CreateCompletes,
              CreateFails, SendLoad, SendBegin, SendCompletes, SendUnresolved,
              RecordContact, Refuse, store
<1>2. ASSUME NEW r \in Requests, Start(r)
      PROVE  suppressed' = suppressed
  BY <1>2 DEF Start, StartApproveDraft, StartApproveEdited, StartCreateGmailDraft,
              StartSendGmailDraft, StartConfirmAndSend, Begin, store
<1>3. CASE Operator
  BY <1>3 DEF Operator, ConfirmAlreadySent, ReportHardBounce, ReportOutcome, ReconcileSend,
              RecordDisposition, SkipExpires
<1>4. CASE World \/ Crash \/ UNCHANGED vars
  BY <1>4 DEF World, GmailCreatesDraft, GmailSends, OperatorSendsInGmail, StrayArrives,
              Crash, store, vars
<1>. QED  BY <1>1, <1>2, <1>3, <1>4 DEF Next

LEMMA BlockedForever ==
  ASSUME IInv, [Next]_vars, NEW c \in Candidates, Blocked(c)
  PROVE  Blocked(c)'
BY SuppressionGrows, RowsAdvance DEF Blocked, SnapshotsOf

\* The only way into send-begin is the gate of SendLoad.
LEMMA GateEntered ==
  ASSUME IInv, [Next]_vars, NEW q \in Requests, req'[q].pc = "send-begin"
  PROVE  \/ req[q].pc = "send-begin" /\ req'[q].target = req[q].target
         \/ ~Blocked(CandidateOf[req[q].target])'
<1>. USE DEF IInv, TypeOK, Request
<1>1. ASSUME NEW r \in Requests, Start(r)
      PROVE  req[q].pc = "send-begin" /\ req'[q].target = req[q].target
  BY <1>1 DEF Start, StartApproveDraft, StartApproveEdited, StartCreateGmailDraft,
              StartSendGmailDraft, StartConfirmAndSend, Begin
<1>2. ASSUME NEW r \in Requests, Advance(r), q # r
      PROVE  req[q].pc = "send-begin" /\ req'[q].target = req[q].target
  BY <1>2 DEF Advance, ApproveLoad, ApproveWrite, CreateLoad, CreateBegin, CreateCompletes,
              CreateFails, SendLoad, SendBegin, SendCompletes, SendUnresolved,
              RecordContact, Refuse, AfterCreate, Enter, Finish, Dispatch
<1>3. CASE SendLoad(q)
  <2>1. req'[q].target = req[q].target /\ ~Blocked(CandidateOf[req[q].target])
    BY <1>3 DEF SendLoad, Enter
  <2>. QED  BY <1>3, <2>1 DEF SendLoad, store, Blocked, SnapshotsOf, Contacted
<1>4. ASSUME Advance(q), ~SendLoad(q)
      PROVE  FALSE
  <2>1. CASE ApproveLoad(q) \/ ApproveWrite(q) \/ CreateLoad(q) \/ CreateBegin(q)
    BY <2>1 DEF ApproveLoad, ApproveWrite, CreateLoad, CreateBegin, AfterCreate, Enter,
                Finish, Dispatch, Idle
  <2>2. CASE CreateCompletes(q)
    BY <2>2 DEF CreateCompletes, AfterCreate, Enter, Finish, Idle
  <2>3. CASE SendBegin(q) \/ SendCompletes(q) \/ SendUnresolved(q)
    BY <2>3 DEF SendBegin, SendCompletes, SendUnresolved, Enter, Finish, Dispatch, Idle
  <2>4. CASE RecordContact(q) \/ Refuse(q)
    BY <2>4 DEF RecordContact, Refuse, Finish, Idle
  <2>5. CASE \E unknown \in BOOLEAN : CreateFails(q, unknown)
    BY <2>5 DEF CreateFails, Finish, Idle
  <2>. QED  BY <1>4, <2>1, <2>2, <2>3, <2>4, <2>5 DEF Advance
<1>5. CASE Operator \/ UNCHANGED vars
  BY <1>5 DEF Operator, ConfirmAlreadySent, ReportHardBounce, ReportOutcome, ReconcileSend,
              RecordDisposition, SkipExpires, vars
<1>6. ASSUME NEW r \in Requests, GmailCreatesDraft(r) \/ GmailSends(r)
      PROVE  req[q].pc = "send-begin" /\ req'[q].target = req[q].target
  <2>1. PICK call \in {"accepted", "rejected"} :
           req' = [req EXCEPT ![r] = [@ EXCEPT !.call = call]]
    BY <1>6 DEF GmailCreatesDraft, GmailSends
  <2>. QED  BY <2>1
<1>7. ASSUME NEW s \in Snapshots, NEW k \in {"create", "send"},
             OperatorSendsInGmail(s) \/ StrayArrives(k, s)
      PROVE  req' = req
  BY <1>7 DEF OperatorSendsInGmail, StrayArrives
<1>8. CASE Crash
  BY <1>8 DEF Crash, Idle
<1>. QED  BY <1>1, <1>2, <1>3, <1>4, <1>5, <1>6, <1>7, <1>8 DEF Next, World

LEMMA ExcludedForever ==
  ASSUME IInv, [Next]_vars, NEW c \in Candidates, Excluded(c)
  PROVE  Excluded(c)'
<1>1. Blocked(c)'
  BY BlockedForever DEF Excluded
<1>. SUFFICES ASSUME NEW q \in Requests, req'[q].pc = "send-begin",
                     CandidateOf[req'[q].target] = c
              PROVE  FALSE
  BY <1>1 DEF Excluded, PastGate
<1>2. req[q].pc = "send-begin" /\ req'[q].target = req[q].target
  BY <1>1, GateEntered
<1>. QED  BY <1>2 DEF Excluded, PastGate

\* A call starts only by a request past its gate.
LEMMA SendStartsPastGate ==
  ASSUME IInv, [Next]_vars, NEW s \in Snapshots, op'[s].started # op[s].started
  PROVE  PastGate(CandidateOf[s])
<1>. USE DEF IInv, TypeOK
<1>1. ASSUME NEW r \in Requests, SendBegin(r)
      PROVE  PastGate(CandidateOf[s])
  <2>1. req[r].target = s
    BY <1>1 DEF SendBegin
  <2>. QED  BY <1>1, <2>1 DEF SendBegin, PastGate
<1>2. ASSUME NEW r \in Requests, Advance(r), ~SendBegin(r)
      PROVE  op'[s].started = op[s].started
  <2>. DEFINE t == req[r].target
  <2>1. CASE ApproveLoad(r) \/ CreateLoad(r) \/ SendLoad(r) \/ RecordContact(r) \/ Refuse(r)
    BY <2>1 DEF ApproveLoad, CreateLoad, SendLoad, RecordContact, Refuse, store
  <2>2. ASSUME ApproveWrite(r) \/ CreateBegin(r) \/ CreateCompletes(r)
                 \/ \E unknown \in BOOLEAN : CreateFails(r, unknown)
        PROVE  op' = op \/ \E d \in DraftStates : op' = [op EXCEPT ![t] = [@ EXCEPT !.draft = d]]
    BY <2>2 DEF ApproveWrite, CreateBegin, CreateCompletes, CreateFails, DraftStates
  <2>3. CASE SendCompletes(r) \/ SendUnresolved(r)
    BY <2>3 DEF SendCompletes, SendUnresolved, Operation
  <2>4. ASSUME NEW d \in DraftStates, op' = [op EXCEPT ![t] = [@ EXCEPT !.draft = d]]
        PROVE  op'[s].started = op[s].started
    BY <2>4 DEF Operation
  <2>. QED  BY <1>2, <2>1, <2>2, <2>3, <2>4 DEF Advance
<1>3. CASE Operator
  <2>1. ASSUME NEW t \in Snapshots, NEW o \in {"sent", "not-sent"}, ReconcileSend(t, o)
        PROVE  op'[s].started = op[s].started
    BY <2>1 DEF ReconcileSend, Operation
  <2>2. \/ op' = op
        \/ \E t \in Snapshots, o \in {"sent", "not-sent"} : ReconcileSend(t, o)
    BY <1>3 DEF Operator, ConfirmAlreadySent, ReportHardBounce, ReportOutcome,
                RecordDisposition, SkipExpires
  <2>. QED  BY <2>1, <2>2
<1>4. ASSUME NEW r \in Requests, Start(r)
      PROVE  op' = op
  BY <1>4 DEF Start, StartApproveDraft, StartApproveEdited, StartCreateGmailDraft,
              StartSendGmailDraft, StartConfirmAndSend, Begin, store
<1>5. CASE World \/ Crash \/ UNCHANGED vars
  BY <1>5 DEF World, GmailCreatesDraft, GmailSends, OperatorSendsInGmail, StrayArrives,
              Crash, store, vars
<1>. QED  BY <1>1, <1>2, <1>3, <1>4, <1>5 DEF Next

\* An opt-out or a hard bounce enters the ledger together with the suppression.
LEMMA OutcomeStep ==
  ASSUME IInv, OutcomeSuppresses, [Next]_vars
  PROVE  OutcomeSuppresses'
<1>. SUFFICES ASSUME NEW s \in Snapshots, contact'[s].outcome \in {"opt-out", "hard-bounce"}
              PROVE  CandidateOf[s] \in suppressed'
  BY DEF OutcomeSuppresses
<1>1. CASE contact'[s] = contact[s]
  BY <1>1, SuppressionGrows DEF OutcomeSuppresses
<1>. USE DEF IInv, TypeOK
<1>2. ASSUME NEW t \in Snapshots, ReportHardBounce(t)
      PROVE  contact'[s] = contact[s] \/ CandidateOf[s] \in suppressed'
  BY <1>2 DEF ReportHardBounce, Record
<1>3. ASSUME NEW t \in Snapshots, NEW o \in Outcomes, ReportOutcome(t, o)
      PROVE  contact'[s] = contact[s] \/ CandidateOf[s] \in suppressed'
  <2>1. s # t => contact'[s] = contact[s]
    BY <1>3 DEF ReportOutcome
  <2>2. s = t => contact'[s].outcome = o
    BY <1>3 DEF ReportOutcome, Contact
  <2>. QED  BY <1>3, <2>1, <2>2 DEF ReportOutcome
<1>4. ASSUME NEW t \in Snapshots, NEW o \in {"sent", "not-sent"},
             ConfirmAlreadySent(t) \/ ReconcileSend(t, o)
      PROVE  contact'[s] = contact[s]
  BY <1>4 DEF ConfirmAlreadySent, ReconcileSend, Record
<1>5. ASSUME NEW c \in Candidates, NEW permanent \in BOOLEAN,
             RecordDisposition(c, permanent) \/ SkipExpires(c)
      PROVE  contact'[s] = contact[s]
  BY <1>5 DEF RecordDisposition, SkipExpires
<1>6. ASSUME NEW r \in Requests, Advance(r)
      PROVE  contact'[s] = contact[s]
  <2>1. CASE RecordContact(r)
    BY <2>1 DEF RecordContact, Record
  <2>2. CASE ~RecordContact(r)
    BY <1>6, <2>2 DEF Advance, ApproveLoad, ApproveWrite, CreateLoad, CreateBegin,
                      CreateCompletes, CreateFails, SendLoad, SendBegin, SendCompletes,
                      SendUnresolved, Refuse, store
  <2>. QED  BY <2>1, <2>2
<1>7. ASSUME NEW r \in Requests, Start(r)
      PROVE  contact'[s] = contact[s]
  BY <1>7 DEF Start, StartApproveDraft, StartApproveEdited, StartCreateGmailDraft,
              StartSendGmailDraft, StartConfirmAndSend, Begin, store
<1>8. CASE World \/ Crash \/ UNCHANGED vars
  BY <1>1, <1>8 DEF World, GmailCreatesDraft, GmailSends, OperatorSendsInGmail,
              StrayArrives, Crash, store, vars
<1>. QED  BY <1>1, <1>2, <1>3, <1>4, <1>5, <1>6, <1>7, <1>8 DEF Next, Operator

-----------------------------------------------------------------------------
(* The theorems.                                                            *)

\* The rows, the audit, the mailbox and the requests stay in step: the invariant the
\* safety properties below follow from.
THEOREM Invariance == Spec => []IInv
<1>1. IInv /\ [Next]_vars => IInv'
  BY InvariantStep
<1>. QED  BY InvariantInit, <1>1, PTL DEF Spec

\* Every variable keeps its type in every behaviour.
THEOREM TypeCorrect == Spec => []TypeOK
<1>1. IInv => TypeOK
  BY DEF IInv
<1>. QED  BY Invariance, <1>1, PTL

\* For any number of tabs, retries and crashes, drafts.send is called for an operation
\* at most once, and once more only after a reconciliation as not sent.
THEOREM SendsAreBounded == Spec => []SendCallsBounded
<1>1. IInv => SendCallsBounded
  <2>. SUFFICES ASSUME IInv, NEW s \in Snapshots
                PROVE  op[s].started <= IF op[s].reconciled = "not-sent" THEN 2 ELSE 1
    BY DEF SendCallsBounded
  <2>. QED  BY DEF IInv, OperationInv, CallsExact, OneIf
<1>. QED  BY Invariance, <1>1, PTL

\* A recorded send has exactly one provenance, Gmail's confirmation or the operator's
\* reconciliation.
THEOREM ProvenanceIsUnique == Spec => []OneProvenance
<1>1. IInv => OneProvenance
  <2>. SUFFICES ASSUME IInv, NEW s \in Snapshots
                PROVE  /\ op[s].confirmed <= 1
                       /\ op[s].send = "sent" <=>
                            (op[s].confirmed = 1 \/ op[s].reconciled = "sent")
                       /\ ~(op[s].confirmed = 1 /\ op[s].reconciled = "sent")
    BY DEF OneProvenance
  <2>1. ConfirmedExact(s) /\ ReconciledSentIsFinal(s)
    BY DEF IInv, OperationInv
  <2>. QED  BY <2>1 DEF ConfirmedExact, ReconciledSentIsFinal, OneIf
<1>. QED  BY Invariance, <1>1, PTL

\* A contact recorded as sent through Gmail has Gmail's confirmation in the audit.
THEOREM EvidenceIsGenuine == Spec => []GmailEvidence
<1>1. IInv => GmailEvidence
  BY DEF IInv, OperationInv, GmailEvidence
<1>. QED  BY Invariance, <1>1, PTL

\* A message delivered by a call of the program does not look unsent, but for a premature
\* reconciliation as not sent.
THEOREM DeliveriesAreNotForgotten == Spec => []DeliveryNotForgotten
<1>1. IInv => DeliveryNotForgotten
  <2>. SUFFICES ASSUME IInv, NEW s \in Snapshots,
                       gmail[s].mail = "sent", op[s].send = "not-sent"
                PROVE  op[s].reconciled = "not-sent"
    BY DEF DeliveryNotForgotten
  <2>1. op[s].started > 0 /\ CallsExact(s)
    BY DEF IInv, DeliveryInv, OperationInv
  <2>. QED  BY <2>1 DEF CallsExact, OneIf
<1>. QED  BY Invariance, <1>1, PTL

\* The send audit accounts for every started call.
THEOREM AuditIsBalanced == Spec => []AuditBalances
<1>1. IInv => AuditBalances
  BY DEF IInv, OperationInv, Balance, SettledCalls, OneIf, AuditBalances
<1>. QED  BY Invariance, <1>1, PTL

\* Sends and contacts rest on a created Gmail draft.
THEOREM SendsRestOnDrafts == Spec => []SendNeedsCreatedDraft
<1>1. IInv => SendNeedsCreatedDraft
  BY DEF IInv, OperationInv, SendNeedsCreatedDraft
<1>. QED  BY Invariance, <1>1, PTL

\* No step of any actor rewrites a contact's source or reopens a hard bounce.
THEOREM LedgerNeverRewritten == Spec => LedgerIsKept
<1>1. IInv /\ [Next]_vars =>
        [\A s \in Snapshots : Contacted(s) =>
            /\ contact'[s].source = contact[s].source
            /\ contact[s].outcome = "hard-bounce" => contact'[s].outcome = "hard-bounce"]_vars
  BY RowsAdvance
<1>. QED  BY Invariance, <1>1, PTL DEF Spec, LedgerIsKept

\* An opt-out or hard bounce in the ledger always means a suppressed person.
THEOREM OutcomesSuppress == Spec => []OutcomeSuppresses
<1>1. Init => OutcomeSuppresses
  BY DEF Init, NoContact, OutcomeSuppresses
<1>2. IInv /\ OutcomeSuppresses /\ [Next]_vars => OutcomeSuppresses'
  BY OutcomeStep
<1>. QED  BY Invariance, <1>1, <1>2, PTL DEF Spec

\* Once a person is blocked with no request past its gate, no send to that person starts
\* again, for any number of snapshots, tabs and restarts.
THEOREM ExclusionHolds == Spec => ExclusionIsFinal
<1>1. IInv /\ [Next]_vars =>
        [\A c \in Candidates : Excluded(c) =>
            /\ Excluded(c)'
            /\ \A s \in SnapshotsOf(c) : op'[s].started = op[s].started]_vars
  <2>. SUFFICES ASSUME IInv, [Next]_vars, NEW c \in Candidates, Excluded(c)
                PROVE  /\ Excluded(c)'
                       /\ \A s \in SnapshotsOf(c) : op'[s].started = op[s].started
    OBVIOUS
  <2>1. Excluded(c)'
    BY ExcludedForever
  <2>2. ASSUME NEW s \in SnapshotsOf(c)
        PROVE  op'[s].started = op[s].started
    BY SendStartsPastGate DEF SnapshotsOf, Excluded
  <2>. QED  BY <2>1, <2>2
<1>. QED  BY Invariance, <1>1, PTL DEF Spec, ExclusionIsFinal

-----------------------------------------------------------------------------
(* Refinement: the workflow implements OutreachPromise.  Each way of changing a *)
(* row is one action of the promise.                                         *)

LEMMA PromiseInit == Init => Promise!Init
<1>. SUFFICES ASSUME Init
              PROVE  Promise!Init
  OBVIOUS
<1>1. \A c \in Candidates : ~Excluded(c)
  BY DEF Init, Excluded, Blocked, Contacted, SnapshotsOf, NoContact
<1>. QED  BY <1>1 DEF Init, Promise!Init, NoOperation, Contacted, NoContact

LEMMA PromiseGrow ==
  ASSUME IInv, [Next]_vars
  PROVE  Promise!Grow
BY ExcludedForever DEF Promise!Grow

LEMMA PromiseStep ==
  ASSUME IInv, [Next]_vars
  PROVE  [Promise!Next]_(Promise!vars)
<1>. DEFINE Statuses == [t \in Snapshots |-> op[t].send]
            Attempts == [t \in Snapshots |-> op[t].started]
            Settled  == {t \in Snapshots : op[t].reconciled # "none"}
            Ledger   == {t \in Snapshots : Contacted(t)}
<1>. USE PromiseGrow
<1>1. CASE NoRow
  <2>1. Promise!Close
    BY <1>1 DEF Promise!Close, NoRow, Kept, Contacted
  <2>. QED  BY <2>1 DEF Promise!Next
<1>2. ASSUME NEW s \in Snapshots, RowChanges(s), \A t \in Snapshots \ {s} : Kept(t)
      PROVE  Promise!Next
  <2>0. op[s] \in Operation /\ RowInv(s)
    BY DEF IInv, TypeOK, OperationInv, RowInv
  <2>1. CASE DraftMoves(s)
    <3>1. PICK d \in DraftStates : op'[s] = [op[s] EXCEPT !.draft = d]
      BY <2>1 DEF DraftMoves
    <3>2. /\ op'[s].send = op[s].send /\ op'[s].started = op[s].started
          /\ op'[s].reconciled = op[s].reconciled
      BY <2>0, <3>1 DEF Operation
    <3>3. \A t \in Snapshots : /\ op'[t].send = op[t].send
                               /\ op'[t].started = op[t].started
                               /\ op'[t].reconciled = op[t].reconciled
                               /\ contact'[t] = contact[t]
      BY <1>2, <2>1, <3>2 DEF DraftMoves, Kept
    <3>4. Promise!Close
      BY <3>3 DEF Promise!Close, Contacted
    <3>. QED  BY <3>4 DEF Promise!Next
  <2>2. CASE SendBegins(s)
    <3>1. /\ op'[s].send = "sending" /\ op'[s].started = op[s].started + 1
          /\ op'[s].reconciled = op[s].reconciled
      BY <2>0, <2>2 DEF SendBegins, Operation
    <3>2. op[s].started = 0 \/ (op[s].started = 1 /\ op[s].reconciled # "none")
      BY <2>0, <2>2 DEF SendBegins, RowInv, CallsExact, OneIf
    <3>3. ~Excluded(CandidateOf[s])
      BY <2>0, <3>1, SendStartsPastGate DEF Excluded, Operation
    <3>4. /\ Statuses' = [Statuses EXCEPT ![s] = "sending"]
          /\ Attempts' = [Attempts EXCEPT ![s] = @ + 1]
      BY <1>2, <3>1 DEF Kept
    <3>9. \A t \in Snapshots :
            op'[t].reconciled = op[t].reconciled /\ contact'[t] = contact[t]
      BY <1>2, <2>2, <3>1 DEF Kept, SendBegins
    <3>5. Settled' = Settled /\ Ledger' = Ledger
      BY <3>9 DEF Contacted
    <3>6. Promise!Attempt(s)
      BY <2>2, <3>2, <3>3, <3>4, <3>5 DEF SendBegins, Promise!Attempt
    <3>. QED  BY <3>6 DEF Promise!Next
  <2>3. CASE SendConfirmed(s)
    <3>1. /\ op'[s].send = "sent" /\ op'[s].started = op[s].started
          /\ op'[s].reconciled = op[s].reconciled
      BY <2>0, <2>3 DEF SendConfirmed, Operation
    <3>2. Statuses' = [Statuses EXCEPT ![s] = "sent"]
      BY <1>2, <3>1 DEF Kept
    <3>9. \A t \in Snapshots : /\ op'[t].started = op[t].started
                               /\ op'[t].reconciled = op[t].reconciled
                               /\ contact'[t] = contact[t]
      BY <1>2, <2>3, <3>1 DEF Kept, SendConfirmed
    <3>3. Attempts' = Attempts /\ Settled' = Settled /\ Ledger' = Ledger
      BY <3>9 DEF Contacted
    <3>4. Promise!Confirm(s)
      BY <2>3, <3>2, <3>3 DEF SendConfirmed, Promise!Confirm
    <3>. QED  BY <3>4 DEF Promise!Next
  <2>4. CASE SendLost(s)
    <3>1. /\ op'[s].send = "send-status-uncertain" /\ op'[s].started = op[s].started
          /\ op'[s].reconciled = op[s].reconciled
      BY <2>0, <2>4 DEF SendLost, Operation
    <3>2. Statuses' = [Statuses EXCEPT ![s] = "send-status-uncertain"]
      BY <1>2, <3>1 DEF Kept
    <3>9. \A t \in Snapshots : /\ op'[t].started = op[t].started
                               /\ op'[t].reconciled = op[t].reconciled
                               /\ contact'[t] = contact[t]
      BY <1>2, <2>4, <3>1 DEF Kept, SendLost
    <3>3. Attempts' = Attempts /\ Settled' = Settled /\ Ledger' = Ledger
      BY <3>9 DEF Contacted
    <3>4. Promise!LoseTrack(s)
      BY <2>4, <3>2, <3>3 DEF SendLost, Promise!LoseTrack
    <3>. QED  BY <3>4 DEF Promise!Next
  <2>5. ASSUME NEW o \in {"sent", "not-sent"}, SendSettled(s, o)
        PROVE  Promise!Next
    <3>1. /\ op'[s].send = o /\ op'[s].started = op[s].started
          /\ op'[s].reconciled = o
      BY <2>0, <2>5 DEF SendSettled, Operation
    <3>2. Statuses' = [Statuses EXCEPT ![s] = o]
      BY <1>2, <3>1 DEF Kept
    <3>3. Attempts' = Attempts /\ Settled' = Settled \cup {s}
      BY <1>2, <3>1 DEF Kept
    <3>4. Ledger' = IF o = "sent" THEN Ledger \cup {s} ELSE Ledger
      BY <1>2, <2>5 DEF Kept, SendSettled, Contacted
    <3>5. Promise!Settle(s, o)
      BY <2>5, <3>2, <3>3, <3>4 DEF SendSettled, Promise!Settle
    <3>. QED  BY <3>5 DEF Promise!Next
  <2>6. CASE LedgerWritten(s)
    <3>1. Promise!Enter(s)
      BY <1>2, <2>6 DEF LedgerWritten, Promise!Enter, Kept, Contacted
    <3>. QED  BY <3>1 DEF Promise!Next
  <2>. QED  BY <1>2, <2>1, <2>2, <2>3, <2>4, <2>5, <2>6 DEF RowChanges
<1>. QED  BY <1>1, <1>2, NextRows DEF OneRow

\* The workflow, with its requests, Gmail, lost answers and crashes, implements the
\* promise: attempts, settlements, the ledger and exclusions change only as it allows.
THEOREM PromiseKept == Spec => KeepsPromise
<1>1. IInv /\ [Next]_vars => [Promise!Next]_(Promise!vars)
  BY PromiseStep
<1>. QED  BY PromiseInit, Invariance, <1>1, PTL DEF Spec, KeepsPromise, Promise!Spec

-----------------------------------------------------------------------------
(* Drafts in the mailbox.  Counting them is not enough: a draft may still   *)
(* come from a call in progress and from a call on the wire, so a creation  *)
(* is restarted only where neither exists and no draft does.                *)

Creating(r, s) == req[r].pc = "create-call" /\ req[r].target = s

\* The states in which no creation was begun that could have succeeded.
Untried == {"absent", "approved-for-gmail-draft", "failed"}

CreationOf(s) ==
  /\ gmail[s].drafts <= 1
  /\ op[s].draft \in Untried => gmail[s].drafts = 0 /\ <<"create", s>> \notin stray
  /\ <<"create", s>> \in stray => gmail[s].drafts = 0
  /\ \A r \in Requests : Creating(r, s) =>
       /\ op[s].draft = "creating-gmail-draft" /\ <<"create", s>> \notin stray
       /\ req[r].call = "pending" => gmail[s].drafts = 0
       /\ \A q \in Requests : Creating(q, s) => q = r

CreationInv == \A s \in Snapshots : CreationOf(s)

\* A step that starts no creation and ends none.
Quiet(s) ==
  /\ op'[s].draft = op[s].draft \/ (op[s].draft \in Untried /\ op'[s].draft \in Untried)
  /\ gmail'[s].drafts = gmail[s].drafts
  /\ <<"create", s>> \in stray' => <<"create", s>> \in stray
  /\ \A r \in Requests : req'[r].pc = "create-call" => req'[r] = req[r]

LEMMA QuietCreation ==
  ASSUME NEW s \in Snapshots, CreationOf(s), Quiet(s)
  PROVE  CreationOf(s)'
<1>1. \A r \in Requests : Creating(r, s)' => Creating(r, s) /\ req'[r] = req[r]
  BY DEF Quiet, Creating
<1>2. /\ gmail'[s].drafts <= 1
      /\ op'[s].draft \in Untried => gmail'[s].drafts = 0 /\ <<"create", s>> \notin stray'
      /\ <<"create", s>> \in stray' => gmail'[s].drafts = 0
  BY DEF Quiet, CreationOf
<1>3. ASSUME NEW r \in Requests, Creating(r, s)'
      PROVE  /\ op'[s].draft = "creating-gmail-draft" /\ <<"create", s>> \notin stray'
             /\ req'[r].call = "pending" => gmail'[s].drafts = 0
             /\ \A q \in Requests : Creating(q, s)' => q = r
  <2>1. Creating(r, s) /\ req'[r] = req[r]
    BY <1>1, <1>3
  <2>2. op[s].draft = "creating-gmail-draft"
    BY <2>1 DEF CreationOf
  <2>3. op'[s].draft = "creating-gmail-draft"
    BY <2>2 DEF Quiet, Untried
  <2>4. QED
    BY <1>1, <2>1, <2>3 DEF CreationOf, Quiet
<1>4. QED
  BY <1>2, <1>3 DEF CreationOf

\* A request that leaves or enters a phase other than the call leaves the calls alone.
LEMMA PhaseQuiet ==
  ASSUME req \in [Requests -> Request], NEW r \in Requests, NEW phase, phase # "create-call",
         Finish(r) \/ Enter(r, phase) \/ Dispatch(r, phase)
  PROVE  \A q \in Requests : req'[q].pc = "create-call" => req'[q] = req[q]
<1>1. \A q \in Requests \ {r} : req'[q] = req[q]
  BY DEF Finish, Enter, Dispatch
<1>2. req'[r].pc # "create-call"
  <2>1. CASE Finish(r)
    BY <2>1 DEF Finish, Idle
  <2>2. CASE Enter(r, phase) \/ Dispatch(r, phase)
    BY <2>2 DEF Enter, Dispatch, Request
  <2>. QED  BY <2>1, <2>2
<1>. QED  BY <1>1, <1>2

\* Draft states of the rows other than the one a request works on stay.
LEMMA AdvanceQuiet ==
  ASSUME IInv, NEW r \in Requests, NEW s \in Snapshots,
         \/ ApproveLoad(r) \/ ApproveWrite(r) \/ CreateLoad(r)
         \/ SendLoad(r) \/ SendBegin(r) \/ SendCompletes(r) \/ SendUnresolved(r)
         \/ RecordContact(r) \/ Refuse(r)
  PROVE  Quiet(s)
<1>. DEFINE t == req[r].target
<1>0. /\ op \in [Snapshots -> Operation] /\ req \in [Requests -> Request]
      /\ gmail \in [Snapshots -> Mailbox]
      /\ req[r].pc # "idle" => t \in Snapshots
  BY DEF IInv, TypeOK, RequestInv
<1>. USE DEF store, outside
<1>1. gmail' = gmail
  BY DEF ApproveLoad, ApproveWrite, CreateLoad, SendLoad, SendBegin, SendCompletes,
         SendUnresolved, RecordContact, Refuse
<1>2. <<"create", s>> \in stray' => <<"create", s>> \in stray
  <2>1. CASE SendUnresolved(r)
    <3>1. stray' = stray \cup {<<"send", t>>} \/ stray' = stray
      BY <2>1 DEF SendUnresolved
    <3>2. <<"create", s>> # <<"send", t>>
      OBVIOUS
    <3>. QED  BY <3>1, <3>2
  <2>2. CASE ~SendUnresolved(r)
    BY <2>2 DEF ApproveLoad, ApproveWrite, CreateLoad, SendLoad, SendBegin, SendCompletes,
                RecordContact, Refuse
  <2>. QED  BY <2>1, <2>2
<1>3. \A q \in Requests : req'[q].pc = "create-call" => req'[q] = req[q]
  <2>1. CASE ApproveLoad(r)
    BY <1>0, <2>1, PhaseQuiet DEF ApproveLoad
  <2>2. CASE ApproveWrite(r)
    <3>1. Finish(r) \/ Enter(r, "send-load") \/ Enter(r, "create-load")
      BY <2>2 DEF ApproveWrite
    <3>. QED  BY <1>0, <3>1, PhaseQuiet
  <2>3. CASE CreateLoad(r)
    BY <1>0, <2>3, PhaseQuiet DEF CreateLoad
  <2>4. CASE SendLoad(r)
    <3>1. Enter(r, "record") \/ Enter(r, "send-begin")
      BY <2>4 DEF SendLoad
    <3>. QED  BY <1>0, <3>1, PhaseQuiet
  <2>5. CASE SendBegin(r)
    <3>1. Enter(r, "record") \/ Finish(r) \/ Dispatch(r, "send-call")
      BY <2>5 DEF SendBegin
    <3>. QED  BY <1>0, <3>1, PhaseQuiet
  <2>6. CASE SendCompletes(r)
    <3>1. Enter(r, "record") \/ Finish(r)
      BY <2>6 DEF SendCompletes
    <3>. QED  BY <1>0, <3>1, PhaseQuiet
  <2>7. CASE SendUnresolved(r) \/ RecordContact(r) \/ Refuse(r)
    <3>1. Finish(r) \/ Enter(r, "record")
      BY <2>7 DEF SendUnresolved, RecordContact, Refuse
    <3>. QED  BY <1>0, <3>1, PhaseQuiet
  <2>. QED  BY <2>1, <2>2, <2>3, <2>4, <2>5, <2>6, <2>7
<1>4. op'[s].draft = op[s].draft \/ (op[s].draft \in Untried /\ op'[s].draft \in Untried)
  <2>1. CASE ApproveWrite(r)
    <3>1. t \in Snapshots
      BY <1>0, <2>1 DEF ApproveWrite
    <3>2. CASE Approved(t)
      BY <2>1, <3>2 DEF ApproveWrite
    <3>3. CASE ~Approved(t)
      <4>1. op' = [op EXCEPT ![t].draft = "approved-for-gmail-draft"] /\ op[t].draft = "absent"
        BY <2>1, <3>3 DEF ApproveWrite, Approved
      <4>2. CASE s = t
        <5>1. op'[s].draft = "approved-for-gmail-draft"
          BY <1>0, <3>1, <4>1, <4>2 DEF Operation
        <5>. QED  BY <4>1, <4>2, <5>1 DEF Untried
      <4>3. CASE s # t
        BY <1>0, <4>1, <4>3
      <4>. QED  BY <4>2, <4>3
    <3>. QED  BY <3>2, <3>3
  <2>2. CASE SendBegin(r) \/ SendCompletes(r) \/ SendUnresolved(r)
    <3>1. \/ op' = op
          \/ op' = [op EXCEPT ![t].send = "sending", ![t].started = @ + 1]
          \/ op' = [op EXCEPT ![t].send = "sent", ![t].confirmed = @ + 1]
          \/ op' = [op EXCEPT ![t].send = "send-status-uncertain", ![t].uncertain = @ + 1]
      BY <2>2 DEF SendBegin, SendCompletes, SendUnresolved
    <3>2. op'[s].draft = op[s].draft
      BY <1>0, <3>1 DEF Operation
    <3>. QED  BY <3>2
  <2>3. CASE ApproveLoad(r) \/ CreateLoad(r) \/ SendLoad(r) \/ RecordContact(r) \/ Refuse(r)
    BY <2>3 DEF ApproveLoad, CreateLoad, SendLoad, RecordContact, Refuse
  <2>. QED  BY <2>1, <2>2, <2>3
<1>. QED  BY <1>1, <1>2, <1>3, <1>4 DEF Quiet

LEMMA OthersQuiet ==
  ASSUME IInv, NEW s \in Snapshots,
         \/ \E r \in Requests : Start(r)
         \/ Operator
         \/ \E r \in Requests : GmailSends(r)
         \/ \E t \in Snapshots : OperatorSendsInGmail(t)
         \/ \E t \in Snapshots : StrayArrives("send", t)
         \/ UNCHANGED vars
  PROVE  Quiet(s)
<1>0. /\ op \in [Snapshots -> Operation] /\ req \in [Requests -> Request]
      /\ gmail \in [Snapshots -> Mailbox]
  BY DEF IInv, TypeOK
<1>. USE DEF store, outside
<1>1. ASSUME NEW r \in Requests, Start(r)
      PROVE  Quiet(s)
  <2>1. PICK shown, target, goal :
          \E phase \in Phases \ {"create-call"} : Begin(r, phase, shown, target, goal)
    BY <1>1 DEF Start, StartApproveDraft, StartApproveEdited, StartCreateGmailDraft,
                StartSendGmailDraft, StartConfirmAndSend, Phases
  <2>2. UNCHANGED <<op, gmail, stray>>
    BY <2>1 DEF Begin
  <2>3. \A q \in Requests : req'[q].pc = "create-call" => req'[q] = req[q]
    BY <1>0, <2>1 DEF Begin
  <2>. QED  BY <2>2, <2>3 DEF Quiet
<1>2. CASE Operator
  <2>1. ASSUME NEW t \in Snapshots, NEW o \in {"sent", "not-sent"}, ReconcileSend(t, o)
        PROVE  Quiet(s)
    <3>1. op' = [op EXCEPT ![t].send = o, ![t].reconciled = o] /\ UNCHANGED <<req, gmail, stray>>
      BY <2>1 DEF ReconcileSend
    <3>2. op'[s].draft = op[s].draft
      BY <1>0, <3>1 DEF Operation
    <3>. QED  BY <3>1, <3>2 DEF Quiet
  <2>2. ASSUME UNCHANGED <<op, req, gmail, stray>>
        PROVE  Quiet(s)
    BY <2>2 DEF Quiet
  <2>. QED  BY <1>2, <2>1, <2>2 DEF Operator, ConfirmAlreadySent, ReportHardBounce,
                                    ReportOutcome, RecordDisposition, SkipExpires
<1>3. ASSUME NEW r \in Requests, GmailSends(r)
      PROVE  Quiet(s)
  <2>1. op' = op /\ stray' = stray
    BY <1>3 DEF GmailSends
  <2>2. gmail'[s].drafts = gmail[s].drafts
    BY <1>0, <1>3 DEF GmailSends, Mailbox
  <2>3. \A q \in Requests : req'[q].pc = "create-call" => req'[q] = req[q]
    <3>1. /\ req[r].pc = "send-call"
          /\ \/ req' = [req EXCEPT ![r].call = "accepted"]
             \/ req' = [req EXCEPT ![r].call = "rejected"]
      BY <1>3 DEF GmailSends
    <3>2. \A q \in Requests \ {r} : req'[q] = req[q]
      BY <1>0, <3>1
    <3>3. req'[r].pc = "send-call"
      BY <1>0, <3>1 DEF Request
    <3>. QED  BY <3>2, <3>3
  <2>. QED  BY <2>1, <2>2, <2>3 DEF Quiet
<1>4. ASSUME NEW t \in Snapshots, OperatorSendsInGmail(t) \/ StrayArrives("send", t)
      PROVE  Quiet(s)
  <2>1. UNCHANGED <<op, req>> /\ stray' \subseteq stray
    BY <1>4 DEF OperatorSendsInGmail, StrayArrives
  <2>2. gmail'[s].drafts = gmail[s].drafts
    <3>1. \/ gmail' = gmail \/ gmail' = [gmail EXCEPT ![t].mail = "sent-by-hand"]
          \/ gmail' = [gmail EXCEPT ![t].mail = "sent"]
      BY <1>4 DEF OperatorSendsInGmail, StrayArrives
    <3>. QED  BY <1>0, <3>1 DEF Mailbox
  <2>. QED  BY <2>1, <2>2 DEF Quiet
<1>5. CASE UNCHANGED vars
  BY <1>5 DEF vars, Quiet
<1>. QED  BY <1>1, <1>2, <1>3, <1>4, <1>5

\* A creation begins where none was begun that could have succeeded.
LEMMA BeginCreation ==
  ASSUME IInv, CreationInv, NEW r \in Requests, NEW s \in Snapshots, CreateBegin(r)
  PROVE  CreationOf(s)'
<1>. DEFINE t == req[r].target
<1>0. /\ op \in [Snapshots -> Operation] /\ req \in [Requests -> Request]
      /\ t \in Snapshots /\ UNCHANGED <<gmail, stray>>
  BY DEF IInv, TypeOK, RequestInv, CreateBegin, outside
<1>1. CASE op' = op /\ (Finish(r) \/ Enter(r, "send-load"))
  <2>1. \A q \in Requests : req'[q].pc = "create-call" => req'[q] = req[q]
    BY <1>0, <1>1, PhaseQuiet
  <2>2. Quiet(s)
    BY <1>0, <1>1, <2>1 DEF Quiet
  <2>. QED  BY <2>2, QuietCreation DEF CreationInv
<1>2. CASE /\ MayCreate(t) /\ op' = [op EXCEPT ![t].draft = "creating-gmail-draft"]
           /\ Dispatch(r, "create-call")
  <2>1. op[t].draft \in Untried /\ \A q \in Requests : ~Creating(q, t)
    <3>1. op[t].draft \in Untried /\ op[t].draft # "creating-gmail-draft"
      BY <1>2 DEF Untried
    <3>2. \A q \in Requests : Creating(q, t) => op[t].draft = "creating-gmail-draft"
      BY <1>0 DEF CreationInv, CreationOf
    <3>. QED  BY <3>1, <3>2
  <2>2. \A q \in Requests \ {r} : req'[q] = req[q]
    BY <1>0, <1>2 DEF Dispatch
  <2>3. req'[r].pc = "create-call" /\ req'[r].target = t
    BY <1>0, <1>2 DEF Dispatch, Request
  <2>4. CASE s = t
    <3>1. op'[s].draft = "creating-gmail-draft" /\ "creating-gmail-draft" \notin Untried
      BY <1>0, <1>2, <2>4 DEF Operation, Untried
    <3>2. gmail'[s].drafts = 0 /\ <<"create", s>> \notin stray'
      BY <1>0, <2>1, <2>4 DEF CreationInv, CreationOf
    <3>3. \A q \in Requests : Creating(q, s)' => q = r
      BY <2>1, <2>2, <2>4 DEF Creating
    <3>. QED  BY <3>1, <3>2, <3>3 DEF CreationOf
  <2>5. CASE s # t
    <3>1. op'[s] = op[s]
      BY <1>0, <1>2, <2>5
    <3>2. \A q \in Requests : Creating(q, s)' => Creating(q, s) /\ req'[q] = req[q]
      BY <2>2, <2>3, <2>5 DEF Creating
    <3>. QED  BY <1>0, <3>1, <3>2 DEF CreationInv, CreationOf
  <2>. QED  BY <2>4, <2>5
<1>. QED  BY <1>1, <1>2 DEF CreateBegin, AfterCreate

\* A draft appears for a call in progress: there was none, and there is no other call.
LEMMA AcceptedCreation ==
  ASSUME IInv, CreationInv, NEW r \in Requests, NEW s \in Snapshots, GmailCreatesDraft(r)
  PROVE  CreationOf(s)'
<1>. DEFINE t == req[r].target
<1>0. /\ req \in [Requests -> Request] /\ gmail \in [Snapshots -> Mailbox]
      /\ t \in Snapshots /\ UNCHANGED <<op, stray>>
      /\ Creating(r, t) /\ req[r].call = "pending"
  BY DEF IInv, TypeOK, RequestInv, GmailCreatesDraft, store, Creating
<1>1. req' = [req EXCEPT ![r].call = "accepted"]
  BY DEF GmailCreatesDraft
<1>2. \A q \in Requests : req'[q].pc = req[q].pc /\ req'[q].target = req[q].target
  BY <1>0, <1>1 DEF Request
<1>3. \A q \in Requests : Creating(q, s)' => Creating(q, s)
  BY <1>2 DEF Creating
<1>4. \A q \in Requests \ {r} : req'[q] = req[q]
  BY <1>0, <1>1
<1>5. req'[r].call = "accepted"
  BY <1>0, <1>1 DEF Request
<1>6. CASE s = t
  <2>1. gmail[s].drafts = 0 /\ op[s].draft = "creating-gmail-draft" /\ <<"create", s>> \notin stray
    BY <1>0, <1>6 DEF CreationInv, CreationOf
  <2>2. gmail'[s].drafts = 1
    <3>1. gmail'[s] = WithDraft(gmail[s])
      BY <1>0, <1>6 DEF GmailCreatesDraft
    <3>. QED  BY <2>1, <3>1 DEF WithDraft, DraftBound
  <2>3. \A q \in Requests : Creating(q, s) => q = r
    BY <1>0, <1>6 DEF CreationInv, CreationOf
  <2>4. op'[s].draft \notin Untried
    BY <1>0, <2>1 DEF Untried
  <2>. QED  BY <1>0, <1>3, <1>5, <2>1, <2>2, <2>3, <2>4 DEF CreationOf
<1>7. CASE s # t
  <2>1. gmail'[s] = gmail[s]
    BY <1>7 DEF GmailCreatesDraft
  <2>2. ~Creating(r, s)'
    BY <1>2, <1>7 DEF Creating
  <2>. QED  BY <1>0, <1>3, <1>4, <2>1, <2>2 DEF CreationInv, CreationOf
<1>. QED  BY <1>6, <1>7

\* A draft appears for a call on the wire: there was none, and no call is in progress.
LEMMA ArrivedCreation ==
  ASSUME IInv, CreationInv, NEW t \in Snapshots, NEW s \in Snapshots, StrayArrives("create", t)
  PROVE  CreationOf(s)'
<1>0. /\ gmail \in [Snapshots -> Mailbox] /\ UNCHANGED <<op, req>>
      /\ <<"create", t>> \in stray /\ stray' = stray \ {<<"create", t>>}
      /\ gmail' = gmail \/ gmail' = [gmail EXCEPT ![t] = WithDraft(@)]
  BY DEF IInv, TypeOK, StrayArrives, store
<1>1. \A q \in Requests : Creating(q, s)' <=> Creating(q, s)
  BY <1>0 DEF Creating
<1>2. CASE gmail'[s] = gmail[s]
  BY <1>0, <1>1, <1>2 DEF CreationInv, CreationOf
<1>3. CASE gmail'[s] # gmail[s]
  <2>1. s = t
    BY <1>0, <1>3
  <2>2. /\ gmail[s].drafts = 0 /\ op[s].draft \notin Untried
        /\ \A q \in Requests : ~Creating(q, s)
    BY <1>0, <2>1 DEF CreationInv, CreationOf
  <2>3. gmail'[s].drafts = 1
    <3>1. gmail'[s] = WithDraft(gmail[s])
      BY <1>0, <1>3, <2>1
    <3>. QED  BY <2>2, <3>1 DEF WithDraft, DraftBound
  <2>4. <<"create", s>> \notin stray'
    BY <1>0, <2>1
  <2>. QED  BY <1>0, <1>1, <2>2, <2>3, <2>4 DEF CreationOf
<1>. QED  BY <1>2, <1>3

\* The call in progress ends.  Without failing commits a definitive failure means
\* that Gmail did not act, so the row may be tried again.
LEMMA EndedCreation ==
  ASSUME IInv, CreationInv, ~WritesMayFail, NEW r \in Requests, NEW s \in Snapshots,
         CreateCompletes(r) \/ \E unknown \in BOOLEAN : CreateFails(r, unknown)
  PROVE  CreationOf(s)'
<1>. DEFINE t == req[r].target
<1>0. /\ op \in [Snapshots -> Operation] /\ req \in [Requests -> Request]
      /\ t \in Snapshots /\ gmail' = gmail /\ Creating(r, t)
  BY DEF IInv, TypeOK, RequestInv, CreateCompletes, CreateFails, outside, Creating
<1>1. op[t].draft = "creating-gmail-draft" /\ \A q \in Requests : Creating(q, t) => q = r
  BY <1>0 DEF CreationInv, CreationOf
<1>2. Finish(r) \/ Enter(r, "send-load")
  BY DEF CreateCompletes, CreateFails, AfterCreate
<1>3. \A q \in Requests : req'[q].pc = "create-call" => req'[q] = req[q]
  BY <1>0, <1>2, PhaseQuiet
<1>4. \A q \in Requests : Creating(q, s)' => Creating(q, s) /\ req'[q] = req[q]
  BY <1>3 DEF Creating
<1>5. ~Creating(r, s)'
  BY <1>0, <1>2 DEF Finish, Enter, Idle, Creating, Request
<1>6. \E d \in {"gmail-draft-created", "reconciliation-required", "failed"} :
        op' = [op EXCEPT ![t].draft = d]
  BY <1>1 DEF CreateCompletes, CreateFails
<1>7. CASE s # t
  <2>1. op'[s] = op[s]
    BY <1>0, <1>6, <1>7
  <2>2. <<"create", s>> \in stray' => <<"create", s>> \in stray
    <3>1. <<"create", s>> # <<"create", t>>
      BY <1>7
    <3>2. stray' = stray \/ stray' = stray \cup {<<"create", t>>}
      BY DEF CreateCompletes, CreateFails, outside
    <3>. QED  BY <3>1, <3>2
  <2>3. Quiet(s)
    BY <1>0, <1>3, <2>1, <2>2 DEF Quiet
  <2>. QED  BY <2>3, QuietCreation DEF CreationInv
<1>8. CASE s = t
  <2>1. \A q \in Requests : ~Creating(q, s)'
    BY <1>1, <1>4, <1>5, <1>8
  <2>2. /\ gmail[s].drafts <= 1 /\ <<"create", s>> \notin stray
        /\ req[r].call = "pending" => gmail[s].drafts = 0
    BY <1>0, <1>8 DEF CreationInv, CreationOf
  <2>3. CASE CreateCompletes(r)
    <3>1. op'[s].draft = "gmail-draft-created" /\ stray' = stray
      BY <1>0, <1>1, <1>8, <2>3 DEF CreateCompletes, outside, Operation
    <3>. QED  BY <1>0, <2>1, <2>2, <3>1 DEF CreationOf, Untried
  <2>4. ASSUME NEW unknown \in BOOLEAN, CreateFails(r, unknown)
        PROVE  CreationOf(s)'
    <3>1. CASE unknown
      <4>1. op'[s].draft = "reconciliation-required"
        BY <1>0, <1>1, <1>8, <2>4, <3>1 DEF CreateFails, Operation
      <4>2. <<"create", s>> \in stray' => req[r].call = "pending"
        BY <2>2, <2>4 DEF CreateFails
      <4>. QED  BY <1>0, <2>1, <2>2, <4>1, <4>2 DEF CreationOf, Untried
    <3>2. CASE ~unknown
      <4>1. req[r].call = "pending" /\ stray' = stray
        BY <2>4, <3>2 DEF CreateFails
      <4>. QED  BY <1>0, <2>1, <2>2, <4>1 DEF CreationOf
    <3>. QED  BY <3>1, <3>2
  <2>. QED  BY <2>3, <2>4
<1>. QED  BY <1>7, <1>8

\* A crash leaves the pending calls on the wire.
LEMMA CrashedCreation ==
  ASSUME IInv, CreationInv, NEW s \in Snapshots, Crash
  PROVE  CreationOf(s)'
<1>1. UNCHANGED <<op, gmail>> /\ \A q \in Requests : ~Creating(q, s)'
  BY DEF Crash, store, Creating, Idle
<1>2. <<"create", s>> \in stray' =>
        <<"create", s>> \in stray \/ \E r \in Requests : Creating(r, s) /\ req[r].call = "pending"
  <2>1. \A t \in Snapshots : <<"create", s>> # <<"send", t>>
    OBVIOUS
  <2>. QED  BY <2>1 DEF Crash, Creating
<1>3. CASE \E r \in Requests : Creating(r, s) /\ req[r].call = "pending"
  <2>1. op[s].draft = "creating-gmail-draft" /\ gmail[s].drafts = 0
    BY <1>3 DEF CreationInv, CreationOf
  <2>. QED  BY <1>1, <2>1 DEF CreationOf, Untried
<1>4. CASE ~(\E r \in Requests : Creating(r, s) /\ req[r].call = "pending")
  BY <1>1, <1>2, <1>4 DEF CreationInv, CreationOf
<1>. QED  BY <1>3, <1>4

LEMMA CreationStep ==
  ASSUME ~WritesMayFail, IInv, CreationInv, [Next]_vars
  PROVE  CreationInv'
<1>. SUFFICES ASSUME NEW s \in Snapshots
              PROVE  CreationOf(s)'
  BY DEF CreationInv
<1>1. ASSUME Quiet(s)
      PROVE  CreationOf(s)'
  BY <1>1, QuietCreation DEF CreationInv
<1>2. ASSUME NEW r \in Requests, Advance(r)
      PROVE  CreationOf(s)'
  BY <1>1, <1>2, AdvanceQuiet, BeginCreation, EndedCreation DEF Advance
<1>3. ASSUME NEW r \in Requests, Start(r)
      PROVE  CreationOf(s)'
  BY <1>1, <1>3, OthersQuiet
<1>4. CASE World
  BY <1>1, <1>4, OthersQuiet, AcceptedCreation, ArrivedCreation DEF World
<1>5. CASE Operator \/ UNCHANGED vars
  BY <1>1, <1>5, OthersQuiet
<1>6. CASE Crash
  BY <1>6, CrashedCreation
<1>. QED  BY <1>2, <1>3, <1>4, <1>5, <1>6 DEF Next

\* While no local commit fails, no snapshot ever has two drafts in the mailbox, however
\* creations are retried, time out or are interrupted.  The hypothesis is needed: with a
\* failing commit the code records a draft that exists as a definitive failure.
THEOREM DraftsAreSingle ==
  ASSUME ~WritesMayFail
  PROVE  Spec => []AtMostOneGmailDraft
<1>1. Init => IInv /\ CreationInv
  BY InvariantInit DEF Init, CreationInv, CreationOf, Creating, Idle
<1>2. (IInv /\ CreationInv) /\ [Next]_vars => (IInv /\ CreationInv)'
  BY InvariantStep, CreationStep
<1>3. CreationInv => AtMostOneGmailDraft
  BY DEF CreationInv, CreationOf, AtMostOneGmailDraft
<1>. QED  BY <1>1, <1>2, <1>3, PTL DEF Spec

-----------------------------------------------------------------------------
(* What RequestsFinish and SentIsRecorded rest on besides fairness: a       *)
(* request never returns to a phase it left, and a confirmed send without   *)
(* its contact record has a request that is about to write it.              *)

\* The phases a request has at most before it ends.
PhasesLeft(phase) ==
  CASE phase = "idle"          -> 0
    [] phase = "record"        -> 1
    [] phase = "send-call"     -> 2
    [] phase = "send-begin"    -> 3
    [] phase = "send-load"     -> 4
    [] phase = "create-call"   -> 5
    [] phase = "create-begin"  -> 6
    [] phase = "create-load"   -> 7
    [] phase = "approve-write" -> 8
    [] OTHER                   -> 9

\* A step of the process takes its request to a later phase; every other step leaves a
\* request in its phase, ends it or begins it.
GoesForward ==
  \A r \in Requests :
    /\ Advance(r) => PhasesLeft(req'[r].pc) < PhasesLeft(req[r].pc)
    /\ req[r].pc # "idle" =>
         \/ req'[r].pc = req[r].pc
         \/ PhasesLeft(req'[r].pc) < PhasesLeft(req[r].pc)
    /\ req[r].pc # "idle" /\ req'[r].pc # "idle" => req'[r].target = req[r].target

LEMMA PhaseNumbers ==
  /\ PhasesLeft("idle") = 0 /\ PhasesLeft("record") = 1 /\ PhasesLeft("send-call") = 2
  /\ PhasesLeft("send-begin") = 3 /\ PhasesLeft("send-load") = 4
  /\ PhasesLeft("create-call") = 5 /\ PhasesLeft("create-begin") = 6
  /\ PhasesLeft("create-load") = 7 /\ PhasesLeft("approve-write") = 8
  /\ PhasesLeft("approve-load") = 9 /\ PhasesLeft("approve-edited-load") = 9
BY DEF PhasesLeft

\* The three ways a request moves on keep its target and the other requests.
LEMMA ForwardMoves ==
  ASSUME TypeOK, NEW r \in Requests
  PROVE  /\ Finish(r) => /\ req'[r].pc = "idle"
                         /\ \A q \in Requests \ {r} : req'[q] = req[q]
         /\ \A phase : Enter(r, phase) \/ Dispatch(r, phase) =>
               /\ req'[r].pc = phase /\ req'[r].target = req[r].target
               /\ \A q \in Requests \ {r} : req'[q] = req[q]
<1>1. req \in [Requests -> Request] /\ req[r] \in Request
  BY DEF TypeOK
<1>2. ASSUME NEW phase, Enter(r, phase) \/ Dispatch(r, phase)
      PROVE  /\ req'[r].pc = phase /\ req'[r].target = req[r].target
             /\ \A q \in Requests \ {r} : req'[q] = req[q]
  <2>1. PICK call \in {"none", "pending"} :
           req' = [req EXCEPT ![r] = [@ EXCEPT !.pc = phase, !.call = call]]
    BY <1>2 DEF Enter, Dispatch
  <2>. QED  BY <1>1, <2>1 DEF Request
<1>. QED  BY <1>1, <1>2 DEF Finish, Idle

LEMMA AdvanceForward ==
  ASSUME TypeOK, NEW r \in Requests, Advance(r)
  PROVE  /\ PhasesLeft(req'[r].pc) < PhasesLeft(req[r].pc)
         /\ req'[r].pc # "idle" => req'[r].target = req[r].target
         /\ \A q \in Requests \ {r} : req'[q] = req[q]
<1>1. CASE ApproveLoad(r)
  BY <1>1, PhaseNumbers, ForwardMoves DEF ApproveLoad
<1>2. CASE ApproveWrite(r)
  <2>1. /\ req[r].pc = "approve-write"
        /\ Finish(r) \/ Enter(r, "send-load") \/ Enter(r, "create-load")
    BY <1>2 DEF ApproveWrite
  <2>. QED  BY <2>1, PhaseNumbers, ForwardMoves
<1>3. CASE CreateLoad(r)
  BY <1>3, PhaseNumbers, ForwardMoves DEF CreateLoad
<1>4. CASE CreateBegin(r)
  <2>1. /\ req[r].pc = "create-begin"
        /\ Finish(r) \/ Enter(r, "send-load") \/ Dispatch(r, "create-call")
    BY <1>4 DEF CreateBegin, AfterCreate
  <2>. QED  BY <2>1, PhaseNumbers, ForwardMoves
<1>5. CASE CreateCompletes(r)
  <2>1. /\ req[r].pc = "create-call"
        /\ Finish(r) \/ Enter(r, "send-load")
    BY <1>5 DEF CreateCompletes, AfterCreate
  <2>. QED  BY <2>1, PhaseNumbers, ForwardMoves
<1>6. CASE \E unknown \in BOOLEAN : CreateFails(r, unknown)
  BY <1>6, PhaseNumbers, ForwardMoves DEF CreateFails
<1>7. CASE SendLoad(r)
  BY <1>7, PhaseNumbers, ForwardMoves DEF SendLoad
<1>8. CASE SendBegin(r)
  BY <1>8, PhaseNumbers, ForwardMoves DEF SendBegin
<1>9. CASE SendCompletes(r)
  BY <1>9, PhaseNumbers, ForwardMoves DEF SendCompletes
<1>10. CASE SendUnresolved(r)
  BY <1>10, PhaseNumbers, ForwardMoves DEF SendUnresolved
<1>11. CASE RecordContact(r)
  BY <1>11, PhaseNumbers, ForwardMoves DEF RecordContact
<1>12. CASE Refuse(r)
  BY <1>12, PhaseNumbers, ForwardMoves DEF Refuse
<1>. QED  BY <1>1, <1>2, <1>3, <1>4, <1>5, <1>6, <1>7, <1>8, <1>9, <1>10, <1>11, <1>12
          DEF Advance

\* What moves no request, ends them all, or begins an idle one.
LEMMA OthersForward ==
  ASSUME TypeOK, [Next]_vars, ~ \E r \in Requests : Advance(r), NEW q \in Requests
  PROVE  \/ req'[q].pc = req[q].pc /\ req'[q].target = req[q].target
         \/ req[q].pc = "idle"
         \/ req'[q].pc = "idle"
<1>. USE DEF TypeOK
<1>1. ASSUME NEW r \in Requests, Start(r)
      PROVE  req'[q] = req[q] \/ req[q].pc = "idle"
  BY <1>1 DEF Start, StartApproveDraft, StartApproveEdited, StartCreateGmailDraft,
              StartSendGmailDraft, StartConfirmAndSend, Begin
<1>2. CASE Operator
  BY <1>2 DEF Operator, ConfirmAlreadySent, ReportHardBounce, ReportOutcome, ReconcileSend,
              RecordDisposition, SkipExpires
<1>3. ASSUME NEW r \in Requests, GmailCreatesDraft(r) \/ GmailSends(r)
      PROVE  req'[q].pc = req[q].pc /\ req'[q].target = req[q].target
  <2>1. PICK call \in {"accepted", "rejected"} :
           req' = [req EXCEPT ![r] = [@ EXCEPT !.call = call]]
    BY <1>3 DEF GmailCreatesDraft, GmailSends
  <2>. QED  BY <2>1 DEF Request
<1>4. ASSUME NEW s \in Snapshots, NEW k \in {"create", "send"},
             OperatorSendsInGmail(s) \/ StrayArrives(k, s)
      PROVE  req' = req
  BY <1>4 DEF OperatorSendsInGmail, StrayArrives
<1>5. CASE Crash
  BY <1>5 DEF Crash, Idle
<1>6. CASE UNCHANGED vars
  BY <1>6 DEF vars
<1>. QED  BY <1>1, <1>2, <1>3, <1>4, <1>5, <1>6 DEF Next, World

LEMMA ForwardStep ==
  ASSUME TypeOK, [Next]_vars
  PROVE  GoesForward
<1>. SUFFICES ASSUME NEW q \in Requests
              PROVE  /\ Advance(q) => PhasesLeft(req'[q].pc) < PhasesLeft(req[q].pc)
                     /\ req[q].pc # "idle" =>
                          \/ req'[q].pc = req[q].pc
                          \/ PhasesLeft(req'[q].pc) < PhasesLeft(req[q].pc)
                     /\ req[q].pc # "idle" /\ req'[q].pc # "idle" =>
                          req'[q].target = req[q].target
  BY DEF GoesForward
<1>1. CASE \E r \in Requests : Advance(r)
  BY <1>1, AdvanceForward
<1>2. CASE ~ \E r \in Requests : Advance(r)
  <2>1. req[q].pc # "idle" => PhasesLeft(req[q].pc) \in Nat \ {0}
    BY DEF PhasesLeft
  <2>2. PhasesLeft("idle") = 0
    BY DEF PhasesLeft
  <2>. QED  BY <1>2, <2>1, <2>2, OthersForward
<1>. QED  BY <1>1, <1>2

\* However requests, the operator, Gmail and crashes interleave, a server action runs
\* through at most nine phases and each step of the process brings it to a later one, so
\* an action that keeps being scheduled ends.
THEOREM RequestsGoForward == Spec => [][GoesForward]_vars
<1>1. TypeOK /\ [Next]_vars => [GoesForward]_vars
  BY ForwardStep
<1>. QED  BY TypeCorrect, <1>1, PTL DEF Spec

\* A request that has yet to write the contact record of s.
Recording(s) == \E r \in Requests : req[r].pc = "record" /\ req[r].target = s

RecordIsOwed ==
  crashes = 0 =>
    \A s \in Resolvable : op[s].send = "sent" => Contacted(s) \/ Recording(s)

LEMMA CrashesStep ==
  ASSUME TypeOK, [Next]_vars, crashes' = 0
  PROVE  crashes = 0 /\ ~Crash
<1>1. ~Crash
  BY DEF Crash, TypeOK
<1>2. ASSUME NEW r \in Requests, Start(r)
      PROVE  crashes' = crashes
  BY <1>2 DEF Start, StartApproveDraft, StartApproveEdited, StartCreateGmailDraft,
              StartSendGmailDraft, StartConfirmAndSend, Begin
<1>3. ASSUME NEW r \in Requests, Advance(r)
      PROVE  crashes' = crashes
  BY <1>3 DEF Advance, ApproveLoad, ApproveWrite, CreateLoad, CreateBegin, CreateCompletes,
              CreateFails, SendLoad, SendBegin, SendCompletes, SendUnresolved,
              RecordContact, Refuse
<1>4. ASSUME Operator \/ World \/ UNCHANGED vars
      PROVE  crashes' = crashes
  BY <1>4 DEF Operator, ConfirmAlreadySent, ReportHardBounce, ReportOutcome, ReconcileSend,
              RecordDisposition, SkipExpires, World, GmailCreatesDraft, GmailSends,
              OperatorSendsInGmail, StrayArrives, vars
<1>. QED  BY <1>1, <1>2, <1>3, <1>4 DEF Next

\* A send that becomes recorded as sent leaves its contact record, or a request about to
\* write it.
LEMMA SentOwes ==
  ASSUME IInv, [Next]_vars, NEW s \in Snapshots, op[s].send # "sent", op'[s].send = "sent"
  PROVE  Contacted(s)' \/ Recording(s)'
<1>. USE DEF IInv
<1>1. ASSUME NEW r \in Requests, SendCompletes(r)
      PROVE  Recording(s)'
  <2>1. /\ req[r].target = s
        /\ req' = [req EXCEPT ![r].pc = "record", ![r].call = "none"]
    BY <1>1 DEF SendCompletes, RequestInv, TypeOK, Enter
  <2>. QED  BY <2>1 DEF Recording, TypeOK, Request
<1>2. ASSUME NEW t \in Snapshots, NEW o \in {"sent", "not-sent"}, ReconcileSend(t, o)
      PROVE  Contacted(s)'
  <2>1. t = s /\ o = "sent"
    BY <1>2 DEF ReconcileSend, TypeOK
  <2>. QED  BY <1>2, <2>1 DEF ReconcileSend, Record, Contacted, TypeOK
<1>3. ASSUME NEW r \in Requests, Advance(r)
      PROVE  SendCompletes(r)
  <2>1. req[r].pc # "idle" => req[r].target \in Snapshots
    BY DEF RequestInv
  <2>2. ~ (ApproveLoad(r) \/ CreateLoad(r) \/ SendLoad(r) \/ Refuse(r) \/ RecordContact(r))
    BY DEF ApproveLoad, CreateLoad, SendLoad, Refuse, RecordContact, store
  <2>3. ~ (ApproveWrite(r) \/ CreateBegin(r) \/ CreateCompletes(r))
    BY <2>1 DEF ApproveWrite, CreateBegin, CreateCompletes, TypeOK, Operation
  <2>4. ASSUME NEW unknown \in BOOLEAN, CreateFails(r, unknown)
        PROVE  FALSE
    <3>1. \/ op' = op
          \/ \E d \in DraftStates : op' = [op EXCEPT ![req[r].target].draft = d]
      BY <2>4 DEF CreateFails, DraftStates
    <3>2. op[s] \in Operation /\ op \in [Snapshots -> Operation]
      BY DEF TypeOK
    <3>3. ASSUME NEW d \in DraftStates, op' = [op EXCEPT ![req[r].target].draft = d]
          PROVE  op'[s] = op[s] \/ op'[s] = [op[s] EXCEPT !.draft = d]
      BY <3>2, <3>3
    <3>. QED  BY <3>1, <3>2, <3>3 DEF Operation
  <2>5. ~ (SendBegin(r) \/ SendUnresolved(r))
    BY <2>1 DEF SendBegin, SendUnresolved, TypeOK, Operation
  <2>. QED  BY <1>3, <2>2, <2>3, <2>4, <2>5 DEF Advance
<1>4. ASSUME op' # op, ~ \E r \in Requests : Advance(r)
      PROVE  \E t \in Snapshots, o \in {"sent", "not-sent"} : ReconcileSend(t, o)
  BY <1>4 DEF Next, Start, StartApproveDraft, StartApproveEdited, StartCreateGmailDraft,
              StartSendGmailDraft, StartConfirmAndSend, Begin, World, GmailCreatesDraft,
              GmailSends, OperatorSendsInGmail, StrayArrives, Crash, Operator,
              ConfirmAlreadySent, ReportHardBounce, ReportOutcome, RecordDisposition,
              SkipExpires, store, vars
<1>. QED  BY <1>1, <1>2, <1>3, <1>4

\* The record that is owed is written by the step that ends its request.
LEMMA OwedIsWritten ==
  ASSUME IInv, [Next]_vars, ~Crash, NEW s \in Resolvable, op[s].send = "sent",
         ~Contacted(s), Recording(s)
  PROVE  Contacted(s)' \/ Recording(s)'
<1>. USE DEF IInv
<1>1. PICK r \in Requests : req[r].pc = "record" /\ req[r].target = s
  BY DEF Recording
<1>2. s \in Snapshots
  BY SnapshotAssumption
<1>3. CASE Advance(r)
  <2>1. RecordContact(r)
    BY <1>1, <1>3 DEF Advance, ApproveLoad, ApproveWrite, CreateLoad, CreateBegin,
              CreateCompletes, CreateFails, SendLoad, SendBegin, SendCompletes,
              SendUnresolved, Refuse
  <2>2. CanRecord(s)
    BY <1>2 DEF OperationInv, CanRecord
  <2>. QED  BY <1>1, <1>2, <2>1, <2>2 DEF RecordContact, Record, Contacted, TypeOK
<1>4. CASE ~Advance(r)
  <2>1. CASE \E q \in Requests : Advance(q)
    BY <1>1, <1>4, <2>1, AdvanceForward DEF Recording
  <2>2. CASE ~ \E q \in Requests : Advance(q)
    <3>1. req'[r].pc # "idle"
      <4>1. ASSUME NEW q \in Requests, Start(q)
            PROVE  req'[r] = req[r]
        BY <1>1, <4>1 DEF Start, StartApproveDraft, StartApproveEdited, StartCreateGmailDraft,
              StartSendGmailDraft, StartConfirmAndSend, Begin, TypeOK
      <4>2. ASSUME NEW q \in Requests, GmailCreatesDraft(q) \/ GmailSends(q)
            PROVE  req'[r].pc = req[r].pc
        <5>1. PICK call \in {"accepted", "rejected"} :
                 req' = [req EXCEPT ![q] = [@ EXCEPT !.call = call]]
          BY <4>2 DEF GmailCreatesDraft, GmailSends
        <5>. QED  BY <5>1 DEF TypeOK, Request
      <4>3. ASSUME NEW t \in Snapshots, NEW k \in {"create", "send"},
                   OperatorSendsInGmail(t) \/ StrayArrives(k, t)
            PROVE  req' = req
        BY <4>3 DEF OperatorSendsInGmail, StrayArrives
      <4>4. ASSUME Operator \/ UNCHANGED vars
            PROVE  req' = req
        BY <4>4 DEF Operator, ConfirmAlreadySent, ReportHardBounce, ReportOutcome,
              ReconcileSend, RecordDisposition, SkipExpires, vars
      <4>. QED  BY <1>1, <2>2, <4>1, <4>2, <4>3, <4>4 DEF Next, World
    <3>. QED  BY <1>1, <2>2, <3>1, OthersForward DEF Recording
  <2>. QED  BY <2>1, <2>2
<1>. QED  BY <1>3, <1>4

\* While the process has not crashed, a confirmed send of a person the ledger can resolve
\* has its contact record or a request that has only that record left to write, although
\* the two are separate transactions between which other requests, the operator and Gmail
\* act (sendAndRecordCommandCenterDraft).
THEOREM RecordsAreOwed == Spec => []RecordIsOwed
<1>1. Init => RecordIsOwed
  BY SnapshotAssumption DEF Init, RecordIsOwed, NoOperation
<1>2. ASSUME IInv, RecordIsOwed, [Next]_vars
      PROVE  RecordIsOwed'
  <2>. SUFFICES ASSUME crashes' = 0, NEW s \in Resolvable, op'[s].send = "sent"
                PROVE  Contacted(s)' \/ Recording(s)'
    BY DEF RecordIsOwed
  <2>1. crashes = 0 /\ ~Crash /\ s \in Snapshots
    BY <1>2, CrashesStep, SnapshotAssumption DEF IInv
  <2>2. CASE op[s].send # "sent"
    BY <1>2, <2>1, <2>2, SentOwes
  <2>3. CASE op[s].send = "sent" /\ Contacted(s)
    BY <1>2, <2>1, <2>3, RowsAdvance
  <2>4. CASE op[s].send = "sent" /\ ~Contacted(s)
    <3>1. Recording(s)
      BY <1>2, <2>1, <2>4 DEF RecordIsOwed
    <3>. QED  BY <1>2, <2>1, <2>4, <3>1, OwedIsWritten
  <2>. QED  BY <2>2, <2>3, <2>4
<1>. QED  BY Invariance, <1>1, <1>2, PTL DEF Spec
==============================================================================
