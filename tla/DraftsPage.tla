------------------------------ MODULE DraftsPage ------------------------------
(***************************************************************************)
(* The Drafts workspace: one browser tab beside the server.                *)
(*                                                                         *)
(* The tab works on the rows the server rendered for it last.  Which row   *)
(* is selected, which dialog is open and what was typed live in the tab;   *)
(* they outlive every answer of a server action, because an answer renders *)
(* the same component with new rows.  Meanwhile other tabs, the reviews of *)
(* Candidates and the command line change the queue.  A form is filled in  *)
(* from the row that is selected when it is submitted.                     *)
(*                                                                         *)
(* The server's side is DraftQueue and GmailOutreach, reduced to what the  *)
(* page can tell apart: a queue in an order, a draft, an operation and a   *)
(* class per person.  A tab has one form under way; the framework runs the *)
(* server actions of a tab one after the other.  The five-bucket feature   *)
(* is on and Gmail is available.                                           *)
(***************************************************************************)
EXTENDS Naturals, Sequences, FiniteSets

CONSTANTS
  People, NoOne,
  Queued, Waiting,   \* the queue at first; the reserve, in its order
  Recruiters,        \* those of them whose messages need a decision on the resume
  Bucket, Legacy,    \* recipient buckets, and the bucket of drafts that have none
  BucketOf,          \* of each draft when it is made
  DefaultResume,     \* the attachment a draft is offered with
  Patches,           \* the fields the operator edits, and to what
  MaxEdits, MaxElsewhere, MaxReloads   \* bounds

Resumes == {"none", "cv"}
Class   == Bucket \cup {Legacy}
Texts   == {"first", "again", "edited"} \* as rendered, as rendered anew, as typed

Edit == [text : Texts, resume : Resumes, without : {"yes", "no"}]

ASSUME PageAssumption ==
  /\ Queued \in Seq(People) /\ Waiting \in Seq(People) /\ NoOne \notin People
  /\ Recruiters \subseteq People /\ BucketOf \in [People -> Bucket \cup {Legacy}]
  /\ Legacy \notin Bucket
  /\ DefaultResume \in [People -> Resumes]
  /\ Patches \subseteq Resumes \cup {"edited", "without"}
  /\ MaxEdits \in Nat /\ MaxElsewhere \in Nat /\ MaxReloads \in Nat

VARIABLES
  order, reserve,  \* the queue and what can still be drafted
  draft,           \* the stored draft of each person
  op,              \* the Gmail operation of each person, with its frozen content
  class,           \* the bucket a person is classified to now
  blocked,         \* people with a reason against writing to them
  page,            \* the state of the tab
  edits, saved,    \* what was typed: in the component, in the session storage
  task,            \* the form under way
  typed,           \* history: the latest edit the operator made to each draft
  delivered,       \* history: for what the operator confirmed, what was mailed
  elsewhere, reloads

queueVars == <<order, reserve, draft, op>>
serverVars == <<order, reserve, draft, op, class, blocked>>
editVars == <<edits, saved, typed>>
boundVars == <<elsewhere, reloads>>
vars == <<serverVars, page, editVars, task, delivered, boundVars>>

\* A snapshot id is a hash of person, text and catalogue.  The catalogue of a stored
\* draft names its bucket, that of a frozen message and of a legacy draft does not: only
\* an unedited legacy draft has the id of the operation it becomes.
Id == [person : People, text : Texts, of : {"draft", "operation"}]
DraftId(p) == [person |-> p, text |-> draft[p].text,
               of |-> IF draft[p].bucket = Legacy THEN "operation" ELSE "draft"]
OperationId(p) == [person |-> p, text |-> op[p].text, of |-> "operation"]

NoEdit == [text |-> "first", resume |-> "none", without |-> "unset"]

States == {"ready", "approved", "gmail-draft-created", "needs-send-verification"}
Message == [person : People, text : Texts, resume : Resumes]
Row == [id : Id, person : People, state : States, text : Texts, resume : Resumes,
        bucket : Class, changed : BOOLEAN, blocked : BOOLEAN]
NoForm == [kind |-> "none"]
Kinds == {"send", "reconcile", "skip", "replace", "keep-edits", "regenerate", "create"}

TypeOK ==
  /\ order \in Seq(People) /\ reserve \in Seq(People)
  /\ draft \in [People -> [text : Texts, bucket : Class]]
  /\ op \in [People -> [state : States \cup {"sent"}, text : Texts, resume : Resumes]]
  /\ class \in [People -> Class] /\ blocked \subseteq People
  /\ page \in [rows : Seq(Row), view : Class \cup {"all"}, selected : People \cup {NoOne},
               mount : {"loading", "ready", "error"},
               dialog : {"none", "send", "reconcile"}, opened : People \cup {NoOne}]
  /\ \A e \in {edits, saved, typed} : e \in [Id -> Edit \cup {NoEdit}]
  /\ task = NoForm \/ (task.kind \in Kinds /\ task.step \in {"asked", "frozen", "answered", "thrown"})
  /\ delivered \subseteq [confirmed : Message, mailed : Message]
  /\ elsewhere \in 0..MaxElsewhere /\ reloads \in 0..MaxReloads

-----------------------------------------------------------------------------
(* What the server renders.                                                 *)

Elements(s) == {s[i] : i \in DOMAIN s}

\* The members of S in s, in their order.
Only(s, S) ==
  LET kept[i \in 0..Len(s)] ==
        IF i = 0 THEN <<>> ELSE IF s[i] \in S THEN Append(kept[i - 1], s[i]) ELSE kept[i - 1]
  IN kept[Len(s)]

InQueue(p) == p \in Elements(order) /\ op[p].state # "sent"
Changed(p) == op[p].state = "ready" /\ class[p] # draft[p].bucket

\* A row whose operation exists shows the frozen content.
RowOf(p) ==
  LET ready == op[p].state = "ready" IN
  [id |-> IF ready THEN DraftId(p) ELSE OperationId(p),
   person |-> p, state |-> op[p].state,
   text   |-> IF ready THEN draft[p].text ELSE op[p].text,
   resume |-> IF ready THEN DefaultResume[p] ELSE op[p].resume,
   bucket |-> draft[p].bucket, changed |-> Changed(p), blocked |-> p \in blocked]

Rendered ==
  LET shown == Only(order, {p \in People : InQueue(p)}) IN [i \in DOMAIN shown |-> RowOf(shown[i])]

-----------------------------------------------------------------------------
(* What the tab shows.                                                      *)

View(rows, view) ==
  Only(rows, {row \in Elements(rows) :
                IF view = "all" THEN row.bucket # Legacy ELSE row.bucket = view})
Visible == View(page.rows, page.view)
PositionOf(p) == CHOOSE i \in DOMAIN Visible : Visible[i].person = p
IsVisible(p) == \E i \in DOMAIN Visible : Visible[i].person = p

\* The selected person, else the first of the view.
Shown == IF IsVisible(page.selected) THEN Visible[PositionOf(page.selected)] ELSE Visible[1]

\* Local edits count only for a draft that is still to be approved.
EditKey(row) == row.id
HasEdit(row) == row.state = "ready" /\ edits[EditKey(row)] # NoEdit
ShownText(row) == IF HasEdit(row) THEN edits[EditKey(row)].text ELSE row.text
ShownResume(row) == IF HasEdit(row) THEN edits[EditKey(row)].resume ELSE row.resume
Without(row) == HasEdit(row) /\ edits[EditKey(row)].without = "yes"
ShownMessage(row) ==
  [person |-> row.person, text |-> ShownText(row), resume |-> ShownResume(row)]

ResumeDecided(row) ==
  row.person \notin Recruiters \/ ShownResume(row) # "none" \/ Without(row)

PrimaryBlocked(row) ==
  \/ page.mount # "ready"
  \/ ~ResumeDecided(row)
  \/ row.changed
  \/ row.blocked /\ row.state # "needs-send-verification"

Usable == page.mount \in {"loading", "ready"} /\ Visible # <<>>

-----------------------------------------------------------------------------
Mounted(rows, view, selected) ==
  [rows |-> rows, view |-> view, selected |-> selected, mount |-> "loading",
   dialog |-> "none", opened |-> NoOne]

Init ==
  /\ order = Queued /\ reserve = Waiting
  /\ draft = [p \in People |-> [text |-> "first", bucket |-> BucketOf[p]]]
  /\ op = [p \in People |-> [state |-> "ready", text |-> "first", resume |-> "none"]]
  /\ class = BucketOf /\ blocked = {}
  /\ page = Mounted(Rendered, "all", NoOne)
  /\ edits = [i \in Id |-> NoEdit] /\ saved = edits /\ typed = edits
  /\ task = NoForm /\ delivered = {} /\ elsewhere = 0 /\ reloads = 0

-----------------------------------------------------------------------------
(* The tab.                                                                 *)

\* The edits of an earlier visit are read a frame after the first rendering.
RestoreEdits ==
  /\ page.mount = "loading"
  /\ page' = [page EXCEPT !.mount = "ready"]
  /\ edits' = saved
  /\ UNCHANGED <<serverVars, saved, typed, task, delivered, boundVars>>

Select(p) ==
  /\ Usable /\ page.dialog = "none" /\ IsVisible(p)
  /\ page' = [page EXCEPT !.selected = p]
  /\ UNCHANGED <<serverVars, editVars, task, delivered, boundVars>>

\* J and K start from the first row when the selected draft has left the view.
Move(step) ==
  /\ Usable /\ page.dialog = "none"
  /\ LET here == IF IsVisible(page.selected) THEN PositionOf(page.selected) ELSE 1
         next == IF step = "down" THEN here + 1 ELSE here - 1
     IN /\ next \in DOMAIN Visible
        /\ page' = [page EXCEPT !.selected = Visible[next].person]
  /\ UNCHANGED <<serverVars, editVars, task, delivered, boundVars>>

SelectBucket(view) ==
  /\ page.mount # "error" /\ page.dialog = "none" /\ view # page.view
  /\ LET rows == View(page.rows, view)
         kept == \E i \in DOMAIN rows : rows[i].person = page.selected
     IN page' = [page EXCEPT !.view = view,
                   !.selected = IF kept THEN @ ELSE IF rows = <<>> THEN NoOne ELSE rows[1].person]
  /\ UNCHANGED <<serverVars, editVars, task, delivered, boundVars>>

MayEditAlways(row) == row.state = "ready" \* mutant: the fields are open while edits load
MayEdit(row) == row.state = "ready" /\ page.mount = "ready"

Applies(patch, row) ==
  patch = "without" => row.person \in Recruiters /\ ShownResume(row) = "none"
Patched(edit, row, patch) ==
  LET whole == IF edit = NoEdit THEN [text |-> row.text, resume |-> row.resume, without |-> "no"]
               ELSE edit
  IN CASE patch = "edited"  -> [whole EXCEPT !.text = "edited"]
       [] patch = "without" -> [whole EXCEPT !.without = "yes"]
       [] OTHER             -> [whole EXCEPT !.resume = patch, !.without = "no"]

\* A change of one field; the whole edit is stored, here and for later visits.
TypeEdit(patch) ==
  /\ Usable /\ page.dialog = "none" /\ MayEdit(Shown) /\ Applies(patch, Shown)
  /\ Cardinality({i \in Id : typed[i] # NoEdit} \cup {Shown.id}) <= MaxEdits
  /\ typed' = [typed EXCEPT ![Shown.id] = Patched(@, Shown, patch)]
  /\ edits' = [edits EXCEPT ![EditKey(Shown)] = Patched(@, Shown, patch)]
  /\ saved' = edits'
  /\ UNCHANGED <<serverVars, page, task, delivered, boundVars>>

\* S, or the button of the dock.
OpenPrimary ==
  /\ Usable /\ page.dialog = "none" /\ ~PrimaryBlocked(Shown)
  /\ page' = [page EXCEPT !.opened = Shown.person,
       !.dialog = IF Shown.state = "needs-send-verification" THEN "reconcile" ELSE "send"]
  /\ UNCHANGED <<serverVars, editVars, task, delivered, boundVars>>

\* Escape, Cancel or a click beside the dialog.
CloseDialog ==
  /\ page.dialog # "none"
  /\ page' = [page EXCEPT !.dialog = "none", !.opened = NoOne]
  /\ UNCHANGED <<serverVars, editVars, task, delivered, boundVars>>

Submit(form) ==
  /\ task = NoForm
  /\ task' = form
  /\ UNCHANGED <<serverVars, page, editVars, delivered, boundVars>>

Form(kind) ==
  [kind |-> kind, step |-> "asked", id |-> Shown.id, message |-> ShownMessage(Shown),
   without |-> Without(Shown), choice |-> "none", heard |-> "yes"]

\* The dialogs are filled in from the selected row, not from the one they were opened on.
ConfirmSend == Usable /\ page.dialog = "send" /\ Submit(Form("send"))
SaveStatus(outcome) ==
  /\ Usable /\ page.dialog = "reconcile"
  /\ Submit([Form("reconcile") EXCEPT !.choice = outcome])

SubmitSkip ==
  /\ Usable /\ page.dialog = "none" /\ Shown.state # "needs-send-verification"
  /\ Submit(Form("skip"))
SubmitReplace ==
  /\ Usable /\ page.dialog = "none" /\ Shown.state # "needs-send-verification"
  /\ page.view \in Bucket
  /\ Submit([Form("replace") EXCEPT !.choice = page.view])
SubmitDecision(kind) ==
  /\ Usable /\ page.dialog = "none" /\ Shown.changed
  /\ kind = "keep-edits" => page.mount = "ready"
  /\ Submit(Form(kind))
SubmitCreation(bucket) ==
  /\ page.mount # "error" /\ page.dialog = "none"
  /\ page.view \in {"all", Legacy, bucket}
  /\ Submit([kind |-> "create", step |-> "asked", choice |-> bucket, heard |-> "yes"])

\* The address names a view and any person, also one that is gone.  The server goes on
\* with a form whose answer nobody waits for.  On the error page this is Try again.
Reload(view, p) ==
  /\ \/ page.mount = "error" /\ UNCHANGED reloads
     \/ page.mount # "error" /\ reloads < MaxReloads /\ reloads' = reloads + 1
  /\ page' = LET rows == View(Rendered, view)
                 named == \E i \in DOMAIN rows : rows[i].person = p
             IN Mounted(Rendered, view, IF named THEN p
                                        ELSE IF rows = <<>> THEN NoOne ELSE rows[1].person)
  /\ edits' = [i \in Id |-> NoEdit]
  /\ task' = IF task = NoForm THEN task ELSE [task EXCEPT !.heard = "no"]
  /\ UNCHANGED <<serverVars, saved, typed, delivered, elsewhere>>

-----------------------------------------------------------------------------
(* The server: what each command does to the store, whoever gives it.       *)

\* Review, approval and freezing of one message: approveEditedCommandCenterDraft.
MayApprove(p, id, resume, without) ==
  /\ InQueue(p) /\ op[p].state = "ready" /\ id = DraftId(p)
  /\ p \notin blocked /\ ~Changed(p)
  /\ p \in Recruiters => resume # "none" \/ without
Freeze(p, message) ==
  op' = [op EXCEPT ![p] = [state |-> "approved", text |-> message.text, resume |-> message.resume]]

\* Creation of the Gmail draft, then the send.  Each may be refused, and the send may go
\* unanswered; nothing is created or sent for a blocked person.
Progress(p) ==
  CASE op[p].state = "sent" -> {"sent"}
    [] op[p].state = "needs-send-verification" \/ p \in blocked \/ ~InQueue(p) -> {op[p].state}
    [] OTHER -> {op[p].state, "gmail-draft-created", "needs-send-verification", "sent"}
Advance(p, state) == op' = [op EXCEPT ![p].state = state]

MayDismiss(p) == InQueue(p) /\ op[p].state # "needs-send-verification"
Remove(p) == order' = Only(order, People \ {p})

\* Only a draft of the bucket that was never approved is replaced.
MayReplace(p, bucket) == InQueue(p) /\ op[p].state = "ready" /\ draft[p].bucket = bucket

\* The next person of the bucket takes the place of p; without one p keeps it.
Supply(bucket) == {i \in DOMAIN reserve : BucketOf[reserve[i]] = bucket}
FirstOf(bucket) == reserve[CHOOSE i \in Supply(bucket) : \A j \in Supply(bucket) : i <= j]
Taken(p) == reserve' = Only(reserve, People \ {p})
PutInPlace(p, bucket) ==
  IF Supply(bucket) = {} THEN UNCHANGED <<order, reserve>>
  ELSE /\ order' = [i \in DOMAIN order |-> IF order[i] = p THEN FirstOf(bucket) ELSE order[i]]
       /\ Taken(FirstOf(bucket))

MayDecide(p, id) == InQueue(p) /\ Changed(p) /\ id = DraftId(p)
Decide(p, text) == draft' = [draft EXCEPT ![p] = [text |-> text, bucket |-> class[p]]]

ReconciledVerbatim(p, outcome) == Advance(p, outcome) \* mutant: the verdict as the state
Reconciled(p, outcome) ==
  IF outcome = "still-uncertain" THEN UNCHANGED op
  ELSE Advance(p, IF outcome = "sent" THEN "sent" ELSE "gmail-draft-created")

-----------------------------------------------------------------------------
(* The server: the form under way.                                          *)

Answer(step) == task' = [task EXCEPT !.step = step]
Person == task.message.person

\* Frozen content is compared with the form, field by field.
ExactContentButResume == \* mutant: the attachment is not compared
  task.message.text = op[Person].text
ExactContent ==
  task.message.text = op[Person].text /\ task.message.resume = op[Person].resume

\* What becomes of a refused approval: the page names a stale draft, a missing decision
\* and most reasons against a person; a draft that is gone, one whose bucket is still to be
\* decided and a reason the page has no words for are thrown.
Current(p, id) == op[p].state = "ready" /\ id = DraftId(p)
Refused(p, id) ==
  \/ InQueue(p) /\ ~(Current(p, id) /\ Changed(p)) /\ Answer("answered")
  \/ (InQueue(p) => Current(p, id) /\ (Changed(p) \/ p \in blocked)) /\ Answer("thrown")

\* confirmAndSendDraft: an operation of the submitted id must be exactly what was shown;
\* without one the content is approved now.
FindOperation ==
  /\ task # NoForm /\ task.kind = "send" /\ task.step = "asked"
  /\ LET found == op[Person].state # "ready" /\ task.id = OperationId(Person)
     IN IF found THEN /\ Answer(IF ExactContent THEN "frozen" ELSE "answered")
                      /\ UNCHANGED op
        ELSE IF MayApprove(Person, task.id, task.message.resume, task.without)
        THEN Freeze(Person, task.message) /\ Answer("frozen")
        ELSE Refused(Person, task.id) /\ UNCHANGED op
  /\ UNCHANGED <<order, reserve, draft, class, blocked, page, editVars, delivered, boundVars>>

\* Creation and send of the frozen message; what is refused is shown or thrown as above.
SendFrozen ==
  /\ task # NoForm /\ task.kind = "send" /\ task.step = "frozen"
  /\ \E state \in Progress(Person) :
       /\ Advance(Person, state)
       /\ delivered' = IF op[Person].state # "sent" /\ state \in {"sent", "needs-send-verification"}
                          /\ op[Person].state # "needs-send-verification"
                       THEN delivered \cup {[confirmed |-> task.message,
                              mailed |-> [person |-> Person, text |-> op[Person].text,
                                          resume |-> op[Person].resume]]}
                       ELSE delivered
  /\ \/ (InQueue(Person) \/ op[Person].state = "sent") /\ Answer("answered")
     \/ (InQueue(Person) => Person \in blocked) /\ op[Person].state # "sent" /\ Answer("thrown")
  /\ UNCHANGED <<order, reserve, draft, class, blocked, page, editVars, boundVars>>

\* A command that changes the store in one transaction, or throws.  Skip stands for the
\* permanent exclusion too; a manual send is in GmailOutreach.
Serve(kind, permitted, Effect) ==
  /\ task # NoForm /\ task.kind = kind /\ task.step = "asked"
  /\ IF permitted THEN Effect /\ Answer("answered")
     ELSE UNCHANGED queueVars /\ Answer("thrown")
  /\ UNCHANGED <<class, blocked, page, editVars, delivered, boundVars>>

\* A repeated skip finds its disposition and changes nothing.
Skip == Serve("skip", MayDismiss(Person) \/ Person \notin Elements(order),
              Remove(Person) /\ UNCHANGED <<reserve, draft, op>>)
Replace == Serve("replace", MayReplace(Person, task.choice),
                 PutInPlace(Person, task.choice) /\ UNCHANGED <<draft, op>>)
Keep == Serve("keep-edits", MayDecide(Person, task.id),
              Decide(Person, task.message.text) /\ UNCHANGED <<order, reserve, op>>)
Regenerate == Serve("regenerate", MayDecide(Person, task.id),
                    Decide(Person, "again") /\ UNCHANGED <<order, reserve, op>>)
Reconcile == Serve("reconcile", op[Person].state = "needs-send-verification" /\ task.id = OperationId(Person),
                   Reconciled(Person, task.choice) /\ UNCHANGED <<order, reserve, draft>>)
Create == Serve("create", TRUE,
                IF Supply(task.choice) = {} THEN UNCHANGED queueVars
                ELSE /\ order' = Append(order, FirstOf(task.choice)) /\ Taken(FirstOf(task.choice))
                     /\ UNCHANGED <<draft, op>>)

\* The answer carries the rows as they are now; everything else of the tab stays as it
\* is.  A thrown error shows the error page.  After a reload nobody hears the answer.
Receive ==
  /\ task # NoForm /\ task.step \in {"answered", "thrown"}
  /\ page' = IF task.heard = "no" THEN page
             ELSE IF task.step = "thrown" THEN [page EXCEPT !.mount = "error", !.dialog = "none", !.opened = NoOne]
             ELSE [page EXCEPT !.rows = Rendered]
  /\ task' = NoForm
  /\ UNCHANGED <<serverVars, editVars, delivered, boundVars>>

-----------------------------------------------------------------------------
(* Everything that happens elsewhere: other tabs, Candidates, the command   *)
(* line.  Its effects are those of the same commands.                       *)

Elsewhere(p) ==
  /\ elsewhere < MaxElsewhere /\ elsewhere' = elsewhere + 1
  /\ \/ /\ \E text \in {draft[p].text, "edited"}, resume \in Resumes :
             /\ MayApprove(p, DraftId(p), resume, TRUE)
             /\ Freeze(p, [text |-> text, resume |-> resume])
        /\ UNCHANGED <<order, reserve, draft, class, blocked>>
     \/ /\ op[p].state # "ready"
        /\ \/ \E state \in Progress(p) \ {op[p].state} : Advance(p, state)
           \/ op[p].state = "needs-send-verification"
              /\ \E outcome \in {"sent", "not-sent"} : Reconciled(p, outcome)
        /\ UNCHANGED <<order, reserve, draft, class, blocked>>
     \/ /\ MayDismiss(p) /\ Remove(p)
        /\ UNCHANGED <<reserve, draft, op, class, blocked>>
     \/ /\ MayDecide(p, DraftId(p)) /\ Decide(p, "again")
        /\ UNCHANGED <<order, reserve, op, class, blocked>>
     \/ /\ InQueue(p) /\ \E bucket \in Bucket \ {class[p]} : class' = [class EXCEPT ![p] = bucket]
        /\ UNCHANGED <<queueVars, blocked>>
     \/ /\ p \notin blocked /\ blocked' = blocked \cup {p}
        /\ UNCHANGED <<queueVars, class>>
  /\ UNCHANGED <<page, editVars, task, delivered, reloads>>

Operator ==
  \/ \E p \in People : Select(p)
  \/ \E step \in {"down", "up"} : Move(step)
  \/ \E view \in Class \cup {"all"} : SelectBucket(view)
  \/ \E patch \in Patches : TypeEdit(patch)
  \/ OpenPrimary \/ CloseDialog \/ ConfirmSend
  \/ \E outcome \in {"sent", "not-sent", "still-uncertain"} : SaveStatus(outcome)
  \/ SubmitSkip \/ SubmitReplace
  \/ \E kind \in {"keep-edits", "regenerate"} : SubmitDecision(kind)
  \/ \E bucket \in Bucket : SubmitCreation(bucket)
  \/ \E view \in Class \cup {"all"}, p \in People : Reload(view, p)
Server == FindOperation \/ SendFrozen \/ Skip \/ Replace \/ Keep \/ Regenerate \/ Reconcile \/ Create
Next == RestoreEdits \/ Operator \/ Server \/ Receive \/ \E p \in People : Elsewhere(p)

Spec == Init /\ [][Next]_vars

-----------------------------------------------------------------------------
(* Properties.                                                              *)

\* The message that is mailed for a confirmation is the one the dialog showed: the same
\* person, text and attachment, however old the page was and whatever was approved, decided
\* or skipped elsewhere meanwhile (confirmAndSendDraft).
MailsWhatWasConfirmed == \A d \in delivered : d.mailed = d.confirmed

\* A draft that can still be edited shows the operator's latest edit of exactly that draft,
\* through selection, answers, errors and reloads, and no edit of another one or of the
\* text it replaced (draftEdits, the session storage).
ShowsWhatWasTyped ==
  page.mount = "ready" => \A i \in DOMAIN page.rows : LET row == page.rows[i] IN
    row.state = "ready" =>
      IF typed[row.id] = NoEdit THEN ShownText(row) = row.text /\ ShownResume(row) = row.resume
      ELSE /\ ShownText(row) = typed[row.id].text
           /\ ShownResume(row) = typed[row.id].resume

\* docs/gmail-draft-only.md: an unanswered send is resolved on the page.  Whoever selects
\* it can open the dialog that does.
UncertainCanBeResolved ==
  \A i \in DOMAIN page.rows :
    page.mount = "ready" /\ page.rows[i].state = "needs-send-verification"
      => ~PrimaryBlocked(page.rows[i])

\* The surface contract of the Drafts workspace: Send is pressed on a draft and its exact
\* recipient is confirmed once.  A confirmation is for the draft whose dialog was opened.
ConfirmsTheOpenedDraft ==
  [][task' # task /\ task = NoForm /\ task'.kind \in {"send", "reconcile"}
       => task'.message.person = page.opened]_vars
=============================================================================
