--------------------------- MODULE DraftsPageProofs ---------------------------
(***************************************************************************)
(* Proofs about DraftsPage for every set of people, every queue and        *)
(* reserve, any set of buckets, and any number of edits, reloads and       *)
(* changes made elsewhere.                                                 *)
(***************************************************************************)
EXTENDS DraftsPage, SequenceTheorems, WellFoundedInduction, TLAPS

-----------------------------------------------------------------------------
(* Filtered sequences.  Only is a recursive function; what it computes is   *)
(* shown by induction on its index, over sets of indices.                   *)

\* A set of natural numbers has a least element.
LEMMA LeastExists ==
  ASSUME NEW S, S \subseteq Nat, S # {}
  PROVE  \E n \in S : \A m \in S : n <= m
<1> DEFINE R == OpToRel(<, Nat)
<1>1. IsWellFoundedOn(R, Nat)
  BY NatLessThanWellFounded
<1>2. \A a, b \in Nat : <<a, b>> \in R <=> a < b
  BY DEF OpToRel
<1> HIDE DEF R
<1>3. PICK x \in S : \A y \in S : ~ (<<y, x>> \in R)
  BY <1>1, WFMin
<1>4. ASSUME NEW m \in S PROVE x <= m
  <2>1. x \in Nat /\ m \in Nat
    OBVIOUS
  <2>2. ~ (<<m, x>> \in R)
    BY <1>3
  <2>3. ~ (m < x)
    BY <1>2, <2>1, <2>2, Zenon
  <2>4. QED
    BY <2>1, <2>3
<1>5. QED
  BY <1>4

\* What holds at the bottom and goes up a step holds up to the top.
LEMMA Upwards ==
  ASSUME NEW n \in Nat, NEW B, 0 \in B, \A i \in 1..n : i - 1 \in B => i \in B
  PROVE  0..n \subseteq B
<1> DEFINE S == (0..n) \ B
<1>1. SUFFICES ASSUME S # {} PROVE FALSE
  OBVIOUS
<1>2. S \subseteq Nat
  OBVIOUS
<1>3. PICK m \in S : \A k \in S : m <= k
  <2> HIDE DEF S
  <2>1. QED
    BY <1>1, <1>2, LeastExists
<1>4. m \in 1..n /\ m - 1 \in 0..n
  OBVIOUS
<1>5. m - 1 \notin S
  <2> HIDE DEF S
  <2>1. QED
    BY <1>3, <1>4
<1>6. QED
  BY <1>4, <1>5

\* Steps that stay in a set can be taken one after the other.
Walks(n, T, x, F) ==
  {g \in [0..n -> T] : g[0] = x /\ \A i \in 1..n : g[i] = F[<<i, g[i - 1]>>]}

LEMMA StepsExist ==
  ASSUME NEW T, NEW n \in Nat, NEW x \in T, NEW F \in [(1..n) \X T -> T]
  PROVE  Walks(n, T, x, F) # {}
<1> DEFINE W(m) == Walks(m, T, x, F)
           B == {m \in 0..n : W(m) # {}}
<1>1. 0 \in B
  <2>1. [i \in 0..0 |-> x] \in W(0)
    BY DEF Walks
  <2>2. QED
    BY <2>1
<1>2. ASSUME NEW i \in 1..n, i - 1 \in B PROVE i \in B
  <2>1. PICK g : g \in W(i - 1)
    BY <1>2
  <2>2. g \in [0..i - 1 -> T] /\ g[0] = x /\ \A j \in 1..i - 1 : g[j] = F[<<j, g[j - 1]>>]
    BY <2>1 DEF Walks
  <2>3. i - 1 \in 0..i - 1 /\ i \in 1..n
    OBVIOUS
  <2> DEFINE h == [j \in 0..i |-> IF j = i THEN F[<<i, g[i - 1]>>] ELSE g[j]]
  <2>4. F[<<i, g[i - 1]>>] \in T
    BY <2>2, <2>3
  <2>5. h \in [0..i -> T]
    BY <2>2, <2>4
  <2>6. h[0] = x
    BY <2>2
  <2>7. ASSUME NEW j \in 1..i PROVE h[j] = F[<<j, h[j - 1]>>]
    <3>1. CASE j = i
      BY <3>1
    <3>2. CASE j # i
      <4>1. j \in 1..i - 1 /\ j - 1 \in 0..i - 1 /\ j \in 0..i /\ j - 1 \in 0..i /\ j - 1 # i
        BY <3>2
      <4>2. h[j] = g[j] /\ h[j - 1] = g[j - 1]
        BY <3>2, <4>1
      <4>3. QED
        BY <2>2, <4>1, <4>2
    <3>3. QED
      BY <3>1, <3>2
  <2> HIDE DEF h
  <2>8. h \in W(i)
    BY <2>5, <2>6, <2>7 DEF Walks
  <2>9. QED
    BY <2>8
<1> HIDE DEF B
<1>3. 0..n \subseteq B
  BY <1>1, <1>2, Upwards
<1>4. n \in B
  BY <1>3
<1>5. W(n) # {}
  BY <1>4 DEF B
<1>6. QED
  BY <1>5

\* Appending adds one element.
LEMMA AppendedElements ==
  ASSUME NEW T, NEW s \in Seq(T), NEW c \in T
  PROVE  Append(s, c) \in Seq(T) /\ Elements(Append(s, c)) = Elements(s) \cup {c}
<1>1. Len(s) \in Nat /\ Append(s, c) \in Seq(T) /\ Len(Append(s, c)) = Len(s) + 1
  OBVIOUS
<1>2. \A i \in 1..Len(s) : Append(s, c)[i] = s[i]
  OBVIOUS
<1>3. Append(s, c)[Len(s) + 1] = c
  OBVIOUS
<1>4. DOMAIN s = 1..Len(s) /\ DOMAIN Append(s, c) = 1..Len(s) + 1
  BY <1>1
<1>5. QED
  BY <1>1, <1>2, <1>3, <1>4 DEF Elements

\* Only keeps the members of a set, and nothing else.
Kept(s, S) ==
  CHOOSE kept : kept = [i \in 0..Len(s) |->
    IF i = 0 THEN <<>> ELSE IF s[i] \in S THEN Append(kept[i - 1], s[i]) ELSE kept[i - 1]]

LEMMA KeptExists ==
  ASSUME NEW T, NEW s \in Seq(T), NEW S
  PROVE  Kept(s, S) = [i \in 0..Len(s) |->
           IF i = 0 THEN <<>>
           ELSE IF s[i] \in S THEN Append(Kept(s, S)[i - 1], s[i]) ELSE Kept(s, S)[i - 1]]
<1> DEFINE n == Len(s)
           W == Seq(T)
           F == [p \in (1..n) \X W |-> IF s[p[1]] \in S THEN Append(p[2], s[p[1]]) ELSE p[2]]
<1>1. n \in Nat /\ <<>> \in W /\ \A i \in 1..n : s[i] \in T
  OBVIOUS
<1>2. F \in [(1..n) \X W -> W]
  BY <1>1
<1>3. \A i \in 1..n, t \in W : F[<<i, t>>] = IF s[i] \in S THEN Append(t, s[i]) ELSE t
  OBVIOUS
<1> HIDE DEF F, n, W
<1>4. PICK g \in [0..n -> W] : g[0] = <<>> /\ \A i \in 1..n : g[i] = F[<<i, g[i - 1]>>]
  <2>1. n \in Nat /\ <<>> \in W
    BY <1>1
  <2>2. Walks(n, W, <<>>, F) # {}
    BY <1>2, <2>1, StepsExist
  <2>3. QED
    BY <2>2 DEF Walks
<1>5. \A i \in 1..n : i - 1 \in 0..n /\ g[i - 1] \in W
  BY <1>1
<1>6. \A i \in 1..n : g[i] = IF s[i] \in S THEN Append(g[i - 1], s[i]) ELSE g[i - 1]
  BY <1>3, <1>4, <1>5
<1>7. g = [i \in 0..n |-> IF i = 0 THEN <<>> ELSE IF s[i] \in S THEN Append(g[i - 1], s[i]) ELSE g[i - 1]]
  <2> DEFINE h == [i \in 0..n |-> IF i = 0 THEN <<>> ELSE IF s[i] \in S THEN Append(g[i - 1], s[i]) ELSE g[i - 1]]
  <2>1. ASSUME NEW i \in 0..n PROVE g[i] = h[i]
    <3>1. CASE i = 0
      BY <1>4, <3>1
    <3>2. CASE i # 0
      <4>1. i \in 1..n
        BY <1>1, <3>2
      <4>2. QED
        BY <1>6, <3>2, <4>1
    <3>3. QED
      BY <3>1, <3>2
  <2>2. g = [i \in 0..n |-> g[i]] /\ h = [i \in 0..n |-> h[i]]
    OBVIOUS
  <2> HIDE DEF h
  <2>3. g = h
    BY <2>1, <2>2
  <2>4. QED
    BY <2>3 DEF h
<1>8. QED
  BY <1>7 DEF Kept, n

LEMMA OnlyFacts ==
  ASSUME NEW T, NEW s \in Seq(T), NEW S
  PROVE  Only(s, S) \in Seq(T) /\ Elements(Only(s, S)) = Elements(s) \cap S
<1> DEFINE k == Kept(s, S)
           n == Len(s)
<1>1. n \in Nat /\ \A i \in 1..n : s[i] \in T
  OBVIOUS
<1>2a. k = [i \in 0..n |-> IF i = 0 THEN <<>> ELSE IF s[i] \in S THEN Append(k[i - 1], s[i]) ELSE k[i - 1]]
  BY KeptExists
<1> HIDE DEF k, n
<1>2. k[0] = <<>> /\ \A i \in 1..n : k[i] = IF s[i] \in S THEN Append(k[i - 1], s[i]) ELSE k[i - 1]
  <2>1. 0 \in 0..n
    BY <1>1
  <2>2. k[0] = <<>>
    BY <1>2a, <2>1, Zenon
  <2>3. ASSUME NEW i \in 1..n
        PROVE  k[i] = IF s[i] \in S THEN Append(k[i - 1], s[i]) ELSE k[i - 1]
    <3>1. i \in 0..n /\ i # 0
      BY <1>1
    <3>2. QED
      BY <1>2a, <3>1, Zenon
  <2>4. QED
    BY <2>2, <2>3
<1> DEFINE B == {i \in 0..n : k[i] \in Seq(T) /\ Elements(k[i]) = {s[j] : j \in 1..i} \cap S}
<1>3. 0 \in B
  <2>1. Elements(<<>>) = {} /\ {s[j] : j \in 1..0} = {}
    BY DEF Elements
  <2>2. 0 \in 0..n /\ k[0] \in Seq(T) /\ Elements(k[0]) = {s[j] : j \in 1..0} \cap S
    BY <1>1, <1>2, <2>1
  <2>3. QED
    BY <2>2
<1>4. ASSUME NEW i \in 1..n, i - 1 \in B PROVE i \in B
  <2>1. k[i - 1] \in Seq(T) /\ Elements(k[i - 1]) = {s[j] : j \in 1..i - 1} \cap S
    BY <1>4
  <2>2. {s[j] : j \in 1..i} = {s[j] : j \in 1..i - 1} \cup {s[i]}
    BY <1>1
  <2>3. s[i] \in T
    BY <1>1
  <2>4. CASE s[i] \in S
    <3>1. k[i] = Append(k[i - 1], s[i])
      BY <1>2, <2>4
    <3>2. Elements(Append(k[i - 1], s[i])) = Elements(k[i - 1]) \cup {s[i]}
      BY <2>1, <2>3, AppendedElements
    <3>3. k[i] \in Seq(T)
      BY <2>1, <2>3, <3>1
    <3>4. Elements(k[i]) = {s[j] : j \in 1..i} \cap S
      BY <2>1, <2>2, <2>4, <3>1, <3>2
    <3>5. QED
      BY <1>1, <3>3, <3>4
  <2>5. CASE s[i] \notin S
    BY <1>2, <2>1, <2>2, <2>5
  <2>6. QED
    BY <2>4, <2>5
<1> HIDE DEF B
<1>5. n \in B
  <2>1. 0..n \subseteq B
    BY <1>1, <1>3, <1>4, Upwards
  <2>2. QED
    BY <1>1, <2>1
<1>6. Elements(s) = {s[j] : j \in 1..n}
  BY DEF Elements, n
<1>7. Only(s, S) = k[n]
  BY DEF Only, Kept, k, n
<1>8. QED
  BY <1>5, <1>6, <1>7 DEF B

-----------------------------------------------------------------------------
(* The inductive invariant.                                                 *)

Steps    == {"asked", "frozen", "answered", "thrown"}
Outcomes == {"sent", "not-sent", "still-uncertain"}
Forms == [kind : Kinds \ {"create"}, step : Steps, id : Id, message : Message, without : BOOLEAN,
          choice : Bucket \cup Outcomes \cup {"none"}, heard : {"yes", "no"}]
Creations == [kind : {"create"}, step : Steps, choice : Bucket, heard : {"yes", "no"}]
Page == [rows : Seq(Row), view : Class \cup {"all"}, selected : People \cup {NoOne},
         mount : {"loading", "ready", "error"},
         dialog : {"none", "send", "reconcile"}, opened : People \cup {NoOne}]
Operation == [state : States \cup {"sent"}, text : Texts, resume : Resumes]

StoreTypes ==
  /\ order \in Seq(People) /\ reserve \in Seq(People)
  /\ draft \in [People -> [text : Texts, bucket : Class]]
  /\ op \in [People -> Operation]
  /\ class \in [People -> Class] /\ blocked \subseteq People

EditTypes ==
  /\ edits \in [Id -> Edit \cup {NoEdit}]
  /\ saved \in [Id -> Edit \cup {NoEdit}]
  /\ typed \in [Id -> Edit \cup {NoEdit}]

\* A form carries what its kind needs.
TaskTypes == task = NoForm \/ task \in Forms \/ task \in Creations

DeliveredTypes == delivered \subseteq [confirmed : Message, mailed : Message]
BoundTypes == elsewhere \in 0..MaxElsewhere /\ reloads \in 0..MaxReloads

\* Between the two steps of a confirmation the operation is frozen with what was confirmed.
FrozenInv ==
  task.kind = "send" /\ task.step = "frozen" =>
    /\ op[Person].state # "ready"
    /\ op[Person].text = task.message.text /\ op[Person].resume = task.message.resume

\* The session storage has every edit, the tab as soon as it has read them.
EditInv == saved = typed /\ (page.mount = "ready" => edits = saved)

IInv ==
  /\ StoreTypes /\ page \in Page /\ EditTypes /\ TaskTypes /\ DeliveredTypes /\ BoundTypes
  /\ FrozenInv /\ EditInv /\ MailsWhatWasConfirmed

-----------------------------------------------------------------------------
(* What the tab shows.                                                      *)

\* A snapshot of the stored draft and one of the operation name the person.
LEMMA RenderedRow ==
  ASSUME StoreTypes, NEW p \in People, op[p].state # "sent"
  PROVE  RowOf(p) \in Row
<1>1. /\ op[p] \in Operation /\ draft[p] \in [text : Texts, bucket : Class]
      /\ DefaultResume[p] \in Resumes
  BY PageAssumption DEF StoreTypes
<1>2. /\ op[p].state \in States /\ op[p].text \in Texts /\ op[p].resume \in Resumes
      /\ draft[p].text \in Texts /\ draft[p].bucket \in Class
  BY <1>1 DEF Operation
<1>3. DraftId(p) \in Id /\ OperationId(p) \in Id
  BY <1>2 DEF DraftId, OperationId, Id
<1>4. Changed(p) \in BOOLEAN /\ (p \in blocked) \in BOOLEAN
  BY DEF Changed
<1>5. QED
  BY ONLY <1>2, <1>3, <1>4, <1>1, p \in People DEF RowOf, Row

\* The server renders rows of the right shape, never a sent message.
LEMMA RenderedRows == StoreTypes => Rendered \in Seq(Row)
<1> SUFFICES ASSUME StoreTypes PROVE Rendered \in Seq(Row)
  OBVIOUS
<1> DEFINE S == {p \in People : InQueue(p)}
           shown == Only(order, S)
<1>1. shown \in Seq(People) /\ Elements(shown) = Elements(order) \cap S
  BY OnlyFacts DEF StoreTypes
<1>2. \A i \in DOMAIN shown : shown[i] \in People /\ op[shown[i]].state # "sent"
  BY <1>1 DEF Elements, InQueue
<1>3. Rendered = [i \in DOMAIN shown |-> RowOf(shown[i])]
  BY DEF Rendered
<1> HIDE DEF shown, S
<1>4. \A i \in DOMAIN shown : RowOf(shown[i]) \in Row
  BY <1>2, RenderedRow
<1>5. Len(shown) \in Nat /\ DOMAIN shown = 1..Len(shown)
  BY <1>1
<1>6. Rendered \in [1..Len(shown) -> Row]
  BY <1>3, <1>4, <1>5, Zenon
<1>7. QED
  BY <1>5, <1>6, SeqDef

\* A view is made of the rows it is made from.
LEMMA ViewRows ==
  ASSUME NEW rows \in Seq(Row), NEW view
  PROVE  /\ View(rows, view) \in Seq(Row)
         /\ \A i \in DOMAIN View(rows, view) : View(rows, view)[i].person \in People
         /\ View(rows, view) # <<>> => 1 \in DOMAIN View(rows, view)
<1> DEFINE S == {row \in Elements(rows) :
                   IF view = "all" THEN row.bucket # Legacy ELSE row.bucket = view}
           v == View(rows, view)
<1>1. v = Only(rows, S)
  BY DEF View
<1>2. v \in Seq(Row)
  BY <1>1, OnlyFacts
<1> HIDE DEF v, S
<1>3. \A i \in DOMAIN v : v[i] \in Row
  BY <1>2
<1>4. \A i \in DOMAIN v : v[i].person \in People
  BY <1>3 DEF Row
<1>5. v # <<>> => 1 \in DOMAIN v
  BY <1>2
<1>6. QED
  BY <1>2, <1>4, <1>5 DEF v

\* The fields of the tab.
LEMMA PageFields ==
  page \in Page =>
    /\ page.rows \in Seq(Row) /\ page.view \in Class \cup {"all"}
    /\ page.selected \in People \cup {NoOne} /\ page.mount \in {"loading", "ready", "error"}
    /\ page.dialog \in {"none", "send", "reconcile"} /\ page.opened \in People \cup {NoOne}
BY DEF Page

\* When there is a row, one is shown.
LEMMA ShownRow ==
  ASSUME page \in Page, Usable
  PROVE  Shown \in Row
<1>1. page.rows \in Seq(Row)
  BY PageFields
<1>2. Visible \in Seq(Row) /\ 1 \in DOMAIN Visible
  BY <1>1, ViewRows DEF Visible, Usable
<1>3. \A i \in DOMAIN Visible : Visible[i] \in Row
  BY <1>2
<1>4. IsVisible(page.selected) => PositionOf(page.selected) \in DOMAIN Visible
  BY DEF IsVisible, PositionOf
<1>5. QED
  BY <1>2, <1>3, <1>4 DEF Shown

\* The fields of a row.
LEMMA RowFields ==
  ASSUME NEW row \in Row
  PROVE  /\ row.id \in Id /\ row.person \in People /\ row.state \in States /\ row.text \in Texts
         /\ row.resume \in Resumes /\ row.bucket \in Class
         /\ row.changed \in BOOLEAN /\ row.blocked \in BOOLEAN
BY DEF Row

\* What is shown of a row is a message.
LEMMA ShownContent ==
  ASSUME EditTypes, NEW row \in Row
  PROVE  /\ ShownMessage(row) \in Message /\ ShownText(row) \in Texts /\ ShownResume(row) \in Resumes
         /\ Without(row) \in BOOLEAN
<1>1. row.id \in Id /\ row.person \in People /\ row.text \in Texts /\ row.resume \in Resumes
  BY RowFields
<1>2. edits[row.id] \in Edit \cup {NoEdit}
  BY <1>1 DEF EditTypes
<1>3. edits[row.id].text \in Texts /\ edits[row.id].resume \in Resumes
  BY <1>2 DEF Edit, NoEdit, Texts, Resumes
<1>4. ShownText(row) \in Texts /\ ShownResume(row) \in Resumes
  BY <1>1, <1>3 DEF ShownText, ShownResume, EditKey
<1>5. Without(row) \in BOOLEAN
  BY DEF Without, HasEdit
<1>6. QED
  BY <1>1, <1>4, <1>5 DEF ShownMessage, Message

\* A form is filled in from the row that is shown.
LEMMA FormType ==
  ASSUME page \in Page, EditTypes, Usable, NEW kind \in Kinds \ {"create"},
         NEW choice \in Bucket \cup Outcomes \cup {"none"}
  PROVE  [Form(kind) EXCEPT !.choice = choice] \in Forms /\ Form(kind) \in Forms
         /\ [Form(kind) EXCEPT !.choice = choice].step = "asked" /\ Form(kind).step = "asked"
<1>1. Shown \in Row
  BY ShownRow
<1>2. ShownMessage(Shown) \in Message /\ Without(Shown) \in BOOLEAN /\ Shown.id \in Id
  BY <1>1, ShownContent, RowFields
<1>3. Form(kind) \in Forms
  BY <1>2 DEF Form, Forms, Steps
<1>4. Form(kind).step = "asked"
  BY DEF Form
<1>5. [Form(kind) EXCEPT !.choice = choice] \in Forms
  BY <1>3 DEF Forms
<1>6. [Form(kind) EXCEPT !.choice = choice].step = "asked"
  BY <1>4, <1>3 DEF Forms
<1>7. QED
  BY <1>3, <1>4, <1>5, <1>6

-----------------------------------------------------------------------------
(* The parts that a step leaves alone.                                      *)

\* A step of the tab that sends nothing.
LEMMA TabStep ==
  ASSUME IInv, UNCHANGED <<serverVars, task, delivered>>,
         page' \in Page, EditTypes', EditInv', BoundTypes'
  PROVE  IInv'
<1>1. /\ StoreTypes /\ TaskTypes /\ DeliveredTypes /\ FrozenInv /\ MailsWhatWasConfirmed
  BY DEF IInv
<1>2. /\ order' = order /\ reserve' = reserve /\ draft' = draft /\ op' = op
      /\ class' = class /\ blocked' = blocked /\ task' = task /\ delivered' = delivered
  BY DEF serverVars
<1>3. StoreTypes'
  BY <1>1, <1>2 DEF StoreTypes
<1>4. TaskTypes' /\ DeliveredTypes' /\ MailsWhatWasConfirmed'
  BY <1>1, <1>2 DEF TaskTypes, DeliveredTypes, MailsWhatWasConfirmed
<1>5. FrozenInv'
  BY <1>1, <1>2 DEF FrozenInv, Person
<1>6. QED
  BY <1>3, <1>4, <1>5 DEF IInv

\* A form that is sent off is not frozen yet.
LEMMA SubmitStep ==
  ASSUME IInv, NEW form \in Forms \cup Creations, form.step = "asked", Submit(form)
  PROVE  IInv'
<1>1. /\ StoreTypes /\ page \in Page /\ EditTypes /\ DeliveredTypes /\ BoundTypes
      /\ EditInv /\ MailsWhatWasConfirmed
  BY DEF IInv
<1>2. /\ order' = order /\ reserve' = reserve /\ draft' = draft /\ op' = op
      /\ class' = class /\ blocked' = blocked /\ page' = page
      /\ edits' = edits /\ saved' = saved /\ typed' = typed
      /\ delivered' = delivered /\ elsewhere' = elsewhere /\ reloads' = reloads /\ task' = form
  BY DEF Submit, serverVars, editVars, boundVars
<1>3. StoreTypes' /\ (page \in Page)'
  BY <1>1, <1>2 DEF StoreTypes
<1>4. EditTypes' /\ DeliveredTypes' /\ BoundTypes' /\ EditInv' /\ MailsWhatWasConfirmed'
  BY <1>1, <1>2 DEF EditTypes, DeliveredTypes, BoundTypes, EditInv, MailsWhatWasConfirmed
<1>5. TaskTypes'
  BY <1>2 DEF TaskTypes
<1>6. FrozenInv'
  BY <1>2 DEF FrozenInv
<1>7. QED
  BY <1>3, <1>4, <1>5, <1>6 DEF IInv

\* A form keeps its content when its step changes.
LEMMA Answered ==
  ASSUME TaskTypes, task # NoForm, NEW step \in Steps, Answer(step)
  PROVE  /\ TaskTypes' /\ task'.step = step /\ task'.kind = task.kind
         /\ task \in Forms => task' \in Forms /\ task'.message = task.message /\ task'.id = task.id
<1>1. task \in Forms \/ task \in Creations
  BY DEF TaskTypes
<1>2. task' = [task EXCEPT !.step = step]
  BY DEF Answer
<1>3. CASE task \in Forms
  <2>1. /\ task' \in Forms /\ task'.step = step /\ task'.kind = task.kind
        /\ task'.message = task.message /\ task'.id = task.id
    BY <1>2, <1>3 DEF Forms
  <2>2. QED
    BY <2>1 DEF TaskTypes
<1>4. CASE task \in Creations
  <2>1. task' \in Creations /\ task'.step = step /\ task'.kind = task.kind
    BY <1>2, <1>4 DEF Creations
  <2>2. task \notin Forms
    BY <1>4 DEF Forms, Creations
  <2>3. QED
    BY <2>1, <2>2 DEF TaskTypes
<1>5. QED
  BY <1>1, <1>3, <1>4

\* Every form but a creation is about a person.
LEMMA FormFields ==
  ASSUME TaskTypes, task # NoForm, task.kind # "create"
  PROVE  /\ task \in Forms /\ task.message \in Message /\ Person \in People /\ task.id \in Id
         /\ task.message.text \in Texts /\ task.message.resume \in Resumes
<1>1. task \in Forms
  BY DEF TaskTypes, Creations
<1>2. QED
  BY <1>1 DEF Forms, Message, Person

\* A step of the server after which the form is answered.
LEMMA ServerStep ==
  ASSUME IInv, task # NoForm, NEW step \in {"answered", "thrown"}, Answer(step), StoreTypes',
         UNCHANGED <<page, editVars, delivered, boundVars>>
  PROVE  IInv'
<1>1. /\ page \in Page /\ EditTypes /\ TaskTypes /\ DeliveredTypes /\ BoundTypes
      /\ EditInv /\ MailsWhatWasConfirmed
  BY DEF IInv
<1>2. /\ page' = page /\ edits' = edits /\ saved' = saved /\ typed' = typed
      /\ delivered' = delivered /\ elsewhere' = elsewhere /\ reloads' = reloads
  BY DEF editVars, boundVars
<1>3. (page \in Page)' /\ EditTypes' /\ DeliveredTypes' /\ BoundTypes' /\ EditInv'
      /\ MailsWhatWasConfirmed'
  BY <1>1, <1>2 DEF EditTypes, DeliveredTypes, BoundTypes, EditInv, MailsWhatWasConfirmed
<1>4. TaskTypes' /\ task'.step = step
  BY <1>1, Answered DEF Steps
<1>5. FrozenInv'
  BY <1>4 DEF FrozenInv
<1>6. QED
  BY <1>3, <1>4, <1>5 DEF IInv

-----------------------------------------------------------------------------
(* What the commands do to the store.                                       *)

LEMMA StoreFields ==
  ASSUME StoreTypes, NEW p \in People
  PROVE  /\ op[p].state \in States \cup {"sent"} /\ op[p].text \in Texts /\ op[p].resume \in Resumes
         /\ draft[p].text \in Texts /\ draft[p].bucket \in Class /\ class[p] \in Class
BY DEF StoreTypes, Operation

\* The supply of a bucket has a first person.
LEMMA FirstOfSupply ==
  ASSUME StoreTypes, NEW bucket, Supply(bucket) # {}
  PROVE  FirstOf(bucket) \in People
<1>1. /\ reserve \in Seq(People) /\ Supply(bucket) \subseteq DOMAIN reserve
  BY DEF StoreTypes, Supply
<1>2. DOMAIN reserve \subseteq Nat
  BY <1>1
<1>3. \E i \in Supply(bucket) : \A j \in Supply(bucket) : i <= j
  BY <1>1, <1>2, LeastExists
<1> DEFINE i == CHOOSE i \in Supply(bucket) : \A j \in Supply(bucket) : i <= j
<1>4. i \in Supply(bucket)
  BY <1>3
<1>5. FirstOf(bucket) = reserve[i]
  BY DEF FirstOf
<1> HIDE DEF i
<1>6. QED
  BY <1>1, <1>4, <1>5

LEMMA RemoveType == ASSUME StoreTypes, NEW p, Remove(p) PROVE order' \in Seq(People)
BY OnlyFacts DEF StoreTypes, Remove

LEMMA TakenType == ASSUME StoreTypes, NEW p, Taken(p) PROVE reserve' \in Seq(People)
BY OnlyFacts DEF StoreTypes, Taken

LEMMA PutInPlaceType ==
  ASSUME StoreTypes, NEW p, NEW bucket, PutInPlace(p, bucket)
  PROVE  order' \in Seq(People) /\ reserve' \in Seq(People)
<1>1. order \in Seq(People) /\ reserve \in Seq(People)
  BY DEF StoreTypes
<1>2. CASE Supply(bucket) = {}
  BY <1>1, <1>2 DEF PutInPlace
<1>3. CASE Supply(bucket) # {}
  <2> DEFINE first == FirstOf(bucket)
  <2>1. first \in People
    BY <1>3, FirstOfSupply
  <2>2. order' = [i \in DOMAIN order |-> IF order[i] = p THEN first ELSE order[i]] /\ Taken(first)
    BY <1>3 DEF PutInPlace
  <2> HIDE DEF first
  <2>3. Len(order) \in Nat /\ DOMAIN order = 1..Len(order) /\ \A i \in DOMAIN order : order[i] \in People
    BY <1>1
  <2>4. order' \in [1..Len(order) -> People]
    BY <2>1, <2>2, <2>3
  <2>5. order' \in Seq(People)
    BY <2>3, <2>4, SeqDef
  <2>6. QED
    BY <2>2, <2>5, TakenType
<1>4. QED
  BY <1>2, <1>3

LEMMA FreezeType ==
  ASSUME StoreTypes, NEW p \in People, NEW message, message.text \in Texts,
         message.resume \in Resumes, Freeze(p, message)
  PROVE  /\ op' \in [People -> Operation]
         /\ op'[p] = [state |-> "approved", text |-> message.text, resume |-> message.resume]
         /\ \A q \in People \ {p} : op'[q] = op[q]
<1>1. op \in [People -> Operation]
  BY DEF StoreTypes
<1>2. [state |-> "approved", text |-> message.text, resume |-> message.resume] \in Operation
  BY DEF Operation, States
<1>3. QED
  BY <1>1, <1>2 DEF Freeze

\* Progress, a verdict and a send change the state of an operation and nothing else of it.
LEMMA AdvanceType ==
  ASSUME StoreTypes, NEW p \in People, NEW state \in States \cup {"sent"}, Advance(p, state)
  PROVE  /\ op' \in [People -> Operation]
         /\ op'[p].state = state /\ op'[p].text = op[p].text /\ op'[p].resume = op[p].resume
         /\ \A q \in People \ {p} : op'[q] = op[q]
<1>1. op \in [People -> Operation] /\ op[p] \in Operation
  BY DEF StoreTypes
<1>2. op' = [op EXCEPT ![p] = [op[p] EXCEPT !.state = state]]
  BY <1>1 DEF Advance
<1>3. /\ [op[p] EXCEPT !.state = state] \in Operation
      /\ [op[p] EXCEPT !.state = state].state = state
      /\ [op[p] EXCEPT !.state = state].text = op[p].text
      /\ [op[p] EXCEPT !.state = state].resume = op[p].resume
  BY <1>1 DEF Operation
<1>4. QED
  BY <1>1, <1>2, <1>3

\* Only an operation that exists makes progress, and it goes on existing.
LEMMA ProgressType ==
  ASSUME StoreTypes, NEW p \in People, NEW state \in Progress(p)
  PROVE  state \in States \cup {"sent"} /\ (op[p].state # "ready" => state # "ready")
<1>1. op[p].state \in States \cup {"sent"}
  BY StoreFields
<1>2. QED
  BY <1>1 DEF Progress, States

LEMMA DecideType ==
  ASSUME StoreTypes, NEW p \in People, NEW text \in Texts, Decide(p, text)
  PROVE  draft' \in [People -> [text : Texts, bucket : Class]]
<1>1. draft \in [People -> [text : Texts, bucket : Class]] /\ class[p] \in Class
  BY DEF StoreTypes
<1>2. [text |-> text, bucket |-> class[p]] \in [text : Texts, bucket : Class]
  BY <1>1
<1>3. QED
  BY <1>1, <1>2 DEF Decide

\* A verdict moves an operation on, or leaves it as it is.
LEMMA ReconciledType ==
  ASSUME StoreTypes, NEW p \in People, NEW outcome, Reconciled(p, outcome)
  PROVE  /\ op' \in [People -> Operation]
         /\ \A q \in People : /\ op'[q].text = op[q].text /\ op'[q].resume = op[q].resume
                              /\ op[q].state # "ready" => op'[q].state # "ready"
<1>1. CASE outcome = "still-uncertain"
  BY <1>1 DEF Reconciled, StoreTypes
<1>2. CASE outcome # "still-uncertain"
  <2> DEFINE state == IF outcome = "sent" THEN "sent" ELSE "gmail-draft-created"
  <2>1. state \in States \cup {"sent"} /\ state # "ready"
    BY DEF States
  <2>2. Advance(p, state)
    BY <1>2 DEF Reconciled
  <2> HIDE DEF state
  <2>3. /\ op' \in [People -> Operation]
        /\ op'[p].state = state /\ op'[p].text = op[p].text /\ op'[p].resume = op[p].resume
        /\ \A q \in People \ {p} : op'[q] = op[q]
    BY <2>1, <2>2, AdvanceType
  <2>4. ASSUME NEW q \in People
        PROVE  /\ op'[q].text = op[q].text /\ op'[q].resume = op[q].resume
               /\ op[q].state # "ready" => op'[q].state # "ready"
    <3>1. CASE q = p
      BY <2>1, <2>3, <3>1
    <3>2. CASE q # p
      BY <2>3, <3>2
    <3>3. QED
      BY <3>1, <3>2
  <2>5. QED
    BY <2>3, <2>4
<1>3. QED
  BY <1>1, <1>2

-----------------------------------------------------------------------------
(* The steps of the tab.                                                    *)

\* The edits and their copies do not change with the rows, the selection or the dialogs.
LEMMA EditsStay ==
  ASSUME IInv, UNCHANGED <<editVars, boundVars>>, page'.mount = page.mount
  PROVE  EditTypes' /\ EditInv' /\ BoundTypes'
BY DEF IInv, EditTypes, EditInv, BoundTypes, editVars, boundVars

LEMMA RestoreEditsStep == IInv /\ RestoreEdits => IInv'
<1> SUFFICES ASSUME IInv, RestoreEdits PROVE IInv'
  OBVIOUS
<1>1. page \in Page /\ EditTypes /\ BoundTypes /\ EditInv
  BY DEF IInv
<1>2. /\ page' = [page EXCEPT !.mount = "ready"] /\ edits' = saved
      /\ saved' = saved /\ typed' = typed /\ elsewhere' = elsewhere /\ reloads' = reloads
      /\ UNCHANGED <<serverVars, task, delivered>>
  BY DEF RestoreEdits, boundVars
<1>3. page' \in Page
  BY <1>1, <1>2 DEF Page
<1>4. EditTypes' /\ EditInv' /\ BoundTypes'
  BY <1>1, <1>2 DEF EditTypes, EditInv, BoundTypes
<1>5. QED
  BY <1>2, <1>3, <1>4, TabStep

LEMMA SelectStep == ASSUME IInv, NEW p \in People, Select(p) PROVE IInv'
<1>1. page \in Page
  BY DEF IInv
<1>2. /\ page' = [page EXCEPT !.selected = p]
      /\ UNCHANGED <<serverVars, task, delivered>> /\ UNCHANGED <<editVars, boundVars>>
  BY DEF Select
<1>3. page' \in Page /\ page'.mount = page.mount
  BY <1>1, <1>2 DEF Page
<1>4. QED
  BY <1>2, <1>3, EditsStay, TabStep

LEMMA MoveStep == ASSUME IInv, NEW step \in {"down", "up"}, Move(step) PROVE IInv'
<1>1. page \in Page
  BY DEF IInv
<1>2. PICK next \in DOMAIN Visible : page' = [page EXCEPT !.selected = Visible[next].person]
  BY Zenon DEF Move
<1>3. UNCHANGED <<serverVars, task, delivered>> /\ UNCHANGED <<editVars, boundVars>>
  BY DEF Move
<1>4. Visible[next].person \in People
  BY <1>1, PageFields, ViewRows DEF Visible
<1>5. page' \in Page /\ page'.mount = page.mount
  BY <1>1, <1>2, <1>4 DEF Page
<1>6. QED
  BY <1>3, <1>5, EditsStay, TabStep

LEMMA SelectBucketStep ==
  ASSUME IInv, NEW view \in Class \cup {"all"}, SelectBucket(view)
  PROVE  IInv'
<1>1. page \in Page /\ page.rows \in Seq(Row) /\ page.selected \in People \cup {NoOne}
  BY PageFields DEF IInv
<1> DEFINE rows == View(page.rows, view)
           kept == \E i \in DOMAIN rows : rows[i].person = page.selected
           next == IF kept THEN page.selected ELSE IF rows = <<>> THEN NoOne ELSE rows[1].person
<1>2. rows # <<>> => rows[1].person \in People
  BY <1>1, ViewRows
<1>3. page' = [page EXCEPT !.view = view, !.selected = next]
  BY DEF SelectBucket
<1>4. UNCHANGED <<serverVars, task, delivered>> /\ UNCHANGED <<editVars, boundVars>>
  BY DEF SelectBucket
<1> HIDE DEF rows
<1>5. next \in People \cup {NoOne}
  BY <1>1, <1>2
<1> HIDE DEF next
<1>6. page' \in Page /\ page'.mount = page.mount
  BY <1>1, <1>3, <1>5 DEF Page
<1>7. QED
  BY <1>4, <1>6, EditsStay, TabStep

\* An edit with one more field typed is an edit.
LEMMA PatchedType ==
  ASSUME NEW edit \in Edit \cup {NoEdit}, NEW row \in Row, NEW patch \in Patches
  PROVE  Patched(edit, row, patch) \in Edit
<1> DEFINE whole == IF edit = NoEdit
                    THEN [text |-> row.text, resume |-> row.resume, without |-> "no"] ELSE edit
<1>1. whole \in Edit
  BY RowFields DEF Edit
<1>2. patch \in Resumes \/ patch = "edited" \/ patch = "without"
  BY PageAssumption
<1>3. Patched(edit, row, patch) = CASE patch = "edited"  -> [whole EXCEPT !.text = "edited"]
                                    [] patch = "without" -> [whole EXCEPT !.without = "yes"]
                                    [] OTHER -> [whole EXCEPT !.resume = patch, !.without = "no"]
  BY DEF Patched
<1> HIDE DEF whole
<1>4. CASE patch = "edited"
  BY <1>1, <1>3, <1>4 DEF Edit, Texts
<1>5. CASE patch = "without"
  BY <1>1, <1>3, <1>5 DEF Edit
<1>6. CASE patch \in Resumes
  <2>1. patch # "edited" /\ patch # "without"
    BY <1>6 DEF Resumes
  <2>2. Patched(edit, row, patch) = [whole EXCEPT !.resume = patch, !.without = "no"]
    BY <1>3, <2>1
  <2>3. QED
    BY <1>1, <1>6, <2>2 DEF Edit
<1>7. QED
  BY <1>2, <1>4, <1>5, <1>6

\* Typing changes the edit in the component, the stored one and the latest one alike:
\* the fields are open only once the stored edits were read.
LEMMA TypeEditStep == ASSUME IInv, NEW patch \in Patches, TypeEdit(patch) PROVE IInv'
<1>1. page \in Page /\ EditTypes /\ EditInv /\ BoundTypes
  BY DEF IInv
<1>2. Shown \in Row /\ page.mount = "ready"
  BY <1>1, ShownRow DEF TypeEdit, MayEdit
<1>3. Shown.id \in Id /\ edits = saved /\ saved = typed
  BY <1>1, <1>2, RowFields DEF EditInv
<1> DEFINE edit == Patched(edits[Shown.id], Shown, patch)
<1>4. edits[Shown.id] \in Edit \cup {NoEdit}
  BY <1>1, <1>3 DEF EditTypes
<1>5. edit \in Edit
  BY <1>2, <1>4, PatchedType
<1>6. /\ typed' = [typed EXCEPT ![Shown.id] = Patched(typed[Shown.id], Shown, patch)]
      /\ edits' = [edits EXCEPT ![Shown.id] = edit] /\ saved' = edits'
  BY DEF TypeEdit, EditKey
<1>7. page' = page /\ UNCHANGED <<serverVars, task, delivered>> /\ UNCHANGED boundVars
  BY DEF TypeEdit
<1> HIDE DEF edit
<1>8. typed' = edits'
  BY <1>3, <1>6 DEF edit
<1>9. edits' \in [Id -> Edit \cup {NoEdit}]
  BY <1>1, <1>5, <1>6 DEF EditTypes
<1>10. EditTypes' /\ EditInv'
  BY <1>6, <1>8, <1>9 DEF EditTypes, EditInv
<1>11. BoundTypes' /\ page' \in Page
  BY <1>1, <1>7 DEF BoundTypes, boundVars
<1>12. QED
  BY <1>7, <1>10, <1>11, TabStep

LEMMA OpenPrimaryStep == IInv /\ OpenPrimary => IInv'
<1> SUFFICES ASSUME IInv, OpenPrimary PROVE IInv'
  OBVIOUS
<1>1. page \in Page /\ Shown \in Row
  BY ShownRow DEF IInv, OpenPrimary
<1>2. PICK dialog \in {"none", "send", "reconcile"} :
        page' = [page EXCEPT !.opened = Shown.person, !.dialog = dialog]
  BY Zenon DEF OpenPrimary
<1>3. UNCHANGED <<serverVars, task, delivered>> /\ UNCHANGED <<editVars, boundVars>>
  BY DEF OpenPrimary
<1>4. Shown.person \in People
  BY <1>1, RowFields
<1>5. page' \in Page /\ page'.mount = page.mount
  BY <1>1, <1>2, <1>4 DEF Page
<1>6. QED
  BY <1>3, <1>5, EditsStay, TabStep

LEMMA CloseDialogStep == IInv /\ CloseDialog => IInv'
<1> SUFFICES ASSUME IInv, CloseDialog PROVE IInv'
  OBVIOUS
<1>1. page \in Page
  BY DEF IInv
<1>2. /\ page' = [page EXCEPT !.dialog = "none", !.opened = NoOne]
      /\ UNCHANGED <<serverVars, task, delivered>> /\ UNCHANGED <<editVars, boundVars>>
  BY DEF CloseDialog
<1>3. page' \in Page /\ page'.mount = page.mount
  BY <1>1, <1>2 DEF Page
<1>4. QED
  BY <1>2, <1>3, EditsStay, TabStep

\* Every form that is sent off is filled in.
LEMMA ConfirmSendStep == IInv /\ ConfirmSend => IInv'
<1> SUFFICES ASSUME IInv, ConfirmSend PROVE IInv'
  OBVIOUS
<1>1. Form("send") \in Forms /\ Form("send").step = "asked"
  BY FormType DEF IInv, ConfirmSend, Kinds
<1>2. QED
  BY <1>1, SubmitStep DEF ConfirmSend

LEMMA SaveStatusStep == ASSUME IInv, NEW outcome \in Outcomes, SaveStatus(outcome) PROVE IInv'
<1> DEFINE form == [Form("reconcile") EXCEPT !.choice = outcome]
<1>1. form \in Forms /\ form.step = "asked"
  BY FormType DEF IInv, SaveStatus, Kinds
<1>2. Submit(form)
  BY DEF SaveStatus
<1> HIDE DEF form
<1>3. QED
  BY <1>1, <1>2, SubmitStep

LEMMA SubmitSkipStep == IInv /\ SubmitSkip => IInv'
<1> SUFFICES ASSUME IInv, SubmitSkip PROVE IInv'
  OBVIOUS
<1>1. Form("skip") \in Forms /\ Form("skip").step = "asked"
  BY FormType DEF IInv, SubmitSkip, Kinds
<1>2. QED
  BY <1>1, SubmitStep DEF SubmitSkip

LEMMA SubmitReplaceStep == IInv /\ SubmitReplace => IInv'
<1> SUFFICES ASSUME IInv, SubmitReplace PROVE IInv'
  OBVIOUS
<1> DEFINE form == [Form("replace") EXCEPT !.choice = page.view]
<1>1. page.view \in Bucket
  BY DEF SubmitReplace
<1>2. form \in Forms /\ form.step = "asked"
  BY <1>1, FormType DEF IInv, SubmitReplace, Kinds
<1>3. Submit(form)
  BY DEF SubmitReplace
<1> HIDE DEF form
<1>4. QED
  BY <1>2, <1>3, SubmitStep

LEMMA SubmitDecisionStep ==
  ASSUME IInv, NEW kind \in {"keep-edits", "regenerate"}, SubmitDecision(kind)
  PROVE  IInv'
<1>1. Form(kind) \in Forms /\ Form(kind).step = "asked"
  BY FormType DEF IInv, SubmitDecision, Kinds
<1>2. QED
  BY <1>1, SubmitStep DEF SubmitDecision

LEMMA SubmitCreationStep == ASSUME IInv, NEW bucket \in Bucket, SubmitCreation(bucket) PROVE IInv'
<1> DEFINE form == [kind |-> "create", step |-> "asked", choice |-> bucket, heard |-> "yes"]
<1>1. form \in Creations /\ form.step = "asked"
  BY DEF Creations, Steps
<1>2. Submit(form)
  BY DEF SubmitCreation
<1> HIDE DEF form
<1>3. QED
  BY <1>1, <1>2, SubmitStep

\* A reload forgets the edits of the component, not those in the storage; the form under way
\* goes on as it was.
LEMMA ReloadStep ==
  ASSUME IInv, NEW view \in Class \cup {"all"}, NEW p \in People, Reload(view, p)
  PROVE  IInv'
<1>1. /\ StoreTypes /\ page \in Page /\ EditTypes /\ TaskTypes /\ DeliveredTypes /\ BoundTypes
      /\ FrozenInv /\ EditInv /\ MailsWhatWasConfirmed
  BY DEF IInv
<1>2. /\ order' = order /\ reserve' = reserve /\ draft' = draft /\ op' = op
      /\ class' = class /\ blocked' = blocked /\ delivered' = delivered
      /\ saved' = saved /\ typed' = typed /\ elsewhere' = elsewhere
      /\ edits' = [i \in Id |-> NoEdit]
      /\ task' = IF task = NoForm THEN task ELSE [task EXCEPT !.heard = "no"]
      /\ reloads' = reloads \/ (reloads < MaxReloads /\ reloads' = reloads + 1)
  BY DEF Reload, serverVars
<1>3. page' \in Page /\ page'.mount = "loading"
  <2> DEFINE rows == View(Rendered, view)
             named == \E i \in DOMAIN rows : rows[i].person = p
             next == IF named THEN p ELSE IF rows = <<>> THEN NoOne ELSE rows[1].person
  <2>1. Rendered \in Seq(Row)
    BY <1>1, RenderedRows
  <2>2. rows # <<>> => rows[1].person \in People
    BY <2>1, ViewRows
  <2>3. page' = Mounted(Rendered, view, next)
    BY DEF Reload
  <2> HIDE DEF rows
  <2>4. next \in People \cup {NoOne}
    BY <2>2
  <2> HIDE DEF next
  <2>5. QED
    BY <2>1, <2>3, <2>4 DEF Mounted, Page
<1>4. StoreTypes' /\ DeliveredTypes' /\ MailsWhatWasConfirmed'
  BY <1>1, <1>2 DEF StoreTypes, DeliveredTypes, MailsWhatWasConfirmed
<1>5. EditTypes' /\ EditInv'
  BY <1>1, <1>2, <1>3 DEF EditTypes, EditInv
<1>6. BoundTypes'
  BY <1>1, <1>2, PageAssumption DEF BoundTypes
<1>7. /\ TaskTypes' /\ task'.kind = task.kind
      /\ task.kind # "create" /\ task # NoForm => task'.step = task.step /\ task'.message = task.message
  <2>1. CASE task = NoForm
    BY <1>2, <2>1 DEF TaskTypes
  <2>2. CASE task # NoForm /\ task \in Forms
    <3>1. task' \in Forms /\ task'.kind = task.kind /\ task'.step = task.step
          /\ task'.message = task.message
      BY <1>2, <2>2 DEF Forms
    <3>2. QED
      BY <3>1 DEF TaskTypes
  <2>3. CASE task # NoForm /\ task \in Creations
    <3>1. task' \in Creations /\ task'.kind = task.kind /\ task.kind = "create"
      BY <1>2, <2>3 DEF Creations
    <3>2. QED
      BY <3>1 DEF TaskTypes
  <2>4. QED
    BY <1>1, <2>1, <2>2, <2>3 DEF TaskTypes
<1>8. FrozenInv'
  <2> SUFFICES ASSUME task'.kind = "send", task'.step = "frozen"
               PROVE  /\ op[Person'].state # "ready"
                      /\ op[Person'].text = task'.message.text
                      /\ op[Person'].resume = task'.message.resume
    BY <1>2 DEF FrozenInv
  <2>1. task.kind = "send" /\ task # NoForm
    BY <1>7 DEF NoForm
  <2>2. task'.step = task.step /\ task'.message = task.message
    BY <1>7, <2>1
  <2>3. QED
    BY <1>1, <2>1, <2>2 DEF FrozenInv, Person
<1>9. QED
  BY <1>3, <1>4, <1>5, <1>6, <1>7, <1>8 DEF IInv

\* An answer brings the rows as they are now.
LEMMA ReceiveStep == IInv /\ Receive => IInv'
<1> SUFFICES ASSUME IInv, Receive PROVE IInv'
  OBVIOUS
<1>1. /\ StoreTypes /\ page \in Page /\ EditTypes /\ DeliveredTypes /\ BoundTypes
      /\ EditInv /\ MailsWhatWasConfirmed
  BY DEF IInv
<1>2. /\ order' = order /\ reserve' = reserve /\ draft' = draft /\ op' = op
      /\ class' = class /\ blocked' = blocked /\ delivered' = delivered
      /\ edits' = edits /\ saved' = saved /\ typed' = typed
      /\ elsewhere' = elsewhere /\ reloads' = reloads /\ task' = NoForm
  BY DEF Receive, serverVars, editVars, boundVars
<1>3. page' \in Page /\ (page'.mount = page.mount \/ page'.mount = "error")
  <2>1. Rendered \in Seq(Row)
    BY <1>1, RenderedRows
  <2>2. CASE task.heard = "no"
    BY <1>1, <2>2 DEF Receive
  <2>3. CASE task.heard # "no" /\ task.step = "thrown"
    <3>1. page' = [page EXCEPT !.mount = "error", !.dialog = "none", !.opened = NoOne]
      BY <2>3 DEF Receive
    <3>2. QED
      BY <1>1, <3>1 DEF Page
  <2>4. CASE task.heard # "no" /\ task.step # "thrown"
    <3>1. page' = [page EXCEPT !.rows = Rendered]
      BY <2>4 DEF Receive
    <3>2. QED
      BY <1>1, <2>1, <3>1 DEF Page
  <2>5. QED
    BY <2>2, <2>3, <2>4
<1>4. StoreTypes' /\ DeliveredTypes' /\ MailsWhatWasConfirmed'
  BY <1>1, <1>2 DEF StoreTypes, DeliveredTypes, MailsWhatWasConfirmed
<1>5. EditTypes' /\ EditInv' /\ BoundTypes'
  BY <1>1, <1>2, <1>3 DEF EditTypes, EditInv, BoundTypes
<1>6. TaskTypes' /\ FrozenInv'
  BY <1>2 DEF TaskTypes, FrozenInv, NoForm
<1>7. QED
  BY <1>3, <1>4, <1>5, <1>6 DEF IInv

-----------------------------------------------------------------------------
(* The steps of the server.                                                 *)

\* What is answered has been frozen with what the form says, by this confirmation or before.
LEMMA FindOperationStep == IInv /\ FindOperation => IInv'
<1> SUFFICES ASSUME IInv, FindOperation PROVE IInv'
  OBVIOUS
<1>1. /\ StoreTypes /\ page \in Page /\ EditTypes /\ TaskTypes /\ DeliveredTypes /\ BoundTypes
      /\ EditInv /\ MailsWhatWasConfirmed
  BY DEF IInv
<1>2. /\ order' = order /\ reserve' = reserve /\ draft' = draft /\ class' = class
      /\ blocked' = blocked /\ delivered' = delivered /\ page' = page
      /\ edits' = edits /\ saved' = saved /\ typed' = typed
      /\ elsewhere' = elsewhere /\ reloads' = reloads
      /\ task # NoForm /\ task.kind = "send" /\ task.step = "asked"
  BY DEF FindOperation, editVars, boundVars
<1>3. /\ task \in Forms /\ Person \in People
      /\ task.message.text \in Texts /\ task.message.resume \in Resumes
  BY <1>1, <1>2, FormFields
<1>4. /\ (page \in Page)' /\ EditTypes' /\ DeliveredTypes' /\ BoundTypes' /\ EditInv'
      /\ MailsWhatWasConfirmed'
  BY <1>1, <1>2 DEF EditTypes, DeliveredTypes, BoundTypes, EditInv, MailsWhatWasConfirmed
<1>5. CASE op[Person].state # "ready" /\ task.id = OperationId(Person)
  <2>1. UNCHANGED op /\ Answer(IF ExactContent THEN "frozen" ELSE "answered")
    BY <1>5 DEF FindOperation
  <2>2. StoreTypes'
    BY <1>1, <1>2, <2>1 DEF StoreTypes
  <2>3. PICK step \in Steps : Answer(step) /\ (step = "frozen" => ExactContent)
    BY <2>1 DEF Steps
  <2>4. TaskTypes' /\ task'.step = step /\ task'.message = task.message
    BY <1>1, <1>2, <1>3, <2>3, Answered
  <2>5. FrozenInv'
    BY <1>5, <2>1, <2>3, <2>4 DEF FrozenInv, Person, ExactContent
  <2>6. QED
    BY <1>4, <2>2, <2>4, <2>5 DEF IInv
<1>6. CASE /\ ~(op[Person].state # "ready" /\ task.id = OperationId(Person))
           /\ MayApprove(Person, task.id, task.message.resume, task.without)
  <2>1. Freeze(Person, task.message) /\ Answer("frozen")
    BY <1>6 DEF FindOperation
  <2>2. op' \in [People -> Operation]
        /\ op'[Person] = [state |-> "approved", text |-> task.message.text,
                          resume |-> task.message.resume]
    BY <1>1, <1>3, <2>1, FreezeType
  <2>3. StoreTypes'
    BY <1>1, <1>2, <2>2 DEF StoreTypes
  <2>4. TaskTypes' /\ task'.message = task.message
    BY <1>1, <1>2, <1>3, <2>1, Answered DEF Steps
  <2>5. FrozenInv'
    BY <2>2, <2>4 DEF FrozenInv, Person
  <2>6. QED
    BY <1>4, <2>3, <2>4, <2>5 DEF IInv
<1>7. CASE /\ ~(op[Person].state # "ready" /\ task.id = OperationId(Person))
           /\ ~MayApprove(Person, task.id, task.message.resume, task.without)
  <2>1. UNCHANGED op /\ Refused(Person, task.id)
    BY <1>7 DEF FindOperation
  <2>2. PICK step \in {"answered", "thrown"} : Answer(step)
    BY <2>1 DEF Refused
  <2>3. StoreTypes'
    BY <1>1, <1>2, <2>1 DEF StoreTypes
  <2>4. UNCHANGED <<page, editVars, delivered, boundVars>>
    BY DEF FindOperation
  <2>5. QED
    BY <1>2, <2>2, <2>3, <2>4, ServerStep
<1>8. QED
  BY <1>5, <1>6, <1>7

\* What is mailed is what the operation was frozen with.
LEMMA SendFrozenStep == IInv /\ SendFrozen => IInv'
<1> SUFFICES ASSUME IInv, SendFrozen PROVE IInv'
  OBVIOUS
<1>1. /\ StoreTypes /\ page \in Page /\ EditTypes /\ TaskTypes /\ DeliveredTypes /\ BoundTypes
      /\ FrozenInv /\ EditInv /\ MailsWhatWasConfirmed
  BY DEF IInv
<1>2. /\ order' = order /\ reserve' = reserve /\ draft' = draft /\ class' = class
      /\ blocked' = blocked /\ page' = page
      /\ edits' = edits /\ saved' = saved /\ typed' = typed
      /\ elsewhere' = elsewhere /\ reloads' = reloads
      /\ task # NoForm /\ task.kind = "send" /\ task.step = "frozen"
  BY DEF SendFrozen, editVars, boundVars
<1>3. task \in Forms /\ Person \in People /\ task.message \in Message
  BY <1>1, <1>2, FormFields
<1> DEFINE mailed == [person |-> Person, text |-> op[Person].text, resume |-> op[Person].resume]
<1>4. mailed = task.message
  <2>1. op[Person].text = task.message.text /\ op[Person].resume = task.message.resume
    BY <1>1, <1>2 DEF FrozenInv
  <2>2. task.message = [person |-> task.message.person, text |-> task.message.text,
                        resume |-> task.message.resume]
    BY <1>3 DEF Message
  <2>3. QED
    BY <2>1, <2>2 DEF Person
<1>5. PICK state \in Progress(Person) :
        /\ Advance(Person, state)
        /\ \/ delivered' = delivered
           \/ delivered' = delivered \cup {[confirmed |-> task.message, mailed |-> mailed]}
  BY Zenon DEF SendFrozen
<1> HIDE DEF mailed
<1>6. state \in States \cup {"sent"}
  BY <1>1, <1>3, ProgressType
<1>7. op' \in [People -> Operation]
  BY <1>1, <1>3, <1>5, <1>6, AdvanceType
<1>8. StoreTypes'
  BY <1>1, <1>2, <1>7 DEF StoreTypes
<1>9. DeliveredTypes' /\ MailsWhatWasConfirmed'
  BY <1>1, <1>3, <1>4, <1>5 DEF DeliveredTypes, MailsWhatWasConfirmed
<1>10. (page \in Page)' /\ EditTypes' /\ BoundTypes' /\ EditInv'
  BY <1>1, <1>2 DEF EditTypes, BoundTypes, EditInv
<1>11. PICK step \in {"answered", "thrown"} : Answer(step)
  BY Zenon DEF SendFrozen
<1>12. TaskTypes' /\ task'.step = step
  BY <1>1, <1>2, <1>11, Answered DEF Steps
<1>13. FrozenInv'
  BY <1>11, <1>12 DEF FrozenInv
<1>14. QED
  BY <1>8, <1>9, <1>10, <1>12, <1>13 DEF IInv

\* A command that throws changes nothing of the store, one that does not keeps its types.
LEMMA ServeStep ==
  ASSUME IInv, task # NoForm, NEW step \in {"answered", "thrown"}, Answer(step),
         UNCHANGED <<class, blocked, page, editVars, delivered, boundVars>>,
         order' \in Seq(People), reserve' \in Seq(People),
         draft' \in [People -> [text : Texts, bucket : Class]], op' \in [People -> Operation]
  PROVE  IInv'
<1>1. StoreTypes
  BY DEF IInv
<1>2. class' = class /\ blocked' = blocked
  OBVIOUS
<1>3. StoreTypes'
  BY <1>1, <1>2 DEF StoreTypes
<1>4. UNCHANGED <<page, editVars, delivered, boundVars>>
  OBVIOUS
<1>5. QED
  BY <1>3, <1>4, ServerStep

\* What every command shares.
LEMMA Served ==
  ASSUME IInv, NEW kind, NEW permitted, NEW effect, Serve(kind, permitted, effect)
  PROVE  /\ StoreTypes /\ task # NoForm /\ task.kind = kind
         /\ UNCHANGED <<class, blocked, page, editVars, delivered, boundVars>>
         /\ \E step \in {"answered", "thrown"} : Answer(step)
         /\ effect \/ UNCHANGED queueVars
         /\ kind # "create" => /\ Person \in People /\ task.message.text \in Texts
BY FormFields DEF Serve, IInv

\* Nothing changes in the queue.
LEMMA QueueStays ==
  ASSUME StoreTypes, UNCHANGED queueVars
  PROVE  /\ order' \in Seq(People) /\ reserve' \in Seq(People)
         /\ draft' \in [People -> [text : Texts, bucket : Class]] /\ op' \in [People -> Operation]
BY DEF StoreTypes, queueVars

LEMMA SkipStep == IInv /\ Skip => IInv'
<1> SUFFICES ASSUME IInv, Skip PROVE IInv'
  OBVIOUS
<1> DEFINE effect == Remove(Person) /\ UNCHANGED <<reserve, draft, op>>
<1>1. Serve("skip", MayDismiss(Person) \/ Person \notin Elements(order), effect)
  BY Zenon DEF Skip
<1> HIDE DEF effect
<1>2. /\ StoreTypes /\ task # NoForm
      /\ UNCHANGED <<class, blocked, page, editVars, delivered, boundVars>>
      /\ effect \/ UNCHANGED queueVars
  BY <1>1, Served
<1>3. PICK step \in {"answered", "thrown"} : Answer(step)
  BY <1>1, Served
<1>4. /\ order' \in Seq(People) /\ reserve' \in Seq(People)
      /\ draft' \in [People -> [text : Texts, bucket : Class]] /\ op' \in [People -> Operation]
  BY <1>2, QueueStays, RemoveType DEF effect, StoreTypes
<1>5. QED
  BY <1>2, <1>3, <1>4, ServeStep

LEMMA ReplaceStep == IInv /\ Replace => IInv'
<1> SUFFICES ASSUME IInv, Replace PROVE IInv'
  OBVIOUS
<1> DEFINE effect == PutInPlace(Person, task.choice) /\ UNCHANGED <<draft, op>>
<1>1. Serve("replace", MayReplace(Person, task.choice), effect)
  BY Zenon DEF Replace
<1> HIDE DEF effect
<1>2. /\ StoreTypes /\ task # NoForm
      /\ UNCHANGED <<class, blocked, page, editVars, delivered, boundVars>>
      /\ effect \/ UNCHANGED queueVars
  BY <1>1, Served
<1>3. PICK step \in {"answered", "thrown"} : Answer(step)
  BY <1>1, Served
<1>4. /\ order' \in Seq(People) /\ reserve' \in Seq(People)
      /\ draft' \in [People -> [text : Texts, bucket : Class]] /\ op' \in [People -> Operation]
  BY <1>2, QueueStays, PutInPlaceType DEF effect, StoreTypes
<1>5. QED
  BY <1>2, <1>3, <1>4, ServeStep

\* Either decision writes the draft of one person.
LEMMA DecisionStep ==
  ASSUME IInv, NEW kind \in {"keep-edits", "regenerate"}, NEW permitted,
         NEW text, task.message.text \in Texts => text \in Texts,
         Serve(kind, permitted, Decide(Person, text) /\ UNCHANGED <<order, reserve, op>>)
  PROVE  IInv'
<1> DEFINE effect == Decide(Person, text) /\ UNCHANGED <<order, reserve, op>>
<1>1. Serve(kind, permitted, effect)
  OBVIOUS
<1> HIDE DEF effect
<1>2. /\ StoreTypes /\ task # NoForm
      /\ UNCHANGED <<class, blocked, page, editVars, delivered, boundVars>>
      /\ effect \/ UNCHANGED queueVars
      /\ Person \in People /\ task.message.text \in Texts
  BY <1>1, Served
<1>3. PICK step \in {"answered", "thrown"} : Answer(step)
  BY <1>1, Served
<1>4. /\ order' \in Seq(People) /\ reserve' \in Seq(People)
      /\ draft' \in [People -> [text : Texts, bucket : Class]] /\ op' \in [People -> Operation]
  <2>1. CASE effect
    <3>1. text \in Texts /\ Decide(Person, text) /\ UNCHANGED <<order, reserve, op>>
      BY <1>2, <2>1 DEF effect
    <3>2. draft' \in [People -> [text : Texts, bucket : Class]]
      BY <1>2, <3>1, DecideType
    <3>3. QED
      BY <1>2, <3>1, <3>2 DEF StoreTypes
  <2>2. QED
    BY <1>2, <2>1, QueueStays
<1>5. QED
  BY <1>2, <1>3, <1>4, ServeStep

LEMMA KeepStep == IInv /\ Keep => IInv'
BY DecisionStep DEF Keep

LEMMA RegenerateStep == IInv /\ Regenerate => IInv'
BY DecisionStep DEF Regenerate, Texts

LEMMA ReconcileStep == IInv /\ Reconcile => IInv'
<1> SUFFICES ASSUME IInv, Reconcile PROVE IInv'
  OBVIOUS
<1> DEFINE effect == Reconciled(Person, task.choice) /\ UNCHANGED <<order, reserve, draft>>
<1>1. Serve("reconcile", op[Person].state = "needs-send-verification" /\ task.id = OperationId(Person),
            effect)
  BY Zenon DEF Reconcile
<1> HIDE DEF effect
<1>2. /\ StoreTypes /\ task # NoForm
      /\ UNCHANGED <<class, blocked, page, editVars, delivered, boundVars>>
      /\ effect \/ UNCHANGED queueVars
      /\ Person \in People
  BY <1>1, Served
<1>3. PICK step \in {"answered", "thrown"} : Answer(step)
  BY <1>1, Served
<1>4. /\ order' \in Seq(People) /\ reserve' \in Seq(People)
      /\ draft' \in [People -> [text : Texts, bucket : Class]] /\ op' \in [People -> Operation]
  BY <1>2, QueueStays, ReconciledType DEF effect, StoreTypes
<1>5. QED
  BY <1>2, <1>3, <1>4, ServeStep

LEMMA CreateStep == IInv /\ Create => IInv'
<1> SUFFICES ASSUME IInv, Create PROVE IInv'
  OBVIOUS
<1> DEFINE none == Supply(task.choice) = {}
           first == FirstOf(task.choice)
           effect == IF none THEN UNCHANGED queueVars
                     ELSE /\ order' = Append(order, first) /\ Taken(first)
                          /\ UNCHANGED <<draft, op>>
           always == TRUE
<1>1. Serve("create", always, effect)
  BY Zenon DEF Create
<1> HIDE DEF effect, always
<1>2. /\ StoreTypes /\ task # NoForm
      /\ UNCHANGED <<class, blocked, page, editVars, delivered, boundVars>>
      /\ effect \/ UNCHANGED queueVars
  BY <1>1, Served
<1>3. PICK step \in {"answered", "thrown"} : Answer(step)
  BY <1>1, Served
<1>4. ~none => first \in People
  BY <1>2, FirstOfSupply
<1> HIDE DEF none, first
<1>5. /\ order' \in Seq(People) /\ reserve' \in Seq(People)
      /\ draft' \in [People -> [text : Texts, bucket : Class]] /\ op' \in [People -> Operation]
  <2>1. CASE UNCHANGED queueVars
    BY <1>2, <2>1, QueueStays
  <2>2. CASE effect /\ ~none
    <3>1. /\ order' = Append(order, first) /\ Taken(first) /\ draft' = draft /\ op' = op
      BY <2>2 DEF effect
    <3>2. order' \in Seq(People)
      BY <1>2, <1>4, <2>2, <3>1, AppendedElements DEF StoreTypes
    <3>3. reserve' \in Seq(People)
      BY <1>2, <3>1, TakenType
    <3>4. QED
      BY <1>2, <3>1, <3>2, <3>3 DEF StoreTypes
  <2>3. QED
    BY <1>2, <2>1, <2>2 DEF effect
<1>6. QED
  BY <1>2, <1>3, <1>5, ServeStep

-----------------------------------------------------------------------------
(* The steps taken elsewhere.                                               *)

\* Whatever happens elsewhere leaves what is frozen as it is: a draft is approved only as
\* long as it has no operation, and an operation only changes its state.
LEMMA OtherStep ==
  ASSUME IInv, StoreTypes', BoundTypes', UNCHANGED <<page, editVars, task, delivered>>,
         \A q \in People : op[q].state # "ready" =>
           /\ op'[q].state # "ready"
           /\ op'[q].text = op[q].text /\ op'[q].resume = op[q].resume
  PROVE  IInv'
<1>1. /\ page \in Page /\ EditTypes /\ TaskTypes /\ DeliveredTypes /\ FrozenInv
      /\ EditInv /\ MailsWhatWasConfirmed
  BY DEF IInv
<1>2. /\ page' = page /\ edits' = edits /\ saved' = saved /\ typed' = typed
      /\ task' = task /\ delivered' = delivered
  BY DEF editVars
<1>3. (page \in Page)' /\ EditTypes' /\ TaskTypes' /\ DeliveredTypes' /\ EditInv'
      /\ MailsWhatWasConfirmed'
  BY <1>1, <1>2 DEF EditTypes, TaskTypes, DeliveredTypes, EditInv, MailsWhatWasConfirmed
<1>4. FrozenInv'
  <2> SUFFICES ASSUME task.kind = "send", task.step = "frozen"
               PROVE  /\ op'[Person].state # "ready"
                      /\ op'[Person].text = task.message.text
                      /\ op'[Person].resume = task.message.resume
    BY <1>2 DEF FrozenInv, Person
  <2>1. Person \in People
    BY <1>1, FormFields DEF NoForm
  <2>2. QED
    BY <1>1, <2>1 DEF FrozenInv
<1>5. QED
  BY <1>3, <1>4 DEF IInv

LEMMA ElsewhereStep == ASSUME IInv, NEW p \in People, Elsewhere(p) PROVE IInv'
<1> DEFINE Stays == \A q \in People : op[q].state # "ready" =>
                      /\ op'[q].state # "ready"
                      /\ op'[q].text = op[q].text /\ op'[q].resume = op[q].resume
<1>1. StoreTypes /\ BoundTypes
  BY DEF IInv
<1>2. /\ elsewhere < MaxElsewhere /\ elsewhere' = elsewhere + 1 /\ reloads' = reloads
      /\ UNCHANGED <<page, editVars, task, delivered>>
  BY DEF Elsewhere
<1>3. BoundTypes'
  BY <1>1, <1>2, PageAssumption DEF BoundTypes
<1>4. StoreTypes' /\ Stays
  <2>1. CASE /\ \E text \in {draft[p].text, "edited"}, resume \in Resumes :
                  /\ MayApprove(p, DraftId(p), resume, TRUE)
                  /\ Freeze(p, [text |-> text, resume |-> resume])
             /\ UNCHANGED <<order, reserve, draft, class, blocked>>
    <3>1. PICK text \in {draft[p].text, "edited"}, resume \in Resumes :
            op[p].state = "ready" /\ Freeze(p, [text |-> text, resume |-> resume])
      BY <2>1 DEF MayApprove
    <3> DEFINE message == [text |-> text, resume |-> resume]
    <3>2. text \in Texts
      BY <1>1, StoreFields DEF Texts
    <3>3. message.text \in Texts /\ message.resume \in Resumes /\ Freeze(p, message)
      BY <3>1, <3>2
    <3> HIDE DEF message
    <3>4. op' \in [People -> Operation] /\ \A q \in People \ {p} : op'[q] = op[q]
      BY <1>1, <3>3, FreezeType
    <3>5. Stays
      BY <3>1, <3>4
    <3>6. StoreTypes'
      BY <1>1, <2>1, <3>4 DEF StoreTypes
    <3>7. QED
      BY <3>5, <3>6
  <2>2. CASE /\ op[p].state # "ready"
             /\ \E state \in Progress(p) \ {op[p].state} : Advance(p, state)
             /\ UNCHANGED <<order, reserve, draft, class, blocked>>
    <3>1. PICK state \in Progress(p) : Advance(p, state)
      BY <2>2
    <3>2. state \in States \cup {"sent"} /\ state # "ready"
      BY <1>1, <2>2, ProgressType
    <3>3. /\ op' \in [People -> Operation]
          /\ op'[p].state = state /\ op'[p].text = op[p].text /\ op'[p].resume = op[p].resume
          /\ \A q \in People \ {p} : op'[q] = op[q]
      BY <1>1, <3>1, <3>2, AdvanceType
    <3>4. ASSUME NEW q \in People, op[q].state # "ready"
          PROVE  /\ op'[q].state # "ready"
                 /\ op'[q].text = op[q].text /\ op'[q].resume = op[q].resume
      <4>1. CASE q = p
        BY <3>2, <3>3, <4>1
      <4>2. CASE q # p
        BY <3>3, <3>4, <4>2
      <4>3. QED
        BY <4>1, <4>2
    <3>5. StoreTypes'
      BY <1>1, <2>2, <3>3 DEF StoreTypes
    <3>6. QED
      BY <3>4, <3>5
  <2>3. CASE /\ \E outcome \in {"sent", "not-sent"} : Reconciled(p, outcome)
             /\ UNCHANGED <<order, reserve, draft, class, blocked>>
    <3>1. PICK outcome \in {"sent", "not-sent"} : Reconciled(p, outcome)
      BY <2>3
    <3>2. /\ op' \in [People -> Operation]
          /\ \A q \in People : /\ op'[q].text = op[q].text /\ op'[q].resume = op[q].resume
                               /\ op[q].state # "ready" => op'[q].state # "ready"
      BY <1>1, <3>1, ReconciledType
    <3>3. StoreTypes'
      BY <1>1, <2>3, <3>2 DEF StoreTypes
    <3>4. QED
      BY <3>2, <3>3
  <2>4. CASE Remove(p) /\ UNCHANGED <<reserve, draft, op, class, blocked>>
    <3>1. order' \in Seq(People)
      BY <1>1, <2>4, RemoveType
    <3>2. QED
      BY <1>1, <2>4, <3>1 DEF StoreTypes
  <2>5. CASE Decide(p, "again") /\ UNCHANGED <<order, reserve, op, class, blocked>>
    <3>1. draft' \in [People -> [text : Texts, bucket : Class]]
      BY <1>1, <2>5, DecideType DEF Texts
    <3>2. QED
      BY <1>1, <2>5, <3>1 DEF StoreTypes
  <2>6. CASE /\ \E bucket \in Bucket \ {class[p]} : class' = [class EXCEPT ![p] = bucket]
             /\ UNCHANGED <<queueVars, blocked>>
    <3>1. PICK bucket \in Bucket : class' = [class EXCEPT ![p] = bucket]
      BY <2>6
    <3>2. /\ class' \in [People -> Class] /\ blocked' = blocked
          /\ order' = order /\ reserve' = reserve /\ draft' = draft /\ op' = op
      BY <1>1, <2>6, <3>1 DEF StoreTypes, Class, queueVars
    <3>3. QED
      BY <1>1, <3>2 DEF StoreTypes
  <2>7. CASE blocked' = blocked \cup {p} /\ UNCHANGED <<queueVars, class>>
    <3>1. /\ class' = class
          /\ order' = order /\ reserve' = reserve /\ draft' = draft /\ op' = op
      BY <2>7 DEF queueVars
    <3>2. QED
      BY <1>1, <2>7, <3>1 DEF StoreTypes
  <2>8. QED
    BY <2>1, <2>2, <2>3, <2>4, <2>5, <2>6, <2>7 DEF Elsewhere
<1>5. QED
  BY <1>2, <1>3, <1>4, OtherStep

-----------------------------------------------------------------------------
(* The theorems.                                                            *)

LEMMA Initially == Init => IInv
<1> SUFFICES ASSUME Init PROVE IInv
  OBVIOUS
<1>1. /\ order = Queued /\ reserve = Waiting /\ class = BucketOf /\ blocked = {}
      /\ draft = [p \in People |-> [text |-> "first", bucket |-> BucketOf[p]]]
      /\ op = [p \in People |-> [state |-> "ready", text |-> "first", resume |-> "none"]]
      /\ page = Mounted(Rendered, "all", NoOne)
      /\ edits = [i \in Id |-> NoEdit] /\ saved = edits /\ typed = edits
      /\ task = NoForm /\ delivered = {} /\ elsewhere = 0 /\ reloads = 0
  BY DEF Init
<1>2. op \in [People -> Operation]
  <2>1. [state |-> "ready", text |-> "first", resume |-> "none"] \in Operation
    BY DEF Operation, States, Texts, Resumes
  <2>2. QED
    BY <1>1, <2>1
<1>3. draft \in [People -> [text : Texts, bucket : Class]] /\ class \in [People -> Class]
  BY <1>1, PageAssumption DEF Texts, Class
<1>4. StoreTypes
  BY <1>1, <1>2, <1>3, PageAssumption DEF StoreTypes
<1>5. page \in Page /\ page.mount = "loading"
  <2>1. Rendered \in Seq(Row)
    BY <1>4, RenderedRows
  <2>2. QED
    BY <1>1, <2>1 DEF Mounted, Page
<1>6. EditTypes /\ EditInv
  BY <1>1, <1>5 DEF EditTypes, EditInv
<1>7. TaskTypes /\ DeliveredTypes /\ FrozenInv /\ MailsWhatWasConfirmed
  BY <1>1 DEF TaskTypes, DeliveredTypes, FrozenInv, NoForm, MailsWhatWasConfirmed
<1>8. BoundTypes
  BY <1>1, PageAssumption DEF BoundTypes
<1>9. QED
  BY <1>4, <1>5, <1>6, <1>7, <1>8 DEF IInv

LEMMA Inductive == IInv /\ [Next]_vars => IInv'
<1> SUFFICES ASSUME IInv, [Next]_vars PROVE IInv'
  OBVIOUS
<1>1. CASE Operator
  BY <1>1, SelectStep, MoveStep, SelectBucketStep, TypeEditStep, OpenPrimaryStep,
     CloseDialogStep, ConfirmSendStep, SaveStatusStep, SubmitSkipStep, SubmitReplaceStep,
     SubmitDecisionStep, SubmitCreationStep, ReloadStep
     DEF Operator, Outcomes
<1>2. CASE Server
  BY <1>2, FindOperationStep, SendFrozenStep, SkipStep, ReplaceStep, KeepStep, RegenerateStep,
     ReconcileStep, CreateStep DEF Server
<1>3. CASE RestoreEdits
  BY <1>3, RestoreEditsStep
<1>4. CASE Receive
  BY <1>4, ReceiveStep
<1>5. CASE \E p \in People : Elsewhere(p)
  BY <1>5, ElsewhereStep
<1>6. CASE UNCHANGED vars
  <2>1. UNCHANGED <<serverVars, task, delivered>> /\ UNCHANGED <<editVars, boundVars>>
        /\ page' = page
    BY <1>6 DEF vars
  <2>2. page' \in Page
    BY <2>1 DEF IInv
  <2>3. QED
    BY <2>1, <2>2, EditsStay, TabStep
<1>7. QED
  BY <1>1, <1>2, <1>3, <1>4, <1>5, <1>6 DEF Next

\* The parts of the invariant hold together in every state: what an answer, a reload or another
\* tab changes of one of them is made good by the others.
THEOREM Invariance == Spec => []IInv
BY Initially, Inductive, PTL DEF Spec

\* The state of the workspace has its types: rows are rendered only for drafts and operations
\* that are not sent, forms are filled in only from a row that is shown, and a bucket whose
\* supply is not empty has a first person (TypeOK).
THEOREM TypeCorrect == Spec => []TypeOK
<1>1. ASSUME IInv PROVE TypeOK
  <2>1. /\ StoreTypes /\ page \in Page /\ EditTypes /\ TaskTypes /\ DeliveredTypes /\ BoundTypes
    BY <1>1 DEF IInv
  <2>2. task = NoForm \/ (task.kind \in Kinds /\ task.step \in Steps)
    BY <2>1 DEF TaskTypes, Forms, Creations, Kinds
  <2>3. \A e \in {edits, saved, typed} : e \in [Id -> Edit \cup {NoEdit}]
    BY <2>1 DEF EditTypes
  <2>4. QED
    BY <2>1, <2>2, <2>3 DEF TypeOK, StoreTypes, Operation, Page, DeliveredTypes, BoundTypes, Steps
<1>2. QED
  BY <1>1, Invariance, PTL

\* What is mailed for a confirmation is the message the dialog showed, for any number of
\* people, reloads and changes made elsewhere (confirmAndSendDraft).
THEOREM ConfirmedIsMailed == Spec => []MailsWhatWasConfirmed
<1>1. IInv => MailsWhatWasConfirmed
  BY DEF IInv
<1>2. QED
  BY <1>1, Invariance, PTL

\* A draft that can still be edited shows the latest edit of exactly that draft, and no
\* edit of another draft or of the text it replaced, for any number of edits and reloads.
THEOREM TypedIsShown == Spec => []ShowsWhatWasTyped
<1>1. ASSUME IInv PROVE ShowsWhatWasTyped
  <2>1. page.mount = "ready" => edits = typed
    BY <1>1 DEF IInv, EditInv
  <2>2. QED
    BY <2>1 DEF ShowsWhatWasTyped, ShownText, ShownResume, HasEdit, EditKey
<1>2. QED
  BY <1>1, Invariance, PTL
==============================================================================
