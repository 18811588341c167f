-------------------------- MODULE UiRefreshProofs --------------------------
(***************************************************************************)
(* Proofs about UiRefresh, for every number of devices and of refreshes    *)
(* under way, whose answers may come and be applied in any order.          *)
(***************************************************************************)
EXTENDS UiRefresh, TLAPS

\* At most one refresh gives the scan button back.
Waits(s) == refreshes[s] # None /\ refreshes[s].button
OneWaits == \A s, t \in Slots : Waits(s) /\ Waits(t) => s = t

Types ==
  /\ devices \subseteq MACs /\ mapping \in Opt(Targets)
  /\ page \in Page
  /\ {form, chosen, dialog, wanted} \subseteq Opt(Targets)
  /\ refreshes \in [Slots -> Opt(Refresh)]

Button ==
  /\ button \in {"ready", "asking", "waiting", "refreshing"}
  /\ button = "refreshing" <=> \E s \in Slots : Waits(s)
  /\ OneWaits

IInv == Types /\ Button /\ FormFollowsUser /\ EditKeepsTarget

\* A selection that is offered stays, and there is always one to make.
LEMMA Selects ==
  ASSUME NEW devs, NEW extra, NEW old
  PROVE  /\ old \in Offered(devs, extra) => Selection(devs, extra, old) = {old}
         /\ Selection(devs, extra, old) \subseteq Offered(devs, extra)
  BY DEF Selection, Offered, First

\* What a step does to one refresh is all it does to the refreshes.
Only(s) == \A t \in Slots : t # s => (Waits(t)' <=> Waits(t))

LEMMA OnlyOne ==
  ASSUME Types, NEW s \in Slots, NEW r, refreshes' = [refreshes EXCEPT ![s] = r]
  PROVE  Only(s) /\ refreshes'[s] = r
<1>1. \A t \in Slots : t # s => refreshes'[t] = refreshes[t]
  BY DEF Types
<1>2. Only(s)
  BY <1>1, Zenon DEF Only, Waits
<1>3. QED
  BY <1>2 DEF Types

\* A refresh that has just been started.
LEMMA AskedIs ==
  ASSUME NEW waits \in BOOLEAN
  PROVE  /\ Asked(waits) \in Refresh
         /\ Asked(waits).button <=> waits
<1>1. Asked(waits) \in Refresh
  <2>1. ASSUME NEW D, NEW M, NEW d \in D, NEW m \in M
        PROVE  [devices |-> d, mapping |-> m, button |-> waits]
               \in [devices : D, mapping : M, button : BOOLEAN]
    OBVIOUS
  <2>2. Pending \in (SUBSET MACs) \cup {Pending} /\ Pending \in Opt(Targets) \cup {Pending}
    OBVIOUS
  <2>3. QED
    BY <2>1, <2>2, Zenon DEF Asked, Refresh
<1>2. Asked(waits).button = waits
  BY DEF Asked
<1>3. QED
  BY <1>1, <1>2

\* The refreshes after one was started.
LEMMA StartsOne ==
  ASSUME Types, Button, NEW waits \in BOOLEAN, Starts(waits),
         IF waits THEN button # "refreshing" /\ button' = "refreshing" ELSE button' = button
  PROVE  refreshes' \in [Slots -> Opt(Refresh)] /\ Button'
<1>1. PICK s \in Slots : refreshes[s] = None /\ refreshes' = [refreshes EXCEPT ![s] = Asked(waits)]
  BY DEF Starts
<1>2. refreshes' \in [Slots -> Opt(Refresh)]
  BY <1>1, AskedIs DEF Types, Opt
<1>3. Only(s) /\ refreshes'[s] = Asked(waits)
  BY <1>1, OnlyOne
<1>4. Asked(waits) # None
  BY AskedIs, RefreshAssumption
<1>5. ~Waits(s) /\ (Waits(s)' <=> waits)
  BY <1>1, <1>3, <1>4, AskedIs, Zenon DEF Waits
<1>6. Button'
  BY <1>3, <1>5 DEF Button, OneWaits, Only
<1>7. QED
  BY <1>2, <1>6

\* The refreshes after one has ended.
LEMMA EndsOne ==
  ASSUME Types, Button, NEW s \in Slots, refreshes[s] # None, Ends(s)
  PROVE  refreshes' \in [Slots -> Opt(Refresh)] /\ Button'
<1>1. refreshes' \in [Slots -> Opt(Refresh)]
  BY DEF Ends, Types, Opt
<1>2. Only(s) /\ refreshes'[s] = None
  BY OnlyOne DEF Ends
<1>3. ~Waits(s)'
  BY <1>2 DEF Waits
<1>4. button' = IF Waits(s) THEN "ready" ELSE button
  BY Zenon DEF Ends, Waits
<1>5. Button'
  BY <1>2, <1>3, <1>4 DEF Button, OneWaits, Only
<1>6. QED
  BY <1>1, <1>5

\* The refreshes after a request of one was answered.
LEMMA AnswersOne ==
  ASSUME Types, Button, NEW s \in Slots, NEW r \in Refresh, refreshes[s] # None,
         refreshes' = [refreshes EXCEPT ![s] = r], r.button = refreshes[s].button,
         button' = button
  PROVE  refreshes' \in [Slots -> Opt(Refresh)] /\ Button'
<1>1. refreshes' \in [Slots -> Opt(Refresh)]
  BY DEF Types, Opt
<1>2. Only(s) /\ refreshes'[s] = r /\ r # None
  BY OnlyOne, RefreshAssumption
<1>3. Waits(s)' <=> Waits(s)
  BY <1>2, Zenon DEF Waits
<1>4. Button'
  BY <1>2, <1>3 DEF Button, OneWaits, Only
<1>5. QED
  BY <1>1, <1>4

-----------------------------------------------------------------------------
LEMMA InitInv == Init => IInv
<1> SUFFICES ASSUME Init PROVE IInv
  OBVIOUS
<1>1. PICK s \in Slots : refreshes = [t \in Slots |-> IF t = s THEN Asked(FALSE) ELSE None]
  BY DEF Init
<1>2. refreshes \in [Slots -> Opt(Refresh)]
  BY <1>1, AskedIs DEF Opt
<1>3. \A t \in Slots : refreshes[t] = None \/ refreshes[t] = Asked(FALSE)
  BY <1>1
<1>4. \A t \in Slots : ~Waits(t)
  BY <1>3, AskedIs, Zenon DEF Waits
<1>5. Types /\ Button
  BY <1>2, <1>4 DEF Init, Types, Button, OneWaits, Page, Opt
<1>6. QED
  BY <1>5 DEF Init, IInv, FormFollowsUser, EditKeepsTarget

\* The answers and failures of requests.
LEMMA RefreshSteps ==
  ASSUME IInv, NEW s \in Slots,
         DevicesAnswered(s) \/ MappingAnswered(s) \/ Renders(s) \/ RefreshFails(s)
  PROVE  IInv'
<1> USE DEF server, forms, edit
<1>1. refreshes[s] \in Refresh
  BY DEF DevicesAnswered, MappingAnswered, Renders, Complete, RefreshFails, IInv, Types, Opt
<1>2. CASE DevicesAnswered(s)
  <2>1. DEFINE r == [refreshes[s] EXCEPT !.devices = devices]
  <2>2. r \in Refresh /\ r.button = refreshes[s].button
    BY <1>1 DEF Refresh, IInv, Types
  <2>3. refreshes' = [refreshes EXCEPT ![s] = r]
    BY <1>2 DEF DevicesAnswered
  <2> HIDE DEF r
  <2>4. refreshes' \in [Slots -> Opt(Refresh)] /\ Button'
    BY <1>2, <2>2, <2>3, AnswersOne DEF DevicesAnswered, IInv
  <2>5. QED
    BY <1>2, <2>4 DEF DevicesAnswered, IInv, Types, FormFollowsUser, EditKeepsTarget
<1>3. CASE MappingAnswered(s)
  <2>1. DEFINE r == [refreshes[s] EXCEPT !.mapping = mapping]
  <2>2. r \in Refresh /\ r.button = refreshes[s].button
    BY <1>1 DEF Refresh, IInv, Types
  <2>3. refreshes' = [refreshes EXCEPT ![s] = r]
    BY <1>3 DEF MappingAnswered
  <2> HIDE DEF r
  <2>4. refreshes' \in [Slots -> Opt(Refresh)] /\ Button'
    BY <1>3, <2>2, <2>3, AnswersOne DEF MappingAnswered, IInv
  <2>5. QED
    BY <1>3, <2>4 DEF MappingAnswered, IInv, Types, FormFollowsUser, EditKeepsTarget
<1>4. CASE Renders(s)
  <2>1. refreshes' \in [Slots -> Opt(Refresh)] /\ Button'
    BY <1>4, EndsOne DEF Renders, Complete, IInv
  <2>2. refreshes[s].devices \subseteq MACs /\ refreshes[s].mapping \in Opt(Targets)
    BY <1>1, <1>4 DEF Renders, Complete, Refresh
  <2>3. page' \in Page
    BY <1>4, <2>2 DEF Renders, Page
  <2>4. form' \in Opt(Targets)
    BY <1>4, <2>2, Selects DEF Renders, Offered, Targets, Opt
  <2>5. chosen' \in Opt(Targets)
    BY <1>4 DEF Renders, IInv, Types, Opt
  <2>6. Types'
    BY <1>4, <2>1, <2>3, <2>4, <2>5 DEF Renders, IInv, Types
  <2>7. FormFollowsUser'
    BY <1>4, Selects DEF Renders, IInv, FormFollowsUser
  <2>8. QED
    BY <1>4, <2>1, <2>6, <2>7 DEF Renders, IInv, EditKeepsTarget
<1>5. CASE RefreshFails(s)
  <2>1. refreshes' \in [Slots -> Opt(Refresh)] /\ Button'
    BY <1>5, EndsOne DEF RefreshFails, IInv
  <2>2. QED
    BY <1>5, <2>1 DEF RefreshFails, IInv, Types, FormFollowsUser, EditKeepsTarget
<1>6. QED
  BY <1>2, <1>3, <1>4, <1>5

\* The page starts a refresh and does nothing else to the forms.
LEMMA StartSteps ==
  ASSUME IInv, TimerFires \/ ScanTimeout \/ Scan \/ ScanAnswered \/ DevicesChange \/ MappingChanges
  PROVE  IInv'
<1> USE DEF server, forms, edit
<1>1. UNCHANGED <<page, form, chosen, dialog, wanted>> /\ devices' \subseteq MACs /\ mapping' \in Opt(Targets)
  BY DEF TimerFires, ScanTimeout, Scan, ScanAnswered, DevicesChange, MappingChanges, IInv, Types
<1>2. refreshes' \in [Slots -> Opt(Refresh)] /\ Button'
  <2>1. CASE TimerFires
    BY <2>1, StartsOne DEF TimerFires, IInv
  <2>2. CASE ScanTimeout
    BY <2>2, StartsOne DEF ScanTimeout, IInv
  <2>3. CASE Scan \/ ScanAnswered \/ DevicesChange \/ MappingChanges
    <3>1. /\ refreshes' = refreshes
          /\ button' \in {"ready", "asking", "waiting", "refreshing"}
          /\ button' = "refreshing" <=> button = "refreshing"
      BY <2>3 DEF Scan, ScanAnswered, DevicesChange, MappingChanges, IInv, Button
    <3>2. \A s \in Slots : Waits(s)' <=> Waits(s)
      BY <3>1, Zenon DEF Waits
    <3>3. QED
      BY <3>1, <3>2 DEF IInv, Types, Button, OneWaits
  <2>4. QED
    BY <2>1, <2>2, <2>3
<1>3. QED
  BY <1>1, <1>2 DEF IInv, Types, FormFollowsUser, EditKeepsTarget

\* What the user does to the form and the dialog.
LEMMA FormSteps ==
  ASSUME IInv, SubmitForm \/ OpenEdit \/ CancelEdit \/ SubmitEdit
               \/ \E t \in Targets : Select(t) \/ SelectInDialog(t)
  PROVE  IInv'
<1> USE DEF server, forms, edit
<1>1. Starts(FALSE) \/ UNCHANGED refreshes
  BY DEF SubmitForm, OpenEdit, CancelEdit, SubmitEdit, Select, SelectInDialog, Accepted, Refused
<1>2. UNCHANGED <<devices, page, button>>
  BY DEF SubmitForm, OpenEdit, CancelEdit, SubmitEdit, Select, SelectInDialog
<1>3. refreshes' \in [Slots -> Opt(Refresh)] /\ Button'
  <2>1. CASE Starts(FALSE)
    BY <1>2, <2>1, StartsOne DEF IInv
  <2>2. CASE UNCHANGED refreshes
    <3>1. \A s \in Slots : Waits(s)' <=> Waits(s)
      BY <2>2, Zenon DEF Waits
    <3>2. QED
      BY <1>2, <2>2, <3>1 DEF IInv, Types, Button, OneWaits
  <2>3. QED
    BY <1>1, <2>1, <2>2
<1>4. CASE SubmitForm
  BY <1>2, <1>3, <1>4 DEF SubmitForm, Accepted, Refused, IInv, Types, FormFollowsUser, EditKeepsTarget
<1>5. CASE OpenEdit
  <2>1. dialog' = wanted' /\ wanted' \in Opt(Targets)
    BY <1>5, Selects DEF OpenEdit, Offered, IInv, Types, Page
  <2>2. QED
    BY <1>2, <1>3, <1>5, <2>1 DEF OpenEdit, IInv, Types, FormFollowsUser, EditKeepsTarget
<1>6. CASE CancelEdit
  BY <1>2, <1>3, <1>6 DEF CancelEdit, IInv, Types, FormFollowsUser, EditKeepsTarget, Opt
<1>7. CASE SubmitEdit
  <2>1. mapping' \in Opt(Targets) /\ {dialog', wanted'} \subseteq Opt(Targets) /\ dialog' = wanted'
    BY <1>7 DEF SubmitEdit, Accepted, Refused, IInv, Types, EditKeepsTarget, Opt
  <2>2. QED
    BY <1>2, <1>3, <1>7, <2>1 DEF SubmitEdit, IInv, Types, FormFollowsUser, EditKeepsTarget
<1>8. CASE \E t \in Targets : Select(t) \/ SelectInDialog(t)
  BY <1>2, <1>3, <1>8 DEF Select, SelectInDialog, IInv, Types, FormFollowsUser, EditKeepsTarget, Opt
<1>9. QED
  BY <1>4, <1>5, <1>6, <1>7, <1>8

LEMMA NextInv == IInv /\ [Next]_vars => IInv'
<1> SUFFICES ASSUME IInv, [Next]_vars PROVE IInv'
  OBVIOUS
<1>1. CASE UNCHANGED vars
  <2>1. \A s \in Slots : Waits(s)' <=> Waits(s)
    BY <1>1, Zenon DEF vars, Waits
  <2>2. QED
    BY <1>1, <2>1 DEF vars, IInv, Types, Button, OneWaits, FormFollowsUser, EditKeepsTarget
<1>2. CASE Next
  BY <1>2, RefreshSteps, StartSteps, FormSteps DEF Next, Answers, Failures, User, ButtonSteps
<1>3. QED
  BY <1>1, <1>2

LEMMA PageInvariant == Spec => []IInv
  BY InitInv, NextInv, PTL DEF Spec

\* The types, and that the button waits for one refresh which is under way.
THEOREM PageTypes == Spec => []TypeOK
<1>1. IInv => TypeOK
  BY Zenon DEF IInv, Types, Button, TypeOK, Waits
<1>2. QED
  BY <1>1, PageInvariant, PTL

\* The selection survives every refresh that offers it.
THEOREM SelectionStays == Spec => []FormFollowsUser
<1>1. IInv => FormFollowsUser
  BY DEF IInv
<1>2. QED
  BY <1>1, PageInvariant, PTL

\* An edit that leaves the target alone sends the target it found.
THEOREM TargetStays == Spec => []EditKeepsTarget
<1>1. IInv => EditKeepsTarget
  BY DEF IInv
<1>2. QED
  BY <1>1, PageInvariant, PTL
=============================================================================
