------------------------------ MODULE UiRefresh ------------------------------
(***************************************************************************)
(* internal/web/static/app.js: one page of the web UI, next to other users *)
(* and the scanner who change what the server holds.                       *)
(*                                                                         *)
(* A refresh asks for the lists one request each, in any order, and the    *)
(* page takes all answers at once or, when one request fails, none.  The   *)
(* timer, an edit and the scan button start refreshes without regard to    *)
(* those under way.  The mapping of one host name is followed; its target  *)
(* is a device or a static address.  The user's own edits are answered at  *)
(* once: what a late answer does to the page, cancelling the dialog and    *)
(* the changes of others do as well.  Statuses, texts and notes are left   *)
(* out, and so are the assign and label dialogs, which have no target to   *)
(* choose.                                                                 *)
(***************************************************************************)
EXTENDS Naturals, FiniteSets

CONSTANTS
  MACs,      \* devices
  Static,    \* the choice of a static address
  Slots,     \* bound on the refreshes under way
  None,      \* no mapping, no choice, nothing under way
  Pending    \* a request without an answer

Targets == MACs \cup {Static}
Opt(S) == S \cup {None}

ASSUME UiAssumption ==
  /\ Static \notin MACs /\ None \notin Targets /\ Pending \notin Opt(Targets)
  /\ IsFiniteSet(Slots) /\ Slots # {}

VARIABLES
  devices,   \* the server's devices
  mapping,   \* the target of the host name on the server
  page,      \* state.devices and state.mappings, as rendered
  refreshes, \* the refreshes under way
  form,      \* the target selected in the form for new mappings
  chosen,    \* history: the target the user selected there, None when the
             \* device was gone from the list since, or before a selection
  dialog,    \* the edit dialog: the target selected in it
  wanted,    \* history: the target the user saw or selected in the dialog
  button     \* the scan button: "ready", "asking", "waiting", "refreshing"

vars == <<devices, mapping, page, refreshes, form, chosen, dialog, wanted, button>>
server == <<devices, mapping>>
forms == <<form, chosen>>
edit == <<dialog, wanted>>

Page == [devices : SUBSET MACs, mapping : Opt(Targets)]
Refresh == [devices : (SUBSET MACs) \cup {Pending},
            mapping : Opt(Targets) \cup {Pending}, button : BOOLEAN]

ASSUME RefreshAssumption == None \notin Refresh

Asked(waits) == [devices |-> Pending, mapping |-> Pending, button |-> waits]

\* The page is loaded: nothing is shown, the first refresh is under way.
Init ==
  /\ devices \in SUBSET MACs /\ mapping = None
  /\ page = [devices |-> {}, mapping |-> None]
  /\ \E s \in Slots :
       refreshes = [t \in Slots |-> IF t = s THEN Asked(FALSE) ELSE None]
  /\ form = None /\ chosen = None
  /\ dialog = None /\ wanted = None
  /\ button = "ready"

-----------------------------------------------------------------------------
(* The server, as others change it: scans and deletions, other pages. *)

DevicesChange ==
  /\ devices' \in (SUBSET MACs) \ {devices}
  /\ UNCHANGED <<mapping, page, refreshes, forms, edit, button>>

MappingChanges ==
  /\ mapping' \in Opt(Targets) \ {mapping}
  /\ UNCHANGED <<devices, page, refreshes, forms, edit, button>>

-----------------------------------------------------------------------------
(* Selecting a target. *)

\* fillTargetSelect offers the devices of the page, one more device perhaps,
\* and the static address; the first is selected unless the old one is there.
Offered(devs, extra) == devs \cup {Static} \cup (IF extra = None THEN {} ELSE {extra})
First(devs) == IF devs = {} THEN {Static} ELSE devs

\* Mutant of Selection: the old selection is not looked for.
SelectionAnew(devs, extra, old) == First(devs)

Selection(devs, extra, old) ==
  IF old \in Offered(devs, extra) THEN {old} ELSE First(devs)

-----------------------------------------------------------------------------
(* refresh *)

Starts(waits) ==
  \E s \in Slots :
    /\ refreshes[s] = None
    /\ refreshes' = [refreshes EXCEPT ![s] = Asked(waits)]

\* Mutant of TimerFires: no refresh while a dialog is open.
TimerUnlessEditing ==
  /\ dialog = None /\ Starts(FALSE)
  /\ UNCHANGED <<server, page, forms, edit, button>>

\* setInterval
TimerFires ==
  /\ Starts(FALSE)
  /\ UNCHANGED <<server, page, forms, edit, button>>

DevicesAnswered(s) ==
  /\ refreshes[s] # None /\ refreshes[s].devices = Pending
  /\ refreshes' = [refreshes EXCEPT ![s].devices = devices]
  /\ UNCHANGED <<server, page, forms, edit, button>>

MappingAnswered(s) ==
  /\ refreshes[s] # None /\ refreshes[s].mapping = Pending
  /\ refreshes' = [refreshes EXCEPT ![s].mapping = mapping]
  /\ UNCHANGED <<server, page, forms, edit, button>>

\* The scan button is restored when the refresh it waits for has ended.
Ends(s) ==
  /\ refreshes' = [refreshes EXCEPT ![s] = None]
  /\ button' = IF refreshes[s].button THEN "ready" ELSE button

Complete(s) ==
  /\ refreshes[s] # None
  /\ refreshes[s].devices # Pending /\ refreshes[s].mapping # Pending

\* All requests are answered: the page shows the answers, and the form offers
\* the new list of devices.
Renders(s) ==
  /\ Complete(s) /\ Ends(s)
  /\ page' = [devices |-> refreshes[s].devices, mapping |-> refreshes[s].mapping]
  /\ form' \in Selection(refreshes[s].devices, None, form)
  /\ chosen' = IF chosen \in Offered(refreshes[s].devices, None) THEN chosen ELSE None
  /\ UNCHANGED <<server, edit>>

\* Mutant of RefreshFails: the button is restored after a success only.
FailsQuietly(s) ==
  /\ refreshes[s] # None
  /\ refreshes' = [refreshes EXCEPT ![s] = None]
  /\ UNCHANGED <<server, page, forms, edit, button>>

\* A request fails: the old view is kept.
RefreshFails(s) ==
  /\ refreshes[s] # None /\ Ends(s)
  /\ UNCHANGED <<server, page, forms, edit>>

-----------------------------------------------------------------------------
(* The scan button. *)

Scan ==
  /\ button = "ready"
  /\ button' = "asking"
  /\ UNCHANGED <<server, page, refreshes, forms, edit>>

\* The POST ends: the page waits for the scan, or the error is shown.
ScanAnswered ==
  /\ button = "asking"
  /\ button' \in {"waiting", "ready"}
  /\ UNCHANGED <<server, page, refreshes, forms, edit>>

ScanTimeout ==
  /\ button = "waiting"
  /\ button' = "refreshing"
  /\ Starts(TRUE)
  /\ UNCHANGED <<server, page, forms, edit>>

-----------------------------------------------------------------------------
(* The form for new mappings and the edit dialog. *)

\* The user selects a target in the form.
Select(t) ==
  /\ form # None /\ t \in Offered(page.devices, None)
  /\ form' = t /\ chosen' = t
  /\ UNCHANGED <<server, page, refreshes, edit, button>>

\* Mutant of OpenEdit: only known devices are offered.
OpenEditKnown ==
  /\ dialog = None /\ page.mapping # None
  /\ dialog' \in Selection(page.devices, None, page.mapping)
  /\ wanted' = page.mapping
  /\ UNCHANGED <<server, page, refreshes, forms, button>>

\* openEditDialog: the present target is offered even if its device is not
\* known any more.
OpenEdit ==
  /\ dialog = None /\ page.mapping # None
  /\ dialog' \in Selection(page.devices, page.mapping, page.mapping)
  /\ wanted' = page.mapping
  /\ UNCHANGED <<server, page, refreshes, forms, button>>

\* Any target may have been in the list when the dialog was opened, and no
\* refresh changes the list since.
SelectInDialog(t) ==
  /\ dialog # None /\ t \in Targets
  /\ dialog' = t /\ wanted' = t
  /\ UNCHANGED <<server, page, refreshes, forms, button>>

CancelEdit ==
  /\ dialog # None
  /\ dialog' = None /\ wanted' = None
  /\ UNCHANGED <<server, page, refreshes, forms, button>>

\* A POST or PUT that makes target the mapping succeeds, and a refresh starts.
Accepted(target) == mapping' = target /\ Starts(FALSE)

\* It fails: the server refuses, or its answer is lost after it accepted.
Refused(target) == mapping' \in {mapping, target} /\ UNCHANGED refreshes

\* submitMappingForm: POST makes the mapping or replaces it.
SubmitForm ==
  /\ form # None
  /\ Accepted(form) \/ Refused(form)
  /\ UNCHANGED <<devices, page, forms, edit, button>>

\* submitEdit: PUT changes a mapping that is there; the dialog is closed after
\* a success only.
SubmitEdit ==
  /\ dialog # None
  /\ \/ mapping # None /\ Accepted(dialog) /\ dialog' = None /\ wanted' = None
     \/ Refused(IF mapping = None THEN None ELSE dialog) /\ UNCHANGED edit
  /\ UNCHANGED <<devices, page, forms, button>>

-----------------------------------------------------------------------------
Answers ==
  \E s \in Slots : DevicesAnswered(s) \/ MappingAnswered(s) \/ Renders(s)

Failures == \E s \in Slots : RefreshFails(s)

User ==
  \/ Scan \/ SubmitForm \/ OpenEdit \/ CancelEdit \/ SubmitEdit
  \/ \E t \in Targets : Select(t) \/ SelectInDialog(t)

ButtonSteps == ScanAnswered \/ ScanTimeout

Next ==
  \/ DevicesChange \/ MappingChanges
  \/ TimerFires \/ Answers \/ Failures
  \/ User \/ ButtonSteps

\* Every request ends, if only with an error; the timer of the page goes on,
\* and a timeout comes.
Fairness ==
  /\ \A s \in Slots :
       WF_vars(DevicesAnswered(s) \/ MappingAnswered(s) \/ Renders(s) \/ RefreshFails(s))
  /\ WF_vars(TimerFires)
  /\ WF_vars(ScanAnswered) /\ SF_vars(ScanTimeout)

Spec == Init /\ [][Next]_vars /\ Fairness

-----------------------------------------------------------------------------
(* Properties *)

TypeOK ==
  /\ devices \subseteq MACs /\ mapping \in Opt(Targets)
  /\ page \in Page
  /\ refreshes \in [Slots -> Opt(Refresh)]
  /\ {form, chosen, dialog, wanted} \subseteq Opt(Targets)
  /\ button \in {"ready", "asking", "waiting", "refreshing"}
  /\ button = "refreshing" <=> \E s \in Slots : refreshes[s] # None /\ refreshes[s].button

\* What is sent for a new mapping is the target the user selected, whatever
\* refreshes have rebuilt the list meanwhile, as long as the target stayed in
\* it: answers that come late, an older list after a newer one, may take it
\* out for a moment, and only then is another selected.
FormFollowsUser == chosen # None => form = chosen

\* An edit that leaves the target alone does not change it, even if its device
\* was deleted, and whatever refresh is applied while the dialog is open.
EditKeepsTarget ==
  dialog = wanted

\* However refreshes overlap and overtake each other, once the server stays
\* as it is and requests do not fail any more, the page comes to show it.
Still == UNCHANGED server /\ ~\E s \in Slots : RefreshFails(s)
PageCatchesUp ==
  <>[][Still]_vars => <>[](page = [devices |-> devices, mapping |-> mapping])

\* The scan button is always given back.
ScanButtonReturns == button # "ready" ~> button = "ready"
=============================================================================
