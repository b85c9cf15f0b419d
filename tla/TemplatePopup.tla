--------------------------- MODULE TemplatePopup ---------------------------
(***************************************************************************)
(* The page's "Load template" flow: the picker, the details popup that     *)
(* inspects and builds, and the editor it hands a draft to                 *)
(* (src/src/client/container-card-templates.tsx, container-template-ui.ts, *)
(* container-card-workspace.tsx).                                          *)
(*                                                                         *)
(* Everything the popup asks of the host answers later: the inspection is  *)
(* aborted with the choice it belongs to, the check of the project paths   *)
(* is overtaken by a newer one, but a build goes on whatever the user does *)
(* next, and so does an apply of the editor.                               *)
(***************************************************************************)
EXTENDS Naturals, FiniteSets

CONSTANTS
  Choices,        \* the templates the picker offers
  Boxes,          \* the containers a replace may be for
  Slots,          \* the builds that may be under way at once
  Nothing,        \* no choice, no draft, no inspection
  MaxVisits,      \* how often the details are opened
  MaxImageTrouble \* failed builds and images deleted from outside

ASSUME PopupAssumption ==
  /\ Choices # {} /\ Boxes # {} /\ Nothing \notin Choices
  /\ MaxVisits \in Nat /\ MaxImageTrouble \in Nat

Maybe(S) == S \cup {Nothing}

VARIABLES
  popup,     \* the two popups: the stage, the choice, what is known of it, the draft
  builds,    \* the builds under way, each with the choice it was started for
  editor,    \* the editor a draft was handed to
  applying,  \* the apply under way, with what the editor was when it was clicked
  built,     \* the images the host has
  applied,   \* history: the last apply that succeeded, and the template whose ports followed
  vanished,  \* history: an image was deleted after it was built
  imageTrouble

popupVars == <<popup, builds, editor, applying, built, applied, vanished, imageTrouble>>

NoEditor == [kind |-> "none", box |-> Nothing, draft |-> Nothing, source |-> Nothing,
             chosen |-> Nothing, straddled |-> FALSE, spent |-> FALSE]
NoCheck == [kind |-> "none", box |-> Nothing, source |-> Nothing, chosen |-> Nothing, straddled |-> FALSE]
FreeSlot == [phase |-> "free", choice |-> Nothing]
NoPlan == [choice |-> Nothing, ready |-> FALSE]

\* straddled is history: a build of an earlier choice was under way when the
\* details were opened.
PopupInit ==
  /\ popup = [stage |-> "closed", choice |-> Nothing, inspecting |-> FALSE, plan |-> NoPlan,
              draft |-> Nothing, building |-> FALSE, failed |-> FALSE, check |-> NoCheck,
              resume |-> Nothing, straddled |-> FALSE, visits |-> 0]
  /\ builds = [s \in Slots |-> FreeSlot]
  /\ editor = NoEditor
  /\ applying = NoEditor
  /\ built \in [Choices -> BOOLEAN]
  /\ applied = NoEditor
  /\ vanished = FALSE
  /\ imageTrouble = 0

-----------------------------------------------------------------------------
(***************************************************************************)
(* LoadTemplateModal and the picker.                                       *)
(***************************************************************************)
DetailsKeepingDraft(choice) ==
  [popup EXCEPT !.stage = "details", !.choice = choice, !.inspecting = TRUE, !.plan = NoPlan,
                !.building = FALSE, !.failed = FALSE, !.check = NoCheck,
                !.straddled = \E s \in Slots : builds[s].phase # "free",
                !.visits = @ + 1]

\* The details open on a choice: the reset, the abort of an earlier inspection,
\* and a new one.  A draft the editor's Back came from is taken again when the
\* choice is the one it was made for.
Details(choice) ==
  [popup EXCEPT !.stage = "details", !.choice = choice, !.inspecting = TRUE, !.plan = NoPlan,
                !.draft = IF popup.resume = choice THEN choice ELSE Nothing,
                !.building = FALSE, !.failed = FALSE, !.check = NoCheck,
                !.straddled = \E s \in Slots : builds[s].phase # "free",
                !.visits = @ + 1]

OpenPicker ==
  /\ popup.stage = "closed" /\ popup.resume = Nothing
  /\ popup' = [popup EXCEPT !.stage = "pick"]
  /\ UNCHANGED <<builds, editor, applying, built, applied, vanished, imageTrouble>>

Choose(choice) ==
  /\ popup.stage = "pick" /\ popup.visits < MaxVisits
  /\ popup' = Details(choice)
  /\ UNCHANGED <<builds, editor, applying, built, applied, vanished, imageTrouble>>

\* Back to the picker: only the inspection is aborted.
BackToPicker ==
  /\ popup.stage = "details"
  /\ popup' = [popup EXCEPT !.stage = "pick", !.inspecting = FALSE]
  /\ UNCHANGED <<builds, editor, applying, built, applied, vanished, imageTrouble>>

ClosePopup ==
  /\ popup.stage # "closed"
  /\ popup' = [popup EXCEPT !.stage = "closed", !.choice = Nothing, !.inspecting = FALSE, !.resume = Nothing]
  /\ UNCHANGED <<builds, editor, applying, built, applied, vanished, imageTrouble>>

(***************************************************************************)
(* TemplateDetailsModal.                                                   *)
(***************************************************************************)
Plan(choice) == [choice |-> choice, ready |-> built[choice]]

\* The first plan seeds the draft; a later one leaves it alone.
InspectAnswers ==
  /\ popup.inspecting
  /\ popup' = [popup EXCEPT !.inspecting = FALSE, !.plan = Plan(popup.choice),
                            !.draft = IF @ = Nothing THEN popup.choice ELSE @]
  /\ UNCHANGED <<builds, editor, applying, built, applied, vanished, imageTrouble>>

InspectFails ==
  /\ popup.inspecting /\ imageTrouble < MaxImageTrouble
  /\ popup' = [popup EXCEPT !.inspecting = FALSE]
  /\ imageTrouble' = imageTrouble + 1
  /\ UNCHANGED <<builds, editor, applying, built, applied, vanished>>

\* Build and Rebuild, offered while the draft runs the plan's own image.
StartBuild(s) ==
  /\ popup.stage = "details" /\ popup.plan.choice # Nothing /\ ~popup.building
  /\ popup.draft = popup.plan.choice
  /\ builds[s].phase = "free"
  /\ builds' = [builds EXCEPT ![s] = [phase |-> "build", choice |-> popup.choice]]
  /\ popup' = [popup EXCEPT !.building = TRUE, !.failed = FALSE]
  /\ UNCHANGED <<editor, applying, built, applied, vanished, imageTrouble>>

\* The re-check asks for the choice of this moment; without one it ends at once.
Recheck(s) ==
  builds' = [builds EXCEPT ![s] = IF popup.choice = Nothing THEN FreeSlot
                                  ELSE [phase |-> "recheck", choice |-> popup.choice]]
StillBuilding == popup.choice # Nothing /\ popup.building

BuildDone(s) ==
  /\ builds[s].phase = "build"
  /\ built' = [built EXCEPT ![builds[s].choice] = TRUE]
  /\ popup' = [popup EXCEPT !.plan = [choice |-> builds[s].choice, ready |-> TRUE], !.building = StillBuilding]
  /\ Recheck(s)
  /\ UNCHANGED <<editor, applying, applied, vanished, imageTrouble>>

BuildFails(s) ==
  /\ builds[s].phase = "build" /\ imageTrouble < MaxImageTrouble
  /\ popup' = [popup EXCEPT !.failed = TRUE, !.building = StillBuilding]
  /\ Recheck(s)
  /\ imageTrouble' = imageTrouble + 1
  /\ UNCHANGED <<editor, applying, built, applied, vanished>>

Rechecked(s) ==
  /\ builds[s].phase = "recheck"
  /\ popup' = [popup EXCEPT !.plan = Plan(builds[s].choice), !.building = FALSE]
  /\ builds' = [builds EXCEPT ![s] = FreeSlot]
  /\ UNCHANGED <<editor, applying, built, applied, vanished, imageTrouble>>

RecheckFails(s) ==
  /\ builds[s].phase = "recheck" /\ imageTrouble < MaxImageTrouble
  /\ popup' = [popup EXCEPT !.building = FALSE]
  /\ builds' = [builds EXCEPT ![s] = FreeSlot]
  /\ imageTrouble' = imageTrouble + 1
  /\ UNCHANGED <<editor, applying, built, applied, vanished>>

\* templateBlockReason: the plan gates its own image, the image list any other.
Blocked ==
  \/ popup.plan.choice = Nothing \/ popup.draft = Nothing
  \/ popup.draft = popup.plan.choice /\ (popup.building \/ popup.failed \/ ~popup.plan.ready)
  \/ popup.draft # popup.plan.choice /\ (popup.draft # Nothing => ~built[popup.draft])

\* Continue first has every project path listed once more.
Continue(kind, box) ==
  /\ popup.stage = "details" /\ ~Blocked
  /\ popup' = [popup EXCEPT !.check = [kind |-> kind, box |-> box, chosen |-> popup.choice,
                  source |-> IF kind = "replace" THEN popup.plan.choice ELSE Nothing,
                  straddled |-> popup.straddled]]
  /\ UNCHANGED <<builds, editor, applying, built, applied, vanished, imageTrouble>>

\* A path is gone, or a blur, an edit or another Continue checks again.
CheckOvertaken ==
  /\ popup.check # NoCheck
  /\ popup' = [popup EXCEPT !.check = NoCheck]
  /\ UNCHANGED <<builds, editor, applying, built, applied, vanished, imageTrouble>>

\* The draft of this moment goes to the editor, with what its Back returns to.
HandOver ==
  LET check == popup.check IN
  /\ check # NoCheck
  /\ editor' = [kind |-> check.kind, box |-> check.box, draft |-> popup.draft, source |-> check.source,
                chosen |-> check.chosen, straddled |-> check.straddled, spent |-> FALSE]
  /\ popup' = [popup EXCEPT !.stage = "closed", !.choice = Nothing, !.inspecting = FALSE,
                            !.check = NoCheck, !.resume = check.chosen]
  /\ UNCHANGED <<builds, applying, built, applied, vanished, imageTrouble>>

(***************************************************************************)
(* The editor.                                                             *)
(***************************************************************************)
EditorBack ==
  /\ editor # NoEditor /\ popup.stage = "closed" /\ popup.resume # Nothing /\ popup.visits < MaxVisits
  /\ editor' = NoEditor
  /\ popup' = Details(popup.resume)
  /\ UNCHANGED <<builds, applying, built, applied, vanished, imageTrouble>>

EditorClose ==
  /\ editor # NoEditor
  /\ editor' = NoEditor
  /\ popup' = [popup EXCEPT !.resume = Nothing]
  /\ UNCHANGED <<builds, applying, built, applied, vanished, imageTrouble>>

\* A create hands the draft on and is done with the editor.
Create ==
  /\ editor.kind = "create"
  /\ applied' = editor
  /\ editor' = NoEditor
  /\ popup' = [popup EXCEPT !.resume = Nothing]
  /\ UNCHANGED <<builds, applying, built, vanished, imageTrouble>>

StartApply ==
  /\ editor.kind = "replace" /\ applying = NoEditor
  /\ applying' = editor
  /\ UNCHANGED <<popup, builds, editor, built, applied, vanished, imageTrouble>>

\* After a successful apply the ports of the template are published, once.
ApplyDone ==
  /\ applying # NoEditor
  /\ applied' = applying
  /\ popup' = [popup EXCEPT !.resume = Nothing]
  /\ editor' = IF applying.source # Nothing /\ editor.kind = "replace" /\ editor.box = applying.box
               THEN [editor EXCEPT !.source = Nothing, !.spent = TRUE] ELSE editor
  /\ applying' = NoEditor
  /\ UNCHANGED <<builds, built, vanished, imageTrouble>>

ApplyFails ==
  /\ applying # NoEditor
  /\ applying' = NoEditor
  /\ UNCHANGED <<popup, builds, editor, built, applied, vanished, imageTrouble>>

ImageVanishes ==
  /\ imageTrouble < MaxImageTrouble
  /\ \E c \in Choices : built[c] /\ built' = [built EXCEPT ![c] = FALSE]
  /\ vanished' = TRUE
  /\ imageTrouble' = imageTrouble + 1
  /\ UNCHANGED <<popup, builds, editor, applying, applied>>

PopupNext ==
  \/ OpenPicker \/ BackToPicker \/ ClosePopup \/ InspectAnswers \/ InspectFails
  \/ CheckOvertaken \/ HandOver \/ EditorBack \/ EditorClose \/ Create \/ StartApply
  \/ ApplyDone \/ ApplyFails \/ ImageVanishes
  \/ (\E c \in Choices : Choose(c))
  \/ (\E box \in Boxes : Continue("replace", box))
  \/ Continue("create", Nothing)
  \/ \E s \in Slots : StartBuild(s) \/ BuildDone(s) \/ BuildFails(s) \/ Rechecked(s) \/ RecheckFails(s)

PopupSpec == PopupInit /\ [][PopupNext]_popupVars

-----------------------------------------------------------------------------
EditorType ==
  [kind : {"none", "create", "replace"}, box : Maybe(Boxes), draft : Maybe(Choices), source : Maybe(Choices),
   chosen : Maybe(Choices), straddled : BOOLEAN, spent : BOOLEAN]

\* The popups, the builds and the editor are of the shapes the code gives them.
PopupTypeOK ==
  /\ popup \in [stage : {"closed", "pick", "details"}, choice : Maybe(Choices), inspecting : BOOLEAN,
                plan : [choice : Maybe(Choices), ready : BOOLEAN], draft : Maybe(Choices), building : BOOLEAN,
                failed : BOOLEAN,
                check : [kind : {"none", "create", "replace"}, box : Maybe(Boxes), source : Maybe(Choices),
                         chosen : Maybe(Choices), straddled : BOOLEAN],
                resume : Maybe(Choices), straddled : BOOLEAN, visits : 0..MaxVisits]
  /\ builds \in [Slots -> [phase : {"free", "build", "recheck"}, choice : Maybe(Choices)]]
  /\ editor \in EditorType /\ applying \in EditorType /\ applied \in EditorType
  /\ built \in [Choices -> BOOLEAN]
  /\ vanished \in BOOLEAN
  /\ imageTrouble \in 0..MaxImageTrouble

\* What the editor shows, what is applied and what is published is of the
\* template the user had chosen when Continue was clicked, and its image was
\* there, whatever the user clicked while the popup and the host were still
\* answering.  Unless a build of an earlier choice was still under way when the
\* details were opened, or, of the ports, an earlier apply to the container was.
ContinuesWithChosen ==
  \A e \in {editor, applied} : e # NoEditor /\ ~e.straddled =>
    /\ e.draft = e.chosen
    /\ e.kind = "replace" /\ ~e.spent => e.source = e.chosen
    /\ ~vanished => built[e.draft]
=============================================================================
