----------------------------- MODULE MountDialog -----------------------------
(***************************************************************************)
(* The Add-mount popup of the container dialogs (client/                   *)
(* container-card-editors.tsx, MountsEditor) with the directory browser    *)
(* (container-card-directory.tsx) and the volumes created from its row     *)
(* (container-card-mount-actions.tsx, MountRow).                           *)
(*                                                                         *)
(* A typed project path is checked with the dsh host when its field is     *)
(* left and once more when the mount is added.  The answers come late: the *)
(* popup may be closed, reopened or edited meanwhile, and a token tells    *)
(* the answer of a draft on screen from one that is not.  The browser      *)
(* lists two directories at a time under one `busy` flag.                  *)
(*                                                                         *)
(* Effects of a render run with the user's action that causes it.  A       *)
(* secret is picked and created as a volume is; the mode of a mount and    *)
(* the wording of errors are left out.  Opening the popup or the browser   *)
(* overwrites whatever an earlier one left before it can be used, so a     *)
(* closed one is modelled as empty.                                        *)
(***************************************************************************)
EXTENDS Naturals, FiniteSets

CONSTANTS
  Folders,      \* directories under the projects root, by project path
  RootFolder,   \* the projects root
  FolderParent, \* the directory each of Folders is in
  Typings,      \* what is typed into the project field
  Spells,       \* the path a typing normalises to, NoFolder if it is refused
  NoFolder,
  Volumes,      \* names of volumes
  MaxHostChecks \* checks of a typed path that are under way at once

ASSUME FoldersAssumption ==
  /\ RootFolder \notin Folders /\ NoFolder \notin Folders \cup {RootFolder}
  /\ FolderParent \in [Folders -> Folders \cup {RootFolder}]
  /\ "" \in Typings \ Folders
  /\ Spells \in [Typings \cup Folders -> Folders \cup {NoFolder}]
  /\ Spells[""] = NoFolder /\ \A f \in Folders : Spells[f] = f
  /\ "" \notin Volumes
  /\ NoFolder \notin [name : Volumes, previous : Volumes \cup {""}, left : BOOLEAN]

ASSUME HostChecksAssumption == MaxHostChecks \in {1, 2, 3}

VARIABLES
  addPopup,    \* the Add-mount popup: fields of MountsEditor
  mountDraft,
  checks,   \* checks of a typed path whose answer is not in yet
  picker,   \* the directory browser
  volumes,  \* the volumes of the last snapshot
  creation, \* the volume a row asked for, or NoFolder
  added,    \* the mount handed to onAdd by the popup open now, or NoFolder
  vouched   \* history: what the host listed, found or created
dialogVars == <<addPopup, mountDraft, checks, picker, volumes, creation, added, vouched>>

EmptyMount(kind) == [kind |-> kind, project |-> "", volume |-> "", destination |-> "empty"]
PopupKinds == {"project", "volume", "tmpfs"}

\* nonProjectDestinationError: none yet or one that is refused, or a good one.
Destinations == {"empty", "ok"}

\* An empty volume adopts the first of the list; the order of the list is any.
Preselected(mount, list) ==
  IF mount.kind = "volume" /\ mount.volume = "" /\ list # {}
  THEN {[mount EXCEPT !.volume = v] : v \in list}
  ELSE {mount}

ClosedPopup(dialog) ==
  [open |-> FALSE, confirming |-> FALSE, origin |-> "typed", checking |-> FALSE,
   listing |-> FALSE, missing |-> {}, dialog |-> dialog]

ClosedPicker ==
  [open |-> FALSE, path |-> RootFolder, selected |-> NoFolder, level |-> {}, child |-> {},
   failed |-> FALSE, busy |-> FALSE, pathCall |-> FALSE, childCall |-> FALSE]

\* The dialog around the popup counts a creation as a command of its own in
\* the create dialog alone: the edit dialog waits for its container only.
DialogBusy == addPopup.dialog = "create" /\ creation # NoFolder

DialogInit ==
  /\ \E dialog \in {"create", "edit"} : addPopup = ClosedPopup(dialog)
  /\ mountDraft = EmptyMount("project")
  /\ checks = {}
  /\ picker = ClosedPicker
  /\ volumes \in SUBSET Volumes
  /\ creation = NoFolder
  /\ added = NoFolder
  /\ vouched = [folders |-> {}, volumes |-> volumes]

-----------------------------------------------------------------------------
(* The draft.                                                              *)

\* decideProjectPath: a browsed path is taken as it is, a typed one has to be
\* a path under the root.
ShapeOk(origin, project) == origin = "browsed" \/ Spells[project] # NoFolder
Spelled(origin, project) == IF origin = "browsed" THEN project ELSE Spells[project]

CanAdd ==
  IF mountDraft.kind = "project"
  THEN /\ ShapeOk(addPopup.origin, mountDraft.project)
       /\ ~(addPopup.origin = "typed" /\ mountDraft.project \in addPopup.missing)
       /\ ~addPopup.listing
  ELSE mountDraft.destination = "ok" /\ (mountDraft.kind = "volume" => mountDraft.volume # "")

\* The popup's fields answer to the user: nothing is open on top of it.
Reachable == addPopup.open /\ ~addPopup.confirming /\ ~picker.open
Editable == Reachable /\ ~DialogBusy /\ ~addPopup.checking

\* checkToken.current += 1: no check under way belongs to the draft any more.
Stale(set) == {[c EXCEPT !.current = FALSE] : c \in set}

\* What a new project path or kind resets.
Retyped(origin) == [addPopup EXCEPT !.origin = origin, !.missing = {}, !.listing = FALSE]

OpenAdd ==
  /\ ~addPopup.open
  /\ mountDraft' = EmptyMount("project")
  /\ addPopup' = [ClosedPopup(addPopup.dialog) EXCEPT !.open = TRUE]
  /\ checks' = Stale(checks)
  /\ added' = NoFolder
  /\ vouched' = [folders |-> {}, volumes |-> vouched.volumes]
  /\ UNCHANGED <<picker, volumes, creation>>

PickKind ==
  /\ Editable
  /\ \E kind \in PopupKinds \ {mountDraft.kind} : mountDraft' \in Preselected(EmptyMount(kind), volumes)
  /\ addPopup' = Retyped("typed")
  /\ checks' = Stale(checks)
  /\ UNCHANGED <<picker, volumes, creation, added, vouched>>

TypeProject ==
  /\ Editable /\ mountDraft.kind = "project"
  /\ \E text \in Typings \ {mountDraft.project} : mountDraft' = [mountDraft EXCEPT !.project = text]
  /\ addPopup' = Retyped("typed")
  /\ checks' = Stale(checks)
  /\ UNCHANGED <<picker, volumes, creation, added, vouched>>

TypeDestination ==
  /\ Editable /\ mountDraft.kind # "project"
  /\ \E text \in Destinations : mountDraft' = [mountDraft EXCEPT !.destination = text]
  /\ UNCHANGED <<addPopup, checks, picker, volumes, creation, added, vouched>>

PickVolume ==
  /\ Editable /\ mountDraft.kind = "volume"
  /\ \E v \in volumes : mountDraft' = [mountDraft EXCEPT !.volume = v]
  /\ UNCHANGED <<addPopup, checks, picker, volumes, creation, added, vouched>>

-----------------------------------------------------------------------------
(* Closing.                                                                *)

Pristine == mountDraft \in Preselected(EmptyMount(mountDraft.kind), volumes)

\* closeAdd; the row a creation was asked for from goes with the popup.
CloseAdd(left, found) ==
  /\ addPopup' = ClosedPopup(addPopup.dialog)
  /\ mountDraft' = EmptyMount("project")
  /\ checks' = Stale(left)
  /\ creation' = IF creation = NoFolder THEN NoFolder ELSE [creation EXCEPT !.left = TRUE]
  /\ vouched' = [vouched EXCEPT !.folders = found]

RequestClose ==
  /\ Reachable
  /\ IF Pristine
     THEN CloseAdd(checks, {})
     ELSE addPopup' = [addPopup EXCEPT !.confirming = TRUE] /\ UNCHANGED <<mountDraft, checks, creation, vouched>>
  /\ UNCHANGED <<picker, volumes, added>>

KeepEditing ==
  /\ addPopup.confirming
  /\ addPopup' = [addPopup EXCEPT !.confirming = FALSE]
  /\ UNCHANGED <<mountDraft, checks, picker, volumes, creation, added, vouched>>

DiscardAndClose ==
  /\ addPopup.confirming
  /\ CloseAdd(checks, {})
  /\ UNCHANGED <<picker, volumes, added>>

-----------------------------------------------------------------------------
(* Checks of a typed path: a directory that is there may still fail to be  *)
(* listed, one that is not never is.                                       *)

StartCheck(purpose) ==
  /\ Cardinality(checks) < MaxHostChecks
  /\ checks' = Stale(checks) \cup {[for |-> purpose, project |-> mountDraft.project, current |-> TRUE]}

\* checkDraftProject: the field loses focus.
BlurApplies ==
  /\ mountDraft.kind = "project" /\ addPopup.origin = "typed"
  /\ ShapeOk(addPopup.origin, mountDraft.project)
  /\ ~addPopup.checking

LeaveField ==
  /\ Reachable /\ BlurApplies
  /\ StartCheck("blur")
  /\ addPopup' = [addPopup EXCEPT !.listing = TRUE]
  /\ UNCHANGED <<mountDraft, picker, volumes, creation, added, vouched>>

\* What the host answered for counts while the popup is there to show it.
Vouch(found, project) ==
  IF found /\ addPopup.open THEN [vouched EXCEPT !.folders = @ \cup {Spells[project]}] ELSE vouched

BlurAnswers(c) ==
  /\ c.for = "blur"
  /\ checks' = checks \ {c}
  /\ \E found \in BOOLEAN :
       /\ addPopup' = IF ~c.current THEN addPopup
                   ELSE [addPopup EXCEPT !.listing = FALSE,
                           !.missing = IF found THEN {} ELSE {c.project}]
       /\ vouched' = Vouch(found, c.project)
  /\ UNCHANGED <<mountDraft, picker, volumes, creation, added>>

\* submit: what needs no answer of the host is added at once.
SubmitAtOnce ==
  /\ Editable /\ CanAdd
  /\ ~(mountDraft.kind = "project" /\ addPopup.origin = "typed")
  /\ added' = mountDraft
  /\ CloseAdd(checks, {})
  /\ UNCHANGED <<picker, volumes>>

SubmitTyped ==
  /\ Editable /\ CanAdd
  /\ mountDraft.kind = "project" /\ addPopup.origin = "typed"
  /\ StartCheck("submit")
  /\ addPopup' = [addPopup EXCEPT !.checking = TRUE]
  /\ UNCHANGED <<mountDraft, picker, volumes, creation, added, vouched>>

\* An answer that no longer belongs to the draft on screen.
OvertakenNever(c) == FALSE
Overtaken(c) == ~c.current

SubmitAnswers(c) ==
  /\ c.for = "submit"
  /\ \/ \E found \in BOOLEAN :
          /\ Overtaken(c) \/ ~found
          /\ checks' = checks \ {c}
          /\ addPopup' = IF Overtaken(c) THEN addPopup ELSE [addPopup EXCEPT !.checking = FALSE]
          /\ vouched' = Vouch(found, c.project)
          /\ UNCHANGED <<mountDraft, creation, added>>
     \/ /\ ~Overtaken(c)
        /\ added' = [EmptyMount("project") EXCEPT !.project = Spells[c.project]]
        /\ CloseAdd(checks \ {c}, {Spells[c.project]})
  /\ UNCHANGED <<picker, volumes>>

-----------------------------------------------------------------------------
(* The directory browser.                                                  *)

Entries(folder) == {f \in Folders : FolderParent[f] = folder}
Trail(folder) ==
  {folder, RootFolder} \cup {f \in Folders : folder \in Folders /\ FolderParent[folder] = f}

StartOf == IF Spells[mountDraft.project] # NoFolder THEN Spells[mountDraft.project] ELSE RootFolder

Browse ==
  /\ Editable /\ mountDraft.kind = "project"
  /\ picker' = [ClosedPicker EXCEPT !.open = TRUE, !.path = StartOf, !.busy = TRUE, !.pathCall = TRUE]
  /\ UNCHANGED <<addPopup, mountDraft, checks, volumes, creation, added, vouched>>

Found(folder) == [vouched EXCEPT !.folders = @ \cup ({folder} \ {RootFolder}) \cup Entries(folder)]

PathAnswers ==
  /\ picker.pathCall
  /\ \/ /\ picker' = [picker EXCEPT !.level = Entries(picker.path), !.failed = FALSE,
                                    !.busy = FALSE, !.pathCall = FALSE]
        /\ vouched' = Found(picker.path)
     \/ /\ picker' = [picker EXCEPT !.level = {}, !.failed = TRUE, !.busy = FALSE, !.pathCall = FALSE]
        /\ UNCHANGED vouched
  /\ UNCHANGED <<addPopup, mountDraft, checks, volumes, creation, added>>

ChildAnswers ==
  /\ picker.childCall
  /\ \/ /\ picker' = [picker EXCEPT !.child = Entries(picker.selected), !.busy = FALSE, !.childCall = FALSE]
        /\ vouched' = Found(picker.selected)
     \/ /\ picker' = [picker EXCEPT !.child = {}, !.busy = FALSE, !.childCall = FALSE]
        /\ UNCHANGED vouched
  /\ UNCHANGED <<addPopup, mountDraft, checks, volumes, creation, added>>

\* A selection lists the selected directory; a second listing of the path may
\* still be under way.
SelectEntry ==
  /\ picker.open /\ ~picker.busy
  /\ \E entry \in picker.level \ {picker.selected} :
       picker' = [picker EXCEPT !.selected = entry, !.busy = TRUE, !.childCall = TRUE]
  /\ UNCHANGED <<addPopup, mountDraft, checks, volumes, creation, added, vouched>>

Advance ==
  /\ picker.open /\ ~picker.busy /\ picker.selected # NoFolder
  /\ \E entry \in picker.child \ {picker.selected} :
       picker' = [picker EXCEPT !.path = picker.selected, !.selected = entry, !.busy = TRUE,
                                !.pathCall = @ \/ picker.path # picker.selected, !.childCall = TRUE]
  /\ UNCHANGED <<addPopup, mountDraft, checks, volumes, creation, added, vouched>>

Navigate ==
  /\ picker.open /\ ~picker.busy
  /\ \E target \in Trail(picker.path) :
       picker' = [picker EXCEPT !.path = target, !.selected = NoFolder, !.child = {}, !.childCall = FALSE,
                                !.busy = picker.path # target,
                                !.pathCall = @ \/ picker.path # target]
  /\ UNCHANGED <<addPopup, mountDraft, checks, volumes, creation, added, vouched>>

Picked == IF picker.selected # NoFolder THEN picker.selected ELSE picker.path

\* Select: the root is no project, so the browser stays open on it.
Selectable == ~picker.busy /\ ~picker.failed

UsePicked ==
  /\ picker.open /\ Selectable /\ Picked # RootFolder
  /\ mountDraft' = [mountDraft EXCEPT !.project = Picked]
  /\ addPopup' = Retyped("browsed")
  /\ checks' = Stale(checks)
  /\ picker' = ClosedPicker
  /\ UNCHANGED <<volumes, creation, added, vouched>>

\* Escape and the mask close the browser at any time.
ClosePicker ==
  /\ picker.open
  /\ picker' = ClosedPicker
  /\ UNCHANGED <<addPopup, mountDraft, checks, volumes, creation, added, vouched>>

-----------------------------------------------------------------------------
(* Volumes created from the row.                                           *)

\* adopt: the row carries the new name before the host answers.
StartCreation ==
  /\ Reachable /\ mountDraft.kind = "volume"
  /\ creation = NoFolder
  /\ \E name \in Volumes :
       /\ creation' = [name |-> name, previous |-> mountDraft.volume, left |-> FALSE]
       /\ mountDraft' = [mountDraft EXCEPT !.volume = name]
  /\ UNCHANGED <<addPopup, checks, picker, volumes, added, vouched>>

\* The effect on the storage lists while the popup is open.
Refilled(list) == IF addPopup.open THEN Preselected(mountDraft, list) ELSE {mountDraft}

CreationAccepted ==
  /\ creation # NoFolder
  /\ creation' = NoFolder
  /\ volumes' = volumes \cup {creation.name}
  /\ vouched' = [vouched EXCEPT !.volumes = @ \cup {creation.name}]
  /\ mountDraft' \in Refilled(volumes')
  /\ UNCHANGED <<addPopup, checks, picker, added>>

\* The row that asked is undone if it still carries the name; a row whose popup
\* was closed still carries it, wherever the draft went.
CarriesCreated == mountDraft.kind = "volume" /\ mountDraft.volume = creation.name

CreationRefused ==
  /\ creation # NoFolder
  /\ creation' = NoFolder
  /\ \/ /\ CarriesCreated \/ creation.left
        /\ mountDraft' = [mountDraft EXCEPT !.volume = creation.previous]
     \/ /\ ~CarriesCreated \/ creation.left
        /\ UNCHANGED mountDraft
  /\ UNCHANGED <<addPopup, checks, picker, volumes, added, vouched>>

\* Another client creates or removes a volume and a snapshot says so.
VolumesChange ==
  /\ \E v \in Volumes : volumes' \in {volumes \cup {v}, volumes \ {v}}
  /\ vouched' = [vouched EXCEPT !.volumes = @ \cup volumes']
  /\ mountDraft' \in Refilled(volumes')
  /\ UNCHANGED <<addPopup, checks, picker, creation, added>>

DialogNext ==
  \/ OpenAdd \/ PickKind \/ TypeProject \/ TypeDestination \/ PickVolume
  \/ RequestClose \/ KeepEditing \/ DiscardAndClose
  \/ LeaveField \/ SubmitAtOnce \/ SubmitTyped
  \/ \E c \in checks : BlurAnswers(c) \/ SubmitAnswers(c)
  \/ Browse \/ PathAnswers \/ ChildAnswers \/ SelectEntry \/ Advance \/ Navigate \/ UsePicked \/ ClosePicker
  \/ StartCreation \/ CreationAccepted \/ CreationRefused \/ VolumesChange

DialogSpec == DialogInit /\ [][DialogNext]_dialogVars

-----------------------------------------------------------------------------
MountDrafts ==
  [kind : PopupKinds, project : Typings \cup Folders, volume : Volumes \cup {""}, destination : Destinations]

DialogTypeOK ==
  /\ addPopup \in [open : BOOLEAN, confirming : BOOLEAN, origin : {"typed", "browsed"}, checking : BOOLEAN,
                listing : BOOLEAN, missing : SUBSET (Typings \cup Folders), dialog : {"create", "edit"}]
  /\ mountDraft \in MountDrafts
  /\ checks \subseteq [for : {"blur", "submit"}, project : Typings \cup Folders, current : BOOLEAN]
  /\ picker \in [open : BOOLEAN, path : Folders \cup {RootFolder}, selected : Folders \cup {NoFolder},
                 level : SUBSET Folders, child : SUBSET Folders, failed : BOOLEAN, busy : BOOLEAN,
                 pathCall : BOOLEAN, childCall : BOOLEAN]
  /\ volumes \subseteq Volumes
  /\ creation = NoFolder \/ creation \in [name : Volumes, previous : Volumes \cup {""}, left : BOOLEAN]
  /\ added = NoFolder \/ added \in MountDrafts
  /\ vouched \in [folders : SUBSET Folders, volumes : SUBSET Volumes]

\* Nothing that blocks a control is left behind: Add waits for a check that is
\* under way and belongs to this draft, and the browser for a listing of its own.
NeverStuck ==
  /\ addPopup.checking => \E c \in checks : c.current /\ c.for = "submit"
  /\ addPopup.listing => \E c \in checks : c.current /\ c.for = "blur"
  /\ picker.open /\ picker.busy => picker.pathCall \/ picker.childCall

\* What the popup hands over is the draft it shows while it is open, with the
\* path normalised: a directory the host answered for, a destination it would
\* take, and, where a creation blocks Add, a volume that was ever there.
HandsOver(mount) ==
  /\ addPopup.open
  /\ mount.kind = mountDraft.kind
  /\ mount.kind = "project" => /\ mount.project = Spelled(addPopup.origin, mountDraft.project)
                               /\ mount.project \in vouched.folders \cup vouched'.folders
  /\ mount.kind # "project" => mount.destination = mountDraft.destination /\ mount.destination = "ok"
  /\ mount.kind = "volume" => mount.volume = mountDraft.volume
  /\ mount.kind = "volume" /\ addPopup.dialog = "create" => mount.volume \in vouched.volumes

\* MountsEditor: late answers neither add what the user left nor block what
\* the user does next.
MountDialogSound ==
  [][NeverStuck' /\ (added' # added /\ added' # NoFolder => HandsOver(added'))]_dialogVars
=============================================================================
