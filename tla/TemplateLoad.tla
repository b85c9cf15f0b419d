---------------------------- MODULE TemplateLoad ----------------------------
(***************************************************************************)
(* A project's container template: exported and saved from a container,    *)
(* read again, its image built, and applied to a container                 *)
(* (src/src/container-template.ts, template-image.ts, template-apply.ts,   *)
(* template-route.ts, tool-handlers.ts).                                   *)
(*                                                                         *)
(* The image of a template has an id of its own, from the template's path: *)
(* every version of the file shares it.  Calls overlap at each await: the  *)
(* image list is read before the build, the build tags the image and then  *)
(* records it, and the container is started afterwards.                    *)
(***************************************************************************)
EXTENDS Naturals, FiniteSets

CONSTANTS
  TemplateCalls,     \* the calls
  TemplateOps,       \* call -> what it may be: "load", "build", "rebuild", "save"
  Bases,             \* the base images
  Packages,          \* the packages
  Builtins,          \* base -> the packages it has of its own
  Documents,         \* what the maintainer writes in the template's file
  FirstImages,       \* the custom images at first: image -> its record
  FirstContainers,   \* the containers the workspace may have at first
  NoImage,           \* what a call knows before it has read anything
  MaxTemplateTrouble \* failures, edits and removals from outside

Own == "template"    \* the image id of the template
CustomImages == DOMAIN FirstImages
Targets == {"default", "extra"}
DocumentGroups == {"env", "secretEnv", "paths"}
GitIdentity == {"GIT_AUTHOR_NAME"}   \* the variables of the default environment
ModeMaps == UNION {[S -> {"ro", "rw"}] : S \in SUBSET {"own", "other"}}
GroupMaps == [DocumentGroups -> SUBSET ({"x"} \cup GitIdentity)]
TemplatePorts == {"80", "81"}

DocumentType ==
  [base : Bases, packages : SUBSET Packages, mounts : ModeMaps, group : GroupMaps, ports : SUBSET TemplatePorts]
ImageRecord ==
  [listed : BOOLEAN, parent : Bases \cup CustomImages, packages : SUBSET Packages,
   tagged : BOOLEAN, holds : SUBSET Packages]
ContainerRow ==
  [image : Bases \cup CustomImages, holds : SUBSET Packages, mounts : ModeMaps, group : GroupMaps,
   ports : SUBSET TemplatePorts]
NoContainer == [image |-> NoImage]

ASSUME TemplateAssumption ==
  /\ IsFiniteSet(CustomImages) /\ Own \in CustomImages /\ CustomImages \cap Bases = {} /\ Bases # {}
  /\ NoImage \notin Bases \cup CustomImages /\ NoImage \notin TemplateCalls
  /\ TemplateOps \in [TemplateCalls -> SUBSET {"load", "build", "rebuild", "save"}]
  /\ Builtins \in [Bases -> SUBSET Packages]
  /\ Documents \subseteq DocumentType /\ Documents # {}
  /\ FirstImages \in [CustomImages -> ImageRecord]
  /\ FirstContainers \subseteq [Targets -> ContainerRow \cup {NoContainer}]
  /\ \A boxes \in FirstContainers, t \in Targets :
       boxes[t].image \in Bases => boxes[t].holds = Builtins[boxes[t].image]
  /\ MaxTemplateTrouble \in Nat

VARIABLES
  images,         \* the orchestrator's records, and what podman has under their tags
  provisioned,    \* the base images podman has
  container,      \* the containers of the workspace
  templateFile,   \* the template's file
  templateCall,   \* the calls
  templateTrouble

templateVars == <<images, provisioned, container, templateFile, templateCall, templateTrouble>>

\* doc: the document read, or exported; left: what still has to be done for the
\* image; warned: the ports refused.  The rest is history: sound, the records
\* spoke true when they were read; touched, another call or somebody outside
\* changed what the call works on; before, the container it replaced.
NewTemplateCall(doc) ==
  [op |-> "load", target |-> "default", phase |-> "idle", doc |-> doc, left |-> {}, row |-> NoContainer,
   seen |-> NoImage, todo |-> {}, warned |-> {}, sound |-> TRUE, touched |-> FALSE, before |-> NoContainer]

TemplateInit ==
  /\ images = FirstImages
  /\ provisioned \in {Bases, {}}
  /\ container \in FirstContainers
  /\ templateFile \in Documents
  /\ templateCall = [c \in TemplateCalls |-> NewTemplateCall(templateFile)]
  /\ templateTrouble = 0

-----------------------------------------------------------------------------
(***************************************************************************)
(* Documents.                                                              *)
(***************************************************************************)
\* canonicalPackages and withoutGitIdentity, as the parser and the export
\* apply them.
Canonical(base, packages) == packages \ Builtins[base]
WithoutGitIdentity(group) == [g \in DocumentGroups |-> IF g = "paths" THEN group[g] ELSE group[g] \ GitIdentity]
Parsed(d) == [d EXCEPT !.packages = Canonical(d.base, d.packages), !.group = WithoutGitIdentity(d.group)]

\* effectiveImage: a list that only repeats the base's packages names the base.
IsBaseOnly(d) == d.packages = {}
ImageOf(d) == IF IsBaseOnly(d) THEN d.base ELSE Own

\* withForcedProjectMount: the template's mounts, and the workspace's project,
\* read-write unless the template declares it.
Forced(mounts) == [m \in DOMAIN mounts \cup {"own"} |-> IF m \in DOMAIN mounts THEN mounts[m] ELSE "rw"]

\* templateExportImage: the images met on the way from i to a base, each one the
\* parent of the one before.  An image the list lacks ends the way, as one that
\* was met already does, and there is no base.
Met(list, i) ==
  {j \in Bases \cup CustomImages : \A S \in SUBSET (Bases \cup CustomImages) :
     /\ i \in S
     /\ \A k \in S \ Bases : list[k].listed => list[k].parent \in S
     => j \in S}
RootOf(list, i) ==
  IF Met(list, i) \cap Bases = {} THEN NoImage ELSE CHOOSE b \in Met(list, i) : b \in Bases
PackagesOf(list, i) == UNION {list[k].packages : k \in Met(list, i) \ Bases}

\* exportContainerTemplate.
Exported(row, list) ==
  LET base == RootOf(list, row.image) IN
  [base |-> base, packages |-> Canonical(base, PackagesOf(list, row.image)), mounts |-> row.mounts,
   group |-> WithoutGitIdentity(row.group), ports |-> row.ports]

NeedsBuildByPackages(d, list, bases) ==
  IF IsBaseOnly(d) THEN d.base \notin bases
  ELSE ~list[Own].listed \/ ~list[Own].tagged \/ list[Own].packages # d.packages

\* templateImagePlan: why the image has to be built first, if it has to.
NeedsBuild(d, list, bases) ==
  IF IsBaseOnly(d) THEN d.base \notin bases
  ELSE \/ ~list[Own].listed \/ ~list[Own].tagged
       \/ list[Own].parent # d.base
       \/ list[Own].packages # d.packages

\* What a build leaves to be done: a base-only template drops the image the
\* file had and provisions its base, any other one builds its image.
Todo(d, list, bases, force) ==
  (IF IsBaseOnly(d) /\ list[Own].listed THEN {"drop"} ELSE {})
    \cup (IF NeedsBuild(d, list, bases) \/ force
          THEN {IF IsBaseOnly(d) THEN "provision" ELSE "build"} ELSE {})

\* The tag of an image holds what its record says.
ParentHolds(list, p) == IF p \in Bases THEN Builtins[p] ELSE list[p].holds
Sound(list, i) == list[i].holds = ParentHolds(list, list[i].parent) \cup list[i].packages

-----------------------------------------------------------------------------
\* c goes to phase p; an operation that changes the image or a container is
\* noted by every other call it matters to.
GoTo(c, p) == templateCall' = [templateCall EXCEPT ![c].phase = p]
UsesImage(d) == templateCall[d].phase \in {"ensure", "record", "exists", "create", "start"}
UsesContainer(d, t) == templateCall[d].target = t /\ templateCall[d].phase \in {"create", "publish", "done"}
NotedImage(calls, c) ==
  [d \in TemplateCalls |-> [calls[d] EXCEPT !.touched = @ \/ (d # c /\ UsesImage(d))]]
NotedContainer(calls, c, t) ==
  [d \in TemplateCalls |-> [calls[d] EXCEPT !.touched = @ \/ (d # c /\ UsesContainer(d, t))]]

Trouble == templateTrouble < MaxTemplateTrouble /\ templateTrouble' = templateTrouble + 1
Quiet == templateTrouble' = templateTrouble

\* A call starts; all but a save read the template's file.
OpenTemplate(c, op, target) ==
  /\ templateCall[c].phase = "idle" /\ op \in TemplateOps[c]
  /\ templateCall' = [templateCall EXCEPT ![c] =
       [NewTemplateCall(Parsed(templateFile)) EXCEPT !.op = op, !.target = target,
                                             !.phase = IF op = "save" THEN "save" ELSE "list"]]
  /\ Quiet /\ UNCHANGED <<images, provisioned, container, templateFile>>

\* ensureTemplateImage: the image list, and the plan made from it.
ListImages(c) ==
  LET call == templateCall[c] IN
  /\ call.phase = "list"
  /\ templateCall' = [templateCall EXCEPT
       ![c].phase = "ensure",
       ![c].todo = Todo(call.doc, images, provisioned, call.op = "rebuild"),
       ![c].sound = IsBaseOnly(call.doc) \/ ~images[Own].tagged \/ Sound(images, Own),
       ![c].touched = FALSE]
  /\ Quiet /\ UNCHANGED <<images, provisioned, container, templateFile>>

\* removeImageIfUnreferenced: the orchestrator refuses an image a container
\* uses, and no refusal fails the load.
Drop(c) ==
  LET used == \E t \in Targets : container[t].image = Own
      gone == images[Own].listed /\ ~used
      call == [templateCall EXCEPT ![c].todo = @ \ {"drop"}] IN
  /\ templateCall[c].phase = "ensure" /\ "drop" \in templateCall[c].todo
  /\ images' = IF gone THEN [images EXCEPT ![Own].listed = FALSE, ![Own].tagged = FALSE] ELSE images
  /\ templateCall' = IF gone THEN NotedImage(call, c) ELSE call
  /\ Quiet /\ UNCHANGED <<provisioned, container, templateFile>>

\* rebuildBaseImage or pullBaseImage.
Provision(c) ==
  /\ templateCall[c].phase = "ensure" /\ templateCall[c].todo = {"provision"}
  /\ provisioned' = provisioned \cup {templateCall[c].doc.base}
  /\ templateCall' = [templateCall EXCEPT ![c].todo = {}]
  /\ Quiet /\ UNCHANGED <<images, container, templateFile>>

\* buildImage: podman builds and tags, with a missing base built on the way ...
BuildTags(c) ==
  LET d == templateCall[c].doc IN
  /\ templateCall[c].phase = "ensure" /\ "build" \in templateCall[c].todo
  /\ images' = [images EXCEPT ![Own].tagged = TRUE, ![Own].holds = Builtins[d.base] \cup d.packages]
  /\ provisioned' = provisioned \cup {d.base}
  /\ templateCall' = NotedImage([templateCall EXCEPT ![c].phase = "record"], c)
  /\ Quiet /\ UNCHANGED <<container, templateFile>>

\* ... and then the record is written.
BuildRecords(c) ==
  LET d == templateCall[c].doc IN
  /\ templateCall[c].phase = "record"
  /\ images' = [images EXCEPT ![Own].listed = TRUE, ![Own].parent = d.base, ![Own].packages = d.packages]
  /\ templateCall' = NotedImage([templateCall EXCEPT ![c].phase = "ensure", ![c].todo = {}], c)
  /\ Quiet /\ UNCHANGED <<provisioned, container, templateFile>>

\* The image is there: a build is done, a load asks whether the workspace is.
Ensured(c) ==
  /\ templateCall[c].phase = "ensure" /\ templateCall[c].todo = {}
  /\ GoTo(c, IF templateCall[c].op = "load" THEN "exists" ELSE "done")
  /\ Quiet /\ UNCHANGED <<images, provisioned, container, templateFile>>

\* A base or an image cannot be built, or a control call fails.
CallBreaks(c) ==
  /\ templateCall[c].phase \in {"list", "ensure", "record", "exists", "create", "start", "save", "write"}
  /\ GoTo(c, "failed")
  /\ Trouble /\ UNCHANGED <<images, provisioned, container, templateFile>>

(***************************************************************************)
(* applyContainerTemplate.                                                 *)
(***************************************************************************)
WorkspaceExists == \E t \in Targets : container[t] # NoContainer

\* Only the default container makes a workspace.
AsksWorkspace(c) ==
  /\ templateCall[c].phase = "exists"
  /\ GoTo(c, IF WorkspaceExists THEN "start" ELSE IF templateCall[c].target = "default" THEN "create" ELSE "failed")
  /\ Quiet /\ UNCHANGED <<images, provisioned, container, templateFile>>

Runnable(i) == i \notin Bases => images[i].listed /\ images[i].tagged

\* One request: image, mounts and the groups the template declares.  startContainer
\* keeps the ports and the groups that are not declared.  createWorkspace finding
\* a default container keeps its mounts and PATH list, not its environment.
Requested(d, row, creates) ==
  LET old == IF row = NoContainer
             THEN [mounts |-> [m \in {} |-> "rw"], ports |-> {}, group |-> [g \in DocumentGroups |-> {}]]
             ELSE [mounts |-> row.mounts, ports |-> row.ports, group |-> row.group] IN
  [image |-> ImageOf(d),
   holds |-> IF IsBaseOnly(d) THEN Builtins[d.base] ELSE images[Own].holds,
   mounts |-> IF creates /\ row # NoContainer THEN Forced(old.mounts) ELSE Forced(d.mounts),
   group |-> [g \in DocumentGroups |-> IF d.group[g] # {} \/ (creates /\ g # "paths") THEN d.group[g] ELSE old.group[g]],
   ports |-> old.ports]

Request(c) ==
  LET call == templateCall[c]
      d == call.doc
      t == call.target IN
  /\ call.phase \in {"create", "start"}
  /\ Runnable(ImageOf(d))
  /\ container' = [container EXCEPT ![t] = Requested(d, container[t], call.phase = "create")]
  /\ provisioned' = IF IsBaseOnly(d) THEN provisioned \cup {d.base} ELSE provisioned
  /\ templateCall' = NotedContainer([templateCall EXCEPT ![c].phase = "publish", ![c].before = container[t],
                                                         ![c].left = d.ports], c, t)
  /\ Quiet /\ UNCHANGED <<images, templateFile>>

RequestRefused(c) ==
  /\ templateCall[c].phase \in {"create", "start"}
  /\ ~Runnable(ImageOf(templateCall[c].doc))
  /\ GoTo(c, "failed")
  /\ Quiet /\ UNCHANGED <<images, provisioned, container, templateFile>>

\* publishTemplatePorts, one port after the other: a refused port is a warning.
Publish(c, p) ==
  LET t == templateCall[c].target IN
  /\ templateCall[c].phase = "publish" /\ p \in templateCall[c].left
  /\ container' = [container EXCEPT ![t].ports = @ \cup {p}]
  /\ templateCall' = NotedContainer([templateCall EXCEPT ![c].left = @ \ {p}], c, t)
  /\ Quiet /\ UNCHANGED <<images, provisioned, templateFile>>

PublishRefused(c, p) ==
  /\ templateCall[c].phase = "publish" /\ p \in templateCall[c].left
  /\ templateCall' = [templateCall EXCEPT ![c].left = @ \ {p}, ![c].warned = @ \cup {p}]
  /\ Trouble /\ UNCHANGED <<images, provisioned, container, templateFile>>

Loaded(c) ==
  /\ templateCall[c].phase = "publish" /\ templateCall[c].left = {}
  /\ GoTo(c, "done")
  /\ Quiet /\ UNCHANGED <<images, provisioned, container, templateFile>>

(***************************************************************************)
(* container_template_save: the row and the images are read at once, in    *)
(* either order; the document goes to the file through the guest.          *)
(***************************************************************************)
SaveReadsRow(c) ==
  /\ templateCall[c].phase = "save" /\ templateCall[c].row = NoContainer
  /\ LET row == container[templateCall[c].target] IN
     templateCall' = [templateCall EXCEPT ![c].row = row, ![c].phase = IF row = NoContainer THEN "failed" ELSE @]
  /\ Quiet /\ UNCHANGED <<images, provisioned, container, templateFile>>

SaveReadsImages(c) ==
  /\ templateCall[c].phase = "save" /\ templateCall[c].seen = NoImage
  /\ templateCall' = [templateCall EXCEPT ![c].seen = images]
  /\ Quiet /\ UNCHANGED <<images, provisioned, container, templateFile>>

\* History: the image of the container still is what the container was made
\* from, and no image below it was rebuilt.
StillAsMade(row, list) ==
  \/ row.image \in Bases
  \/ /\ list[row.image].holds = row.holds
     /\ \A k \in Met(list, row.image) \ Bases : Sound(list, k)

SaveExports(c) ==
  LET call == templateCall[c] IN
  /\ call.phase = "save" /\ call.row # NoContainer /\ call.seen # NoImage
  /\ templateCall' =
       IF RootOf(call.seen, call.row.image) = NoImage THEN [templateCall EXCEPT ![c].phase = "failed"]
       ELSE [templateCall EXCEPT ![c].phase = "write", ![c].doc = Exported(call.row, call.seen),
               ![c].sound = StillAsMade(call.row, call.seen)]
  /\ Quiet /\ UNCHANGED <<images, provisioned, container, templateFile>>

SaveWrites(c) ==
  /\ templateCall[c].phase = "write"
  /\ templateFile' = templateCall[c].doc
  /\ GoTo(c, "done")
  /\ Quiet /\ UNCHANGED <<images, provisioned, container>>

(***************************************************************************)
(* Meanwhile.                                                              *)
(***************************************************************************)
EditFile ==
  /\ \E d \in Documents \ {templateFile} : templateFile' = d
  /\ Trouble /\ UNCHANGED <<images, provisioned, container, templateCall>>

\* An image is deleted with podman: its record stays, as "missing".
TagRemoved ==
  /\ images[Own].tagged /\ (\A t \in Targets : container[t].image # Own)
  /\ images' = [images EXCEPT ![Own].tagged = FALSE]
  /\ templateCall' = NotedImage(templateCall, NoImage)
  /\ Trouble /\ UNCHANGED <<provisioned, container, templateFile>>

BaseRemoved ==
  /\ \E b \in provisioned :
       /\ \A t \in Targets : container[t].image # b
       /\ provisioned' = provisioned \ {b}
  /\ Trouble /\ UNCHANGED <<images, container, templateFile, templateCall>>

TemplateStep(c) ==
  \/ ListImages(c) \/ Drop(c) \/ Provision(c) \/ BuildTags(c) \/ BuildRecords(c) \/ Ensured(c)
  \/ CallBreaks(c) \/ AsksWorkspace(c) \/ Request(c) \/ RequestRefused(c) \/ Loaded(c)
  \/ (\E p \in TemplatePorts : Publish(c, p) \/ PublishRefused(c, p))
  \/ SaveReadsRow(c) \/ SaveReadsImages(c) \/ SaveExports(c) \/ SaveWrites(c)

TemplateNext ==
  \/ \E c \in TemplateCalls : (\E op \in TemplateOps[c], t \in Targets : OpenTemplate(c, op, t)) \/ TemplateStep(c)
  \/ EditFile \/ TagRemoved \/ BaseRemoved

TemplateSpec == TemplateInit /\ [][TemplateNext]_templateVars

-----------------------------------------------------------------------------
\* The images, the containers and the calls are of the shapes the code gives
\* them.
TemplateTypeOK ==
  /\ images \in [CustomImages -> ImageRecord]
  /\ provisioned \subseteq Bases
  /\ container \in [Targets -> ContainerRow \cup {NoContainer}]
  /\ templateFile \in DocumentType
  /\ templateTrouble \in 0..MaxTemplateTrouble
  /\ \A c \in TemplateCalls :
       LET call == templateCall[c] IN
       /\ call.op \in {"load", "build", "rebuild", "save"} /\ call.target \in Targets
       /\ call.phase \in {"idle", "list", "ensure", "record", "exists", "create", "start", "publish",
                          "save", "write", "done", "failed"}
       /\ call.doc \in DocumentType
       /\ call.todo \subseteq {"drop", "provision", "build"}
       /\ call.left \subseteq TemplatePorts /\ call.warned \subseteq TemplatePorts
       /\ call.row \in ContainerRow \cup {NoContainer} /\ call.before \in ContainerRow \cup {NoContainer}
       /\ call.sound \in BOOLEAN /\ call.touched \in BOOLEAN

\* A load that finished left the container as its document says: the base with
\* exactly the packages of the document, its mounts and the workspace's project,
\* the groups it declares and, of the others, those of the container it
\* replaced, and every port published or warned about.  Unless another call or
\* somebody outside changed the image or the container meanwhile, or two
\* overlapping builds had left the image's record wrong.
LoadedAsWritten ==
  \A c \in TemplateCalls :
    LET call == templateCall[c]
        row == container[call.target]
        d == call.doc
        old(g) == IF call.before = NoContainer THEN {} ELSE call.before.group[g]
        oldPorts == IF call.before = NoContainer THEN {} ELSE call.before.ports IN
    call.op = "load" /\ call.phase = "done" /\ ~call.touched =>
      /\ row # NoContainer
      /\ call.sound => row.holds = Builtins[d.base] \cup d.packages
      /\ "own" \in DOMAIN row.mounts
      /\ \A m \in DOMAIN row.mounts : m \in DOMAIN d.mounts => row.mounts[m] = d.mounts[m]
      /\ DOMAIN row.mounts = DOMAIN d.mounts \cup {"own"}
      /\ \A g \in DocumentGroups : row.group[g] = IF d.group[g] = {} THEN old(g) ELSE d.group[g]
      /\ row.ports \cup call.warned = oldPorts \cup d.ports \cup call.warned

\* A document saved from a container names what that container ran: the base
\* and all packages of its chain of images, unless the image was rebuilt since
\* the container was made from it, its mounts, environment and ports, and never
\* the Git identity of the machine.
SavedAsRun ==
  \A c \in TemplateCalls :
    LET call == templateCall[c] IN
    call.op = "save" /\ call.phase = "done" =>
      /\ call.sound => Builtins[call.doc.base] \cup call.doc.packages = call.row.holds
      /\ call.doc.mounts = call.row.mounts /\ call.doc.ports = call.row.ports
      /\ \A g \in DocumentGroups \ {"paths"} : call.doc.group[g] \cap GitIdentity = {}

\* What is saved from one container and what is loaded into another agree with
\* what those containers run.
TemplatesFaithful == LoadedAsWritten /\ SavedAsRun
=============================================================================
