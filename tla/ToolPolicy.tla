----------------------------- MODULE ToolPolicy -----------------------------
(***************************************************************************)
(* A call of a tool, from the plugin's pre-execute policy to the end of    *)
(* its handler (src/src/approval.ts, read-only-shell.ts,                   *)
(* approval-template-summary.ts, tool-handlers.ts, template-apply.ts).     *)
(*                                                                         *)
(* The policy reads the session once and then may ask the user, remount    *)
(* the container or read the template it asks about; all of these wait,    *)
(* and meanwhile other calls, another client and the maintainer's editor   *)
(* go on.  The container (box) and the template file are what they change. *)
(***************************************************************************)
EXTENDS Naturals, Sequences, FiniteSets

CONSTANTS
  ToolCalls,             \* the calls
  ToolsOf,               \* the classes of tools a call may be of
  Templates,             \* the documents the template file may hold
  Sessions,              \* the sessions the calls may find
  MaxPolicyDisturbances  \* changes from outside

\* The tools by what the policy and the handlers tell apart.
ReadOnlyClass == {"listing"}
GatedClass == {"shell", "builtin"}
NotOurs == {"builtin", "foreign"}
PathTools == {"path_add", "path_remove", "path_set"}
ApprovalClass == {"mount_add", "start_mounts", "template_load"} \cup PathTools
ToolClasses == ReadOnlyClass \cup GatedClass \cup NotOurs \cup ApprovalClass \cup {"quiet", "misplaced"}

MountNames == {"project", "volume", "scratch"}  \* scratch: a tmpfs, which carries no mode
Moded == {"project", "volume"}
MountModes == {"ro", "rw"}
MountMaps == UNION {[S -> MountModes] : S \in SUBSET MountNames}
EnvNames == {"x", "y"}
PathLists == {<<>>, <<"a">>, <<"b">>, <<"a", "b">>, <<"b", "a">>}

Modes == {"read-only", "workspace-write"}
Facts == [mode : Modes, policy : {"ask", "never"}, preset : {"podman-ops", "other"}]

ASSUME PolicyAssumption ==
  /\ ToolsOf \in [ToolCalls -> SUBSET ToolClasses]
  /\ Templates \subseteq [mounts : MountMaps, env : SUBSET EnvNames, paths : PathLists] /\ Templates # {}
  /\ Sessions \subseteq Facts
  /\ MaxPolicyDisturbances \in Nat

Counts == [mounts : 0..3, env : 0..2, paths : 0..2]
NoCounts == [mounts |-> 9, env |-> 9, paths |-> 9]

VARIABLES
  session,             \* the mode, the approval policy and the preset of the session
  box,                 \* the container: its record, and the list its agent prepends to PATH
  template,            \* the template file of the project
  toolCall,            \* the calls
  pathsRaced,          \* history: two updates of the list overlapped, or one half failed
  policyDisturbances

policyVars == <<session, box, template, toolCall, pathsRaced, policyDisturbances>>

NoMounts == [m \in {} |-> "ro"]

\* seen: the mounts the gate read; staged: the document read; list: the PATH
\* list to apply.  verified, touched, approved and lost are history: the
\* container was wholly read-only during the call; the container or the file
\* was changed by another since the call read the template; the user said yes;
\* what the apply removed.
NewCall(tool, facts) ==
  [tool |-> tool, phase |-> "idle", facts |-> facts, seen |-> NoMounts,
   staged |-> CHOOSE t \in Templates : TRUE, summary |-> NoCounts, list |-> <<>>,
   verified |-> FALSE, touched |-> FALSE, approved |-> FALSE, lost |-> NoCounts]

\* With the project writable and the volume not, so that the gate has a mount
\* to remount and one to keep.
FirstBox ==
  [mounts |-> [m \in {"project", "volume"} |-> IF m = "project" THEN "rw" ELSE "ro"],
   env |-> {"x"}, paths |-> <<"a">>, agentPaths |-> <<"a">>]

PolicyInit ==
  /\ session \in Sessions
  /\ box = FirstBox
  /\ template \in Templates
  /\ toolCall \in [ToolCalls -> {NewCall("listing", session)}]
  /\ pathsRaced = FALSE
  /\ policyDisturbances = 0

-----------------------------------------------------------------------------
\* carriesMode: a project or a volume that is not read-only blocks the gate.
WritableProject(mounts) == {m \in DOMAIN mounts \cap {"project"} : mounts[m] # "ro"}
WritableMounts(mounts) == {m \in DOMAIN mounts \cap Moded : mounts[m] # "ro"}
ReadOnlyMounts(mounts) == [m \in DOMAIN mounts |-> IF m \in Moded THEN "ro" ELSE mounts[m]]
AllReadOnly(mounts) == WritableMounts(mounts) = {}

\* What the history of a call calls read-only.
WhollyReadOnly(mounts) == \A m \in DOMAIN mounts \cap Moded : mounts[m] = "ro"

\* A recreate restores the agent's list from the record.
RecreatedBare(b) == [b EXCEPT !.agentPaths = <<>>]
Recreated(b) == [b EXCEPT !.agentPaths = b.paths]

\* What the history of the calls notes when c changes the container into b.
Noted(calls, b, c) ==
  [d \in ToolCalls |-> [calls[d] EXCEPT !.verified = @ \/ WhollyReadOnly(b.mounts),
                                        !.touched = @ \/ d # c]]

Phase(c, p) == toolCall' = [toolCall EXCEPT ![c].phase = p]

(***************************************************************************)
(* preExecutePolicy: what it decides before it first waits.                *)
(***************************************************************************)
AsksFirst(tool, facts) ==
  \/ tool \in ApprovalClass
  \/ facts.preset = "podman-ops" /\ tool = "shell"

FirstPhase(tool, facts) ==
  IF facts.mode = "read-only"
    THEN CASE tool \in GatedClass -> "gate"
           [] tool \in ReadOnlyClass \cup {"foreign"} -> "run"
           [] OTHER -> "denied"
  ELSE IF tool \in NotOurs THEN "run"
  ELSE IF tool = "misplaced" THEN "denied"   \* a destination on a project mount
  ELSE IF facts.policy = "never" \/ ~AsksFirst(tool, facts) THEN "run"
  ELSE IF tool = "template_load" THEN "read_file"
  ELSE "prompt"

Begin(c, tool) ==
  /\ toolCall[c].phase = "idle" /\ tool \in ToolsOf[c]
  /\ toolCall' = [toolCall EXCEPT ![c].tool = tool, ![c].facts = session,
                                  ![c].phase = FirstPhase(tool, session),
                                  ![c].verified = WhollyReadOnly(box.mounts)]
  /\ UNCHANGED <<session, box, template, pathsRaced, policyDisturbances>>

(***************************************************************************)
(* The read-only gate.                                                     *)
(***************************************************************************)
\* The container cannot be read: the plain denial of read-only.
GateUnreadable(c) ==
  /\ toolCall[c].phase = "gate"
  /\ Phase(c, "denied")
  /\ UNCHANGED <<session, box, template, pathsRaced, policyDisturbances>>

GateReads(c) ==
  /\ toolCall[c].phase = "gate"
  /\ toolCall' = [toolCall EXCEPT ![c].seen = box.mounts,
                                  ![c].phase = IF AllReadOnly(box.mounts) THEN "run" ELSE "remount_prompt"]
  /\ UNCHANGED <<session, box, template, pathsRaced, policyDisturbances>>

\* The remount prompt: only "allowed-once" is a yes, everything else declines.
GateAnswered(c) ==
  /\ toolCall[c].phase = "remount_prompt"
  /\ \E p \in {"remount", "denied"} : Phase(c, p)
  /\ UNCHANGED <<session, box, template, pathsRaced, policyDisturbances>>

\* One recreate with the mounts that were read before the prompt.
Remount(c) ==
  LET b == Recreated([box EXCEPT !.mounts = ReadOnlyMounts(toolCall[c].seen)]) IN
  /\ toolCall[c].phase = "remount"
  /\ box' = b
  /\ toolCall' = Noted([toolCall EXCEPT ![c].phase = "run"], b, c)
  /\ UNCHANGED <<session, template, pathsRaced, policyDisturbances>>

RemountRefused(c) ==
  /\ toolCall[c].phase = "remount"
  /\ Phase(c, "failed")
  /\ UNCHANGED <<session, box, template, pathsRaced, policyDisturbances>>

(***************************************************************************)
(* The summary of a template load, and the approval prompt.                *)
(***************************************************************************)
\* applyContainerTemplate and the summary stage the same mounts: the
\* template's, with the workspace's project first, read-write unless the
\* template declares it.
StagedMounts(t) == [m \in DOMAIN t.mounts \cup {"project"} |-> IF m \in DOMAIN t.mounts THEN t.mounts[m] ELSE "rw"]

RemovalsOfUndeclared(t, b) ==
  [mounts |-> Cardinality(DOMAIN b.mounts \ DOMAIN StagedMounts(t)),
   env |-> Cardinality(b.env \ t.env), paths |-> 0]

\* What the container has and the staged template does not name.  A group the
\* template does not declare is kept.
Removals(t, b) ==
  [mounts |-> Cardinality(DOMAIN b.mounts \ DOMAIN StagedMounts(t)),
   env |-> IF t.env = {} THEN 0 ELSE Cardinality(b.env \ t.env),
   paths |-> IF t.paths = <<>> THEN 0
             ELSE Cardinality({i \in 1..Len(b.paths) : \A j \in 1..Len(t.paths) : b.paths[i] # t.paths[j]})]

\* A template or a container that cannot be read leaves the base sentence.
SummaryFails(c) ==
  /\ toolCall[c].phase \in {"read_file", "read_box"}
  /\ Phase(c, "prompt")
  /\ UNCHANGED <<session, box, template, pathsRaced, policyDisturbances>>

SummaryReadsFile(c) ==
  /\ toolCall[c].phase = "read_file"
  /\ toolCall' = [toolCall EXCEPT ![c].phase = "read_box", ![c].staged = template, ![c].touched = FALSE]
  /\ UNCHANGED <<session, box, template, pathsRaced, policyDisturbances>>

SummaryReadsBox(c) ==
  /\ toolCall[c].phase = "read_box"
  /\ toolCall' = [toolCall EXCEPT ![c].phase = "prompt", ![c].summary = Removals(toolCall[c].staged, box)]
  /\ UNCHANGED <<session, box, template, pathsRaced, policyDisturbances>>

Approve(c) ==
  /\ toolCall[c].phase = "prompt"
  /\ toolCall' = [toolCall EXCEPT ![c].phase = "run", ![c].approved = TRUE]
  /\ UNCHANGED <<session, box, template, pathsRaced, policyDisturbances>>

Decline(c) ==
  /\ toolCall[c].phase = "prompt"
  /\ Phase(c, "denied")
  /\ UNCHANGED <<session, box, template, pathsRaced, policyDisturbances>>

(***************************************************************************)
(* The handlers.                                                           *)
(***************************************************************************)
\* A tool that leaves the container's record alone, or that fails before it
\* changes anything.
RunPlain(c) ==
  /\ toolCall[c].phase = "run"
  /\ Phase(c, IF toolCall[c].tool \in ReadOnlyClass \cup GatedClass \cup NotOurs \cup {"quiet"} THEN "done" ELSE "failed")
  /\ UNCHANGED <<session, box, template, pathsRaced, policyDisturbances>>

\* addContainerMount adds one mount; startContainer replaces the whole list.
RunMounts(c) ==
  LET kept == IF toolCall[c].tool = "mount_add" THEN box.mounts ELSE NoMounts
      b == Recreated([box EXCEPT !.mounts =
             [m \in DOMAIN kept \cup {"volume"} |-> IF m = "volume" THEN "rw" ELSE kept[m]]]) IN
  /\ toolCall[c].phase = "run" /\ toolCall[c].tool \in {"mount_add", "start_mounts"}
  /\ box' = b
  /\ toolCall' = Noted([toolCall EXCEPT ![c].phase = "done"], b, c)
  /\ UNCHANGED <<session, template, pathsRaced, policyDisturbances>>

\* The handler of container_template_load reads the file again.
LoadReads(c) ==
  /\ toolCall[c].phase = "run" /\ toolCall[c].tool = "template_load"
  /\ toolCall' = [toolCall EXCEPT ![c].phase = "apply", ![c].staged = template]
  /\ UNCHANGED <<session, box, template, pathsRaced, policyDisturbances>>

\* Calls that recorded a PATH list and did not tell the agent yet.
Pushing == {c \in ToolCalls : toolCall[c].phase = "push"}

\* applyContainerTemplate: one startContainer, with the groups declared.
Applied(t, b) ==
  Recreated([b EXCEPT !.mounts = StagedMounts(t),
                      !.env = IF t.env = {} THEN @ ELSE t.env,
                      !.paths = IF t.paths = <<>> THEN @ ELSE t.paths])

LoadApplies(c) ==
  LET t == toolCall[c].staged
      b == Applied(t, box) IN
  /\ toolCall[c].phase = "apply"
  /\ box' = b
  /\ toolCall' = Noted([toolCall EXCEPT ![c].phase = "done",
         ![c].lost = [mounts |-> Cardinality(DOMAIN box.mounts \ DOMAIN b.mounts),
                      env |-> Cardinality(box.env \ b.env),
                      paths |-> Cardinality({i \in 1..Len(box.paths) :
                                               \A j \in 1..Len(b.paths) : box.paths[i] # b.paths[j]})]], b, c)
  /\ pathsRaced' = (pathsRaced \/ (Pushing # {} /\ t.paths # <<>>))
  /\ UNCHANGED <<session, template, policyDisturbances>>

\* The entries of a list that are not p, in their order.
WithoutPath(list, p) ==
  LET kept == {i \in 1..Len(list) : list[i] # p}
  IN  [j \in 1..Cardinality(kept) |-> list[CHOOSE i \in kept : Cardinality({k \in kept : k <= i}) = j]]

\* container_path_add, _remove and _set: the new list from the agent's, then
\* the record, then the agent.  Removing a path that is not there is refused.
NewListRepeating(tool) == IF tool = "path_add" THEN <<"b">> \o box.agentPaths ELSE <<"a">>
NewList(tool) ==
  CASE tool = "path_add" -> <<"b">> \o WithoutPath(box.agentPaths, "b")
    [] tool = "path_remove" -> WithoutPath(box.agentPaths, "a")
    [] OTHER -> <<"a">>

PathReads(c) ==
  /\ toolCall[c].phase = "run" /\ toolCall[c].tool \in PathTools
  /\ toolCall[c].tool = "path_remove" => \E i \in 1..Len(box.agentPaths) : box.agentPaths[i] = "a"
  /\ toolCall' = [toolCall EXCEPT ![c].phase = "persist", ![c].list = NewList(toolCall[c].tool)]
  /\ UNCHANGED <<session, box, template, pathsRaced, policyDisturbances>>

PathPersists(c) ==
  /\ toolCall[c].phase = "persist"
  /\ box' = [box EXCEPT !.paths = toolCall[c].list]
  /\ toolCall' = Noted([toolCall EXCEPT ![c].phase = "push"], box, c)
  /\ pathsRaced' = (pathsRaced \/ Pushing # {})
  /\ UNCHANGED <<session, template, policyDisturbances>>

PathPushes(c) ==
  /\ toolCall[c].phase = "push"
  /\ box' = [box EXCEPT !.agentPaths = toolCall[c].list]
  /\ Phase(c, "done")
  /\ UNCHANGED <<session, template, pathsRaced, policyDisturbances>>

\* The control plane refuses the list, or the agent cannot be reached.
PathFails(c) ==
  /\ toolCall[c].phase \in {"persist", "push"}
  /\ Phase(c, "failed")
  /\ pathsRaced' = (pathsRaced \/ toolCall[c].phase = "push")
  /\ UNCHANGED <<session, box, template, policyDisturbances>>

(***************************************************************************)
(* Meanwhile.                                                              *)
(***************************************************************************)
SwitchSession ==
  /\ policyDisturbances < MaxPolicyDisturbances
  /\ \E mode \in Modes : mode # session.mode /\ session' = [session EXCEPT !.mode = mode]
  /\ policyDisturbances' = policyDisturbances + 1
  /\ UNCHANGED <<box, template, toolCall, pathsRaced>>

\* Another client replaces the mounts.
OutsideMounts ==
  /\ policyDisturbances < MaxPolicyDisturbances
  /\ \E mounts \in {[m \in {"project", "scratch"} |-> "rw"], [m \in {"project", "volume"} |-> "ro"]} :
       LET b == Recreated([box EXCEPT !.mounts = mounts]) IN
       /\ box' = b
       /\ toolCall' = [c \in ToolCalls |-> [toolCall[c] EXCEPT !.verified = @ \/ WhollyReadOnly(mounts), !.touched = TRUE]]
  /\ policyDisturbances' = policyDisturbances + 1
  /\ UNCHANGED <<session, template, pathsRaced>>

EditTemplate ==
  /\ policyDisturbances < MaxPolicyDisturbances
  /\ \E t \in Templates \ {template} : template' = t
  /\ toolCall' = [c \in ToolCalls |-> [toolCall[c] EXCEPT !.touched = TRUE]]
  /\ policyDisturbances' = policyDisturbances + 1
  /\ UNCHANGED <<session, box, pathsRaced>>

CallStep(c) ==
  \/ GateUnreadable(c) \/ GateReads(c) \/ GateAnswered(c) \/ Remount(c) \/ RemountRefused(c)
  \/ SummaryFails(c) \/ SummaryReadsFile(c) \/ SummaryReadsBox(c) \/ Approve(c) \/ Decline(c)
  \/ RunPlain(c) \/ RunMounts(c) \/ LoadReads(c) \/ LoadApplies(c)
  \/ PathReads(c) \/ PathPersists(c) \/ PathPushes(c) \/ PathFails(c)

PolicyNext ==
  \/ \E c \in ToolCalls : (\E tool \in ToolClasses : Begin(c, tool)) \/ CallStep(c)
  \/ SwitchSession \/ OutsideMounts \/ EditTemplate

PolicySpec == PolicyInit /\ [][PolicyNext]_policyVars

-----------------------------------------------------------------------------
Phases == {"idle", "gate", "remount_prompt", "remount", "read_file", "read_box", "prompt",
           "run", "apply", "persist", "push", "done", "denied", "failed"}
Running == {"run", "apply", "persist", "push", "done"}

\* The calls, the container and the files are of the shapes the code gives them.
PolicyTypeOK ==
  /\ session \in Facts
  /\ box \in [mounts : MountMaps, env : SUBSET EnvNames, paths : PathLists, agentPaths : PathLists]
  /\ template \in Templates
  /\ toolCall \in [ToolCalls ->
       [tool : ToolClasses, phase : Phases, facts : Facts, seen : MountMaps, staged : Templates,
        summary : Counts \cup {NoCounts}, list : PathLists, verified : BOOLEAN, touched : BOOLEAN,
        approved : BOOLEAN, lost : Counts \cup {NoCounts}]]
  /\ pathsRaced \in BOOLEAN
  /\ policyDisturbances \in 0..MaxPolicyDisturbances

\* A tool runs as the session it began under permits, whatever other calls,
\* another client or the user did while the policy waited: under read-only, a
\* listing, a tool of another owner, or a gated tool during whose call the
\* container was wholly read-only at some moment; otherwise, with the policy
\* "ask", a tool that asks only after a yes (preExecutePolicy and the
\* read-only gate).
RunsAsPermitted ==
  \A c \in ToolCalls : toolCall[c].phase \in Running =>
    LET facts == toolCall[c].facts
        tool == toolCall[c].tool IN
    /\ facts.mode = "read-only" =>
         tool \in ReadOnlyClass \cup {"foreign"} \/ (tool \in GatedClass /\ toolCall[c].verified)
    /\ facts.mode # "read-only" /\ facts.policy = "ask" /\ AsksFirst(tool, facts) /\ tool \notin NotOurs
         => toolCall[c].approved

\* What a load removes from the container is what the prompt said it would,
\* unless somebody changed the container or the file in between
\* (readTemplateLoadSummary against applyContainerTemplate).
SummaryTruthful ==
  \A c \in ToolCalls :
    toolCall[c].phase = "done" /\ toolCall[c].lost # NoCounts /\ toolCall[c].summary # NoCounts /\ ~toolCall[c].touched
      => toolCall[c].lost = toolCall[c].summary

\* The list the agent prepends to PATH is the one the record restores, once no
\* update is half done: unless two updates overlapped or one failed half way
\* (applyContainerPaths, with the recreates of other calls in between).
PathsAgree == Pushing = {} /\ ~pathsRaced => box.agentPaths = box.paths

=============================================================================
