------------------------------ MODULE MCPlugin ------------------------------
(***************************************************************************)
(* The plugin's modules and the daemons of its containers for TLC, one     *)
(* after the other in one run: they share no state, so the run picks one   *)
(* of them and leaves the others at rest.                                  *)
(***************************************************************************)
EXTENDS WorkspaceBinding, GuestExec, ToolPolicy, GuestFiles, CardPanel, TemplateLoad, TemplatePopup,
        MountDialog, ContainerForm, GuestDaemons

VARIABLE part   \* the module whose steps are taken

pluginVars == <<part, bindingVars, execVars, policyVars, filesVars, cardVars, templateVars, popupVars, dialogVars, formVars, daemonVars>>

Parts == {"binding", "exec", "policy", "files", "card", "templates", "popup", "dialog", "form", "daemons"}

\* CardPanel: two configurations that differ in every group.
MCConfig(i, e, m1, m2, p, s, ports) ==
  [image |-> i, env |-> e, mounts |-> [m \in MountKeys |-> IF m = "m1" THEN m1 ELSE m2],
   paths |-> p, secretEnv |-> [v \in EnvVars |-> s], ports |-> ports]
MCFirstDraft == MCConfig("i1", "e1", "rw", "none", "p1", "s1", {"80"})
MCDrafts == {MCFirstDraft, MCConfig("i2", "none", "none", "ro", "p2", "s2", {})}

\* Every module's initial states, one of them where it stays at rest; a card
\* first shows the first draft, and without a container no base is there.
PluginInit ==
  /\ part \in Parts
  /\ BindingInit /\ (part # "binding" => \A key \in BindingKeys : slot[key] = Empty)
  /\ ExecInit
  /\ PolicyInit /\ (part # "policy" => session = (CHOOSE s \in Sessions : TRUE) /\ template = CHOOSE t \in Templates : TRUE)
  /\ FilesInit /\ (part # "files" => \A s \in FileSessions : observed[s] = 1)
  /\ CardInit /\ host.config = MCFirstDraft
  /\ TemplateInit /\ (provisioned = {} <=> \A t \in Targets : container[t] = NoContainer)
  /\ part # "templates" => provisioned = {} /\ templateFile = CHOOSE d \in Documents : TRUE
  /\ PopupInit /\ (part # "popup" => \A c \in Choices : built[c])
  /\ DialogInit /\ (part # "dialog" => addPopup.dialog = "edit" /\ volumes = {})
  /\ FormInit /\ (part # "form" => formDialog.mode = "edit" /\ secrets.listed = {}
                                  /\ formServer = CHOOSE config \in FormConfigs : TRUE)
  /\ DaemonsInit

PluginNext ==
  /\ UNCHANGED part
  /\ \/ /\ part = "binding" /\ BindingNext
        /\ UNCHANGED <<execVars, policyVars, filesVars, cardVars, templateVars, popupVars, dialogVars, formVars, daemonVars>>
     \/ /\ part = "exec" /\ ExecNext
        /\ UNCHANGED <<bindingVars, policyVars, filesVars, cardVars, templateVars, popupVars, dialogVars, formVars, daemonVars>>
     \/ /\ part = "policy" /\ PolicyNext
        /\ UNCHANGED <<bindingVars, execVars, filesVars, cardVars, templateVars, popupVars, dialogVars, formVars, daemonVars>>
     \/ /\ part = "files" /\ FilesNext
        /\ UNCHANGED <<bindingVars, execVars, policyVars, cardVars, templateVars, popupVars, dialogVars, formVars, daemonVars>>
     \/ /\ part = "card" /\ CardNext
        /\ UNCHANGED <<bindingVars, execVars, policyVars, filesVars, templateVars, popupVars, dialogVars, formVars, daemonVars>>
     \/ /\ part = "templates" /\ TemplateNext
        /\ UNCHANGED <<bindingVars, execVars, policyVars, filesVars, cardVars, popupVars, dialogVars, formVars, daemonVars>>
     \/ /\ part = "popup" /\ PopupNext
        /\ UNCHANGED <<bindingVars, execVars, policyVars, filesVars, cardVars, templateVars, dialogVars, formVars, daemonVars>>
     \/ /\ part = "dialog" /\ DialogNext
        /\ UNCHANGED <<bindingVars, execVars, policyVars, filesVars, cardVars, templateVars, popupVars, formVars, daemonVars>>
     \/ /\ part = "form" /\ FormNext
        /\ UNCHANGED <<bindingVars, execVars, policyVars, filesVars, cardVars, templateVars, popupVars, dialogVars, daemonVars>>
     \/ /\ part = "daemons" /\ DaemonsNext
        /\ UNCHANGED <<bindingVars, execVars, policyVars, filesVars, cardVars, templateVars, popupVars, dialogVars, formVars>>

PluginSpec == PluginInit /\ [][PluginNext]_pluginVars /\ BindingFairness /\ ExecFairness /\ DaemonsFairness

\* Every module's type invariant.
PluginTypeOK ==
  BindingTypeOK /\ ExecTypeOK /\ PolicyTypeOK /\ FilesTypeOK /\ CardTypeOK /\ TemplateTypeOK /\ PopupTypeOK
  /\ DialogTypeOK /\ FormTypeOK /\ DaemonsTypeOK

\* Every call of a binding, every process that was stopped or has ended, and
\* every stop of a daemon comes to its end: nobody waits for ever.
CallsEnd == BindingEnds /\ StoppedEnds /\ EndSettles /\ DaemonCallsEnd

-----------------------------------------------------------------------------
\* ToolPolicy: one call of any tool, next to one that runs a command or adds a
\* PATH entry.
MCToolsOf == [c \in ToolCalls |-> IF c = 1 THEN ToolClasses ELSE {"shell", "path_add"}]
MCTemplates ==
  {[mounts |-> [m \in {"scratch"} |-> "rw"], env |-> {"y"}, paths |-> <<>>],
   [mounts |-> [m \in {"project", "volume"} |-> "ro"], env |-> {}, paths |-> <<"b">>]}
MCSessions ==
  {[mode |-> "read-only", policy |-> "ask", preset |-> "other"],
   [mode |-> "workspace-write", policy |-> "ask", preset |-> "podman-ops"],
   [mode |-> "workspace-write", policy |-> "never", preset |-> "other"]}

\* GuestFiles: two calls of one session and one of another.
MCSessionOf == [c \in FileCalls |-> IF c = 3 THEN "b" ELSE "a"]
MCOpsOf == [c \in FileCalls |-> IF c = 1 THEN {"read", "write"} ELSE IF c = 2 THEN {"edit"} ELSE {"write"}]

\* CardPanel: one call applies, the other is anybody else's.
MCCardOps == [c \in CardCalls |-> IF c = 1 THEN {"apply"} ELSE {"reload", "sync"}]

\* TemplateLoad: a document of a base only and one with packages, a container
\* on a chain of two custom images, and an image left by another parent.
MCTemplateOps == [c \in TemplateCalls |-> IF c = 1 THEN {"load", "rebuild"} ELSE {"load", "save"}]
MCBuiltins == [b \in Bases |-> IF b = "slim" THEN {"git"} ELSE {"git", "node"}]
MCNoGroups == [g \in DocumentGroups |-> {}]
MCDocuments ==
  {[base |-> "slim", packages |-> {"git", "jq"}, mounts |-> [m \in {"own"} |-> "ro"],
    group |-> [MCNoGroups EXCEPT !["env"] = GitIdentity], ports |-> {"80"}],
   [base |-> "full", packages |-> {"node"}, mounts |-> [m \in {"other"} |-> "rw"],
    group |-> [MCNoGroups EXCEPT !["env"] = {"x"}, !["paths"] = {"x"}], ports |-> {}]}
MCImage(parent, packages, holds) ==
  [listed |-> TRUE, parent |-> parent, packages |-> packages, tagged |-> TRUE, holds |-> holds]
MCFirstImages ==
  [i \in {"template", "team", "tools"} |->
     CASE i = "template" -> MCImage("full", {"jq"}, {"git", "node", "jq"})
       [] i = "tools" -> MCImage("slim", {"jq"}, {"git", "jq"})
       [] i = "team" -> MCImage("template", {"node"}, {"git", "jq", "node"})]
MCFirstContainers ==
  {[t \in Targets |-> NoContainer],
   [t \in Targets |-> IF t = "extra" THEN NoContainer ELSE
      [image |-> "team", holds |-> {"git", "jq", "node"}, mounts |-> [m \in {"own"} |-> "rw"],
       group |-> [MCNoGroups EXCEPT !["env"] = GitIdentity, !["secretEnv"] = {"x"}], ports |-> {"81"}]]}

\* MountDialog: a directory in another; "./a" is typed for the outer one.
MCFolderParent == [f \in Folders |-> IF f = "a" THEN RootFolder ELSE "a"]
MCSpells == [t \in Typings \cup Folders |-> IF t \in Folders THEN t ELSE IF t = "./a" THEN "a" ELSE NoFolder]

\* ContainerForm: two configurations that differ in every group but the secret
\* one.
MCFormConfig(env, mounts, paths) ==
  [env |-> env, secretEnv |-> [n \in {} |-> ""], mounts |-> mounts, paths |-> paths, ports |-> {}]
MCFormConfigs ==
  {MCFormConfig([n \in {} |-> ""], <<"ok">>, <<>>), MCFormConfig([n \in {"A"} |-> "x"], <<>>, <<"p">>)}

\* GuestDaemons: one start, one start or restart, and one that may stop.
MCDaemonOps ==
  [c \in DaemonCalls |-> IF c = 1 THEN {"start"} ELSE IF c = 2 THEN {"start", "restart"} ELSE {"start", "stop", "stop_all"}]
=============================================================================
