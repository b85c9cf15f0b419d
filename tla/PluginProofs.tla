---------------------------- MODULE PluginProofs ----------------------------
(***************************************************************************)
(* MCPlugin takes one component's steps and leaves the others at rest, so  *)
(* its behaviours are behaviours of every component, and what is proved of *)
(* a component holds of the run.                                           *)
(***************************************************************************)
EXTENDS MCPlugin, WorkspaceBindingProofs, GuestProofs, ToolPolicyProofs, PageProofs

\* A step of the run is a step of each component, or leaves it alone.
LEMMA PartSteps ==
  [PluginNext]_pluginVars =>
    /\ [BindingNext]_bindingVars /\ [ExecNext]_execVars /\ [PolicyNext]_policyVars
    /\ [FilesNext]_filesVars /\ [CardNext]_cardVars /\ [TemplateNext]_templateVars
    /\ [PopupNext]_popupVars /\ [DialogNext]_dialogVars /\ [FormNext]_formVars
    /\ [DaemonsNext]_daemonVars
PROOF BY Zenon DEF PluginNext, pluginVars

LEMMA PartStarts ==
  PluginInit => /\ BindingInit /\ ExecInit /\ PolicyInit /\ FilesInit /\ CardInit /\ TemplateInit
                /\ PopupInit /\ DialogInit /\ FormInit /\ DaemonsInit
PROOF BY Zenon DEF PluginInit

\* Every behaviour of the run is one of the specification of each component:
\* composing them restricts none beyond its first state and its own steps.
THEOREM RunImplementsParts ==
  PluginSpec => /\ BindingSpec /\ ExecSpec /\ PolicySpec /\ FilesSpec /\ CardSpec /\ TemplateSpec
                /\ PopupSpec /\ DialogSpec /\ FormSpec /\ DaemonsSpec
PROOF
BY PartSteps, PartStarts, PTL
   DEF PluginSpec, BindingSpec, ExecSpec, PolicySpec, FilesSpec, CardSpec, TemplateSpec, PopupSpec, DialogSpec,
       FormSpec, DaemonsSpec

\* Every reachable state of the plugin's modules and of the daemons is of the
\* shapes the code gives it, for every value of the constants.
THEOREM PluginTypes == PluginSpec => []PluginTypeOK
PROOF
BY RunImplementsParts, BindingTypes, ExecTypes, PolicyTypes, FilesTypeCorrect, CardTypes, TemplateTypes, PopupTypes,
   DialogTypeCorrect, FormTypes, DaemonsTypeCorrect, PTL
   DEF PluginTypeOK
=============================================================================
