CONSTANTS
  BindingCalls = {1, 2}
  BindingKeys = {"session", "named"}
  Nobody = Nobody
  MaxGeneration = 5
  MaxDisturbances = 1
  Handles = {1, 2}
  Kinds = {"control", "command"}
  Uids = {1001}
  MaxChunks = 1
  ToolCalls = {1, 2}
  ToolsOf <- MCToolsOf
  Templates <- MCTemplates
  Sessions <- MCSessions
  MaxPolicyDisturbances = 1
  FileCalls = {1, 2, 3}
  FileSessions = {"a", "b"}
  SessionOf <- MCSessionOf
  Newcomers = {"a"}
  OpsOf <- MCOpsOf
  NoCall = NoCall
  MaxFileVersion = 3
  MaxProcessActs = 1
  CardCalls = {1, 2}
  CardOps <- MCCardOps
  Drafts <- MCDrafts
  Rivals = {"m1", "m2"}
  MaxCardTrouble = 1
  TemplateCalls = {1, 2}
  TemplateOps <- MCTemplateOps
  Bases = {"slim", "full"}
  Packages = {"git", "node", "jq"}
  Builtins <- MCBuiltins
  Documents <- MCDocuments
  FirstImages <- MCFirstImages
  FirstContainers <- MCFirstContainers
  NoImage = NoImage
  MaxTemplateTrouble = 1
  Choices = {"A", "B"}
  Boxes = {"c1"}
  Slots = {1}
  Nothing = Nothing
  MaxVisits = 2
  MaxImageTrouble = 1
  Folders = {"a", "ab"}
  RootFolder = "/"
  FolderParent <- MCFolderParent
  Typings = {"", "./a"}
  Spells <- MCSpells
  NoFolder = NoFolder
  Volumes = {"v"}
  MaxHostChecks = 2
  VarNames = {"A"}
  EnvValues = {"", "x"}
  FormSecrets = {"s", "t"}
  FormPaths = {"p"}
  FormPorts = {"80"}
  FormConfigs <- MCFormConfigs
  NoForm = NoForm
  MaxRows = 2
  MaxEdits = 3
  MaxSnapshots = 1
  DaemonCalls = {1, 2, 3}
  DaemonNames = {"x", "y"}
  DaemonOps <- MCDaemonOps
  MaxDaemons = 1
  NoDaemon = NoDaemon
SPECIFICATION PluginSpec
INVARIANTS
  PluginTypeOK
  ReturnsCurrentMounts EffectOnce
  UidExclusive ExitAfterOutput
  RunsAsPermitted SummaryTruthful PathsAgree
  OneMutationAtATime NoBlindOverwrite
  TemplatesFaithful
  ContinuesWithChosen
  DaemonsAccounted
PROPERTIES
  NoSpuriousFailure CallsEnd PoolExclusive
  ShownNeverOlder ApplyDelivers
  MountDialogSound SendsAsShown
CHECK_DEADLOCK FALSE
