------------------------------ MODULE CardPanel ------------------------------
(***************************************************************************)
(* The settings card of the browser: its controller                        *)
(* (client/container-card-controller.ts), the row that edits one container *)
(* (client/container-card-row.tsx, client/container-card-config.ts) and    *)
(* the route behind them (card-route.ts).                                  *)
(*                                                                         *)
(* A command is followed by a fresh listing of the whole card; a listing   *)
(* that another request overtook is thrown away.  Applying an edited row   *)
(* is a sequence of such commands, computed from what the card showed.     *)
(***************************************************************************)
EXTENDS Naturals, FiniteSets

CONSTANTS
  CardCalls,      \* reloads, commands and applies of one card
  CardOps,        \* CardOps[c]: what call c may be
  Drafts,         \* the configurations a row's editor may hold
  Rivals,         \* mounts that need the same destination
  MaxCardTrouble  \* commands and listings that fail on their own, and changes
                  \* of the container by somebody else

\* A configuration: the groups of containerConfigFrom.  An environment and a
\* PATH list are names here; a mount has a mode, a variable a secret.
ConfigGroups == {"image", "env", "mounts", "paths", "secretEnv", "ports"}
MountKeys == {"m1", "m2"}
CardModes == {"none", "ro", "rw"}
EnvVars == {"V"}
SecretNames == {"none", "s1", "s2"}
PortNumbers == {"80"}
Configs ==
  [image : {"i1", "i2"}, env : {"none", "e1", "e2"}, mounts : [MountKeys -> CardModes],
   paths : {"p1", "p2"}, secretEnv : [EnvVars -> SecretNames], ports : SUBSET PortNumbers]

ASSUME CardAssumption ==
  /\ CardOps \in [CardCalls -> SUBSET {"reload", "sync", "apply"}]
  /\ Drafts \subseteq Configs /\ Drafts # {}
  /\ Rivals \subseteq MountKeys
  /\ MaxCardTrouble \in Nat

VARIABLES
  host,       \* the orchestrator's record of the container, and its version
  panel,      \* what the card shows: a listing, its generation, its messages
  row,        \* the editor of the container: the draft and the staged copy
  cardCall,   \* the calls
  cardTrouble \* failures and changes by somebody else so far

cardVars == <<host, panel, row, cardCall, cardTrouble>>

-----------------------------------------------------------------------------
(* What an apply sends.                                                    *)

Step(op, key, val) == [op |-> op, key |-> key, val |-> val]
NoStep == Step("none", "", "")

GroupsOf(op) ==
  CASE op \in {"mount_remove", "mount_update", "mount_add"} -> {"mounts"}
    [] op \in {"secret_remove", "secret_add"} -> {"secretEnv"}
    [] op = "path_set" -> {"paths"}
    [] op \in {"unpublish", "publish"} -> {"ports"}
    [] OTHER -> {"image", "env"}

MountDiff(base, next) ==
  LET live == {m \in MountKeys : base[m] # "none"}
      wanted == {m \in MountKeys : next[m] # "none"}
  IN  {Step("mount_remove", m, base[m]) : m \in live \ wanted} \cup
      {Step("mount_update", m, next[m]) : m \in {k \in live \cap wanted : base[k] # next[k]}} \cup
      {Step("mount_add", m, next[m]) : m \in wanted \ live}

SecretDiffAttachOnly(base, next) ==
  {Step("secret_add", v, next[v]) : v \in {w \in EnvVars : base[w] # next[w] /\ next[w] # "none"}}

\* A changed secret is detached and attached again.
SecretDiff(base, next) ==
  LET differ == {v \in EnvVars : base[v] # next[v]}
  IN  {Step("secret_remove", v, "") : v \in {w \in differ : base[w] # "none"}} \cup
      {Step("secret_add", v, next[v]) : v \in {w \in differ : next[w] # "none"}}

PortDiff(base, next) ==
  {Step("unpublish", p, "") : p \in base \ next} \cup {Step("publish", p, "") : p \in next \ base}

NeedsRecreate(base, next) == base.image # next.image \/ base.env # next.env

Changes(base, next) ==
  MountDiff(base.mounts, next.mounts) \cup SecretDiff(base.secretEnv, next.secretEnv) \cup
  (IF base.paths # next.paths THEN {Step("path_set", "", next.paths)} ELSE {}) \cup
  PortDiff(base.ports, next.ports) \cup
  (IF NeedsRecreate(base, next) THEN {Step("recreate", next.image, next.env)} ELSE {})

\* The order in which applyConfig sends them.
Rank == [mount_remove |-> 1, mount_update |-> 2, mount_add |-> 3, secret_remove |-> 4,
         secret_add |-> 5, path_set |-> 6, unpublish |-> 7, publish |-> 8, recreate |-> 9]
First(plan) == CHOOSE s \in plan : \A t \in plan : Rank[s.op] <= Rank[t.op]

-----------------------------------------------------------------------------
(* What the host makes of a command.                                       *)

\* Two mounts at one destination: the editor does not prevent it, the host has
\* no such container.
Clashes(config) ==
  \E m, n \in Rivals : m # n /\ config.mounts[m] # "none" /\ config.mounts[n] # "none"

\* The orchestrator refuses what is already so, or cannot be.
Accepts(s, config) ==
  CASE s.op = "mount_add" ->
         /\ config.mounts[s.key] = "none"
         /\ s.key \in Rivals => \A m \in Rivals : config.mounts[m] = "none"
    [] s.op = "mount_update" -> config.mounts[s.key] \notin {"none", s.val}
    [] s.op = "mount_remove" -> config.mounts[s.key] # "none"
    [] s.op = "secret_add" -> config.secretEnv[s.key] = "none"
    [] s.op = "secret_remove" -> config.secretEnv[s.key] # "none"
    [] s.op = "unpublish" -> s.key \in config.ports
    [] OTHER -> TRUE

\* runCommand: an empty environment is not sent, and the record keeps its own.
\* A sync adds the default environment to a container that has none of it.
AppliedStep(s, config) ==
  CASE s.op \in {"mount_add", "mount_update"} -> [config EXCEPT !.mounts[s.key] = s.val]
    [] s.op = "mount_remove" -> [config EXCEPT !.mounts[s.key] = "none"]
    [] s.op = "secret_add" -> [config EXCEPT !.secretEnv[s.key] = s.val]
    [] s.op = "secret_remove" -> [config EXCEPT !.secretEnv[s.key] = "none"]
    [] s.op = "path_set" -> [config EXCEPT !.paths = s.val]
    [] s.op = "publish" -> [config EXCEPT !.ports = @ \cup {s.key}]
    [] s.op = "unpublish" -> [config EXCEPT !.ports = @ \ {s.key}]
    [] s.op = "recreate" ->
         [config EXCEPT !.image = s.key, !.env = IF s.val = "none" THEN @ ELSE s.val]
    [] s.op = "default_env_sync" -> [config EXCEPT !.env = IF @ = "none" THEN "e1" ELSE @]

-----------------------------------------------------------------------------
(* Calls.                                                                  *)

CallPC == {"idle", "command", "listing", "answer", "done"}
NoListing == [version |-> 0, config |-> CHOOSE d \in Drafts : TRUE]
NewCardCall ==
  [pc |-> "idle", kind |-> "reload", gen |-> 0, step |-> NoStep, plan |-> {}, next |-> NoListing.config,
   failed |-> {}, clean |-> TRUE, applied |-> TRUE, carries |-> NoListing]

CardInit ==
  /\ host \in {[version |-> 1, config |-> d] : d \in {e \in Drafts : ~Clashes(e)}}
  /\ panel = [version |-> host.version, config |-> host.config, generation |-> 0,
              toast |-> "none", notice |-> FALSE, ready |-> TRUE]
  /\ row = [draft |-> host.config, staged |-> host.config]
  /\ cardCall = [c \in CardCalls |-> NewCardCall]
  /\ cardTrouble = 0

InFlight(c) == cardCall[c].pc \notin {"idle", "done"}
Current(c) == cardCall[c].gen = panel.generation

\* pendingActions: the row's own commands are disabled while one is under way.
RowBusy == \E c \in CardCalls : InFlight(c) /\ cardCall[c].kind = "apply"

\* The calls after a change of the container that `others` did not make.
CardDisturbed(others) ==
  [c \in CardCalls |-> IF c \in others /\ InFlight(c) THEN [cardCall[c] EXCEPT !.clean = FALSE] ELSE cardCall[c]]

Reload(c) ==
  /\ "reload" \in CardOps[c] /\ cardCall[c].pc = "idle"
  /\ panel' = [panel EXCEPT !.generation = @ + 1]
  /\ cardCall' = [cardCall EXCEPT ![c] = [cardCall[c] EXCEPT !.pc = "listing", !.gen = panel.generation + 1]]
  /\ UNCHANGED <<host, row, cardTrouble>>

\* A command that is not a row's: the default environment for all containers.
Sync(c) ==
  /\ "sync" \in CardOps[c] /\ cardCall[c].pc = "idle"
  /\ panel' = [panel EXCEPT !.generation = @ + 1]
  /\ cardCall' = [cardCall EXCEPT ![c] = [cardCall[c] EXCEPT !.pc = "command", !.kind = "sync",
                    !.gen = panel.generation + 1, !.step = Step("default_env_sync", "", "")]]
  /\ UNCHANGED <<host, row, cardTrouble>>

\* The dialog's one action: stage the draft, and send the first command.
Apply(c) ==
  LET plan == Changes(panel.config, row.draft) IN
  /\ "apply" \in CardOps[c] /\ cardCall[c].pc = "idle"
  /\ plan # {} /\ ~RowBusy
  /\ row' = [row EXCEPT !.staged = row.draft]
  /\ panel' = [panel EXCEPT !.generation = @ + 1]
  /\ cardCall' = [cardCall EXCEPT ![c] = [cardCall[c] EXCEPT !.pc = "command", !.kind = "apply",
                    !.gen = panel.generation + 1, !.step = First(plan), !.plan = plan \ {First(plan)},
                    !.next = row.draft, !.clean = panel.config = host.config]]
  /\ UNCHANGED <<host, cardTrouble>>

\* The end of one dispatch: an apply sends its next command at once.
Onward(c, call, ok) ==
  LET ended == [call EXCEPT !.applied = @ /\ ok, !.carries = NoListing] IN
  IF call.plan = {}
    THEN [cardCall EXCEPT ![c] = [ended EXCEPT !.pc = "done", !.step = NoStep, !.gen = 0]]
    ELSE [cardCall EXCEPT ![c] = [ended EXCEPT !.pc = "command", !.gen = panel.generation + 1,
            !.step = First(call.plan), !.plan = @ \ {First(call.plan)}]]

Generation(c) == panel.generation + (IF cardCall[c].plan = {} THEN 0 ELSE 1)

\* The error of a dispatch is shown unless another request overtook it.
DispatchFails(c, spontaneous) ==
  LET call == [cardCall[c] EXCEPT !.failed = IF spontaneous THEN @ \cup GroupsOf(cardCall[c].step.op) ELSE @] IN
  /\ cardCall' = Onward(c, call, FALSE)
  /\ panel' = [panel EXCEPT !.generation = Generation(c), !.toast = IF Current(c) THEN "error" ELSE @]
  /\ cardTrouble' = cardTrouble + (IF spontaneous THEN 1 ELSE 0)

CommandRefused(c) ==
  /\ cardCall[c].pc = "command" /\ ~Accepts(cardCall[c].step, host.config)
  /\ DispatchFails(c, FALSE)
  /\ UNCHANGED <<host, row>>

CommandFails(c) ==
  /\ cardCall[c].pc = "command" /\ cardTrouble < MaxCardTrouble
  /\ DispatchFails(c, TRUE)
  /\ UNCHANGED <<host, row>>

\* A command that leaves the record as it is makes no new version.
Changed(c) ==
  LET s == cardCall[c].step  config == AppliedStep(s, host.config) IN
  /\ cardCall[c].pc = "command" /\ Accepts(s, host.config)
  /\ host' = IF config = host.config THEN host ELSE [version |-> host.version + 1, config |-> config]

CommandDone(c) ==
  /\ Changed(c)
  /\ cardCall' = [(IF host' = host THEN cardCall ELSE CardDisturbed(CardCalls \ {c})) EXCEPT ![c].pc = "listing"]
  /\ UNCHANGED <<panel, row, cardTrouble>>

\* The list is recorded and then pushed to the agent: the record changes, the
\* push fails, and the command is answered with an error.
PathPushFails(c) ==
  /\ cardTrouble < MaxCardTrouble /\ cardCall[c].step.op = "path_set"
  /\ Changed(c)
  /\ DispatchFails(c, TRUE)
  /\ UNCHANGED row

List(c) ==
  /\ cardCall[c].pc = "listing"
  /\ cardCall' = [cardCall EXCEPT ![c] = [cardCall[c] EXCEPT !.pc = "answer",
                    !.carries = [version |-> host.version, config |-> host.config]]]
  /\ UNCHANGED <<host, panel, row, cardTrouble>>

\* A failed listing fails the command it follows, too.
ListFails(c) ==
  /\ cardCall[c].pc = "listing" /\ cardTrouble < MaxCardTrouble
  /\ IF cardCall[c].kind = "reload"
       THEN /\ cardCall' = Onward(c, cardCall[c], FALSE)
            /\ panel' = IF Current(c) THEN [panel EXCEPT !.toast = "error", !.notice = TRUE, !.ready = FALSE]
                        ELSE panel
            /\ cardTrouble' = cardTrouble + 1
       ELSE DispatchFails(c, TRUE)
  /\ UNCHANGED <<host, row>>

\* The row adopts a listing when nothing local is lost by it.
Adopts(config) ==
  IF /\ config # panel.config
     /\ row.draft = row.staged
     /\ row.staged = panel.config \/ row.staged = config
    THEN [draft |-> config, staged |-> config]
    ELSE row

OutdatedNever(c) == FALSE
Outdated(c) == ~Current(c)

Listed(c) ==
  LET call == cardCall[c] IN
  /\ call.pc = "answer"
  /\ cardCall' = Onward(c, call, TRUE)
  /\ IF Outdated(c)
       THEN /\ panel' = [panel EXCEPT !.generation = Generation(c), !.ready = TRUE]
            /\ UNCHANGED row
       ELSE /\ panel' = [version |-> call.carries.version, config |-> call.carries.config,
                         generation |-> Generation(c), ready |-> TRUE,
                         toast |-> IF call.kind = "sync" THEN "ok" ELSE panel.toast,
                         notice |-> call.kind # "reload" /\ panel.notice]
            /\ row' = Adopts(call.carries.config)
  /\ UNCHANGED <<host, cardTrouble>>

\* The user edits the draft, or drops what is local.
Edit(d) ==
  /\ ~RowBusy /\ d # row.draft
  /\ row' = [row EXCEPT !.draft = d]
  /\ UNCHANGED <<host, panel, cardCall, cardTrouble>>

Discard ==
  /\ ~RowBusy
  /\ \/ row.draft # row.staged /\ row' = [row EXCEPT !.draft = row.staged]
     \/ /\ row.draft = row.staged /\ row.staged # panel.config
        /\ row' = [draft |-> panel.config, staged |-> panel.config]
  /\ UNCHANGED <<host, panel, cardCall, cardTrouble>>

\* A tool of a session, or another browser.
ChangedOutside(d) ==
  /\ cardTrouble < MaxCardTrouble /\ d # host.config /\ ~Clashes(d)
  /\ host' = [version |-> host.version + 1, config |-> d]
  /\ cardCall' = CardDisturbed(CardCalls)
  /\ cardTrouble' = cardTrouble + 1
  /\ UNCHANGED <<panel, row>>

-----------------------------------------------------------------------------
CardCallStep(c) ==
  \/ Reload(c) \/ Sync(c) \/ Apply(c)
  \/ CommandRefused(c) \/ CommandFails(c) \/ CommandDone(c) \/ PathPushFails(c)
  \/ List(c) \/ ListFails(c) \/ Listed(c)

CardNext ==
  \/ \E c \in CardCalls : CardCallStep(c)
  \/ \E d \in Drafts : Edit(d) \/ ChangedOutside(d)
  \/ Discard

CardSpec == CardInit /\ [][CardNext]_cardVars

-----------------------------------------------------------------------------
(* Properties.                                                             *)

StepOps == DOMAIN Rank \cup {"none", "default_env_sync"}

\* The shape of the state.
CardTypeOK ==
  /\ host.version \in Nat /\ host.config \in Configs
  /\ panel.version \in Nat /\ panel.config \in Configs /\ panel.generation \in Nat
  /\ panel.toast \in {"none", "ok", "error"} /\ panel.notice \in BOOLEAN /\ panel.ready \in BOOLEAN
  /\ row.draft \in Configs /\ row.staged \in Configs
  /\ \A c \in CardCalls :
       /\ cardCall[c].pc \in CallPC /\ cardCall[c].kind \in {"reload", "sync", "apply"}
       /\ cardCall[c].gen <= panel.generation
       /\ cardCall[c].step.op \in StepOps
       /\ cardCall[c].failed \subseteq ConfigGroups
       /\ cardCall[c].carries.version <= host.version
  /\ cardTrouble \in 0..MaxCardTrouble

\* The card never goes back to an older listing than the one it shows, however
\* the answers of concurrent reloads and commands overtake each other.
ShownNeverOlder == [][panel'.version >= panel.version]_cardVars

\* An apply computed from the container as it is, and that nobody interferes
\* with, leaves every group as it was edited, but for groups whose own command
\* failed; and it reports success exactly if none failed.  There are two
\* exceptions: an environment edited down to nothing, which is never sent, and a
\* draft with two mounts at one destination, which no container can have.
Delivers(c) ==
  LET call == cardCall'[c] IN
  (/\ call.kind = "apply" /\ call.clean /\ ~Clashes(call.next)
   /\ cardCall[c].pc # "done" /\ call.pc = "done")
  => /\ \A g \in ConfigGroups \ call.failed :
          host'.config[g] = call.next[g] \/ (g = "env" /\ call.next.env = "none")
     /\ call.applied = (call.failed = {})

ApplyDelivers == [][\A c \in CardCalls : Delivers(c)]_cardVars
=============================================================================
