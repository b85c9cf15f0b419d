---------------------------- MODULE ContainerForm ----------------------------
(***************************************************************************)
(* The form of the create and the edit dialog of a container (client/      *)
(* container-card-form.tsx, container-card-create-modal.tsx,               *)
(* container-card-edit-modal.tsx, and the draft in container-card-row.tsx).*)
(*                                                                         *)
(* The variable editors hold rows of their own and derive the draft's      *)
(* records from them; the draft is also written from elsewhere: a snapshot *)
(* the row adopts, a secret selected once it is listed, a mount added from *)
(* the draft of the render its check began in.  What is sent is the draft, *)
(* what the user sees and the checks judge are the rows.                   *)
(*                                                                         *)
(* Effects of a render run with the action that causes it.  A value of a   *)
(* variable, a path or a port is one of few; a mount is its destination.   *)
(***************************************************************************)
EXTENDS Naturals, Sequences, FiniteSets

CONSTANTS
  VarNames,       \* names of variables
  EnvValues,      \* values of environment variables
  FormSecrets,    \* names of secrets
  FormPaths,      \* PATH entries
  FormPorts,
  FormConfigs,    \* configurations the host is first found in
  NoForm,
  MaxRows,        \* rows one editor holds
  MaxEdits,       \* actions of the user on the fields
  MaxSnapshots    \* changes of the container by anybody else

Records(values) == UNION {[names -> values] : names \in SUBSET VarNames}
FormDrafts ==
  [env : Records(EnvValues), secretEnv : Records(FormSecrets), mounts : Seq({"ok", "refused"}),
   paths : Seq(FormPaths), ports : SUBSET FormPorts]

ASSUME FormAssumption ==
  /\ IsFiniteSet(VarNames) /\ "" \notin VarNames
  /\ "" \in EnvValues /\ "" \notin FormSecrets \cup FormPaths
  /\ FormConfigs \subseteq FormDrafts /\ NoForm \notin FormDrafts
  /\ MaxRows \in Nat /\ MaxEdits \in Nat /\ MaxSnapshots \in Nat

VARIABLES
  formDialog,  \* which dialog, whether it is open, its confirmation step, a command under way
  formDraft,   \* the configuration the dialog edits
  formRows,    \* rows of the two variable editors; `at` is the secret row created for last
  formServer,  \* the container as the last snapshot shows it
  staged,      \* the configuration applied or adopted last (edit dialog)
  capture,     \* the draft an Add mount under way writes back to
  secrets,     \* [listed, asked: being created, pending: selected once it is listed]
  sends,       \* what Create or Apply sent last; `turn` flips when something is sent
  formSpent    \* edits and snapshots so far
formVars == <<formDialog, formDraft, formRows, formServer, staged, capture, secrets, sends, formSpent>>

-----------------------------------------------------------------------------
(* Rows and records.                                                       *)

Row(name, value) == [name |-> name, value |-> value]

\* envRecordFromRows: an unnamed row is left out, of two that share a name the
\* last one counts.
RecordOf(rows) ==
  LET names == {rows[i].name : i \in DOMAIN rows} \ {""}
      last(n) == CHOOSE i \in DOMAIN rows :
                   rows[i].name = n /\ \A j \in DOMAIN rows : rows[j].name = n => j <= i
  IN [n \in names |-> rows[last(n)].value]

\* envEditRows: one row for every name of the record, in an order of the names.
NameList(names) ==
  CHOOSE list \in [1..Cardinality(names) -> names] : \A n \in names : \E i \in DOMAIN list : list[i] = n
RowsOf(record) ==
  LET names == NameList(DOMAIN record)
  IN [i \in DOMAIN names |-> Row(names[i], record[names[i]])]

\* A record that is not what the rows derive replaces the rows.
RebuiltNever(rows, record) == rows
Rebuilt(rows, record) == IF RecordOf(rows) = record THEN rows ELSE RowsOf(record)

\* The draft written from outside the variable editors.
Written(draft) ==
  /\ formDraft' = draft
  /\ formRows' = [env |-> Rebuilt(formRows.env, draft.env),
                  secretEnv |-> Rebuilt(formRows.secretEnv, draft.secretEnv),
                  at |-> IF RecordOf(formRows.secretEnv) = draft.secretEnv THEN formRows.at ELSE 0]

\* The form is mounted: both editors start from the draft.
Fresh(draft) ==
  /\ formDraft' = draft
  /\ formRows' = [env |-> RowsOf(draft.env), secretEnv |-> RowsOf(draft.secretEnv), at |-> 0]

\* conflictingEnvNames: a name may be used once over both groups.
NamesOf(rows) == [i \in DOMAIN rows |-> rows[i].name]
AllNames == NamesOf(formRows.env) \o NamesOf(formRows.secretEnv)
Distinct(names) == \A i, j \in DOMAIN names : names[i] = names[j] => i = j
Conflict == \/ \E i \in DOMAIN AllNames : AllNames[i] = ""
            \/ ~Distinct(AllNames)

\* The message in the footer: any of its reasons refuses the one action.
BlockingError == Conflict \/ \E i \in DOMAIN formDraft.mounts : formDraft.mounts[i] = "refused"

-----------------------------------------------------------------------------
NoDialog(mode) == [mode |-> mode, open |-> FALSE, asking |-> FALSE, applying |-> FALSE]

FormInit ==
  /\ \E mode \in {"create", "edit"} : formDialog = NoDialog(mode)
  /\ formServer \in FormConfigs
  /\ formDraft = formServer /\ staged = formServer
  /\ formRows = [env |-> <<>>, secretEnv |-> <<>>, at |-> 0]
  /\ capture = NoForm
  /\ \E listed \in SUBSET FormSecrets : secrets = [listed |-> listed, asked |-> "", pending |-> ""]
  /\ sends = [turn |-> FALSE, config |-> NoForm]
  /\ formSpent = [edits |-> 0, snapshots |-> 0]

\* The fields take input: the dialog is on top and no command of the container
\* is under way.
Typing == /\ formDialog.open /\ ~formDialog.asking /\ ~formDialog.applying
          /\ capture = NoForm
          /\ formSpent.edits < MaxEdits
Edited == formSpent' = [formSpent EXCEPT !.edits = @ + 1]

\* The create dialog takes its draft when it opens, and only then; the edit
\* dialog shows the draft its row keeps.
OpenForm ==
  /\ ~formDialog.open /\ formSpent.edits < MaxEdits
  /\ formDialog' = [formDialog EXCEPT !.open = TRUE]
  /\ Fresh(IF formDialog.mode = "create" THEN formServer ELSE formDraft)
  /\ Edited
  /\ sends' = IF formDialog.applying THEN sends ELSE [sends EXCEPT !.config = NoForm]
  /\ UNCHANGED <<formServer, staged, capture, secrets>>

\* A secret asked for is no longer selected by an editor that is gone.
CloseForm ==
  /\ formDialog.open /\ ~formDialog.asking /\ capture = NoForm
  /\ formDialog' = [formDialog EXCEPT !.open = FALSE]
  /\ Fresh(formDraft)
  /\ secrets' = [secrets EXCEPT !.pending = ""]
  /\ UNCHANGED <<formServer, staged, capture, sends, formSpent>>

-----------------------------------------------------------------------------
(* The variable editors: every change of the rows writes the record.       *)

EnvTo(rows) ==
  /\ formRows' = [formRows EXCEPT !.env = rows]
  /\ formDraft' = [formDraft EXCEPT !.env = RecordOf(rows)]

SecretTo(rows, at) ==
  /\ formRows' = [formRows EXCEPT !.secretEnv = rows, !.at = at]
  /\ formDraft' = [formDraft EXCEPT !.secretEnv = RecordOf(rows)]

Dropped(rows, i) == [j \in 1..(Len(rows) - 1) |-> IF j < i THEN rows[j] ELSE rows[j + 1]]

EditEnv ==
  /\ Typing
  /\ LET rows == formRows.env IN
     \/ Len(rows) < MaxRows /\ EnvTo(Append(rows, Row("", "")))
     \/ \E i \in DOMAIN rows :
          \/ \E n \in (VarNames \cup {""}) \ {rows[i].name} : EnvTo([rows EXCEPT ![i].name = n])
          \/ \E v \in EnvValues \ {rows[i].value} : EnvTo([rows EXCEPT ![i].value = v])
          \/ EnvTo(Dropped(rows, i))
  /\ Edited
  /\ UNCHANGED <<formDialog, formServer, staged, capture, secrets, sends>>

EditSecretEnv ==
  /\ Typing
  /\ LET rows == formRows.secretEnv IN
     \/ /\ Len(rows) < MaxRows
        /\ \E s \in secrets.listed : SecretTo(Append(rows, Row("", s)), Len(rows) + 1)
     \/ \E i \in DOMAIN rows :
          \/ \E n \in (VarNames \cup {""}) \ {rows[i].name} :
               SecretTo([rows EXCEPT ![i].name = n], formRows.at)
          \/ \E s \in secrets.listed \ {rows[i].value} :
               SecretTo([rows EXCEPT ![i].value = s], formRows.at)
          \/ SecretTo(Dropped(rows, i), IF formRows.at = i THEN 0
                                        ELSE IF formRows.at > i THEN formRows.at - 1 ELSE formRows.at)
  /\ Edited
  /\ UNCHANGED <<formDialog, formServer, staged, capture, secrets, sends>>

\* The Create secret button, or the one of a row whose secret is not listed.
AskSecret ==
  /\ Typing /\ secrets.asked = ""
  /\ \E s \in FormSecrets \ secrets.listed :
       /\ secrets' = [secrets EXCEPT !.asked = s, !.pending = s]
       /\ \/ UNCHANGED formRows
          \/ \E i \in DOMAIN formRows.secretEnv :
               /\ formRows.secretEnv[i].value = s
               /\ formRows' = [formRows EXCEPT !.at = i]
  /\ Edited
  /\ UNCHANGED <<formDialog, formDraft, formServer, staged, capture, sends>>

\* A snapshot lists secrets: the pending one is selected in the row it was
\* asked for from.
SecretsListed(listed, asked) ==
  LET selects == secrets.pending \in listed IN
  /\ secrets' = [listed |-> listed, asked |-> asked, pending |-> IF selects THEN "" ELSE secrets.pending]
  /\ IF selects /\ formRows.at # 0
     THEN SecretTo([formRows.secretEnv EXCEPT ![formRows.at].value = secrets.pending], formRows.at)
     ELSE UNCHANGED <<formRows, formDraft>>
  /\ UNCHANGED <<formDialog, formServer, staged, capture, sends, formSpent>>

\* A refused creation leaves `pending` behind.
SecretCreated == secrets.asked # "" /\ SecretsListed(secrets.listed \cup {secrets.asked}, "")
SecretRefused == secrets.asked # "" /\ SecretsListed(secrets.listed, "")
SecretRemoved == \E s \in secrets.listed : SecretsListed(secrets.listed \ {s}, secrets.asked)

-----------------------------------------------------------------------------
(* The other groups.                                                       *)

\* Add mount: the check of its path is awaited, and the mount is then added to
\* the draft of the render that began it.
StartAddMount ==
  /\ Typing /\ Len(formDraft.mounts) < MaxRows
  /\ capture' = formDraft
  /\ Edited
  /\ UNCHANGED <<formDialog, formDraft, formRows, formServer, staged, secrets, sends>>

EndAddMount ==
  /\ capture # NoForm
  /\ capture' = NoForm
  /\ \/ Written([capture EXCEPT !.mounts = Append(@, "ok")])
     \/ UNCHANGED <<formDraft, formRows>>
  /\ UNCHANGED <<formDialog, formServer, staged, secrets, sends, formSpent>>

EditMount ==
  /\ Typing
  /\ \E i \in DOMAIN formDraft.mounts :
       \/ \E d \in {"ok", "refused"} \ {formDraft.mounts[i]} : Written([formDraft EXCEPT !.mounts[i] = d])
       \/ Written([formDraft EXCEPT !.mounts = Dropped(@, i)])
  /\ Edited
  /\ UNCHANGED <<formDialog, formServer, staged, capture, secrets, sends>>

\* The PATH dialog applies its whole list, of at most one entry here: a blank
\* one is left out.
ApplyPaths ==
  /\ Typing
  /\ \E p \in FormPaths \cup {""} :
       Written([formDraft EXCEPT !.paths = IF p = "" THEN <<>> ELSE <<p>>])
  /\ Edited
  /\ UNCHANGED <<formDialog, formServer, staged, capture, secrets, sends>>

EditPorts ==
  /\ Typing
  /\ \E p \in FormPorts :
       Written([formDraft EXCEPT !.ports = IF p \in @ THEN @ \ {p} ELSE @ \cup {p}])
  /\ Edited
  /\ UNCHANGED <<formDialog, formServer, staged, capture, secrets, sends>>

-----------------------------------------------------------------------------
(* The one action of the dialog.                                           *)

Sent(config) == sends' = [turn |-> ~sends.turn, config |-> config]

CreateContainer ==
  /\ formDialog.mode = "create" /\ formDialog.open
  /\ capture = NoForm /\ ~BlockingError
  /\ Sent(formDraft)
  /\ formDialog' = [formDialog EXCEPT !.open = FALSE]
  /\ Fresh(formDraft)
  /\ secrets' = [secrets EXCEPT !.pending = ""]
  /\ UNCHANGED <<formServer, staged, capture, formSpent>>

\* Apply is offered for a change and confirmed in a step of its own.
AskApply ==
  /\ formDialog.mode = "edit" /\ formDialog.open /\ capture = NoForm
  /\ ~formDialog.asking /\ ~formDialog.applying
  /\ ~BlockingError /\ formDraft # formServer
  /\ formDialog' = [formDialog EXCEPT !.asking = TRUE]
  /\ UNCHANGED <<formDraft, formRows, formServer, staged, capture, secrets, sends, formSpent>>

CancelApply ==
  /\ formDialog.asking
  /\ formDialog' = [formDialog EXCEPT !.asking = FALSE]
  /\ UNCHANGED <<formDraft, formRows, formServer, staged, capture, secrets, sends, formSpent>>

ConfirmApply ==
  /\ formDialog.asking
  /\ Sent(formDraft)
  /\ staged' = formDraft
  /\ formDialog' = [formDialog EXCEPT !.asking = FALSE, !.applying = TRUE]
  /\ UNCHANGED <<formDraft, formRows, formServer, capture, secrets, formSpent>>

\* Discard goes back to what was staged, a second time to what the host has.
DiscardDraft ==
  /\ Typing /\ formDialog.mode = "edit"
  /\ \/ formDraft # staged /\ Written(staged) /\ UNCHANGED staged
     \/ formDraft = staged /\ staged # formServer /\ Written(formServer) /\ staged' = formServer
  /\ Edited
  /\ UNCHANGED <<formDialog, formServer, capture, secrets, sends>>

-----------------------------------------------------------------------------
(* Snapshots.                                                              *)

\* A snapshot is adopted while nothing is local, and when it shows what was
\* applied; a draft that is edited stays.
AdoptsSnapshot(config) == formDraft = staged /\ (staged = formServer \/ staged = config)

Snapshot(config) ==
  /\ formServer' = config
  /\ IF formDialog.mode = "edit" /\ AdoptsSnapshot(config)
     THEN Written(config) /\ staged' = config
     ELSE UNCHANGED <<formDraft, formRows, staged>>
  /\ UNCHANGED <<capture, secrets>>

\* The apply is done, refused, or done in part.
ApplyEnds ==
  /\ formDialog.applying
  /\ formDialog' = [formDialog EXCEPT !.applying = FALSE]
  /\ \E config \in {sends.config, formServer, [sends.config EXCEPT !.env = formServer.env]} : Snapshot(config)
  /\ sends' = [sends EXCEPT !.config = NoForm]
  /\ UNCHANGED formSpent

SnapshotArrives ==
  /\ formSpent.snapshots < MaxSnapshots
  /\ formSpent' = [formSpent EXCEPT !.snapshots = @ + 1]
  /\ \E config \in FormConfigs \ {formServer} : Snapshot(config)
  /\ UNCHANGED <<formDialog, sends>>

FormNext ==
  \/ OpenForm \/ CloseForm
  \/ EditEnv \/ EditSecretEnv \/ AskSecret \/ SecretCreated \/ SecretRefused \/ SecretRemoved
  \/ StartAddMount \/ EndAddMount \/ EditMount \/ ApplyPaths \/ EditPorts
  \/ CreateContainer \/ AskApply \/ CancelApply \/ ConfirmApply \/ DiscardDraft
  \/ ApplyEnds \/ SnapshotArrives

FormSpec == FormInit /\ [][FormNext]_formVars

-----------------------------------------------------------------------------
FormTypeOK ==
  /\ {formDraft, formServer, staged} \subseteq FormDrafts
  /\ {capture, sends.config} \subseteq FormDrafts \cup {NoForm} /\ sends.turn \in BOOLEAN
  /\ formDialog \in [mode : {"create", "edit"}, open : BOOLEAN, asking : BOOLEAN, applying : BOOLEAN]
  /\ formRows.env \in Seq([name : VarNames \cup {""}, value : EnvValues])
  /\ formRows.secretEnv \in Seq([name : VarNames \cup {""}, value : FormSecrets])
  /\ formRows.at \in 0..Len(formRows.secretEnv)
  /\ secrets \in [listed : SUBSET FormSecrets, asked : FormSecrets \cup {""}, pending : FormSecrets \cup {""}]
  /\ formSpent \in [edits : 0..MaxEdits, snapshots : 0..MaxSnapshots]

\* The rows of an editor are exactly the variables of a record.
Shown(rows, record) ==
  /\ \A i \in DOMAIN rows : rows[i].name \in DOMAIN record
  /\ \A i \in DOMAIN rows : record[rows[i].name] = rows[i].value
  /\ \A n \in DOMAIN record : \E i \in DOMAIN rows : rows[i].name = n

\* What Create or Apply sends is what the rows show at that moment, whatever
\* wrote the draft: every variable once over both groups, none unnamed, and no
\* destination the host refuses.
SendsAsShown ==
  [][sends'.turn # sends.turn =>
       LET config == sends'.config
       IN /\ Shown(formRows.env, config.env)
          /\ Shown(formRows.secretEnv, config.secretEnv)
          /\ DOMAIN config.env \cap DOMAIN config.secretEnv = {}
          /\ \A i \in DOMAIN config.mounts : config.mounts[i] = "ok"]_formVars
=============================================================================
