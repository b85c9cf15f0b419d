-------------------------- MODULE WorkspaceBinding --------------------------
(***************************************************************************)
(* How the plugin finds the guest agent a call is for                      *)
(* (src/src/workspace-binding.ts, src/src/guest-rpc.ts).                   *)
(*                                                                         *)
(* A binding is a guest client and the credential the agent accepts.  It   *)
(* is cached as the promise that resolves it, so that overlapping calls    *)
(* share one resolution.  A call takes the cached promise or creates it,   *)
(* pings the agent with the credential, repairs what it can (a rotated     *)
(* credential, a dead entry, an agent that never answers), and then makes  *)
(* its guest call.  Control calls change containers meanwhile and drop     *)
(* the entries they made stale.                                            *)
(*                                                                         *)
(* A generation is one creation of a container: it mints a new credential, *)
(* so a row of another generation is rejected by the agent.                *)
(***************************************************************************)
EXTENDS Naturals, Sequences

CONSTANTS
  BindingCalls,    \* calls that need a binding, numbered as they start
  Nobody,          \* none of them
  BindingKeys,     \* the entries they use: "session", "named", "ptc"
  MaxGeneration,   \* creations of one container, at least 2
  MaxDisturbances  \* control calls, outages, failed requests, disposals

ASSUME BindingAssumption ==
  /\ BindingCalls \subseteq Nat /\ Nobody \notin BindingCalls
  /\ BindingKeys \subseteq {"session", "named", "ptc"}
  /\ MaxGeneration \in Nat \ {0, 1} /\ MaxDisturbances \in Nat

VARIABLES
  world,        \* container -> its generation, its mount set, its health
  resolution,   \* call -> the pending promise it created, if any
  slot,         \* key -> the promise cached for it
  call,         \* the calls
  mutation,     \* the control call whose reply is under way, and the replies lost
  disturbances  \* so far

bindingVars == <<world, resolution, slot, call, mutation, disturbances>>

AllKeys == {"session", "named", "ptc"}
Closed == 0                               \* the generation of a row whose channel was closed

\* The session and the named entry of a default container share it.
Home(key) == IF key = "ptc" THEN "ptc" ELSE "default"
Homes == {Home(key) : key \in BindingKeys}

Rows == [gen : 0..MaxGeneration, mounts : 0..MaxDisturbances]
NoRow == [gen |-> Closed, mounts |-> 0]
RowOf(home) == [gen |-> world[home].gen, mounts |-> world[home].mounts]

\* How a promise may have ended: with a row, with an error, with NOT_FOUND.
Outcomes == {"kept", "failed", "absent"}

(***************************************************************************)
(* What a call does when the agent of its binding cannot be made ready:    *)
(* "again" resolves once more, "recover" recreates the container first.    *)
(***************************************************************************)
RepairsNoRecover(key) == <<"again">>
Repairs(key) ==
  CASE key = "session" -> <<"again", "recover">>
    [] key = "named"   -> <<"recover">>
    [] key = "ptc"     -> <<"again">>

\* The repairs left after one of them.
Left(plan) == Tail(plan)

Ends == {"done", "failed", "missing", "poisoned"}
BindingPCs == {"idle", "waiting", "resumed", "ping", "recover", "use"} \cup Ends
Open(c) == call[c].pc \notin Ends \cup {"idle"}
MutationKinds == {"recreate", "mounts", "remove"}

\* wait and got: the promise awaited, and what it gave; why: the await's place;
\* hit: something was disturbed while the call ran; born: the generation of its
\* container when it started, or that it created itself since (both are history).
IdleCall ==
  [pc |-> "idle", key |-> "session", plan |-> <<>>, wait |-> Nobody, got |-> "none",
   why |-> "resolve", row |-> NoRow, fresh |-> FALSE, hit |-> FALSE, born |-> 0, effects |-> 0]

Settled == [at |-> "none", key |-> "session", tidy |-> TRUE, row |-> NoRow]
Empty == [at |-> "none", of |-> Nobody, row |-> NoRow]

\* The cache is cold, or it holds rows of a former generation.
BindingInit ==
  /\ world = [h \in Homes |-> [gen |-> 2, mounts |-> 0, health |-> "up"]]
  /\ resolution = [c \in BindingCalls |-> Settled]
  /\ \/ slot = [key \in BindingKeys |-> Empty]
     \/ slot = [key \in BindingKeys |-> [at |-> "kept", of |-> Nobody, row |-> [gen |-> 1, mounts |-> 0]]]
  /\ call = [c \in BindingCalls |-> IdleCall]
  /\ mutation = [home |-> "default", kind |-> "none", lost |-> {}]
  /\ disturbances = 0

\* c ends; a poisoned end is one by a failed resolution that stayed cached.
End(c, r, pc) == call' = [call EXCEPT ![c] =
                   [IdleCall EXCEPT !.pc = pc, !.key = r.key, !.hit = r.hit, !.effects = r.effects]]

\* Every call under way saw the containers or the plugin disturbed.
Disturbed(calls) == [c \in BindingCalls |-> IF Open(c) THEN [calls[c] EXCEPT !.hit = TRUE] ELSE calls[c]]
Disturb == disturbances < MaxDisturbances /\ disturbances' = disturbances + 1

(***************************************************************************)
(* Resolution.  A cached promise is shared; without one a new promise is   *)
(* cached.  A tidy one removes its own entry when it fails; the one a      *)
(* refresh of a container entry caches is not tidy.                        *)
(***************************************************************************)
Ask(c, r, why, slots) ==
  LET cached == slots[r.key] IN
  CASE cached.at = "none" ->
         /\ resolution' = [resolution EXCEPT ![c] =
              [at |-> "asked", key |-> r.key, tidy |-> why = "resolve" \/ r.key = "session", row |-> NoRow]]
         /\ slot' = [slots EXCEPT ![r.key] = [at |-> "pending", of |-> c, row |-> NoRow]]
         /\ call' = [call EXCEPT ![c] = [r EXCEPT !.pc = "waiting", !.why = why, !.wait = c]]
    [] cached.at = "pending" ->
         /\ call' = [call EXCEPT ![c] = [r EXCEPT !.pc = "waiting", !.why = why, !.wait = cached.of]]
         /\ slot' = slots
         /\ UNCHANGED resolution
    [] cached.at = "kept" ->
         /\ call' = [call EXCEPT ![c] = [r EXCEPT !.pc = "ping", !.row = cached.row]]
         /\ slot' = slots
         /\ UNCHANGED resolution
    [] OTHER ->                               \* a rejected promise stayed cached
         /\ End(c, r, "poisoned")
         /\ slot' = slots
         /\ UNCHANGED resolution

Without(key) == [slot EXCEPT ![key] = Empty]

StartCall(c, key) ==
  /\ call[c].pc = "idle" /\ \A d \in BindingCalls : d < c => call[d].pc # "idle"
  /\ Ask(c, [IdleCall EXCEPT !.key = key, !.plan = Repairs(key), !.hit = mutation.kind \in MutationKinds,
                              !.born = world[Home(key)].gen], "resolve", slot)
  /\ UNCHANGED <<world, mutation, disturbances>>

(***************************************************************************)
(* The orchestrator's side of a resolution: describe and create the        *)
(* workspace (the session entry), then ensure the container, which         *)
(* recreates a stopped one.  A hung agent goes unnoticed here.             *)
(***************************************************************************)
Creates(p) ==
  \/ world[Home(p.key)].health = "stopped"
  \/ world[Home(p.key)].health = "absent" /\ p.key # "named"

Answer(c) ==
  LET p == resolution[c]
      h == Home(p.key)
  IN
  /\ p.at = "asked"
  /\ \/ /\ Creates(p) /\ world[h].gen < MaxGeneration
        /\ world' = [world EXCEPT ![h].gen = @ + 1, ![h].health = "up"]
        /\ resolution' = [resolution EXCEPT ![c].at = "kept", ![c].row = [RowOf(h) EXCEPT !.gen = @ + 1]]
     \/ /\ ~Creates(p)
        /\ resolution' = [resolution EXCEPT
             ![c].at = IF world[h].health = "absent" THEN "absent" ELSE "kept", ![c].row = RowOf(h)]
        /\ UNCHANGED world
  /\ UNCHANGED <<slot, call, mutation, disturbances>>

\* The promise of c settles: who awaits it gets the outcome, and a tidy one
\* that failed leaves the cache if it is still the one cached.
Deliver(c, outcome, calls) ==
  LET p == resolution[c]
      cached == slot[p.key].at = "pending" /\ slot[p.key].of = c
  IN
  /\ call' = [d \in BindingCalls |->
       IF call[d].pc = "waiting" /\ call[d].wait = c
         THEN [calls[d] EXCEPT !.pc = "resumed", !.wait = Nobody, !.got = outcome,
                 !.row = [gen |-> p.row.gen,
                          mounts |-> IF @.gen # Closed /\ calls[d].why # "resolve" THEN @.mounts ELSE p.row.mounts]]
         ELSE calls[d]]
  /\ slot' = IF ~cached THEN slot
             ELSE IF outcome # "kept" /\ p.tidy THEN Without(p.key)
             ELSE [slot EXCEPT ![p.key] = [at |-> outcome, of |-> Nobody, row |-> p.row]]
  /\ resolution' = [resolution EXCEPT ![c] = Settled]

Settle(c) ==
  /\ resolution[c].at \in {"kept", "absent"}
  /\ Deliver(c, resolution[c].at, call)
  /\ UNCHANGED <<world, mutation, disturbances>>

\* The request or its reply fails, or the caller whose signal it carries aborts.
ResolutionFails(c) ==
  /\ resolution[c].at # "none"
  /\ Disturb
  /\ Deliver(c, "failed", Disturbed(call))
  /\ UNCHANGED <<world, mutation>>

(***************************************************************************)
(* Making the agent ready, and repairing it.                               *)
(***************************************************************************)
Reach(row, h) ==
  IF row.gen = Closed \/ world[h].health # "up" THEN "unreachable"
  ELSE IF row.gen # world[h].gen THEN "rejected"
  ELSE "accepted"

\* ensureAgentReady threw: the entry goes, and the next repair begins.
NotReady(c) ==
  LET r == call[c] IN
  CASE r.plan = <<>> -> End(c, r, "failed") /\ UNCHANGED <<resolution, slot>>
    [] r.plan # <<>> /\ Head(r.plan) = "recover" ->
         /\ call' = [call EXCEPT ![c].pc = "recover"]
         /\ slot' = IF r.key = "session" THEN slot ELSE Without(r.key)
         /\ UNCHANGED resolution
    [] OTHER -> Ask(c, [r EXCEPT !.plan = Left(@), !.fresh = FALSE], "resolve", Without(r.key))

\* binding.refresh(): drop or replace the entry, and resolve anew.  A container
\* call keeps the mounts its entry had.
Refresh(c, why) == Ask(c, [call[c] EXCEPT !.fresh = TRUE], why, Without(call[c].key))

Resume(c) ==
  LET r == [call[c] EXCEPT !.got = "none"] IN
  /\ call[c].pc = "resumed"
  /\ IF call[c].got = "kept"
       THEN /\ call' = [call EXCEPT ![c] = [r EXCEPT !.pc = IF r.why = "reauth" THEN "use" ELSE "ping"]]
            /\ UNCHANGED <<resolution, slot>>
       ELSE IF r.why = "refresh" THEN NotReady(c)
       ELSE /\ End(c, r, IF call[c].got = "absent" THEN "missing" ELSE "failed")
            /\ UNCHANGED <<resolution, slot>>
  /\ UNCHANGED <<world, mutation, disturbances>>

Ping(c) ==
  LET r == call[c]
      reached == Reach(r.row, Home(r.key))
  IN
  /\ r.pc = "ping"
  /\ CASE reached = "accepted" ->
            /\ call' = [call EXCEPT ![c].pc = "use", ![c].fresh = FALSE]
            /\ UNCHANGED <<resolution, slot>>
       [] reached = "rejected" /\ ~r.fresh -> Refresh(c, "refresh")
       [] OTHER -> NotReady(c)
  /\ UNCHANGED <<world, mutation, disturbances>>

\* recreateContainer, best effort: its success drops the named entry.
Recover(c) ==
  LET rest == [call[c] EXCEPT !.plan = Left(@), !.fresh = FALSE]
      h == Home(rest.key)
      kept == IF rest.key = "session" THEN Without("session") ELSE slot
  IN
  /\ call[c].pc = "recover"
  /\ \/ /\ world[h].health # "absent" /\ world[h].gen < MaxGeneration
        /\ world' = [world EXCEPT ![h].gen = @ + 1, ![h].health = "up"]
        /\ Ask(c, [rest EXCEPT !.born = world[h].gen + 1], "resolve",
               [key \in BindingKeys |-> IF key = "named" THEN Empty ELSE kept[key]])
        /\ UNCHANGED disturbances
     \/ /\ IF world[h].health = "absent" THEN UNCHANGED disturbances ELSE Disturb
        /\ Ask(c, [rest EXCEPT !.hit = TRUE], "resolve", kept)
        /\ UNCHANGED world
  /\ UNCHANGED mutation

(***************************************************************************)
(* The guest call (withGuestAuth): a rejected credential is refreshed once *)
(* and the call repeated; any other failure is the caller's.               *)
(***************************************************************************)
RepeatLostReply(c, r) ==
  IF r.fresh THEN End(c, r, "failed") /\ UNCHANGED <<resolution, slot>>
  ELSE Ask(c, [r EXCEPT !.fresh = TRUE], "reauth", Without(r.key))
LostReply(c, r) == End(c, r, "failed") /\ UNCHANGED <<resolution, slot>>

Use(c) ==
  LET r == call[c]
      reached == Reach(r.row, Home(r.key))
  IN
  /\ r.pc = "use"
  /\ \/ /\ reached = "accepted"
        /\ End(c, [r EXCEPT !.effects = @ + 1], "done")
        /\ UNCHANGED <<resolution, slot, disturbances>>
     \/ /\ reached = "accepted" /\ Disturb             \* done there, the reply lost
        /\ LostReply(c, [r EXCEPT !.effects = @ + 1, !.hit = TRUE])
     \/ /\ reached = "rejected" /\ ~r.fresh
        /\ Refresh(c, "reauth")
        /\ UNCHANGED disturbances
     \/ /\ reached = "unreachable" \/ (reached = "rejected" /\ r.fresh)
        /\ End(c, r, "failed")
        /\ UNCHANGED <<resolution, slot, disturbances>>
  /\ UNCHANGED <<world, mutation>>

(***************************************************************************)
(* Control calls of the plugin's tools and page.  The orchestrator acts,   *)
(* then the reply arrives and the entries it made stale are dropped.       *)
(***************************************************************************)
Mutate(h, kind) ==
  /\ mutation.kind \notin MutationKinds
  /\ world[h].health # "absent" /\ (h = "ptc" => kind = "remove")
  /\ kind # "remove" => world[h].gen < MaxGeneration
  /\ Disturb
  /\ world' = [world EXCEPT ![h] =
       IF kind = "remove" THEN [@ EXCEPT !.health = "absent"]
       ELSE [gen |-> @.gen + 1, mounts |-> @.mounts + IF kind = "mounts" THEN 1 ELSE 0, health |-> "up"]]
  /\ mutation' = [mutation EXCEPT !.home = h, !.kind = kind]
  /\ call' = Disturbed(call)
  /\ UNCHANGED <<resolution, slot>>

\* The entries a successful control call drops: the container's, never the
\* session's, whose staleness a ping finds out.
ForgottenNever(h) == {}
Forgotten(h) == {key \in BindingKeys : Home(key) = h /\ key # "session"}

MutationReplied ==
  /\ mutation.kind \in MutationKinds
  /\ slot' = [key \in BindingKeys |-> IF key \in Forgotten(mutation.home) THEN Empty ELSE slot[key]]
  /\ mutation' = [mutation EXCEPT !.kind = "none", !.lost = @ \ {mutation.home}]
  /\ call' = Disturbed(call)
  /\ UNCHANGED <<world, resolution, disturbances>>

\* The reply is lost, or its caller aborts: nothing is dropped.  lost is history:
\* the containers whose mounts changed so, and whose entries stay.
MutationLost ==
  /\ mutation.kind \in MutationKinds
  /\ mutation' = [mutation EXCEPT !.kind = "none",
                                  !.lost = IF mutation.kind = "mounts" THEN @ \cup {mutation.home} ELSE @]
  /\ call' = Disturbed(call)
  /\ UNCHANGED <<world, resolution, slot, disturbances>>

(***************************************************************************)
(* What happens to containers and to the plugin.                           *)
(***************************************************************************)
Outage(h, health) ==
  /\ world[h].health = "up"
  /\ Disturb
  /\ world' = [world EXCEPT ![h].health = health]
  /\ call' = Disturbed(call)
  /\ UNCHANGED <<resolution, slot, mutation>>

\* dispose: both caches are cleared and every channel is closed.
DisposeBindings ==
  /\ Disturb
  /\ slot' = [key \in BindingKeys |-> Empty]
  /\ call' = [c \in BindingCalls |-> [Disturbed(call)[c] EXCEPT !.row.gen = Closed]]
  /\ UNCHANGED <<world, resolution, mutation>>

BindingStep(c) == Resume(c) \/ Ping(c) \/ Recover(c) \/ Use(c)
PromiseStep(c) == Answer(c) \/ Settle(c)

BindingNext ==
  \/ \E c \in BindingCalls, key \in BindingKeys : StartCall(c, key)
  \/ \E c \in BindingCalls : BindingStep(c) \/ PromiseStep(c) \/ ResolutionFails(c)
  \/ \E h \in Homes, kind \in MutationKinds : Mutate(h, kind)
  \/ MutationReplied \/ MutationLost
  \/ \E h \in Homes, health \in {"stopped", "hung"} : Outage(h, health)
  \/ DisposeBindings

BindingSpec == BindingInit /\ [][BindingNext]_bindingVars

(***************************************************************************)
(* Properties                                                              *)
(***************************************************************************)

\* Shapes of the plugin's and the orchestrator's state.
BindingTypeOK ==
  /\ world \in [Homes -> [gen : 1..MaxGeneration, mounts : 0..MaxDisturbances,
                          health : {"up", "hung", "stopped", "absent"}]]
  /\ resolution \in [BindingCalls ->
       [at : {"none", "asked", "kept", "absent"}, key : AllKeys, tidy : BOOLEAN, row : Rows]]
  /\ slot \in [BindingKeys -> [at : {"none", "pending"} \cup Outcomes, of : BindingCalls \cup {Nobody}, row : Rows]]
  /\ call \in [BindingCalls ->
       [pc : BindingPCs, key : AllKeys, plan : Seq({"again", "recover"}),
        wait : BindingCalls \cup {Nobody}, got : Outcomes \cup {"none"},
        why : {"resolve", "refresh", "reauth"}, row : Rows, fresh : BOOLEAN, hit : BOOLEAN,
        born : 0..MaxGeneration, effects : Nat]]
  /\ mutation \in [home : Homes \cup {"default"}, kind : MutationKinds \cup {"none"}, lost : SUBSET Homes]
  /\ disturbances \in 0..MaxDisturbances

\* A call fails only by what happened while it ran (a fault, an outage, a
\* control call, a disposal).  Whatever it finds is repaired: a dead entry, a
\* credential that rotated, a container that stopped, a hung agent, also when
\* another call recreates the same container meanwhile.  Three exceptions: a
\* container that others recreate twice while the call runs, because a credential
\* is refreshed once; a hung agent of the PTC container, which nobody may recreate;
\* and a failed resolution that a refresh of a container entry left in the cache
\* (it ends its callers as "poisoned").
NoSpuriousFailure ==
  [][\A c \in BindingCalls :
       call[c].pc # "failed" /\ call'[c].pc = "failed" =>
         \/ call'[c].hit
         \/ world[Home(call[c].key)].gen >= call[c].born + 2
         \/ call[c].key = "ptc" /\ world["ptc"].health = "hung"]_bindingVars

\* A container call goes by the mounts the container has: an entry does not
\* outlive a change made through the plugin, however the reply of the change
\* is ordered with the resolutions and refreshes of other calls.  (After a lost
\* reply the calls that find the rotated credential still have the old mounts,
\* until a control call for the container is answered.)
ReturnsCurrentMounts ==
  \A c \in BindingCalls :
    call[c].pc = "use" /\ call[c].key # "session" /\ ~call[c].hit /\ Home(call[c].key) \notin mutation.lost =>
      call[c].row.mounts = world[Home(call[c].key)].mounts

\* The repetition after a rejected credential never repeats an effect.
EffectOnce == \A c \in BindingCalls : call[c].effects <= 1

\* Every call ends, however often it resolves, refreshes and repairs, and
\* whoever's promise it awaits.
BindingFairness == \A c \in BindingCalls : WF_bindingVars(BindingStep(c) \/ PromiseStep(c))
BindingEnds == []<>(\A c \in BindingCalls : ~Open(c))
=============================================================================
