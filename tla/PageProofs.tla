----------------------------- MODULE PageProofs -----------------------------
(***************************************************************************)
(* What holds of the page.  Of CardPanel for any number of calls and       *)
(* failures: its types, the card never goes back to an older listing, and  *)
(* an apply that nobody interferes with leaves what was edited.  Of        *)
(* MountDialog for any directories, typings and volumes: its types, no     *)
(* late answer adds what the user left, and nothing that blocks a control  *)
(* is left behind.  Of TemplatePopup for any templates, boxes and builds:  *)
(* its types, what the editor shows is the template that was chosen, and   *)
(* its image was there.  Of ContainerForm for any names, values, edits and *)
(* snapshots: its types, and what is sent is what the rows show.           *)
(***************************************************************************)
EXTENDS CardPanel, MountDialog, TemplatePopup, ContainerForm, FiniteSetTheorems, SequenceTheorems,
        WellFoundedInduction, TLAPS

-----------------------------------------------------------------------------
(* CardPanel.                                                              *)

\* What the proof needs of the shape of the state.
IsCall(x) ==
  x \in [pc : CallPC, kind : {x.kind}, gen : Nat, step : {x.step}, plan : {x.plan}, next : {x.next},
         failed : {x.failed}, clean : {x.clean}, applied : {x.applied},
         carries : [version : Nat, config : {x.carries.config}]]
IsListing(x) == x \in [version : Nat, config : {x.config}]
IsPanel(x) ==
  x \in [version : Nat, config : {x.config}, generation : Nat, toast : {x.toast}, notice : {x.notice},
         ready : {x.ready}]
Shaped ==
  /\ IsListing(host) /\ IsPanel(panel)
  /\ DOMAIN cardCall = CardCalls /\ cardCall = [c \in DOMAIN cardCall |-> cardCall[c]]
  /\ \A c \in CardCalls : IsCall(cardCall[c])

\* The listing on its way to the call that may still show it is not older than
\* what is shown; there is one such call, for a request takes a new generation.
\* A reload is one request, so its failure ends it.
ListingsOrdered ==
  /\ panel.version <= host.version
  /\ \A c \in CardCalls : cardCall[c].gen <= panel.generation
  /\ \A c, d \in CardCalls : InFlight(c) /\ InFlight(d) /\ Current(c) /\ Current(d) => c = d
  /\ \A c \in CardCalls : cardCall[c].pc = "answer" =>
       /\ cardCall[c].carries.version <= host.version
       /\ Current(c) => panel.version <= cardCall[c].carries.version
  /\ \A c \in CardCalls : cardCall[c].kind = "reload" => cardCall[c].plan = {}

CardInv == Shaped /\ ListingsOrdered

-----------------------------------------------------------------------------
(* A call's record after the updates of the steps.                         *)

LEMMA CallParts ==
  ASSUME NEW x, IsCall(x)
  PROVE  /\ x.pc \in CallPC /\ x.gen \in Nat /\ x.carries.version \in Nat /\ IsListing(x.carries)
         /\ x = [pc |-> x.pc, kind |-> x.kind, gen |-> x.gen, step |-> x.step, plan |-> x.plan, next |-> x.next,
                 failed |-> x.failed, clean |-> x.clean, applied |-> x.applied, carries |-> x.carries]
BY DEF IsCall, IsListing

\* Only the call of a step moves; CardDisturbed touches no part that counts.
OtherCalls(c) == \A d \in CardCalls \ {c} :
  /\ IsCall(cardCall'[d])
  /\ cardCall'[d].pc = cardCall[d].pc /\ cardCall'[d].gen = cardCall[d].gen
  /\ cardCall'[d].carries = cardCall[d].carries
  /\ cardCall'[d].kind = cardCall[d].kind /\ cardCall'[d].plan = cardCall[d].plan

LEMMA Replaced ==
  ASSUME Shaped, NEW c \in CardCalls, NEW e, IsCall(e), cardCall' = [cardCall EXCEPT ![c] = e]
  PROVE  /\ DOMAIN cardCall' = CardCalls /\ cardCall' = [d \in DOMAIN cardCall' |-> cardCall'[d]]
         /\ cardCall'[c] = e /\ OtherCalls(c)
BY DEF Shaped, OtherCalls

LEMMA OnlyDisturbed ==
  ASSUME Shaped, NEW others, NEW calls, calls = CardDisturbed(others)
  PROVE  /\ DOMAIN calls = CardCalls /\ calls = [d \in DOMAIN calls |-> calls[d]]
         /\ \A d \in CardCalls : /\ IsCall(calls[d]) /\ calls[d].pc = cardCall[d].pc
                                 /\ calls[d].gen = cardCall[d].gen /\ calls[d].carries = cardCall[d].carries
                                 /\ calls[d].kind = cardCall[d].kind /\ calls[d].plan = cardCall[d].plan
<1>1. ASSUME NEW d \in CardCalls
      PROVE  /\ IsCall(calls[d]) /\ calls[d].pc = cardCall[d].pc
             /\ calls[d].gen = cardCall[d].gen /\ calls[d].carries = cardCall[d].carries
             /\ calls[d].kind = cardCall[d].kind /\ calls[d].plan = cardCall[d].plan
  <2>1. IsCall(cardCall[d]) BY DEF Shaped
  <2>2. calls[d] = cardCall[d] \/ calls[d] = [cardCall[d] EXCEPT !.clean = FALSE]
    BY DEF CardDisturbed
  <2>3. CASE calls[d] = cardCall[d] BY <2>1, <2>3
  <2>4. CASE calls[d] = [cardCall[d] EXCEPT !.clean = FALSE]
    BY <2>1, <2>4 DEF IsCall
  <2> QED BY <2>2, <2>3, <2>4
<1> QED BY <1>1 DEF CardDisturbed

LEMMA OnwardMoves ==
  ASSUME CardInv, NEW c \in CardCalls, NEW x, IsCall(x), x.plan = cardCall[c].plan, x.kind = cardCall[c].kind, NEW ok,
         cardCall' = Onward(c, x, ok)
  PROVE  /\ DOMAIN cardCall' = CardCalls /\ cardCall' = [d \in DOMAIN cardCall' |-> cardCall'[d]]
         /\ OtherCalls(c) /\ IsCall(cardCall'[c]) /\ Generation(c) \in Nat
         /\ cardCall'[c].kind = "reload" => cardCall'[c].plan = {}
         /\ \/ cardCall'[c].pc = "done" /\ Generation(c) = panel.generation
               /\ cardCall'[c].gen = 0
            \/ cardCall'[c].pc = "command" /\ Generation(c) = panel.generation + 1
               /\ cardCall'[c].gen = panel.generation + 1
<1>0. Shaped BY DEF CardInv
<1>1. PICK ended : ended = [x EXCEPT !.applied = @ /\ ok, !.carries = NoListing] OBVIOUS
<1>2. IsListing(NoListing) BY DEF IsListing, NoListing
<1>3. IsCall(ended) /\ ended.plan = x.plan /\ ended.kind = x.kind
  <2>1. PICK good : good = (x.applied /\ ok) OBVIOUS
  <2>2. ended = [x EXCEPT !.applied = good, !.carries = NoListing] BY <1>1, <2>1
  <2> QED BY <1>2, <2>2 DEF IsCall, IsListing
<1>4. panel.generation \in Nat BY DEF CardInv, Shaped, IsPanel
<1>5. Generation(c) = panel.generation + (IF x.plan = {} THEN 0 ELSE 1) BY DEF Generation
<1>6. CASE x.plan = {}
  <2>1. PICK e : e = [ended EXCEPT !.pc = "done", !.step = NoStep, !.gen = 0] OBVIOUS
  <2>2. IsCall(e) /\ e.pc = "done" /\ e.gen = 0 /\ e.plan = ended.plan BY <1>3, <2>1 DEF IsCall, CallPC
  <2>3. cardCall' = [cardCall EXCEPT ![c] = e] BY <1>1, <1>6, <2>1 DEF Onward
  <2>4. /\ DOMAIN cardCall' = CardCalls /\ cardCall' = [d \in DOMAIN cardCall' |-> cardCall'[d]]
        /\ cardCall'[c] = e /\ OtherCalls(c)
    BY <1>0, <2>2, <2>3, Replaced
  <2> QED BY <1>3, <1>4, <1>5, <1>6, <2>2, <2>4
<1>7. CASE x.plan # {}
  <2>0. PICK step, plan, gen : /\ step = First(x.plan) /\ plan = x.plan \ {First(x.plan)}
                               /\ gen = panel.generation + 1
    OBVIOUS
  <2>1. PICK e : e = [ended EXCEPT !.pc = "command", !.gen = gen, !.step = step, !.plan = plan] OBVIOUS
  <2>2. IsCall(e) /\ e.pc = "command" /\ e.gen = gen /\ e.kind # "reload"
    <3>1. gen \in Nat BY <1>4, <2>0
    <3>2. ended.kind # "reload" BY <1>3, <1>7 DEF CardInv, ListingsOrdered
    <3> QED BY <1>3, <2>1, <3>1, <3>2 DEF IsCall, CallPC
  <2>3. cardCall' = [cardCall EXCEPT ![c] = e]
    BY <1>1, <1>3, <1>7, <2>0, <2>1 DEF Onward
  <2>4. /\ DOMAIN cardCall' = CardCalls /\ cardCall' = [d \in DOMAIN cardCall' |-> cardCall'[d]]
        /\ cardCall'[c] = e /\ OtherCalls(c)
    BY <1>0, <2>2, <2>3, Replaced
  <2> QED BY <1>4, <1>5, <1>7, <2>0, <2>2, <2>4
<1> QED BY <1>6, <1>7

-----------------------------------------------------------------------------
(* A step of one call.                                                     *)

\* What a step of call c does to the generation and to what is shown.
Moves(c) ==
  /\ \/ /\ panel'.generation = panel.generation + 1
        /\ cardCall'[c].gen = panel.generation + 1
     \/ /\ panel'.generation = panel.generation
        /\ cardCall'[c].gen = 0 /\ cardCall'[c].pc = "done"
     \/ /\ panel'.generation = panel.generation
        /\ cardCall'[c].gen = cardCall[c].gen /\ InFlight(c)
  /\ cardCall'[c].pc = "answer" => cardCall'[c].carries.version = host.version
  /\ cardCall'[c].kind = "reload" => cardCall'[c].plan = {}
  /\ \/ panel'.version = panel.version
     \/ /\ cardCall[c].pc = "answer" /\ Current(c)
        /\ panel'.version = cardCall[c].carries.version
        /\ cardCall'[c].pc # "answer"

LEMMA MoveStep ==
  ASSUME CardInv, NEW c \in CardCalls, OtherCalls(c), IsCall(cardCall'[c]),
         DOMAIN cardCall' = CardCalls, cardCall' = [d \in DOMAIN cardCall' |-> cardCall'[d]],
         IsListing(host'), IsPanel(panel'), host'.version >= host.version, Moves(c)
  PROVE  CardInv' /\ panel'.version >= panel.version
<1>1. \A d \in CardCalls : IsCall(cardCall'[d]) BY DEF OtherCalls
<1>2. Shaped' BY <1>1 DEF Shaped, IsListing, IsPanel, IsCall
<1>3. /\ panel.version \in Nat /\ panel.generation \in Nat /\ host.version \in Nat
      /\ panel'.version \in Nat /\ panel'.generation \in Nat /\ host'.version \in Nat
      /\ \A d \in CardCalls : cardCall[d].gen \in Nat /\ cardCall[d].carries.version \in Nat
      /\ \A d \in CardCalls : cardCall'[d].gen \in Nat /\ cardCall'[d].carries.version \in Nat
  BY <1>1, <1>2 DEF CardInv, Shaped, IsListing, IsPanel, IsCall
<1>4. panel'.version >= panel.version /\ panel'.version <= host'.version
  BY <1>3 DEF CardInv, ListingsOrdered, Moves
<1>5. \A d \in CardCalls : cardCall'[d].gen <= panel'.generation
  BY <1>3 DEF CardInv, ListingsOrdered, Moves, OtherCalls
<1>6. \A d \in CardCalls \ {c} : InFlight(d)' /\ Current(d)' => InFlight(d) /\ Current(d) /\ panel'.generation = panel.generation
  BY <1>3 DEF CardInv, ListingsOrdered, Moves, OtherCalls, InFlight, Current
<1>7. InFlight(c)' /\ Current(c)' /\ panel'.generation = panel.generation => InFlight(c) /\ Current(c)
  BY <1>3 DEF Moves, InFlight, Current
<1>8. \A d, e \in CardCalls : InFlight(d)' /\ InFlight(e)' /\ Current(d)' /\ Current(e)' => d = e
  BY <1>6, <1>7 DEF CardInv, ListingsOrdered
<1>9. ASSUME NEW d \in CardCalls, cardCall'[d].pc = "answer"
      PROVE  /\ cardCall'[d].carries.version <= host'.version
             /\ Current(d)' => panel'.version <= cardCall'[d].carries.version
  <2>1. CASE d = c
    BY <1>3, <1>9, <2>1 DEF CardInv, ListingsOrdered, Moves
  <2>2. CASE d # c
    <3>1. cardCall[d].pc = "answer" /\ cardCall'[d].carries = cardCall[d].carries
      BY <1>9, <2>2 DEF OtherCalls
    <3>2. cardCall[d].carries.version <= host.version /\ (Current(d) => panel.version <= cardCall[d].carries.version)
      BY <3>1 DEF CardInv, ListingsOrdered
    <3>3. ASSUME Current(d)' PROVE panel'.version = panel.version
      <4>1. InFlight(d)' BY <1>9 DEF InFlight
      <4>2. InFlight(d) /\ Current(d) BY <1>6, <2>2, <3>3, <4>1
      <4>3. ~(cardCall[c].pc = "answer" /\ Current(c)) BY <2>2, <4>2 DEF CardInv, ListingsOrdered, InFlight
      <4> QED BY <4>3 DEF Moves
    <3>4. Current(d)' => Current(d) BY <1>6, <1>9, <2>2 DEF InFlight
    <3> QED BY <1>3, <3>1, <3>2, <3>3, <3>4
  <2> QED BY <2>1, <2>2
<1>10. \A d \in CardCalls : cardCall'[d].kind = "reload" => cardCall'[d].plan = {}
  BY DEF CardInv, ListingsOrdered, Moves, OtherCalls
<1> QED BY <1>2, <1>4, <1>5, <1>8, <1>9, <1>10 DEF CardInv, ListingsOrdered

LEMMA FailMoves ==
  ASSUME CardInv, NEW c \in CardCalls, InFlight(c), cardCall[c].pc # "answer",
         NEW spontaneous \in BOOLEAN, DispatchFails(c, spontaneous), IsListing(host'), host'.version >= host.version
  PROVE  CardInv' /\ panel'.version >= panel.version
<1>1. IsCall(cardCall[c]) /\ IsPanel(panel) BY DEF CardInv, Shaped
<1>2. PICK x : x = [cardCall[c] EXCEPT !.failed = IF spontaneous THEN @ \cup GroupsOf(cardCall[c].step.op) ELSE @] OBVIOUS
<1>3. IsCall(x) /\ x.plan = cardCall[c].plan /\ x.kind = cardCall[c].kind
  <2>1. PICK failed : failed = (IF spontaneous THEN cardCall[c].failed \cup GroupsOf(cardCall[c].step.op)
                                                ELSE cardCall[c].failed) OBVIOUS
  <2>2. x = [cardCall[c] EXCEPT !.failed = failed] BY <1>2, <2>1
  <2> QED BY <1>1, <2>2 DEF IsCall
<1>4. /\ cardCall' = Onward(c, x, FALSE)
      /\ panel' = [panel EXCEPT !.generation = Generation(c), !.toast = IF Current(c) THEN "error" ELSE panel.toast]
  BY <1>2 DEF DispatchFails
<1>5. /\ DOMAIN cardCall' = CardCalls /\ cardCall' = [d \in DOMAIN cardCall' |-> cardCall'[d]]
      /\ OtherCalls(c) /\ IsCall(cardCall'[c]) /\ Generation(c) \in Nat
      /\ cardCall'[c].kind = "reload" => cardCall'[c].plan = {}
      /\ \/ cardCall'[c].pc = "done" /\ Generation(c) = panel.generation
            /\ cardCall'[c].gen = 0
         \/ cardCall'[c].pc = "command" /\ Generation(c) = panel.generation + 1
            /\ cardCall'[c].gen = panel.generation + 1
  BY <1>3, <1>4, OnwardMoves
<1>6. IsPanel(panel') /\ panel'.version = panel.version /\ panel'.generation = Generation(c)
  <2>1. PICK generation, toast : /\ generation = Generation(c)
                                 /\ toast = IF Current(c) THEN "error" ELSE panel.toast OBVIOUS
  <2>2. panel' = [panel EXCEPT !.generation = generation, !.toast = toast] BY <1>4, <2>1
  <2>3. generation \in Nat BY <1>5, <2>1
  <2> QED BY <1>1, <2>1, <2>2, <2>3 DEF IsPanel
<1>7. Moves(c) BY <1>5, <1>6 DEF Moves
<1> QED BY <1>5, <1>6, <1>7, MoveStep

LEMMA StartStep ==
  ASSUME CardInv, NEW c \in CardCalls, Reload(c) \/ Sync(c) \/ Apply(c)
  PROVE  CardInv' /\ panel'.version >= panel.version
<1>1. IsCall(cardCall[c]) /\ IsPanel(panel) /\ Shaped BY DEF CardInv, Shaped
<1>2. PICK gen \in Nat : gen = panel.generation + 1 BY <1>1 DEF IsPanel
<1>3. PICK e : /\ cardCall' = [cardCall EXCEPT ![c] = e]
               /\ IsCall(e) /\ e.gen = gen /\ e.pc # "answer"
               /\ e.kind = "reload" => e.plan = {}
  <2>1. CASE Reload(c)
    <3>1. PICK e : e = [cardCall[c] EXCEPT !.pc = "listing", !.gen = gen] OBVIOUS
    <3>2. IsCall(e) /\ e.gen = gen /\ e.pc = "listing" /\ e.kind = cardCall[c].kind /\ e.plan = cardCall[c].plan
      BY <1>1, <3>1 DEF IsCall, CallPC
    <3>3. cardCall[c].kind = "reload" => cardCall[c].plan = {} BY DEF CardInv, ListingsOrdered
    <3> QED BY <3>3, <1>2, <2>1, <3>1, <3>2 DEF Reload
  <2>2. CASE Sync(c)
    <3>0. PICK step : step = Step("default_env_sync", "", "") OBVIOUS
    <3>1. PICK e : e = [cardCall[c] EXCEPT !.pc = "command", !.kind = "sync", !.gen = gen, !.step = step] OBVIOUS
    <3>2. IsCall(e) /\ e.gen = gen /\ e.pc = "command" /\ e.kind # "reload" BY <1>1, <3>1 DEF IsCall, CallPC
    <3> QED BY <1>2, <2>2, <3>0, <3>1, <3>2 DEF Sync
  <2>3. CASE Apply(c)
    <3>0. PICK step, plan, next, clean :
            /\ step = First(Changes(panel.config, row.draft))
            /\ plan = Changes(panel.config, row.draft) \ {First(Changes(panel.config, row.draft))}
            /\ next = row.draft /\ clean = (panel.config = host.config)
      OBVIOUS
    <3>1. PICK e : e = [cardCall[c] EXCEPT !.pc = "command", !.kind = "apply", !.gen = gen, !.step = step,
                                           !.plan = plan, !.next = next, !.clean = clean] OBVIOUS
    <3>2. IsCall(e) /\ e.gen = gen /\ e.pc = "command" /\ e.kind # "reload" BY <1>1, <3>1 DEF IsCall, CallPC
    <3> QED BY <1>2, <2>3, <3>0, <3>1, <3>2 DEF Apply
  <2> QED BY <2>1, <2>2, <2>3
<1>4. /\ panel' = [panel EXCEPT !.generation = gen] /\ host' = host
  BY <1>1, <1>2 DEF Reload, Sync, Apply, IsPanel
<1>5. IsPanel(panel') /\ panel'.version = panel.version /\ panel'.generation = gen
  BY <1>1, <1>4 DEF IsPanel
<1>6. /\ DOMAIN cardCall' = CardCalls /\ cardCall' = [d \in DOMAIN cardCall' |-> cardCall'[d]]
      /\ cardCall'[c] = e /\ OtherCalls(c)
  BY <1>1, <1>3, Replaced
<1>7. Moves(c) BY <1>2, <1>3, <1>5, <1>6 DEF Moves
<1>8. IsListing(host') /\ host'.version >= host.version BY <1>4 DEF CardInv, Shaped, IsListing
<1> QED BY <1>3, <1>5, <1>6, <1>7, <1>8, MoveStep

LEMMA ChangedHost ==
  ASSUME CardInv, NEW c \in CardCalls, Changed(c)
  PROVE  IsListing(host') /\ host'.version >= host.version
<1>1. IsListing(host) BY DEF CardInv, Shaped
<1>2. PICK config : host' = IF config = host.config THEN host ELSE [version |-> host.version + 1, config |-> config]
  BY DEF Changed
<1> QED BY <1>1, <1>2 DEF IsListing

LEMMA RefusalStep ==
  ASSUME CardInv, NEW c \in CardCalls, CommandRefused(c) \/ CommandFails(c) \/ PathPushFails(c)
  PROVE  CardInv' /\ panel'.version >= panel.version
<1>1. cardCall[c].pc = "command" BY DEF CommandRefused, CommandFails, PathPushFails, Changed
<1>2. IsListing(host') /\ host'.version >= host.version
  <2>1. CASE host' = host BY <2>1 DEF CardInv, Shaped, IsListing
  <2>2. CASE PathPushFails(c) BY <2>2, ChangedHost DEF PathPushFails
  <2> QED BY <2>1, <2>2 DEF CommandRefused, CommandFails
<1>3. DispatchFails(c, FALSE) \/ DispatchFails(c, TRUE)
  BY DEF CommandRefused, CommandFails, PathPushFails
<1> QED BY <1>1, <1>2, <1>3, FailMoves DEF InFlight

LEMMA DoneStep ==
  ASSUME CardInv, NEW c \in CardCalls, CommandDone(c)
  PROVE  CardInv' /\ panel'.version >= panel.version
<1>1. /\ cardCall[c].pc = "command" /\ IsListing(host') /\ host'.version >= host.version
      /\ panel' = panel /\ Shaped /\ InFlight(c)
  BY ChangedHost DEF CommandDone, Changed, CardInv, InFlight
<1>2. PICK calls : /\ calls = cardCall \/ calls = CardDisturbed(CardCalls \ {c})
                   /\ cardCall' = [calls EXCEPT ![c].pc = "listing"]
  BY DEF CommandDone
<1>3. /\ DOMAIN calls = CardCalls /\ calls = [d \in DOMAIN calls |-> calls[d]]
      /\ \A d \in CardCalls : /\ IsCall(calls[d]) /\ calls[d].pc = cardCall[d].pc
                              /\ calls[d].gen = cardCall[d].gen /\ calls[d].carries = cardCall[d].carries
                              /\ calls[d].kind = cardCall[d].kind /\ calls[d].plan = cardCall[d].plan
  <2>1. CASE calls = cardCall BY <1>1, <2>1 DEF Shaped
  <2>2. CASE calls = CardDisturbed(CardCalls \ {c})
    <3>1. PICK others : others = CardCalls \ {c} OBVIOUS
    <3>2. calls = CardDisturbed(others) BY <2>2, <3>1
    <3> QED BY <1>1, <3>2, OnlyDisturbed
  <2> QED BY <1>2, <2>1, <2>2
<1>4. PICK e : e = [calls[c] EXCEPT !.pc = "listing"] OBVIOUS
<1>5. /\ IsCall(e) /\ e.pc = "listing" /\ e.gen = cardCall[c].gen
      /\ e.kind = cardCall[c].kind /\ e.plan = cardCall[c].plan
  BY <1>3, <1>4 DEF IsCall, CallPC
<1>6. cardCall' = [calls EXCEPT ![c] = e] BY <1>2, <1>4
<1>7. /\ DOMAIN cardCall' = CardCalls /\ cardCall' = [d \in DOMAIN cardCall' |-> cardCall'[d]]
      /\ cardCall'[c] = e /\ OtherCalls(c)
  BY <1>3, <1>6 DEF OtherCalls
<1>8. IsPanel(panel') /\ Moves(c) BY <1>1, <1>5, <1>7 DEF Moves, Shaped, CardInv, ListingsOrdered
<1> QED BY <1>1, <1>5, <1>7, <1>8, MoveStep

LEMMA ListStep ==
  ASSUME CardInv, NEW c \in CardCalls, List(c)
  PROVE  CardInv' /\ panel'.version >= panel.version
<1>1. /\ cardCall[c].pc = "listing" /\ host' = host /\ panel' = panel /\ Shaped /\ InFlight(c)
      /\ IsCall(cardCall[c]) /\ IsListing(host) /\ IsPanel(panel)
  BY DEF List, CardInv, Shaped, InFlight
<1>2. PICK carries : carries = [version |-> host.version, config |-> host.config] OBVIOUS
<1>3. PICK e : e = [cardCall[c] EXCEPT !.pc = "answer", !.carries = carries] OBVIOUS
<1>4. /\ IsCall(e) /\ e.pc = "answer" /\ e.gen = cardCall[c].gen /\ e.carries.version = host.version
      /\ e.kind = cardCall[c].kind /\ e.plan = cardCall[c].plan
  BY <1>1, <1>2, <1>3 DEF IsCall, IsListing, CallPC
<1>5. cardCall' = [cardCall EXCEPT ![c] = e] BY <1>2, <1>3 DEF List
<1>6. /\ DOMAIN cardCall' = CardCalls /\ cardCall' = [d \in DOMAIN cardCall' |-> cardCall'[d]]
      /\ cardCall'[c] = e /\ OtherCalls(c)
  BY <1>1, <1>4, <1>5, Replaced
<1>7. Moves(c) BY <1>1, <1>4, <1>6 DEF Moves, CardInv, ListingsOrdered
<1>8. IsListing(host') /\ host'.version >= host.version /\ IsPanel(panel') BY <1>1 DEF IsListing
<1> QED BY <1>4, <1>6, <1>7, <1>8, MoveStep

LEMMA ListFailsStep ==
  ASSUME CardInv, NEW c \in CardCalls, ListFails(c)
  PROVE  CardInv' /\ panel'.version >= panel.version
<1>1. /\ cardCall[c].pc = "listing" /\ host' = host /\ InFlight(c) /\ cardCall[c].pc # "answer"
      /\ IsCall(cardCall[c]) /\ IsListing(host) /\ IsPanel(panel)
  BY DEF ListFails, CardInv, Shaped, InFlight
<1>2. IsListing(host') /\ host'.version >= host.version BY <1>1 DEF IsListing
<1>3. CASE cardCall[c].kind # "reload" BY <1>1, <1>2, <1>3, FailMoves DEF ListFails
<1>4. CASE cardCall[c].kind = "reload"
  <2>1. /\ cardCall' = Onward(c, cardCall[c], FALSE)
        /\ \/ panel' = panel
           \/ panel' = [panel EXCEPT !.toast = "error", !.notice = TRUE, !.ready = FALSE]
    BY <1>4 DEF ListFails
  <2>2. IsPanel(panel') /\ panel'.version = panel.version /\ panel'.generation = panel.generation
    BY <1>1, <2>1 DEF IsPanel
  <2>3. cardCall[c].plan = {} BY <1>4 DEF CardInv, ListingsOrdered
  <2>4. /\ DOMAIN cardCall' = CardCalls /\ cardCall' = [d \in DOMAIN cardCall' |-> cardCall'[d]]
        /\ OtherCalls(c) /\ IsCall(cardCall'[c])
        /\ cardCall'[c].kind = "reload" => cardCall'[c].plan = {}
        /\ cardCall'[c].pc = "done" \/ Generation(c) = panel.generation + 1
        /\ cardCall'[c].pc = "done" => cardCall'[c].gen = 0
    BY <1>1, <2>1, OnwardMoves
  <2>5. Generation(c) = panel.generation /\ panel.generation \in Nat
    BY <1>1, <2>3 DEF Generation, IsPanel
  <2>6. cardCall'[c].pc = "done" /\ cardCall'[c].gen = 0 BY <2>4, <2>5
  <2>7. Moves(c) BY <2>2, <2>4, <2>6 DEF Moves
  <2> QED BY <1>2, <2>2, <2>4, <2>7, MoveStep
<1> QED BY <1>3, <1>4

LEMMA ListedStep ==
  ASSUME CardInv, NEW c \in CardCalls, Listed(c)
  PROVE  CardInv' /\ panel'.version >= panel.version
<1>1. /\ cardCall[c].pc = "answer" /\ host' = host /\ InFlight(c)
      /\ IsCall(cardCall[c]) /\ IsListing(host) /\ IsPanel(panel)
      /\ cardCall' = Onward(c, cardCall[c], TRUE)
  BY DEF Listed, CardInv, Shaped, InFlight
<1>2. IsListing(host') /\ host'.version >= host.version BY <1>1 DEF IsListing
<1>3. /\ DOMAIN cardCall' = CardCalls /\ cardCall' = [d \in DOMAIN cardCall' |-> cardCall'[d]]
      /\ OtherCalls(c) /\ IsCall(cardCall'[c]) /\ Generation(c) \in Nat
      /\ cardCall'[c].kind = "reload" => cardCall'[c].plan = {}
      /\ \/ cardCall'[c].pc = "done" /\ Generation(c) = panel.generation
            /\ cardCall'[c].gen = 0
         \/ cardCall'[c].pc = "command" /\ Generation(c) = panel.generation + 1
            /\ cardCall'[c].gen = panel.generation + 1
  BY <1>1, OnwardMoves
<1>4. PICK generation \in Nat : generation = Generation(c) BY <1>3
<1>5. /\ IsPanel(panel') /\ panel'.generation = generation
      /\ \/ panel'.version = panel.version
         \/ Current(c) /\ panel'.version = cardCall[c].carries.version
  <2>1. CASE Outdated(c)
    <3>1. panel' = [panel EXCEPT !.generation = generation, !.ready = TRUE] BY <1>4, <2>1 DEF Listed
    <3> QED BY <1>1, <3>1 DEF IsPanel
  <2>2. CASE ~Outdated(c)
    <3>1. PICK toast, notice :
            panel' = [version |-> cardCall[c].carries.version, config |-> cardCall[c].carries.config,
                      generation |-> generation, ready |-> TRUE, toast |-> toast, notice |-> notice]
      BY <1>4, <2>2 DEF Listed
    <3>2. cardCall[c].carries.version \in Nat BY <1>1, CallParts
    <3> QED BY <2>2, <3>1, <3>2 DEF IsPanel, Outdated
  <2> QED BY <2>1, <2>2
<1>6. Moves(c) BY <1>1, <1>3, <1>4, <1>5 DEF Moves
<1> QED BY <1>2, <1>3, <1>5, <1>6, MoveStep

-----------------------------------------------------------------------------
(* The steps of nobody's call, and the theorem.                            *)

LEMMA CardOutsideStep ==
  ASSUME CardInv, \/ \E d \in Drafts : Edit(d) \/ ChangedOutside(d)
                  \/ Discard \/ UNCHANGED cardVars
  PROVE  CardInv' /\ panel'.version >= panel.version
<1>1. panel' = panel /\ IsPanel(panel) /\ panel.version \in Nat /\ Shaped /\ IsListing(host)
  BY DEF Edit, ChangedOutside, Discard, cardVars, CardInv, Shaped, IsPanel
<1>2. \/ host' = host /\ cardCall' = cardCall
      \/ /\ \E config : host' = [version |-> host.version + 1, config |-> config]
         /\ cardCall' = CardDisturbed(CardCalls)
  BY DEF Edit, ChangedOutside, Discard, cardVars
<1>3. IsListing(host') /\ host'.version >= host.version /\ host.version \in Nat /\ host'.version \in Nat
  BY <1>1, <1>2 DEF IsListing
<1>4. /\ DOMAIN cardCall' = CardCalls /\ cardCall' = [d \in DOMAIN cardCall' |-> cardCall'[d]]
      /\ \A d \in CardCalls : /\ IsCall(cardCall'[d]) /\ cardCall'[d].pc = cardCall[d].pc
                              /\ cardCall'[d].gen = cardCall[d].gen /\ cardCall'[d].carries = cardCall[d].carries
                              /\ cardCall'[d].kind = cardCall[d].kind /\ cardCall'[d].plan = cardCall[d].plan
  <2>1. CASE cardCall' = cardCall BY <1>1, <2>1 DEF Shaped
  <2>2. CASE cardCall' = CardDisturbed(CardCalls) BY <1>1, <2>2, OnlyDisturbed
  <2> QED BY <1>2, <2>1, <2>2
<1>5. Shaped' BY <1>1, <1>3, <1>4 DEF Shaped, IsListing, IsPanel, IsCall
<1>6. \A d \in CardCalls : cardCall[d].carries.version \in Nat BY <1>1 DEF Shaped, IsCall
<1>7. ListingsOrdered' BY <1>1, <1>3, <1>4, <1>6 DEF CardInv, ListingsOrdered, InFlight, Current
<1> QED BY <1>1, <1>5, <1>7 DEF CardInv

LEMMA CardInitially == CardInit => CardInv
<1> SUFFICES ASSUME CardInit PROVE CardInv OBVIOUS
<1>1. PICK d : host = [version |-> 1, config |-> d] BY DEF CardInit
<1>2. panel = [version |-> 1, config |-> d, generation |-> 0, toast |-> "none", notice |-> FALSE, ready |-> TRUE]
  BY <1>1 DEF CardInit
<1>3. PICK e : e = NewCardCall OBVIOUS
<1>4. IsCall(e) /\ e.pc = "idle" /\ e.gen = 0 /\ e.kind = "reload" /\ e.plan = {}
  BY <1>3 DEF NewCardCall, NoListing, IsCall, CallPC
<1>5. cardCall = [c \in CardCalls |-> e] BY <1>3 DEF CardInit
<1>6. Shaped BY <1>1, <1>2, <1>4, <1>5 DEF Shaped, IsListing, IsPanel
<1>7. ListingsOrdered BY <1>1, <1>2, <1>4, <1>5 DEF ListingsOrdered, InFlight
<1> QED BY <1>6, <1>7 DEF CardInv

LEMMA CardStep == CardInv /\ [CardNext]_cardVars => CardInv' /\ panel'.version >= panel.version
<1> SUFFICES ASSUME CardInv, [CardNext]_cardVars PROVE CardInv' /\ panel'.version >= panel.version
  OBVIOUS
<1>1. ASSUME NEW c \in CardCalls, CardCallStep(c) PROVE CardInv' /\ panel'.version >= panel.version
  BY <1>1, StartStep, RefusalStep, DoneStep, ListStep, ListFailsStep, ListedStep DEF CardCallStep
<1>2. CASE \/ \E d \in Drafts : Edit(d) \/ ChangedOutside(d)
           \/ Discard \/ UNCHANGED cardVars
  BY <1>2, CardOutsideStep
<1> QED BY <1>1, <1>2 DEF CardNext

\* The card never goes back to an older listing than the one it shows, whatever
\* reloads, commands and applies overlap (ContainerCardController.dispatch and
\* reload), because only the last request made may still show its listing.
THEOREM CardNeverGoesBack == CardSpec => ShownNeverOlder
<1>1. CardInv /\ [CardNext]_cardVars => [panel'.version >= panel.version]_cardVars BY CardStep
<1> QED BY CardInitially, CardStep, <1>1, PTL DEF CardSpec, ShownNeverOlder

-----------------------------------------------------------------------------
(* CardPanel: what an apply leaves.                                        *)

MountOps == {"mount_remove", "mount_update", "mount_add"}
SecretOps == {"secret_remove", "secret_add"}
PortOps == {"unpublish", "publish"}
RankedOps == MountOps \cup SecretOps \cup PortOps \cup {"path_set", "recreate"}
Of(steps, ops) == {s \in steps : s.op \in ops}
Recreate(next) == Step("recreate", next.image, next.env)
PathSet(next) == Step("path_set", "", next.paths)

\* What the proof needs of the shape of a configuration.
IsConfig(x) ==
  /\ x \in [image : {x.image}, env : {x.env}, mounts : {x.mounts}, paths : {x.paths},
            secretEnv : {x.secretEnv}, ports : {x.ports}]
  /\ DOMAIN x.mounts = MountKeys /\ x.mounts = [m \in MountKeys |-> x.mounts[m]]
  /\ DOMAIN x.secretEnv = EnvVars /\ x.secretEnv = [v \in EnvVars |-> x.secretEnv[v]]

\* The commands of an apply: each of a kind that has its place in the order,
\* and the two that carry a whole group carry the group of the draft.
Meant(left, next) ==
  \A s \in left : /\ s.op \in RankedOps
                  /\ s.op = "recreate" => s = Recreate(next)
                  /\ s.op = "path_set" => s = PathSet(next)

\* The commands left turn the configuration into the draft, except in the groups
\* that failed.
LeadsTo(left, config, next, failed) ==
  /\ "mounts" \notin failed => Of(left, MountOps) = MountDiff(config.mounts, next.mounts)
  /\ "secretEnv" \notin failed => Of(left, SecretOps) = SecretDiff(config.secretEnv, next.secretEnv)
  /\ "ports" \notin failed => Of(left, PortOps) = PortDiff(config.ports, next.ports)
  /\ "paths" \notin failed => config.paths = next.paths \/ PathSet(next) \in left
  /\ "image" \notin failed => config.image = next.image \/ Recreate(next) \in left
  /\ "env" \notin failed => config.env = next.env \/ next.env = "none" \/ Recreate(next) \in left

\* What a command about a mount or a secret makes of its entry.
Put(f, key, val) == [f EXCEPT ![key] = val]
Entry(s) == IF s.op \in {"mount_remove", "secret_remove"} THEN "none" ELSE s.val

LEMMA StepParts ==
  \A op, key, val : /\ Step(op, key, val).op = op /\ Step(op, key, val).key = key
                    /\ Step(op, key, val).val = val
BY DEF Step

LEMMA ConfigShape == \A x \in Configs : IsConfig(x)
<1> SUFFICES ASSUME NEW x \in Configs PROVE IsConfig(x) OBVIOUS
<1>1. /\ x \in [image : {x.image}, env : {x.env}, mounts : {x.mounts}, paths : {x.paths},
                secretEnv : {x.secretEnv}, ports : {x.ports}]
      /\ x.mounts \in [MountKeys -> CardModes] /\ x.secretEnv \in [EnvVars -> SecretNames]
  BY DEF Configs
<1> QED BY <1>1 DEF IsConfig

\* The commands about one mount, one variable and one port.
RemoveMount(m, old) == Step("mount_remove", m, old)
AddMount(m, new) == Step("mount_add", m, new)
UpdateMount(m, new) == Step("mount_update", m, new)
Detach(v) == Step("secret_remove", v, "")
Attach(v, new) == Step("secret_add", v, new)
UnpublishPort(p) == Step("unpublish", p, "")
PublishPort(p) == Step("publish", p, "")

LEMMA CommandParts ==
  /\ \A m, old : RemoveMount(m, old).op = "mount_remove" /\ RemoveMount(m, old).key = m
  /\ \A m, new : /\ AddMount(m, new).op = "mount_add" /\ AddMount(m, new).key = m
                 /\ AddMount(m, new).val = new
  /\ \A m, new : /\ UpdateMount(m, new).op = "mount_update" /\ UpdateMount(m, new).key = m
                 /\ UpdateMount(m, new).val = new
  /\ \A v : Detach(v).op = "secret_remove" /\ Detach(v).key = v
  /\ \A v, new : /\ Attach(v, new).op = "secret_add" /\ Attach(v, new).key = v
                 /\ Attach(v, new).val = new
  /\ \A p : UnpublishPort(p).op = "unpublish" /\ UnpublishPort(p).key = p
  /\ \A p : PublishPort(p).op = "publish" /\ PublishPort(p).key = p
BY DEF Step, RemoveMount, AddMount, UpdateMount, Detach, Attach, UnpublishPort, PublishPort

\* The command for one mount whose mode differs.
MountStep(m, old, new) ==
  IF new = "none" THEN RemoveMount(m, old)
  ELSE IF old = "none" THEN AddMount(m, new) ELSE UpdateMount(m, new)

LEMMA MountDiffIs ==
  ASSUME NEW base, NEW next, NEW t
  PROVE  t \in MountDiff(base, next) <=>
           \E m \in MountKeys : base[m] # next[m] /\ t = MountStep(m, base[m], next[m])
BY DEF MountDiff, MountStep, RemoveMount, AddMount, UpdateMount

LEMMA MountStepParts ==
  ASSUME NEW m, NEW old, NEW new, old # new, NEW s, s = MountStep(m, old, new)
  PROVE  /\ s.op \in MountOps /\ s.key = m
         /\ s.op = "mount_remove" => new = "none" /\ old # "none"
         /\ s.op = "mount_update" => s.val = new /\ new # "none" /\ old # "none"
         /\ s.op = "mount_add" => s.val = new /\ new # "none" /\ old = "none"
BY CommandParts DEF MountStep, MountOps

\* The one or two commands for a variable whose secret differs.
SecretStep(v, old, new, t) ==
  \/ old # "none" /\ t = Detach(v)
  \/ new # "none" /\ t = Attach(v, new)

LEMMA SecretDiffIs ==
  ASSUME NEW base, NEW next, NEW t
  PROVE  t \in SecretDiff(base, next) <=>
           \E v \in EnvVars : base[v] # next[v] /\ SecretStep(v, base[v], next[v], t)
BY DEF SecretDiff, SecretStep, Detach, Attach

LEMMA SecretStepParts ==
  ASSUME NEW v, NEW old, NEW new, NEW t, SecretStep(v, old, new, t)
  PROVE  /\ t.op \in SecretOps /\ t.key = v
         /\ t.op = "secret_remove" => old # "none" /\ t = Detach(v)
         /\ t.op = "secret_add" => new # "none" /\ t.val = new /\ t = Attach(v, new)
BY CommandParts DEF SecretStep, SecretOps

LEMMA SecretAdded ==
  ASSUME NEW v, NEW old, NEW new, NEW t, SecretStep(v, old, new, t), t.op = "secret_add", NEW other
  PROVE  SecretStep(v, other, new, t)
BY CommandParts DEF SecretStep

\* The command for one port that is on one side only.
PortStep(p, base, next, t) ==
  \/ p \in base /\ p \notin next /\ t = UnpublishPort(p)
  \/ p \in next /\ p \notin base /\ t = PublishPort(p)

LEMMA PortDiffIs ==
  ASSUME NEW base, NEW next, NEW t
  PROVE  t \in PortDiff(base, next) <=> \E p : PortStep(p, base, next, t)
BY DEF PortDiff, PortStep, UnpublishPort, PublishPort

LEMMA PortStepParts ==
  ASSUME NEW p, NEW base, NEW next, NEW t, PortStep(p, base, next, t)
  PROVE  /\ t.op \in PortOps /\ t.key = p
         /\ t.op = "unpublish" <=> p \in base
         /\ t.op = "publish" <=> p \in next
         /\ p \in base <=> p \notin next
         /\ \A u : PortStep(p, base, next, u) => u = t
BY CommandParts DEF PortStep, PortOps

LEMMA PortStepMoves ==
  ASSUME NEW p, NEW base, NEW other, NEW next, NEW t, p \in base <=> p \in other
  PROVE  PortStep(p, base, next, t) <=> PortStep(p, other, next, t)
BY DEF PortStep

-----------------------------------------------------------------------------
(* A command that is carried out takes its part of the difference away.    *)

LEMMA MountGone ==
  ASSUME NEW base, NEW next, NEW m \in MountKeys, base[m] # next[m], NEW after,
         after[m] = next[m], \A k \in MountKeys \ {m} : after[k] = base[k], NEW t
  PROVE  t \in MountDiff(after, next) <=> t \in MountDiff(base, next) /\ t # MountStep(m, base[m], next[m])
<1>1. ASSUME t \in MountDiff(after, next)
      PROVE  t \in MountDiff(base, next) /\ t # MountStep(m, base[m], next[m])
  <2>1. PICK k \in MountKeys : after[k] # next[k] /\ t = MountStep(k, after[k], next[k])
    BY <1>1, MountDiffIs
  <2>2. k # m /\ after[k] = base[k] BY <2>1
  <2>3. t.key = k /\ MountStep(m, base[m], next[m]).key = m BY <2>1, MountStepParts
  <2> QED BY <2>1, <2>2, <2>3, MountDiffIs
<1>2. ASSUME t \in MountDiff(base, next), t # MountStep(m, base[m], next[m]) PROVE t \in MountDiff(after, next)
  <2>1. PICK k \in MountKeys : base[k] # next[k] /\ t = MountStep(k, base[k], next[k])
    BY <1>2, MountDiffIs
  <2>2. k # m /\ after[k] = base[k] BY <1>2, <2>1
  <2> QED BY <2>1, <2>2, MountDiffIs
<1> QED BY <1>1, <1>2

LEMMA MountsGo ==
  ASSUME NEW left, NEW base, NEW next, Of(left, MountOps) = MountDiff(base, next),
         DOMAIN base = MountKeys, NEW s \in left, s.op \in MountOps,
         NEW after, after = Put(base, s.key, Entry(s))
  PROVE  Of(left \ {s}, MountOps) = MountDiff(after, next)
<1>0. s \in MountDiff(base, next) BY DEF Of
<1>1. PICK m \in MountKeys : base[m] # next[m] /\ s = MountStep(m, base[m], next[m])
  BY <1>0, MountDiffIs
<1>2. s.key = m /\ next[m] = Entry(s) BY <1>1, MountStepParts DEF MountOps, Entry
<1>3. after[m] = next[m] /\ \A k \in MountKeys \ {m} : after[k] = base[k] BY <1>2 DEF Put
<1>4. ASSUME NEW t PROVE t \in MountDiff(after, next) <=> t \in MountDiff(base, next) /\ t # s
  BY <1>1, <1>3, MountGone
<1> QED BY <1>4 DEF Of

LEMMA SecretsGo ==
  ASSUME NEW left, NEW base, NEW next, Of(left, SecretOps) = SecretDiff(base, next),
         DOMAIN base = EnvVars, NEW s \in left, s.op \in SecretOps, s.op = "secret_add" => base[s.key] = "none",
         NEW after, after = Put(base, s.key, Entry(s))
  PROVE  Of(left \ {s}, SecretOps) = SecretDiff(after, next)
<1>0. s \in SecretDiff(base, next) BY DEF Of
<1>1. PICK v \in EnvVars : base[v] # next[v] /\ SecretStep(v, base[v], next[v], s) BY <1>0, SecretDiffIs
<1>2. s.key = v /\ \A w \in EnvVars \ {v} : after[w] = base[w] BY <1>1, SecretStepParts DEF Put
<1>3. after[v] = IF s.op = "secret_remove" THEN "none" ELSE next[v]
  BY <1>1, <1>2, SecretStepParts DEF SecretOps, Put, Entry
<1>4. ASSUME NEW t, t \in SecretDiff(after, next) PROVE t \in SecretDiff(base, next) /\ t # s
  <2>1. PICK w \in EnvVars : after[w] # next[w] /\ SecretStep(w, after[w], next[w], t) BY <1>4, SecretDiffIs
  <2>2. t.key = w BY <2>1, SecretStepParts
  <2>3. CASE w # v BY <1>2, <2>1, <2>2, <2>3, SecretDiffIs
  <2>4. CASE w = v
    <3>1. s.op = "secret_remove" /\ after[v] = "none" BY <1>3, <2>1, <2>4
    <3>2. t.op = "secret_add" BY <2>1, <2>4, <3>1, SecretStepParts DEF SecretOps
    <3>3. SecretStep(v, base[v], next[v], t) BY <2>1, <2>4, <3>2, SecretAdded
    <3> QED BY <1>1, <3>1, <3>2, <3>3, SecretDiffIs
  <2> QED BY <2>3, <2>4
<1>5. ASSUME NEW t, t \in SecretDiff(base, next), t # s PROVE t \in SecretDiff(after, next)
  <2>1. PICK w \in EnvVars : base[w] # next[w] /\ SecretStep(w, base[w], next[w], t) BY <1>5, SecretDiffIs
  <2>2. CASE w # v BY <1>2, <2>1, <2>2, SecretDiffIs
  <2>3. CASE w = v
    <3>1. t.op # s.op BY <1>1, <1>5, <2>1, <2>3, SecretStepParts DEF SecretOps
    <3>2. s.op = "secret_remove" /\ t.op = "secret_add"
      BY <1>1, <1>2, <2>1, <2>3, <3>1, SecretStepParts DEF SecretOps
    <3>3. after[v] = "none" /\ next[v] # "none" /\ SecretStep(v, after[v], next[v], t)
      BY <1>3, <2>1, <2>3, <3>2, SecretStepParts, SecretAdded
    <3> QED BY <3>3, SecretDiffIs
  <2> QED BY <2>2, <2>3
<1> QED BY <1>4, <1>5 DEF Of

LEMMA PortsGo ==
  ASSUME NEW left, NEW base, NEW next, Of(left, PortOps) = PortDiff(base, next),
         NEW s \in left, s.op \in PortOps,
         NEW after, after = IF s.op = "publish" THEN base \cup {s.key} ELSE base \ {s.key}
  PROVE  Of(left \ {s}, PortOps) = PortDiff(after, next)
<1>0. s \in PortDiff(base, next) BY DEF Of
<1>1. PICK p : PortStep(p, base, next, s) BY <1>0, PortDiffIs
<1>2. s.key = p /\ \A q : q # p => (q \in after <=> q \in base) BY <1>1, PortStepParts
<1>3. p \in after <=> p \in next BY <1>1, <1>2, PortStepParts DEF PortOps
<1>4. ASSUME NEW t, t \in PortDiff(after, next) PROVE t \in PortDiff(base, next) /\ t # s
  <2>1. PICK q : PortStep(q, after, next, t) BY <1>4, PortDiffIs
  <2>2. q # p /\ t.key = q BY <1>3, <2>1, PortStepParts
  <2>3. PortStep(q, base, next, t) BY <1>2, <2>1, <2>2, PortStepMoves
  <2> QED BY <1>2, <2>2, <2>3, PortDiffIs
<1>5. ASSUME NEW t, t \in PortDiff(base, next), t # s PROVE t \in PortDiff(after, next)
  <2>1. PICK q : PortStep(q, base, next, t) BY <1>5, PortDiffIs
  <2>2. q # p BY <1>1, <1>5, <2>1, PortStepParts
  <2>3. PortStep(q, after, next, t) BY <1>2, <2>1, <2>2, PortStepMoves
  <2> QED BY <2>3, PortDiffIs
<1> QED BY <1>4, <1>5 DEF Of

-----------------------------------------------------------------------------
(* What a command makes of a configuration.                                *)

Carried(s, config, after) ==
  /\ s.op \notin MountOps => after.mounts = config.mounts
  /\ s.op \in MountOps => after.mounts = Put(config.mounts, s.key, Entry(s))
  /\ s.op \notin SecretOps => after.secretEnv = config.secretEnv
  /\ s.op \in SecretOps => after.secretEnv = Put(config.secretEnv, s.key, Entry(s))
  /\ s.op \notin PortOps => after.ports = config.ports
  /\ s.op \in PortOps =>
       after.ports = IF s.op = "publish" THEN config.ports \cup {s.key} ELSE config.ports \ {s.key}
  /\ after.paths = IF s.op = "path_set" THEN s.val ELSE config.paths
  /\ after.image = IF s.op = "recreate" THEN s.key ELSE config.image
  /\ s.op = "recreate" => after.env = s.val \/ s.val = "none"
  /\ s.op \in RankedOps \ {"recreate"} => after.env = config.env

LEMMA AppliedParts ==
  ASSUME NEW config, IsConfig(config), NEW s, s.op \in RankedOps \cup {"default_env_sync"},
         NEW after, after = AppliedStep(s, config)
  PROVE  IsConfig(after) /\ Carried(s, config, after)
<1>1. CASE s.op \in MountOps
  <2>1. PICK mode : mode = Entry(s) OBVIOUS
  <2>2. PICK mounts : mounts = [config.mounts EXCEPT ![s.key] = mode] OBVIOUS
  <2>3. after = [config EXCEPT !.mounts = mounts] BY <1>1, <2>1, <2>2 DEF AppliedStep, MountOps, Entry
  <2>4. DOMAIN mounts = MountKeys /\ mounts = [m \in MountKeys |-> mounts[m]] BY <2>2 DEF IsConfig
  <2>5. /\ IsConfig(after) /\ after.mounts = mounts /\ after.secretEnv = config.secretEnv
        /\ after.ports = config.ports /\ after.paths = config.paths /\ after.image = config.image
        /\ after.env = config.env
    BY <2>3, <2>4 DEF IsConfig
  <2> QED BY <1>1, <2>1, <2>2, <2>5 DEF Carried, Put, MountOps, SecretOps, PortOps, RankedOps
<1>2. CASE s.op \in SecretOps
  <2>1. PICK secret : secret = Entry(s) OBVIOUS
  <2>2. PICK others : others = [config.secretEnv EXCEPT ![s.key] = secret] OBVIOUS
  <2>3. after = [config EXCEPT !.secretEnv = others] BY <1>2, <2>1, <2>2 DEF AppliedStep, SecretOps, Entry
  <2>4. DOMAIN others = EnvVars /\ others = [v \in EnvVars |-> others[v]] BY <2>2 DEF IsConfig
  <2>5. /\ IsConfig(after) /\ after.mounts = config.mounts /\ after.secretEnv = others
        /\ after.ports = config.ports /\ after.paths = config.paths /\ after.image = config.image
        /\ after.env = config.env
    BY <2>3, <2>4 DEF IsConfig
  <2> QED BY <1>2, <2>1, <2>2, <2>5 DEF Carried, Put, MountOps, SecretOps, PortOps, RankedOps
<1>3. CASE s.op \in PortOps
  <2>1. PICK ports : ports = IF s.op = "publish" THEN config.ports \cup {s.key} ELSE config.ports \ {s.key} OBVIOUS
  <2>2. after = [config EXCEPT !.ports = ports] BY <1>3, <2>1 DEF AppliedStep, PortOps
  <2>3. /\ IsConfig(after) /\ after.mounts = config.mounts /\ after.secretEnv = config.secretEnv
        /\ after.ports = ports /\ after.paths = config.paths /\ after.image = config.image
        /\ after.env = config.env
    BY <2>2 DEF IsConfig
  <2> QED BY <1>3, <2>1, <2>3 DEF Carried, MountOps, SecretOps, PortOps, RankedOps
<1>4. CASE s.op = "path_set"
  <2>1. after = [config EXCEPT !.paths = s.val] BY <1>4 DEF AppliedStep
  <2>2. /\ IsConfig(after) /\ after.mounts = config.mounts /\ after.secretEnv = config.secretEnv
        /\ after.ports = config.ports /\ after.paths = s.val /\ after.image = config.image
        /\ after.env = config.env
    BY <2>1 DEF IsConfig
  <2> QED BY <1>4, <2>2 DEF Carried, MountOps, SecretOps, PortOps, RankedOps
<1>5. CASE s.op = "recreate"
  <2>1. PICK image, env : image = s.key /\ env = IF s.val = "none" THEN config.env ELSE s.val OBVIOUS
  <2>2. after = [config EXCEPT !.image = image, !.env = env] BY <1>5, <2>1 DEF AppliedStep
  <2>3. /\ IsConfig(after) /\ after.mounts = config.mounts /\ after.secretEnv = config.secretEnv
        /\ after.ports = config.ports /\ after.paths = config.paths /\ after.image = image
        /\ after.env = env
    BY <2>2 DEF IsConfig
  <2> QED BY <1>5, <2>1, <2>3 DEF Carried, MountOps, SecretOps, PortOps, RankedOps
<1>6. CASE s.op = "default_env_sync"
  <2>1. PICK env : env = IF config.env = "none" THEN "e1" ELSE config.env OBVIOUS
  <2>2. after = [config EXCEPT !.env = env] BY <1>6, <2>1 DEF AppliedStep
  <2>3. /\ IsConfig(after) /\ after.mounts = config.mounts /\ after.secretEnv = config.secretEnv
        /\ after.ports = config.ports /\ after.paths = config.paths /\ after.image = config.image
    BY <2>2 DEF IsConfig
  <2> QED BY <1>6, <2>3 DEF Carried, MountOps, SecretOps, PortOps, RankedOps
<1> QED BY <1>1, <1>2, <1>3, <1>4, <1>5, <1>6 DEF RankedOps

-----------------------------------------------------------------------------
(* What is left leads to the draft, throughout.                            *)

LEMMA OfRest ==
  ASSUME NEW left, NEW s, NEW ops, s.op \notin ops
  PROVE  Of(left \ {s}, ops) = Of(left, ops)
BY DEF Of

LEMMA GroupsAre ==
  ASSUME NEW op \in RankedOps
  PROVE  GroupsOf(op) = IF op \in MountOps THEN {"mounts"} ELSE IF op \in SecretOps THEN {"secretEnv"}
                        ELSE IF op = "path_set" THEN {"paths"} ELSE IF op \in PortOps THEN {"ports"}
                        ELSE {"image", "env"}
BY DEF GroupsOf, RankedOps, MountOps, SecretOps, PortOps

LEMMA WholeParts ==
  \A next : /\ Recreate(next).op = "recreate" /\ Recreate(next).key = next.image /\ Recreate(next).val = next.env
           /\ PathSet(next).op = "path_set" /\ PathSet(next).val = next.paths
BY DEF Step, Recreate, PathSet

LEMMA LeadsDone ==
  ASSUME NEW config, IsConfig(config), NEW left, NEW next, Meant(left, next), NEW s \in left,
         Accepts(s, config), NEW failed, LeadsTo(left, config, next, failed),
         NEW after, after = AppliedStep(s, config)
  PROVE  IsConfig(after) /\ LeadsTo(left \ {s}, after, next, failed)
<1>0. /\ s.op \in RankedOps
      /\ s.op = "recreate" => s.key = next.image /\ s.val = next.env
      /\ s.op = "path_set" => s.val = next.paths
  BY WholeParts DEF Meant
<1>1. IsConfig(after) /\ Carried(s, config, after)
  <2>1. s.op \in RankedOps \cup {"default_env_sync"} BY <1>0
  <2> QED BY <2>1, AppliedParts
<1>2. ASSUME "mounts" \notin failed PROVE Of(left \ {s}, MountOps) = MountDiff(after.mounts, next.mounts)
  <2>1. Of(left, MountOps) = MountDiff(config.mounts, next.mounts) BY <1>2 DEF LeadsTo
  <2>2. CASE s.op \in MountOps
    <3>1. after.mounts = Put(config.mounts, s.key, Entry(s)) BY <1>0, <2>2, <1>1 DEF Carried
    <3>2. DOMAIN config.mounts = MountKeys BY DEF IsConfig
    <3> QED BY <2>1, <2>2, <3>1, <3>2, MountsGo
  <2>3. CASE s.op \notin MountOps
    <3>1. after.mounts = config.mounts BY <1>0, <2>3, <1>1 DEF Carried
    <3> QED BY <2>1, <2>3, <3>1, OfRest
  <2> QED BY <2>2, <2>3
<1>3. ASSUME "secretEnv" \notin failed PROVE Of(left \ {s}, SecretOps) = SecretDiff(after.secretEnv, next.secretEnv)
  <2>1. Of(left, SecretOps) = SecretDiff(config.secretEnv, next.secretEnv) BY <1>3 DEF LeadsTo
  <2>2. CASE s.op \in SecretOps
    <3>1. after.secretEnv = Put(config.secretEnv, s.key, Entry(s)) BY <1>0, <2>2, <1>1 DEF Carried
    <3>2. DOMAIN config.secretEnv = EnvVars BY DEF IsConfig
    <3>3. s.op = "secret_add" => config.secretEnv[s.key] = "none" BY DEF Accepts
    <3> QED BY <2>1, <2>2, <3>1, <3>2, <3>3, SecretsGo
  <2>3. CASE s.op \notin SecretOps
    <3>1. after.secretEnv = config.secretEnv BY <1>0, <2>3, <1>1 DEF Carried
    <3> QED BY <2>1, <2>3, <3>1, OfRest
  <2> QED BY <2>2, <2>3
<1>4. ASSUME "ports" \notin failed PROVE Of(left \ {s}, PortOps) = PortDiff(after.ports, next.ports)
  <2>1. Of(left, PortOps) = PortDiff(config.ports, next.ports) BY <1>4 DEF LeadsTo
  <2>2. CASE s.op \in PortOps
    <3>1. after.ports = IF s.op = "publish" THEN config.ports \cup {s.key} ELSE config.ports \ {s.key}
      BY <1>0, <2>2, <1>1 DEF Carried
    <3> QED BY <2>1, <2>2, <3>1, PortsGo
  <2>3. CASE s.op \notin PortOps
    <3>1. after.ports = config.ports BY <1>0, <2>3, <1>1 DEF Carried
    <3> QED BY <2>1, <2>3, <3>1, OfRest
  <2> QED BY <2>2, <2>3
<1>5. ASSUME "paths" \notin failed PROVE after.paths = next.paths \/ PathSet(next) \in left \ {s}
  <2>1. config.paths = next.paths \/ PathSet(next) \in left BY <1>5 DEF LeadsTo
  <2>2. after.paths = IF s.op = "path_set" THEN s.val ELSE config.paths BY <1>0, <1>1 DEF Carried
  <2> QED BY <1>0, <2>1, <2>2, WholeParts
<1>6. ASSUME "image" \notin failed PROVE after.image = next.image \/ Recreate(next) \in left \ {s}
  <2>1. config.image = next.image \/ Recreate(next) \in left BY <1>6 DEF LeadsTo
  <2>2. after.image = IF s.op = "recreate" THEN s.key ELSE config.image BY <1>0, <1>1 DEF Carried
  <2> QED BY <1>0, <2>1, <2>2, WholeParts
<1>7. ASSUME "env" \notin failed
      PROVE  after.env = next.env \/ next.env = "none" \/ Recreate(next) \in left \ {s}
  <2>1. config.env = next.env \/ next.env = "none" \/ Recreate(next) \in left BY <1>7 DEF LeadsTo
  <2>2. /\ s.op = "recreate" => after.env = s.val \/ s.val = "none"
        /\ s.op # "recreate" => after.env = config.env
    BY <1>0, <1>1 DEF Carried
  <2> QED BY <1>0, <2>1, <2>2, WholeParts
<1> QED BY <1>1, <1>2, <1>3, <1>4, <1>5, <1>6, <1>7 DEF LeadsTo

LEMMA LeadsFailed ==
  ASSUME NEW left, NEW config, NEW next, NEW failed, LeadsTo(left, config, next, failed),
         NEW s, s.op \in RankedOps, NEW more, failed \subseteq more, GroupsOf(s.op) \subseteq more
  PROVE  LeadsTo(left \ {s}, config, next, more)
<1>1. "mounts" \notin more => Of(left \ {s}, MountOps) = MountDiff(config.mounts, next.mounts)
  <2> SUFFICES ASSUME "mounts" \notin more PROVE Of(left \ {s}, MountOps) = MountDiff(config.mounts, next.mounts)
    OBVIOUS
  <2>1. s.op \notin MountOps BY GroupsAre
  <2> QED BY <2>1, OfRest DEF LeadsTo
<1>2. "secretEnv" \notin more => Of(left \ {s}, SecretOps) = SecretDiff(config.secretEnv, next.secretEnv)
  <2> SUFFICES ASSUME "secretEnv" \notin more
               PROVE  Of(left \ {s}, SecretOps) = SecretDiff(config.secretEnv, next.secretEnv)
    OBVIOUS
  <2>1. s.op \notin SecretOps BY GroupsAre DEF MountOps, SecretOps
  <2> QED BY <2>1, OfRest DEF LeadsTo
<1>3. "ports" \notin more => Of(left \ {s}, PortOps) = PortDiff(config.ports, next.ports)
  <2> SUFFICES ASSUME "ports" \notin more PROVE Of(left \ {s}, PortOps) = PortDiff(config.ports, next.ports)
    OBVIOUS
  <2>1. s.op \notin PortOps BY GroupsAre DEF MountOps, SecretOps, PortOps
  <2> QED BY <2>1, OfRest DEF LeadsTo
<1>4. "paths" \notin more => s.op # "path_set" BY GroupsAre DEF MountOps, SecretOps
<1>5. "image" \notin more \/ "env" \notin more => s.op # "recreate"
  BY GroupsAre DEF MountOps, SecretOps, PortOps
<1> QED BY <1>1, <1>2, <1>3, <1>4, <1>5, WholeParts DEF LeadsTo

LEMMA LeadsWeakly ==
  ASSUME NEW left, NEW config, NEW next, NEW failed, LeadsTo(left, config, next, failed),
         NEW more, failed \subseteq more
  PROVE  LeadsTo(left, config, next, more)
BY DEF LeadsTo

LEMMA RefusedAlready ==
  ASSUME NEW left, NEW config, NEW next, Meant(left, next), ~Clashes(next),
         NEW failed, LeadsTo(left, config, next, failed),
         NEW s \in left, \A t \in left : Rank[s.op] <= Rank[t.op], ~Accepts(s, config)
  PROVE  GroupsOf(s.op) \subseteq failed /\ failed # {}
<1>1. s.op \in RankedOps BY DEF Meant
<1>2. CASE s.op \in MountOps
  <2>0. SUFFICES ASSUME "mounts" \notin failed PROVE FALSE BY <1>1, <1>2, GroupsAre
  <2>1. Of(left, MountOps) = MountDiff(config.mounts, next.mounts) BY <2>0 DEF LeadsTo
  <2>2. s \in MountDiff(config.mounts, next.mounts) BY <1>2, <2>1 DEF Of
  <2>3. PICK m \in MountKeys : /\ config.mounts[m] # next.mounts[m]
                               /\ s = MountStep(m, config.mounts[m], next.mounts[m])
    BY <2>2, MountDiffIs
  <2>4. /\ s.key = m
        /\ s.op = "mount_remove" => next.mounts[m] = "none" /\ config.mounts[m] # "none"
        /\ s.op = "mount_update" => /\ s.val = next.mounts[m] /\ next.mounts[m] # "none"
                                    /\ config.mounts[m] # "none"
        /\ s.op = "mount_add" => /\ s.val = next.mounts[m] /\ next.mounts[m] # "none"
                                 /\ config.mounts[m] = "none"
    BY <2>3, MountStepParts
  <2>5. s.op = "mount_add" /\ m \in Rivals /\ ~\A r \in Rivals : config.mounts[r] = "none"
    BY <1>2, <2>3, <2>4 DEF Accepts, MountOps
  <2>6. PICK r \in Rivals : config.mounts[r] # "none" BY <2>5
  <2>7. next.mounts[r] = "none" /\ r \in MountKeys BY <2>4, <2>5, <2>6, CardAssumption DEF Clashes
  <2>8. PICK t : t = MountStep(r, config.mounts[r], next.mounts[r]) OBVIOUS
  <2>9. t \in left /\ t.op = "mount_remove"
    <3>1. t \in MountDiff(config.mounts, next.mounts) BY <2>6, <2>7, <2>8, MountDiffIs
    <3>2. t = RemoveMount(r, config.mounts[r]) BY <2>7, <2>8 DEF MountStep
    <3> QED BY <2>1, <3>1, <3>2, CommandParts DEF Of
  <2> QED BY <2>5, <2>9 DEF Rank
<1>3. CASE s.op \in SecretOps
  <2>0. SUFFICES ASSUME "secretEnv" \notin failed PROVE FALSE BY <1>1, <1>3, GroupsAre DEF MountOps, SecretOps
  <2>1. Of(left, SecretOps) = SecretDiff(config.secretEnv, next.secretEnv) BY <2>0 DEF LeadsTo
  <2>2. s \in SecretDiff(config.secretEnv, next.secretEnv) BY <1>3, <2>1 DEF Of
  <2>3. PICK v \in EnvVars : /\ config.secretEnv[v] # next.secretEnv[v]
                             /\ SecretStep(v, config.secretEnv[v], next.secretEnv[v], s)
    BY <2>2, SecretDiffIs
  <2>4. s.key = v /\ (s.op = "secret_remove" => config.secretEnv[v] # "none")
    BY <2>3, SecretStepParts
  <2>5. s.op = "secret_add" /\ config.secretEnv[v] # "none"
    BY <1>3, <2>4 DEF Accepts, SecretOps
  <2>6. PICK t : t = Detach(v) OBVIOUS
  <2>7. t \in left /\ t.op = "secret_remove"
    <3>1. SecretStep(v, config.secretEnv[v], next.secretEnv[v], t) BY <2>5, <2>6 DEF SecretStep
    <3>2. t \in SecretDiff(config.secretEnv, next.secretEnv) BY <2>3, <3>1, SecretDiffIs
    <3> QED BY <2>1, <2>6, <3>2, CommandParts DEF Of
  <2> QED BY <2>5, <2>7 DEF Rank
<1>4. CASE s.op \in PortOps
  <2>0. SUFFICES ASSUME "ports" \notin failed PROVE FALSE
    BY <1>1, <1>4, GroupsAre DEF MountOps, SecretOps, PortOps
  <2>1. s \in PortDiff(config.ports, next.ports) BY <1>4, <2>0 DEF LeadsTo, Of
  <2>2. PICK p : PortStep(p, config.ports, next.ports, s) BY <2>1, PortDiffIs
  <2>3. s.key = p /\ (s.op = "unpublish" => p \in config.ports) BY <2>2, PortStepParts
  <2> QED BY <1>4, <2>3 DEF Accepts, PortOps
<1>5. CASE s.op \in {"path_set", "recreate"} BY <1>5 DEF Accepts
<1> QED BY <1>1, <1>2, <1>3, <1>4, <1>5 DEF RankedOps

LEMMA LeadsStart ==
  ASSUME NEW base, NEW next
  PROVE  Meant(Changes(base, next), next) /\ LeadsTo(Changes(base, next), base, next, {})
<1>1. \A t \in MountDiff(base.mounts, next.mounts) : t.op \in MountOps
  BY MountDiffIs, MountStepParts
<1>2. \A t \in SecretDiff(base.secretEnv, next.secretEnv) : t.op \in SecretOps
  BY SecretDiffIs, SecretStepParts
<1>3. \A t \in PortDiff(base.ports, next.ports) : t.op \in PortOps
  BY PortDiffIs, PortStepParts
<1>4. Changes(base, next) =
        MountDiff(base.mounts, next.mounts) \cup SecretDiff(base.secretEnv, next.secretEnv) \cup
        (IF base.paths # next.paths THEN {PathSet(next)} ELSE {}) \cup
        PortDiff(base.ports, next.ports) \cup
        (IF NeedsRecreate(base, next) THEN {Recreate(next)} ELSE {})
  BY DEF Changes, PathSet, Recreate
<1>5. Meant(Changes(base, next), next)
  BY <1>1, <1>2, <1>3, <1>4, WholeParts DEF Meant, RankedOps, MountOps, SecretOps, PortOps
<1>6. Of(Changes(base, next), MountOps) = MountDiff(base.mounts, next.mounts)
  BY <1>1, <1>2, <1>3, <1>4, WholeParts DEF Of, MountOps, SecretOps, PortOps
<1>7. Of(Changes(base, next), SecretOps) = SecretDiff(base.secretEnv, next.secretEnv)
  BY <1>1, <1>2, <1>3, <1>4, WholeParts DEF Of, MountOps, SecretOps, PortOps
<1>8. Of(Changes(base, next), PortOps) = PortDiff(base.ports, next.ports)
  BY <1>1, <1>2, <1>3, <1>4, WholeParts DEF Of, MountOps, SecretOps, PortOps
<1>9. /\ base.paths = next.paths \/ PathSet(next) \in Changes(base, next)
      /\ base.image = next.image \/ Recreate(next) \in Changes(base, next)
      /\ base.env = next.env \/ Recreate(next) \in Changes(base, next)
  BY <1>4 DEF NeedsRecreate
<1> QED BY <1>5, <1>6, <1>7, <1>8, <1>9 DEF LeadsTo

LEMMA LeadsEnd ==
  ASSUME NEW config, NEW next, IsConfig(config), IsConfig(next), NEW failed, LeadsTo({}, config, next, failed)
  PROVE  \A g \in ConfigGroups \ failed : config[g] = next[g] \/ (g = "env" /\ next.env = "none")
<1>1. ASSUME "mounts" \notin failed PROVE config.mounts = next.mounts
  <2>1. MountDiff(config.mounts, next.mounts) = {} BY <1>1 DEF LeadsTo, Of
  <2>2. \A m \in MountKeys : config.mounts[m] = next.mounts[m] BY <2>1, MountDiffIs
  <2> QED BY <2>2 DEF IsConfig
<1>2. ASSUME "secretEnv" \notin failed PROVE config.secretEnv = next.secretEnv
  <2>1. SecretDiff(config.secretEnv, next.secretEnv) = {} BY <1>2 DEF LeadsTo, Of
  <2>2. ASSUME NEW v \in EnvVars PROVE config.secretEnv[v] = next.secretEnv[v]
    <3>1. \A t : config.secretEnv[v] = next.secretEnv[v] \/ ~SecretStep(v, config.secretEnv[v], next.secretEnv[v], t)
      BY <2>1, SecretDiffIs
    <3> QED BY <3>1 DEF SecretStep
  <2> QED BY <2>2 DEF IsConfig
<1>3. ASSUME "ports" \notin failed PROVE config.ports = next.ports
  <2>1. PortDiff(config.ports, next.ports) = {} BY <1>3 DEF LeadsTo, Of
  <2>2. \A p, t : ~PortStep(p, config.ports, next.ports, t) BY <2>1, PortDiffIs
  <2> QED BY <2>2 DEF PortStep
<1>4. /\ "paths" \notin failed => config.paths = next.paths
      /\ "image" \notin failed => config.image = next.image
      /\ "env" \notin failed => config.env = next.env \/ next.env = "none"
  BY DEF LeadsTo
<1> QED BY <1>1, <1>2, <1>3, <1>4 DEF ConfigGroups

-----------------------------------------------------------------------------
(* The calls.                                                              *)

LEMMA LeastOfNine ==
  ASSUME NEW S \in SUBSET (1..9), S # {}
  PROVE  \E n \in S : \A m \in S : n <= m
<1> SUFFICES ASSUME \A n \in S : \E m \in S : ~(n <= m) PROVE FALSE OBVIOUS
<1>1. 1 \notin S OBVIOUS
<1>2. 2 \notin S BY <1>1
<1>3. 3 \notin S BY <1>1, <1>2
<1>4. 4 \notin S BY <1>1, <1>2, <1>3
<1>5. 5 \notin S BY <1>1, <1>2, <1>3, <1>4
<1>6. 6 \notin S BY <1>1, <1>2, <1>3, <1>4, <1>5
<1>7. 7 \notin S BY <1>1, <1>2, <1>3, <1>4, <1>5, <1>6
<1>8. 8 \notin S BY <1>1, <1>2, <1>3, <1>4, <1>5, <1>6, <1>7
<1>9. 9 \notin S BY <1>1, <1>2, <1>3, <1>4, <1>5, <1>6, <1>7, <1>8
<1>10. PICK k \in S : k \in 1..9 OBVIOUS
<1>11. k = 1 \/ k = 2 \/ k = 3 \/ k = 4 \/ k = 5 \/ k = 6 \/ k = 7 \/ k = 8 \/ k = 9 BY <1>10
<1> QED BY <1>1, <1>2, <1>3, <1>4, <1>5, <1>6, <1>7, <1>8, <1>9, <1>10, <1>11

LEMMA FirstIsFirst ==
  ASSUME NEW plan, plan # {}, \A s \in plan : s.op \in RankedOps
  PROVE  First(plan) \in plan /\ \A t \in plan : Rank[First(plan).op] <= Rank[t.op]
<1>1. \A op \in RankedOps : Rank[op] \in 1..9 BY DEF Rank, RankedOps, MountOps, SecretOps, PortOps
<1>2. PICK S \in SUBSET (1..9) : S = {Rank[s.op] : s \in plan} BY <1>1
<1>3. PICK n \in S : \A m \in S : n <= m
  <2>1. S # {} BY <1>2
  <2> QED BY <1>2, <2>1, LeastOfNine
<1>4. PICK s \in plan : n = Rank[s.op] BY <1>2, <1>3
<1>5. \A t \in plan : Rank[s.op] <= Rank[t.op] BY <1>2, <1>3, <1>4
<1> QED BY <1>5 DEF First

\* What a call has still to send.
LeftToSend(x) == x.plan \cup (IF x.pc = "command" THEN {x.step} ELSE {})
InOrder(x) ==
  x.pc = "command" => x.step \notin x.plan /\ \A t \in x.plan : Rank[x.step.op] <= Rank[t.op]
Flying(x) == x.pc \notin {"idle", "done"}
MustDeliver(x) == x.clean /\ ~Clashes(x.next)

\* An apply under way: what it has still to send leads to the draft, and it
\* goes well as long as nothing failed.
Promise(x, config) ==
  /\ IsConfig(x.next) /\ Meant(LeftToSend(x), x.next) /\ InOrder(x)
  /\ x.applied \in BOOLEAN
  /\ MustDeliver(x) => LeadsTo(LeftToSend(x), config, x.next, x.failed) /\ (x.applied <=> x.failed = {})

CardCallSound(x, config) ==
  /\ IsConfig(x.carries.config)
  /\ x.pc = "idle" => x = NewCardCall
  /\ Flying(x) /\ x.kind # "apply" =>
       x.plan = {} /\ (x.pc = "command" => x.step.op = "default_env_sync")
  /\ Flying(x) /\ x.kind = "apply" => Promise(x, config)

IsCardRow(x) == x \in [draft : {x.draft}, staged : {x.staged}] /\ IsConfig(x.draft) /\ IsConfig(x.staged)
ConfigsShaped == IsConfig(host.config) /\ IsConfig(panel.config) /\ IsCardRow(row)
OneApply ==
  \A c, d \in CardCalls :
    Flying(cardCall[c]) /\ Flying(cardCall[d]) /\ cardCall[c].kind = "apply" /\ cardCall[d].kind = "apply" => c = d
ApplyInv ==
  /\ ConfigsShaped /\ OneApply
  /\ \A c \in CardCalls : CardCallSound(cardCall[c], host.config)

LEMMA NoListingShaped == IsConfig(NoListing.config)
<1>1. (CHOOSE d \in Drafts : TRUE) \in Configs BY CardAssumption
<1>2. NoListing.config = CHOOSE d \in Drafts : TRUE BY DEF NoListing
<1> QED BY <1>1, <1>2, ConfigShape

\* The record of a call once one of its dispatches has ended.
DispatchEnded(x, ok, e) ==
  /\ e.kind = x.kind /\ e.next = x.next /\ e.failed = x.failed /\ e.clean = x.clean
  /\ e.applied = (x.applied /\ ok) /\ e.carries = NoListing
  /\ x.plan = {} => e.pc = "done" /\ e.plan = {} /\ e.step = NoStep
  /\ x.plan # {} => e.pc = "command" /\ e.step = First(x.plan) /\ e.plan = x.plan \ {First(x.plan)}

LEMMA OnwardIs ==
  ASSUME NEW c, NEW x, IsCall(x), NEW ok \in BOOLEAN
  PROVE  \E e : Onward(c, x, ok) = [cardCall EXCEPT ![c] = e] /\ DispatchEnded(x, ok, e)
<1>1. PICK good, carries : good = (x.applied /\ ok) /\ carries = NoListing OBVIOUS
<1>2. PICK ended : ended = [x EXCEPT !.applied = good, !.carries = carries] OBVIOUS
<1>3. /\ ended.kind = x.kind /\ ended.next = x.next /\ ended.failed = x.failed /\ ended.clean = x.clean
      /\ ended.applied = good /\ ended.carries = carries /\ ended.plan = x.plan
      /\ ended = [pc |-> ended.pc, kind |-> ended.kind, gen |-> ended.gen, step |-> ended.step, plan |-> ended.plan,
                  next |-> ended.next, failed |-> ended.failed, clean |-> ended.clean, applied |-> ended.applied,
                  carries |-> ended.carries]
  BY <1>2 DEF IsCall
<1>4. CASE x.plan = {}
  <2>1. PICK e : e = [ended EXCEPT !.pc = "done", !.step = NoStep, !.gen = 0] OBVIOUS
  <2>2. Onward(c, x, ok) = [cardCall EXCEPT ![c] = e] BY <1>1, <1>2, <1>4, <2>1 DEF Onward
  <2>3. /\ e.kind = ended.kind /\ e.next = ended.next /\ e.failed = ended.failed /\ e.clean = ended.clean
        /\ e.applied = ended.applied /\ e.carries = ended.carries /\ e.plan = ended.plan /\ e.pc = "done"
        /\ e.step = NoStep
    BY <1>3, <2>1
  <2> QED BY <1>1, <1>3, <1>4, <2>2, <2>3 DEF DispatchEnded
<1>5. CASE x.plan # {}
  <2>0. PICK step, plan, gen : /\ step = First(x.plan) /\ plan = x.plan \ {First(x.plan)}
                               /\ gen = panel.generation + 1
    OBVIOUS
  <2>1. PICK e : e = [ended EXCEPT !.pc = "command", !.gen = gen, !.step = step, !.plan = plan] OBVIOUS
  <2>2. Onward(c, x, ok) = [cardCall EXCEPT ![c] = e] BY <1>1, <1>2, <1>3, <1>5, <2>0, <2>1 DEF Onward
  <2>3. /\ e.kind = ended.kind /\ e.next = ended.next /\ e.failed = ended.failed /\ e.clean = ended.clean
        /\ e.applied = ended.applied /\ e.carries = ended.carries /\ e.plan = plan /\ e.pc = "command"
        /\ e.step = step
    BY <1>3, <2>1
  <2> QED BY <1>1, <1>3, <1>5, <2>0, <2>2, <2>3 DEF DispatchEnded
<1> QED BY <1>4, <1>5

\* The next command of an apply is the first of what is left.
LEMMA OnwardKeeps ==
  ASSUME NEW x, NEW e, NEW ok \in BOOLEAN, NEW config, DispatchEnded(x, ok, e),
         IsConfig(x.next), Meant(x.plan, x.next), x.applied \in BOOLEAN,
         MustDeliver(x) => LeadsTo(x.plan, config, x.next, x.failed) /\ ((x.applied /\ ok) <=> x.failed = {})
  PROVE  Promise(e, config)
<1>1. MustDeliver(e) <=> MustDeliver(x) BY DEF MustDeliver, DispatchEnded
<1>2. LeftToSend(e) = x.plan /\ InOrder(e)
  <2>1. CASE x.plan = {} BY <2>1 DEF LeftToSend, InOrder, DispatchEnded
  <2>2. CASE x.plan # {}
    <3>1. First(x.plan) \in x.plan /\ \A t \in x.plan : Rank[First(x.plan).op] <= Rank[t.op]
      BY <2>2, FirstIsFirst DEF Meant
    <3> QED BY <2>2, <3>1 DEF LeftToSend, InOrder, DispatchEnded
  <2> QED BY <2>1, <2>2
<1>3. e.applied \in BOOLEAN /\ (e.applied <=> x.applied /\ ok) BY DEF DispatchEnded
<1> QED BY <1>1, <1>2, <1>3 DEF Promise, DispatchEnded

-----------------------------------------------------------------------------
(* The steps of an apply.                                                  *)

\* What a step does to a call that is not its own.
Stays(x, y, config, after) ==
  /\ y = x \/ (Flying(x) /\ y = [x EXCEPT !.clean = FALSE])
  /\ after = config \/ (Flying(x) /\ x.kind = "apply" => ~y.clean)

LEMMA StaysSound ==
  ASSUME NEW x, IsCall(x), NEW y, NEW config, NEW after, CardCallSound(x, config), Stays(x, y, config, after)
  PROVE  CardCallSound(y, after) /\ y.pc = x.pc /\ y.kind = x.kind
<1>1. CASE y = x
  <2>1. Promise(x, config) /\ (after = config \/ ~x.clean) => Promise(x, after) BY DEF Promise, MustDeliver
  <2> QED BY <1>1, <2>1 DEF Stays, CardCallSound
<1>2. CASE Flying(x) /\ y = [x EXCEPT !.clean = FALSE]
  <2>1. /\ y.pc = x.pc /\ y.kind = x.kind /\ y.step = x.step /\ y.plan = x.plan /\ y.next = x.next
        /\ y.failed = x.failed /\ y.applied = x.applied /\ y.carries = x.carries /\ ~y.clean
    BY <1>2 DEF IsCall
  <2>2. Promise(x, config) => Promise(y, after) BY <2>1 DEF Promise, MustDeliver, LeftToSend, InOrder
  <2> QED BY <1>2, <2>1, <2>2 DEF CardCallSound, Flying
<1> QED BY <1>1, <1>2 DEF Stays

LEMMA ApplyMoves ==
  ASSUME CardInv, ApplyInv, NEW c \in CardCalls,
         \A d \in CardCalls \ {c} : Stays(cardCall[d], cardCall'[d], host.config, host'.config),
         CardCallSound(cardCall'[c], host'.config),
         cardCall'[c].kind = "apply" /\ cardCall'[c].pc = "done" =>
           cardCall'[c].plan = {} /\ Promise(cardCall'[c], host'.config),
         Flying(cardCall'[c]) /\ cardCall'[c].kind = "apply" =>
           ~RowBusy \/ (Flying(cardCall[c]) /\ cardCall[c].kind = "apply"),
         ConfigsShaped'
  PROVE  ApplyInv' /\ \A d \in CardCalls : Delivers(d)
<1>1. ASSUME NEW d \in CardCalls \ {c}
      PROVE  /\ CardCallSound(cardCall'[d], host'.config)
             /\ cardCall'[d].pc = cardCall[d].pc /\ cardCall'[d].kind = cardCall[d].kind
  <2>1. IsCall(cardCall[d]) /\ CardCallSound(cardCall[d], host.config) BY DEF CardInv, Shaped, ApplyInv
  <2>2. PICK x, y, config, after : x = cardCall[d] /\ y = cardCall'[d] /\ config = host.config /\ after = host'.config
    OBVIOUS
  <2>3. Stays(x, y, config, after) BY <2>2
  <2> QED BY <2>1, <2>2, <2>3, StaysSound
<1>2. \A d \in CardCalls : CardCallSound(cardCall'[d], host'.config) BY <1>1
<1>3. ASSUME NEW d \in CardCalls, NEW e \in CardCalls, Flying(cardCall'[d]), Flying(cardCall'[e]),
             cardCall'[d].kind = "apply", cardCall'[e].kind = "apply"
      PROVE  d = e
  <2>1. \A f \in CardCalls \ {c} : /\ Flying(cardCall'[f]) <=> Flying(cardCall[f])
                                  /\ cardCall'[f].kind = cardCall[f].kind
    BY <1>1 DEF Flying
  <2>2. CASE d # c /\ e # c BY <1>3, <2>1, <2>2 DEF ApplyInv, OneApply
  <2>3. CASE d # c /\ e = c BY <1>3, <2>1, <2>3 DEF ApplyInv, OneApply, RowBusy, InFlight, Flying
  <2>4. CASE d = c /\ e # c BY <1>3, <2>1, <2>4 DEF ApplyInv, OneApply, RowBusy, InFlight, Flying
  <2> QED BY <2>2, <2>3, <2>4
<1>4. ApplyInv' BY <1>2, <1>3 DEF ApplyInv, OneApply
<1>5. ASSUME NEW d \in CardCalls PROVE Delivers(d)
  <2>1. CASE d # c BY <1>1, <2>1 DEF Delivers
  <2>2. CASE d = c
    <3>1. PICK e, after : e = cardCall'[c] /\ after = host'.config OBVIOUS
    <3>2. SUFFICES ASSUME e.kind = "apply", e.pc = "done", e.clean, ~Clashes(e.next)
                   PROVE  /\ \A g \in ConfigGroups \ e.failed :
                                after[g] = e.next[g] \/ (g = "env" /\ e.next.env = "none")
                          /\ e.applied = (e.failed = {})
      BY <2>2, <3>1 DEF Delivers
    <3>3. Promise(e, after) /\ LeftToSend(e) = {} /\ MustDeliver(e) /\ IsConfig(after)
      BY <3>1, <3>2 DEF LeftToSend, MustDeliver, ConfigsShaped
    <3>4. LeadsTo({}, after, e.next, e.failed) /\ IsConfig(e.next) BY <3>3 DEF Promise
    <3>5. e.applied \in BOOLEAN /\ (e.applied <=> e.failed = {}) BY <3>3 DEF Promise
    <3>6. e.applied = (e.failed = {}) BY <3>5, Zenon
    <3> QED BY <3>3, <3>4, <3>6, LeadsEnd
  <2> QED BY <2>1, <2>2
<1> QED BY <1>4, <1>5

LEMMA OthersStay ==
  ASSUME CardInv, ApplyInv, NEW c \in CardCalls, NEW e, cardCall' = [cardCall EXCEPT ![c] = e],
         host'.config = host.config \/ (Flying(cardCall[c]) /\ cardCall[c].kind = "apply")
  PROVE  /\ cardCall'[c] = e
         /\ \A d \in CardCalls \ {c} : Stays(cardCall[d], cardCall'[d], host.config, host'.config)
<1>1. cardCall'[c] = e /\ \A d \in CardCalls \ {c} : cardCall'[d] = cardCall[d] BY DEF CardInv, Shaped
<1>2. ASSUME NEW d \in CardCalls \ {c}, Flying(cardCall[c]), cardCall[c].kind = "apply"
      PROVE  ~(Flying(cardCall[d]) /\ cardCall[d].kind = "apply")
  BY <1>2 DEF ApplyInv, OneApply
<1> QED BY <1>1, <1>2 DEF Stays

LEMMA StartKeeps ==
  ASSUME CardInv, ApplyInv, NEW c \in CardCalls, Reload(c) \/ Sync(c) \/ Apply(c)
  PROVE  ApplyInv' /\ \A d \in CardCalls : Delivers(d)
<1>1. IsCall(cardCall[c]) /\ IsPanel(panel) /\ CardCallSound(cardCall[c], host.config) /\ cardCall[c] = NewCardCall
  BY DEF CardInv, Shaped, ApplyInv, CardCallSound, Reload, Sync, Apply
<1>2. PICK gen : gen = panel.generation + 1 OBVIOUS
<1>3. PICK new : new = cardCall[c] OBVIOUS
<1>4. /\ new.kind = "reload" /\ new.plan = {} /\ new.failed = {} /\ new.applied
      /\ IsConfig(new.carries.config) /\ IsCall(new)
  BY <1>1, <1>3 DEF NewCardCall, CardCallSound
<1>5. /\ host' = host /\ panel' = [panel EXCEPT !.generation = gen]
      /\ row' = row \/ row' = [row EXCEPT !.staged = row.draft]
  BY <1>2 DEF Reload, Sync, Apply
<1>6. PICK e : /\ cardCall' = [cardCall EXCEPT ![c] = e] /\ CardCallSound(e, host.config) /\ e.pc # "done"
               /\ Flying(e) /\ e.kind = "apply" => ~RowBusy
  <2>1. CASE Reload(c)
    <3>1. PICK e : e = [new EXCEPT !.pc = "listing", !.gen = gen] OBVIOUS
    <3>2. e.kind = "reload" /\ e.plan = {} /\ e.pc = "listing" /\ e.carries = new.carries BY <1>4, <3>1 DEF IsCall
    <3>3. CardCallSound(e, host.config) BY <1>4, <3>2 DEF CardCallSound
    <3> QED BY <1>2, <1>3, <2>1, <3>1, <3>2, <3>3 DEF Reload
  <2>2. CASE Sync(c)
    <3>0. PICK step : step = Step("default_env_sync", "", "") OBVIOUS
    <3>1. PICK e : e = [new EXCEPT !.pc = "command", !.kind = "sync", !.gen = gen, !.step = step] OBVIOUS
    <3>2. /\ e.kind = "sync" /\ e.plan = {} /\ e.pc = "command" /\ e.carries = new.carries
          /\ e.step.op = "default_env_sync"
      BY <1>4, <3>0, <3>1 DEF IsCall, Step
    <3>3. CardCallSound(e, host.config) BY <1>4, <3>2 DEF CardCallSound
    <3> QED BY <1>2, <1>3, <2>2, <3>0, <3>1, <3>2, <3>3 DEF Sync
  <2>3. CASE Apply(c)
    <3>0. PICK base, next, all : base = panel.config /\ next = row.draft /\ all = Changes(base, next) OBVIOUS
    <3>1. PICK step, plan, clean : step = First(all) /\ plan = all \ {First(all)} /\ clean = (base = host.config)
      OBVIOUS
    <3>2. PICK e : e = [new EXCEPT !.pc = "command", !.kind = "apply", !.gen = gen, !.step = step,
                                   !.plan = plan, !.next = next, !.clean = clean] OBVIOUS
    <3>3. /\ e.kind = "apply" /\ e.plan = plan /\ e.pc = "command" /\ e.carries = new.carries /\ e.step = step
          /\ e.next = next /\ e.clean = clean /\ e.failed = {} /\ e.applied = new.applied
      BY <1>4, <3>2 DEF IsCall
    <3>4. all # {} BY <2>3, <3>0 DEF Apply
    <3>5. Meant(all, next) /\ LeadsTo(all, base, next, {}) BY <3>0, LeadsStart
    <3>6. First(all) \in all /\ \A t \in all : Rank[First(all).op] <= Rank[t.op]
      BY <3>4, <3>5, FirstIsFirst DEF Meant
    <3>7. LeftToSend(e) = all /\ InOrder(e) BY <3>1, <3>3, <3>6 DEF LeftToSend, InOrder
    <3>8. e.applied \in BOOLEAN /\ e.applied
      <4>1. new.applied = TRUE BY <1>1, <1>3 DEF NewCardCall
      <4> QED BY <3>3, <4>1
    <3>9. MustDeliver(e) => base = host.config BY <3>1, <3>3 DEF MustDeliver
    <3>10. IsConfig(next) BY <3>0 DEF ApplyInv, ConfigsShaped, IsCardRow
    <3>11. Promise(e, host.config) BY <3>3, <3>5, <3>7, <3>8, <3>9, <3>10 DEF Promise
    <3>12. CardCallSound(e, host.config) BY <1>4, <3>3, <3>11 DEF CardCallSound
    <3>13. cardCall' = [cardCall EXCEPT ![c] = e] /\ ~RowBusy
      BY <1>2, <1>3, <2>3, <3>0, <3>1, <3>2 DEF Apply
    <3> QED BY <3>3, <3>12, <3>13
  <2> QED BY <2>1, <2>2, <2>3
<1>7. ConfigsShaped'
  <2>1. panel'.config = panel.config BY <1>1, <1>5 DEF IsPanel
  <2>2. IsCardRow(row') BY <1>5 DEF ApplyInv, ConfigsShaped, IsCardRow
  <2> QED BY <1>5, <2>1, <2>2 DEF ApplyInv, ConfigsShaped
<1>8. /\ cardCall'[c] = e
      /\ \A d \in CardCalls \ {c} : Stays(cardCall[d], cardCall'[d], host.config, host'.config)
  BY <1>5, <1>6, OthersStay
<1> QED BY <1>5, <1>6, <1>7, <1>8, ApplyMoves

\* A dispatch that ended badly: what failed by itself is noted as failed.
LEMMA FailKeeps ==
  ASSUME CardInv, ApplyInv, NEW c \in CardCalls, Flying(cardCall[c]), NEW spontaneous \in BOOLEAN,
         DispatchFails(c, spontaneous), row' = row, IsConfig(host'.config),
         host'.config = host.config \/ cardCall[c].kind = "apply",
         NEW failed, failed = IF spontaneous THEN cardCall[c].failed \cup GroupsOf(cardCall[c].step.op)
                                             ELSE cardCall[c].failed,
         cardCall[c].kind = "apply" /\ MustDeliver(cardCall[c]) =>
           LeadsTo(cardCall[c].plan, host'.config, cardCall[c].next, failed) /\ failed # {}
  PROVE  ApplyInv' /\ \A d \in CardCalls : Delivers(d)
<1>1. /\ IsCall(cardCall[c]) /\ IsPanel(panel) /\ CardCallSound(cardCall[c], host.config)
  BY DEF CardInv, Shaped, ApplyInv
<1>2. PICK old, config : old = cardCall[c] /\ config = host'.config OBVIOUS
<1>3. PICK x : x = [old EXCEPT !.failed = failed] OBVIOUS
<1>4. /\ IsCall(x) /\ x.kind = old.kind /\ x.plan = old.plan /\ x.next = old.next /\ x.clean = old.clean
      /\ x.applied = old.applied /\ x.failed = failed
  BY <1>1, <1>2, <1>3 DEF IsCall
<1>5. PICK ok \in BOOLEAN : ok = FALSE OBVIOUS
<1>55. cardCall' = Onward(c, x, ok)
  <2>1. cardCall' = Onward(c, x, FALSE) BY <1>2, <1>3 DEF DispatchFails
  <2> QED BY <1>5, <2>1
<1>6. PICK e : Onward(c, x, ok) = [cardCall EXCEPT ![c] = e] /\ DispatchEnded(x, ok, e) BY <1>4, <1>5, OnwardIs
<1>7. /\ cardCall'[c] = e
      /\ \A d \in CardCalls \ {c} : Stays(cardCall[d], cardCall'[d], host.config, host'.config)
  BY <1>55, <1>6, OthersStay
<1>8. ASSUME old.kind = "apply" PROVE Promise(e, config)
  <2>1. Promise(old, host.config) BY <1>1, <1>2, <1>8 DEF CardCallSound
  <2>2. IsConfig(x.next) /\ Meant(x.plan, x.next) /\ x.applied \in BOOLEAN
    BY <1>4, <2>1 DEF Promise, Meant, LeftToSend
  <2>3. MustDeliver(x) => LeadsTo(x.plan, config, x.next, x.failed) /\ x.failed # {}
    BY <1>2, <1>4, <1>8 DEF MustDeliver
  <2>4. MustDeliver(x) => LeadsTo(x.plan, config, x.next, x.failed) /\ ((x.applied /\ ok) <=> x.failed = {})
    BY <1>5, <2>3
  <2> QED BY <1>5, <1>6, <2>2, <2>4, OnwardKeeps
<1>9. old.kind # "apply" => e.pc = "done" BY <1>1, <1>2, <1>4, <1>6 DEF CardCallSound, DispatchEnded
<1>10. CardCallSound(e, config)
  BY <1>4, <1>6, <1>8, <1>9, NoListingShaped DEF CardCallSound, Flying, DispatchEnded
<1>11. ConfigsShaped'
  <2>1. panel'.config = panel.config BY <1>1 DEF DispatchFails, IsPanel
  <2> QED BY <2>1 DEF ApplyInv, ConfigsShaped
<1>12. e.kind = old.kind /\ (e.pc = "done" => e.plan = {}) BY <1>4, <1>6 DEF DispatchEnded
<1> QED BY <1>2, <1>7, <1>8, <1>10, <1>11, <1>12, ApplyMoves

LEMMA RefusedKeeps ==
  ASSUME CardInv, ApplyInv, NEW c \in CardCalls, CommandRefused(c) \/ CommandFails(c)
  PROVE  ApplyInv' /\ \A d \in CardCalls : Delivers(d)
<1>1. /\ cardCall[c].pc = "command" /\ Flying(cardCall[c]) /\ host' = host /\ row' = row
      /\ CardCallSound(cardCall[c], host.config) /\ IsConfig(host'.config)
  BY DEF CommandRefused, CommandFails, ApplyInv, ConfigsShaped, Flying
<1>2. PICK x, config : x = cardCall[c] /\ config = host.config OBVIOUS
<1>3. PICK spontaneous \in BOOLEAN :
        DispatchFails(c, spontaneous) /\ (~spontaneous => ~Accepts(x.step, config))
  BY <1>2 DEF CommandRefused, CommandFails
<1>4. PICK failed : failed = IF spontaneous THEN cardCall[c].failed \cup GroupsOf(cardCall[c].step.op)
                                            ELSE cardCall[c].failed
  OBVIOUS
<1>5. ASSUME x.kind = "apply", MustDeliver(x) PROVE LeadsTo(x.plan, config, x.next, failed) /\ failed # {}
  <2>1. /\ Meant(LeftToSend(x), x.next) /\ InOrder(x) /\ LeadsTo(LeftToSend(x), config, x.next, x.failed)
    BY <1>1, <1>2, <1>5 DEF CardCallSound, Promise
  <2>2. /\ x.step \in LeftToSend(x) /\ x.plan = LeftToSend(x) \ {x.step} /\ x.step.op \in RankedOps
        /\ \A t \in LeftToSend(x) : Rank[x.step.op] <= Rank[t.op]
    <3>1. LeftToSend(x) = x.plan \cup {x.step} BY <1>1, <1>2 DEF LeftToSend
    <3>2. x.step.op \in RankedOps BY <2>1, <3>1 DEF Meant
    <3>3. Rank[x.step.op] <= Rank[x.step.op] BY <3>2 DEF Rank, RankedOps, MountOps, SecretOps, PortOps
    <3> QED BY <1>1, <1>2, <2>1, <3>1, <3>2, <3>3 DEF InOrder
  <2>3. CASE spontaneous
    <3>1. failed = x.failed \cup GroupsOf(x.step.op) BY <1>2, <1>4, <2>3
    <3>2. LeadsTo(LeftToSend(x) \ {x.step}, config, x.next, failed) BY <2>1, <2>2, <3>1, LeadsFailed
    <3>3. GroupsOf(x.step.op) # {} BY <2>2, GroupsAre
    <3> QED BY <2>2, <3>1, <3>2, <3>3
  <2>4. CASE ~spontaneous
    <3>1. failed = x.failed /\ ~Accepts(x.step, config) /\ ~Clashes(x.next)
      BY <1>2, <1>3, <1>4, <1>5, <2>4 DEF MustDeliver
    <3>2. GroupsOf(x.step.op) \subseteq failed /\ failed # {} BY <2>1, <2>2, <3>1, RefusedAlready
    <3>3. LeadsTo(LeftToSend(x) \ {x.step}, config, x.next, failed) BY <2>1, <2>2, <3>1, <3>2, LeadsFailed
    <3> QED BY <2>2, <3>2, <3>3
  <2> QED BY <2>3, <2>4
<1>6. cardCall[c].kind = "apply" /\ MustDeliver(cardCall[c]) =>
        LeadsTo(cardCall[c].plan, host'.config, cardCall[c].next, failed) /\ failed # {}
  BY <1>1, <1>2, <1>5
<1> QED BY <1>1, <1>3, <1>4, <1>6, FailKeeps

LEMMA ChangedKeeps ==
  ASSUME ApplyInv, NEW c \in CardCalls, Changed(c)
  PROVE  /\ IsConfig(host'.config) /\ (host' = host => host'.config = host.config)
         /\ cardCall[c].kind = "apply" /\ MustDeliver(cardCall[c]) =>
              LeadsTo(cardCall[c].plan, host'.config, cardCall[c].next, cardCall[c].failed)
<1>1. PICK x, s, config, after : /\ x = cardCall[c] /\ s = x.step /\ config = host.config
                                 /\ after = AppliedStep(s, config)
  OBVIOUS
<1>2. /\ x.pc = "command" /\ Flying(x) /\ Accepts(s, config) /\ CardCallSound(x, config) /\ IsConfig(config)
      /\ host' = IF after = config THEN host ELSE [version |-> host.version + 1, config |-> after]
  BY <1>1 DEF Changed, ApplyInv, ConfigsShaped, Flying
<1>3. host'.config = after BY <1>1, <1>2
<1>4. s.op \in RankedOps \cup {"default_env_sync"}
  BY <1>1, <1>2 DEF CardCallSound, Promise, Meant, LeftToSend
<1>5. IsConfig(after) BY <1>1, <1>2, <1>4, AppliedParts
<1>6. ASSUME x.kind = "apply", MustDeliver(x) PROVE LeadsTo(x.plan, after, x.next, x.failed)
  <2>1. /\ Meant(LeftToSend(x), x.next) /\ InOrder(x) /\ LeadsTo(LeftToSend(x), config, x.next, x.failed)
    BY <1>2, <1>6 DEF CardCallSound, Promise
  <2>2. s \in LeftToSend(x) /\ x.plan = LeftToSend(x) \ {s} BY <1>1, <1>2, <2>1 DEF LeftToSend, InOrder
  <2> QED BY <1>1, <1>2, <2>1, <2>2, LeadsDone
<1> QED BY <1>1, <1>3, <1>5, <1>6

LEMMA DoneKeeps ==
  ASSUME CardInv, ApplyInv, NEW c \in CardCalls, CommandDone(c)
  PROVE  ApplyInv' /\ \A d \in CardCalls : Delivers(d)
<1>1. /\ IsConfig(host'.config) /\ (host' = host => host'.config = host.config)
      /\ cardCall[c].kind = "apply" /\ MustDeliver(cardCall[c]) =>
           LeadsTo(cardCall[c].plan, host'.config, cardCall[c].next, cardCall[c].failed)
  BY ChangedKeeps DEF CommandDone
<1>2. /\ cardCall[c].pc = "command" /\ Flying(cardCall[c]) /\ panel' = panel /\ row' = row
      /\ IsCall(cardCall[c]) /\ CardCallSound(cardCall[c], host.config)
  BY DEF CommandDone, Changed, Flying, CardInv, Shaped, ApplyInv
<1>3. PICK calls : /\ calls = IF host' = host THEN cardCall ELSE CardDisturbed(CardCalls \ {c})
                   /\ cardCall' = [calls EXCEPT ![c].pc = "listing"]
  BY DEF CommandDone
<1>4. DOMAIN calls = CardCalls /\ calls[c] = cardCall[c] BY <1>3 DEF CardDisturbed, CardInv, Shaped
<1>5. PICK x, e, config : x = cardCall[c] /\ e = [x EXCEPT !.pc = "listing"] /\ config = host'.config OBVIOUS
<1>6. /\ e.pc = "listing" /\ e.kind = x.kind /\ e.plan = x.plan /\ e.next = x.next /\ e.failed = x.failed
      /\ e.clean = x.clean /\ e.applied = x.applied /\ e.carries = x.carries
  BY <1>2, <1>5 DEF IsCall
<1>7. cardCall'[c] = e /\ \A d \in CardCalls \ {c} : cardCall'[d] = calls[d]
  <2>1. cardCall' = [calls EXCEPT ![c] = e] BY <1>3, <1>4, <1>5
  <2> QED BY <1>4, <2>1
<1>8. ASSUME NEW d \in CardCalls \ {c} PROVE Stays(cardCall[d], cardCall'[d], host.config, host'.config)
  <2>1. CASE host' = host BY <1>1, <1>3, <1>7, <2>1 DEF Stays
  <2>2. CASE host' # host
    <3>1. cardCall'[d] = IF InFlight(d) THEN [cardCall[d] EXCEPT !.clean = FALSE] ELSE cardCall[d]
      BY <1>3, <1>7, <2>2 DEF CardDisturbed
    <3>2. IsCall(cardCall[d]) BY DEF CardInv, Shaped
    <3> QED BY <3>1, <3>2 DEF Stays, InFlight, Flying, IsCall
  <2> QED BY <2>1, <2>2
<1>9. ASSUME x.kind = "apply" PROVE Promise(e, config)
  <2>1. Promise(x, host.config) BY <1>2, <1>5, <1>9 DEF CardCallSound
  <2>2. LeftToSend(e) = x.plan /\ x.plan \subseteq LeftToSend(x) BY <1>6 DEF LeftToSend
  <2>3. MustDeliver(e) => LeadsTo(LeftToSend(e), config, e.next, e.failed) BY <1>1, <1>5, <1>6, <1>9, <2>2 DEF MustDeliver
  <2>4. Meant(LeftToSend(e), e.next) BY <1>6, <2>1, <2>2 DEF Promise, Meant
  <2> QED BY <1>6, <2>1, <2>3, <2>4 DEF Promise, InOrder, MustDeliver
<1>10. CardCallSound(e, config) /\ e.pc # "done"
  BY <1>2, <1>5, <1>6, <1>9 DEF CardCallSound, Flying
<1>11. ConfigsShaped' BY <1>1, <1>2 DEF ConfigsShaped, ApplyInv
<1>12. Flying(cardCall'[c]) /\ cardCall'[c].kind = "apply" => Flying(cardCall[c]) /\ cardCall[c].kind = "apply"
  BY <1>2, <1>5, <1>6, <1>7
<1> QED BY <1>5, <1>7, <1>8, <1>10, <1>11, <1>12, ApplyMoves

LEMMA PushFailsKeeps ==
  ASSUME CardInv, ApplyInv, NEW c \in CardCalls, PathPushFails(c)
  PROVE  ApplyInv' /\ \A d \in CardCalls : Delivers(d)
<1>1. /\ IsConfig(host'.config)
      /\ cardCall[c].kind = "apply" /\ MustDeliver(cardCall[c]) =>
           LeadsTo(cardCall[c].plan, host'.config, cardCall[c].next, cardCall[c].failed)
  BY ChangedKeeps DEF PathPushFails
<1>2. /\ Flying(cardCall[c]) /\ cardCall[c].kind = "apply" /\ row' = row /\ DispatchFails(c, TRUE)
      /\ cardCall[c].step.op = "path_set"
  <2>1. cardCall[c].pc = "command" /\ cardCall[c].step.op = "path_set" /\ CardCallSound(cardCall[c], host.config)
    BY DEF PathPushFails, Changed, ApplyInv
  <2> QED BY <2>1 DEF PathPushFails, CardCallSound, Flying
<1>3. PICK failed : failed = cardCall[c].failed \cup GroupsOf(cardCall[c].step.op) OBVIOUS
<1>4. failed # {} /\ cardCall[c].failed \subseteq failed
  <2>1. GroupsOf("path_set") # {} BY GroupsAre DEF RankedOps
  <2> QED BY <1>2, <1>3, <2>1
<1>5. cardCall[c].kind = "apply" /\ MustDeliver(cardCall[c]) =>
        LeadsTo(cardCall[c].plan, host'.config, cardCall[c].next, failed) /\ failed # {}
  <2> SUFFICES ASSUME MustDeliver(cardCall[c])
               PROVE  LeadsTo(cardCall[c].plan, host'.config, cardCall[c].next, failed)
    BY <1>4
  <2> QED BY <1>1, <1>2, <1>4, LeadsWeakly
<1> QED BY <1>1, <1>2, <1>3, <1>5, FailKeeps

LEMMA ListKeeps ==
  ASSUME CardInv, ApplyInv, NEW c \in CardCalls, List(c)
  PROVE  ApplyInv' /\ \A d \in CardCalls : Delivers(d)
<1>1. /\ cardCall[c].pc = "listing" /\ Flying(cardCall[c]) /\ host' = host /\ panel' = panel /\ row' = row
      /\ IsCall(cardCall[c]) /\ CardCallSound(cardCall[c], host.config) /\ IsConfig(host.config)
  BY DEF List, Flying, CardInv, Shaped, ApplyInv, ConfigsShaped
<1>2. PICK x, carries : x = cardCall[c] /\ carries = [version |-> host.version, config |-> host.config] OBVIOUS
<1>3. PICK e : e = [x EXCEPT !.pc = "answer", !.carries = carries] OBVIOUS
<1>4. /\ e.pc = "answer" /\ e.kind = x.kind /\ e.plan = x.plan /\ e.next = x.next /\ e.failed = x.failed
      /\ e.clean = x.clean /\ e.applied = x.applied /\ e.carries.config = host.config
  BY <1>1, <1>2, <1>3 DEF IsCall
<1>5. Promise(x, host.config) => Promise(e, host.config)
  <2>1. LeftToSend(e) = LeftToSend(x) /\ InOrder(e) BY <1>1, <1>2, <1>4 DEF LeftToSend, InOrder
  <2> QED BY <1>4, <2>1 DEF Promise, MustDeliver
<1>6. CardCallSound(e, host.config) BY <1>1, <1>2, <1>4, <1>5 DEF CardCallSound, Flying
<1>7. /\ cardCall'[c] = e
      /\ \A d \in CardCalls \ {c} : Stays(cardCall[d], cardCall'[d], host.config, host'.config)
  <2>1. cardCall' = [cardCall EXCEPT ![c] = e] BY <1>2, <1>3 DEF List
  <2> QED BY <1>1, <2>1, OthersStay
<1>8. ConfigsShaped' BY <1>1 DEF ConfigsShaped, ApplyInv
<1>9. e.pc # "done" /\ (e.kind = "apply" => cardCall[c].kind = "apply") BY <1>2, <1>4
<1> QED BY <1>1, <1>6, <1>7, <1>8, <1>9, ApplyMoves

LEMMA ListFailsKeeps ==
  ASSUME CardInv, ApplyInv, NEW c \in CardCalls, ListFails(c)
  PROVE  ApplyInv' /\ \A d \in CardCalls : Delivers(d)
<1>1. /\ cardCall[c].pc = "listing" /\ Flying(cardCall[c]) /\ host' = host /\ row' = row
      /\ IsCall(cardCall[c]) /\ IsPanel(panel) /\ CardCallSound(cardCall[c], host.config) /\ IsConfig(host'.config)
  BY DEF ListFails, Flying, CardInv, Shaped, ApplyInv, ConfigsShaped
<1>2. CASE cardCall[c].kind = "reload"
  <2>1. PICK ok \in BOOLEAN : ok = FALSE OBVIOUS
  <2>2. cardCall' = Onward(c, cardCall[c], ok)
    <3>1. cardCall' = Onward(c, cardCall[c], FALSE) BY <1>2 DEF ListFails
    <3> QED BY <2>1, <3>1
  <2>3. PICK e : Onward(c, cardCall[c], ok) = [cardCall EXCEPT ![c] = e] /\ DispatchEnded(cardCall[c], ok, e)
    BY <1>1, OnwardIs
  <2>4. e.pc = "done" /\ e.kind = "reload" /\ IsConfig(e.carries.config)
    BY <1>1, <1>2, <2>3, NoListingShaped DEF CardCallSound, DispatchEnded
  <2>5. CardCallSound(e, host'.config) BY <2>4 DEF CardCallSound, Flying
  <2>6. /\ cardCall'[c] = e
        /\ \A d \in CardCalls \ {c} : Stays(cardCall[d], cardCall'[d], host.config, host'.config)
    BY <1>1, <2>2, <2>3, OthersStay
  <2>7. ConfigsShaped'
    <3>1. panel' = panel \/ panel' = [panel EXCEPT !.toast = "error", !.notice = TRUE, !.ready = FALSE]
      BY <1>2 DEF ListFails
    <3>2. panel'.config = panel.config BY <1>1, <3>1 DEF IsPanel
    <3> QED BY <1>1, <3>2 DEF ConfigsShaped, ApplyInv
  <2> QED BY <2>4, <2>5, <2>6, <2>7, ApplyMoves
<1>3. CASE cardCall[c].kind # "reload"
  <2>1. DispatchFails(c, TRUE) BY <1>3 DEF ListFails
  <2>2. PICK x, config, failed : /\ x = cardCall[c] /\ config = host.config
                                 /\ failed = x.failed \cup GroupsOf(x.step.op)
    OBVIOUS
  <2>3. ASSUME x.kind = "apply", MustDeliver(x) PROVE LeadsTo(x.plan, config, x.next, failed) /\ failed # {}
    <3>1. LeadsTo(LeftToSend(x), config, x.next, x.failed) BY <1>1, <2>2, <2>3 DEF CardCallSound, Promise
    <3>2. LeftToSend(x) = x.plan BY <1>1, <2>2 DEF LeftToSend
    <3>3. \A op : GroupsOf(op) # {} BY DEF GroupsOf
    <3>4. x.failed \subseteq failed /\ failed # {} BY <2>2, <3>3
    <3> QED BY <3>1, <3>2, <3>4, LeadsWeakly
  <2>4. cardCall[c].kind = "apply" /\ MustDeliver(cardCall[c]) =>
          LeadsTo(cardCall[c].plan, host'.config, cardCall[c].next, failed) /\ failed # {}
    BY <1>1, <2>2, <2>3
  <2> QED BY <1>1, <2>1, <2>2, <2>4, FailKeeps
<1> QED BY <1>2, <1>3

LEMMA ListedKeeps ==
  ASSUME CardInv, ApplyInv, NEW c \in CardCalls, Listed(c)
  PROVE  ApplyInv' /\ \A d \in CardCalls : Delivers(d)
<1>1. /\ cardCall[c].pc = "answer" /\ Flying(cardCall[c]) /\ host' = host
      /\ IsCall(cardCall[c]) /\ IsPanel(panel) /\ CardCallSound(cardCall[c], host.config)
      /\ IsConfig(cardCall[c].carries.config) /\ IsConfig(host'.config)
  BY DEF Listed, Flying, CardInv, Shaped, ApplyInv, ConfigsShaped, CardCallSound
<1>2. PICK x, config : x = cardCall[c] /\ config = host.config OBVIOUS
<1>3. PICK ok \in BOOLEAN : ok = TRUE OBVIOUS
<1>4. cardCall' = Onward(c, x, ok)
  <2>1. cardCall' = Onward(c, x, TRUE) BY <1>2 DEF Listed
  <2> QED BY <1>3, <2>1
<1>5. PICK e : Onward(c, x, ok) = [cardCall EXCEPT ![c] = e] /\ DispatchEnded(x, ok, e) BY <1>1, <1>2, OnwardIs
<1>6. /\ cardCall'[c] = e
      /\ \A d \in CardCalls \ {c} : Stays(cardCall[d], cardCall'[d], host.config, host'.config)
  BY <1>1, <1>4, <1>5, OthersStay
<1>7. ASSUME x.kind = "apply" PROVE Promise(e, config)
  <2>1. Promise(x, config) /\ LeftToSend(x) = x.plan BY <1>1, <1>2, <1>7 DEF CardCallSound, LeftToSend
  <2>2. IsConfig(x.next) /\ Meant(x.plan, x.next) /\ x.applied \in BOOLEAN BY <2>1 DEF Promise
  <2>3. MustDeliver(x) => LeadsTo(x.plan, config, x.next, x.failed) /\ ((x.applied /\ ok) <=> x.failed = {})
    BY <1>3, <2>1 DEF Promise
  <2> QED BY <1>5, <2>2, <2>3, OnwardKeeps
<1>8. x.kind # "apply" => e.pc = "done" BY <1>1, <1>2, <1>5 DEF CardCallSound, DispatchEnded
<1>9. CardCallSound(e, config)
  BY <1>5, <1>7, <1>8, NoListingShaped DEF CardCallSound, Flying, DispatchEnded
<1>10. ConfigsShaped'
  <2>1. CASE Outdated(c)
    <3>1. PICK generation : panel' = [panel EXCEPT !.generation = generation, !.ready = TRUE] /\ row' = row
      BY <2>1 DEF Listed
    <3>2. panel'.config = panel.config BY <1>1, <3>1 DEF IsPanel
    <3> QED BY <1>1, <3>1, <3>2 DEF ConfigsShaped, ApplyInv
  <2>2. CASE ~Outdated(c)
    <3>1. PICK shown : shown = cardCall[c].carries.config OBVIOUS
    <3>2. panel'.config = shown /\ row' = Adopts(shown) BY <2>2, <3>1 DEF Listed
    <3>3. IsCardRow(row') BY <1>1, <3>1, <3>2 DEF Adopts, IsCardRow, ConfigsShaped, ApplyInv
    <3> QED BY <1>1, <3>1, <3>2, <3>3 DEF ConfigsShaped
  <2> QED BY <2>1, <2>2
<1>11. e.kind = x.kind /\ (e.pc = "done" => e.plan = {}) BY <1>5 DEF DispatchEnded
<1> QED BY <1>1, <1>2, <1>6, <1>7, <1>9, <1>10, <1>11, ApplyMoves

\* The steps of nobody's call: a change of the container that no call made
\* spoils every apply under way.
LEMMA OutsideKeeps ==
  ASSUME CardInv, ApplyInv, \/ \E d \in Drafts : Edit(d) \/ ChangedOutside(d)
                            \/ Discard \/ UNCHANGED cardVars
  PROVE  ApplyInv' /\ \A d \in CardCalls : Delivers(d)
<1>1. \A d \in Drafts : IsConfig(d) BY CardAssumption, ConfigShape
<1>2. ConfigsShaped'
  <2>1. panel' = panel BY DEF Edit, ChangedOutside, Discard, cardVars
  <2>2. IsConfig(host'.config) BY <1>1 DEF Edit, ChangedOutside, Discard, cardVars, ApplyInv, ConfigsShaped
  <2>3. IsCardRow(row') BY <1>1 DEF Edit, ChangedOutside, Discard, cardVars, ApplyInv, ConfigsShaped, IsCardRow
  <2> QED BY <2>1, <2>2, <2>3 DEF ApplyInv, ConfigsShaped
<1>3. ASSUME NEW d \in CardCalls PROVE Stays(cardCall[d], cardCall'[d], host.config, host'.config)
  <2>1. CASE host' = host /\ cardCall' = cardCall BY <2>1 DEF Stays
  <2>2. CASE cardCall' = CardDisturbed(CardCalls)
    <3>1. cardCall'[d] = IF InFlight(d) THEN [cardCall[d] EXCEPT !.clean = FALSE] ELSE cardCall[d]
      BY <2>2 DEF CardDisturbed
    <3>2. IsCall(cardCall[d]) BY DEF CardInv, Shaped
    <3> QED BY <3>1, <3>2 DEF Stays, InFlight, Flying, IsCall
  <2> QED BY <2>1, <2>2 DEF Edit, ChangedOutside, Discard, cardVars
<1>4. ASSUME NEW d \in CardCalls
      PROVE  /\ CardCallSound(cardCall'[d], host'.config)
             /\ cardCall'[d].pc = cardCall[d].pc /\ cardCall'[d].kind = cardCall[d].kind
  <2>1. IsCall(cardCall[d]) /\ CardCallSound(cardCall[d], host.config) BY DEF CardInv, Shaped, ApplyInv
  <2>2. PICK x, y, config, after : x = cardCall[d] /\ y = cardCall'[d] /\ config = host.config /\ after = host'.config
    OBVIOUS
  <2>3. Stays(x, y, config, after) BY <1>3, <2>2
  <2> QED BY <2>1, <2>2, <2>3, StaysSound
<1>5. OneApply' BY <1>4 DEF ApplyInv, OneApply, Flying
<1>6. \A d \in CardCalls : Delivers(d) BY <1>4 DEF Delivers
<1> QED BY <1>2, <1>4, <1>5, <1>6 DEF ApplyInv

LEMMA ApplyInitially == CardInit => ApplyInv
<1> SUFFICES ASSUME CardInit PROVE ApplyInv OBVIOUS
<1>1. PICK d \in Drafts : host = [version |-> 1, config |-> d] BY DEF CardInit
<1>2. /\ host.config = d /\ IsConfig(d)
      /\ panel.config = d /\ row = [draft |-> d, staged |-> d]
  BY <1>1, CardAssumption, ConfigShape DEF CardInit
<1>3. ConfigsShaped BY <1>2 DEF ConfigsShaped, IsCardRow
<1>4. PICK e : e = NewCardCall OBVIOUS
<1>5. e.pc = "idle" /\ e.carries = NoListing BY <1>4 DEF NewCardCall
<1>6. \A c \in CardCalls : cardCall[c] = e BY <1>4 DEF CardInit
<1>7. CardCallSound(e, host.config) BY <1>4, <1>5, NoListingShaped DEF CardCallSound, Flying
<1> QED BY <1>3, <1>5, <1>6, <1>7 DEF ApplyInv, OneApply, Flying

LEMMA ApplyStep ==
  CardInv /\ ApplyInv /\ [CardNext]_cardVars => ApplyInv' /\ \A c \in CardCalls : Delivers(c)
<1> SUFFICES ASSUME CardInv, ApplyInv, [CardNext]_cardVars
             PROVE  ApplyInv' /\ \A c \in CardCalls : Delivers(c)
  OBVIOUS
<1>1. ASSUME NEW c \in CardCalls, CardCallStep(c) PROVE ApplyInv' /\ \A d \in CardCalls : Delivers(d)
  BY <1>1, StartKeeps, RefusedKeeps, DoneKeeps, PushFailsKeeps, ListKeeps, ListFailsKeeps, ListedKeeps
  DEF CardCallStep
<1>2. CASE \/ \E d \in Drafts : Edit(d) \/ ChangedOutside(d)
           \/ Discard \/ UNCHANGED cardVars
  BY <1>2, OutsideKeeps
<1> QED BY <1>1, <1>2 DEF CardNext

\* An apply that is computed from the container as it is, and that nobody
\* interferes with, leaves every group of the container as it was edited but for
\* the groups whose own command failed, and it reports success exactly if none
\* failed (applyConfig): in the order it sends them, the orchestrator refuses no
\* command of a draft the container can have.
THEOREM ApplyLeavesDraft == CardSpec => ApplyDelivers
<1>1. CardInv /\ ApplyInv /\ [CardNext]_cardVars => [\A c \in CardCalls : Delivers(c)]_cardVars BY ApplyStep
<1> QED BY CardInitially, CardStep, ApplyInitially, ApplyStep, <1>1, PTL DEF CardSpec, ApplyDelivers

-----------------------------------------------------------------------------
(* MountDialog.                                                            *)

PopupType ==
  [open : BOOLEAN, confirming : BOOLEAN, origin : {"typed", "browsed"}, checking : BOOLEAN,
   listing : BOOLEAN, missing : SUBSET (Typings \cup Folders), dialog : {"create", "edit"}]
CheckType == [for : {"blur", "submit"}, project : Typings \cup Folders, current : BOOLEAN]
PickerType ==
  [open : BOOLEAN, path : Folders \cup {RootFolder}, selected : Folders \cup {NoFolder},
   level : SUBSET Folders, child : SUBSET Folders, failed : BOOLEAN, busy : BOOLEAN,
   pathCall : BOOLEAN, childCall : BOOLEAN]
CreationType == [name : Volumes, previous : Volumes \cup {""}, left : BOOLEAN]

-----------------------------------------------------------------------------
(* What the operators of the dialog return.                                *)

LEMMA EmptyMountTyped ==
  ASSUME NEW kind \in PopupKinds
  PROVE  EmptyMount(kind) \in MountDrafts /\ EmptyMount(kind).kind = kind /\ EmptyMount(kind).volume = ""
PROOF BY FoldersAssumption DEF EmptyMount, MountDrafts, Destinations

\* The entries of a list fill an empty volume, and nothing else of a draft.
LEMMA PreselectedFacts ==
  ASSUME NEW m \in MountDrafts, NEW list \in SUBSET Volumes, NEW d \in Preselected(m, list)
  PROVE  /\ d \in MountDrafts /\ d.kind = m.kind /\ d.project = m.project
         /\ d.volume = m.volume \/ (d.volume \in list /\ m.kind = "volume")
         /\ m.kind = "project" => d = m
PROOF BY DEF Preselected, MountDrafts, PopupKinds

LEMMA StaleFacts ==
  ASSUME NEW set \in SUBSET CheckType
  PROVE  /\ Stale(set) \subseteq CheckType
         /\ \A c \in Stale(set) : ~c.current /\ \E b \in set : b.project = c.project
PROOF BY DEF Stale, CheckType

LEMMA ClosedTyped ==
  ASSUME NEW dialog \in {"create", "edit"}
  PROVE  /\ ClosedPopup(dialog) \in PopupType /\ ClosedPopup(dialog).dialog = dialog
         /\ ~ClosedPopup(dialog).open /\ ~ClosedPopup(dialog).checking /\ ~ClosedPopup(dialog).listing
         /\ ~ClosedPopup(dialog).confirming
         /\ ClosedPicker \in PickerType /\ ~ClosedPicker.open /\ ~ClosedPicker.childCall
PROOF BY DEF ClosedPopup, PopupType, ClosedPicker, PickerType

LEMMA RetypedTyped ==
  ASSUME addPopup \in PopupType, NEW origin \in {"typed", "browsed"}
  PROVE  /\ Retyped(origin) \in PopupType /\ Retyped(origin).origin = origin
         /\ Retyped(origin).open = addPopup.open /\ Retyped(origin).checking = addPopup.checking
         /\ Retyped(origin).confirming = addPopup.confirming /\ Retyped(origin).dialog = addPopup.dialog
         /\ ~Retyped(origin).listing /\ Retyped(origin).missing = {}
PROOF BY DEF Retyped, PopupType

\* The types, by the names of the records.
LEMMA DialogTypes ==
  DialogTypeOK <=>
    /\ addPopup \in PopupType /\ mountDraft \in MountDrafts /\ checks \subseteq CheckType
    /\ picker \in PickerType /\ volumes \subseteq Volumes
    /\ creation = NoFolder \/ creation \in CreationType
    /\ added = NoFolder \/ added \in MountDrafts
    /\ vouched \in [folders : SUBSET Folders, volumes : SUBSET Volumes]
PROOF BY DEF DialogTypeOK, PopupType, CheckType, PickerType, CreationType

LEMMA TypedNext ==
  ASSUME addPopup' \in PopupType, mountDraft' \in MountDrafts, checks' \subseteq CheckType,
         picker' \in PickerType, volumes' \subseteq Volumes,
         creation' = NoFolder \/ creation' \in CreationType,
         added' = NoFolder \/ added' \in MountDrafts,
         vouched' \in [folders : SUBSET Folders, volumes : SUBSET Volumes]
  PROVE  DialogTypeOK'
PROOF BY DEF DialogTypeOK, PopupType, CheckType, PickerType, CreationType

-----------------------------------------------------------------------------
(***************************************************************************)
(* The invariant.                                                          *)
(***************************************************************************)
\* A check that is current belongs to the draft on screen, and Add waits for
\* it; nothing is checked behind the browser.
ChecksInv ==
  /\ addPopup.checking => addPopup.open
  /\ \A c \in checks : Spells[c.project] # NoFolder
  /\ \A c \in checks : c.current =>
       /\ addPopup.open /\ addPopup.origin = "typed"
       /\ mountDraft.kind = "project" /\ mountDraft.project = c.project
       /\ c.for = "submit" => addPopup.checking
  /\ picker.open => addPopup.open /\ mountDraft.kind = "project" /\ ~addPopup.checking /\ ~addPopup.confirming

\* What the browser offers is what the host listed.
PickerInv ==
  /\ addPopup.open /\ mountDraft.kind = "project" /\ addPopup.origin = "browsed" =>
       mountDraft.project \in vouched.folders
  /\ picker.childCall => picker.open /\ picker.selected # NoFolder
  /\ picker.open =>
       /\ picker.level \subseteq vouched.folders /\ picker.child \subseteq vouched.folders
       /\ picker.selected \in vouched.folders \cup {NoFolder}
       /\ picker.path \notin vouched.folders \cup {RootFolder} =>
            picker.failed \/ (picker.busy /\ picker.pathCall /\ ~picker.childCall)

\* A row of the create dialog names a volume that was there, or the one that
\* is being created.
StorageInv ==
  /\ volumes \subseteq vouched.volumes
  /\ addPopup.dialog = "create" =>
       /\ creation # NoFolder => /\ creation.previous \in vouched.volumes \cup {""}
                                 /\ creation.left => mountDraft.kind = "project"
       /\ mountDraft.kind = "volume" =>
            \/ mountDraft.volume \in vouched.volumes \cup {""}
            \/ creation # NoFolder /\ mountDraft.volume = creation.name

DialogInv == DialogTypeOK /\ NeverStuck /\ ChecksInv /\ PickerInv /\ StorageInv

\* Stale checks are still checks of paths that may be asked for.
LEMMA StaleSpelled ==
  ASSUME DialogInv, NEW set \in SUBSET checks
  PROVE  Stale(set) \subseteq CheckType /\ \A c \in Stale(set) : ~c.current /\ Spells[c.project] # NoFolder
PROOF
<1>1. set \in SUBSET CheckType BY DialogTypes DEF DialogInv
<1>2. \A b \in set : Spells[b.project] # NoFolder BY DEF DialogInv, ChecksInv
<1>3. \A c \in Stale(set) : ~c.current /\ \E b \in set : b.project = c.project BY <1>1, StaleFacts
<1>4. Stale(set) \subseteq CheckType BY <1>1, StaleFacts
<1>5. ASSUME NEW c \in Stale(set) PROVE Spells[c.project] # NoFolder
  <2>1. PICK b \in set : b.project = c.project BY <1>3
  <2> QED BY <2>1, <1>2
<1> QED BY <1>3, <1>4, <1>5

-----------------------------------------------------------------------------
(* Steps that several actions share.                                       *)

\* The popup closes: everything of it is at rest.
LEMMA CloseStep ==
  ASSUME DialogInv, NEW left \in SUBSET checks, NEW found \in SUBSET Folders, CloseAdd(left, found),
         ~picker.open, picker' = picker, volumes' = volumes, added' = NoFolder \/ added' \in MountDrafts
  PROVE  DialogInv'
PROOF
<1>t. /\ addPopup \in PopupType /\ mountDraft \in MountDrafts /\ checks \subseteq CheckType
      /\ picker \in PickerType /\ volumes \subseteq Volumes
      /\ creation = NoFolder \/ creation \in CreationType
      /\ vouched \in [folders : SUBSET Folders, volumes : SUBSET Volumes]
  BY DialogTypes DEF DialogInv
<1>d. addPopup.dialog \in {"create", "edit"} BY <1>t DEF PopupType
<1>1. /\ addPopup' \in PopupType /\ addPopup'.dialog = addPopup.dialog
      /\ ~addPopup'.open /\ ~addPopup'.checking /\ ~addPopup'.listing
  BY <1>d, ClosedTyped DEF CloseAdd
<1>2. mountDraft' \in MountDrafts /\ mountDraft'.kind = "project" /\ mountDraft'.volume = ""
  BY EmptyMountTyped DEF CloseAdd, PopupKinds
<1>3. checks' \subseteq CheckType /\ \A c \in checks' : ~c.current /\ Spells[c.project] # NoFolder
  BY StaleSpelled DEF CloseAdd
<1>4. /\ vouched' \in [folders : SUBSET Folders, volumes : SUBSET Volumes]
      /\ vouched'.volumes = vouched.volumes
  BY <1>t DEF CloseAdd
<1>5. \/ creation = NoFolder /\ creation' = NoFolder
      \/ /\ creation # NoFolder /\ creation' \in CreationType
         /\ creation'.previous = creation.previous
  BY <1>t DEF CloseAdd, CreationType
<1>6. DialogTypeOK'
  BY <1>t, <1>1, <1>2, <1>3, <1>4, <1>5 DEF DialogTypeOK, PopupType, CheckType, PickerType, CreationType
<1>7. NeverStuck' BY <1>1 DEF NeverStuck
<1>8. ChecksInv' BY <1>1, <1>3 DEF ChecksInv
<1>9. PickerInv' BY <1>1 DEF PickerInv, DialogInv
<1>10. StorageInv' BY <1>1, <1>2, <1>4, <1>5 DEF StorageInv, DialogInv
<1> QED BY <1>6, <1>7, <1>8, <1>9, <1>10 DEF DialogInv

\* A new kind or project path: the checks are stale, and none is awaited.
LEMMA RetypeStep ==
  ASSUME DialogInv, NEW origin \in {"typed", "browsed"},
         addPopup' = Retyped(origin), checks' = Stale(checks), ~addPopup.checking,
         mountDraft' \in MountDrafts,
         UNCHANGED <<volumes, creation, added, vouched>>,
         (picker' = picker /\ ~picker.open) \/ picker' = ClosedPicker,
         mountDraft'.kind = "project" /\ origin = "browsed" => mountDraft'.project \in vouched.folders,
         \/ mountDraft'.kind = mountDraft.kind /\ mountDraft'.volume = mountDraft.volume
         \/ ~DialogBusy /\ mountDraft'.volume \in volumes \cup {""}
  PROVE  DialogInv'
PROOF
<1>t. /\ addPopup \in PopupType /\ mountDraft \in MountDrafts /\ checks \subseteq CheckType
      /\ picker \in PickerType /\ volumes \subseteq Volumes
      /\ creation = NoFolder \/ creation \in CreationType
      /\ added = NoFolder \/ added \in MountDrafts
      /\ vouched \in [folders : SUBSET Folders, volumes : SUBSET Volumes]
  BY DialogTypes DEF DialogInv
<1>1. /\ addPopup' \in PopupType /\ addPopup'.dialog = addPopup.dialog /\ addPopup'.open = addPopup.open
      /\ ~addPopup'.checking /\ ~addPopup'.listing /\ addPopup'.origin = origin
  BY <1>t, RetypedTyped
<1>2. checks' \subseteq CheckType /\ \A c \in checks' : ~c.current /\ Spells[c.project] # NoFolder
  BY StaleSpelled
<1>3. picker' \in PickerType /\ ~picker'.open /\ ~picker'.childCall
  BY <1>t, ClosedTyped DEF DialogInv, PickerInv
<1>4. DialogTypeOK'
  BY <1>t, <1>1, <1>2, <1>3 DEF DialogTypeOK, PopupType, CheckType, PickerType, CreationType
<1>5. NeverStuck' BY <1>1, <1>3 DEF NeverStuck
<1>6. ChecksInv' BY <1>1, <1>2, <1>3 DEF ChecksInv
<1>7. PickerInv' BY <1>1, <1>3 DEF PickerInv
<1>8. StorageInv'
  <2>1. volumes' \subseteq vouched'.volumes BY DEF DialogInv, StorageInv
  <2>2. CASE mountDraft'.kind = mountDraft.kind /\ mountDraft'.volume = mountDraft.volume
    BY <2>1, <2>2, <1>1 DEF DialogInv, StorageInv
  <2>3. CASE ~DialogBusy /\ mountDraft'.volume \in volumes \cup {""}
    <3>1. addPopup.dialog = "create" => creation' = NoFolder BY <2>3 DEF DialogBusy
    <3> QED BY <2>1, <2>3, <3>1, <1>1 DEF DialogInv, StorageInv
  <2> QED BY <2>2, <2>3
<1> QED BY <1>4, <1>5, <1>6, <1>7, <1>8 DEF DialogInv

LEMMA DraftStep ==
  ASSUME DialogInv, OpenAdd \/ PickKind \/ TypeProject \/ TypeDestination \/ PickVolume
  PROVE  DialogInv' /\ (added' # added => added' = NoFolder)
PROOF
<1>t. /\ addPopup \in PopupType /\ mountDraft \in MountDrafts /\ checks \subseteq CheckType
      /\ picker \in PickerType /\ volumes \subseteq Volumes
      /\ creation = NoFolder \/ creation \in CreationType
      /\ added = NoFolder \/ added \in MountDrafts
      /\ vouched \in [folders : SUBSET Folders, volumes : SUBSET Volumes]
  BY DialogTypes DEF DialogInv
<1>1. CASE OpenAdd
  <2>1. ~picker.open BY <1>1 DEF OpenAdd, DialogInv, ChecksInv
  <2>2. /\ addPopup' \in PopupType /\ addPopup'.dialog = addPopup.dialog /\ addPopup'.origin = "typed"
        /\ ~addPopup'.checking /\ ~addPopup'.listing
    BY <1>1, <1>t DEF OpenAdd, ClosedPopup, PopupType
  <2>3. mountDraft' \in MountDrafts /\ mountDraft'.kind = "project" /\ mountDraft'.volume = ""
    BY <1>1, EmptyMountTyped DEF OpenAdd, PopupKinds
  <2>4. checks' \subseteq CheckType /\ \A c \in checks' : ~c.current /\ Spells[c.project] # NoFolder
    BY <1>1, StaleSpelled DEF OpenAdd
  <2>5. /\ vouched' \in [folders : SUBSET Folders, volumes : SUBSET Volumes]
        /\ vouched'.volumes = vouched.volumes
        /\ picker' = picker /\ volumes' = volumes /\ creation' = creation /\ added' = NoFolder
    BY <1>1, <1>t DEF OpenAdd
  <2>6. DialogTypeOK'
    BY <1>t, <2>2, <2>3, <2>4, <2>5 DEF DialogTypeOK, PopupType, CheckType, PickerType, CreationType
  <2>7. NeverStuck' BY <2>1, <2>2, <2>5 DEF NeverStuck
  <2>8. ChecksInv' BY <2>1, <2>2, <2>4, <2>5 DEF ChecksInv
  <2>9. PickerInv' BY <2>1, <2>2, <2>5 DEF PickerInv, DialogInv
  <2>10. StorageInv' BY <2>2, <2>3, <2>5 DEF StorageInv, DialogInv
  <2> QED BY <2>5, <2>6, <2>7, <2>8, <2>9, <2>10 DEF DialogInv
<1>2. CASE PickKind
  <2>1. PICK kind \in PopupKinds : mountDraft' \in Preselected(EmptyMount(kind), volumes)
    BY <1>2 DEF PickKind
  <2>2. mountDraft' \in MountDrafts /\ mountDraft'.volume \in volumes \cup {""}
    <3>1. EmptyMount(kind) \in MountDrafts /\ EmptyMount(kind).volume = "" BY EmptyMountTyped
    <3>2. volumes \in SUBSET Volumes BY <1>t
    <3>3. PICK d \in Preselected(EmptyMount(kind), volumes) : d = mountDraft' BY <2>1
    <3>4. d \in MountDrafts /\ (d.volume = "" \/ d.volume \in volumes) BY <3>1, <3>2, PreselectedFacts
    <3> QED BY <3>3, <3>4
  <2>3. ~addPopup.checking /\ ~DialogBusy /\ ~picker.open BY <1>2 DEF PickKind, Editable, Reachable
  <2>4. /\ addPopup' = Retyped("typed") /\ checks' = Stale(checks) /\ picker' = picker
        /\ UNCHANGED <<volumes, creation, added, vouched>>
    BY <1>2 DEF PickKind
  <2> QED BY <2>2, <2>3, <2>4, RetypeStep
<1>3. CASE TypeProject
  <2>1. PICK text \in Typings : mountDraft' = [mountDraft EXCEPT !.project = text] BY <1>3 DEF TypeProject
  <2>2. mountDraft' \in MountDrafts /\ mountDraft'.kind = mountDraft.kind
        /\ mountDraft'.volume = mountDraft.volume
    BY <2>1, <1>t DEF MountDrafts
  <2>3. ~addPopup.checking /\ ~picker.open BY <1>3 DEF TypeProject, Editable, Reachable
  <2>4. /\ addPopup' = Retyped("typed") /\ checks' = Stale(checks) /\ picker' = picker
        /\ UNCHANGED <<volumes, creation, added, vouched>>
    BY <1>3 DEF TypeProject
  <2> QED BY <2>2, <2>3, <2>4, RetypeStep
<1>4. CASE TypeDestination \/ PickVolume
  <2>0. UNCHANGED <<addPopup, checks, picker, volumes, creation, added, vouched>>
    BY <1>4 DEF TypeDestination, PickVolume
  <2>1. ~picker.open /\ ~addPopup.checking BY <1>4 DEF TypeDestination, PickVolume, Editable, Reachable
  <2>2. /\ mountDraft' \in MountDrafts /\ mountDraft'.kind = mountDraft.kind
        /\ mountDraft.kind # "project"
        /\ mountDraft'.volume = mountDraft.volume \/ mountDraft'.volume \in volumes
    <3>1. CASE TypeDestination BY <3>1, <1>t DEF TypeDestination, MountDrafts
    <3>2. CASE PickVolume BY <3>2, <1>t DEF PickVolume, MountDrafts
    <3> QED BY <1>4, <3>1, <3>2
  <2>3. DialogTypeOK'
    <3>1. /\ addPopup' = addPopup /\ checks' = checks /\ picker' = picker /\ volumes' = volumes
          /\ creation' = creation /\ added' = added /\ vouched' = vouched
      BY <2>0
    <3> QED BY <3>1, <2>2, <1>t, TypedNext
  <2>4. NeverStuck' BY <2>0 DEF NeverStuck, DialogInv
  <2>5. ChecksInv' BY <2>0, <2>1, <2>2 DEF ChecksInv, DialogInv
  <2>6. PickerInv' BY <2>0, <2>1, <2>2 DEF PickerInv, DialogInv
  <2>7. StorageInv' BY <2>0, <2>2 DEF StorageInv, DialogInv
  <2> QED BY <2>0, <2>3, <2>4, <2>5, <2>6, <2>7 DEF DialogInv
<1> QED BY <1>1, <1>2, <1>3, <1>4 DEF OpenAdd, PickKind, TypeProject

LEMMA ClosingStep ==
  ASSUME DialogInv, RequestClose \/ KeepEditing \/ DiscardAndClose
  PROVE  DialogInv' /\ added' = added
PROOF
<1>t. /\ addPopup \in PopupType /\ mountDraft \in MountDrafts /\ checks \subseteq CheckType
      /\ picker \in PickerType /\ volumes \subseteq Volumes
      /\ creation = NoFolder \/ creation \in CreationType
      /\ added = NoFolder \/ added \in MountDrafts
      /\ vouched \in [folders : SUBSET Folders, volumes : SUBSET Volumes]
  BY DialogTypes DEF DialogInv
<1>1. UNCHANGED <<picker, volumes, added>> BY DEF RequestClose, KeepEditing, DiscardAndClose
<1>2. ~picker.open
  BY DEF RequestClose, KeepEditing, DiscardAndClose, Reachable, DialogInv, ChecksInv
<1>3. CASE CloseAdd(checks, {}) BY <1>t, <1>1, <1>2, <1>3, CloseStep
<1>4. CASE /\ \E b \in BOOLEAN : addPopup' = [addPopup EXCEPT !.confirming = b]
           /\ UNCHANGED <<mountDraft, checks, creation, vouched>>
  <2>1. /\ addPopup' \in PopupType /\ addPopup'.open = addPopup.open /\ addPopup'.origin = addPopup.origin
        /\ addPopup'.checking = addPopup.checking /\ addPopup'.listing = addPopup.listing
        /\ addPopup'.dialog = addPopup.dialog
    BY <1>4, <1>t DEF PopupType
  <2>2. DialogTypeOK' BY <1>t, <1>1, <1>4, <2>1 DEF DialogTypeOK, PopupType, CheckType, PickerType, CreationType
  <2>3. NeverStuck' BY <1>1, <1>4, <2>1 DEF NeverStuck, DialogInv
  <2>4. ChecksInv' BY <1>1, <1>2, <1>4, <2>1 DEF ChecksInv, DialogInv
  <2>5. PickerInv' BY <1>1, <1>2, <1>4, <2>1 DEF PickerInv, DialogInv
  <2>6. StorageInv' BY <1>1, <1>4, <2>1 DEF StorageInv, DialogInv
  <2> QED BY <1>1, <2>2, <2>3, <2>4, <2>5, <2>6 DEF DialogInv
<1> QED BY <1>1, <1>3, <1>4 DEF RequestClose, KeepEditing, DiscardAndClose

-----------------------------------------------------------------------------
(* Checks of a typed path.                                                 *)

\* A check is asked for: it is the only current one, and what waits for it is
\* told so.
LEMMA AskStep ==
  ASSUME DialogInv, NEW purpose \in {"blur", "submit"}, StartCheck(purpose),
         UNCHANGED <<mountDraft, picker, volumes, creation, added, vouched>>,
         addPopup.open, mountDraft.kind = "project", addPopup.origin = "typed", ~picker.open,
         ~addPopup.checking, Spells[mountDraft.project] # NoFolder,
         \/ purpose = "blur" /\ addPopup' = [addPopup EXCEPT !.listing = TRUE]
         \/ purpose = "submit" /\ ~addPopup.listing /\ addPopup' = [addPopup EXCEPT !.checking = TRUE]
  PROVE  DialogInv'
PROOF
<1>t. /\ addPopup \in PopupType /\ mountDraft \in MountDrafts /\ checks \subseteq CheckType
      /\ picker \in PickerType /\ volumes \subseteq Volumes
      /\ creation = NoFolder \/ creation \in CreationType
      /\ added = NoFolder \/ added \in MountDrafts
      /\ vouched \in [folders : SUBSET Folders, volumes : SUBSET Volumes]
  BY DialogTypes DEF DialogInv
<1> DEFINE new == [for |-> purpose, project |-> mountDraft.project, current |-> TRUE]
<1>1. new \in CheckType /\ new.for = purpose /\ new.project = mountDraft.project /\ new.current
  BY <1>t DEF CheckType, MountDrafts
<1>2. checks' = Stale(checks) \cup {new} BY DEF StartCheck
<1>3. /\ checks' \subseteq CheckType /\ new \in checks'
      /\ \A c \in checks' : Spells[c.project] # NoFolder /\ (c.current => c = new)
  <2>1. Stale(checks) \subseteq CheckType /\ \A c \in Stale(checks) : ~c.current /\ Spells[c.project] # NoFolder
    BY StaleSpelled
  <2>2. Spells[new.project] # NoFolder BY <1>1
  <2> HIDE DEF new
  <2> QED BY <2>1, <2>2, <1>1, <1>2
<1> HIDE DEF new
<1>4. /\ addPopup' \in PopupType /\ addPopup'.open = addPopup.open /\ addPopup'.origin = addPopup.origin
      /\ addPopup'.dialog = addPopup.dialog
      /\ addPopup'.checking => purpose = "submit"
      /\ purpose = "submit" => addPopup'.checking
      /\ addPopup'.listing => purpose = "blur"
  BY <1>t DEF PopupType
<1>5. DialogTypeOK' BY <1>t, <1>3, <1>4, TypedNext
<1>6. NeverStuck' BY <1>1, <1>3, <1>4 DEF NeverStuck, DialogInv
<1>7. ChecksInv' BY <1>1, <1>3, <1>4 DEF ChecksInv
<1>8. PickerInv' BY <1>4 DEF PickerInv, DialogInv
<1>9. StorageInv' BY <1>4 DEF StorageInv, DialogInv
<1> QED BY <1>5, <1>6, <1>7, <1>8, <1>9 DEF DialogInv

LEMMA AskedStep ==
  ASSUME DialogInv, LeaveField \/ SubmitTyped
  PROVE  DialogInv' /\ added' = added
PROOF
<1>1. CASE LeaveField
  <2>1. /\ addPopup.open /\ ~picker.open /\ ~addPopup.checking /\ addPopup.origin = "typed"
        /\ mountDraft.kind = "project" /\ Spells[mountDraft.project] # NoFolder
    BY <1>1 DEF LeaveField, Reachable, BlurApplies, ShapeOk
  <2> QED BY <1>1, <2>1, AskStep DEF LeaveField
<1>2. CASE SubmitTyped
  <2>1. /\ addPopup.open /\ ~picker.open /\ ~addPopup.checking /\ addPopup.origin = "typed"
        /\ mountDraft.kind = "project" /\ Spells[mountDraft.project] # NoFolder /\ ~addPopup.listing
    BY <1>2 DEF SubmitTyped, Editable, Reachable, CanAdd, ShapeOk
  <2> QED BY <1>2, <2>1, AskStep DEF SubmitTyped
<1> QED BY <1>1, <1>2 DEF LeaveField, SubmitTyped

\* What the host found is added to what it vouched for, and nothing else.
LEMMA VouchFacts ==
  ASSUME DialogInv, NEW found, NEW c \in checks
  PROVE  /\ Vouch(found, c.project) \in [folders : SUBSET Folders, volumes : SUBSET Volumes]
         /\ Vouch(found, c.project).volumes = vouched.volumes
         /\ vouched.folders \subseteq Vouch(found, c.project).folders
         /\ Spells[c.project] \in Folders
PROOF
<1>t. /\ addPopup \in PopupType /\ mountDraft \in MountDrafts /\ checks \subseteq CheckType
      /\ picker \in PickerType /\ volumes \subseteq Volumes
      /\ creation = NoFolder \/ creation \in CreationType
      /\ added = NoFolder \/ added \in MountDrafts
      /\ vouched \in [folders : SUBSET Folders, volumes : SUBSET Volumes]
  BY DialogTypes DEF DialogInv
<1>1. c.project \in Typings \cup Folders /\ Spells[c.project] # NoFolder
  BY <1>t DEF CheckType, DialogInv, ChecksInv
<1>2. Spells[c.project] \in Folders BY <1>1, FoldersAssumption
<1> QED BY <1>t, <1>2 DEF Vouch

\* An answer that ends no more than its own check.
LEMMA HeardStep ==
  ASSUME DialogInv, NEW c \in checks, NEW found, checks' = checks \ {c},
         vouched' = Vouch(found, c.project),
         UNCHANGED <<mountDraft, picker, volumes, creation, added>>,
         \/ ~c.current /\ addPopup' = addPopup
         \/ /\ c.current /\ c.for = "blur"
            /\ addPopup' = [addPopup EXCEPT !.listing = FALSE,
                                            !.missing = IF found THEN {} ELSE {c.project}]
         \/ c.current /\ c.for = "submit" /\ addPopup' = [addPopup EXCEPT !.checking = FALSE]
  PROVE  DialogInv'
PROOF
<1>t. /\ addPopup \in PopupType /\ mountDraft \in MountDrafts /\ checks \subseteq CheckType
      /\ picker \in PickerType /\ volumes \subseteq Volumes
      /\ creation = NoFolder \/ creation \in CreationType
      /\ added = NoFolder \/ added \in MountDrafts
      /\ vouched \in [folders : SUBSET Folders, volumes : SUBSET Volumes]
  BY DialogTypes DEF DialogInv
<1>c. c \in CheckType BY <1>t
<1>1. /\ addPopup' \in PopupType /\ addPopup'.open = addPopup.open /\ addPopup'.origin = addPopup.origin
      /\ addPopup'.dialog = addPopup.dialog /\ addPopup'.confirming = addPopup.confirming
      /\ addPopup'.checking => addPopup.checking /\ ~(c.current /\ c.for = "submit")
      /\ addPopup.checking /\ ~(c.current /\ c.for = "submit") => addPopup'.checking
      /\ addPopup'.listing => addPopup.listing /\ ~(c.current /\ c.for = "blur")
  <2>1. CASE ~c.current /\ addPopup' = addPopup BY <2>1, <1>t
  <2>2. CASE /\ c.current /\ c.for = "blur"
             /\ addPopup' = [addPopup EXCEPT !.listing = FALSE,
                                             !.missing = IF found THEN {} ELSE {c.project}]
    <3> DEFINE miss == IF found THEN {} ELSE {c.project}
    <3>1. miss \subseteq Typings \cup Folders BY <1>c DEF CheckType
    <3> HIDE DEF miss
    <3>2. addPopup' = [addPopup EXCEPT !.listing = FALSE, !.missing = miss] BY <2>2 DEF miss
    <3> QED BY <2>2, <3>1, <3>2, <1>t DEF PopupType
  <2>3. CASE c.current /\ c.for = "submit" /\ addPopup' = [addPopup EXCEPT !.checking = FALSE]
    BY <2>3, <1>t DEF PopupType
  <2> QED BY <2>1, <2>2, <2>3
<1>2. /\ vouched' \in [folders : SUBSET Folders, volumes : SUBSET Volumes]
      /\ vouched'.volumes = vouched.volumes /\ vouched.folders \subseteq vouched'.folders
  BY VouchFacts
<1>3. DialogTypeOK' BY <1>t, <1>1, <1>2, TypedNext
<1>4. NeverStuck' BY <1>1 DEF NeverStuck, DialogInv
<1>5. ChecksInv'
  <2>1. \A d \in checks' : d.current /\ d.for = "submit" => addPopup'.checking
    <3> SUFFICES ASSUME NEW d \in checks', d.current, d.for = "submit" PROVE addPopup'.checking
      OBVIOUS
    <3>1. d \in checks /\ d # c /\ addPopup.checking /\ d \in CheckType BY <1>t DEF DialogInv, ChecksInv
    <3>2. c.current => c.project = d.project BY <3>1 DEF DialogInv, ChecksInv
    <3>3. ~(c.current /\ c.for = "submit") BY <3>1, <3>2, <1>c DEF CheckType
    <3> QED BY <3>1, <3>3, <1>1
  <2> QED BY <2>1, <1>1 DEF ChecksInv, DialogInv
<1>6. PickerInv' BY <1>1, <1>2 DEF PickerInv, DialogInv
<1>7. StorageInv' BY <1>1, <1>2 DEF StorageInv, DialogInv
<1> QED BY <1>3, <1>4, <1>5, <1>6, <1>7 DEF DialogInv

LEMMA AnswerStep ==
  ASSUME DialogInv, NEW c \in checks, BlurAnswers(c) \/ SubmitAnswers(c)
  PROVE  DialogInv' /\ (added' # added /\ added' # NoFolder => HandsOver(added'))
PROOF
<1>t. /\ addPopup \in PopupType /\ mountDraft \in MountDrafts /\ checks \subseteq CheckType
      /\ picker \in PickerType /\ volumes \subseteq Volumes
      /\ creation = NoFolder \/ creation \in CreationType
      /\ added = NoFolder \/ added \in MountDrafts
      /\ vouched \in [folders : SUBSET Folders, volumes : SUBSET Volumes]
  BY DialogTypes DEF DialogInv
<1>1. CASE BlurAnswers(c)
  <2>1. PICK found \in BOOLEAN :
          /\ addPopup' = IF ~c.current THEN addPopup
                         ELSE [addPopup EXCEPT !.listing = FALSE,
                                               !.missing = IF found THEN {} ELSE {c.project}]
          /\ vouched' = Vouch(found, c.project)
    BY <1>1 DEF BlurAnswers
  <2>2. /\ c.for = "blur" /\ checks' = checks \ {c}
        /\ UNCHANGED <<mountDraft, picker, volumes, creation, added>>
    BY <1>1 DEF BlurAnswers
  <2>3. DialogInv' BY <2>1, <2>2, HeardStep
  <2> QED BY <2>2, <2>3
<1>2. CASE SubmitAnswers(c)
  <2>1. CASE /\ ~Overtaken(c)
             /\ added' = [EmptyMount("project") EXCEPT !.project = Spells[c.project]]
             /\ CloseAdd(checks \ {c}, {Spells[c.project]})
    <3>1. /\ addPopup.open /\ addPopup.origin = "typed" /\ addPopup.checking
          /\ mountDraft.kind = "project" /\ mountDraft.project = c.project
      BY <1>2, <2>1 DEF Overtaken, SubmitAnswers, DialogInv, ChecksInv
    <3>2. ~picker.open BY <3>1 DEF DialogInv, ChecksInv
    <3>3. Spells[c.project] \in Folders BY VouchFacts
    <3>4. added' \in MountDrafts /\ added'.kind = "project" /\ added'.project = Spells[c.project]
      BY <2>1, <3>3 DEF EmptyMount, MountDrafts, PopupKinds, Destinations
    <3>5. picker' = picker /\ volumes' = volumes BY <1>2 DEF SubmitAnswers
    <3>6. DialogInv'
      BY <2>1, <3>2, <3>3, <3>4, <3>5, CloseStep
    <3>7. Spells[c.project] \in vouched'.folders BY <2>1, <1>t DEF CloseAdd
    <3>8. HandsOver(added')
      BY <3>1, <3>4, <3>7 DEF HandsOver, Spelled
    <3> QED BY <3>6, <3>8
  <2>2. CASE \E found \in BOOLEAN :
               /\ Overtaken(c) \/ ~found
               /\ checks' = checks \ {c}
               /\ addPopup' = IF Overtaken(c) THEN addPopup ELSE [addPopup EXCEPT !.checking = FALSE]
               /\ vouched' = Vouch(found, c.project)
               /\ UNCHANGED <<mountDraft, creation, added>>
    <3>1. PICK found \in BOOLEAN :
               /\ checks' = checks \ {c}
               /\ addPopup' = IF Overtaken(c) THEN addPopup ELSE [addPopup EXCEPT !.checking = FALSE]
               /\ vouched' = Vouch(found, c.project)
      BY <2>2
    <3>2. /\ c.for = "submit" /\ UNCHANGED <<mountDraft, picker, volumes, creation, added>>
      BY <1>2, <2>2 DEF SubmitAnswers
    <3>3. DialogInv' BY <3>1, <3>2, HeardStep DEF Overtaken
    <3> QED BY <3>2, <3>3
  <2> QED BY <1>2, <2>1, <2>2 DEF SubmitAnswers
<1> QED BY <1>1, <1>2

LEMMA AtOnceStep ==
  ASSUME DialogInv, SubmitAtOnce
  PROVE  DialogInv' /\ HandsOver(added')
PROOF
<1>t. /\ addPopup \in PopupType /\ mountDraft \in MountDrafts /\ checks \subseteq CheckType
      /\ picker \in PickerType /\ volumes \subseteq Volumes
      /\ creation = NoFolder \/ creation \in CreationType
      /\ added = NoFolder \/ added \in MountDrafts
      /\ vouched \in [folders : SUBSET Folders, volumes : SUBSET Volumes]
  BY DialogTypes DEF DialogInv
<1>1. /\ addPopup.open /\ ~picker.open /\ ~DialogBusy /\ CanAdd
      /\ ~(mountDraft.kind = "project" /\ addPopup.origin = "typed")
      /\ added' = mountDraft /\ CloseAdd(checks, {}) /\ picker' = picker /\ volumes' = volumes
  BY DEF SubmitAtOnce, Editable, Reachable
<1>2. DialogInv' BY <1>1, <1>t, CloseStep
<1>3. CASE mountDraft.kind = "project"
  <2>1. addPopup.origin = "browsed" BY <1>1, <1>3, <1>t DEF PopupType
  <2>2. mountDraft.project \in vouched.folders BY <1>1, <1>3, <2>1 DEF DialogInv, PickerInv
  <2> QED BY <1>1, <1>2, <1>3, <2>1, <2>2 DEF HandsOver, Spelled
<1>4. CASE mountDraft.kind # "project"
  <2>1. mountDraft.destination = "ok" /\ (mountDraft.kind = "volume" => mountDraft.volume # "")
    BY <1>1, <1>4 DEF CanAdd
  <2>2. addPopup.dialog = "create" => creation = NoFolder BY <1>1 DEF DialogBusy
  <2>3. mountDraft.kind = "volume" /\ addPopup.dialog = "create" => mountDraft.volume \in vouched.volumes
    BY <2>1, <2>2 DEF DialogInv, StorageInv
  <2> QED BY <1>1, <1>2, <1>4, <2>1, <2>3 DEF HandsOver
<1> QED BY <1>3, <1>4

-----------------------------------------------------------------------------
(* The directory browser.                                                  *)

LEMMA EntriesTyped == \A folder : Entries(folder) \subseteq Folders
PROOF BY DEF Entries

LEMMA TrailTyped ==
  ASSUME NEW folder \in Folders \cup {RootFolder}
  PROVE  Trail(folder) \subseteq Folders \cup {RootFolder}
PROOF BY DEF Trail

\* A step of the browser alone owes the facts about what it offers.
LEMMA PickerStep ==
  ASSUME DialogInv, picker' \in PickerType,
         UNCHANGED <<addPopup, mountDraft, checks, volumes, creation, added>>,
         vouched' \in [folders : SUBSET Folders, volumes : SUBSET Volumes],
         vouched'.volumes = vouched.volumes, vouched.folders \subseteq vouched'.folders,
         picker'.childCall => picker'.open /\ picker'.selected # NoFolder,
         picker'.open =>
           /\ addPopup.open /\ mountDraft.kind = "project" /\ ~addPopup.checking /\ ~addPopup.confirming
           /\ picker'.busy => picker'.pathCall \/ picker'.childCall
           /\ picker'.level \subseteq vouched'.folders /\ picker'.child \subseteq vouched'.folders
           /\ picker'.selected \in vouched'.folders \cup {NoFolder}
           /\ picker'.path \notin vouched'.folders \cup {RootFolder} =>
                picker'.failed \/ (picker'.busy /\ picker'.pathCall /\ ~picker'.childCall)
  PROVE  DialogInv' /\ added' = added
PROOF
<1>t. /\ addPopup \in PopupType /\ mountDraft \in MountDrafts /\ checks \subseteq CheckType
      /\ picker \in PickerType /\ volumes \subseteq Volumes
      /\ creation = NoFolder \/ creation \in CreationType
      /\ added = NoFolder \/ added \in MountDrafts
      /\ vouched \in [folders : SUBSET Folders, volumes : SUBSET Volumes]
  BY DialogTypes DEF DialogInv
<1>1. DialogTypeOK' BY <1>t, TypedNext
<1>2. NeverStuck' BY DEF NeverStuck, DialogInv
<1>3. ChecksInv' BY DEF ChecksInv, DialogInv
<1>4. PickerInv' BY DEF PickerInv, DialogInv
<1>5. StorageInv' BY DEF StorageInv, DialogInv
<1> QED BY <1>1, <1>2, <1>3, <1>4, <1>5 DEF DialogInv

LEMMA FoundFacts ==
  ASSUME DialogInv, NEW folder \in Folders \cup {RootFolder}
  PROVE  /\ Found(folder) \in [folders : SUBSET Folders, volumes : SUBSET Volumes]
         /\ Found(folder).volumes = vouched.volumes /\ vouched.folders \subseteq Found(folder).folders
         /\ Entries(folder) \subseteq Found(folder).folders /\ Entries(folder) \subseteq Folders
         /\ folder \in Found(folder).folders \cup {RootFolder}
PROOF
<1>1. vouched \in [folders : SUBSET Folders, volumes : SUBSET Volumes] BY DialogTypes DEF DialogInv
<1>2. Entries(folder) \subseteq Folders BY EntriesTyped
<1> QED BY <1>1, <1>2 DEF Found

LEMMA BrowserStep ==
  ASSUME DialogInv,
         Browse \/ PathAnswers \/ ChildAnswers \/ SelectEntry \/ Advance \/ Navigate \/ ClosePicker
  PROVE  DialogInv' /\ added' = added
PROOF
<1>t. /\ addPopup \in PopupType /\ mountDraft \in MountDrafts /\ checks \subseteq CheckType
      /\ picker \in PickerType /\ volumes \subseteq Volumes
      /\ creation = NoFolder \/ creation \in CreationType
      /\ added = NoFolder \/ added \in MountDrafts
      /\ vouched \in [folders : SUBSET Folders, volumes : SUBSET Volumes]
  BY DialogTypes DEF DialogInv
<1>c. picker.childCall => picker.open /\ picker.selected # NoFolder BY DEF DialogInv, PickerInv
<1>o. picker.open =>
        /\ addPopup.open /\ mountDraft.kind = "project" /\ ~addPopup.checking /\ ~addPopup.confirming
        /\ picker.busy => picker.pathCall \/ picker.childCall
        /\ picker.level \subseteq vouched.folders /\ picker.child \subseteq vouched.folders
        /\ picker.selected \in vouched.folders \cup {NoFolder}
        /\ picker.path \notin vouched.folders \cup {RootFolder} =>
             picker.failed \/ (picker.busy /\ picker.pathCall /\ ~picker.childCall)
  BY DEF DialogInv, NeverStuck, ChecksInv, PickerInv
<1>u. UNCHANGED <<addPopup, mountDraft, checks, volumes, creation, added>>
  BY DEF Browse, PathAnswers, ChildAnswers, SelectEntry, Advance, Navigate, ClosePicker
<1>v. ASSUME vouched' = vouched
      PROVE  /\ vouched' \in [folders : SUBSET Folders, volumes : SUBSET Volumes]
             /\ vouched'.volumes = vouched.volumes /\ vouched.folders \subseteq vouched'.folders
  BY <1>v, <1>t
<1>1. CASE Browse
  <2>1. StartOf \in Folders \cup {RootFolder}
    BY <1>t, FoldersAssumption DEF StartOf, MountDrafts
  <2>2. addPopup.open /\ mountDraft.kind = "project" /\ ~addPopup.checking /\ ~addPopup.confirming
    BY <1>1 DEF Browse, Editable, Reachable
  <2>3. /\ picker' \in PickerType /\ picker'.level = {} /\ picker'.child = {} /\ picker'.selected = NoFolder
        /\ picker'.busy /\ picker'.pathCall /\ ~picker'.childCall
    BY <1>1, <2>1 DEF Browse, ClosedPicker, PickerType
  <2>4. vouched' = vouched BY <1>1 DEF Browse
  <2> QED BY <1>u, <1>v, <2>2, <2>3, <2>4, PickerStep
<1>2. CASE PathAnswers
  <2>1. picker.path \in Folders \cup {RootFolder} BY <1>t DEF PickerType
  <2>2. CASE /\ picker' = [picker EXCEPT !.level = Entries(picker.path), !.failed = FALSE,
                                         !.busy = FALSE, !.pathCall = FALSE]
             /\ vouched' = Found(picker.path)
    <3>1. /\ vouched' \in [folders : SUBSET Folders, volumes : SUBSET Volumes]
          /\ vouched'.volumes = vouched.volumes /\ vouched.folders \subseteq vouched'.folders
          /\ Entries(picker.path) \subseteq vouched'.folders /\ Entries(picker.path) \subseteq Folders
          /\ picker.path \in vouched'.folders \cup {RootFolder}
      BY <2>1, <2>2, FoundFacts
    <3>2. /\ picker' \in PickerType /\ picker'.open = picker.open /\ picker'.path = picker.path
          /\ picker'.level = Entries(picker.path) /\ picker'.child = picker.child
          /\ picker'.selected = picker.selected /\ ~picker'.busy /\ picker'.childCall = picker.childCall
      BY <2>2, <3>1, <1>t DEF PickerType
    <3> QED BY <1>u, <1>c, <1>o, <3>1, <3>2, PickerStep
  <2>3. CASE /\ picker' = [picker EXCEPT !.level = {}, !.failed = TRUE, !.busy = FALSE, !.pathCall = FALSE]
             /\ vouched' = vouched
    <3>1. /\ picker' \in PickerType /\ picker'.open = picker.open
          /\ picker'.level = {} /\ picker'.child = picker.child
          /\ picker'.selected = picker.selected /\ ~picker'.busy /\ picker'.childCall = picker.childCall /\ picker'.failed
      BY <2>3, <1>t DEF PickerType
    <3> QED BY <1>u, <1>c, <1>o, <1>v, <2>3, <3>1, PickerStep
  <2> QED BY <1>2, <2>2, <2>3 DEF PathAnswers
<1>3. CASE ChildAnswers
  <2>0. /\ picker.childCall /\ picker.open /\ picker.selected \in Folders
        /\ picker.path \in vouched.folders \cup {RootFolder} \/ picker.failed
    BY <1>3, <1>c, <1>o, <1>t DEF ChildAnswers, PickerType
  <2>1. CASE /\ picker' = [picker EXCEPT !.child = Entries(picker.selected), !.busy = FALSE,
                                         !.childCall = FALSE]
             /\ vouched' = Found(picker.selected)
    <3>1. /\ vouched' \in [folders : SUBSET Folders, volumes : SUBSET Volumes]
          /\ vouched'.volumes = vouched.volumes /\ vouched.folders \subseteq vouched'.folders
          /\ Entries(picker.selected) \subseteq vouched'.folders /\ Entries(picker.selected) \subseteq Folders
      BY <2>0, <2>1, FoundFacts
    <3>2. /\ picker' \in PickerType /\ picker'.open = picker.open /\ picker'.path = picker.path
          /\ picker'.level = picker.level /\ picker'.child = Entries(picker.selected)
          /\ picker'.selected = picker.selected /\ ~picker'.busy /\ ~picker'.childCall
          /\ picker'.failed = picker.failed
      BY <2>1, <3>1, <1>t DEF PickerType
    <3> QED BY <1>u, <1>o, <2>0, <3>1, <3>2, PickerStep
  <2>2. CASE /\ picker' = [picker EXCEPT !.child = {}, !.busy = FALSE, !.childCall = FALSE]
             /\ vouched' = vouched
    <3>1. /\ picker' \in PickerType /\ picker'.open = picker.open /\ picker'.path = picker.path
          /\ picker'.level = picker.level /\ picker'.child = {}
          /\ picker'.selected = picker.selected /\ ~picker'.busy /\ ~picker'.childCall
          /\ picker'.failed = picker.failed
      BY <2>2, <1>t DEF PickerType
    <3> QED BY <1>u, <1>o, <1>v, <2>0, <2>2, <3>1, PickerStep
  <2> QED BY <1>3, <2>1, <2>2 DEF ChildAnswers
<1>4. CASE SelectEntry
  <2>0. PICK entry \in picker.level :
          picker' = [picker EXCEPT !.selected = entry, !.busy = TRUE, !.childCall = TRUE]
    BY <1>4 DEF SelectEntry
  <2>1. picker.open /\ ~picker.busy /\ vouched' = vouched BY <1>4 DEF SelectEntry
  <2>2. entry \in Folders /\ entry \in vouched.folders /\ entry # NoFolder
    BY <2>1, <1>o, <1>t, FoldersAssumption DEF PickerType
  <2>3. /\ picker' \in PickerType /\ picker'.open = picker.open /\ picker'.path = picker.path
        /\ picker'.level = picker.level /\ picker'.child = picker.child
        /\ picker'.selected = entry /\ picker'.childCall /\ picker'.failed = picker.failed
    BY <2>0, <2>2, <1>t DEF PickerType
  <2> QED BY <1>u, <1>o, <1>v, <2>1, <2>2, <2>3, PickerStep
<1>5. CASE Advance
  <2>0. PICK entry \in picker.child :
          picker' = [picker EXCEPT !.path = picker.selected, !.selected = entry, !.busy = TRUE,
                                   !.pathCall = @ \/ picker.path # picker.selected, !.childCall = TRUE]
    BY <1>5 DEF Advance
  <2>1. picker.open /\ picker.selected # NoFolder /\ vouched' = vouched BY <1>5 DEF Advance
  <2>2. /\ entry \in Folders /\ entry \in vouched.folders /\ entry # NoFolder
        /\ picker.selected \in Folders /\ picker.selected \in vouched.folders
    BY <2>1, <1>o, <1>t, FoldersAssumption DEF PickerType
  <2>3. /\ picker' \in PickerType /\ picker'.open = picker.open /\ picker'.path = picker.selected
        /\ picker'.level = picker.level /\ picker'.child = picker.child
        /\ picker'.selected = entry /\ picker'.childCall
    BY <2>0, <2>2, <1>t DEF PickerType
  <2> QED BY <1>u, <1>o, <1>v, <2>1, <2>2, <2>3, PickerStep
<1>6. CASE Navigate
  <2>0. PICK target \in Trail(picker.path) :
          picker' = [picker EXCEPT !.path = target, !.selected = NoFolder, !.child = {}, !.childCall = FALSE,
                                   !.busy = picker.path # target,
                                   !.pathCall = @ \/ picker.path # target]
    BY <1>6 DEF Navigate
  <2>1. picker.open /\ ~picker.busy /\ vouched' = vouched BY <1>6 DEF Navigate
  <2>2. picker.path \in Folders \cup {RootFolder} BY <1>t DEF PickerType
  <2>3. target \in Folders \cup {RootFolder} BY <2>2, TrailTyped
  <2>4. /\ picker' \in PickerType /\ picker'.open = picker.open /\ picker'.path = target
        /\ picker'.level = picker.level /\ picker'.child = {} /\ picker'.failed = picker.failed
        /\ picker'.selected = NoFolder /\ ~picker'.childCall
        /\ picker'.busy <=> picker.path # target
        /\ picker.path # target => picker'.pathCall
    BY <2>0, <2>3, <1>t, ZenonT(40) DEF PickerType
  <2> QED BY <1>u, <1>o, <1>v, <2>1, <2>4, PickerStep
<1>7. CASE ClosePicker
  <2>1. picker' = ClosedPicker /\ vouched' = vouched BY <1>7 DEF ClosePicker
  <2>2. picker' \in PickerType /\ ~picker'.open /\ ~picker'.childCall BY <2>1, <1>t, ClosedTyped DEF PopupType
  <2> QED BY <1>u, <1>v, <2>1, <2>2, PickerStep
<1> QED BY <1>1, <1>2, <1>3, <1>4, <1>5, <1>6, <1>7

\* The picked directory becomes the draft's project.
LEMMA UseStep ==
  ASSUME DialogInv, UsePicked
  PROVE  DialogInv' /\ added' = added
PROOF
<1>t. /\ addPopup \in PopupType /\ mountDraft \in MountDrafts /\ checks \subseteq CheckType
      /\ picker \in PickerType /\ volumes \subseteq Volumes
      /\ creation = NoFolder \/ creation \in CreationType
      /\ added = NoFolder \/ added \in MountDrafts
      /\ vouched \in [folders : SUBSET Folders, volumes : SUBSET Volumes]
  BY DialogTypes DEF DialogInv
<1>1. /\ picker.open /\ ~picker.busy /\ ~picker.failed /\ Picked # RootFolder
      /\ mountDraft' = [mountDraft EXCEPT !.project = Picked] /\ picker' = ClosedPicker
      /\ addPopup' = Retyped("browsed") /\ checks' = Stale(checks)
      /\ UNCHANGED <<volumes, creation, added, vouched>>
  BY DEF UsePicked, Selectable
<1>2. ~addPopup.checking BY <1>1 DEF DialogInv, ChecksInv
<1>3. Picked \in vouched.folders BY <1>1 DEF Picked, DialogInv, PickerInv
<1>4. vouched.folders \subseteq Folders BY <1>t
<1>5. /\ mountDraft' \in MountDrafts /\ mountDraft'.kind = mountDraft.kind
      /\ mountDraft'.volume = mountDraft.volume /\ mountDraft'.project = Picked
  BY <1>1, <1>3, <1>4, <1>t DEF MountDrafts
<1> QED BY <1>1, <1>2, <1>3, <1>5, RetypeStep

-----------------------------------------------------------------------------
(* Volumes.                                                                *)

\* A step that changes the volume of the draft, or the lists it comes from.
LEMMA VolumeStep ==
  ASSUME DialogInv, UNCHANGED <<addPopup, checks, picker, added>>,
         mountDraft' \in MountDrafts, mountDraft'.kind = mountDraft.kind,
         mountDraft'.project = mountDraft.project,
         volumes' \subseteq Volumes, creation' = NoFolder \/ creation' \in CreationType,
         vouched' \in [folders : SUBSET Folders, volumes : SUBSET Volumes],
         vouched'.folders = vouched.folders,
         StorageInv'
  PROVE  DialogInv' /\ added' = added
PROOF
<1>t. /\ addPopup \in PopupType /\ mountDraft \in MountDrafts /\ checks \subseteq CheckType
      /\ picker \in PickerType /\ volumes \subseteq Volumes
      /\ creation = NoFolder \/ creation \in CreationType
      /\ added = NoFolder \/ added \in MountDrafts
      /\ vouched \in [folders : SUBSET Folders, volumes : SUBSET Volumes]
  BY DialogTypes DEF DialogInv
<1>1. DialogTypeOK' BY <1>t, TypedNext
<1>2. NeverStuck' BY DEF NeverStuck, DialogInv
<1>3. ChecksInv' BY DEF ChecksInv, DialogInv
<1>4. PickerInv' BY DEF PickerInv, DialogInv
<1> QED BY <1>1, <1>2, <1>3, <1>4 DEF DialogInv

LEMMA RefilledFacts ==
  ASSUME DialogInv, NEW list \in SUBSET Volumes, NEW d \in Refilled(list)
  PROVE  /\ d \in MountDrafts /\ d.kind = mountDraft.kind /\ d.project = mountDraft.project
         /\ d.volume = mountDraft.volume \/ d.volume \in list
PROOF
<1>1. mountDraft \in MountDrafts BY DialogTypes DEF DialogInv
<1>2. CASE d = mountDraft BY <1>1, <1>2
<1>3. CASE d \in Preselected(mountDraft, list) BY <1>1, <1>3, PreselectedFacts
<1> QED BY <1>2, <1>3 DEF Refilled

LEMMA StorageStep ==
  ASSUME DialogInv, StartCreation \/ CreationAccepted \/ CreationRefused \/ VolumesChange
  PROVE  DialogInv' /\ added' = added
PROOF
<1>t. /\ addPopup \in PopupType /\ mountDraft \in MountDrafts /\ checks \subseteq CheckType
      /\ picker \in PickerType /\ volumes \subseteq Volumes
      /\ creation = NoFolder \/ creation \in CreationType
      /\ added = NoFolder \/ added \in MountDrafts
      /\ vouched \in [folders : SUBSET Folders, volumes : SUBSET Volumes]
  BY DialogTypes DEF DialogInv
<1>s. /\ volumes \subseteq vouched.volumes
      /\ addPopup.dialog = "create" =>
           /\ creation # NoFolder => /\ creation.previous \in vouched.volumes \cup {""}
                                     /\ creation.left => mountDraft.kind = "project"
           /\ mountDraft.kind = "volume" =>
                \/ mountDraft.volume \in vouched.volumes \cup {""}
                \/ creation # NoFolder /\ mountDraft.volume = creation.name
  BY DEF DialogInv, StorageInv
<1>u. UNCHANGED <<addPopup, checks, picker, added>>
  BY DEF StartCreation, CreationAccepted, CreationRefused, VolumesChange
<1>1. CASE StartCreation
  <2>1. creation = NoFolder /\ mountDraft.kind = "volume" /\ UNCHANGED <<volumes, vouched>>
    BY <1>1 DEF StartCreation
  <2>2. PICK name \in Volumes :
          /\ creation' = [name |-> name, previous |-> mountDraft.volume, left |-> FALSE]
          /\ mountDraft' = [mountDraft EXCEPT !.volume = name]
    BY <1>1 DEF StartCreation
  <2>3. /\ mountDraft' \in MountDrafts /\ mountDraft'.kind = mountDraft.kind
        /\ mountDraft'.project = mountDraft.project /\ mountDraft'.volume = name
    BY <2>2, <1>t DEF MountDrafts
  <2>4. /\ creation' \in CreationType /\ creation'.name = name /\ ~creation'.left
        /\ creation'.previous = mountDraft.volume
    BY <2>2, <1>t DEF CreationType, MountDrafts
  <2>5. creation' # NoFolder BY <2>4, FoldersAssumption DEF CreationType
  <2>6. StorageInv' BY <1>s, <1>u, <2>1, <2>3, <2>4, <2>5 DEF StorageInv
  <2> QED BY <1>t, <1>u, <2>1, <2>3, <2>4, <2>6, VolumeStep
<1>2. CASE CreationAccepted
  <2>1. creation \in CreationType /\ creation.name \in Volumes BY <1>2, <1>t DEF CreationAccepted, CreationType
  <2>2. /\ creation' = NoFolder /\ volumes' = volumes \cup {creation.name} /\ volumes' \in SUBSET Volumes
        /\ vouched' = [vouched EXCEPT !.volumes = @ \cup {creation.name}]
        /\ mountDraft' \in Refilled(volumes \cup {creation.name})
    BY <1>2, <1>t, <2>1 DEF CreationAccepted, Refilled
  <2>3. /\ mountDraft' \in MountDrafts /\ mountDraft'.kind = mountDraft.kind
        /\ mountDraft'.project = mountDraft.project
        /\ mountDraft'.volume = mountDraft.volume \/ mountDraft'.volume \in volumes \cup {creation.name}
    BY <2>2, RefilledFacts
  <2>4. /\ vouched' \in [folders : SUBSET Folders, volumes : SUBSET Volumes]
        /\ vouched'.folders = vouched.folders /\ vouched'.volumes = vouched.volumes \cup {creation.name}
    BY <2>1, <2>2, <1>t
  <2>5. StorageInv' BY <1>s, <1>u, <2>2, <2>3, <2>4 DEF StorageInv
  <2> QED BY <1>u, <2>2, <2>3, <2>4, <2>5, VolumeStep
<1>3. CASE CreationRefused
  <2>1. creation # NoFolder /\ creation \in CreationType /\ creation' = NoFolder /\ UNCHANGED <<volumes, vouched>>
    BY <1>3, <1>t DEF CreationRefused
  <2>2. CASE mountDraft' = [mountDraft EXCEPT !.volume = creation.previous]
    <3>1. /\ mountDraft' \in MountDrafts /\ mountDraft'.kind = mountDraft.kind
          /\ mountDraft'.project = mountDraft.project /\ mountDraft'.volume = creation.previous
      BY <2>1, <2>2, <1>t DEF MountDrafts, CreationType
    <3>2. StorageInv' BY <1>s, <1>u, <2>1, <3>1 DEF StorageInv
    <3> QED BY <1>t, <1>u, <2>1, <3>1, <3>2, VolumeStep
  <2>3. CASE mountDraft' = mountDraft /\ (~CarriesCreated \/ creation.left)
    <3>1. StorageInv' BY <1>s, <1>u, <2>1, <2>3 DEF StorageInv, CarriesCreated
    <3> QED BY <1>t, <1>u, <2>1, <2>3, <3>1, VolumeStep
  <2> QED BY <1>3, <2>2, <2>3 DEF CreationRefused
<1>4. CASE VolumesChange
  <2>1. PICK v \in Volumes : volumes' \in {volumes \cup {v}, volumes \ {v}} BY <1>4 DEF VolumesChange
  <2>2. PICK list \in SUBSET Volumes : list = volumes' BY <2>1, <1>t
  <2>3. /\ vouched' = [vouched EXCEPT !.volumes = @ \cup list] /\ creation' = creation
        /\ mountDraft' \in Refilled(list)
    BY <1>4, <2>2 DEF VolumesChange, Refilled
  <2>4. /\ mountDraft' \in MountDrafts /\ mountDraft'.kind = mountDraft.kind
        /\ mountDraft'.project = mountDraft.project
        /\ mountDraft'.volume = mountDraft.volume \/ mountDraft'.volume \in list
    BY <2>3, RefilledFacts
  <2>5. /\ vouched' \in [folders : SUBSET Folders, volumes : SUBSET Volumes]
        /\ vouched'.folders = vouched.folders /\ vouched'.volumes = vouched.volumes \cup list
    BY <2>3, <1>t
  <2>6. StorageInv' BY <1>s, <1>u, <2>2, <2>3, <2>4, <2>5 DEF StorageInv
  <2> QED BY <1>t, <1>u, <2>2, <2>3, <2>4, <2>5, <2>6, VolumeStep
<1> QED BY <1>1, <1>2, <1>3, <1>4

-----------------------------------------------------------------------------
LEMMA DialogInitInv == DialogInit => DialogInv
PROOF
<1> SUFFICES ASSUME DialogInit PROVE DialogInv
  OBVIOUS
<1>1. PICK dialog \in {"create", "edit"} : addPopup = ClosedPopup(dialog) BY DEF DialogInit
<1>2. /\ addPopup \in PopupType /\ ~addPopup.open /\ ~addPopup.checking /\ ~addPopup.listing
      /\ picker \in PickerType /\ ~picker.open /\ ~picker.childCall
  BY <1>1, ClosedTyped DEF DialogInit
<1>3. mountDraft \in MountDrafts /\ mountDraft.kind = "project"
  BY EmptyMountTyped DEF DialogInit, PopupKinds
<1>4. /\ checks = {} /\ volumes \subseteq Volumes /\ creation = NoFolder /\ added = NoFolder
      /\ vouched = [folders |-> {}, volumes |-> volumes]
  BY DEF DialogInit
<1>5. DialogTypeOK BY <1>2, <1>3, <1>4, DialogTypes
<1>6. NeverStuck BY <1>2 DEF NeverStuck
<1>7. ChecksInv /\ PickerInv /\ StorageInv
  BY <1>2, <1>3, <1>4 DEF ChecksInv, PickerInv, StorageInv
<1> QED BY <1>5, <1>6, <1>7 DEF DialogInv

\* What every step of the dialog does.
LEMMA DialogStep ==
  ASSUME DialogInv, DialogNext
  PROVE  DialogInv' /\ (added' # added /\ added' # NoFolder => HandsOver(added'))
PROOF
<1>1. CASE OpenAdd \/ PickKind \/ TypeProject \/ TypeDestination \/ PickVolume BY <1>1, DraftStep
<1>2. CASE RequestClose \/ KeepEditing \/ DiscardAndClose BY <1>2, ClosingStep
<1>3. CASE LeaveField \/ SubmitTyped BY <1>3, AskedStep
<1>4. CASE SubmitAtOnce BY <1>4, AtOnceStep
<1>5. CASE \E c \in checks : BlurAnswers(c) \/ SubmitAnswers(c) BY <1>5, AnswerStep
<1>6. CASE Browse \/ PathAnswers \/ ChildAnswers \/ SelectEntry \/ Advance \/ Navigate \/ ClosePicker
  BY <1>6, BrowserStep
<1>7. CASE UsePicked BY <1>7, UseStep
<1>8. CASE StartCreation \/ CreationAccepted \/ CreationRefused \/ VolumesChange BY <1>8, StorageStep
<1> QED BY <1>1, <1>2, <1>3, <1>4, <1>5, <1>6, <1>7, <1>8 DEF DialogNext

LEMMA DialogStutter == DialogInv /\ UNCHANGED dialogVars => DialogInv'
PROOF
<1> SUFFICES ASSUME DialogInv, UNCHANGED dialogVars PROVE DialogInv'
  OBVIOUS
<1>1. /\ addPopup' = addPopup /\ mountDraft' = mountDraft /\ checks' = checks /\ picker' = picker
      /\ volumes' = volumes /\ creation' = creation /\ added' = added /\ vouched' = vouched
  BY DEF dialogVars
<1>2. DialogTypeOK'
  <2>1. /\ addPopup \in PopupType /\ mountDraft \in MountDrafts /\ checks \subseteq CheckType
        /\ picker \in PickerType /\ volumes \subseteq Volumes
        /\ creation = NoFolder \/ creation \in CreationType
        /\ added = NoFolder \/ added \in MountDrafts
        /\ vouched \in [folders : SUBSET Folders, volumes : SUBSET Volumes]
    BY DialogTypes DEF DialogInv
  <2> QED BY <1>1, <2>1, TypedNext
<1>3. NeverStuck' /\ ChecksInv' /\ PickerInv' /\ StorageInv'
  BY <1>1 DEF DialogInv, NeverStuck, ChecksInv, PickerInv, StorageInv
<1> QED BY <1>2, <1>3 DEF DialogInv

\* The fields of the popup, the checks and the browser are of the shapes
\* container-card-editors.tsx and container-card-directory.tsx give them.
THEOREM DialogTypeCorrect == DialogSpec => []DialogTypeOK
PROOF
<1>1. DialogInit => DialogInv BY DialogInitInv
<1>2. DialogInv /\ [DialogNext]_dialogVars => DialogInv' BY DialogStep, DialogStutter
<1>3. DialogInv => DialogTypeOK BY DEF DialogInv
<1> QED BY <1>1, <1>2, <1>3, PTL DEF DialogSpec

\* MountsEditor hands over what it shows and waits for nothing that is gone,
\* for any directories, volumes and number of answers under way.
THEOREM DialogSound == DialogSpec => MountDialogSound
PROOF
<1>1. DialogInit => DialogInv BY DialogInitInv
<1>2. DialogInv /\ [DialogNext]_dialogVars => DialogInv' BY DialogStep, DialogStutter
<1>3. DialogInv /\ [DialogNext]_dialogVars =>
        [NeverStuck' /\ (added' # added /\ added' # NoFolder => HandsOver(added'))]_dialogVars
  BY DialogStep DEF DialogInv
<1> QED BY <1>1, <1>2, <1>3, PTL DEF DialogSpec, MountDialogSound

-----------------------------------------------------------------------------
(* TemplatePopup.                                                          *)

\* What the proof needs of the shape of the popups and the editors.
IsCheck(x) ==
  x \in [kind : {x.kind}, box : {x.box}, source : {x.source}, chosen : {x.chosen}, straddled : {x.straddled}]
IsPopup(x) ==
  /\ x \in [stage : {x.stage}, choice : {x.choice}, inspecting : {x.inspecting}, plan : {x.plan}, draft : {x.draft},
            building : {x.building}, failed : {x.failed}, check : {x.check}, resume : {x.resume},
            straddled : {x.straddled}, visits : {x.visits}]
  /\ IsCheck(x.check)
IsEditor(x) ==
  x \in [kind : {x.kind}, box : {x.box}, draft : {x.draft}, source : {x.source}, chosen : {x.chosen},
         straddled : {x.straddled}, spent : BOOLEAN]

\* What the details know, as long as no build of an earlier choice disturbs them.
Undisturbed(x, runs) ==
  /\ \A s \in Slots : runs[s].phase # "free" => runs[s].choice = x.choice
  /\ x.plan.choice \in {Nothing, x.choice}
  /\ x.draft \in {Nothing, x.choice}

\* A plan is about a template, and tells of its image what the host has.
PlanTrue(plan, images, gone) ==
  plan.choice # Nothing => plan.choice \in Choices /\ (plan.ready /\ ~gone => images[plan.choice])

\* What Continue found, and what the editor will be given.
CheckSound(x, images, gone) ==
  x.check # NoCheck =>
    /\ x.draft # Nothing
    /\ x.check.chosen \in Choices
    /\ ~x.check.straddled =>
         /\ x.draft = x.check.chosen
         /\ x.check.kind = "replace" => x.check.source = x.check.chosen
         /\ ~gone => images[x.draft]

PopupSound(x, runs, images, gone) ==
  /\ IsPopup(x)
  /\ x.choice \in Maybe(Choices) /\ x.resume \in Maybe(Choices)
  /\ x.stage = "details" => x.choice # Nothing
  /\ x.inspecting => x.stage = "details"
  /\ x.stage = "details" /\ ~x.straddled => Undisturbed(x, runs)
  /\ PlanTrue(x.plan, images, gone)
  /\ CheckSound(x, images, gone)

\* The property, of one editor.
Good(e, images, gone) ==
  e # NoEditor /\ ~e.straddled =>
    /\ e.draft \in Choices /\ e.draft = e.chosen
    /\ e.kind = "replace" /\ ~e.spent => e.source = e.chosen
    /\ ~gone => images[e.draft]
EditorSound(e, images, gone) == IsEditor(e) /\ Good(e, images, gone)

BuildsKnown ==
  /\ DOMAIN builds = Slots /\ builds = [s \in DOMAIN builds |-> builds[s]]
  /\ \A s \in Slots : builds[s].phase # "free" => builds[s].choice \in Choices

PopupInv ==
  /\ DOMAIN built = Choices
  /\ BuildsKnown
  /\ PopupSound(popup, builds, built, vanished)
  /\ EditorSound(editor, built, vanished)
  /\ EditorSound(applying, built, vanished)
  /\ EditorSound(applied, built, vanished)

LEMMA NoEditorIsSound ==
  ASSUME NEW images, NEW gone PROVE EditorSound(NoEditor, images, gone)
BY DEF EditorSound, IsEditor, Good, NoEditor

LEMMA NoCheckIsCheck == IsCheck(NoCheck) BY DEF IsCheck, NoCheck

\* A step of the popups alone.
LEMMA PopupMoves ==
  ASSUME PopupInv, PopupSound(popup', builds, built, vanished),
         UNCHANGED <<builds, editor, applying, built, applied, vanished>>
  PROVE  PopupInv'
BY DEF PopupInv, BuildsKnown, PopupSound, EditorSound

-----------------------------------------------------------------------------
\* The details open: nothing of an earlier choice is left, but for its builds.
LEMMA DetailsSound ==
  ASSUME PopupInv, NEW choice \in Choices, Nothing \notin Choices
  PROVE  PopupSound(Details(choice), builds, built, vanished)
<1> DEFINE x == Details(choice)
           draft == IF popup.resume = choice THEN choice ELSE Nothing
           straddled == \E s \in Slots : builds[s].phase # "free"
<1>1. IsPopup(popup) /\ popup.resume \in Maybe(Choices) BY DEF PopupInv, PopupSound
<1>2. x = [popup EXCEPT !.stage = "details", !.choice = choice, !.inspecting = TRUE, !.plan = NoPlan,
                !.draft = draft, !.building = FALSE, !.failed = FALSE, !.check = NoCheck,
                !.straddled = straddled, !.visits = @ + 1]
  BY DEF Details
<1>3. draft \in {Nothing, choice} OBVIOUS
<1>4. ~straddled => \A s \in Slots : builds[s].phase = "free" OBVIOUS
<1>5. straddled \in BOOLEAN OBVIOUS
<1> HIDE DEF draft, straddled, x
<1>6. /\ IsPopup(x) /\ x.stage = "details" /\ x.choice = choice /\ x.plan = NoPlan /\ x.draft = draft
      /\ x.check = NoCheck /\ x.straddled = straddled /\ x.resume = popup.resume
  BY <1>1, <1>2, <1>5, NoCheckIsCheck DEF IsPopup
<1>7. NoPlan.choice = Nothing BY DEF NoPlan
<1>8. Undisturbed(x, builds) \/ x.straddled BY <1>3, <1>4, <1>6, <1>7 DEF Undisturbed
<1>9. PlanTrue(x.plan, built, vanished) /\ CheckSound(x, built, vanished) BY <1>6, <1>7 DEF PlanTrue, CheckSound
<1> QED BY <1>1, <1>6, <1>8, <1>9 DEF PopupSound, Maybe, x

LEMMA PopupPickerStep ==
  ASSUME PopupInv, OpenPicker \/ BackToPicker \/ ClosePopup \/ CheckOvertaken \/ InspectFails
  PROVE  PopupInv'
<1>1. UNCHANGED <<builds, editor, applying, built, applied, vanished>>
  BY DEF OpenPicker, BackToPicker, ClosePopup, CheckOvertaken, InspectFails
<1>2. PopupSound(popup, builds, built, vanished) /\ IsPopup(popup) BY DEF PopupInv, PopupSound
<1>3. /\ IsPopup(popup') /\ popup'.plan = popup.plan /\ popup'.draft = popup.draft /\ popup'.straddled = popup.straddled
      /\ popup'.check \in {popup.check, NoCheck} /\ popup'.choice \in {popup.choice, Nothing}
      /\ popup'.resume \in {popup.resume, Nothing}
      /\ \/ popup'.stage # "details" /\ popup'.inspecting = FALSE
         \/ popup'.stage # "details" /\ popup'.inspecting = popup.inspecting /\ popup.stage # "details"
         \/ popup'.stage = popup.stage /\ popup'.choice = popup.choice /\ popup'.inspecting \in {popup.inspecting, FALSE}
  <2>1. CASE OpenPicker BY <2>1, <1>2 DEF OpenPicker, IsPopup
  <2>2. CASE BackToPicker BY <2>2, <1>2 DEF BackToPicker, IsPopup
  <2>3. CASE ClosePopup BY <2>3, <1>2 DEF ClosePopup, IsPopup
  <2>4. CASE CheckOvertaken BY <2>4, <1>2, NoCheckIsCheck DEF CheckOvertaken, IsPopup
  <2>5. CASE InspectFails BY <2>5, <1>2 DEF InspectFails, IsPopup
  <2> QED BY <2>1, <2>2, <2>3, <2>4, <2>5
<1>4. PopupSound(popup', builds, built, vanished)
  BY <1>2, <1>3 DEF PopupSound, Undisturbed, CheckSound, Maybe
<1> QED BY <1>1, <1>4, PopupMoves

LEMMA ChooseStep ==
  ASSUME PopupInv, NEW choice \in Choices, Choose(choice)
  PROVE  PopupInv'
<1>1. popup' = Details(choice) /\ UNCHANGED <<builds, editor, applying, built, applied, vanished>> BY DEF Choose
<1>2. PopupSound(Details(choice), builds, built, vanished) BY DetailsSound, PopupAssumption
<1> QED BY <1>1, <1>2, PopupMoves

LEMMA PlanIsTrue ==
  ASSUME NEW choice \in Choices PROVE PlanTrue(Plan(choice), built, vanished) /\ Plan(choice).choice = choice
BY DEF Plan, PlanTrue

LEMMA InspectStep ==
  ASSUME PopupInv, InspectAnswers
  PROVE  PopupInv'
<1>1. PICK plan, draft : /\ plan = Plan(popup.choice) /\ draft = IF popup.draft = Nothing THEN popup.choice ELSE popup.draft
                         /\ popup' = [popup EXCEPT !.inspecting = FALSE, !.plan = plan, !.draft = draft]
  BY DEF InspectAnswers
<1>2. /\ PopupSound(popup, builds, built, vanished) /\ IsPopup(popup) /\ popup.stage = "details" /\ popup.choice \in Choices
      /\ UNCHANGED <<builds, editor, applying, built, applied, vanished>>
  BY DEF PopupInv, PopupSound, InspectAnswers, Maybe
<1>3. /\ IsPopup(popup') /\ popup'.plan = plan /\ popup'.draft = draft /\ popup'.straddled = popup.straddled
      /\ popup'.check = popup.check /\ popup'.choice = popup.choice /\ popup'.stage = popup.stage /\ popup'.inspecting = FALSE
      /\ popup'.resume = popup.resume
  BY <1>1, <1>2 DEF IsPopup
<1>4. PlanTrue(plan, built, vanished) /\ plan.choice = popup.choice BY <1>1, <1>2, PlanIsTrue
<1>5. PopupSound(popup', builds, built, vanished)
  BY <1>1, <1>2, <1>3, <1>4 DEF PopupSound, Undisturbed, CheckSound
<1> QED BY <1>2, <1>5, PopupMoves

LEMMA ContinueStep ==
  ASSUME PopupInv, NEW kind, NEW box, Continue(kind, box)
  PROVE  PopupInv'
<1>1. PICK check : /\ check = [kind |-> kind, box |-> box, chosen |-> popup.choice,
                               source |-> IF kind = "replace" THEN popup.plan.choice ELSE Nothing,
                               straddled |-> popup.straddled]
                   /\ popup' = [popup EXCEPT !.check = check]
  BY DEF Continue
<1>2. /\ PopupSound(popup, builds, built, vanished) /\ IsPopup(popup) /\ popup.stage = "details" /\ popup.choice \in Choices
      /\ UNCHANGED <<builds, editor, applying, built, applied, vanished>>
  BY DEF PopupInv, PopupSound, Continue, Maybe
<1>3. /\ IsCheck(check) /\ check.kind = kind /\ check.chosen = popup.choice /\ check.straddled = popup.straddled
      /\ kind = "replace" => check.source = popup.plan.choice
  BY <1>1 DEF IsCheck
<1>4. /\ IsPopup(popup') /\ popup'.check = check /\ popup'.plan = popup.plan /\ popup'.draft = popup.draft
      /\ popup'.straddled = popup.straddled /\ popup'.choice = popup.choice /\ popup'.stage = popup.stage
      /\ popup'.inspecting = popup.inspecting /\ popup'.resume = popup.resume
  BY <1>1, <1>2, <1>3 DEF IsPopup
<1>5. /\ popup.plan.choice # Nothing /\ popup.draft # Nothing
      /\ popup.draft = popup.plan.choice => popup.plan.ready
      /\ popup.draft # popup.plan.choice => built[popup.draft]
  BY DEF Continue, Blocked
<1>6. ~popup.straddled => popup.plan.choice = popup.choice /\ popup.draft = popup.choice
  BY <1>2, <1>5 DEF PopupSound, Undisturbed
<1>7. ~vanished => built[popup.draft] BY <1>2, <1>5 DEF PopupSound, PlanTrue
<1>8. CheckSound(popup', built, vanished) BY <1>2, <1>3, <1>4, <1>5, <1>6, <1>7 DEF CheckSound
<1>9. PopupSound(popup', builds, built, vanished) BY <1>2, <1>4, <1>8 DEF PopupSound, Undisturbed
<1> QED BY <1>2, <1>9, PopupMoves

-----------------------------------------------------------------------------
\* Images that are built stay, unless one vanishes.
ImagesMove == (\A c \in Choices : built[c] /\ ~vanished' => built'[c]) /\ (vanished => vanished')

LEMMA SoundThroughout ==
  ASSUME ImagesMove
  PROVE  /\ \A e : EditorSound(e, built, vanished) => EditorSound(e, built', vanished')
         /\ \A plan : PlanTrue(plan, built, vanished) => PlanTrue(plan, built', vanished')
         /\ \A x : CheckSound(x, built, vanished) => CheckSound(x, built', vanished')
BY DEF ImagesMove, EditorSound, Good, PlanTrue, CheckSound

\* The build s goes on or ends, and what the popup learns of it.
LEMMA BuildMoves ==
  ASSUME PopupInv, NEW s \in Slots, NEW plan, NEW building, NEW failed, NEW run,
         popup' = [popup EXCEPT !.plan = plan, !.building = building, !.failed = failed],
         builds' = [builds EXCEPT ![s] = run],
         run.phase # "free" => run.choice = popup.choice /\ run.choice \in Choices,
         plan = popup.plan \/ (PlanTrue(plan, built', vanished') /\ builds[s].phase # "free" /\ plan.choice = builds[s].choice),
         ImagesMove, DOMAIN built' = Choices, UNCHANGED <<editor, applying, applied>>
  PROVE  PopupInv'
<1>1. BuildsKnown' /\ builds'[s] = run /\ \A r \in Slots \ {s} : builds'[r] = builds[r] BY DEF PopupInv, BuildsKnown
<1>2. PopupSound(popup, builds, built, vanished) /\ IsPopup(popup) BY DEF PopupInv, PopupSound
<1>3. /\ IsPopup(popup') /\ popup'.check = popup.check /\ popup'.plan = plan /\ popup'.draft = popup.draft
      /\ popup'.straddled = popup.straddled /\ popup'.choice = popup.choice /\ popup'.stage = popup.stage
      /\ popup'.inspecting = popup.inspecting /\ popup'.resume = popup.resume
  BY <1>2 DEF IsPopup
<1>4. PlanTrue(plan, built', vanished') BY <1>2, SoundThroughout DEF PopupSound
<1>5. CheckSound(popup', built', vanished')
  <2>1. CheckSound(popup, built', vanished') BY <1>2, SoundThroughout DEF PopupSound
  <2> QED BY <2>1, <1>3 DEF CheckSound
<1>6. Undisturbed(popup, builds) => Undisturbed(popup', builds') BY <1>1, <1>3 DEF Undisturbed
<1>7. PopupSound(popup', builds', built', vanished') BY <1>2, <1>3, <1>4, <1>5, <1>6 DEF PopupSound
<1>8. /\ EditorSound(editor', built', vanished') /\ EditorSound(applying', built', vanished')
      /\ EditorSound(applied', built', vanished')
  BY SoundThroughout DEF PopupInv
<1> QED BY <1>1, <1>7, <1>8 DEF PopupInv

LEMMA BuildStep ==
  ASSUME PopupInv, NEW s \in Slots,
         StartBuild(s) \/ BuildDone(s) \/ BuildFails(s) \/ Rechecked(s) \/ RecheckFails(s)
  PROVE  PopupInv'
<1>1. /\ IsPopup(popup) /\ popup.choice \in Maybe(Choices) /\ (popup.stage = "details" => popup.choice # Nothing)
      /\ builds[s].phase # "free" => builds[s].choice \in Choices
      /\ DOMAIN built = Choices
  BY DEF PopupInv, PopupSound, BuildsKnown
<1>2. UNCHANGED <<editor, applying, applied, vanished>>
  BY DEF StartBuild, BuildDone, BuildFails, Rechecked, RecheckFails
<1>3. FreeSlot.phase = "free" BY DEF FreeSlot
<1>4. UNCHANGED built => ImagesMove /\ DOMAIN built' = Choices BY <1>1, <1>2 DEF ImagesMove
<1>5. ASSUME NEW run, run = IF popup.choice = Nothing THEN FreeSlot ELSE [phase |-> "recheck", choice |-> popup.choice]
      PROVE  run.phase # "free" => run.choice = popup.choice /\ run.choice \in Choices
  BY <1>1, <1>3, <1>5 DEF Maybe
<1>6. CASE StartBuild(s)
  <2>1. PICK run : run = [phase |-> "build", choice |-> popup.choice] OBVIOUS
  <2>2. popup' = [popup EXCEPT !.plan = popup.plan, !.building = TRUE, !.failed = FALSE] BY <1>1, <1>6 DEF StartBuild, IsPopup
  <2>3. run.choice = popup.choice /\ popup.choice \in Choices BY <1>1, <1>6, <2>1 DEF StartBuild, Maybe
  <2>4. builds' = [builds EXCEPT ![s] = run] /\ UNCHANGED built BY <1>6, <2>1 DEF StartBuild
  <2> QED BY <1>2, <1>4, <2>2, <2>3, <2>4, BuildMoves
<1>7. CASE BuildDone(s)
  <2>1. PICK run : run = IF popup.choice = Nothing THEN FreeSlot ELSE [phase |-> "recheck", choice |-> popup.choice] OBVIOUS
  <2>2. PICK plan, building : /\ plan = [choice |-> builds[s].choice, ready |-> TRUE] /\ building = StillBuilding
                              /\ popup' = [popup EXCEPT !.plan = plan, !.building = building]
    BY <1>7 DEF BuildDone
  <2>3. popup' = [popup EXCEPT !.plan = plan, !.building = building, !.failed = popup.failed] BY <1>1, <2>2 DEF IsPopup
  <2>4. /\ builds' = [builds EXCEPT ![s] = run] /\ built' = [built EXCEPT ![builds[s].choice] = TRUE]
        /\ builds[s].phase = "build"
    BY <1>7, <2>1 DEF BuildDone, Recheck
  <2>5. ImagesMove /\ DOMAIN built' = Choices /\ built'[builds[s].choice] BY <1>1, <1>2, <2>4 DEF ImagesMove
  <2>6. PlanTrue(plan, built', vanished') /\ plan.choice = builds[s].choice BY <1>1, <2>2, <2>4, <2>5 DEF PlanTrue
  <2>7. run.phase # "free" => run.choice = popup.choice /\ run.choice \in Choices BY <1>5, <2>1
  <2>8. builds[s].phase # "free" BY <2>4
  <2> QED BY <1>2, <2>3, <2>4, <2>5, <2>6, <2>7, <2>8, BuildMoves
<1>8. CASE BuildFails(s)
  <2>1. PICK run : run = IF popup.choice = Nothing THEN FreeSlot ELSE [phase |-> "recheck", choice |-> popup.choice] OBVIOUS
  <2>2. PICK building : /\ building = StillBuilding /\ popup' = [popup EXCEPT !.failed = TRUE, !.building = building]
    BY <1>8 DEF BuildFails
  <2>3. popup' = [popup EXCEPT !.plan = popup.plan, !.building = building, !.failed = TRUE] BY <1>1, <2>2 DEF IsPopup
  <2>4. builds' = [builds EXCEPT ![s] = run] /\ UNCHANGED built BY <1>8, <2>1 DEF BuildFails, Recheck
  <2>5. run.phase # "free" => run.choice = popup.choice /\ run.choice \in Choices BY <1>5, <2>1
  <2> QED BY <1>2, <1>4, <2>3, <2>4, <2>5, BuildMoves
<1>9. CASE Rechecked(s)
  <2>1. PICK plan : plan = Plan(builds[s].choice) /\ popup' = [popup EXCEPT !.plan = plan, !.building = FALSE]
    BY <1>9 DEF Rechecked
  <2>2. popup' = [popup EXCEPT !.plan = plan, !.building = FALSE, !.failed = popup.failed] BY <1>1, <2>1 DEF IsPopup
  <2>3. builds' = [builds EXCEPT ![s] = FreeSlot] /\ UNCHANGED built /\ builds[s].phase # "free" BY <1>9 DEF Rechecked
  <2>4. PlanTrue(plan, built, vanished) /\ plan.choice = builds[s].choice BY <1>1, <2>1, <2>3, PlanIsTrue
  <2>5. PlanTrue(plan, built', vanished') BY <2>3, <2>4, <1>2
  <2> QED BY <1>2, <1>3, <1>4, <2>2, <2>3, <2>4, <2>5, BuildMoves
<1>10. CASE RecheckFails(s)
  <2>1. popup' = [popup EXCEPT !.plan = popup.plan, !.building = FALSE, !.failed = popup.failed]
    BY <1>1, <1>10 DEF RecheckFails, IsPopup
  <2>2. builds' = [builds EXCEPT ![s] = FreeSlot] /\ UNCHANGED built BY <1>10 DEF RecheckFails
  <2> QED BY <1>2, <1>3, <1>4, <2>1, <2>2, BuildMoves
<1> QED BY <1>6, <1>7, <1>8, <1>9, <1>10

LEMMA VanishStep ==
  ASSUME PopupInv, ImageVanishes PROVE PopupInv'
<1>1. UNCHANGED <<popup, builds, editor, applying, applied>> /\ vanished' /\ DOMAIN built' = Choices
  BY DEF PopupInv, ImageVanishes
<1>2. ImagesMove BY <1>1 DEF ImagesMove
<1>3. PopupSound(popup, builds, built', vanished') BY <1>2, SoundThroughout DEF PopupInv, PopupSound
<1>4. BuildsKnown' BY <1>1 DEF PopupInv, BuildsKnown
<1>5. /\ EditorSound(editor, built', vanished') /\ EditorSound(applying, built', vanished')
      /\ EditorSound(applied, built', vanished')
  BY <1>2, SoundThroughout DEF PopupInv
<1> QED BY <1>1, <1>3, <1>4, <1>5 DEF PopupInv

-----------------------------------------------------------------------------
\* What the check found is what the editor gets.
LEMMA HandOverStep ==
  ASSUME PopupInv, HandOver PROVE PopupInv'
<1> DEFINE check == popup.check
<1>1. /\ PopupSound(popup, builds, built, vanished) /\ IsPopup(popup) /\ CheckSound(popup, built, vanished)
      /\ check # NoCheck
      /\ UNCHANGED <<builds, applying, built, applied, vanished>>
  BY DEF PopupInv, PopupSound, HandOver
<1>2. editor' = [kind |-> check.kind, box |-> check.box, draft |-> popup.draft, source |-> check.source,
                 chosen |-> check.chosen, straddled |-> check.straddled, spent |-> FALSE]
  BY DEF HandOver
<1>3. EditorSound(editor', built, vanished)
  <2>1. /\ IsEditor(editor') /\ editor'.draft = popup.draft /\ editor'.kind = check.kind /\ editor'.source = check.source
        /\ editor'.chosen = check.chosen /\ editor'.straddled = check.straddled
    BY <1>2 DEF IsEditor
  <2> QED BY <2>1, <1>1 DEF EditorSound, Good, CheckSound
<1>4. /\ IsPopup(popup') /\ popup'.check = NoCheck /\ popup'.plan = popup.plan /\ popup'.choice = Nothing
      /\ popup'.stage = "closed" /\ popup'.inspecting = FALSE /\ popup'.resume = check.chosen
  BY <1>1, NoCheckIsCheck DEF HandOver, IsPopup
<1>5. check.chosen \in Choices BY <1>1 DEF CheckSound
<1>6. PopupSound(popup', builds, built, vanished) BY <1>1, <1>4, <1>5 DEF PopupSound, CheckSound, Maybe
<1> QED BY <1>1, <1>3, <1>6 DEF PopupInv, BuildsKnown

LEMMA ResumeDropped ==
  ASSUME PopupInv, NEW x, x = [popup EXCEPT !.resume = Nothing]
  PROVE  PopupSound(x, builds, built, vanished)
<1>1. PopupSound(popup, builds, built, vanished) /\ IsPopup(popup) BY DEF PopupInv, PopupSound
<1>2. /\ IsPopup(x) /\ x.check = popup.check /\ x.plan = popup.plan /\ x.draft = popup.draft
      /\ x.straddled = popup.straddled /\ x.choice = popup.choice /\ x.stage = popup.stage
      /\ x.inspecting = popup.inspecting /\ x.resume = Nothing
  BY <1>1 DEF IsPopup
<1> QED BY <1>1, <1>2 DEF PopupSound, Undisturbed, CheckSound, Maybe

LEMMA EditorStep ==
  ASSUME PopupInv, EditorBack \/ EditorClose \/ Create \/ StartApply \/ ApplyDone \/ ApplyFails
  PROVE  PopupInv'
<1>1. UNCHANGED <<builds, built, vanished>> BY DEF EditorBack, EditorClose, Create, StartApply, ApplyDone, ApplyFails
<1>2. PopupSound(popup', builds, built, vanished)
  <2>1. CASE EditorBack
    <3>1. popup.resume \in Choices BY <2>1 DEF EditorBack, PopupInv, PopupSound, Maybe
    <3>2. popup' = Details(popup.resume) BY <2>1 DEF EditorBack
    <3> QED BY <3>1, <3>2, DetailsSound, PopupAssumption
  <2>2. CASE EditorClose \/ Create \/ ApplyDone BY <2>2, ResumeDropped DEF EditorClose, Create, ApplyDone
  <2>3. CASE StartApply \/ ApplyFails BY <2>3 DEF StartApply, ApplyFails, PopupInv
  <2> QED BY <2>1, <2>2, <2>3
<1>3. /\ EditorSound(editor', built, vanished) /\ EditorSound(applying', built, vanished)
      /\ EditorSound(applied', built, vanished)
  <2>1. /\ EditorSound(editor, built, vanished) /\ EditorSound(applying, built, vanished)
        /\ EditorSound(applied, built, vanished) /\ EditorSound(NoEditor, built, vanished)
    BY NoEditorIsSound DEF PopupInv
  <2>2. CASE EditorBack \/ EditorClose \/ Create \/ StartApply \/ ApplyFails
    BY <2>1, <2>2 DEF EditorBack, EditorClose, Create, StartApply, ApplyFails
  <2>3. CASE ApplyDone
    <3> DEFINE e == [editor EXCEPT !.source = Nothing, !.spent = TRUE]
    <3>1. /\ IsEditor(e) /\ e.draft = editor.draft /\ e.kind = editor.kind /\ e.chosen = editor.chosen
          /\ e.straddled = editor.straddled /\ e.spent = TRUE
      BY <2>1 DEF EditorSound, IsEditor
    <3>2. editor # NoEditor => EditorSound(e, built, vanished) BY <2>1, <3>1 DEF EditorSound, Good
    <3>3. editor' = editor \/ (editor' = e /\ editor.kind = "replace") BY <2>3 DEF ApplyDone
    <3>4. NoEditor.kind # "replace" BY DEF NoEditor
    <3>5. EditorSound(editor', built, vanished) BY <2>1, <3>2, <3>3, <3>4
    <3> QED BY <2>1, <2>3, <3>5 DEF ApplyDone
  <2> QED BY <2>2, <2>3
<1> QED BY <1>1, <1>2, <1>3 DEF PopupInv, BuildsKnown

-----------------------------------------------------------------------------
LEMMA PopupStarts == PopupInit => PopupInv
<1> SUFFICES ASSUME PopupInit PROVE PopupInv OBVIOUS
<1>1. BuildsKnown BY DEF PopupInit, BuildsKnown, FreeSlot
<1>2. DOMAIN built = Choices BY DEF PopupInit
<1>3. /\ IsPopup(popup) /\ popup.stage = "closed" /\ popup.choice = Nothing /\ popup.resume = Nothing
      /\ popup.inspecting = FALSE /\ popup.plan = NoPlan /\ popup.check = NoCheck
  BY NoCheckIsCheck DEF PopupInit, IsPopup
<1>4. NoPlan.choice = Nothing BY DEF NoPlan
<1>5. PopupSound(popup, builds, built, vanished) BY <1>3, <1>4 DEF PopupSound, PlanTrue, CheckSound, Maybe
<1>6. editor = NoEditor /\ applying = NoEditor /\ applied = NoEditor BY DEF PopupInit
<1> QED BY <1>1, <1>2, <1>5, <1>6, NoEditorIsSound DEF PopupInv

LEMMA PopupSteps == ASSUME PopupInv, [PopupNext]_popupVars PROVE PopupInv'
<1>1. CASE UNCHANGED popupVars
  BY <1>1 DEF popupVars, PopupInv, BuildsKnown, PopupSound, EditorSound
<1>2. CASE OpenPicker \/ BackToPicker \/ ClosePopup \/ CheckOvertaken \/ InspectFails BY <1>2, PopupPickerStep
<1>3. CASE InspectAnswers \/ ImageVanishes \/ HandOver BY <1>3, InspectStep, VanishStep, HandOverStep
<1>4. CASE EditorBack \/ EditorClose \/ Create \/ StartApply \/ ApplyDone \/ ApplyFails BY <1>4, EditorStep
<1>5. CASE \E c \in Choices : Choose(c) BY <1>5, ChooseStep
<1>6. CASE (\E box \in Boxes : Continue("replace", box)) \/ Continue("create", Nothing) BY <1>6, ContinueStep
<1>7. CASE \E s \in Slots : StartBuild(s) \/ BuildDone(s) \/ BuildFails(s) \/ Rechecked(s) \/ RecheckFails(s)
  BY <1>7, BuildStep
<1> QED BY <1>1, <1>2, <1>3, <1>4, <1>5, <1>6, <1>7 DEF PopupNext

\* What the editor shows, applies and publishes is of the template chosen when
\* Continue was clicked, and its image was there, whatever inspections, builds,
\* re-checks and applies answer in between (TemplateDetailsModal, the editor's Back).
THEOREM PopupContinuesWithChosen == PopupSpec => []ContinuesWithChosen
<1>1. PopupInv => ContinuesWithChosen
  BY DEF PopupInv, EditorSound, Good, ContinuesWithChosen
<1> QED BY <1>1, PopupStarts, PopupSteps, PTL DEF PopupSpec

-----------------------------------------------------------------------------
(* ContainerForm.                                                          *)

VarRow(values) == [name : VarNames \cup {""}, value : values]
\* No row of an editor is unnamed, no two have one name.
Clean(rows) == Distinct(NamesOf(rows)) /\ \A i \in DOMAIN rows : rows[i].name # ""

LEMMA ListOf ==
  ASSUME NEW S, IsFiniteSet(S)
  PROVE  \E n \in Nat : /\ NameList(S) \in [1..n -> S]
                        /\ \A i, j \in 1..n : NameList(S)[i] = NameList(S)[j] => i = j
                        /\ \A x \in S : \E i \in 1..n : NameList(S)[i] = x
<1>1. PICK n \in Nat : n = Cardinality(S) /\ ExistsBijection(1..n, S)
  BY FS_CardinalityType
<1>2. PICK g : g \in Surjection(1..n, S)
  BY <1>1 DEF ExistsBijection, Bijection
<1>3. \E list \in [1..Cardinality(S) -> S] : \A x \in S : \E i \in DOMAIN list : list[i] = x
  <2>1. g \in [1..n -> S] /\ \A x \in S : \E i \in DOMAIN g : g[i] = x
    BY <1>2 DEF Surjection
  <2> QED BY <1>1, <2>1
<1>4. PICK f : f = NameList(S)
  OBVIOUS
<1>5. f \in [1..Cardinality(S) -> S] /\ \A x \in S : \E i \in DOMAIN f : f[i] = x
  BY <1>3, <1>4, Zenon DEF NameList
<1>6. f \in [1..n -> S] /\ \A x \in S : \E i \in 1..n : f[i] = x
  BY <1>1, <1>5
<1>7. f \in Surjection(1..n, S)
  BY <1>6 DEF Surjection
<1>8. IsFiniteSet(1..n) /\ Cardinality(1..n) = n
  BY <1>1, FS_Interval
<1>9. f \in Injection(1..n, S)
  BY <1>1, <1>7, <1>8, FS_SurjSameCardinalityImpliesInj
<1>10. \A i, j \in 1..n : f[i] = f[j] => i = j
  BY <1>6, <1>9 DEF Injection, IsInjective
<1> QED BY <1>4, <1>6, <1>10

\* Of some rows there is a last one.
LEMMA LastOne ==
  ASSUME NEW n \in Nat, NEW S, S \subseteq 1..n, S # {}
  PROVE  \E i \in S : \A j \in S : j <= i
<1> DEFINE D == {n - i : i \in S}
<1>1. D \subseteq Nat /\ D # {}
  <2>1. \A i \in S : i \in Int /\ 1 <= i /\ i <= n
    OBVIOUS
  <2>2. \A i \in S : n - i \in Nat
    BY <2>1
  <2> QED BY <2>2
<1>2. IsWellFoundedOn(OpToRel(<, Nat), Nat)
  BY NatLessThanWellFounded
<1>3. PICK x \in D : \A y \in D : <<y, x>> \notin OpToRel(<, Nat)
  BY <1>1, <1>2, WFMin
<1>4. \A y \in D : ~(y < x)
  BY <1>1, <1>3 DEF OpToRel
<1>5. PICK i \in S : x = n - i
  BY <1>3
<1>6. ASSUME NEW j \in S PROVE j <= i
  <2>1. n - j \in D
    OBVIOUS
  <2>2. ~(n - j < n - i)
    BY <1>4, <1>5, <2>1
  <2> QED BY <2>2
<1> QED BY <1>5, <1>6

LEMMA RecordOfType ==
  ASSUME NEW values, NEW rows \in Seq(VarRow(values))
  PROVE  /\ RecordOf(rows) \in Records(values)
         /\ DOMAIN RecordOf(rows) = {rows[i].name : i \in DOMAIN rows} \ {""}
         /\ \A x \in DOMAIN RecordOf(rows) : \E i \in DOMAIN rows : rows[i].name = x /\ RecordOf(rows)[x] = rows[i].value
<1> DEFINE names == {rows[i].name : i \in DOMAIN rows} \ {""}
           last(x) == CHOOSE i \in DOMAIN rows :
                        rows[i].name = x /\ \A j \in DOMAIN rows : rows[j].name = x => j <= i
<1>1. Len(rows) \in Nat /\ DOMAIN rows = 1..Len(rows) /\ \A i \in DOMAIN rows : rows[i] \in VarRow(values)
  OBVIOUS
<1>2. names \in SUBSET VarNames
  BY <1>1 DEF VarRow
<1>3. ASSUME NEW x \in names PROVE last(x) \in DOMAIN rows /\ rows[last(x)].name = x
  <2> DEFINE S == {i \in DOMAIN rows : rows[i].name = x}
  <2>1. S \subseteq 1..Len(rows) /\ S # {}
    BY <1>1
  <2>2. PICK i \in S : \A j \in S : j <= i
    <3> HIDE DEF S
    <3> QED BY <1>1, <2>1, LastOne
  <2> QED BY <2>2
<1>4. RecordOf(rows) = [x \in names |-> rows[last(x)].value]
  BY DEF RecordOf
<1> HIDE DEF names, last
<1>5. RecordOf(rows) \in [names -> values]
  BY <1>1, <1>3, <1>4 DEF VarRow
<1>6. RecordOf(rows) \in Records(values)
  BY <1>2, <1>5 DEF Records
<1>7. \A x \in names : \E i \in DOMAIN rows : rows[i].name = x /\ RecordOf(rows)[x] = rows[i].value
  BY <1>3, <1>4
<1> QED BY <1>5, <1>6, <1>7 DEF names

LEMMA CleanRowsShow ==
  ASSUME NEW values, NEW rows \in Seq(VarRow(values)), Clean(rows)
  PROVE  Shown(rows, RecordOf(rows))
<1>1. /\ DOMAIN RecordOf(rows) = {rows[i].name : i \in DOMAIN rows} \ {""}
      /\ \A x \in DOMAIN RecordOf(rows) : \E i \in DOMAIN rows : rows[i].name = x /\ RecordOf(rows)[x] = rows[i].value
  BY RecordOfType
<1>2. \A i, j \in DOMAIN rows : rows[i].name = rows[j].name => i = j
  BY DEF Clean, Distinct, NamesOf
<1>3. \A i \in DOMAIN rows : rows[i].name \in DOMAIN RecordOf(rows)
  BY <1>1 DEF Clean
<1>4. ASSUME NEW i \in DOMAIN rows PROVE RecordOf(rows)[rows[i].name] = rows[i].value
  <2>1. PICK k \in DOMAIN rows : rows[k].name = rows[i].name /\ RecordOf(rows)[rows[i].name] = rows[k].value
    BY <1>1, <1>3
  <2> QED BY <2>1, <1>2
<1>5. \A n \in DOMAIN RecordOf(rows) : \E i \in DOMAIN rows : rows[i].name = n
  BY <1>1
<1> QED BY <1>3, <1>4, <1>5 DEF Shown

LEMMA RowIn ==
  ASSUME NEW values, NEW x \in VarNames \cup {""}, NEW v \in values
  PROVE  Row(x, v) \in VarRow(values) /\ Row(x, v).name = x /\ Row(x, v).value = v
BY DEF Row, VarRow

LEMMA ListIsSeq ==
  ASSUME NEW T, NEW n \in Nat, NEW list \in [1..n -> T]
  PROVE  list \in Seq(T) /\ Len(list) = n /\ DOMAIN list = 1..n
OBVIOUS

\* Only one record is shown by some rows.
LEMMA ShownOnce ==
  ASSUME NEW values, NEW rows, NEW one \in Records(values), NEW two \in Records(values),
         Shown(rows, one), Shown(rows, two)
  PROVE  one = two
<1>1. \A x : x \in DOMAIN one <=> x \in DOMAIN two
  BY DEF Shown
<1>2. \A x \in DOMAIN one : one[x] = two[x]
  BY DEF Shown
<1>3. one \in [DOMAIN one -> values] /\ two \in [DOMAIN two -> values]
  BY DEF Records
<1>4. DOMAIN one = DOMAIN two
  BY <1>1
<1> QED BY <1>2, <1>3, <1>4

LEMMA RowsOfSound ==
  ASSUME FormAssumption, NEW values, NEW record \in Records(values)
  PROVE  /\ RowsOf(record) \in Seq(VarRow(values))
         /\ RecordOf(RowsOf(record)) = record
         /\ Clean(RowsOf(record))
<1>1. PICK S : S = DOMAIN record /\ S \subseteq VarNames /\ record \in [S -> values]
  BY DEF Records
<1>2. IsFiniteSet(S) /\ "" \notin S
  BY <1>1, FS_Subset DEF FormAssumption
<1>3. PICK n \in Nat : /\ NameList(S) \in [1..n -> S]
                       /\ \A i, j \in 1..n : NameList(S)[i] = NameList(S)[j] => i = j
                       /\ \A x \in S : \E i \in 1..n : NameList(S)[i] = x
  BY <1>2, ListOf
<1>4. PICK f \in [1..n -> S] : f = NameList(S)
  BY <1>3
<1>5. PICK rows : rows = RowsOf(record)
  OBVIOUS
<1>6. rows = [i \in 1..n |-> Row(f[i], record[f[i]])]
  BY <1>1, <1>4, <1>5 DEF RowsOf
<1>7. ASSUME NEW i \in 1..n
      PROVE  rows[i] \in VarRow(values) /\ rows[i].name = f[i] /\ rows[i].value = record[f[i]]
  <2>1. rows[i] = Row(f[i], record[f[i]])
    BY <1>6
  <2>2. f[i] \in S /\ record[f[i]] \in values
    BY <1>1, <1>4
  <2>3. f[i] \in VarNames \cup {""}
    BY <2>2, <1>1
  <2>4. PICK x \in VarNames \cup {""} : x = f[i]
    BY <2>3
  <2>5. PICK v \in values : v = record[f[i]]
    BY <2>2
  <2>6. Row(x, v) \in VarRow(values) /\ Row(x, v).name = x /\ Row(x, v).value = v
    BY RowIn
  <2>7. rows[i] = Row(x, v)
    BY <2>1, <2>4, <2>5
  <2> QED BY <2>4, <2>5, <2>6, <2>7, Zenon
<1>8. rows \in [1..n -> VarRow(values)]
  BY <1>6, <1>7
<1>9. rows \in Seq(VarRow(values)) /\ DOMAIN rows = 1..n
  BY <1>8, ListIsSeq
<1>10. Clean(rows)
  <2>1. ASSUME NEW i \in 1..n PROVE rows[i].name # ""
    <3>1. f[i] \in S
      BY <1>4
    <3> QED BY <3>1, <1>2, <1>7, Zenon
  <2>2. ASSUME NEW i \in 1..n, NEW j \in 1..n, rows[i].name = rows[j].name PROVE i = j
    <3>1. f[i] = f[j]
      BY <2>2, <1>7, Zenon
    <3> QED BY <3>1, <1>3, <1>4, Zenon
  <2> QED BY <2>1, <2>2, <1>9, Zenon DEF Clean, Distinct, NamesOf
<1>11. Shown(rows, record)
  <2>1. ASSUME NEW i \in 1..n PROVE rows[i].name \in DOMAIN record
    <3>1. f[i] \in S
      BY <1>4
    <3> QED BY <3>1, <1>1, <1>7, Zenon
  <2>2. ASSUME NEW i \in 1..n PROVE record[rows[i].name] = rows[i].value
    BY <1>7, Zenon
  <2>3. ASSUME NEW x \in DOMAIN record PROVE \E i \in 1..n : rows[i].name = x
    <3>1. PICK i \in 1..n : f[i] = x
      BY <1>1, <1>3, <1>4
    <3> QED BY <3>1, <1>7, Zenon
  <2> QED BY <2>1, <2>2, <2>3, <1>9, Zenon DEF Shown
<1>12. Shown(rows, RecordOf(rows)) /\ RecordOf(rows) \in Records(values)
  BY <1>9, <1>10, CleanRowsShow, RecordOfType
<1>13. RecordOf(rows) = record
  BY <1>11, <1>12, ShownOnce
<1> QED BY <1>5, <1>9, <1>10, <1>13

LEMMA RebuiltSound ==
  ASSUME FormAssumption, NEW values, NEW record \in Records(values), NEW rows \in Seq(VarRow(values))
  PROVE  /\ Rebuilt(rows, record) \in Seq(VarRow(values))
         /\ RecordOf(Rebuilt(rows, record)) = record
         /\ Clean(rows) => Clean(Rebuilt(rows, record))
         /\ RecordOf(rows) = record => Rebuilt(rows, record) = rows
BY RowsOfSound DEF Rebuilt

-----------------------------------------------------------------------------
(* The rows and the draft of the form.                                     *)

RowsOK(r) ==
  /\ r = [env |-> r.env, secretEnv |-> r.secretEnv, at |-> r.at]
  /\ r.env \in Seq(VarRow(EnvValues)) /\ r.secretEnv \in Seq(VarRow(FormSecrets))
  /\ r.at \in 0..Len(r.secretEnv)
DraftOK(d) ==
  /\ d = [env |-> d.env, secretEnv |-> d.secretEnv, mounts |-> d.mounts, paths |-> d.paths, ports |-> d.ports]
  /\ d.env \in Records(EnvValues) /\ d.secretEnv \in Records(FormSecrets)
  /\ d.mounts \in Seq({"ok", "refused"}) /\ d.paths \in Seq(FormPaths) /\ d.ports \subseteq FormPorts
\* The editors derive the records of the draft from their rows.
RowsFit(r, d) == RecordOf(r.env) = d.env /\ RecordOf(r.secretEnv) = d.secretEnv
CleanBoth(r) == Clean(r.env) /\ Clean(r.secretEnv)

LEMMA DraftsAre == \A d : d \in FormDrafts <=> DraftOK(d)
BY DEF FormDrafts, DraftOK

LEMMA SeqIs ==
  ASSUME NEW T, NEW s \in Seq(T)
  PROVE  /\ Len(s) \in Nat /\ DOMAIN s = 1..Len(s) /\ \A i \in DOMAIN s : s[i] \in T
         /\ \A x \in T : Append(s, x) \in Seq(T) /\ Len(Append(s, x)) = Len(s) + 1
OBVIOUS

LEMMA NoneIsSeq == \A T : <<>> \in Seq(T) /\ Len(<<>>) = 0
OBVIOUS

LEMMA OneIsSeq == \A T : \A x \in T : <<x>> \in Seq(T)
OBVIOUS

LEMMA ZeroIn == \A n \in Nat : 0 \in 0..n
OBVIOUS

LEMMA WrittenSound ==
  ASSUME FormAssumption, RowsOK(formRows), NEW draft, DraftOK(draft), Written(draft)
  PROVE  /\ formDraft' = draft /\ RowsOK(formRows') /\ RowsFit(formRows', draft)
         /\ CleanBoth(formRows) => CleanBoth(formRows')
<1>1. PICK e, s : e = Rebuilt(formRows.env, draft.env) /\ s = Rebuilt(formRows.secretEnv, draft.secretEnv)
  OBVIOUS
<1>2. PICK a : a = IF RecordOf(formRows.secretEnv) = draft.secretEnv THEN formRows.at ELSE 0
  OBVIOUS
<1>3. formRows' = [env |-> e, secretEnv |-> s, at |-> a] /\ formDraft' = draft
  BY <1>1, <1>2, Zenon DEF Written
<1>4. e \in Seq(VarRow(EnvValues)) /\ RecordOf(e) = draft.env /\ (Clean(formRows.env) => Clean(e))
  BY <1>1, RebuiltSound DEF RowsOK, DraftOK
<1>5. /\ s \in Seq(VarRow(FormSecrets)) /\ RecordOf(s) = draft.secretEnv
      /\ Clean(formRows.secretEnv) => Clean(s)
      /\ RecordOf(formRows.secretEnv) = draft.secretEnv => s = formRows.secretEnv
  BY <1>1, RebuiltSound DEF RowsOK, DraftOK
<1>6. a \in 0..Len(s)
  <2>1. PICK n \in Nat : n = Len(s)
    BY <1>5, SeqIs
  <2>2. CASE RecordOf(formRows.secretEnv) = draft.secretEnv
    <3>1. s = formRows.secretEnv /\ a = formRows.at
      BY <1>2, <1>5, <2>2, Zenon
    <3> QED BY <3>1, Zenon DEF RowsOK
  <2>3. CASE RecordOf(formRows.secretEnv) # draft.secretEnv
    <3>1. a = 0
      BY <1>2, <2>3, Zenon
    <3>2. 0 \in 0..n
      BY <2>1, ZeroIn, Zenon
    <3> QED BY <2>1, <3>1, <3>2, Zenon
  <2> QED BY <2>2, <2>3, Zenon
<1>7. formRows'.env = e /\ formRows'.secretEnv = s /\ formRows'.at = a
  BY <1>3
<1>8. RowsOK(formRows')
  BY <1>3, <1>4, <1>5, <1>6, <1>7 DEF RowsOK
<1> QED BY <1>3, <1>4, <1>5, <1>7, <1>8 DEF RowsFit, CleanBoth

LEMMA FreshSound ==
  ASSUME FormAssumption, NEW draft, DraftOK(draft), Fresh(draft)
  PROVE  formDraft' = draft /\ RowsOK(formRows') /\ RowsFit(formRows', draft)
<1>1. PICK e, s : e = RowsOf(draft.env) /\ s = RowsOf(draft.secretEnv)
  OBVIOUS
<1>3. formRows' = [env |-> e, secretEnv |-> s, at |-> 0] /\ formDraft' = draft
  BY <1>1, Zenon DEF Fresh
<1>4. e \in Seq(VarRow(EnvValues)) /\ RecordOf(e) = draft.env
  BY <1>1, RowsOfSound DEF DraftOK
<1>5. s \in Seq(VarRow(FormSecrets)) /\ RecordOf(s) = draft.secretEnv
  BY <1>1, RowsOfSound DEF DraftOK
<1>6. 0 \in 0..Len(s)
  <2>1. PICK n \in Nat : n = Len(s)
    BY <1>5, SeqIs
  <2>2. 0 \in 0..n
    BY <2>1, ZeroIn, Zenon
  <2> QED BY <2>1, <2>2, Zenon
<1>7. formRows'.env = e /\ formRows'.secretEnv = s /\ formRows'.at = 0
  BY <1>3
<1>8. RowsOK(formRows')
  BY <1>3, <1>4, <1>5, <1>6, <1>7 DEF RowsOK
<1> QED BY <1>3, <1>4, <1>5, <1>7, <1>8 DEF RowsFit

LEMMA EnvToSound ==
  ASSUME RowsOK(formRows), DraftOK(formDraft), NEW rows \in Seq(VarRow(EnvValues)), EnvTo(rows)
  PROVE  /\ RowsOK(formRows') /\ DraftOK(formDraft')
         /\ RowsFit(formRows, formDraft) => RowsFit(formRows', formDraft')
<1>1. PICK e : e = RecordOf(rows)
  OBVIOUS
<1>2. e \in Records(EnvValues)
  BY <1>1, RecordOfType
<1>3. formRows' = [env |-> rows, secretEnv |-> formRows.secretEnv, at |-> formRows.at]
  BY DEF EnvTo, RowsOK
<1>4. formDraft' = [env |-> e, secretEnv |-> formDraft.secretEnv, mounts |-> formDraft.mounts,
                    paths |-> formDraft.paths, ports |-> formDraft.ports]
  BY <1>1 DEF EnvTo, DraftOK
<1>5. RowsOK(formRows')
  BY <1>3 DEF RowsOK
<1>6. DraftOK(formDraft')
  BY <1>2, <1>4 DEF DraftOK
<1>7. formRows'.env = rows /\ formRows'.secretEnv = formRows.secretEnv
  BY <1>3
<1>8. formDraft'.env = e /\ formDraft'.secretEnv = formDraft.secretEnv
  BY <1>4
<1> QED BY <1>1, <1>5, <1>6, <1>7, <1>8 DEF RowsFit

LEMMA SecretToSound ==
  ASSUME RowsOK(formRows), DraftOK(formDraft), NEW rows \in Seq(VarRow(FormSecrets)),
         NEW at \in 0..Len(rows), SecretTo(rows, at)
  PROVE  /\ RowsOK(formRows') /\ DraftOK(formDraft')
         /\ RowsFit(formRows, formDraft) => RowsFit(formRows', formDraft')
         /\ formRows'.env = formRows.env /\ formRows'.secretEnv = rows
         /\ formDraft'.env = formDraft.env /\ formDraft'.mounts = formDraft.mounts
<1>1. PICK e : e = RecordOf(rows)
  OBVIOUS
<1>2. e \in Records(FormSecrets)
  BY <1>1, RecordOfType
<1>3. formRows' = [env |-> formRows.env, secretEnv |-> rows, at |-> at]
  BY DEF SecretTo, RowsOK
<1>4. formDraft' = [env |-> formDraft.env, secretEnv |-> e, mounts |-> formDraft.mounts,
                    paths |-> formDraft.paths, ports |-> formDraft.ports]
  BY <1>1 DEF SecretTo, DraftOK
<1>5. RowsOK(formRows')
  BY <1>3 DEF RowsOK
<1>6. DraftOK(formDraft')
  BY <1>2, <1>4 DEF DraftOK
<1>7. formRows'.env = formRows.env /\ formRows'.secretEnv = rows
  BY <1>3
<1>8. formDraft'.env = formDraft.env /\ formDraft'.secretEnv = e /\ formDraft'.mounts = formDraft.mounts
  BY <1>4
<1> QED BY <1>1, <1>5, <1>6, <1>7, <1>8 DEF RowsFit

LEMMA AddedRow ==
  ASSUME NEW values, NEW rows \in Seq(VarRow(values)), NEW x \in VarNames \cup {""}, NEW v \in values
  PROVE  Append(rows, Row(x, v)) \in Seq(VarRow(values)) /\ Len(Append(rows, Row(x, v))) = Len(rows) + 1
<1>1. PICK made \in VarRow(values) : made = Row(x, v)
  BY RowIn
<1>2. Append(rows, made) \in Seq(VarRow(values)) /\ Len(Append(rows, made)) = Len(rows) + 1
  BY SeqIs
<1> QED BY <1>1, <1>2

LEMMA SetRow ==
  ASSUME NEW T, NEW rows \in Seq(T), NEW i \in DOMAIN rows, NEW made \in T
  PROVE  /\ [rows EXCEPT ![i] = made] \in Seq(T) /\ Len([rows EXCEPT ![i] = made]) = Len(rows)
         /\ DOMAIN [rows EXCEPT ![i] = made] = DOMAIN rows
         /\ \A j \in DOMAIN rows : [rows EXCEPT ![i] = made][j] = IF j = i THEN made ELSE rows[j]
OBVIOUS

LEMMA NamedRow ==
  ASSUME NEW values, NEW rows \in Seq(VarRow(values)), NEW i \in DOMAIN rows, NEW x \in VarNames \cup {""}
  PROVE  [rows EXCEPT ![i].name = x] \in Seq(VarRow(values)) /\ Len([rows EXCEPT ![i].name = x]) = Len(rows)
<1>1. rows[i] \in VarRow(values)
  BY SeqIs
<1>2. PICK made : made = [rows[i] EXCEPT !.name = x]
  OBVIOUS
<1>3. made \in VarRow(values)
  BY <1>1, <1>2 DEF VarRow
<1>4. PICK to : to = [rows EXCEPT ![i] = made]
  OBVIOUS
<1>5. [rows EXCEPT ![i].name = x] = to
  BY <1>2, <1>4
<1>6. to \in Seq(VarRow(values)) /\ Len(to) = Len(rows)
  BY <1>3, <1>4, SetRow, Zenon
<1> QED BY <1>5, <1>6, Zenon

LEMMA ValuedRow ==
  ASSUME NEW values, NEW rows \in Seq(VarRow(values)), NEW i \in DOMAIN rows, NEW v \in values,
         NEW to, to = [rows EXCEPT ![i].value = v]
  PROVE  /\ to \in Seq(VarRow(values)) /\ Len(to) = Len(rows) /\ DOMAIN to = DOMAIN rows
         /\ \A j \in DOMAIN rows : to[j].name = rows[j].name
<1>1. rows[i] \in VarRow(values)
  BY SeqIs
<1>2. PICK made : made = [rows[i] EXCEPT !.value = v]
  OBVIOUS
<1>3. made \in VarRow(values) /\ made.name = rows[i].name
  BY <1>1, <1>2 DEF VarRow
<1>4. to = [rows EXCEPT ![i] = made]
  BY <1>2
<1>5. /\ to \in Seq(VarRow(values)) /\ Len(to) = Len(rows) /\ DOMAIN to = DOMAIN rows
      /\ \A j \in DOMAIN rows : to[j] = IF j = i THEN made ELSE rows[j]
  BY <1>3, <1>4, SetRow
<1> QED BY <1>3, <1>5

LEMMA AddedSecret ==
  ASSUME NEW rows \in Seq(VarRow(FormSecrets)), NEW s \in FormSecrets
  PROVE  Append(rows, Row("", s)) \in Seq(VarRow(FormSecrets)) /\ Len(Append(rows, Row("", s))) = Len(rows) + 1
<1>1. "" \in VarNames \cup {""}
  OBVIOUS
<1>2. PICK made \in VarRow(FormSecrets) : made = Row("", s)
  BY <1>1, RowIn
<1>3. Append(rows, made) \in Seq(VarRow(FormSecrets)) /\ Len(Append(rows, made)) = Len(rows) + 1
  BY SeqIs
<1> QED BY <1>2, <1>3, Zenon

\* Rows whose values alone are others.
Revalued(rows, to) ==
  /\ to \in Seq(VarRow(FormSecrets)) /\ Len(to) = Len(rows) /\ DOMAIN to = DOMAIN rows
  /\ \A j \in DOMAIN rows : to[j].name = rows[j].name
WithValue(rows, i, v) == [rows EXCEPT ![i].value = v]

LEMMA ValuedSecret ==
  ASSUME NEW rows \in Seq(VarRow(FormSecrets)), NEW i \in DOMAIN rows, NEW v \in FormSecrets
  PROVE  Revalued(rows, WithValue(rows, i, v))
<1>1. PICK to : to = [rows EXCEPT ![i].value = v]
  OBVIOUS
<1>2. /\ to \in Seq(VarRow(FormSecrets)) /\ Len(to) = Len(rows) /\ DOMAIN to = DOMAIN rows
      /\ \A j \in DOMAIN rows : to[j].name = rows[j].name
  BY <1>1, ValuedRow
<1> QED BY <1>1, <1>2, Zenon DEF Revalued, WithValue

LEMMA DroppedSeq ==
  ASSUME NEW T, NEW list \in Seq(T), NEW i \in DOMAIN list
  PROVE  Dropped(list, i) \in Seq(T) /\ Len(Dropped(list, i)) = Len(list) - 1
<1>1. PICK n \in Nat : n = Len(list) - 1
  OBVIOUS
<1>2. Dropped(list, i) \in [1..n -> T]
  BY <1>1 DEF Dropped
<1> QED BY <1>1, <1>2, ListIsSeq

LEMMA PathList ==
  ASSUME FormAssumption, NEW p \in FormPaths \cup {""}
  PROVE  (IF p = "" THEN <<>> ELSE <<p>>) \in Seq(FormPaths)
<1>1. CASE p = ""
  BY <1>1, NoneIsSeq, Zenon
<1>2. CASE p # ""
  BY <1>2, OneIsSeq, Zenon
<1> QED BY <1>1, <1>2

LEMMA DraftParts ==
  ASSUME NEW d, DraftOK(d)
  PROVE  /\ \A m \in Seq({"ok", "refused"}) : DraftOK([d EXCEPT !.mounts = m])
         /\ \A p \in Seq(FormPaths) : DraftOK([d EXCEPT !.paths = p])
         /\ \A q \in SUBSET FormPorts : DraftOK([d EXCEPT !.ports = q])
         /\ \A e \in Records(EnvValues) : DraftOK([d EXCEPT !.env = e])
BY DEF DraftOK

\* A draft the checks let through: no name in both groups, no destination the host
\* refuses.
LegalDraft(d) ==
  /\ DOMAIN d.env \cap DOMAIN d.secretEnv = {}
  /\ \A i \in DOMAIN d.mounts : d.mounts[i] = "ok"

Joins(one, two, joined, k) ==
  /\ \A i \in DOMAIN one : i \in DOMAIN joined /\ joined[i] = one[i]
  /\ \A j \in DOMAIN two : /\ j + k \in DOMAIN joined /\ joined[j + k] = two[j]
                           /\ \A i \in DOMAIN one : j + k # i
  /\ \A i, j \in DOMAIN two : i + k = j + k => i = j

LEMMA JoinedNames ==
  ASSUME NEW T, NEW one \in Seq(T), NEW two \in Seq(T), NEW joined, joined = one \o two,
         NEW k, k = Len(one)
  PROVE  Joins(one, two, joined, k)
BY DEF Joins

LEMMA NamesAre ==
  ASSUME NEW values, NEW rows \in Seq(VarRow(values))
  PROVE  /\ NamesOf(rows) \in Seq(VarNames \cup {""}) /\ DOMAIN NamesOf(rows) = DOMAIN rows
         /\ \A i \in DOMAIN rows : NamesOf(rows)[i] = rows[i].name
<1>1. PICK n \in Nat : n = Len(rows) /\ DOMAIN rows = 1..n
  BY SeqIs
<1>2. \A i \in DOMAIN rows : rows[i].name \in VarNames \cup {""}
  <2>1. \A i \in DOMAIN rows : rows[i] \in VarRow(values)
    BY SeqIs
  <2> QED BY <2>1 DEF VarRow
<1>3. NamesOf(rows) \in [1..n -> VarNames \cup {""}]
  BY <1>1, <1>2 DEF NamesOf
<1>4. NamesOf(rows) \in Seq(VarNames \cup {""})
  BY <1>3, ListIsSeq
<1> QED BY <1>4 DEF NamesOf

LEMMA PassedForm ==
  ASSUME RowsOK(formRows), DraftOK(formDraft), RowsFit(formRows, formDraft), ~BlockingError
  PROVE  CleanBoth(formRows) /\ LegalDraft(formDraft)
<1>1. PICK e, s : e = formRows.env /\ s = formRows.secretEnv
  OBVIOUS
<1>2. e \in Seq(VarRow(EnvValues)) /\ s \in Seq(VarRow(FormSecrets))
  BY <1>1 DEF RowsOK
<1>3. PICK one, two \in Seq(VarNames \cup {""}) :
        /\ one = NamesOf(e) /\ DOMAIN one = DOMAIN e /\ \A i \in DOMAIN e : one[i] = e[i].name
        /\ two = NamesOf(s) /\ DOMAIN two = DOMAIN s /\ \A i \in DOMAIN s : two[i] = s[i].name
  BY <1>2, NamesAre
<1>4. PICK joined : joined = one \o two
  OBVIOUS
<1>5. joined = AllNames
  BY <1>1, <1>3, <1>4 DEF AllNames
<1>6. (\A i \in DOMAIN joined : joined[i] # "") /\ Distinct(joined)
  BY <1>5 DEF BlockingError, Conflict
<1>7. PICK k : k = Len(one)
  OBVIOUS
<1>8. /\ \A i \in DOMAIN one : i \in DOMAIN joined /\ joined[i] = one[i]
      /\ \A j \in DOMAIN two : /\ j + k \in DOMAIN joined /\ joined[j + k] = two[j]
                               /\ \A i \in DOMAIN one : j + k # i
      /\ \A i, j \in DOMAIN two : i + k = j + k => i = j
  <2>1. PICK T : T = VarNames \cup {""}
    OBVIOUS
  <2>2. one \in Seq(T) /\ two \in Seq(T)
    BY <1>3, <2>1
  <2>3. Joins(one, two, joined, k)
    BY <1>4, <1>7, <2>2, JoinedNames
  <2> QED BY <2>3, Zenon DEF Joins
<1>9. Clean(e)
  <2>1. ASSUME NEW i \in DOMAIN e PROVE e[i].name # ""
    <3>1. one[i] = e[i].name /\ i \in DOMAIN one
      BY <1>3, Zenon
    <3>2. i \in DOMAIN joined /\ joined[i] = one[i]
      BY <1>8, <3>1, Zenon
    <3> QED BY <1>6, <3>1, <3>2, Zenon
  <2>2. Distinct(one)
    BY <1>6, <1>8, Zenon DEF Distinct
  <2> QED BY <2>1, <2>2, <1>3, Zenon DEF Clean
<1>10. Clean(s)
  <2>1. ASSUME NEW i \in DOMAIN s PROVE s[i].name # ""
    <3>1. two[i] = s[i].name /\ i \in DOMAIN two
      BY <1>3, Zenon
    <3>2. i + k \in DOMAIN joined /\ joined[i + k] = two[i]
      BY <1>8, <3>1, Zenon
    <3> QED BY <1>6, <3>1, <3>2, Zenon
  <2>2. Distinct(two)
    BY <1>6, <1>8, Zenon DEF Distinct
  <2> QED BY <2>1, <2>2, <1>3, Zenon DEF Clean
<1>11. ASSUME NEW i \in DOMAIN e, NEW j \in DOMAIN s PROVE e[i].name # s[j].name
  <2>1. one[i] = e[i].name /\ i \in DOMAIN one /\ two[j] = s[j].name /\ j \in DOMAIN two
    BY <1>3, Zenon
  <2>2. i \in DOMAIN joined /\ joined[i] = one[i] /\ j + k \in DOMAIN joined /\ joined[j + k] = two[j] /\ j + k # i
    BY <1>8, <2>1, Zenon
  <2> QED BY <1>6, <2>1, <2>2, Zenon DEF Distinct
<1>12. /\ DOMAIN RecordOf(e) = {e[i].name : i \in DOMAIN e} \ {""}
       /\ DOMAIN RecordOf(s) = {s[i].name : i \in DOMAIN s} \ {""}
  BY <1>2, RecordOfType
<1>13. DOMAIN RecordOf(e) \cap DOMAIN RecordOf(s) = {}
  BY <1>11, <1>12
<1>14. RecordOf(e) = formDraft.env /\ RecordOf(s) = formDraft.secretEnv
  BY <1>1 DEF RowsFit
<1>15. DOMAIN formDraft.env \cap DOMAIN formDraft.secretEnv = {}
  BY <1>13, <1>14, Zenon
<1>16. ASSUME NEW i \in DOMAIN formDraft.mounts PROVE formDraft.mounts[i] = "ok"
  <2>1. formDraft.mounts[i] \in {"ok", "refused"}
    BY SeqIs DEF DraftOK
  <2>2. formDraft.mounts[i] # "refused"
    BY DEF BlockingError
  <2> QED BY <2>1, <2>2
<1> QED BY <1>1, <1>9, <1>10, <1>15, <1>16 DEF CleanBoth, LegalDraft

-----------------------------------------------------------------------------
(* The form.                                                               *)

\* The parts beside the draft and the rows.
FormParts ==
  /\ formDialog \in [mode : {"create", "edit"}, open : BOOLEAN, asking : BOOLEAN, applying : BOOLEAN]
  /\ secrets \in [listed : SUBSET FormSecrets, asked : FormSecrets \cup {""}, pending : FormSecrets \cup {""}]
  /\ formSpent \in [edits : 0..MaxEdits, snapshots : 0..MaxSnapshots]
SendsOK ==
  /\ sends = [turn |-> sends.turn, config |-> sends.config] /\ sends.turn \in BOOLEAN
  /\ sends.config = NoForm \/ DraftOK(sends.config)
KeptOK == DraftOK(formServer) /\ DraftOK(staged) /\ (capture = NoForm \/ DraftOK(capture))
EditedOK == DraftOK(formDraft) /\ RowsOK(formRows)

\* While the confirmation is open the form has passed its checks and nothing else
\* but a snapshot changes it.
AskedOK ==
  formDialog.asking =>
    /\ formDialog.open /\ formDialog.mode = "edit" /\ ~formDialog.applying
    /\ capture = NoForm /\ CleanBoth(formRows)
FormInv ==
  /\ FormParts /\ SendsOK /\ KeptOK /\ EditedOK
  /\ formDialog.open => RowsFit(formRows, formDraft)
  /\ AskedOK
  /\ formDialog.applying => sends.config # NoForm

LEMMA FormTypeMeans == FormAssumption /\ FormInv => FormTypeOK
<1> SUFFICES ASSUME FormAssumption, FormInv PROVE FormTypeOK
  OBVIOUS
<1>1. {formDraft, formServer, staged} \subseteq FormDrafts /\ {capture, sends.config} \subseteq FormDrafts \cup {NoForm}
  BY DraftsAre DEF FormInv, KeptOK, EditedOK, SendsOK
<1>2. /\ sends.turn \in BOOLEAN
      /\ formRows.env \in Seq(VarRow(EnvValues)) /\ formRows.secretEnv \in Seq(VarRow(FormSecrets))
      /\ formRows.at \in 0..Len(formRows.secretEnv)
  BY DEF FormInv, SendsOK, EditedOK, RowsOK
<1> QED BY <1>1, <1>2, Zenon DEF FormTypeOK, FormInv, FormParts, VarRow

LEMMA FormStarts == FormAssumption /\ FormInit => FormInv
<1> SUFFICES ASSUME FormAssumption, FormInit PROVE FormInv
  OBVIOUS
<1>1. DraftOK(formServer)
  BY DraftsAre DEF FormInit, FormAssumption
<1>2. KeptOK
  BY <1>1 DEF KeptOK, FormInit
<1>3. RowsOK(formRows)
  <2>1. PICK none : none = <<>>
    OBVIOUS
  <2>2. none \in Seq(VarRow(EnvValues)) /\ none \in Seq(VarRow(FormSecrets)) /\ Len(none) = 0
    BY <2>1, NoneIsSeq
  <2>3. formRows = [env |-> none, secretEnv |-> none, at |-> 0]
    BY <2>1, Zenon DEF FormInit
  <2>4. 0 \in 0..0
    BY ZeroIn
  <2> QED BY <2>2, <2>3, <2>4 DEF RowsOK
<1>4. EditedOK
  BY <1>1, <1>3 DEF EditedOK, FormInit
<1>5. SendsOK
  BY DEF SendsOK, FormInit
<1>6. FormParts
  <2>1. PICK mode \in {"create", "edit"} : formDialog = [mode |-> mode, open |-> FALSE, asking |-> FALSE, applying |-> FALSE]
    BY Zenon DEF FormInit, NoDialog
  <2>2. formDialog \in [mode : {"create", "edit"}, open : BOOLEAN, asking : BOOLEAN, applying : BOOLEAN]
    BY <2>1
  <2>3. PICK listed \in SUBSET FormSecrets : secrets = [listed |-> listed, asked |-> "", pending |-> ""]
    BY Zenon DEF FormInit
  <2>4. secrets \in [listed : SUBSET FormSecrets, asked : FormSecrets \cup {""}, pending : FormSecrets \cup {""}]
    BY <2>3
  <2>5. 0 \in 0..MaxEdits /\ 0 \in 0..MaxSnapshots
    BY ZeroIn, Zenon DEF FormAssumption
  <2>6. formSpent = [edits |-> 0, snapshots |-> 0]
    BY DEF FormInit
  <2>7. formSpent \in [edits : 0..MaxEdits, snapshots : 0..MaxSnapshots]
    BY <2>5, <2>6
  <2> QED BY <2>2, <2>4, <2>7 DEF FormParts
<1>7. ~formDialog.open /\ ~formDialog.asking /\ ~formDialog.applying
  <2>1. PICK mode \in {"create", "edit"} : formDialog = [mode |-> mode, open |-> FALSE, asking |-> FALSE, applying |-> FALSE]
    BY Zenon DEF FormInit, NoDialog
  <2> QED BY <2>1
<1> QED BY <1>2, <1>4, <1>5, <1>6, <1>7 DEF FormInv, AskedOK

LEMMA AtDropped ==
  ASSUME NEW k \in Nat, NEW i \in 1..k, NEW a \in 0..k
  PROVE  (IF a = i THEN 0 ELSE IF a > i THEN a - 1 ELSE a) \in 0..(k - 1)
OBVIOUS

LEMMA LastIn == \A k \in Nat : k + 1 \in 0..(k + 1)
OBVIOUS

LEMMA NotZeroIn ==
  ASSUME NEW k \in Nat, NEW i
  PROVE  i \in 0..k /\ i # 0 <=> i \in 1..k
OBVIOUS

LEMMA CountUp ==
  ASSUME NEW m \in Nat, NEW e \in 0..m, e < m
  PROVE  e + 1 \in 0..m
OBVIOUS

LEMMA EditCounted ==
  ASSUME FormAssumption, formSpent \in [edits : 0..MaxEdits, snapshots : 0..MaxSnapshots],
         formSpent.edits < MaxEdits, Edited
  PROVE  formSpent' \in [edits : 0..MaxEdits, snapshots : 0..MaxSnapshots]
<1>1. MaxEdits \in Nat
  BY Zenon DEF FormAssumption
<1>2. PICK k \in 0..MaxEdits : k = formSpent.edits + 1
  <2>1. PICK e \in 0..MaxEdits : e = formSpent.edits
    OBVIOUS
  <2>2. e + 1 \in 0..MaxEdits
    BY <1>1, <2>1, CountUp, Zenon
  <2> QED BY <2>1, <2>2, Zenon
<1>3. formSpent' = [formSpent EXCEPT !.edits = k]
  BY <1>2 DEF Edited
<1> QED BY <1>3

LEMMA SnapshotCounted ==
  ASSUME FormAssumption, formSpent \in [edits : 0..MaxEdits, snapshots : 0..MaxSnapshots],
         formSpent.snapshots < MaxSnapshots,
         formSpent' = [formSpent EXCEPT !.snapshots = @ + 1]
  PROVE  formSpent' \in [edits : 0..MaxEdits, snapshots : 0..MaxSnapshots]
<1>1. MaxSnapshots \in Nat
  BY Zenon DEF FormAssumption
<1>2. PICK k \in 0..MaxSnapshots : k = formSpent.snapshots + 1
  <2>1. PICK e \in 0..MaxSnapshots : e = formSpent.snapshots
    OBVIOUS
  <2>2. e + 1 \in 0..MaxSnapshots
    BY <1>1, <2>1, CountUp, Zenon
  <2> QED BY <2>1, <2>2, Zenon
<1>3. formSpent' = [formSpent EXCEPT !.snapshots = k]
  BY <1>2
<1> QED BY <1>3

\* The dialog opens, closes or sends.
LEMMA OpenFormSteps == ASSUME FormAssumption, FormInv, OpenForm PROVE FormInv'
<1>1. PICK d : d = IF formDialog.mode = "create" THEN formServer ELSE formDraft
  OBVIOUS
<1>2. DraftOK(d)
  BY <1>1 DEF FormInv, KeptOK, EditedOK
<1>3. Fresh(d)
  BY <1>1 DEF OpenForm
<1>4. formDraft' = d /\ RowsOK(formRows') /\ RowsFit(formRows', d)
  BY <1>2, <1>3, FreshSound
<1>5. EditedOK' /\ RowsFit(formRows', formDraft')
  BY <1>2, <1>4 DEF EditedOK
<1>6. KeptOK'
  BY DEF FormInv, KeptOK, OpenForm
<1>7. SendsOK' /\ (formDialog.applying => sends' = sends)
  BY DEF FormInv, SendsOK, OpenForm
<1>8. FormParts' /\ formDialog'.applying = formDialog.applying /\ formDialog'.asking = formDialog.asking
  <2>1. formSpent' \in [edits : 0..MaxEdits, snapshots : 0..MaxSnapshots]
    BY EditCounted DEF FormInv, FormParts, OpenForm
  <2>2. /\ formDialog' \in [mode : {"create", "edit"}, open : BOOLEAN, asking : BOOLEAN, applying : BOOLEAN]
        /\ formDialog'.applying = formDialog.applying /\ formDialog'.asking = formDialog.asking
    BY DEF FormInv, FormParts, OpenForm
  <2>3. secrets' = secrets
    BY DEF OpenForm
  <2> QED BY <2>1, <2>2, <2>3 DEF FormInv, FormParts
<1>9. ~formDialog.asking
  BY DEF FormInv, AskedOK, OpenForm
<1> QED BY <1>5, <1>6, <1>7, <1>8, <1>9 DEF FormInv, AskedOK

LEMMA CloseFormSteps == ASSUME FormAssumption, FormInv, CloseForm PROVE FormInv'
<1>1. DraftOK(formDraft) /\ Fresh(formDraft)
  BY DEF FormInv, EditedOK, CloseForm
<1>2. formDraft' = formDraft /\ RowsOK(formRows') /\ RowsFit(formRows', formDraft)
  BY <1>1, FreshSound
<1>3. EditedOK' /\ RowsFit(formRows', formDraft')
  BY <1>1, <1>2 DEF EditedOK
<1>4. KeptOK'
  BY DEF FormInv, KeptOK, CloseForm
<1>5. SendsOK'
  BY DEF FormInv, SendsOK, CloseForm
<1>6. FormParts' /\ formDialog'.applying = formDialog.applying /\ ~formDialog'.asking
  BY DEF FormInv, FormParts, CloseForm
<1> QED BY <1>3, <1>4, <1>5, <1>6 DEF FormInv, AskedOK, CloseForm

LEMMA CreateSteps == ASSUME FormAssumption, FormInv, CreateContainer PROVE FormInv'
<1>1. DraftOK(formDraft) /\ Fresh(formDraft)
  BY DEF FormInv, EditedOK, CreateContainer
<1>2. formDraft' = formDraft /\ RowsOK(formRows') /\ RowsFit(formRows', formDraft)
  BY <1>1, FreshSound
<1>3. EditedOK' /\ RowsFit(formRows', formDraft')
  BY <1>1, <1>2 DEF EditedOK
<1>4. KeptOK'
  BY DEF FormInv, KeptOK, CreateContainer
<1>5. SendsOK' /\ sends'.config = formDraft
  BY <1>1 DEF FormInv, SendsOK, CreateContainer, Sent
<1>6. formDraft # NoForm
  BY <1>1, DraftsAre DEF FormAssumption
<1>7. ~formDialog.asking
  BY DEF FormInv, AskedOK, CreateContainer
<1>8. FormParts' /\ formDialog'.applying = formDialog.applying /\ formDialog'.asking = formDialog.asking
  BY DEF FormInv, FormParts, CreateContainer
<1> QED BY <1>3, <1>4, <1>5, <1>6, <1>7, <1>8 DEF FormInv, AskedOK, CreateContainer

\* Apply is asked for, confirmed or called off.
LEMMA AskSteps == ASSUME FormAssumption, FormInv, AskApply \/ CancelApply PROVE FormInv'
<1>1. FormParts' /\ formDialog'.applying = formDialog.applying /\ formDialog'.open = formDialog.open
        /\ formDialog'.mode = formDialog.mode /\ (CancelApply => ~formDialog'.asking)
  BY DEF FormInv, FormParts, AskApply, CancelApply
<1>2. UNCHANGED <<formDraft, formRows, formServer, staged, capture, sends>>
  BY DEF AskApply, CancelApply
<1>3. SendsOK' /\ KeptOK' /\ EditedOK' /\ (RowsFit(formRows, formDraft) => RowsFit(formRows', formDraft'))
  BY <1>2 DEF FormInv, SendsOK, KeptOK, EditedOK
<1>4. AskApply => CleanBoth(formRows')
  <2> SUFFICES ASSUME AskApply PROVE CleanBoth(formRows')
    OBVIOUS
  <2>1. CleanBoth(formRows)
    BY PassedForm DEF FormInv, EditedOK, AskApply
  <2> QED BY <2>1, <1>2
<1>5. AskedOK'
  BY <1>1, <1>2, <1>4 DEF AskedOK, AskApply
<1> QED BY <1>1, <1>2, <1>3, <1>5 DEF FormInv

LEMMA ConfirmSteps == ASSUME FormAssumption, FormInv, ConfirmApply PROVE FormInv'
<1>1. FormParts' /\ ~formDialog'.asking /\ formDialog'.open = formDialog.open
  BY DEF FormInv, FormParts, ConfirmApply
<1>2. DraftOK(formDraft)
  BY DEF FormInv, EditedOK
<1>3. SendsOK' /\ sends'.config = formDraft
  BY <1>2 DEF FormInv, SendsOK, ConfirmApply, Sent
<1>4. formDraft # NoForm
  BY <1>2, DraftsAre DEF FormAssumption
<1>5. KeptOK' /\ EditedOK'
  BY <1>2 DEF FormInv, KeptOK, EditedOK, ConfirmApply
<1>6. formDialog.open => RowsFit(formRows', formDraft')
  BY DEF FormInv, ConfirmApply
<1> QED BY <1>1, <1>3, <1>4, <1>5, <1>6 DEF FormInv, AskedOK

\* An action on the fields: the dialog is open and asks nothing.
LEMMA FieldSteps ==
  ASSUME FormInv, FormParts', EditedOK', KeptOK',
         UNCHANGED <<formDialog, sends>>, ~formDialog.asking,
         RowsFit(formRows, formDraft) => RowsFit(formRows', formDraft')
  PROVE  FormInv'
<1>1. SendsOK'
  BY DEF FormInv, SendsOK
<1> QED BY <1>1 DEF FormInv, AskedOK

LEMMA TypedParts ==
  ASSUME FormAssumption, FormInv, Typing, Edited, UNCHANGED <<formDialog, secrets>>
  PROVE  FormParts' /\ ~formDialog.asking
<1>1. formSpent' \in [edits : 0..MaxEdits, snapshots : 0..MaxSnapshots]
  BY EditCounted DEF FormInv, FormParts, Typing
<1>2. ~formDialog.asking
  BY DEF Typing
<1> QED BY <1>1, <1>2 DEF FormInv, FormParts

LEMMA WrittenSteps ==
  ASSUME FormAssumption, FormInv, NEW d, DraftOK(d), Written(d), FormParts', KeptOK',
         UNCHANGED <<formDialog, sends>>, ~formDialog.asking
  PROVE  FormInv'
<1>1. formDraft' = d /\ RowsOK(formRows') /\ RowsFit(formRows', d)
  BY WrittenSound DEF FormInv, EditedOK
<1>2. EditedOK' /\ RowsFit(formRows', formDraft')
  BY <1>1 DEF EditedOK
<1> QED BY <1>2, FieldSteps

LEMMA EditEnvSteps == ASSUME FormAssumption, FormInv, EditEnv PROVE FormInv'
<1>1. PICK rows \in Seq(VarRow(EnvValues)) : EnvTo(rows)
  <2>1. PICK rows : rows = formRows.env
    OBVIOUS
  <2>2. rows \in Seq(VarRow(EnvValues))
    BY <2>1 DEF FormInv, EditedOK, RowsOK
  <2>3. CASE Len(rows) < MaxRows /\ EnvTo(Append(rows, Row("", "")))
    <3>1. Append(rows, Row("", "")) \in Seq(VarRow(EnvValues))
      BY <2>2, AddedRow DEF FormAssumption
    <3> QED BY <2>3, <3>1
  <2>4. ASSUME NEW i \in DOMAIN rows, NEW n \in (VarNames \cup {""}) \ {rows[i].name}, EnvTo([rows EXCEPT ![i].name = n])
        PROVE  \E to \in Seq(VarRow(EnvValues)) : EnvTo(to)
    <3>1. [rows EXCEPT ![i].name = n] \in Seq(VarRow(EnvValues))
      BY <2>2, NamedRow
    <3> QED BY <2>4, <3>1, Zenon
  <2>5. ASSUME NEW i \in DOMAIN rows, NEW v \in EnvValues \ {rows[i].value}, EnvTo([rows EXCEPT ![i].value = v])
        PROVE  \E to \in Seq(VarRow(EnvValues)) : EnvTo(to)
    <3>1. PICK to : to = [rows EXCEPT ![i].value = v]
      OBVIOUS
    <3>2. to \in Seq(VarRow(EnvValues))
      BY <2>2, <3>1, ValuedRow
    <3> QED BY <2>5, <3>1, <3>2, Zenon
  <2>6. ASSUME NEW i \in DOMAIN rows, EnvTo(Dropped(rows, i))
        PROVE  \E to \in Seq(VarRow(EnvValues)) : EnvTo(to)
    <3>1. Dropped(rows, i) \in Seq(VarRow(EnvValues))
      BY <2>2, DroppedSeq
    <3> QED BY <2>6, <3>1, Zenon
  <2> QED BY <2>1, <2>3, <2>4, <2>5, <2>6, Zenon DEF EditEnv
<1>2. RowsOK(formRows') /\ DraftOK(formDraft') /\ (RowsFit(formRows, formDraft) => RowsFit(formRows', formDraft'))
  BY <1>1, EnvToSound DEF FormInv, EditedOK
<1>3. EditedOK'
  BY <1>2 DEF EditedOK
<1>4. FormParts' /\ ~formDialog.asking
  BY TypedParts DEF EditEnv
<1>5. KeptOK' /\ UNCHANGED <<formDialog, sends>>
  BY DEF FormInv, KeptOK, EditEnv
<1> QED BY <1>2, <1>3, <1>4, <1>5, FieldSteps

LEMMA EditSecretSteps == ASSUME FormAssumption, FormInv, EditSecretEnv PROVE FormInv'
<1> DEFINE Goal == \E rows \in Seq(VarRow(FormSecrets)) : \E at \in 0..Len(rows) : SecretTo(rows, at)
<1>1. Goal
  <2>1. PICK rows : rows = formRows.secretEnv
    OBVIOUS
  <2>2. rows \in Seq(VarRow(FormSecrets)) /\ formRows.at \in 0..Len(rows)
    BY <2>1 DEF FormInv, EditedOK, RowsOK
  <2>3. PICK k \in Nat : k = Len(rows) /\ DOMAIN rows = 1..k
    BY <2>2, SeqIs
  <2>4. PICK a \in 0..k : a = formRows.at
    BY <2>2, <2>3
  <2>5. secrets.listed \subseteq FormSecrets
    BY DEF FormInv, FormParts
  <2>6. ASSUME NEW s \in secrets.listed, SecretTo(Append(rows, Row("", s)), Len(rows) + 1)
        PROVE  Goal
    <3>0. s \in FormSecrets /\ "" \in VarNames \cup {""}
      BY <2>5
    <3>1a. Append(rows, Row("", s)) \in Seq(VarRow(FormSecrets)) /\ Len(Append(rows, Row("", s))) = Len(rows) + 1
      BY <2>2, <3>0, AddedSecret, Zenon
    <3>1. Append(rows, Row("", s)) \in Seq(VarRow(FormSecrets)) /\ Len(Append(rows, Row("", s))) = k + 1
      BY <2>3, <3>1a, Zenon
    <3>2. k + 1 \in 0..(k + 1)
      BY LastIn
    <3> QED BY <2>3, <2>6, <3>1, <3>2, Zenon
  <2>7. ASSUME NEW i \in DOMAIN rows, NEW n \in (VarNames \cup {""}) \ {rows[i].name},
               SecretTo([rows EXCEPT ![i].name = n], formRows.at)
        PROVE  Goal
    <3>1. [rows EXCEPT ![i].name = n] \in Seq(VarRow(FormSecrets)) /\ Len([rows EXCEPT ![i].name = n]) = Len(rows)
      BY <2>2, NamedRow
    <3> QED BY <2>2, <2>7, <3>1, Zenon
  <2>8. ASSUME NEW i \in DOMAIN rows, NEW s \in secrets.listed \ {rows[i].value},
               SecretTo([rows EXCEPT ![i].value = s], formRows.at)
        PROVE  Goal
    <3>0. s \in FormSecrets
      BY <2>5
    <3>1. PICK to : to = WithValue(rows, i, s)
      OBVIOUS
    <3>2. Revalued(rows, to)
      BY <2>2, <3>0, <3>1, ValuedSecret
    <3>3. to \in Seq(VarRow(FormSecrets)) /\ Len(to) = Len(rows) /\ to = [rows EXCEPT ![i].value = s]
      BY <3>1, <3>2, Zenon DEF Revalued, WithValue
    <3> QED BY <2>2, <2>8, <3>3, Zenon
  <2>9. ASSUME NEW i \in DOMAIN rows, NEW at,
               at = IF a = i THEN 0 ELSE IF a > i THEN a - 1 ELSE a,
               SecretTo(Dropped(rows, i), at)
        PROVE  Goal
    <3>1. Dropped(rows, i) \in Seq(VarRow(FormSecrets)) /\ Len(Dropped(rows, i)) = k - 1
      BY <2>2, <2>3, DroppedSeq
    <3>2. at \in 0..(k - 1)
      BY <2>3, <2>9, AtDropped
    <3> QED BY <2>9, <3>1, <3>2, Zenon
  <2> HIDE DEF Goal
  <2> QED BY <2>1, <2>4, <2>6, <2>7, <2>8, <2>9, Zenon DEF EditSecretEnv
<1>2a. PICK rows \in Seq(VarRow(FormSecrets)) : \E at \in 0..Len(rows) : SecretTo(rows, at)
  BY <1>1
<1>2. PICK at \in 0..Len(rows) : SecretTo(rows, at)
  BY <1>2a
<1>3. RowsOK(formRows') /\ DraftOK(formDraft') /\ (RowsFit(formRows, formDraft) => RowsFit(formRows', formDraft'))
  BY <1>2, SecretToSound DEF FormInv, EditedOK
<1>4. EditedOK'
  BY <1>3 DEF EditedOK
<1>5. FormParts' /\ ~formDialog.asking
  BY TypedParts DEF EditSecretEnv
<1>6. KeptOK' /\ UNCHANGED <<formDialog, sends>>
  BY DEF FormInv, KeptOK, EditSecretEnv
<1> QED BY <1>3, <1>4, <1>5, <1>6, FieldSteps

LEMMA AskSecretSteps == ASSUME FormAssumption, FormInv, AskSecret PROVE FormInv'
<1>1. PICK s \in FormSecrets : secrets' = [secrets EXCEPT !.asked = s, !.pending = s]
  BY DEF AskSecret
<1>2. formSpent' \in [edits : 0..MaxEdits, snapshots : 0..MaxSnapshots] /\ ~formDialog.asking
  BY EditCounted DEF FormInv, FormParts, AskSecret, Typing
<1>3. secrets' \in [listed : SUBSET FormSecrets, asked : FormSecrets \cup {""}, pending : FormSecrets \cup {""}]
  BY <1>1 DEF FormInv, FormParts
<1>4. UNCHANGED <<formDialog, formDraft, formServer, staged, capture, sends>>
  BY DEF AskSecret
<1>5. FormParts'
  BY <1>2, <1>3, <1>4 DEF FormInv, FormParts
<1>6. KeptOK'
  BY <1>4 DEF FormInv, KeptOK
<1>7. CASE UNCHANGED formRows
  <2>1. EditedOK' /\ (RowsFit(formRows, formDraft) => RowsFit(formRows', formDraft'))
    BY <1>4, <1>7 DEF FormInv, EditedOK
  <2> QED BY <2>1, <1>2, <1>4, <1>5, <1>6, FieldSteps
<1>8. ASSUME NEW i \in DOMAIN formRows.secretEnv, formRows' = [formRows EXCEPT !.at = i] PROVE FormInv'
  <2>1. i \in 0..Len(formRows.secretEnv)
    <3>1. PICK k \in Nat : k = Len(formRows.secretEnv) /\ i \in 1..k
      BY SeqIs DEF FormInv, EditedOK, RowsOK
    <3> QED BY <3>1, NotZeroIn, Zenon
  <2>2. formRows' = [env |-> formRows.env, secretEnv |-> formRows.secretEnv, at |-> i]
    BY <1>8 DEF FormInv, EditedOK, RowsOK
  <2>3. RowsOK(formRows') /\ formRows'.env = formRows.env /\ formRows'.secretEnv = formRows.secretEnv
    BY <2>1, <2>2 DEF FormInv, EditedOK, RowsOK
  <2>4. EditedOK' /\ (RowsFit(formRows, formDraft) => RowsFit(formRows', formDraft'))
    BY <2>3, <1>4 DEF FormInv, EditedOK, RowsFit
  <2> QED BY <2>4, <1>2, <1>4, <1>5, <1>6, FieldSteps
<1> QED BY <1>7, <1>8, Zenon DEF AskSecret

\* Other names, and so other checks, do not come with a secret that is listed.
LEMMA ListedSteps ==
  ASSUME FormAssumption, FormInv, NEW listed \in SUBSET FormSecrets, NEW asked \in FormSecrets \cup {""},
         SecretsListed(listed, asked)
  PROVE  /\ FormInv'
         /\ formDialog.asking /\ LegalDraft(formDraft) => LegalDraft(formDraft')
<1>1. secrets' \in [listed : SUBSET FormSecrets, asked : FormSecrets \cup {""}, pending : FormSecrets \cup {""}]
  BY DEF SecretsListed, FormInv, FormParts
<1>2. UNCHANGED <<formDialog, formServer, staged, capture, sends, formSpent>>
  BY DEF SecretsListed
<1>3. FormParts' /\ KeptOK' /\ SendsOK'
  BY <1>1, <1>2 DEF FormInv, FormParts, KeptOK, SendsOK
<1>4. CASE UNCHANGED <<formRows, formDraft>>
  <2>1. EditedOK' /\ (RowsFit(formRows, formDraft) => RowsFit(formRows', formDraft'))
    BY <1>4 DEF FormInv, EditedOK
  <2>2. AskedOK'
    BY <1>2, <1>4 DEF FormInv, AskedOK
  <2> QED BY <2>1, <2>2, <1>2, <1>3, <1>4 DEF FormInv
<1>5. CASE /\ secrets.pending \in listed /\ formRows.at # 0
           /\ SecretTo([formRows.secretEnv EXCEPT ![formRows.at].value = secrets.pending], formRows.at)
  <2>1. PICK rows, i, to : rows = formRows.secretEnv /\ i = formRows.at /\ to = WithValue(rows, i, secrets.pending)
    OBVIOUS
  <2>2. rows \in Seq(VarRow(FormSecrets)) /\ i \in 0..Len(rows) /\ i # 0
    BY <2>1, <1>5 DEF FormInv, EditedOK, RowsOK
  <2>3. i \in DOMAIN rows
    <3>1. PICK k \in Nat : k = Len(rows) /\ DOMAIN rows = 1..k
      BY <2>2, SeqIs
    <3>2. i \in 1..k
      BY <3>1, <2>2, NotZeroIn, Zenon
    <3> QED BY <3>1, <3>2, Zenon
  <2>4. PICK v \in FormSecrets : v = secrets.pending
    BY <1>5
  <2>5. /\ to \in Seq(VarRow(FormSecrets)) /\ Len(to) = Len(rows) /\ DOMAIN to = DOMAIN rows
        /\ \A j \in DOMAIN rows : to[j].name = rows[j].name
    <3>1. Revalued(rows, to)
      BY <2>1, <2>2, <2>3, <2>4, ValuedSecret
    <3> QED BY <3>1, Zenon DEF Revalued
  <2>6. SecretTo(to, i) /\ i \in 0..Len(to)
    BY <1>5, <2>1, <2>2, <2>5, Zenon DEF WithValue
  <2>7. /\ RowsOK(formRows') /\ DraftOK(formDraft')
        /\ RowsFit(formRows, formDraft) => RowsFit(formRows', formDraft')
        /\ formRows'.env = formRows.env /\ formRows'.secretEnv = to
        /\ formDraft'.env = formDraft.env /\ formDraft'.mounts = formDraft.mounts
    BY <2>5, <2>6, SecretToSound DEF FormInv, EditedOK
  <2>8. Clean(rows) => Clean(to)
    <3>1. \A j \in DOMAIN rows : NamesOf(to)[j] = NamesOf(rows)[j]
      BY <2>5 DEF NamesOf
    <3>2. DOMAIN NamesOf(to) = DOMAIN NamesOf(rows) /\ DOMAIN NamesOf(rows) = DOMAIN rows
      BY <2>5 DEF NamesOf
    <3>3. Distinct(NamesOf(rows)) => Distinct(NamesOf(to))
      BY <3>1, <3>2, Zenon DEF Distinct
    <3> QED BY <3>3, <2>5, Zenon DEF Clean
  <2>9. AskedOK'
    BY <1>2, <2>1, <2>7, <2>8, Zenon DEF FormInv, AskedOK, CleanBoth
  <2>10. FormInv'
    BY <1>2, <1>3, <2>7, <2>9 DEF FormInv, EditedOK
  <2>11. ASSUME formDialog.asking, LegalDraft(formDraft) PROVE LegalDraft(formDraft')
    <3>1. RowsFit(formRows, formDraft) /\ RowsFit(formRows', formDraft')
      BY <2>7, <2>11 DEF FormInv, AskedOK
    <3>2. formDraft.secretEnv = RecordOf(rows) /\ formDraft'.secretEnv = RecordOf(to)
      BY <3>1, <2>1, <2>7, Zenon DEF RowsFit
    <3>3. {to[j].name : j \in DOMAIN to} = {rows[j].name : j \in DOMAIN rows}
      BY <2>5
    <3>4. DOMAIN RecordOf(rows) = DOMAIN RecordOf(to)
      BY <2>2, <2>5, <3>3, RecordOfType
    <3> QED BY <2>7, <2>11, <3>2, <3>4, Zenon DEF LegalDraft
  <2> QED BY <2>10, <2>11
<1> QED BY <1>4, <1>5, Zenon DEF SecretsListed

LEMMA SecretSteps ==
  ASSUME FormAssumption, FormInv, SecretCreated \/ SecretRefused \/ SecretRemoved
  PROVE  /\ FormInv'
         /\ UNCHANGED <<formDialog, sends>>
         /\ formDialog.asking /\ LegalDraft(formDraft) => LegalDraft(formDraft')
<1>1. \E listed \in SUBSET FormSecrets, asked \in FormSecrets \cup {""} : SecretsListed(listed, asked)
  <2>1. secrets.listed \subseteq FormSecrets /\ secrets.asked \in FormSecrets \cup {""}
    BY DEF FormInv, FormParts
  <2>2. CASE SecretCreated
    <3>1. secrets.listed \cup {secrets.asked} \in SUBSET FormSecrets
      BY <2>1, <2>2 DEF SecretCreated
    <3> QED BY <3>1, <2>2 DEF SecretCreated
  <2>3. CASE SecretRefused
    BY <2>1, <2>3 DEF SecretRefused
  <2>4. CASE SecretRemoved
    <3>1. PICK s : SecretsListed(secrets.listed \ {s}, secrets.asked)
      BY <2>4 DEF SecretRemoved
    <3> QED BY <3>1, <2>1
  <2> QED BY <2>2, <2>3, <2>4
<1>2. UNCHANGED <<formDialog, sends>>
  BY <1>1 DEF SecretsListed
<1> QED BY <1>1, <1>2, ListedSteps

\* The groups that are written with the draft.
LEMMA StartMountSteps == ASSUME FormAssumption, FormInv, StartAddMount PROVE FormInv'
<1>1. FormParts' /\ ~formDialog.asking
  BY TypedParts DEF StartAddMount
<1>2. UNCHANGED <<formDialog, formDraft, formRows, formServer, staged, sends>> /\ capture' = formDraft
  BY DEF StartAddMount
<1>3. KeptOK' /\ EditedOK' /\ (RowsFit(formRows, formDraft) => RowsFit(formRows', formDraft'))
  BY <1>2 DEF FormInv, KeptOK, EditedOK
<1> QED BY <1>1, <1>2, <1>3, FieldSteps

LEMMA EndMountSteps == ASSUME FormAssumption, FormInv, EndAddMount PROVE FormInv'
<1>1. UNCHANGED <<formDialog, formServer, staged, secrets, sends, formSpent>> /\ capture' = NoForm /\ capture # NoForm
  BY DEF EndAddMount
<1>2. FormParts' /\ KeptOK' /\ DraftOK(capture)
  BY <1>1 DEF FormInv, FormParts, KeptOK
<1>3. ~formDialog.asking
  BY <1>1 DEF FormInv, AskedOK
<1>4. CASE UNCHANGED <<formDraft, formRows>>
  <2>1. EditedOK' /\ (RowsFit(formRows, formDraft) => RowsFit(formRows', formDraft'))
    BY <1>4 DEF FormInv, EditedOK
  <2> QED BY <2>1, <1>1, <1>2, <1>3, FieldSteps
<1>5. CASE Written([capture EXCEPT !.mounts = Append(@, "ok")])
  <2>1. PICK m, d : m = Append(capture.mounts, "ok") /\ d = [capture EXCEPT !.mounts = m]
    OBVIOUS
  <2>2. m \in Seq({"ok", "refused"})
    <3>1. capture.mounts \in Seq({"ok", "refused"})
      BY <1>2 DEF DraftOK
    <3>2. "ok" \in {"ok", "refused"}
      OBVIOUS
    <3> QED BY <3>1, <3>2, <2>1, SeqIs, Zenon
  <2>3. DraftOK(d)
    BY <1>2, <2>1, <2>2, DraftParts, Zenon
  <2>4. Written(d)
    BY <1>5, <2>1, Zenon
  <2> QED BY <2>3, <2>4, <1>1, <1>2, <1>3, WrittenSteps
<1> QED BY <1>4, <1>5, Zenon DEF EndAddMount

LEMMA EditMountSteps == ASSUME FormAssumption, FormInv, EditMount PROVE FormInv'
<1>1. FormParts' /\ ~formDialog.asking
  BY TypedParts DEF EditMount
<1>2. KeptOK' /\ UNCHANGED <<formDialog, sends>>
  BY DEF FormInv, KeptOK, EditMount
<1>3. DraftOK(formDraft) /\ formDraft.mounts \in Seq({"ok", "refused"})
  BY DEF FormInv, EditedOK, DraftOK
<1>4. ASSUME NEW m \in Seq({"ok", "refused"}), Written([formDraft EXCEPT !.mounts = m]) PROVE FormInv'
  <2>1. PICK d : d = [formDraft EXCEPT !.mounts = m]
    OBVIOUS
  <2>2. DraftOK(d) /\ Written(d)
    BY <1>3, <1>4, <2>1, DraftParts, Zenon
  <2> QED BY <2>2, <1>1, <1>2, WrittenSteps
<1>5. PICK i \in DOMAIN formDraft.mounts :
        \/ \E x \in {"ok", "refused"} \ {formDraft.mounts[i]} : Written([formDraft EXCEPT !.mounts[i] = x])
        \/ Written([formDraft EXCEPT !.mounts = Dropped(@, i)])
  BY Zenon DEF EditMount
<1>6. ASSUME NEW x \in {"ok", "refused"} \ {formDraft.mounts[i]}, Written([formDraft EXCEPT !.mounts[i] = x]) PROVE FormInv'
  <2>1. PICK m : m = [formDraft.mounts EXCEPT ![i] = x]
    OBVIOUS
  <2>2. m \in Seq({"ok", "refused"})
    BY <1>3, <2>1, SetRow
  <2>3. [formDraft EXCEPT !.mounts[i] = x] = [formDraft EXCEPT !.mounts = m]
    BY <2>1
  <2> QED BY <1>4, <1>6, <2>2, <2>3, Zenon
<1>7. CASE Written([formDraft EXCEPT !.mounts = Dropped(@, i)])
  <2>1. PICK m : m = Dropped(formDraft.mounts, i)
    OBVIOUS
  <2>2. m \in Seq({"ok", "refused"})
    BY <1>3, <2>1, DroppedSeq
  <2> QED BY <1>4, <1>7, <2>1, <2>2, Zenon
<1> QED BY <1>5, <1>6, <1>7, Zenon

LEMMA ApplyPathsSteps == ASSUME FormAssumption, FormInv, ApplyPaths PROVE FormInv'
<1>1. FormParts' /\ ~formDialog.asking
  BY TypedParts DEF ApplyPaths
<1>2. KeptOK' /\ UNCHANGED <<formDialog, sends>>
  BY DEF FormInv, KeptOK, ApplyPaths
<1>3. PICK p \in FormPaths \cup {""} : Written([formDraft EXCEPT !.paths = IF p = "" THEN <<>> ELSE <<p>>])
  BY Zenon DEF ApplyPaths
<1>4. PICK list, d : list = (IF p = "" THEN <<>> ELSE <<p>>) /\ d = [formDraft EXCEPT !.paths = list]
  OBVIOUS
<1>5. list \in Seq(FormPaths)
  BY <1>4, PathList
<1>6. DraftOK(d) /\ Written(d)
  <2>1. DraftOK(formDraft)
    BY DEF FormInv, EditedOK
  <2>2. DraftOK(d)
    BY <2>1, <1>4, <1>5, DraftParts, Zenon
  <2> QED BY <2>2, <1>3, <1>4, Zenon
<1> QED BY <1>1, <1>2, <1>6, WrittenSteps

LEMMA EditPortsSteps == ASSUME FormAssumption, FormInv, EditPorts PROVE FormInv'
<1>1. FormParts' /\ ~formDialog.asking
  BY TypedParts DEF EditPorts
<1>2. KeptOK' /\ UNCHANGED <<formDialog, sends>>
  BY DEF FormInv, KeptOK, EditPorts
<1>3. PICK p \in FormPorts : Written([formDraft EXCEPT !.ports = IF p \in @ THEN @ \ {p} ELSE @ \cup {p}])
  BY Zenon DEF EditPorts
<1>4. PICK q, d : /\ q = (IF p \in formDraft.ports THEN formDraft.ports \ {p} ELSE formDraft.ports \cup {p})
                  /\ d = [formDraft EXCEPT !.ports = q]
  OBVIOUS
<1>5. DraftOK(formDraft)
  BY DEF FormInv, EditedOK
<1>6. q \in SUBSET FormPorts
  BY <1>4, <1>5 DEF DraftOK
<1>7. DraftOK(d)
  BY <1>5, <1>4, <1>6, DraftParts, Zenon
<1>8. Written(d)
  BY <1>3, <1>4, Zenon
<1> QED BY <1>1, <1>2, <1>7, <1>8, WrittenSteps

LEMMA DiscardSteps == ASSUME FormAssumption, FormInv, DiscardDraft PROVE FormInv'
<1>1. FormParts' /\ ~formDialog.asking
  BY TypedParts DEF DiscardDraft
<1>2. KeptOK' /\ UNCHANGED <<formDialog, sends>>
  BY DEF FormInv, KeptOK, DiscardDraft
<1>3. DraftOK(staged) /\ DraftOK(formServer)
  BY DEF FormInv, KeptOK
<1>4. Written(staged) \/ Written(formServer)
  BY DEF DiscardDraft
<1> QED BY <1>1, <1>2, <1>3, <1>4, WrittenSteps

\* A snapshot changes the draft to what it shows, or not at all.
LEMMA SnapshotMeans ==
  ASSUME FormAssumption, FormInv, NEW config, DraftOK(config), Snapshot(config)
  PROVE  /\ KeptOK' /\ EditedOK' /\ capture' = capture /\ secrets' = secrets
         /\ formDraft' = formDraft \/ formDraft' = config
         /\ CleanBoth(formRows) => CleanBoth(formRows')
         /\ RowsFit(formRows, formDraft) => RowsFit(formRows', formDraft')
<1>1. UNCHANGED <<capture, secrets>> /\ formServer' = config
  BY DEF Snapshot
<1>2. CASE Written(config) /\ staged' = config
  <2>1. /\ formDraft' = config /\ RowsOK(formRows') /\ RowsFit(formRows', config)
        /\ CleanBoth(formRows) => CleanBoth(formRows')
    BY <1>2, WrittenSound DEF FormInv, EditedOK
  <2>2. EditedOK'
    BY <2>1 DEF EditedOK
  <2>3. KeptOK'
    BY <1>1, <1>2 DEF FormInv, KeptOK
  <2> QED BY <1>1, <2>1, <2>2, <2>3
<1>3. CASE UNCHANGED <<formDraft, formRows, staged>>
  <2>1. EditedOK' /\ KeptOK'
    BY <1>1, <1>3 DEF FormInv, EditedOK, KeptOK
  <2> QED BY <1>1, <1>3, <2>1
<1> QED BY <1>2, <1>3 DEF Snapshot

LEMMA ApplyEndsSteps == ASSUME FormAssumption, FormInv, ApplyEnds PROVE FormInv'
<1>1. DraftOK(sends.config) /\ ~formDialog.asking
  BY DEF FormInv, SendsOK, AskedOK, ApplyEnds
<1>2. PICK mixed : mixed = [sends.config EXCEPT !.env = formServer.env]
  OBVIOUS
<1>3. DraftOK(formServer) /\ formServer.env \in Records(EnvValues)
  BY DEF FormInv, KeptOK, DraftOK
<1>4. DraftOK(mixed)
  BY <1>1, <1>2, <1>3, DraftParts, Zenon
<1>5. \E config \in {sends.config, formServer, mixed} : Snapshot(config)
  BY <1>2, Zenon DEF ApplyEnds
<1>6. PICK config : DraftOK(config) /\ Snapshot(config)
  BY <1>1, <1>3, <1>4, <1>5
<1>7. KeptOK' /\ EditedOK' /\ (RowsFit(formRows, formDraft) => RowsFit(formRows', formDraft')) /\ secrets' = secrets
  BY <1>6, SnapshotMeans
<1>8. SendsOK'
  BY DEF FormInv, SendsOK, ApplyEnds
<1>9. /\ formDialog' \in [mode : {"create", "edit"}, open : BOOLEAN, asking : BOOLEAN, applying : BOOLEAN]
      /\ ~formDialog'.applying /\ formDialog'.asking = formDialog.asking /\ formDialog'.open = formDialog.open
  BY DEF FormInv, FormParts, ApplyEnds
<1>10. formSpent' = formSpent
  BY DEF ApplyEnds
<1>11. FormParts'
  BY <1>7, <1>9, <1>10 DEF FormInv, FormParts
<1> QED BY <1>1, <1>7, <1>8, <1>9, <1>11 DEF FormInv, AskedOK

LEMMA SnapshotSteps ==
  ASSUME FormAssumption, FormInv, SnapshotArrives
  PROVE  /\ FormInv'
         /\ formDraft' = formDraft \/ formDraft' \in FormConfigs
<1>1. PICK config \in FormConfigs : Snapshot(config)
  BY Zenon DEF SnapshotArrives
<1>2. DraftOK(config)
  BY DraftsAre DEF FormAssumption
<1>3. /\ KeptOK' /\ EditedOK' /\ capture' = capture /\ secrets' = secrets
      /\ formDraft' = formDraft \/ formDraft' = config
      /\ CleanBoth(formRows) => CleanBoth(formRows')
      /\ RowsFit(formRows, formDraft) => RowsFit(formRows', formDraft')
  BY <1>1, <1>2, SnapshotMeans
<1>4. UNCHANGED <<formDialog, sends>>
  BY DEF SnapshotArrives
<1>5. formSpent' \in [edits : 0..MaxEdits, snapshots : 0..MaxSnapshots]
  BY SnapshotCounted DEF FormInv, FormParts, SnapshotArrives
<1>6. FormParts' /\ SendsOK'
  BY <1>3, <1>4, <1>5 DEF FormInv, FormParts, SendsOK
<1>7. AskedOK'
  BY <1>3, <1>4 DEF FormInv, AskedOK
<1> QED BY <1>3, <1>4, <1>6, <1>7 DEF FormInv

LEMMA FormSteps == ASSUME FormAssumption, FormInv, [FormNext]_formVars PROVE FormInv'
<1>1. CASE UNCHANGED formVars
  <2>1. UNCHANGED <<formDialog, formDraft, formRows, formServer, staged, capture, secrets, sends, formSpent>>
    BY <1>1 DEF formVars
  <2>2. FormParts' /\ SendsOK' /\ KeptOK' /\ EditedOK' /\ AskedOK'
    BY <2>1 DEF FormInv, FormParts, SendsOK, KeptOK, EditedOK, AskedOK
  <2> QED BY <2>1, <2>2 DEF FormInv
<1>2. CASE OpenForm \/ CloseForm \/ CreateContainer
  BY <1>2, OpenFormSteps, CloseFormSteps, CreateSteps
<1>3. CASE EditEnv \/ EditSecretEnv \/ AskSecret
  BY <1>3, EditEnvSteps, EditSecretSteps, AskSecretSteps
<1>4. CASE SecretCreated \/ SecretRefused \/ SecretRemoved
  BY <1>4, SecretSteps
<1>5. CASE StartAddMount \/ EndAddMount \/ EditMount \/ ApplyPaths \/ EditPorts \/ DiscardDraft
  BY <1>5, StartMountSteps, EndMountSteps, EditMountSteps, ApplyPathsSteps, EditPortsSteps, DiscardSteps
<1>6. CASE AskApply \/ CancelApply \/ ConfirmApply
  BY <1>6, AskSteps, ConfirmSteps
<1>7. CASE ApplyEnds \/ SnapshotArrives
  BY <1>7, ApplyEndsSteps, SnapshotSteps
<1> QED BY <1>1, <1>2, <1>3, <1>4, <1>5, <1>6, <1>7 DEF FormNext

LEMMA FormHolds == FormSpec => []FormInv
<1>1. FormInit => FormInv
  BY FormStarts, FormAssumption
<1>2. FormInv /\ [FormNext]_formVars => FormInv'
  BY FormSteps, FormAssumption
<1> QED BY <1>1, <1>2, PTL DEF FormSpec

\* The state of the dialogs keeps its types, whatever wrote the draft
\* (container-card-form.tsx, container-card-row.tsx).
THEOREM FormTypes == FormSpec => []FormTypeOK
<1>1. FormInv => FormTypeOK
  BY FormTypeMeans, FormAssumption
<1> QED BY <1>1, FormHolds, PTL

\* Only Create and the confirmed Apply send; and what they send is the draft.
LEMMA WhoSends ==
  ASSUME FormAssumption, FormInv, [FormNext]_formVars, sends'.turn # sends.turn
  PROVE  /\ CreateContainer \/ ConfirmApply
         /\ sends'.config = formDraft
<1>1. sends' # sends
  OBVIOUS
<1>2. CreateContainer \/ ConfirmApply \/ OpenForm \/ ApplyEnds
  <2>1. SecretCreated \/ SecretRefused \/ SecretRemoved => UNCHANGED sends
    BY SecretSteps
  <2> QED BY <1>1, <2>1 DEF FormNext, formVars, CloseForm, EditEnv, EditSecretEnv, AskSecret, StartAddMount,
             EndAddMount, EditMount, ApplyPaths, EditPorts, AskApply, CancelApply, DiscardDraft, SnapshotArrives
<1>3. sends = [turn |-> sends.turn, config |-> sends.config]
  BY DEF FormInv, SendsOK
<1>4. ~OpenForm /\ ~ApplyEnds
  BY <1>3 DEF OpenForm, ApplyEnds
<1>5. CreateContainer \/ ConfirmApply => sends'.config = formDraft
  <2>1. PICK turn : turn = ~sends.turn
    OBVIOUS
  <2>2. CreateContainer \/ ConfirmApply => sends' = [turn |-> turn, config |-> formDraft]
    BY <2>1, Zenon DEF CreateContainer, ConfirmApply, Sent
  <2>3. \A t, c : [turn |-> t, config |-> c].config = c
    OBVIOUS
  <2> QED BY <2>2, <2>3, Zenon
<1> QED BY <1>2, <1>4, <1>5

LEMMA SentIsShown ==
  ASSUME FormAssumption, FormInv, [FormNext]_formVars, sends'.turn # sends.turn
  PROVE  Shown(formRows.env, sends'.config.env) /\ Shown(formRows.secretEnv, sends'.config.secretEnv)
<1>1. (CreateContainer \/ ConfirmApply) /\ sends'.config = formDraft
  BY WhoSends
<1>2. RowsOK(formRows) /\ RowsFit(formRows, formDraft)
  BY <1>1 DEF FormInv, EditedOK, AskedOK, CreateContainer, ConfirmApply
<1>3. CleanBoth(formRows)
  <2>1. CASE CreateContainer
    BY <2>1, <1>2, PassedForm DEF FormInv, EditedOK, CreateContainer
  <2>2. CASE ConfirmApply
    BY <2>2 DEF FormInv, AskedOK, ConfirmApply
  <2> QED BY <1>1, <2>1, <2>2
<1>4. Shown(formRows.env, RecordOf(formRows.env))
  BY <1>2, <1>3, CleanRowsShow DEF RowsOK, CleanBoth
<1>5. Shown(formRows.secretEnv, RecordOf(formRows.secretEnv))
  BY <1>2, <1>3, CleanRowsShow DEF RowsOK, CleanBoth
<1> QED BY <1>1, <1>2, <1>4, <1>5, Zenon DEF RowsFit

\* The first half of SendsAsShown, with nothing said of the containers the host is
\* found with: the variables that Create or Apply sends are the rows the user sees
\* at that moment, row for variable, in both groups (envRecordFromRows and
\* envEditRows against every other writer of the draft).
SentRowForVariable ==
  [][sends'.turn # sends.turn =>
       Shown(formRows.env, sends'.config.env) /\ Shown(formRows.secretEnv, sends'.config.secretEnv)]_formVars
THEOREM SentAsTheRowsShow == FormSpec => SentRowForVariable
<1>1. FormInv /\ [FormNext]_formVars =>
        [sends'.turn # sends.turn =>
           Shown(formRows.env, sends'.config.env) /\ Shown(formRows.secretEnv, sends'.config.secretEnv)]_formVars
  BY SentIsShown, FormAssumption
<1> QED BY <1>1, FormHolds, PTL DEF FormSpec, SentRowForVariable

\* The confirmation is not checked again, so it stays right only if a snapshot
\* that is adopted while it is open would pass the checks.
ConfigsLegal == \A config \in FormConfigs : LegalDraft(config)
AskedLegal == formDialog.asking => LegalDraft(formDraft)

LEMMA AskedLegalSteps ==
  ASSUME FormAssumption, ConfigsLegal, FormInv, AskedLegal, [FormNext]_formVars
  PROVE  AskedLegal'
<1>1. SUFFICES ASSUME formDialog'.asking PROVE LegalDraft(formDraft')
  BY DEF AskedLegal
<1>2. CASE UNCHANGED formVars
  BY <1>1, <1>2 DEF formVars, AskedLegal
<1>3. CASE OpenForm \/ CloseForm \/ CreateContainer \/ CancelApply \/ ConfirmApply \/ ApplyEnds
  BY <1>1, <1>3 DEF FormInv, FormParts, AskedOK, OpenForm, CloseForm, CreateContainer, CancelApply, ConfirmApply, ApplyEnds
<1>4. CASE EditEnv \/ EditSecretEnv \/ AskSecret \/ StartAddMount \/ EditMount \/ ApplyPaths \/ EditPorts \/ DiscardDraft
  BY <1>1, <1>4 DEF Typing, EditEnv, EditSecretEnv, AskSecret, StartAddMount, EditMount, ApplyPaths, EditPorts, DiscardDraft
<1>5. CASE EndAddMount
  BY <1>1, <1>5 DEF FormInv, AskedOK, EndAddMount
<1>6. CASE SecretCreated \/ SecretRefused \/ SecretRemoved
  BY <1>1, <1>6, SecretSteps DEF AskedLegal
<1>7. CASE AskApply
  <2>1. LegalDraft(formDraft)
    BY <1>7, PassedForm DEF FormInv, EditedOK, AskApply
  <2> QED BY <2>1, <1>7 DEF AskApply
<1>8. CASE SnapshotArrives
  <2>1. formDialog'.asking = formDialog.asking
    BY <1>8 DEF SnapshotArrives
  <2> QED BY <1>1, <1>8, <2>1, SnapshotSteps DEF AskedLegal, ConfigsLegal
<1> QED BY <1>2, <1>3, <1>4, <1>5, <1>6, <1>7, <1>8 DEF FormNext

\* What Create or Apply sends is what the rows show, and passes the checks of the
\* form, provided that every container the host is found with would pass them too:
\* the host refuses the mounts, but not a name in both groups, and a snapshot may
\* be adopted while the confirmation is open (container-card-edit-modal.tsx,
\* ConfirmButton of container-card-shared.tsx).
THEOREM SentIsShownAndLegal == ConfigsLegal => (FormSpec => SendsAsShown)
<1> SUFFICES ASSUME ConfigsLegal PROVE FormSpec => SendsAsShown
  OBVIOUS
<1>1. FormInit => AskedLegal
  <2> SUFFICES ASSUME FormInit PROVE AskedLegal
    OBVIOUS
  <2>1. PICK mode : formDialog = [mode |-> mode, open |-> FALSE, asking |-> FALSE, applying |-> FALSE]
    BY Zenon DEF FormInit, NoDialog
  <2> QED BY <2>1 DEF AskedLegal
<1>2. FormInv /\ AskedLegal /\ [FormNext]_formVars => AskedLegal'
  BY AskedLegalSteps, FormAssumption
<1>3. FormInv /\ AskedLegal /\ [FormNext]_formVars =>
        [sends'.turn # sends.turn =>
           LET config == sends'.config
           IN /\ Shown(formRows.env, config.env)
              /\ Shown(formRows.secretEnv, config.secretEnv)
              /\ DOMAIN config.env \cap DOMAIN config.secretEnv = {}
              /\ \A i \in DOMAIN config.mounts : config.mounts[i] = "ok"]_formVars
  <2> SUFFICES ASSUME FormInv, AskedLegal, [FormNext]_formVars, sends'.turn # sends.turn
               PROVE  /\ Shown(formRows.env, sends'.config.env)
                      /\ Shown(formRows.secretEnv, sends'.config.secretEnv)
                      /\ DOMAIN sends'.config.env \cap DOMAIN sends'.config.secretEnv = {}
                      /\ \A i \in DOMAIN sends'.config.mounts : sends'.config.mounts[i] = "ok"
    BY Zenon
  <2>1. (CreateContainer \/ ConfirmApply) /\ sends'.config = formDraft
    BY WhoSends, FormAssumption
  <2>2. LegalDraft(formDraft)
    <3>1. CASE CreateContainer
      <4>1. RowsFit(formRows, formDraft)
        BY <3>1 DEF FormInv, CreateContainer
      <4> QED BY <3>1, <4>1, PassedForm DEF FormInv, EditedOK, CreateContainer
    <3>2. CASE ConfirmApply
      BY <3>2 DEF AskedLegal, ConfirmApply
    <3> QED BY <2>1, <3>1, <3>2
  <2>3. LegalDraft(sends'.config)
    BY <2>1, <2>2, Zenon
  <2> QED BY <2>3, SentIsShown, FormAssumption DEF LegalDraft
<1> QED BY <1>1, <1>2, <1>3, FormHolds, PTL DEF FormSpec, SendsAsShown

-----------------------------------------------------------------------------
(* CardPanel: the shape of the state.                                      *)

\* A command is about something there is, and carries what that may be.
Command(s) ==
  /\ s.op \in RankedOps \cup {"none", "default_env_sync"}
  /\ s.op \in MountOps => s.key \in MountKeys
  /\ s.op \in {"mount_add", "mount_update"} => s.val \in CardModes
  /\ s.op \in SecretOps => s.key \in EnvVars
  /\ s.op = "secret_add" => s.val \in SecretNames
  /\ s.op \in PortOps => s.key \in PortNumbers
  /\ s.op = "path_set" => s.val \in {"p1", "p2"}
  /\ s.op = "recreate" => s.key \in {"i1", "i2"} /\ s.val \in {"none", "e1", "e2"}

\* The parts of a call; its listing is not of a version the host never had.
CallKinds == {"reload", "sync", "apply"}
CallTyped(x, version) ==
  /\ x.kind \in CallKinds /\ Command(x.step) /\ (x.pc = "command" => x.step.op # "none")
  /\ \A s \in x.plan : Command(s) /\ s.op \in RankedOps
  /\ x.failed \subseteq ConfigGroups
  /\ x.carries.config \in Configs /\ x.carries.version <= version
PanelTyped(x) ==
  x.config \in Configs /\ x.toast \in {"none", "ok", "error"} /\ x.notice \in BOOLEAN /\ x.ready \in BOOLEAN
CardRowTyped(x) == x \in [draft : Configs, staged : Configs]
CardShape ==
  /\ host.config \in Configs /\ PanelTyped(panel) /\ CardRowTyped(row)
  /\ \A c \in CardCalls : CallTyped(cardCall[c], host.version)
  /\ cardTrouble \in 0..MaxCardTrouble

LEMMA CardShapeMeans == CardInv /\ CardShape => CardTypeOK
PROOF
<1> SUFFICES ASSUME CardInv, CardShape PROVE CardTypeOK OBVIOUS
<1>1. host.version \in Nat /\ panel.version \in Nat /\ panel.generation \in Nat
  BY DEF CardInv, Shaped, IsListing, IsPanel
<1>2. row.draft \in Configs /\ row.staged \in Configs BY DEF CardShape, CardRowTyped
<1>3. RankedOps \cup {"none", "default_env_sync"} = StepOps
  BY DEF StepOps, Rank, RankedOps, MountOps, SecretOps, PortOps
<1>4. ASSUME NEW c \in CardCalls
      PROVE  /\ cardCall[c].pc \in CallPC /\ cardCall[c].kind \in {"reload", "sync", "apply"}
             /\ cardCall[c].gen <= panel.generation
             /\ cardCall[c].step.op \in StepOps
             /\ cardCall[c].failed \subseteq ConfigGroups
             /\ cardCall[c].carries.version <= host.version
  <2>1. cardCall[c].pc \in CallPC BY DEF CardInv, Shaped, IsCall
  <2>2. cardCall[c].gen <= panel.generation BY DEF CardInv, ListingsOrdered
  <2>3. CallTyped(cardCall[c], host.version) BY DEF CardShape
  <2>4. cardCall[c].step.op \in StepOps BY <1>3, <2>3 DEF CallTyped, Command
  <2> QED BY <2>1, <2>2, <2>3, <2>4 DEF CallTyped, CallKinds
<1> QED BY <1>1, <1>2, <1>4 DEF CardTypeOK, CardShape, PanelTyped

\* What an apply sends.
LEMMA ChangesTyped ==
  ASSUME NEW base \in Configs, NEW next \in Configs
  PROVE  \A s \in Changes(base, next) : Command(s) /\ s.op \in RankedOps
PROOF
<1> SUFFICES ASSUME NEW s \in Changes(base, next) PROVE Command(s) /\ s.op \in RankedOps OBVIOUS
<1>1. /\ base.mounts \in [MountKeys -> CardModes] /\ next.mounts \in [MountKeys -> CardModes]
      /\ base.secretEnv \in [EnvVars -> SecretNames] /\ next.secretEnv \in [EnvVars -> SecretNames]
      /\ base.ports \subseteq PortNumbers /\ next.ports \subseteq PortNumbers
      /\ next.paths \in {"p1", "p2"} /\ next.image \in {"i1", "i2"} /\ next.env \in {"none", "e1", "e2"}
  BY DEF Configs
<1>2. \/ s \in MountDiff(base.mounts, next.mounts) \/ s \in SecretDiff(base.secretEnv, next.secretEnv)
      \/ s \in PortDiff(base.ports, next.ports)
      \/ s = Step("path_set", "", next.paths) \/ s = Step("recreate", next.image, next.env)
  BY DEF Changes
<1>3. CASE s \in MountDiff(base.mounts, next.mounts)
  <2>1. PICK m \in MountKeys, op \in MountOps, mode \in CardModes : s = Step(op, m, mode)
    BY <1>1, <1>3 DEF MountDiff, MountOps
  <2>2. s.op = op /\ s.key = m /\ s.val = mode BY <2>1, StepParts
  <2> QED BY <2>2 DEF Command, RankedOps, MountOps, SecretOps, PortOps
<1>4. CASE s \in SecretDiff(base.secretEnv, next.secretEnv)
  <2>1. PICK v \in EnvVars, to \in SecretNames : s = Step("secret_remove", v, "") \/ s = Step("secret_add", v, to)
    BY <1>1, <1>4 DEF SecretDiff
  <2>2. CASE s = Step("secret_remove", v, "")
    <3>1. s.op = "secret_remove" /\ s.key = v BY <2>2 DEF Step
    <3> QED BY <3>1 DEF Command, RankedOps, MountOps, SecretOps, PortOps
  <2>3. CASE s = Step("secret_add", v, to)
    <3>1. s.op = "secret_add" /\ s.key = v /\ s.val = to BY <2>3 DEF Step
    <3> QED BY <3>1 DEF Command, RankedOps, MountOps, SecretOps, PortOps
  <2> QED BY <2>1, <2>2, <2>3
<1>5. CASE s \in PortDiff(base.ports, next.ports)
  <2>1. PICK p \in PortNumbers, op \in PortOps : s = Step(op, p, "") BY <1>1, <1>5 DEF PortDiff, PortOps
  <2>2. s.op = op /\ s.key = p BY <2>1, StepParts
  <2> QED BY <2>2 DEF Command, RankedOps, MountOps, SecretOps, PortOps
<1>6. CASE s = Step("path_set", "", next.paths)
  <2>1. s.op = "path_set" /\ s.val = next.paths BY <1>6 DEF Step
  <2> QED BY <1>1, <2>1 DEF Command, RankedOps, MountOps, SecretOps, PortOps
<1>7. CASE s = Step("recreate", next.image, next.env)
  <2>1. s.op = "recreate" /\ s.key = next.image /\ s.val = next.env BY <1>7, StepParts
  <2> QED BY <1>1, <2>1 DEF Command, RankedOps, MountOps, SecretOps, PortOps
<1> QED BY <1>2, <1>3, <1>4, <1>5, <1>6, <1>7

\* What the host makes of a command is a configuration.
LEMMA AppliedTyped ==
  ASSUME NEW config \in Configs, NEW s, Command(s), s.op # "none"
  PROVE  AppliedStep(s, config) \in Configs
PROOF
<1>1. /\ config.mounts \in [MountKeys -> CardModes] /\ config.secretEnv \in [EnvVars -> SecretNames]
      /\ config.ports \subseteq PortNumbers /\ config.env \in {"none", "e1", "e2"}
  BY DEF Configs
<1>2. CASE s.op \in {"mount_add", "mount_update"}
  <2>1. PICK mounts : mounts = [config.mounts EXCEPT ![s.key] = s.val] OBVIOUS
  <2>2. mounts \in [MountKeys -> CardModes] BY <1>1, <1>2, <2>1 DEF Command, MountOps
  <2>3. AppliedStep(s, config) = [config EXCEPT !.mounts = mounts] BY <1>2, <2>1 DEF AppliedStep
  <2> QED BY <2>2, <2>3 DEF Configs
<1>3. CASE s.op = "mount_remove"
  <2>1. PICK mounts : mounts = [config.mounts EXCEPT ![s.key] = "none"] OBVIOUS
  <2>2. mounts \in [MountKeys -> CardModes] BY <1>1, <1>3, <2>1 DEF CardModes
  <2>3. AppliedStep(s, config) = [config EXCEPT !.mounts = mounts] BY <1>3, <2>1 DEF AppliedStep
  <2> QED BY <2>2, <2>3 DEF Configs
<1>4. CASE s.op = "secret_add"
  <2>1. PICK secretEnv : secretEnv = [config.secretEnv EXCEPT ![s.key] = s.val] OBVIOUS
  <2>2. secretEnv \in [EnvVars -> SecretNames] BY <1>1, <1>4, <2>1 DEF Command
  <2>3. AppliedStep(s, config) = [config EXCEPT !.secretEnv = secretEnv] BY <1>4, <2>1 DEF AppliedStep
  <2> QED BY <2>2, <2>3 DEF Configs
<1>5. CASE s.op = "secret_remove"
  <2>1. PICK secretEnv : secretEnv = [config.secretEnv EXCEPT ![s.key] = "none"] OBVIOUS
  <2>2. secretEnv \in [EnvVars -> SecretNames] BY <1>1, <1>5, <2>1 DEF SecretNames
  <2>3. AppliedStep(s, config) = [config EXCEPT !.secretEnv = secretEnv] BY <1>5, <2>1 DEF AppliedStep
  <2> QED BY <2>2, <2>3 DEF Configs
<1>6. CASE s.op = "path_set"
  <2>1. AppliedStep(s, config) = [config EXCEPT !.paths = s.val] BY <1>6 DEF AppliedStep
  <2> QED BY <1>6, <2>1 DEF Configs, Command
<1>7. CASE s.op \in PortOps
  <2>1. PICK ports : ports = IF s.op = "publish" THEN config.ports \cup {s.key} ELSE config.ports \ {s.key} OBVIOUS
  <2>2. ports \in SUBSET PortNumbers BY <1>1, <1>7, <2>1 DEF Command
  <2>3. AppliedStep(s, config) = [config EXCEPT !.ports = ports] BY <1>7, <2>1 DEF AppliedStep, PortOps
  <2> QED BY <2>2, <2>3 DEF Configs
<1>8. CASE s.op = "recreate"
  <2>1. PICK env : env = IF s.val = "none" THEN config.env ELSE s.val OBVIOUS
  <2>2. env \in {"none", "e1", "e2"} BY <1>1, <1>8, <2>1 DEF Command
  <2>3. AppliedStep(s, config) = [config EXCEPT !.image = s.key, !.env = env] BY <1>8, <2>1 DEF AppliedStep
  <2>4. s.key \in {"i1", "i2"} BY <1>8 DEF Command
  <2> QED BY <2>2, <2>3, <2>4 DEF Configs
<1>9. CASE s.op = "default_env_sync"
  <2>1. PICK env : env = IF config.env = "none" THEN "e1" ELSE config.env OBVIOUS
  <2>2. env \in {"none", "e1", "e2"} BY <1>1, <2>1
  <2>3. AppliedStep(s, config) = [config EXCEPT !.env = env] BY <1>9, <2>1 DEF AppliedStep
  <2> QED BY <2>2, <2>3 DEF Configs
<1> QED BY <1>2, <1>3, <1>4, <1>5, <1>6, <1>7, <1>8, <1>9 DEF Command, RankedOps, MountOps, SecretOps, PortOps

LEMMA NoListingTyped == NoListing.config \in Configs /\ NoListing.version = 0
PROOF BY CardAssumption DEF NoListing

LEMMA NoStepIsCommand == Command(NoStep)
PROOF
<1>1. NoStep.op = "none" BY DEF NoStep, Step
<1> QED BY <1>1 DEF Command, RankedOps, MountOps, SecretOps, PortOps

\* The end of a dispatch keeps the parts of a call.
LEMMA EndedTyped ==
  ASSUME NEW x, NEW ok, NEW e, NEW version \in Nat, CallTyped(x, version), DispatchEnded(x, ok, e)
  PROVE  CallTyped(e, version)
PROOF
<1>1. /\ e.kind \in CallKinds /\ e.failed \subseteq ConfigGroups
      /\ e.carries.config \in Configs /\ e.carries.version <= version
  BY NoListingTyped DEF DispatchEnded, CallTyped
<1>2. CASE x.plan = {} BY <1>1, <1>2, NoStepIsCommand DEF CallTyped, DispatchEnded
<1>3. CASE x.plan # {}
  <2>1. First(x.plan) \in x.plan BY <1>3, FirstIsFirst DEF CallTyped
  <2>2. e.pc = "command" /\ e.step = First(x.plan) /\ e.plan = x.plan \ {First(x.plan)} BY <1>3 DEF DispatchEnded
  <2>3. First(x.plan).op # "none"
    BY <2>1 DEF CallTyped, RankedOps, MountOps, SecretOps, PortOps
  <2> QED BY <1>1, <2>1, <2>2, <2>3 DEF CallTyped
<1> QED BY <1>2, <1>3

\* One call moves, the others at most learn of a disturbance.
LEMMA CardCallsTyped ==
  ASSUME CardInv, CardShape, NEW c \in CardCalls, NEW e, CallTyped(e, host'.version), cardCall'[c] = e,
         \A d \in CardCalls \ {c} : cardCall'[d] \in {cardCall[d], [cardCall[d] EXCEPT !.clean = FALSE]},
         host'.version \in Nat, host'.version >= host.version
  PROVE  \A d \in CardCalls : CallTyped(cardCall'[d], host'.version)
PROOF
<1> SUFFICES ASSUME NEW d \in CardCalls \ {c} PROVE CallTyped(cardCall'[d], host'.version) OBVIOUS
<1>1. IsCall(cardCall[d]) /\ CallTyped(cardCall[d], host.version) /\ host.version \in Nat
  BY DEF CardInv, Shaped, IsListing, CardShape
<1>2. PICK x, y : x = cardCall[d] /\ y = cardCall'[d] OBVIOUS
<1>3. x.carries.version \in Nat BY <1>1, <1>2 DEF IsCall
<1>4. CallTyped(x, host'.version) BY <1>1, <1>2, <1>3 DEF CallTyped
<1>5. y = x \/ y = [x EXCEPT !.clean = FALSE] BY <1>2
<1>6. /\ y.kind = x.kind /\ y.step = x.step /\ y.pc = x.pc /\ y.plan = x.plan /\ y.failed = x.failed
      /\ y.carries = x.carries
  BY <1>1, <1>2, <1>5 DEF IsCall
<1> QED BY <1>2, <1>4, <1>6 DEF CallTyped

LEMMA AnotherTrouble == ASSUME NEW n \in 0..MaxCardTrouble, n < MaxCardTrouble PROVE n + 1 \in 0..MaxCardTrouble
PROOF BY CardAssumption

LEMMA GroupsTyped == \A op : GroupsOf(op) \subseteq ConfigGroups
PROOF BY DEF GroupsOf, ConfigGroups

\* A dispatch ends with a call of the parts of a call.
LEMMA OnwardTyped ==
  ASSUME CardInv, CardShape, NEW c \in CardCalls, NEW x, IsCall(x), NEW ok \in BOOLEAN,
         host'.version \in Nat, host'.version >= host.version, CallTyped(x, host'.version),
         cardCall' = Onward(c, x, ok)
  PROVE  \A d \in CardCalls : CallTyped(cardCall'[d], host'.version)
PROOF
<1>1. PICK e : Onward(c, x, ok) = [cardCall EXCEPT ![c] = e] /\ DispatchEnded(x, ok, e)
  <2>1. CASE ok = TRUE BY <2>1, OnwardIs
  <2>2. CASE ok = FALSE BY <2>2, OnwardIs
  <2> QED BY <2>1, <2>2, Zenon
<1>2. PICK version \in Nat : version = host'.version OBVIOUS
<1>3. CallTyped(e, version) BY <1>1, <1>2, EndedTyped
<1>4. cardCall'[c] = e /\ \A d \in CardCalls \ {c} : cardCall'[d] = cardCall[d]
  BY <1>1 DEF CardInv, Shaped
<1> QED BY <1>2, <1>3, <1>4, CardCallsTyped

\* The error of a dispatch.
LEMMA FailTyped ==
  ASSUME CardInv, CardShape, NEW c \in CardCalls, NEW spontaneous \in BOOLEAN, DispatchFails(c, spontaneous),
         spontaneous => cardTrouble < MaxCardTrouble, row' = row,
         host'.version \in Nat, host'.version >= host.version, host'.config \in Configs
  PROVE  CardShape'
PROOF
<1>1. /\ IsCall(cardCall[c]) /\ IsPanel(panel) /\ CallTyped(cardCall[c], host.version) /\ PanelTyped(panel)
      /\ host.version \in Nat
  BY DEF CardInv, Shaped, IsListing, CardShape
<1>2. PICK old, version : old = cardCall[c] /\ version = host'.version OBVIOUS
<1>3. PICK failed : failed = IF spontaneous THEN old.failed \cup GroupsOf(old.step.op) ELSE old.failed OBVIOUS
<1>4. PICK x : x = [old EXCEPT !.failed = failed] OBVIOUS
<1>5. /\ IsCall(x) /\ x.kind = old.kind /\ x.step = old.step /\ x.pc = old.pc /\ x.plan = old.plan /\ x.failed = failed
      /\ x.carries = old.carries
  BY <1>1, <1>2, <1>4 DEF IsCall
<1>6. old.carries.version <= version
  <2>1. old.carries.version \in Nat BY <1>1, <1>2 DEF IsCall
  <2>2. old.carries.version <= host.version BY <1>1, <1>2 DEF CallTyped
  <2> QED BY <1>1, <1>2, <2>1, <2>2
<1>7. failed \subseteq ConfigGroups BY <1>1, <1>2, <1>3, GroupsTyped DEF CallTyped
<1>8. CallTyped(x, version) BY <1>1, <1>2, <1>5, <1>6, <1>7 DEF CallTyped
<1>9. cardCall' = Onward(c, x, FALSE) BY <1>2, <1>3, <1>4 DEF DispatchFails
<1>10. PICK ok \in BOOLEAN : ok = FALSE OBVIOUS
<1>11. cardCall' = Onward(c, x, ok) BY <1>9, <1>10
<1>12. \A d \in CardCalls : CallTyped(cardCall'[d], host'.version) BY <1>2, <1>5, <1>8, <1>11, OnwardTyped
<1>13. PanelTyped(panel')
  <2>1. PICK generation, toast : /\ toast = IF Current(c) THEN "error" ELSE panel.toast
                                 /\ panel' = [panel EXCEPT !.generation = generation, !.toast = toast]
    BY DEF DispatchFails
  <2>2. toast \in {"none", "ok", "error"} BY <1>1, <2>1 DEF PanelTyped
  <2> QED BY <1>1, <2>1, <2>2 DEF PanelTyped, IsPanel
<1>14. cardTrouble' \in 0..MaxCardTrouble
  <2>1. cardTrouble \in 0..MaxCardTrouble BY DEF CardShape
  <2>2. CASE spontaneous
    <3>1. cardTrouble' = cardTrouble + 1 BY <2>2 DEF DispatchFails
    <3> QED BY <2>1, <2>2, <3>1, AnotherTrouble
  <2>3. CASE ~spontaneous
    <3>1. cardTrouble' = cardTrouble BY <2>1, <2>3 DEF DispatchFails
    <3> QED BY <2>1, <3>1
  <2> QED BY <2>2, <2>3
<1> QED BY <1>12, <1>13, <1>14 DEF CardShape

LEMMA ChangedTyped ==
  ASSUME CardInv, CardShape, NEW c \in CardCalls, Changed(c)
  PROVE  host'.version \in Nat /\ host'.version >= host.version /\ host'.config \in Configs
PROOF
<1>1. host.config \in Configs /\ Command(cardCall[c].step) /\ cardCall[c].step.op # "none" /\ host.version \in Nat
  BY DEF CardInv, Shaped, IsListing, CardShape, CallTyped, Changed
<1>2. PICK config : /\ config = AppliedStep(cardCall[c].step, host.config)
                    /\ host' = IF config = host.config THEN host ELSE [version |-> host.version + 1, config |-> config]
  BY DEF Changed
<1>3. config \in Configs BY <1>1, <1>2, AppliedTyped
<1> QED BY <1>1, <1>2, <1>3

LEMMA CardTypesRefused ==
  ASSUME CardInv, CardShape, NEW c \in CardCalls, CommandRefused(c) \/ CommandFails(c) \/ PathPushFails(c)
  PROVE  CardShape'
PROOF
<1>1. host.version \in Nat /\ host.config \in Configs BY DEF CardInv, Shaped, IsListing, CardShape
<1>2. PICK no \in BOOLEAN : no = FALSE OBVIOUS
<1>3. PICK yes \in BOOLEAN : yes = TRUE OBVIOUS
<1>4. CASE CommandRefused(c)
  <2>1. DispatchFails(c, no) /\ host' = host /\ row' = row BY <1>2, <1>4 DEF CommandRefused
  <2> QED BY <1>1, <1>2, <2>1, FailTyped
<1>5. CASE CommandFails(c)
  <2>1. DispatchFails(c, yes) /\ host' = host /\ row' = row /\ cardTrouble < MaxCardTrouble
    BY <1>3, <1>5 DEF CommandFails
  <2>2. host'.version \in Nat /\ host'.version >= host.version /\ host'.config \in Configs BY <1>1, <2>1
  <2> QED BY <2>1, <2>2, FailTyped, Zenon
<1>6. CASE PathPushFails(c)
  <2>1. DispatchFails(c, yes) /\ Changed(c) /\ row' = row /\ cardTrouble < MaxCardTrouble
    BY <1>3, <1>6 DEF PathPushFails
  <2>2. host'.version \in Nat /\ host'.version >= host.version /\ host'.config \in Configs BY <2>1, ChangedTyped
  <2> QED BY <1>3, <2>1, <2>2, FailTyped, Zenon
<1> QED BY <1>4, <1>5, <1>6

LEMMA CardTypesStart ==
  ASSUME CardInv, CardShape, NEW c \in CardCalls, Reload(c) \/ Sync(c) \/ Apply(c)
  PROVE  CardShape'
PROOF
<1>1. /\ IsCall(cardCall[c]) /\ IsPanel(panel) /\ CallTyped(cardCall[c], host.version) /\ PanelTyped(panel)
      /\ CardRowTyped(row) /\ host.version \in Nat
  BY DEF CardInv, Shaped, IsListing, CardShape
<1>2. host' = host /\ cardTrouble' = cardTrouble BY DEF Reload, Sync, Apply
<1>3. PICK gen : gen = panel.generation + 1 OBVIOUS
<1>4. CardRowTyped(row') BY <1>1 DEF Reload, Sync, Apply, CardRowTyped
<1>5. PanelTyped(panel')
  <2>1. panel' = [panel EXCEPT !.generation = gen] BY <1>1, <1>3 DEF Reload, Sync, Apply, IsPanel
  <2> QED BY <1>1, <2>1 DEF PanelTyped, IsPanel
<1>6. PICK x : x = cardCall[c] OBVIOUS
<1>7. PICK e : cardCall' = [cardCall EXCEPT ![c] = e] /\ CallTyped(e, host.version)
  <2>1. CASE Reload(c)
    <3>1. PICK e : e = [x EXCEPT !.pc = "listing", !.gen = gen] OBVIOUS
    <3>2. /\ e.kind = x.kind /\ e.step = x.step /\ e.pc = "listing" /\ e.plan = x.plan /\ e.failed = x.failed
          /\ e.carries = x.carries
      BY <1>1, <1>6, <3>1 DEF IsCall
    <3>3. CallTyped(e, host.version) BY <1>1, <1>6, <3>2 DEF CallTyped
    <3> QED BY <1>3, <1>6, <2>1, <3>1, <3>3 DEF Reload
  <2>2. CASE Sync(c)
    <3>1. PICK step : step = Step("default_env_sync", "", "") OBVIOUS
    <3>2. PICK e : e = [x EXCEPT !.pc = "command", !.kind = "sync", !.gen = gen, !.step = step] OBVIOUS
    <3>3. /\ e.kind = "sync" /\ e.step = step /\ e.plan = x.plan /\ e.failed = x.failed /\ e.carries = x.carries
      BY <1>1, <1>6, <3>2 DEF IsCall
    <3>4. Command(step) /\ step.op # "none"
      <4>1. step.op = "default_env_sync" BY <3>1, StepParts
      <4> QED BY <4>1 DEF Command, RankedOps, MountOps, SecretOps, PortOps
    <3>5. CallTyped(e, host.version) BY <1>1, <1>6, <3>3, <3>4 DEF CallTyped, CallKinds
    <3> QED BY <1>3, <1>6, <2>2, <3>1, <3>2, <3>5 DEF Sync
  <2>3. CASE Apply(c)
    <3>1. PICK all : all = Changes(panel.config, row.draft) OBVIOUS
    <3>2. PICK step, plan, next, clean : /\ step = First(all) /\ plan = all \ {First(all)}
                                         /\ next = row.draft /\ clean = (panel.config = host.config)
      OBVIOUS
    <3>3. PICK e : e = [x EXCEPT !.pc = "command", !.kind = "apply", !.gen = gen, !.step = step,
                                 !.plan = plan, !.next = next, !.clean = clean]
      OBVIOUS
    <3>4. /\ e.kind = "apply" /\ e.step = step /\ e.plan = plan /\ e.failed = x.failed /\ e.carries = x.carries
      BY <1>1, <1>6, <3>3 DEF IsCall
    <3>5. panel.config \in Configs /\ row.draft \in Configs BY <1>1 DEF PanelTyped, CardRowTyped
    <3>6. \A s \in all : Command(s) /\ s.op \in RankedOps BY <3>1, <3>5, ChangesTyped
    <3>7. all # {} BY <2>3, <3>1 DEF Apply
    <3>8. step \in all BY <3>2, <3>6, <3>7, FirstIsFirst
    <3>9. step.op # "none" BY <3>6, <3>8 DEF RankedOps, MountOps, SecretOps, PortOps
    <3>10. CallTyped(e, host.version) BY <1>1, <1>6, <3>2, <3>4, <3>6, <3>8, <3>9 DEF CallTyped, CallKinds
    <3>11. cardCall' = [cardCall EXCEPT ![c] = e] BY <1>3, <1>6, <2>3, <3>1, <3>2, <3>3 DEF Apply
    <3> QED BY <3>10, <3>11
  <2> QED BY <2>1, <2>2, <2>3
<1>8. cardCall'[c] = e /\ \A d \in CardCalls \ {c} : cardCall'[d] = cardCall[d]
  BY <1>7 DEF CardInv, Shaped
<1>9. \A d \in CardCalls : CallTyped(cardCall'[d], host'.version)
  BY <1>1, <1>2, <1>7, <1>8, CardCallsTyped
<1> QED BY <1>2, <1>4, <1>5, <1>9 DEF CardShape

LEMMA CardTypesDone ==
  ASSUME CardInv, CardShape, NEW c \in CardCalls, CommandDone(c)
  PROVE  CardShape'
PROOF
<1>1. IsCall(cardCall[c]) /\ CallTyped(cardCall[c], host.version) /\ host.version \in Nat
  BY DEF CardInv, Shaped, IsListing, CardShape
<1>2. host'.version \in Nat /\ host'.version >= host.version /\ host'.config \in Configs
  BY ChangedTyped DEF CommandDone
<1>3. UNCHANGED <<panel, row, cardTrouble>> BY DEF CommandDone
<1>4. PICK calls : /\ calls = IF host' = host THEN cardCall ELSE CardDisturbed(CardCalls \ {c})
                   /\ cardCall' = [calls EXCEPT ![c].pc = "listing"]
  BY DEF CommandDone
<1>5. /\ DOMAIN calls = CardCalls /\ calls[c] = cardCall[c]
      /\ \A d \in CardCalls \ {c} : calls[d] \in {cardCall[d], [cardCall[d] EXCEPT !.clean = FALSE]}
  BY <1>4 DEF CardDisturbed, CardInv, Shaped
<1>6. PICK x : x = cardCall[c] OBVIOUS
<1>7. PICK e : e = [x EXCEPT !.pc = "listing"] OBVIOUS
<1>8. /\ e.kind = x.kind /\ e.step = x.step /\ e.pc = "listing" /\ e.plan = x.plan /\ e.failed = x.failed
      /\ e.carries = x.carries /\ x.carries.version \in Nat
  BY <1>1, <1>6, <1>7 DEF IsCall
<1>9. x.carries.version <= host'.version BY <1>1, <1>2, <1>6, <1>8 DEF CallTyped
<1>10. CallTyped(e, host'.version) BY <1>1, <1>6, <1>8, <1>9 DEF CallTyped
<1>11. cardCall'[c] = e /\ \A d \in CardCalls \ {c} : cardCall'[d] = calls[d] BY <1>4, <1>5, <1>6, <1>7
<1>12. \A d \in CardCalls : CallTyped(cardCall'[d], host'.version)
  BY <1>2, <1>5, <1>10, <1>11, CardCallsTyped
<1> QED BY <1>2, <1>3, <1>12 DEF CardShape

LEMMA CardTypesList ==
  ASSUME CardInv, CardShape, NEW c \in CardCalls, List(c)
  PROVE  CardShape'
PROOF
<1>1. IsCall(cardCall[c]) /\ CallTyped(cardCall[c], host.version) /\ host.version \in Nat /\ host.config \in Configs
  BY DEF CardInv, Shaped, IsListing, CardShape
<1>2. UNCHANGED <<host, panel, row, cardTrouble>> BY DEF List
<1>3. PICK x, carries : x = cardCall[c] /\ carries = [version |-> host.version, config |-> host.config] OBVIOUS
<1>4. PICK e : e = [x EXCEPT !.pc = "answer", !.carries = carries] OBVIOUS
<1>5. /\ e.kind = x.kind /\ e.step = x.step /\ e.pc = "answer" /\ e.plan = x.plan /\ e.failed = x.failed
      /\ e.carries = carries
  BY <1>1, <1>3, <1>4 DEF IsCall
<1>6. CallTyped(e, host.version) BY <1>1, <1>3, <1>5 DEF CallTyped
<1>7. cardCall'[c] = e /\ \A d \in CardCalls \ {c} : cardCall'[d] = cardCall[d]
  BY <1>3, <1>4 DEF List, CardInv, Shaped
<1>8. \A d \in CardCalls : CallTyped(cardCall'[d], host'.version) BY <1>1, <1>2, <1>6, <1>7, CardCallsTyped
<1> QED BY <1>2, <1>8 DEF CardShape

LEMMA CardTypesListFails ==
  ASSUME CardInv, CardShape, NEW c \in CardCalls, ListFails(c)
  PROVE  CardShape'
PROOF
<1>1. /\ IsCall(cardCall[c]) /\ IsPanel(panel) /\ CallTyped(cardCall[c], host.version) /\ PanelTyped(panel)
      /\ host.version \in Nat /\ host.config \in Configs
  BY DEF CardInv, Shaped, IsListing, CardShape
<1>2. host' = host /\ row' = row /\ cardTrouble < MaxCardTrouble BY DEF ListFails
<1>3. CASE cardCall[c].kind # "reload"
  <2>1. PICK yes \in BOOLEAN : yes = TRUE OBVIOUS
  <2>2. DispatchFails(c, yes) BY <1>3, <2>1 DEF ListFails
  <2>3. host'.version \in Nat /\ host'.version >= host.version /\ host'.config \in Configs BY <1>1, <1>2
  <2> QED BY <1>2, <2>2, <2>3, FailTyped, Zenon
<1>4. CASE cardCall[c].kind = "reload"
  <2>1. PICK ok \in BOOLEAN : ok = FALSE OBVIOUS
  <2>2. cardCall' = Onward(c, cardCall[c], ok) BY <1>4, <2>1 DEF ListFails
  <2>3. \A d \in CardCalls : CallTyped(cardCall'[d], host'.version) BY <1>1, <1>2, <2>2, OnwardTyped
  <2>4. PanelTyped(panel')
    <3>1. panel' = panel \/ panel' = [panel EXCEPT !.toast = "error", !.notice = TRUE, !.ready = FALSE]
      BY <1>4 DEF ListFails
    <3> QED BY <1>1, <3>1 DEF PanelTyped, IsPanel
  <2>5. cardTrouble' = cardTrouble + 1 /\ cardTrouble \in 0..MaxCardTrouble BY <1>4 DEF ListFails, CardShape
  <2>6. cardTrouble' \in 0..MaxCardTrouble BY <1>2, <2>5, AnotherTrouble
  <2> QED BY <1>2, <2>3, <2>4, <2>6 DEF CardShape
<1> QED BY <1>3, <1>4

LEMMA CardTypesListed ==
  ASSUME CardInv, CardShape, NEW c \in CardCalls, Listed(c)
  PROVE  CardShape'
PROOF
<1>1. /\ IsCall(cardCall[c]) /\ IsPanel(panel) /\ CallTyped(cardCall[c], host.version) /\ PanelTyped(panel)
      /\ CardRowTyped(row) /\ host.version \in Nat
  BY DEF CardInv, Shaped, IsListing, CardShape
<1>2. host' = host /\ cardTrouble' = cardTrouble BY DEF Listed
<1>3. PICK ok \in BOOLEAN : ok = TRUE OBVIOUS
<1>4. cardCall' = Onward(c, cardCall[c], ok) BY <1>3 DEF Listed
<1>5. \A d \in CardCalls : CallTyped(cardCall'[d], host'.version) BY <1>1, <1>2, <1>4, OnwardTyped
<1>6. PICK config \in Configs : config = cardCall[c].carries.config BY <1>1 DEF CallTyped
<1>7. PanelTyped(panel') /\ CardRowTyped(row')
  <2>1. CASE Outdated(c)
    <3>1. PICK generation : panel' = [panel EXCEPT !.generation = generation, !.ready = TRUE] /\ row' = row
      BY <2>1 DEF Listed
    <3> QED BY <1>1, <3>1 DEF PanelTyped, IsPanel
  <2>2. CASE ~Outdated(c)
    <3>1. (cardCall[c].kind # "reload" /\ panel.notice) \in BOOLEAN OBVIOUS
    <3>2. PICK toast, notice : /\ toast = IF cardCall[c].kind = "sync" THEN "ok" ELSE panel.toast
                               /\ notice = (cardCall[c].kind # "reload" /\ panel.notice)
      OBVIOUS
    <3>3. toast \in {"none", "ok", "error"} /\ notice \in BOOLEAN BY <1>1, <3>1, <3>2 DEF PanelTyped
    <3>4. /\ panel'.config = config /\ panel'.ready = TRUE /\ panel'.toast = toast /\ panel'.notice = notice
          /\ row' = Adopts(config)
      BY <1>6, <2>2, <3>2 DEF Listed
    <3>5. CardRowTyped(row') BY <1>1, <3>4 DEF Adopts, CardRowTyped
    <3> QED BY <3>3, <3>4, <3>5 DEF PanelTyped
  <2> QED BY <2>1, <2>2
<1> QED BY <1>2, <1>5, <1>7 DEF CardShape

LEMMA CardTypesOutside ==
  ASSUME CardInv, CardShape, \/ \E d \in Drafts : Edit(d) \/ ChangedOutside(d)
                             \/ Discard \/ UNCHANGED cardVars
  PROVE  CardShape'
PROOF
<1>1. /\ PanelTyped(panel) /\ CardRowTyped(row) /\ host.version \in Nat /\ host.config \in Configs
      /\ cardTrouble \in 0..MaxCardTrouble /\ panel.config \in Configs
  BY DEF CardInv, Shaped, IsListing, CardShape, PanelTyped
<1>2. \A d \in Drafts : d \in Configs BY CardAssumption
<1>3. panel' = panel BY DEF Edit, ChangedOutside, Discard, cardVars
<1>4. CardRowTyped(row') BY <1>1, <1>2 DEF Edit, ChangedOutside, Discard, cardVars, CardRowTyped
<1>5. CASE host' = host /\ cardCall' = cardCall /\ cardTrouble' = cardTrouble
  BY <1>1, <1>3, <1>4, <1>5 DEF CardShape
<1>6. CASE \E d \in Drafts : ChangedOutside(d)
  <2>1. PICK d \in Drafts : ChangedOutside(d) BY <1>6
  <2>2. host'.version = host.version + 1 /\ host'.config \in Configs BY <1>2, <2>1 DEF ChangedOutside
  <2>3. cardTrouble' \in 0..MaxCardTrouble BY <1>1, <2>1, AnotherTrouble DEF ChangedOutside
  <2>4. \A c \in CardCalls : cardCall'[c] \in {cardCall[c], [cardCall[c] EXCEPT !.clean = FALSE]}
    BY <2>1 DEF ChangedOutside, CardDisturbed
  <2>5. ASSUME NEW c \in CardCalls PROVE CallTyped(cardCall'[c], host'.version)
    <3>1. IsCall(cardCall[c]) /\ CallTyped(cardCall[c], host.version) BY DEF CardInv, Shaped, CardShape
    <3>2. PICK x, y : x = cardCall[c] /\ y = cardCall'[c] OBVIOUS
    <3>3. /\ y.kind = x.kind /\ y.step = x.step /\ y.pc = x.pc /\ y.plan = x.plan /\ y.failed = x.failed
          /\ y.carries = x.carries /\ x.carries.version \in Nat
      BY <2>4, <3>1, <3>2 DEF IsCall
    <3>4. x.carries.version <= host'.version BY <1>1, <2>2, <3>1, <3>2, <3>3 DEF CallTyped
    <3> QED BY <3>1, <3>2, <3>3, <3>4 DEF CallTyped
  <2> QED BY <1>3, <1>1, <1>4, <2>2, <2>3, <2>5 DEF CardShape
<1> QED BY <1>5, <1>6 DEF Edit, ChangedOutside, Discard, cardVars

LEMMA CardShapeStarts == CardInit => CardShape
PROOF
<1> SUFFICES ASSUME CardInit PROVE CardShape OBVIOUS
<1>1. PICK d \in Drafts : host = [version |-> 1, config |-> d] BY DEF CardInit
<1>2. d \in Configs BY CardAssumption
<1>3. PanelTyped(panel) /\ CardRowTyped(row) BY <1>1, <1>2 DEF CardInit, PanelTyped, CardRowTyped
<1>4. PICK x : x = NewCardCall OBVIOUS
<1>5. CallTyped(x, 1)
  <2>1. /\ x.kind = "reload" /\ x.step = NoStep /\ x.pc = "idle" /\ x.plan = {} /\ x.failed = {} /\ x.carries = NoListing
    BY <1>4 DEF NewCardCall
  <2> QED BY <2>1, NoListingTyped, NoStepIsCommand DEF CallTyped, CallKinds
<1>6. \A c \in CardCalls : CallTyped(cardCall[c], host.version) BY <1>1, <1>4, <1>5 DEF CardInit
<1>7. cardTrouble \in 0..MaxCardTrouble
  <2>1. 0 \in 0..MaxCardTrouble BY CardAssumption
  <2> QED BY <2>1 DEF CardInit
<1> QED BY <1>1, <1>2, <1>3, <1>6, <1>7 DEF CardShape

\* What the card shows, holds and sends stays of the shapes the code gives it
\* (container-card-controller.ts, container-card-row.tsx), for any calls, drafts
\* and failures: every command of an apply is about something there is, so that
\* the host's record stays a configuration, and no call carries a listing newer
\* than the host's record or a generation the card has not reached.
THEOREM CardTypes == CardSpec => []CardTypeOK
PROOF
<1>1. CardInv /\ [CardNext]_cardVars => CardInv' BY CardStep
<1>2. CardInv /\ CardShape /\ [CardNext]_cardVars => CardShape'
  <2> SUFFICES ASSUME CardInv, CardShape, [CardNext]_cardVars PROVE CardShape' OBVIOUS
  <2>1. ASSUME NEW c \in CardCalls, CardCallStep(c) PROVE CardShape'
    BY <2>1, CardTypesStart, CardTypesRefused, CardTypesDone, CardTypesList, CardTypesListFails, CardTypesListed
       DEF CardCallStep
  <2>2. CASE (\E d \in Drafts : Edit(d) \/ ChangedOutside(d)) \/ Discard \/ UNCHANGED cardVars
    BY <2>2, CardTypesOutside
  <2> QED BY <2>1, <2>2 DEF CardNext
<1> QED BY CardInitially, CardShapeStarts, CardShapeMeans, <1>1, <1>2, PTL DEF CardSpec

-----------------------------------------------------------------------------
(* TemplatePopup: the shape of the state.                                  *)

PlanRecord == [choice : Maybe(Choices), ready : BOOLEAN]
PopupCheck == [kind : {"none", "create", "replace"}, box : Maybe(Boxes), source : Maybe(Choices),
               chosen : Maybe(Choices), straddled : BOOLEAN]
PopupRecord ==
  [stage : {"closed", "pick", "details"}, choice : Maybe(Choices), inspecting : BOOLEAN, plan : PlanRecord,
   draft : Maybe(Choices), building : BOOLEAN, failed : BOOLEAN, check : PopupCheck, resume : Maybe(Choices),
   straddled : BOOLEAN, visits : 0..MaxVisits]
BuildRecord == [phase : {"free", "build", "recheck"}, choice : Maybe(Choices)]

LEMMA PopupRests ==
  /\ NoPlan \in PlanRecord /\ NoCheck \in PopupCheck /\ NoEditor \in EditorType /\ FreeSlot \in BuildRecord
  /\ Nothing \in Maybe(Choices) /\ Nothing \in Maybe(Boxes) /\ Choices \subseteq Maybe(Choices)
PROOF BY DEF NoPlan, PlanRecord, NoCheck, PopupCheck, NoEditor, EditorType, FreeSlot, BuildRecord, Maybe

LEMMA PopupParts ==
  ASSUME PopupTypeOK
  PROVE  /\ popup \in PopupRecord /\ builds \in [Slots -> BuildRecord]
         /\ editor \in EditorType /\ applying \in EditorType /\ applied \in EditorType
         /\ built \in [Choices -> BOOLEAN] /\ vanished \in BOOLEAN /\ imageTrouble \in 0..MaxImageTrouble
PROOF BY DEF PopupTypeOK, PopupRecord, PlanRecord, PopupCheck, BuildRecord

LEMMA PopupPartsNext ==
  ASSUME popup' \in PopupRecord, builds' \in [Slots -> BuildRecord],
         editor' \in EditorType, applying' \in EditorType, applied' \in EditorType,
         built' \in [Choices -> BOOLEAN], vanished' \in BOOLEAN, imageTrouble' \in 0..MaxImageTrouble
  PROVE  PopupTypeOK'
PROOF BY DEF PopupTypeOK, PopupRecord, PlanRecord, PopupCheck, BuildRecord

LEMMA PlanTyped ==
  ASSUME PopupTypeOK, NEW choice \in Choices
  PROVE  Plan(choice) \in PlanRecord
PROOF
<1>1. built[choice] \in BOOLEAN BY PopupParts
<1>2. choice \in Maybe(Choices) BY DEF Maybe
<1>3. PICK b \in BOOLEAN : b = built[choice] BY <1>1, Zenon
<1> QED BY <1>2, <1>3 DEF Plan, PlanRecord

LEMMA Visited == ASSUME NEW n \in 0..MaxVisits, n < MaxVisits PROVE n + 1 \in 0..MaxVisits
PROOF BY PopupAssumption

LEMMA Troubled == ASSUME NEW n \in 0..MaxImageTrouble, n < MaxImageTrouble PROVE n + 1 \in 0..MaxImageTrouble
PROOF BY PopupAssumption

LEMMA DetailsTyped ==
  ASSUME PopupTypeOK, NEW choice \in Choices, popup.visits < MaxVisits
  PROVE  Details(choice) \in PopupRecord
PROOF
<1>1. popup \in PopupRecord BY PopupParts
<1>2. PICK draft : draft = IF popup.resume = choice THEN choice ELSE Nothing OBVIOUS
<1>3. draft \in Maybe(Choices) BY <1>2 DEF Maybe
<1>4. (\E s \in Slots : builds[s].phase # "free") \in BOOLEAN OBVIOUS
<1>5. PICK straddled \in BOOLEAN : straddled = \E s \in Slots : builds[s].phase # "free" BY <1>4, Zenon
<1>6. popup.visits \in 0..MaxVisits BY <1>1 DEF PopupRecord
<1>7. PICK n \in 0..MaxVisits : n = popup.visits + 1 BY <1>6, Visited
<1>8. Details(choice) =
        [popup EXCEPT !.stage = "details", !.choice = choice, !.inspecting = TRUE, !.plan = NoPlan, !.draft = draft,
                      !.building = FALSE, !.failed = FALSE, !.check = NoCheck, !.straddled = straddled, !.visits = n]
  BY <1>1, <1>2, <1>5, <1>7 DEF Details, PopupRecord
<1>9. choice \in Maybe(Choices) BY DEF Maybe
<1> QED BY <1>1, <1>3, <1>8, <1>9, PopupRests DEF PopupRecord

LEMMA PopupTypesPick ==
  ASSUME PopupTypeOK, PopupInv,
         OpenPicker \/ BackToPicker \/ ClosePopup \/ InspectAnswers \/ CheckOvertaken \/ \E c \in Choices : Choose(c)
  PROVE  PopupTypeOK'
PROOF
<1>1. popup \in PopupRecord BY PopupParts
<1>2. UNCHANGED <<builds, editor, applying, built, applied, vanished, imageTrouble>>
  BY DEF OpenPicker, BackToPicker, ClosePopup, InspectAnswers, CheckOvertaken, Choose
<1>3. popup' \in PopupRecord
  <2>1. CASE OpenPicker BY <1>1, <2>1 DEF OpenPicker, PopupRecord
  <2>2. CASE BackToPicker BY <1>1, <2>2 DEF BackToPicker, PopupRecord
  <2>3. CASE ClosePopup BY <1>1, <2>3, PopupRests DEF ClosePopup, PopupRecord
  <2>4. CASE CheckOvertaken BY <1>1, <2>4, PopupRests DEF CheckOvertaken, PopupRecord
  <2>5. CASE \E c \in Choices : Choose(c)
    <3>1. PICK c \in Choices : Choose(c) BY <2>5
    <3> QED BY <3>1, DetailsTyped DEF Choose
  <2>6. CASE InspectAnswers
    <3>1. popup.choice \in Choices BY <2>6 DEF InspectAnswers, PopupInv, PopupSound, Maybe
    <3>2. PICK plan \in PlanRecord : plan = Plan(popup.choice) BY <3>1, PlanTyped
    <3>3. PICK draft : draft = IF popup.draft = Nothing THEN popup.choice ELSE popup.draft OBVIOUS
    <3>4. draft \in Maybe(Choices) BY <1>1, <3>3 DEF PopupRecord
    <3>5. popup' = [popup EXCEPT !.inspecting = FALSE, !.plan = plan, !.draft = draft]
      BY <1>1, <2>6, <3>2, <3>3 DEF InspectAnswers, PopupRecord
    <3> QED BY <1>1, <3>4, <3>5 DEF PopupRecord
  <2> QED BY <2>1, <2>2, <2>3, <2>4, <2>5, <2>6
<1> QED BY <1>2, <1>3, PopupParts, PopupPartsNext

LEMMA PopupTypesTrouble ==
  ASSUME PopupTypeOK, InspectFails \/ ImageVanishes
  PROVE  PopupTypeOK'
PROOF
<1>1. popup \in PopupRecord BY PopupParts
<1>2. imageTrouble' \in 0..MaxImageTrouble BY PopupParts, Troubled DEF InspectFails, ImageVanishes
<1>3. UNCHANGED <<builds, editor, applying, applied>> BY DEF InspectFails, ImageVanishes
<1>4. CASE InspectFails
  <2>1. popup' \in PopupRecord BY <1>1, <1>4 DEF InspectFails, PopupRecord
  <2>2. UNCHANGED <<built, vanished>> BY <1>4 DEF InspectFails
  <2> QED BY <1>2, <1>3, <2>1, <2>2, PopupParts, PopupPartsNext
<1>5. CASE ImageVanishes
  <2>1. PICK c \in Choices : built' = [built EXCEPT ![c] = FALSE] BY <1>5 DEF ImageVanishes
  <2>2. built' \in [Choices -> BOOLEAN] BY <2>1, PopupParts
  <2>3. vanished' \in BOOLEAN /\ UNCHANGED popup BY <1>5 DEF ImageVanishes
  <2> QED BY <1>2, <1>3, <2>2, <2>3, PopupParts, PopupPartsNext
<1> QED BY <1>4, <1>5

LEMMA PopupTypesBuild ==
  ASSUME PopupTypeOK, PopupInv, NEW s \in Slots,
         StartBuild(s) \/ BuildDone(s) \/ BuildFails(s) \/ Rechecked(s) \/ RecheckFails(s)
  PROVE  PopupTypeOK'
PROOF
<1>1. popup \in PopupRecord /\ builds \in [Slots -> BuildRecord] /\ popup.choice \in Maybe(Choices)
  BY PopupParts DEF PopupRecord
<1>2. UNCHANGED <<editor, applying, applied, vanished>>
  BY DEF StartBuild, BuildDone, BuildFails, Rechecked, RecheckFails
<1>3. imageTrouble' \in 0..MaxImageTrouble
  <2>1. CASE imageTrouble' = imageTrouble BY <2>1, PopupParts
  <2>2. CASE imageTrouble < MaxImageTrouble /\ imageTrouble' = imageTrouble + 1 BY <2>2, PopupParts, Troubled
  <2> QED BY <2>1, <2>2 DEF StartBuild, BuildDone, BuildFails, Rechecked, RecheckFails
<1>4. built' \in [Choices -> BOOLEAN]
  <2>1. CASE built' = built BY <2>1, PopupParts
  <2>2. CASE built' = [built EXCEPT ![builds[s].choice] = TRUE] BY <2>2, PopupParts
  <2> QED BY <2>1, <2>2 DEF StartBuild, BuildDone, BuildFails, Rechecked, RecheckFails
<1>5. builds' \in [Slots -> BuildRecord]
  <2>1. \A phase \in {"build", "recheck"} : [phase |-> phase, choice |-> popup.choice] \in BuildRecord
    BY <1>1 DEF BuildRecord
  <2>2. CASE StartBuild(s) BY <1>1, <2>1, <2>2 DEF StartBuild
  <2>3. CASE Recheck(s)
    <3>1. PICK run : run = IF popup.choice = Nothing THEN FreeSlot ELSE [phase |-> "recheck", choice |-> popup.choice]
      OBVIOUS
    <3>2. run \in BuildRecord BY <2>1, <3>1, PopupRests
    <3>3. builds' = [builds EXCEPT ![s] = run] BY <2>3, <3>1 DEF Recheck
    <3> QED BY <1>1, <3>2, <3>3
  <2>4. CASE Rechecked(s) \/ RecheckFails(s) BY <1>1, <2>4, PopupRests DEF Rechecked, RecheckFails
  <2> QED BY <2>2, <2>3, <2>4 DEF BuildDone, BuildFails
<1>6. popup' \in PopupRecord
  <2>1. StillBuilding \in BOOLEAN
    <3>1. popup.building \in BOOLEAN BY <1>1 DEF PopupRecord
    <3> QED BY <3>1, Zenon DEF StillBuilding
  <2>2. PICK going \in BOOLEAN : going = StillBuilding BY <2>1, Zenon
  <2>3. CASE StartBuild(s) BY <1>1, <2>3 DEF StartBuild, PopupRecord
  <2>4. CASE BuildDone(s)
    <3>1. builds[s].choice \in Maybe(Choices) BY <1>1 DEF BuildRecord
    <3>2. PICK plan : plan = [choice |-> builds[s].choice, ready |-> TRUE] OBVIOUS
    <3>3. plan \in PlanRecord BY <3>1, <3>2 DEF PlanRecord
    <3>4. popup' = [popup EXCEPT !.plan = plan, !.building = going] BY <2>2, <2>4, <3>2 DEF BuildDone
    <3> QED BY <1>1, <3>3, <3>4 DEF PopupRecord
  <2>5. CASE BuildFails(s)
    <3>1. popup' = [popup EXCEPT !.failed = TRUE, !.building = going] BY <2>2, <2>5 DEF BuildFails
    <3> QED BY <1>1, <3>1 DEF PopupRecord
  <2>6. CASE Rechecked(s)
    <3>1. builds[s].choice \in Choices BY <2>6 DEF Rechecked, PopupInv, BuildsKnown
    <3>2. PICK plan \in PlanRecord : plan = Plan(builds[s].choice) BY <3>1, PlanTyped
    <3>3. popup' = [popup EXCEPT !.plan = plan, !.building = FALSE] BY <2>6, <3>2 DEF Rechecked
    <3> QED BY <1>1, <3>3 DEF PopupRecord
  <2>7. CASE RecheckFails(s) BY <1>1, <2>7 DEF RecheckFails, PopupRecord
  <2> QED BY <2>3, <2>4, <2>5, <2>6, <2>7
<1> QED BY <1>2, <1>3, <1>4, <1>5, <1>6, PopupParts, PopupPartsNext

LEMMA PopupTypesContinue ==
  ASSUME PopupTypeOK, NEW kind \in {"create", "replace"}, NEW box \in Maybe(Boxes), Continue(kind, box)
  PROVE  PopupTypeOK'
PROOF
<1>1. /\ popup \in PopupRecord /\ popup.plan \in PlanRecord
      /\ popup.choice \in Maybe(Choices) /\ popup.straddled \in BOOLEAN
  BY PopupParts DEF PopupRecord
<1>2. PICK source : source = IF kind = "replace" THEN popup.plan.choice ELSE Nothing OBVIOUS
<1>3. source \in Maybe(Choices) BY <1>1, <1>2, PopupRests DEF PlanRecord
<1>4. PICK check : check = [kind |-> kind, box |-> box, chosen |-> popup.choice, source |-> source,
                            straddled |-> popup.straddled]
  OBVIOUS
<1>5. check \in PopupCheck BY <1>1, <1>3, <1>4 DEF PopupCheck
<1>6. popup' = [popup EXCEPT !.check = check] BY <1>2, <1>4 DEF Continue
<1>7. popup' \in PopupRecord BY <1>1, <1>5, <1>6 DEF PopupRecord
<1>8. UNCHANGED <<builds, editor, applying, built, applied, vanished, imageTrouble>> BY DEF Continue
<1> QED BY <1>7, <1>8, PopupParts, PopupPartsNext

LEMMA PopupTypesEditor ==
  ASSUME PopupTypeOK, HandOver \/ EditorBack \/ EditorClose \/ Create \/ StartApply \/ ApplyDone \/ ApplyFails
  PROVE  PopupTypeOK'
PROOF
<1>1. popup \in PopupRecord /\ popup.check \in PopupCheck /\ popup.draft \in Maybe(Choices) /\ popup.resume \in Maybe(Choices)
  BY PopupParts DEF PopupRecord
<1>2. UNCHANGED <<builds, built, vanished, imageTrouble>>
  BY DEF HandOver, EditorBack, EditorClose, Create, StartApply, ApplyDone, ApplyFails
<1>3. applied' \in EditorType /\ applying' \in EditorType
  BY PopupParts, PopupRests DEF HandOver, EditorBack, EditorClose, Create, StartApply, ApplyDone, ApplyFails
<1>4. editor' \in EditorType
  <2>1. CASE HandOver BY <1>1, <2>1 DEF HandOver, PopupCheck, EditorType
  <2>2. CASE ApplyDone
    <3>1. editor' = editor \/ editor' = [editor EXCEPT !.source = Nothing, !.spent = TRUE] BY <2>2 DEF ApplyDone
    <3> QED BY <3>1, PopupParts, PopupRests DEF EditorType
  <2> QED BY <2>1, <2>2, PopupParts, PopupRests DEF EditorBack, EditorClose, Create, StartApply, ApplyFails
<1>5. popup' \in PopupRecord
  <2>1. CASE HandOver
    <3>1. popup.check.chosen \in Maybe(Choices) BY <1>1 DEF PopupCheck
    <3>2. PICK chosen \in Maybe(Choices) : chosen = popup.check.chosen BY <3>1
    <3>3. popup' = [popup EXCEPT !.stage = "closed", !.choice = Nothing, !.inspecting = FALSE,
                                 !.check = NoCheck, !.resume = chosen]
      BY <2>1, <3>2 DEF HandOver
    <3> QED BY <1>1, <3>3, PopupRests DEF PopupRecord
  <2>2. CASE EditorBack
    <3>1. popup.resume \in Choices /\ popup.visits < MaxVisits BY <1>1, <2>2 DEF EditorBack, Maybe
    <3> QED BY <2>2, <3>1, DetailsTyped DEF EditorBack
  <2>3. CASE EditorClose \/ Create \/ ApplyDone
    <3>1. popup' = [popup EXCEPT !.resume = Nothing] BY <2>3 DEF EditorClose, Create, ApplyDone
    <3> QED BY <1>1, <3>1, PopupRests DEF PopupRecord
  <2>4. CASE StartApply \/ ApplyFails BY <1>1, <2>4 DEF StartApply, ApplyFails
  <2> QED BY <2>1, <2>2, <2>3, <2>4
<1> QED BY <1>2, <1>3, <1>4, <1>5, PopupParts, PopupPartsNext

\* The popups, the builds and the editor stay of the shapes the code gives them
\* (container-card-templates.tsx), for any templates, boxes and builds: a plan is
\* only ever of a template, although what is inspected, built and checked again is
\* read back when the answer comes.
THEOREM PopupTypes == PopupSpec => []PopupTypeOK
PROOF
<1>1. PopupInit => PopupTypeOK
  <2> SUFFICES ASSUME PopupInit PROVE PopupTypeOK OBVIOUS
  <2>1. 0 \in 0..MaxVisits /\ 0 \in 0..MaxImageTrouble BY PopupAssumption
  <2>2. popup \in PopupRecord BY <2>1, PopupRests DEF PopupInit, PopupRecord
  <2>3. /\ builds \in [Slots -> BuildRecord] /\ built \in [Choices -> BOOLEAN]
        /\ editor \in EditorType /\ applying \in EditorType /\ applied \in EditorType
        /\ imageTrouble \in 0..MaxImageTrouble
    BY <2>1, PopupRests DEF PopupInit
  <2>4. vanished \in BOOLEAN BY DEF PopupInit
  <2> QED BY <2>2, <2>3, <2>4 DEF PopupTypeOK, PopupRecord, PlanRecord, PopupCheck, BuildRecord
<1>2. PopupInit => PopupInv BY PopupStarts
<1>3. PopupInv /\ [PopupNext]_popupVars => PopupInv' BY PopupSteps
<1>4. PopupTypeOK /\ PopupInv /\ [PopupNext]_popupVars => PopupTypeOK'
  <2> SUFFICES ASSUME PopupTypeOK, PopupInv, [PopupNext]_popupVars PROVE PopupTypeOK' OBVIOUS
  <2>1. CASE UNCHANGED popupVars BY <2>1 DEF popupVars, PopupTypeOK
  <2>2. CASE \E box \in Boxes : Continue("replace", box)
    <3>1. PICK box \in Maybe(Boxes) : Continue("replace", box) BY <2>2 DEF Maybe
    <3> QED BY <3>1, PopupTypesContinue
  <2>3. CASE Continue("create", Nothing) BY <2>3, PopupRests, PopupTypesContinue
  <2> QED BY <2>1, <2>2, <2>3, PopupTypesPick, PopupTypesTrouble, PopupTypesBuild, PopupTypesEditor DEF PopupNext
<1> QED BY <1>1, <1>2, <1>3, <1>4, PTL DEF PopupSpec
=============================================================================
