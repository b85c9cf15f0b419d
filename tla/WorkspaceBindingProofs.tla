----------------------- MODULE WorkspaceBindingProofs -----------------------
(***************************************************************************)
(* What holds of WorkspaceBinding for any number of calls, generations and *)
(* disturbances: its types, a container call goes by the mounts its        *)
(* container has, a repetition repeats no effect, and a call that nothing  *)
(* disturbed repairs what it finds.                                        *)
(***************************************************************************)
EXTENDS WorkspaceBinding, TLAPS

\* What the proofs need of the shape of the state: the fields, not their types.
IsContainerRow(x) == x \in [gen : {x.gen}, mounts : {x.mounts}]
IsBindingCall(x) ==
  /\ x \in [pc : {x.pc}, key : {x.key}, plan : {x.plan}, wait : {x.wait}, got : {x.got}, why : {x.why},
            row : {x.row}, fresh : {x.fresh}, hit : BOOLEAN,
            born : {x.born}, effects : {x.effects}]
  /\ IsContainerRow(x.row)
IsPromise(x) == x \in [at : {x.at}, key : {x.key}, tidy : {x.tidy}, row : {x.row}] /\ IsContainerRow(x.row)
IsEntry(x) == x \in [at : {x.at}, of : {x.of}, row : {x.row}] /\ IsContainerRow(x.row)
IsContainer(x) == x \in [gen : {x.gen}, mounts : {x.mounts}, health : {x.health}] /\ x.mounts \in Nat

BindingShape ==
  /\ DOMAIN world = Homes /\ world = [h \in DOMAIN world |-> world[h]] /\ \A h \in Homes : IsContainer(world[h])
  /\ DOMAIN resolution = BindingCalls /\ resolution = [c \in DOMAIN resolution |-> resolution[c]]
  /\ \A c \in BindingCalls : IsPromise(resolution[c])
  /\ DOMAIN slot = BindingKeys /\ slot = [k \in DOMAIN slot |-> slot[k]] /\ \A k \in BindingKeys : IsEntry(slot[k])
  /\ DOMAIN call = BindingCalls /\ call = [c \in DOMAIN call |-> call[c]]
  /\ \A c \in BindingCalls : IsBindingCall(call[c])
  /\ mutation \in [home : {mutation.home}, kind : {mutation.kind}, lost : {mutation.lost}]

\* The entries of a container may be old: a change of its mounts is not answered
\* yet, or its answer was lost.
StaleRow(h) == h \in mutation.lost \/ (mutation.kind = "mounts" /\ mutation.home = h)
RowCurrent(row, key) == row.mounts = world[Home(key)].mounts

\* A promise that is pending is awaited by the call that created it.
PromiseSound(c) ==
  resolution[c].at # "none" => call[c].pc = "waiting" /\ call[c].wait = c /\ call[c].key = resolution[c].key

\* The promise of an entry is one for its key.  The entry of a container holds
\* the mounts the container has, or a promise that brings them.
EntrySound(k) ==
  /\ slot[k].at = "pending" =>
       slot[k].of \in BindingCalls /\ resolution[slot[k].of].at # "none" /\ resolution[slot[k].of].key = k
  /\ k # "session" /\ ~StaleRow(Home(k)) =>
       /\ slot[k].at = "kept" => RowCurrent(slot[k].row, k)
       /\ slot[k].at = "pending" /\ resolution[slot[k].of].at = "kept" => RowCurrent(resolution[slot[k].of].row, k)

\* A call awaits a promise for its key, has seen the control call under way, and
\* ends with its effect.
BindingPlaced(c) ==
  /\ Open(c) => call[c].key \in BindingKeys
  /\ call[c].pc = "waiting" =>
       /\ call[c].wait \in BindingCalls /\ resolution[call[c].wait].at # "none"
       /\ resolution[call[c].wait].key = call[c].key
  /\ Open(c) /\ mutation.kind \in MutationKinds => call[c].hit
  /\ call[c].effects \in {0, 1} /\ (call[c].pc \notin Ends => call[c].effects = 0)

\* The mounts a container call goes by, or will get, unless it was disturbed.
Informed(c) ==
  Open(c) /\ ~call[c].hit /\ call[c].key # "session" /\ Home(call[c].key) \notin mutation.lost =>
    /\ call[c].pc \in {"ping", "use"} \/ (call[c].pc = "resumed" /\ call[c].got = "kept")
         \/ (call[c].pc = "waiting" /\ call[c].why # "resolve")
       => RowCurrent(call[c].row, call[c].key)
    /\ call[c].pc = "waiting" /\ resolution[call[c].wait].at = "kept" =>
         RowCurrent(resolution[call[c].wait].row, call[c].key)

BindingInv ==
  /\ BindingShape
  /\ \A c \in BindingCalls : PromiseSound(c) /\ BindingPlaced(c) /\ Informed(c)
  /\ \A k \in BindingKeys : EntrySound(k)

-----------------------------------------------------------------------------
(* One call moves, and entries may go.                                     *)

\* The containers keep their mounts.
MountsKept ==
  /\ DOMAIN world' = Homes /\ world' = [h \in DOMAIN world' |-> world'[h]]
  /\ \A h \in Homes : IsContainer(world'[h]) /\ world'[h].mounts = world[h].mounts

\* Entries that are kept, or emptied.
Emptied(slots) ==
  /\ DOMAIN slots = BindingKeys /\ slots = [k \in DOMAIN slots |-> slots[k]]
  /\ \A k \in BindingKeys : slots[k] = slot[k] \/ slots[k] = Empty

\* The record of a call that is not waiting, and goes by the mounts there are.
Steady(r) ==
  /\ IsBindingCall(r)
  /\ r.effects \in {0, 1} /\ (r.pc \notin Ends => r.effects = 0)
  /\ r.pc \notin Ends \cup {"idle"} => r.key \in BindingKeys /\ (mutation.kind \in MutationKinds => r.hit)
  /\ ~r.hit /\ r.key # "session" /\ Home(r.key) \notin mutation.lost
       /\ (r.pc \in {"ping", "use"} \/ (r.pc = "resumed" /\ r.got = "kept"))
     => RowCurrent(r.row, r.key)

LEMMA RecordMoved ==
  ASSUME BindingShape, NEW c \in BindingCalls, NEW r, IsBindingCall(r), call' = [call EXCEPT ![c] = r]
  PROVE  /\ DOMAIN call' = BindingCalls /\ call' = [d \in DOMAIN call' |-> call'[d]]
         /\ \A d \in BindingCalls : IsBindingCall(call'[d])
         /\ call'[c] = r /\ \A d \in BindingCalls : d # c => call'[d] = call[d]
PROOF BY DEF BindingShape

LEMMA KeysHaveHomes ==
  ASSUME NEW k \in BindingKeys PROVE Home(k) \in Homes
PROOF BY DEF Homes

LEMMA EmptyIsEntry == IsEntry(Empty) /\ Empty.at = "none"
PROOF BY DEF IsEntry, IsContainerRow, Empty, NoRow

\* A call that is not waiting moves without waiting.
LEMMA CallMoves ==
  ASSUME BindingInv, NEW c \in BindingCalls, call[c].pc # "waiting", MountsKept,
         NEW r, Steady(r), r.pc # "waiting", call' = [call EXCEPT ![c] = r],
         Emptied(slot'), UNCHANGED <<resolution, mutation>>
  PROVE  BindingInv'
PROOF
<1>1. /\ DOMAIN call' = BindingCalls /\ call' = [d \in DOMAIN call' |-> call'[d]]
      /\ \A d \in BindingCalls : IsBindingCall(call'[d])
      /\ call'[c] = r /\ \A d \in BindingCalls : d # c => call'[d] = call[d]
  BY RecordMoved DEF BindingInv, Steady
<1>2. BindingShape'
  <2>1. \A k \in BindingKeys : IsEntry(slot'[k]) BY EmptyIsEntry DEF Emptied, BindingInv, BindingShape
  <2> QED BY <2>1, <1>1 DEF BindingInv, BindingShape, MountsKept, Emptied
<1>3. \A k \in BindingKeys : Home(k) \in Homes /\ world'[Home(k)].mounts = world[Home(k)].mounts
  BY KeysHaveHomes DEF MountsKept
<1>4. resolution[c].at = "none" BY DEF BindingInv, PromiseSound
<1>5. ASSUME NEW d \in BindingCalls PROVE PromiseSound(d)'
  BY <1>1, <1>4 DEF BindingInv, PromiseSound
<1>6. ASSUME NEW d \in BindingCalls PROVE BindingPlaced(d)'
  BY <1>1 DEF BindingInv, BindingPlaced, Open, Steady
<1>7. ASSUME NEW d \in BindingCalls PROVE Informed(d)'
  <2>1. CASE d = c BY <2>1, <1>1, <1>3 DEF Informed, Open, Steady, RowCurrent
  <2>2. CASE d # c
    <3>1. Informed(d) /\ BindingPlaced(d) BY DEF BindingInv
    <3> QED BY <2>2, <3>1, <1>1, <1>3 DEF Informed, BindingPlaced, Open, RowCurrent
  <2> QED BY <2>1, <2>2
<1>8. ASSUME NEW k \in BindingKeys PROVE EntrySound(k)'
  <2>1. EntrySound(k) BY DEF BindingInv
  <2>2. CASE slot'[k] = slot[k] BY <2>1, <2>2, <1>3 DEF EntrySound, StaleRow, RowCurrent
  <2>3. CASE slot'[k] = Empty BY <2>3, EmptyIsEntry DEF EntrySound
  <2> QED BY <2>2, <2>3 DEF Emptied
<1> QED BY <1>2, <1>5, <1>6, <1>7, <1>8 DEF BindingInv

-----------------------------------------------------------------------------
(* Ask. *)

\* A call that may await a promise, with the row it has from before.
Asks(r, why) ==
  /\ IsBindingCall(r) /\ r.key \in BindingKeys /\ r.effects = 0
  /\ mutation.kind \in MutationKinds => r.hit
  /\ why # "resolve" /\ ~r.hit /\ r.key # "session" /\ Home(r.key) \notin mutation.lost => RowCurrent(r.row, r.key)

\* The promise a call joins exists, and will be right for it.
LEMMA CallJoins ==
  ASSUME BindingInv, NEW c \in BindingCalls, call[c].pc # "waiting", MountsKept,
         NEW r, NEW why, Asks(r, why), r.pc = "waiting", r.why = why,
         r.wait \in BindingCalls, resolution[r.wait].at # "none", resolution[r.wait].key = r.key,
         r.key # "session" /\ ~StaleRow(Home(r.key)) /\ resolution[r.wait].at = "kept" =>
           RowCurrent(resolution[r.wait].row, r.key),
         call' = [call EXCEPT ![c] = r], Emptied(slot'), UNCHANGED <<resolution, mutation>>
  PROVE  BindingInv'
PROOF
<1>1. /\ DOMAIN call' = BindingCalls /\ call' = [d \in DOMAIN call' |-> call'[d]]
      /\ \A d \in BindingCalls : IsBindingCall(call'[d])
      /\ call'[c] = r /\ \A d \in BindingCalls : d # c => call'[d] = call[d]
  BY RecordMoved DEF BindingInv, Asks
<1>2. BindingShape'
  <2>1. \A k \in BindingKeys : IsEntry(slot'[k]) BY EmptyIsEntry DEF Emptied, BindingInv, BindingShape
  <2> QED BY <2>1, <1>1 DEF BindingInv, BindingShape, MountsKept, Emptied
<1>3. \A k \in BindingKeys : Home(k) \in Homes /\ world'[Home(k)].mounts = world[Home(k)].mounts
  BY KeysHaveHomes DEF MountsKept
<1>4. resolution[c].at = "none" BY DEF BindingInv, PromiseSound
<1>5. ASSUME NEW d \in BindingCalls PROVE PromiseSound(d)'
  BY <1>1, <1>4 DEF BindingInv, PromiseSound
<1>6. ASSUME NEW d \in BindingCalls PROVE BindingPlaced(d)'
  BY <1>1 DEF BindingInv, BindingPlaced, Open, Asks, Ends
<1>7. ASSUME NEW d \in BindingCalls PROVE Informed(d)'
  <2>1. CASE d = c BY <2>1, <1>1, <1>3 DEF Informed, Open, Asks, RowCurrent, StaleRow, MutationKinds
  <2>2. CASE d # c
    <3>1. Informed(d) /\ BindingPlaced(d) BY DEF BindingInv
    <3> QED BY <2>2, <3>1, <1>1, <1>3 DEF Informed, BindingPlaced, Open, RowCurrent
  <2> QED BY <2>1, <2>2
<1>8. ASSUME NEW k \in BindingKeys PROVE EntrySound(k)'
  <2>1. EntrySound(k) BY DEF BindingInv
  <2>2. CASE slot'[k] = slot[k] BY <2>1, <2>2, <1>3 DEF EntrySound, StaleRow, RowCurrent
  <2>3. CASE slot'[k] = Empty BY <2>3, EmptyIsEntry DEF EntrySound
  <2> QED BY <2>2, <2>3 DEF Emptied
<1> QED BY <1>2, <1>5, <1>6, <1>7, <1>8 DEF BindingInv

\* A call that finds no entry creates its promise and caches it.
LEMMA CallCreates ==
  ASSUME BindingInv, NEW c \in BindingCalls, call[c].pc # "waiting", MountsKept,
         NEW r, NEW why, Asks(r, why), r.pc = "waiting", r.why = why, r.wait = c,
         NEW p, IsPromise(p), p.at = "asked", p.key = r.key,
         NEW e, IsEntry(e), e.at = "pending", e.of = c,
         NEW slots, Emptied(slots),
         call' = [call EXCEPT ![c] = r], resolution' = [resolution EXCEPT ![c] = p],
         slot' = [slots EXCEPT ![r.key] = e], UNCHANGED mutation
  PROVE  BindingInv'
PROOF
<1>1. /\ DOMAIN call' = BindingCalls /\ call' = [d \in DOMAIN call' |-> call'[d]]
      /\ \A d \in BindingCalls : IsBindingCall(call'[d])
      /\ call'[c] = r /\ \A d \in BindingCalls : d # c => call'[d] = call[d]
  BY RecordMoved DEF BindingInv, Asks
<1>2. /\ DOMAIN resolution' = BindingCalls /\ resolution' = [d \in DOMAIN resolution' |-> resolution'[d]]
      /\ resolution'[c] = p /\ \A d \in BindingCalls : d # c => resolution'[d] = resolution[d]
  BY DEF BindingInv, BindingShape
<1>3. /\ DOMAIN slot' = BindingKeys /\ slot' = [k \in DOMAIN slot' |-> slot'[k]]
      /\ slot'[r.key] = e /\ \A k \in BindingKeys : k # r.key => slot'[k] = slots[k]
  BY DEF Emptied, Asks
<1>4. BindingShape'
  <2>1. \A k \in BindingKeys : IsEntry(slot'[k]) BY <1>3, EmptyIsEntry DEF Emptied, BindingInv, BindingShape
  <2>2. \A d \in BindingCalls : IsPromise(resolution'[d]) BY <1>2 DEF BindingInv, BindingShape
  <2> QED BY <2>1, <2>2, <1>1, <1>2, <1>3 DEF BindingInv, BindingShape, MountsKept
<1>5. \A k \in BindingKeys : Home(k) \in Homes /\ world'[Home(k)].mounts = world[Home(k)].mounts
  BY KeysHaveHomes DEF MountsKept
<1>6. resolution[c].at = "none" BY DEF BindingInv, PromiseSound
<1>7. ASSUME NEW d \in BindingCalls PROVE PromiseSound(d)'
  BY <1>1, <1>2 DEF BindingInv, PromiseSound
<1>8. ASSUME NEW d \in BindingCalls PROVE BindingPlaced(d)'
  <2>1. CASE d = c BY <2>1, <1>1, <1>2 DEF BindingPlaced, Open, Asks, Ends
  <2>2. CASE d # c
    <3>1. BindingPlaced(d) BY DEF BindingInv
    <3>2. call[d].pc = "waiting" => call[d].wait # c BY <3>1, <1>6 DEF BindingPlaced
    <3> QED BY <2>2, <3>1, <3>2, <1>1, <1>2 DEF BindingPlaced, Open
  <2> QED BY <2>1, <2>2
<1>9. ASSUME NEW d \in BindingCalls PROVE Informed(d)'
  <2>1. CASE d = c BY <2>1, <1>1, <1>2, <1>5 DEF Informed, Open, Asks, RowCurrent
  <2>2. CASE d # c
    <3>1. Informed(d) /\ BindingPlaced(d) BY DEF BindingInv
    <3>2. call[d].pc = "waiting" => call[d].wait \in BindingCalls /\ call[d].wait # c BY <3>1, <1>6 DEF BindingPlaced
    <3> QED BY <2>2, <3>1, <3>2, <1>1, <1>2, <1>5 DEF Informed, BindingPlaced, Open, RowCurrent
  <2> QED BY <2>1, <2>2
<1>10. ASSUME NEW k \in BindingKeys PROVE EntrySound(k)'
  <2>1. EntrySound(k) BY DEF BindingInv
  <2>2. slot[k].at = "pending" => slot[k].of \in BindingCalls /\ slot[k].of # c BY <2>1, <1>6 DEF EntrySound
  <2>3. CASE k = r.key BY <2>3, <1>2, <1>3 DEF EntrySound
  <2>4. CASE k # r.key /\ slots[k] = slot[k]
    BY <2>4, <2>1, <2>2, <1>2, <1>3, <1>5 DEF EntrySound, StaleRow, RowCurrent
  <2>5. CASE k # r.key /\ slots[k] = Empty BY <2>5, <1>3, EmptyIsEntry DEF EntrySound
  <2> QED BY <2>3, <2>4, <2>5 DEF Emptied
<1> QED BY <1>4, <1>7, <1>8, <1>9, <1>10 DEF BindingInv

LEMMA EndIsSteady ==
  ASSUME NEW r, IsBindingCall(r), r.effects \in {0, 1}, NEW pc \in Ends
  PROVE  LET s == [IdleCall EXCEPT !.pc = pc, !.key = r.key, !.hit = r.hit, !.effects = r.effects]
         IN  Steady(s) /\ s.pc # "waiting"
PROOF BY DEF IsBindingCall, IsContainerRow, Steady, IdleCall, NoRow, Ends

LEMMA AskKeepsInv ==
  ASSUME BindingInv, NEW c \in BindingCalls, call[c].pc # "waiting", MountsKept,
         NEW r, NEW why, Asks(r, why), NEW slots, Emptied(slots), Ask(c, r, why, slots), UNCHANGED mutation
  PROVE  BindingInv'
PROOF
<1> DEFINE cached == slots[r.key]
           w(of) == [r EXCEPT !.pc = "waiting", !.why = why, !.wait = of]
           p == [at |-> "asked", key |-> r.key, tidy |-> why = "resolve" \/ r.key = "session", row |-> NoRow]
           e == [at |-> "pending", of |-> c, row |-> NoRow]
           k == [r EXCEPT !.pc = "ping", !.row = cached.row]
<1>1. IsEntry(cached) /\ cached \in {slot[r.key], Empty} /\ EntrySound(r.key)
  BY EmptyIsEntry DEF Asks, Emptied, BindingInv, BindingShape
<1>2. ASSUME NEW of PROVE Asks(w(of), why) /\ w(of).pc = "waiting" /\ w(of).why = why /\ w(of).wait = of /\ w(of).key = r.key
  BY DEF Asks, IsBindingCall, RowCurrent
<1>3. CASE cached.at = "none"
  <2>1. /\ call' = [call EXCEPT ![c] = w(c)] /\ resolution' = [resolution EXCEPT ![c] = p]
        /\ slot' = [slots EXCEPT ![w(c).key] = e]
    BY <1>3, <1>2 DEF Ask
  <2>2. /\ IsPromise(p) /\ p.at = "asked" /\ p.key = w(c).key /\ IsEntry(e) /\ e.at = "pending" /\ e.of = c
    BY <1>2 DEF IsPromise, IsEntry, IsContainerRow, NoRow
  <2>3. Asks(w(c), why) /\ w(c).pc = "waiting" /\ w(c).why = why /\ w(c).wait = c BY <1>2
  <2> HIDE DEF w, p, e
  <2> QED BY <2>1, <2>2, <2>3, CallCreates
<1>4. CASE cached.at = "pending"
  <2> DEFINE of == cached.of
  <2>1. call' = [call EXCEPT ![c] = w(of)] /\ slot' = slots /\ UNCHANGED resolution BY <1>4 DEF Ask
  <2>2. cached = slot[r.key] BY <1>1, <1>4, EmptyIsEntry
  <2>3. /\ of \in BindingCalls /\ resolution[of].at # "none" /\ resolution[of].key = r.key
        /\ r.key # "session" /\ ~StaleRow(Home(r.key)) /\ resolution[of].at = "kept" => RowCurrent(resolution[of].row, r.key)
    BY <2>2, <1>1, <1>4 DEF EntrySound
  <2>4. Asks(w(of), why) /\ w(of).pc = "waiting" /\ w(of).why = why /\ w(of).wait = of /\ w(of).key = r.key
    BY <1>2
  <2>5. Emptied(slot') BY <2>1
  <2> HIDE DEF w, of
  <2> QED BY <2>1, <2>3, <2>4, <2>5, CallJoins
<1>5. CASE cached.at = "kept"
  <2>1. call' = [call EXCEPT ![c] = k] /\ slot' = slots /\ UNCHANGED resolution BY <1>5 DEF Ask
  <2>2. cached = slot[r.key] BY <1>1, <1>5, EmptyIsEntry
  <2>3. r.key # "session" /\ ~StaleRow(Home(r.key)) => RowCurrent(cached.row, r.key) BY <2>2, <1>1, <1>5 DEF EntrySound
  <2>4. IsBindingCall(k) /\ k.pc = "ping" /\ k.row = cached.row /\ k.key = r.key /\ k.hit = r.hit /\ k.effects = r.effects
    BY <1>1 DEF Asks, IsBindingCall, IsEntry
  <2>5. Steady(k)
    BY <2>3, <2>4 DEF Steady, Asks, StaleRow, MutationKinds, RowCurrent
  <2>6. Emptied(slot') BY <2>1
  <2> HIDE DEF k
  <2> QED BY <2>1, <2>4, <2>5, <2>6, CallMoves
<1>6. CASE cached.at \notin {"none", "pending", "kept"}
  <2>1. End(c, r, "poisoned") /\ slot' = slots /\ UNCHANGED resolution BY <1>6 DEF Ask
  <2> DEFINE s == [IdleCall EXCEPT !.pc = "poisoned", !.key = r.key, !.hit = r.hit, !.effects = r.effects]
  <2>2. Steady(s) /\ s.pc # "waiting" BY EndIsSteady DEF Asks, Ends
  <2>3. call' = [call EXCEPT ![c] = s] /\ Emptied(slot') BY <2>1 DEF End
  <2> HIDE DEF s
  <2> QED BY <2>1, <2>2, <2>3, CallMoves
<1> QED BY <1>3, <1>4, <1>5, <1>6

-----------------------------------------------------------------------------
(* The steps of a call. *)

LEMMA WorldKept ==
  ASSUME BindingInv, UNCHANGED world PROVE MountsKept
PROOF BY DEF BindingInv, BindingShape, MountsKept

LEMMA SlotKept == ASSUME BindingInv PROVE Emptied(slot)
PROOF BY DEF BindingInv, BindingShape, Emptied

LEMMA WithoutEmpties == ASSUME BindingInv, NEW key PROVE Emptied(Without(key))
PROOF BY DEF BindingInv, BindingShape, Emptied, Without

LEMMA OpenCall ==
  ASSUME BindingInv, NEW c \in BindingCalls
  PROVE  /\ IsBindingCall(call[c]) /\ call[c].effects \in {0, 1}
         /\ Open(c) => call[c].key \in BindingKeys /\ call[c].effects = 0 /\ (mutation.kind \in MutationKinds => call[c].hit)
PROOF BY DEF BindingInv, BindingShape, BindingPlaced, Open

LEMMA EndKeepsInv ==
  ASSUME BindingInv, NEW c \in BindingCalls, call[c].pc # "waiting", MountsKept,
         NEW r, IsBindingCall(r), r.effects \in {0, 1}, NEW pc \in Ends, End(c, r, pc),
         Emptied(slot'), UNCHANGED <<resolution, mutation>>
  PROVE  BindingInv'
PROOF
<1> DEFINE s == [IdleCall EXCEPT !.pc = pc, !.key = r.key, !.hit = r.hit, !.effects = r.effects]
<1>1. Steady(s) /\ s.pc # "waiting" BY EndIsSteady
<1>2. call' = [call EXCEPT ![c] = s] BY DEF End
<1> HIDE DEF s
<1> QED BY <1>1, <1>2, CallMoves

LEMMA StartCallKeepsInv ==
  ASSUME BindingInv, NEW c \in BindingCalls, NEW key \in BindingKeys, StartCall(c, key)
  PROVE  BindingInv'
PROOF
<1> DEFINE r == [IdleCall EXCEPT !.key = key, !.plan = Repairs(key), !.hit = mutation.kind \in MutationKinds,
                               !.born = world[Home(key)].gen]
<1>1. call[c].pc # "waiting" /\ Ask(c, r, "resolve", slot) /\ UNCHANGED mutation BY DEF StartCall
<1>2. Asks(r, "resolve")
  <2> DEFINE hit == mutation.kind \in MutationKinds
  <2>1. hit \in BOOLEAN OBVIOUS
  <2> HIDE DEF hit
  <2>2. ASSUME NEW plan, NEW born
        PROVE  LET x == [IdleCall EXCEPT !.key = key, !.plan = plan, !.hit = hit, !.born = born]
               IN  IsBindingCall(x) /\ x.key = key /\ x.effects = 0 /\ x.hit = hit
    BY <2>1 DEF IdleCall, IsBindingCall, IsContainerRow, NoRow
  <2>3. IsBindingCall(r) /\ r.key = key /\ r.effects = 0 /\ r.hit = hit BY <2>2 DEF hit
  <2> HIDE DEF r
  <2> QED BY <2>3 DEF Asks, hit
<1>3. MountsKept /\ Emptied(slot) BY WorldKept, SlotKept DEF StartCall
<1> HIDE DEF r
<1> QED BY <1>1, <1>2, <1>3, AskKeepsInv

LEMMA NotReadyKeepsInv ==
  ASSUME BindingInv, NEW c \in BindingCalls, Open(c), call[c].pc # "waiting", MountsKept, NotReady(c), UNCHANGED mutation
  PROVE  BindingInv'
PROOF
<1>1. IsBindingCall(call[c]) /\ call[c].key \in BindingKeys /\ call[c].effects = 0 /\ (mutation.kind \in MutationKinds => call[c].hit)
  BY OpenCall
<1>2. CASE call[c].plan = <<>>
  <2>1. End(c, call[c], "failed") /\ UNCHANGED <<resolution, slot>> BY <1>2 DEF NotReady
  <2>2. Emptied(slot') BY <2>1, SlotKept
  <2> QED BY <2>1, <2>2, <1>1, EndKeepsInv DEF Ends
<1>3. CASE call[c].plan # <<>> /\ Head(call[c].plan) = "recover"
  <2> DEFINE s == [call[c] EXCEPT !.pc = "recover"]
  <2>1. call' = [call EXCEPT ![c] = s] /\ UNCHANGED resolution
        /\ slot' = IF call[c].key = "session" THEN slot ELSE Without(call[c].key)
    BY <1>3 DEF NotReady
  <2>2. Emptied(slot') BY <2>1, SlotKept, WithoutEmpties
  <2>3. Steady(s) /\ s.pc # "waiting" BY <1>1 DEF Steady, IsBindingCall, Ends
  <2> HIDE DEF s
  <2> QED BY <2>1, <2>2, <2>3, CallMoves
<1>4. CASE call[c].plan # <<>> /\ Head(call[c].plan) # "recover"
  <2> DEFINE r == [call[c] EXCEPT !.plan = Left(@), !.fresh = FALSE]
  <2>1. Ask(c, r, "resolve", Without(call[c].key)) BY <1>4 DEF NotReady
  <2>2. Asks(r, "resolve") BY <1>1 DEF Asks, IsBindingCall
  <2>3. Emptied(Without(call[c].key)) BY WithoutEmpties
  <2> HIDE DEF r
  <2> QED BY <2>1, <2>2, <2>3, AskKeepsInv
<1> QED BY <1>2, <1>3, <1>4

LEMMA RefreshKeepsInv ==
  ASSUME BindingInv, NEW c \in BindingCalls, call[c].pc \in {"ping", "use"}, MountsKept,
         NEW why, Refresh(c, why), UNCHANGED mutation
  PROVE  BindingInv'
PROOF
<1> DEFINE r == [call[c] EXCEPT !.fresh = TRUE]
<1>1. Open(c) BY DEF Open, Ends
<1>2. IsBindingCall(call[c]) /\ call[c].key \in BindingKeys /\ call[c].effects = 0 /\ (mutation.kind \in MutationKinds => call[c].hit)
  BY <1>1, OpenCall
<1>3. Asks(r, why)
  <2>1. /\ IsBindingCall(r) /\ r.key = call[c].key /\ r.effects = call[c].effects /\ r.hit = call[c].hit /\ r.row = call[c].row
    BY <1>2 DEF IsBindingCall
  <2> HIDE DEF r
  <2> QED BY <2>1, <1>1, <1>2 DEF Asks, BindingInv, Informed, RowCurrent
<1>4. Ask(c, r, why, Without(call[c].key)) /\ Emptied(Without(call[c].key)) BY WithoutEmpties DEF Refresh
<1> HIDE DEF r
<1> QED BY <1>3, <1>4, AskKeepsInv

LEMMA ResumeKeepsInv ==
  ASSUME BindingInv, NEW c \in BindingCalls, Resume(c) PROVE BindingInv'
PROOF
<1> DEFINE r == [call[c] EXCEPT !.got = "none"]
<1>1. call[c].pc = "resumed" /\ Open(c) /\ MountsKept /\ UNCHANGED mutation BY WorldKept DEF Resume, Open, Ends
<1>2. IsBindingCall(call[c]) /\ call[c].key \in BindingKeys /\ call[c].effects = 0 /\ (mutation.kind \in MutationKinds => call[c].hit)
  BY <1>1, OpenCall
<1>3. CASE call[c].got = "kept"
  <2> DEFINE s == [r EXCEPT !.pc = IF r.why = "reauth" THEN "use" ELSE "ping"]
  <2>1. call' = [call EXCEPT ![c] = s] /\ UNCHANGED <<resolution, slot>> BY <1>3 DEF Resume
  <2>2. /\ IsBindingCall(s) /\ s.pc \in {"ping", "use"} /\ s.key = call[c].key /\ s.effects = call[c].effects
        /\ s.hit = call[c].hit /\ s.row = call[c].row
    BY <1>2 DEF IsBindingCall
  <2> HIDE DEF s
  <2>3. Steady(s) BY <2>2, <1>1, <1>2, <1>3 DEF Steady, BindingInv, Informed, RowCurrent
  <2>4. Emptied(slot') BY <2>1, SlotKept
  <2> QED BY <2>1, <2>2, <2>3, <2>4, <1>1, CallMoves
<1>4. CASE call[c].got # "kept" /\ r.why = "refresh"
  <2>1. NotReady(c) BY <1>4 DEF Resume
  <2> QED BY <2>1, <1>1, NotReadyKeepsInv
<1>5. CASE call[c].got # "kept" /\ r.why # "refresh"
  <2> DEFINE pc == IF call[c].got = "absent" THEN "missing" ELSE "failed"
  <2>1. End(c, r, pc) /\ UNCHANGED <<resolution, slot>> BY <1>5 DEF Resume
  <2>2. IsBindingCall(r) /\ r.effects \in {0, 1} /\ pc \in Ends BY <1>2 DEF IsBindingCall, Ends
  <2>3. Emptied(slot') BY <2>1, SlotKept
  <2> HIDE DEF r, pc
  <2> QED BY <2>1, <2>2, <2>3, <1>1, EndKeepsInv
<1> QED BY <1>3, <1>4, <1>5

LEMMA PingKeepsInv ==
  ASSUME BindingInv, NEW c \in BindingCalls, Ping(c) PROVE BindingInv'
PROOF
<1> DEFINE reached == Reach(call[c].row, Home(call[c].key))
<1>1. call[c].pc = "ping" /\ Open(c) /\ MountsKept /\ UNCHANGED mutation BY WorldKept DEF Ping, Open, Ends
<1>2. IsBindingCall(call[c]) /\ call[c].key \in BindingKeys /\ call[c].effects = 0 /\ (mutation.kind \in MutationKinds => call[c].hit)
  BY <1>1, OpenCall
<1>3. CASE reached = "accepted"
  <2> DEFINE s == [call[c] EXCEPT !.pc = "use", !.fresh = FALSE]
  <2>1. call' = [call EXCEPT ![c] = s] /\ UNCHANGED <<resolution, slot>>
    BY <1>3, <1>2, ZenonT(40) DEF Ping, IsBindingCall, BindingInv, BindingShape
  <2>2. /\ IsBindingCall(s) /\ s.pc = "use" /\ s.key = call[c].key /\ s.effects = call[c].effects
        /\ s.hit = call[c].hit /\ s.row = call[c].row
    BY <1>2 DEF IsBindingCall
  <2> HIDE DEF s
  <2>3. Steady(s) BY <2>2, <1>1, <1>2 DEF Steady, BindingInv, Informed, RowCurrent
  <2>4. Emptied(slot') BY <2>1, SlotKept
  <2> QED BY <2>1, <2>2, <2>3, <2>4, <1>1, CallMoves
<1>4. CASE reached = "rejected" /\ ~call[c].fresh
  <2>1. Refresh(c, "refresh") BY <1>4 DEF Ping
  <2> QED BY <2>1, <1>1, RefreshKeepsInv
<1>5. CASE reached # "accepted" /\ ~(reached = "rejected" /\ ~call[c].fresh)
  <2>1. NotReady(c) BY <1>5 DEF Ping
  <2> QED BY <2>1, <1>1, NotReadyKeepsInv
<1> QED BY <1>3, <1>4, <1>5

LEMMA RecoverKeepsInv ==
  ASSUME BindingInv, NEW c \in BindingCalls, Recover(c) PROVE BindingInv'
PROOF
<1> DEFINE rest == [call[c] EXCEPT !.plan = Left(@), !.fresh = FALSE]
           h == Home(rest.key)
           kept == IF rest.key = "session" THEN Without("session") ELSE slot
           none == [key \in BindingKeys |-> IF key = "named" THEN Empty ELSE kept[key]]
           own == [rest EXCEPT !.born = world[h].gen + 1]
<1>1. call[c].pc = "recover" /\ Open(c) /\ UNCHANGED mutation BY DEF Recover, Open, Ends
<1>2. IsBindingCall(call[c]) /\ call[c].key \in BindingKeys /\ call[c].effects = 0 /\ (mutation.kind \in MutationKinds => call[c].hit)
  BY <1>1, OpenCall
<1>3. IsBindingCall(rest) /\ rest.key = call[c].key /\ rest.effects = 0 /\ rest.hit = call[c].hit
  BY <1>2 DEF IsBindingCall
<1>4. Emptied(kept) BY SlotKept, WithoutEmpties
<1>5. Emptied(none) BY <1>4 DEF Emptied
<1>6. CASE /\ world[h].health # "absent" /\ world[h].gen < MaxGeneration
           /\ world' = [world EXCEPT ![h].gen = @ + 1, ![h].health = "up"]
           /\ Ask(c, own, "resolve", none)
  <2>1. MountsKept
    <3> DEFINE w == [world[h] EXCEPT !.gen = @ + 1, !.health = "up"]
    <3>1. h \in Homes BY <1>2, <1>3, KeysHaveHomes
    <3>2. IsContainer(world[h]) BY <3>1 DEF BindingInv, BindingShape
    <3>3. IsContainer(w) /\ w.mounts = world[h].mounts BY <3>2 DEF IsContainer
    <3>4. world' = [world EXCEPT ![h] = w]
      <4>1. world' = [world EXCEPT ![h].gen = @ + 1, ![h].health = "up"] BY <1>6
      <4> HIDE DEF h
      <4> QED BY <4>1, <3>1 DEF BindingInv, BindingShape
    <3> HIDE DEF w, h
    <3> QED BY <3>1, <3>3, <3>4 DEF MountsKept, BindingInv, BindingShape
  <2>2. IsBindingCall(own) /\ own.key = rest.key /\ own.effects = 0 /\ own.hit = rest.hit
    <3> HIDE DEF rest, h
    <3> QED BY <1>3 DEF IsBindingCall
  <2>3. Ask(c, own, "resolve", none) BY <1>6
  <2> HIDE DEF own, none
  <2>4. Asks(own, "resolve")
    <3> HIDE DEF rest
    <3> QED BY <2>2, <1>2, <1>3 DEF Asks
  <2> QED BY <2>1, <2>3, <2>4, <1>1, <1>5, AskKeepsInv
<1>7. CASE /\ Ask(c, [rest EXCEPT !.hit = TRUE], "resolve", kept) /\ UNCHANGED world
  <2> DEFINE r == [rest EXCEPT !.hit = TRUE]
  <2>1. MountsKept BY <1>7, WorldKept
  <2>2. IsBindingCall(r) /\ r.key = rest.key /\ r.effects = 0 /\ r.hit
    <3> HIDE DEF rest
    <3> QED BY <1>3 DEF IsBindingCall
  <2>3. Ask(c, r, "resolve", kept) BY <1>7
  <2>4. r.key = call[c].key BY <2>2, <1>3
  <2> HIDE DEF r, kept
  <2>5. Asks(r, "resolve") BY <2>2, <2>4, <1>2 DEF Asks
  <2> QED BY <2>1, <2>3, <2>5, <1>1, <1>4, AskKeepsInv
<1> QED BY <1>6, <1>7 DEF Recover

LEMMA UseKeepsInv ==
  ASSUME BindingInv, NEW c \in BindingCalls, Use(c) PROVE BindingInv'
PROOF
<1> DEFINE reached == Reach(call[c].row, Home(call[c].key))
           r == [call[c] EXCEPT !.effects = @ + 1]
           l == [call[c] EXCEPT !.effects = @ + 1, !.hit = TRUE]
<1>1. call[c].pc = "use" /\ Open(c) /\ MountsKept /\ UNCHANGED mutation BY WorldKept DEF Use, Open, Ends
<1>2. IsBindingCall(call[c]) /\ call[c].effects = 0
  BY <1>1, OpenCall
<1>3. IsBindingCall(r) /\ r.effects = 1 /\ IsBindingCall(l) /\ l.effects = 1
  <2>1. call[c].effects + 1 = 1 BY <1>2
  <2>2. IsBindingCall(r) /\ r.effects = call[c].effects + 1 BY <1>2 DEF IsBindingCall
  <2>3. IsBindingCall(l) /\ l.effects = call[c].effects + 1 BY <1>2 DEF IsBindingCall
  <2> QED BY <2>1, <2>2, <2>3
<1>4. CASE End(c, r, "done") /\ UNCHANGED <<resolution, slot>>
  <2>1. End(c, r, "done") /\ Emptied(slot') /\ UNCHANGED resolution BY <1>4, SlotKept
  <2> HIDE DEF r
  <2> QED BY <2>1, <1>1, <1>3, EndKeepsInv DEF Ends
<1>5. CASE LostReply(c, l)
  <2>1. End(c, l, "failed") /\ Emptied(slot') /\ UNCHANGED resolution BY <1>5, SlotKept DEF LostReply
  <2> HIDE DEF l
  <2> QED BY <2>1, <1>1, <1>3, EndKeepsInv DEF Ends
<1>6. CASE Refresh(c, "reauth")
  BY <1>6, <1>1, RefreshKeepsInv
<1>7. CASE End(c, call[c], "failed") /\ UNCHANGED <<resolution, slot>>
  <2>1. Emptied(slot') BY <1>7, SlotKept
  <2> QED BY <2>1, <1>7, <1>1, <1>2, EndKeepsInv DEF Ends
<1> QED BY <1>4, <1>5, <1>6, <1>7 DEF Use

-----------------------------------------------------------------------------
(* The steps of a promise. *)

LEMMA AnswerKeepsInv ==
  ASSUME BindingInv, NEW c \in BindingCalls, Answer(c) PROVE BindingInv'
PROOF
<1> DEFINE p == resolution[c]
           h == Home(p.key)
           one == [world[h] EXCEPT !.gen = @ + 1, !.health = "up"]
<1>1. p.at = "asked" /\ UNCHANGED <<slot, call, mutation>> BY DEF Answer
<1>2. /\ IsPromise(p) /\ call[c].key = p.key /\ p.key \in BindingKeys /\ h \in Homes /\ IsContainer(world[h])
  <2>1. PromiseSound(c) /\ BindingPlaced(c) /\ IsPromise(p) BY DEF BindingInv, BindingShape
  <2>2. call[c].key = p.key /\ p.key \in BindingKeys BY <2>1, <1>1 DEF PromiseSound, BindingPlaced, Open, Ends
  <2>3. h \in Homes BY <2>2, KeysHaveHomes
  <2> QED BY <2>1, <2>2, <2>3 DEF BindingInv, BindingShape
<1>3. /\ MountsKept
      /\ \E q : /\ resolution' = [resolution EXCEPT ![c] = q]
              /\ IsPromise(q) /\ q.at \in {"kept", "absent"} /\ q.key = p.key /\ q.row.mounts = world[h].mounts
  <2>1. CASE /\ world' = [world EXCEPT ![h].gen = @ + 1, ![h].health = "up"]
             /\ resolution' = [resolution EXCEPT ![c].at = "kept", ![c].row = [RowOf(h) EXCEPT !.gen = @ + 1]]
    <3> DEFINE row == [RowOf(h) EXCEPT !.gen = @ + 1]
               q == [p EXCEPT !.at = "kept", !.row = row]
    <3>1. IsContainer(one) /\ one.mounts = world[h].mounts BY <1>2 DEF IsContainer
    <3>2. world' = [world EXCEPT ![h] = one]
      <4> HIDE DEF h
      <4> QED BY <2>1, <1>2 DEF BindingInv, BindingShape
    <3>3. MountsKept
      <4> HIDE DEF one, h
      <4> QED BY <3>1, <3>2, <1>2 DEF MountsKept, BindingInv, BindingShape
    <3>4. IsContainerRow(row) /\ row.mounts = world[h].mounts BY DEF IsContainerRow, RowOf
    <3>5. resolution' = [resolution EXCEPT ![c].at = "kept", ![c].row = row] BY <2>1
    <3> HIDE DEF row
    <3>6. resolution' = [resolution EXCEPT ![c] = q] BY <3>5 DEF BindingInv, BindingShape
    <3>7. IsPromise(q) /\ q.at = "kept" /\ q.key = p.key /\ q.row = row BY <1>2, <3>4 DEF IsPromise
    <3> HIDE DEF q
    <3> QED BY <3>3, <3>4, <3>6, <3>7
  <2>2. CASE /\ resolution' = [resolution EXCEPT
                   ![c].at = IF world[h].health = "absent" THEN "absent" ELSE "kept", ![c].row = RowOf(h)]
             /\ UNCHANGED world
    <3> DEFINE row == RowOf(h)
               at == IF world[h].health = "absent" THEN "absent" ELSE "kept"
               q == [p EXCEPT !.at = at, !.row = row]
    <3>1. MountsKept BY <2>2, WorldKept
    <3>2. IsContainerRow(row) /\ row.mounts = world[h].mounts BY DEF IsContainerRow, RowOf
    <3>3. at \in {"kept", "absent"} /\ resolution' = [resolution EXCEPT ![c].at = at, ![c].row = row] BY <2>2
    <3> HIDE DEF row, at
    <3>4. resolution' = [resolution EXCEPT ![c] = q] BY <3>3 DEF BindingInv, BindingShape
    <3>5. IsPromise(q) /\ q.at = at /\ q.key = p.key /\ q.row = row BY <1>2, <3>2 DEF IsPromise
    <3> HIDE DEF q
    <3> QED BY <3>1, <3>2, <3>3, <3>4, <3>5
  <2> QED BY <2>1, <2>2 DEF Answer
<1>4. PICK q : /\ resolution' = [resolution EXCEPT ![c] = q]
               /\ IsPromise(q) /\ q.at \in {"kept", "absent"} /\ q.key = p.key /\ q.row.mounts = world[h].mounts
  BY <1>3
<1>5. /\ DOMAIN resolution' = BindingCalls /\ resolution' = [d \in DOMAIN resolution' |-> resolution'[d]]
      /\ resolution'[c] = q /\ \A d \in BindingCalls : d # c => resolution'[d] = resolution[d]
  BY <1>4 DEF BindingInv, BindingShape
<1>6. BindingShape'
  <2>1. \A d \in BindingCalls : IsPromise(resolution'[d]) BY <1>4, <1>5 DEF BindingInv, BindingShape
  <2> QED BY <2>1, <1>1, <1>3, <1>5 DEF BindingInv, BindingShape, MountsKept
<1>7. \A k \in BindingKeys : Home(k) \in Homes /\ world'[Home(k)].mounts = world[Home(k)].mounts
  BY <1>3, KeysHaveHomes DEF MountsKept
<1>8. ASSUME NEW d \in BindingCalls PROVE PromiseSound(d)' /\ BindingPlaced(d)' /\ Informed(d)'
  <2>1. PromiseSound(d) /\ BindingPlaced(d) /\ Informed(d) BY DEF BindingInv
  <2>2. PromiseSound(d)' BY <2>1, <1>1, <1>2, <1>4, <1>5 DEF PromiseSound
  <2>3. BindingPlaced(d)' BY <2>1, <1>1, <1>2, <1>4, <1>5 DEF BindingPlaced, Open
  <2>4. Informed(d)' BY <2>1, <1>1, <1>2, <1>4, <1>5, <1>7 DEF Informed, BindingPlaced, Open, RowCurrent
  <2> QED BY <2>2, <2>3, <2>4
<1>9. ASSUME NEW k \in BindingKeys PROVE EntrySound(k)'
  <2>1. EntrySound(k) BY DEF BindingInv
  <2> QED BY <2>1, <1>1, <1>2, <1>4, <1>5, <1>7 DEF EntrySound, StaleRow, RowCurrent
<1> QED BY <1>6, <1>8, <1>9 DEF BindingInv

\* The calls of now, some of them disturbed.
Hurt(calls) ==
  \A d \in BindingCalls :
    /\ IsBindingCall(calls[d]) /\ (call[d].hit => calls[d].hit)
    /\ \A f \in {"pc", "key", "plan", "wait", "got", "why", "row", "fresh", "born", "effects"} : calls[d][f] = call[d][f]

LEMMA DisturbedHurts ==
  ASSUME BindingInv
  PROVE  Hurt(call) /\ Hurt(Disturbed(call)) /\ \A d \in BindingCalls : Open(d) => Disturbed(call)[d].hit
PROOF
<1>1. \A d \in BindingCalls : IsBindingCall(call[d]) BY DEF BindingInv, BindingShape
<1>2. ASSUME NEW d \in BindingCalls
      PROVE  LET r == [call[d] EXCEPT !.hit = TRUE]
             IN  /\ IsBindingCall(r) /\ r.hit
                 /\ \A f \in {"pc", "key", "plan", "wait", "got", "why", "row", "fresh", "born", "effects"} : r[f] = call[d][f]
  BY <1>1 DEF IsBindingCall
<1> QED BY <1>1, <1>2 DEF Hurt, Disturbed

LEMMA DeliverKeepsInv ==
  ASSUME BindingInv, NEW c \in BindingCalls, resolution[c].at # "none",
         NEW outcome, outcome \notin {"none", "pending"}, outcome = "kept" => resolution[c].at = "kept",
         NEW calls, Hurt(calls), Deliver(c, outcome, calls), UNCHANGED <<world, mutation>>
  PROVE  BindingInv'
PROOF
<1> DEFINE p == resolution[c]
           cached == slot[p.key].at = "pending" /\ slot[p.key].of = c
           awaits(d) == call[d].pc = "waiting" /\ call[d].wait = c
           mounts(d) == IF calls[d].row.gen # Closed /\ calls[d].why # "resolve" THEN calls[d].row.mounts ELSE p.row.mounts
           row(d) == [gen |-> p.row.gen, mounts |-> mounts(d)]
           back(d) == [calls[d] EXCEPT !.pc = "resumed", !.wait = Nobody, !.got = outcome, !.row = row(d)]
           e == [at |-> outcome, of |-> Nobody, row |-> p.row]
<1>1. /\ IsPromise(p) /\ p.key = call[c].key /\ p.key \in BindingKeys
  <2>1. PromiseSound(c) /\ BindingPlaced(c) /\ IsPromise(p) BY DEF BindingInv, BindingShape
  <2> QED BY <2>1 DEF PromiseSound, BindingPlaced, Open, Ends
<1>2. call' = [d \in BindingCalls |-> IF awaits(d) THEN back(d) ELSE calls[d]]
  BY DEF Deliver
<1>3. ASSUME NEW d \in BindingCalls
      PROVE  /\ call'[d] = IF awaits(d) THEN back(d) ELSE calls[d]
             /\ IsBindingCall(back(d)) /\ back(d).pc = "resumed" /\ back(d).got = outcome /\ back(d).row.mounts = mounts(d)
             /\ back(d).key = call[d].key /\ back(d).effects = call[d].effects /\ back(d).hit = calls[d].hit
             /\ back(d).why = call[d].why
  <2>1. IsBindingCall(calls[d]) /\ calls[d].key = call[d].key /\ calls[d].effects = call[d].effects /\ calls[d].why = call[d].why
    BY DEF Hurt
  <2>2. IsContainerRow(row(d)) /\ row(d).mounts = mounts(d) BY DEF IsContainerRow
  <2>3. call'[d] = IF awaits(d) THEN back(d) ELSE calls[d] BY <1>2
  <2> HIDE DEF row
  <2>4. IsBindingCall(back(d)) /\ back(d).pc = "resumed" /\ back(d).got = outcome /\ back(d).row = row(d)
        /\ back(d).key = calls[d].key /\ back(d).effects = calls[d].effects /\ back(d).hit = calls[d].hit
        /\ back(d).why = calls[d].why
    BY <2>1, <2>2 DEF IsBindingCall
  <2> HIDE DEF back
  <2> QED BY <2>1, <2>2, <2>3, <2>4
<1> HIDE DEF back
<1>4. /\ slot' = IF ~cached THEN slot
                ELSE IF outcome # "kept" /\ p.tidy THEN Without(p.key)
                ELSE [slot EXCEPT ![p.key] = e]
      /\ resolution' = [resolution EXCEPT ![c] = Settled]
  BY DEF Deliver
<1>5. /\ DOMAIN resolution' = BindingCalls /\ resolution' = [d \in DOMAIN resolution' |-> resolution'[d]]
      /\ resolution'[c].at = "none" /\ IsPromise(resolution'[c])
      /\ \A d \in BindingCalls : d # c => resolution'[d] = resolution[d]
  <2>1. IsPromise(Settled) /\ Settled.at = "none" BY DEF IsPromise, IsContainerRow, Settled, NoRow
  <2> QED BY <2>1, <1>4 DEF BindingInv, BindingShape
<1>6. /\ DOMAIN slot' = BindingKeys /\ slot' = [k \in DOMAIN slot' |-> slot'[k]]
      /\ \A k \in BindingKeys : k # p.key \/ ~cached => slot'[k] = slot[k]
      /\ cached => slot'[p.key] = Empty \/ slot'[p.key] = e
  BY <1>1, <1>4 DEF Without, BindingInv, BindingShape
<1>7. BindingShape'
  <2>1. IsEntry(e) BY <1>1 DEF IsEntry, IsPromise
  <2>2. ASSUME NEW k \in BindingKeys PROVE IsEntry(slot'[k])
    BY <2>1, <1>6, EmptyIsEntry DEF BindingInv, BindingShape
  <2>3. ASSUME NEW d \in BindingCalls PROVE IsPromise(resolution'[d]) BY <1>5 DEF BindingInv, BindingShape
  <2>4. ASSUME NEW d \in BindingCalls PROVE IsBindingCall(call'[d]) BY <1>3 DEF Hurt
  <2>5. DOMAIN call' = BindingCalls /\ call' = [d \in DOMAIN call' |-> call'[d]] BY <1>2
  <2> QED BY <2>2, <2>3, <2>4, <2>5, <1>5, <1>6 DEF BindingInv, BindingShape
<1>8. ASSUME NEW d \in BindingCalls PROVE PromiseSound(d)' /\ BindingPlaced(d)' /\ Informed(d)'
  <2>1. PromiseSound(d) /\ BindingPlaced(d) /\ Informed(d) BY DEF BindingInv
  <2>2. /\ calls[d].pc = call[d].pc /\ calls[d].key = call[d].key /\ calls[d].wait = call[d].wait /\ calls[d].got = call[d].got
        /\ calls[d].why = call[d].why /\ calls[d].row = call[d].row /\ calls[d].effects = call[d].effects
        /\ (call[d].hit => calls[d].hit)
    BY DEF Hurt
  <2>3. CASE awaits(d)
    <3>1. call'[d] = back(d) BY <2>3, <1>3
    <3>2. PromiseSound(d)' BY <2>3, <2>1, <1>5 DEF PromiseSound
    <3>3. BindingPlaced(d)' BY <3>1, <2>1, <2>2, <2>3, <1>3 DEF BindingPlaced, Open, Ends
    <3>4. Open(d) BY <2>3 DEF Open, Ends
    <3>5. ~back(d).hit => ~call[d].hit BY <1>3, <2>2
    <3>6. outcome = "kept" /\ ~call[d].hit /\ call[d].key # "session" /\ Home(call[d].key) \notin mutation.lost
          => mounts(d) = world[Home(call[d].key)].mounts
      BY <3>4, <2>1, <2>2, <2>3 DEF Informed, RowCurrent
    <3> HIDE DEF mounts
    <3>7. Informed(d)' BY <3>1, <3>4, <3>5, <3>6, <1>3 DEF Informed, RowCurrent
    <3> QED BY <3>2, <3>3, <3>7
  <2>4. CASE ~awaits(d)
    <3>1. call'[d] = calls[d] BY <2>4, <1>3
    <3>2. PromiseSound(d)' BY <3>1, <2>1, <2>2, <2>4, <1>5 DEF PromiseSound
    <3>3. BindingPlaced(d)' BY <3>1, <2>1, <2>2, <2>4, <1>5 DEF BindingPlaced, Open
    <3>4. Informed(d)' BY <3>1, <2>1, <2>2, <2>4, <1>5 DEF Informed, BindingPlaced, Open, RowCurrent
    <3> QED BY <3>2, <3>3, <3>4
  <2> QED BY <2>3, <2>4
<1>9. ASSUME NEW k \in BindingKeys PROVE EntrySound(k)'
  <2>1. EntrySound(k) BY DEF BindingInv
  <2>2. CASE k # p.key \/ ~cached
    <3>1. slot'[k] = slot[k] BY <2>2, <1>6
    <3>2. slot[k].at = "pending" => slot[k].of # c BY <2>1, <2>2 DEF EntrySound
    <3> QED BY <2>1, <3>1, <3>2, <1>5 DEF EntrySound, StaleRow, RowCurrent
  <2>3. CASE k = p.key /\ cached
    <3>1. CASE slot'[k] = Empty BY <3>1, EmptyIsEntry DEF EntrySound
    <3>2. CASE slot'[k] = e
      <4>1. e.at = outcome /\ e.row = p.row OBVIOUS
      <4>2. k # "session" /\ ~StaleRow(Home(k)) /\ p.at = "kept" => RowCurrent(p.row, k) BY <2>1, <2>3 DEF EntrySound
      <4> HIDE DEF e
      <4> QED BY <3>2, <4>1, <4>2 DEF EntrySound, StaleRow, RowCurrent
    <3> QED BY <2>3, <3>1, <3>2, <1>6
  <2> QED BY <2>2, <2>3
<1> QED BY <1>7, <1>8, <1>9 DEF BindingInv

LEMMA SettleKeepsInv ==
  ASSUME BindingInv, NEW c \in BindingCalls, Settle(c) PROVE BindingInv'
PROOF
<1>1. Hurt(call) BY DisturbedHurts
<1>2. /\ resolution[c].at \in {"kept", "absent"} /\ Deliver(c, resolution[c].at, call)
      /\ UNCHANGED <<world, mutation>>
  BY DEF Settle
<1> QED BY <1>1, <1>2, DeliverKeepsInv

LEMMA ResolutionFailsKeepsInv ==
  ASSUME BindingInv, NEW c \in BindingCalls, ResolutionFails(c) PROVE BindingInv'
PROOF
<1> DEFINE calls == Disturbed(call)
<1>1. Hurt(calls) BY DisturbedHurts
<1>2. /\ resolution[c].at # "none" /\ Deliver(c, "failed", calls) /\ UNCHANGED <<world, mutation>>
  BY DEF ResolutionFails
<1> HIDE DEF calls
<1> QED BY <1>1, <1>2, DeliverKeepsInv

-----------------------------------------------------------------------------
(* Control calls, outages, disposals: every call under way is disturbed.   *)

\* The calls of now, with other rows at most, and all that run disturbed.
AllHurt ==
  /\ DOMAIN call' = BindingCalls /\ call' = [d \in DOMAIN call' |-> call'[d]]
  /\ \A d \in BindingCalls :
       /\ IsBindingCall(call'[d]) /\ (Open(d) => call'[d].hit)
       /\ \A f \in {"pc", "key", "wait", "effects"} : call'[d][f] = call[d][f]

\* An entry is emptied, or is as old as it was.
AgesNot(k) ==
  \/ slot'[k] = Empty
  \/ /\ slot'[k] = slot[k]
     /\ k # "session" /\ ~StaleRow(Home(k))' => ~StaleRow(Home(k)) /\ world'[Home(k)].mounts = world[Home(k)].mounts

LEMMA DisturbanceKeepsInv ==
  ASSUME BindingInv, AllHurt, Emptied(slot'), \A k \in BindingKeys : AgesNot(k), UNCHANGED resolution,
         DOMAIN world' = Homes, world' = [h \in DOMAIN world' |-> world'[h]], \A h \in Homes : IsContainer(world'[h]),
         mutation' \in [home : {mutation'.home}, kind : {mutation'.kind}, lost : {mutation'.lost}]
  PROVE  BindingInv'
PROOF
<1>1. BindingShape'
  <2>1. \A k \in BindingKeys : IsEntry(slot'[k]) BY EmptyIsEntry DEF Emptied, BindingInv, BindingShape
  <2> QED BY <2>1 DEF BindingInv, BindingShape, Emptied, AllHurt
<1>2. ASSUME NEW d \in BindingCalls PROVE PromiseSound(d)' /\ BindingPlaced(d)' /\ Informed(d)'
  <2>1. /\ call'[d].pc = call[d].pc /\ call'[d].key = call[d].key /\ call'[d].wait = call[d].wait
        /\ call'[d].effects = call[d].effects /\ (Open(d) => call'[d].hit)
    BY DEF AllHurt
  <2>2. PromiseSound(d) /\ BindingPlaced(d) BY DEF BindingInv
  <2> QED BY <2>1, <2>2 DEF PromiseSound, BindingPlaced, Informed, Open
<1>3. ASSUME NEW k \in BindingKeys PROVE EntrySound(k)'
  <2>1. EntrySound(k) /\ AgesNot(k) BY DEF BindingInv
  <2>2. CASE slot'[k] = Empty BY <2>2, EmptyIsEntry DEF EntrySound
  <2>3. CASE /\ slot'[k] = slot[k]
             /\ k # "session" /\ ~StaleRow(Home(k))' => ~StaleRow(Home(k)) /\ world'[Home(k)].mounts = world[Home(k)].mounts
    BY <2>1, <2>3 DEF EntrySound, RowCurrent
  <2> QED BY <2>1, <2>2, <2>3 DEF AgesNot
<1> QED BY <1>1, <1>2, <1>3 DEF BindingInv

LEMMA DisturbedIsAllHurt ==
  ASSUME BindingInv, call' = Disturbed(call) PROVE AllHurt
PROOF
<1>1. \A d \in BindingCalls :
        /\ IsBindingCall(call'[d]) /\ (Open(d) => call'[d].hit)
        /\ \A f \in {"pc", "key", "wait", "effects"} : call'[d][f] = call[d][f]
  BY DisturbedHurts DEF Hurt
<1>2. DOMAIN call' = BindingCalls /\ call' = [d \in DOMAIN call' |-> call'[d]] BY DEF Disturbed
<1> QED BY <1>1, <1>2 DEF AllHurt

LEMMA MutateKeepsInv ==
  ASSUME BindingInv, NEW h \in Homes, NEW kind \in MutationKinds, Mutate(h, kind) PROVE BindingInv'
PROOF
<1> DEFINE w == IF kind = "remove" THEN [world[h] EXCEPT !.health = "absent"]
                ELSE [gen |-> world[h].gen + 1, mounts |-> world[h].mounts + (IF kind = "mounts" THEN 1 ELSE 0), health |-> "up"]
<1>1. AllHurt /\ Emptied(slot') /\ UNCHANGED <<resolution, slot>> BY DisturbedIsAllHurt, SlotKept DEF Mutate
<1>2. world' = [world EXCEPT ![h] = w] BY DEF Mutate
<1>3. IsContainer(w)
  <2>1. IsContainer(world[h]) BY DEF BindingInv, BindingShape
  <2> QED BY <2>1 DEF IsContainer
<1>4. kind # "mounts" => w.mounts = world[h].mounts
  <2>1. IsContainer(world[h]) BY DEF BindingInv, BindingShape
  <2>2. CASE kind = "remove" BY <2>1, <2>2 DEF IsContainer
  <2>3. CASE kind = "recreate"
    <3>1. world[h].mounts \in Nat => world[h].mounts + 0 = world[h].mounts OBVIOUS
    <3> QED BY <2>1, <2>3, <3>1 DEF IsContainer
  <2> QED BY <2>2, <2>3 DEF MutationKinds
<1>5. /\ mutation.kind \notin MutationKinds
      /\ mutation' = [mutation EXCEPT !.home = h, !.kind = kind]
      /\ mutation \in [home : {mutation.home}, kind : {mutation.kind}, lost : {mutation.lost}]
  BY DEF Mutate, BindingInv, BindingShape
<1>6. mutation'.home = h /\ mutation'.kind = kind /\ mutation'.lost = mutation.lost
      /\ mutation' \in [home : {h}, kind : {kind}, lost : {mutation.lost}]
  BY <1>5
<1> HIDE DEF w
<1>7. /\ DOMAIN world' = Homes /\ world' = [g \in DOMAIN world' |-> world'[g]] /\ \A g \in Homes : IsContainer(world'[g])
      /\ world'[h] = w /\ \A g \in Homes : g # h => world'[g] = world[g]
  BY <1>2, <1>3 DEF BindingInv, BindingShape
<1>8. ASSUME NEW k \in BindingKeys PROVE AgesNot(k)
  <2>1. Home(k) \in Homes BY KeysHaveHomes
  <2> QED BY <2>1, <1>1, <1>4, <1>5, <1>6, <1>7 DEF AgesNot, StaleRow, MutationKinds
<1> QED BY <1>1, <1>6, <1>7, <1>8, DisturbanceKeepsInv

LEMMA RepliedKeepsInv ==
  ASSUME BindingInv, MutationReplied PROVE BindingInv'
PROOF
<1>1. AllHurt /\ UNCHANGED <<resolution, world>> BY DisturbedIsAllHurt DEF MutationReplied
<1>2. /\ mutation.kind \in MutationKinds
      /\ mutation' = [mutation EXCEPT !.kind = "none", !.lost = @ \ {mutation.home}]
      /\ mutation \in [home : {mutation.home}, kind : {mutation.kind}, lost : {mutation.lost}]
  BY DEF MutationReplied, BindingInv, BindingShape
<1>3. mutation'.kind = "none" /\ mutation'.lost = mutation.lost \ {mutation.home}
      /\ mutation' \in [home : {mutation.home}, kind : {"none"}, lost : {mutation.lost \ {mutation.home}}]
      /\ mutation'.home = mutation.home
  BY <1>2
<1>4. slot' = [key \in BindingKeys |-> IF key \in Forgotten(mutation.home) THEN Empty ELSE slot[key]]
  BY DEF MutationReplied
<1>5. Emptied(slot') BY <1>4 DEF Emptied
<1>6. ASSUME NEW k \in BindingKeys PROVE AgesNot(k)
  <2>1. CASE k \in Forgotten(mutation.home) BY <2>1, <1>4 DEF AgesNot
  <2>2. CASE k \notin Forgotten(mutation.home)
    <3>1. slot'[k] = slot[k] BY <2>2, <1>4
    <3>2. k # "session" => Home(k) # mutation.home BY <2>2 DEF Forgotten
    <3> QED BY <3>1, <3>2, <1>1, <1>3 DEF AgesNot, StaleRow
  <2> QED BY <2>1, <2>2
<1>7. DOMAIN world' = Homes /\ world' = [g \in DOMAIN world' |-> world'[g]] /\ \A g \in Homes : IsContainer(world'[g])
  BY <1>1 DEF BindingInv, BindingShape
<1> QED BY <1>1, <1>3, <1>5, <1>6, <1>7, DisturbanceKeepsInv

LEMMA LostKeepsInv ==
  ASSUME BindingInv, MutationLost PROVE BindingInv'
PROOF
<1> DEFINE lost == IF mutation.kind = "mounts" THEN mutation.lost \cup {mutation.home} ELSE mutation.lost
<1>1. AllHurt /\ Emptied(slot') /\ UNCHANGED <<resolution, world, slot>> BY DisturbedIsAllHurt, SlotKept DEF MutationLost
<1>2. /\ mutation' = [mutation EXCEPT !.kind = "none", !.lost = lost]
      /\ mutation \in [home : {mutation.home}, kind : {mutation.kind}, lost : {mutation.lost}]
  BY DEF MutationLost, BindingInv, BindingShape
<1>3. mutation'.kind = "none" /\ mutation'.lost = lost /\ mutation'.home = mutation.home
      /\ mutation' \in [home : {mutation.home}, kind : {"none"}, lost : {lost}]
  <2> HIDE DEF lost
  <2> QED BY <1>2
<1>4. ASSUME NEW k \in BindingKeys PROVE AgesNot(k)
  BY <1>1, <1>3 DEF AgesNot, StaleRow
<1>5. DOMAIN world' = Homes /\ world' = [g \in DOMAIN world' |-> world'[g]] /\ \A g \in Homes : IsContainer(world'[g])
  BY <1>1 DEF BindingInv, BindingShape
<1> HIDE DEF lost
<1> QED BY <1>1, <1>3, <1>4, <1>5, DisturbanceKeepsInv

LEMMA OutageKeepsInv ==
  ASSUME BindingInv, NEW h \in Homes, NEW health, Outage(h, health) PROVE BindingInv'
PROOF
<1> DEFINE w == [world[h] EXCEPT !.health = health]
<1>1. AllHurt /\ Emptied(slot') /\ UNCHANGED <<resolution, mutation, slot>> BY DisturbedIsAllHurt, SlotKept DEF Outage
<1>2. IsContainer(world[h]) BY DEF BindingInv, BindingShape
<1>3. IsContainer(w) /\ w.mounts = world[h].mounts BY <1>2 DEF IsContainer
<1>4. world' = [world EXCEPT ![h] = w] BY DEF Outage
<1> HIDE DEF w
<1>5. /\ DOMAIN world' = Homes /\ world' = [g \in DOMAIN world' |-> world'[g]] /\ \A g \in Homes : IsContainer(world'[g])
      /\ \A g \in Homes : world'[g].mounts = world[g].mounts
  BY <1>3, <1>4 DEF BindingInv, BindingShape
<1>6. ASSUME NEW k \in BindingKeys PROVE AgesNot(k)
  <2>1. Home(k) \in Homes BY KeysHaveHomes
  <2> QED BY <2>1, <1>1, <1>5 DEF AgesNot, StaleRow
<1>7. mutation' \in [home : {mutation'.home}, kind : {mutation'.kind}, lost : {mutation'.lost}]
  BY <1>1 DEF BindingInv, BindingShape
<1> QED BY <1>1, <1>5, <1>6, <1>7, DisturbanceKeepsInv

LEMMA DisposedIsAllHurt ==
  ASSUME BindingInv, DisposeBindings PROVE AllHurt /\ Emptied(slot') /\ UNCHANGED <<world, resolution, mutation>>
PROOF
<1> DEFINE calls == Disturbed(call)
           closed(d) == [calls[d] EXCEPT !.row = [calls[d].row EXCEPT !.gen = Closed]]
<1>1. UNCHANGED <<world, resolution, mutation>> /\ slot' = [key \in BindingKeys |-> Empty] BY DEF DisposeBindings
<1>2. Hurt(calls) /\ \A d \in BindingCalls : Open(d) => calls[d].hit BY DisturbedHurts
<1>3. call' = [d \in BindingCalls |-> [calls[d] EXCEPT !.row.gen = Closed]] BY DEF DisposeBindings
<1> HIDE DEF calls
<1>4. ASSUME NEW d \in BindingCalls
      PROVE  /\ IsBindingCall(call'[d]) /\ (Open(d) => call'[d].hit)
             /\ \A f \in {"pc", "key", "wait", "effects"} : call'[d][f] = call[d][f]
  <2>1. IsBindingCall(calls[d]) /\ \A f \in {"pc", "key", "wait", "effects"} : calls[d][f] = call[d][f] BY <1>2 DEF Hurt
  <2>2. call'[d] = closed(d) BY <1>3
  <2>3. IsContainerRow([calls[d].row EXCEPT !.gen = Closed]) BY <2>1 DEF IsBindingCall, IsContainerRow
  <2>4. IsBindingCall(closed(d)) /\ closed(d).hit = calls[d].hit
        /\ \A f \in {"pc", "key", "wait", "effects"} : closed(d)[f] = calls[d][f]
    BY <2>1, <2>3 DEF IsBindingCall
  <2> HIDE DEF closed
  <2> QED BY <2>1, <2>2, <2>4, <1>2
<1>5. AllHurt BY <1>3, <1>4 DEF AllHurt
<1>6. Emptied(slot') BY <1>1 DEF Emptied
<1> QED BY <1>1, <1>5, <1>6

LEMMA DisposeKeepsInv ==
  ASSUME BindingInv, DisposeBindings PROVE BindingInv'
PROOF
<1>1. AllHurt /\ Emptied(slot') /\ UNCHANGED <<world, resolution, mutation>> BY DisposedIsAllHurt
<1>2. \A k \in BindingKeys : AgesNot(k) BY DEF DisposeBindings, AgesNot
<1>3. /\ DOMAIN world' = Homes /\ world' = [g \in DOMAIN world' |-> world'[g]] /\ \A g \in Homes : IsContainer(world'[g])
      /\ mutation' \in [home : {mutation'.home}, kind : {mutation'.kind}, lost : {mutation'.lost}]
  BY <1>1 DEF BindingInv, BindingShape
<1> QED BY <1>1, <1>2, <1>3, DisturbanceKeepsInv

-----------------------------------------------------------------------------
(* The behaviour. *)

LEMMA BindingInitInv == BindingInit => BindingInv
PROOF
<1> SUFFICES ASSUME BindingInit PROVE BindingInv OBVIOUS
<1> DEFINE old == [at |-> "kept", of |-> Nobody, row |-> [gen |-> 1, mounts |-> 0]]
<1>1. /\ \A h \in Homes : world[h] = [gen |-> 2, mounts |-> 0, health |-> "up"]
      /\ \A c \in BindingCalls : resolution[c] = Settled /\ call[c] = IdleCall
      /\ \A k \in BindingKeys : slot[k] = Empty \/ slot[k] = old
      /\ mutation.kind = "none" /\ mutation.lost = {}
  BY DEF BindingInit
<1>2. /\ IsBindingCall(IdleCall) /\ IsPromise(Settled) /\ IsEntry(Empty) /\ IsEntry(old)
      /\ IdleCall.pc = "idle" /\ IdleCall.effects = 0 /\ Settled.at = "none" /\ Empty.at = "none"
      /\ old.at = "kept" /\ old.row.mounts = 0
  BY DEF IsBindingCall, IsPromise, IsEntry, IsContainerRow, IdleCall, Settled, Empty, NoRow
<1>3. BindingShape
  <2>1. /\ DOMAIN world = Homes /\ world = [h \in DOMAIN world |-> world[h]]
        /\ DOMAIN resolution = BindingCalls /\ resolution = [c \in DOMAIN resolution |-> resolution[c]]
        /\ DOMAIN slot = BindingKeys /\ slot = [k \in DOMAIN slot |-> slot[k]]
        /\ DOMAIN call = BindingCalls /\ call = [c \in DOMAIN call |-> call[c]]
        /\ mutation \in [home : {mutation.home}, kind : {mutation.kind}, lost : {mutation.lost}]
    BY DEF BindingInit
  <2>2. \A h \in Homes : IsContainer(world[h]) BY <1>1 DEF IsContainer
  <2> QED BY <2>1, <2>2, <1>1, <1>2 DEF BindingShape
<1>4. ASSUME NEW c \in BindingCalls PROVE PromiseSound(c) /\ BindingPlaced(c) /\ Informed(c)
  BY <1>1, <1>2 DEF PromiseSound, BindingPlaced, Informed, Open, Ends
<1>5. ASSUME NEW k \in BindingKeys PROVE EntrySound(k)
  <2>1. world[Home(k)].mounts = 0 BY <1>1, KeysHaveHomes
  <2> HIDE DEF old
  <2> QED BY <2>1, <1>1, <1>2 DEF EntrySound, RowCurrent
<1> QED BY <1>3, <1>4, <1>5 DEF BindingInv

LEMMA BindingUnchanged == BindingInv /\ UNCHANGED bindingVars => BindingInv'
PROOF BY DEF BindingInv, BindingShape, PromiseSound, BindingPlaced, Informed, EntrySound, Open, StaleRow, RowCurrent, bindingVars

LEMMA BindingNextInv == BindingInv /\ [BindingNext]_bindingVars => BindingInv'
PROOF
<1> SUFFICES ASSUME BindingInv, [BindingNext]_bindingVars PROVE BindingInv' OBVIOUS
<1>1. CASE UNCHANGED bindingVars BY <1>1, BindingUnchanged
<1>2. CASE \E c \in BindingCalls, key \in BindingKeys : StartCall(c, key) BY <1>2, StartCallKeepsInv
<1>3. ASSUME NEW c \in BindingCalls, BindingStep(c) PROVE BindingInv'
  BY <1>3, ResumeKeepsInv, PingKeepsInv, RecoverKeepsInv, UseKeepsInv DEF BindingStep
<1>4. ASSUME NEW c \in BindingCalls, PromiseStep(c) \/ ResolutionFails(c) PROVE BindingInv'
  BY <1>4, AnswerKeepsInv, SettleKeepsInv, ResolutionFailsKeepsInv DEF PromiseStep
<1>5. CASE \E h \in Homes, kind \in MutationKinds : Mutate(h, kind) BY <1>5, MutateKeepsInv
<1>6. CASE MutationReplied \/ MutationLost \/ DisposeBindings BY <1>6, RepliedKeepsInv, LostKeepsInv, DisposeKeepsInv
<1>7. CASE \E h \in Homes, health \in {"stopped", "hung"} : Outage(h, health) BY <1>7, OutageKeepsInv
<1> QED BY <1>1, <1>2, <1>3, <1>4, <1>5, <1>6, <1>7 DEF BindingNext

LEMMA BindingInvHolds == BindingSpec => []BindingInv
PROOF BY BindingInitInv, BindingNextInv, PTL DEF BindingSpec

\* A container call makes its guest call by the mounts the container has: the entry
\* it took, the promise it joined and the row a refresh kept for it were dropped or
\* replaced when a control call changed them, or the call saw the change.
THEOREM CallsGoByCurrentMounts == BindingSpec => []ReturnsCurrentMounts
PROOF
<1>1. BindingInv => ReturnsCurrentMounts
  BY DEF BindingInv, Informed, ReturnsCurrentMounts, Open, Ends, RowCurrent
<1> QED BY <1>1, BindingInvHolds, PTL

\* withGuestAuth repeats a guest call at most once, and only one the agent rejected:
\* no effect happens twice, whatever is refreshed, repaired or lost on the way.
THEOREM EffectsNeverRepeat == BindingSpec => []EffectOnce
PROOF
<1>1. BindingInv => EffectOnce
  <2> SUFFICES ASSUME BindingInv, NEW c \in BindingCalls PROVE call[c].effects <= 1 BY DEF EffectOnce
  <2>1. call[c].effects \in {0, 1} BY DEF BindingInv, BindingPlaced
  <2> QED BY <2>1
<1> QED BY <1>1, BindingInvHolds, PTL

-----------------------------------------------------------------------------
(* A call that nothing disturbed repairs what it finds.                    *)

\* The repairs a call may have left.
PlansOf(key) ==
  CASE key = "session" -> {<<"again", "recover">>, <<"recover">>, <<>>}
    [] key = "named"   -> {<<"recover">>, <<>>}
    [] key = "ptc"     -> {<<"again">>, <<>>}

\* A row that was handed out: of a generation the container has, or had.
Issued(w, row, key) == row.gen \in Nat /\ 1 <= row.gen /\ row.gen <= w[Home(key)].gen

\* A call has its row; it has made its last repair, or is past the ping; and the
\* generation its row is then at least of: one more after a refresh.
HeldMounts(r) == r.pc \in {"ping", "use"} \/ (r.pc = "resumed" /\ r.got = "kept")
Late(r) == r.plan = <<>> \/ r.why = "reauth" \/ r.pc = "use"
Due(r) == IF r.fresh THEN r.born + 1 ELSE r.born

\* The plan of a call under way, and where its row is from.
Planned(w, r, c) ==
  /\ r.born \in Nat /\ r.born <= w[Home(r.key)].gen
  /\ r.plan \in PlansOf(r.key) /\ (r.pc = "recover" => r.plan = <<"recover">>)
  /\ r.pc = "resumed" => r.got \in {"kept", "absent"}
  /\ r.pc = "waiting" /\ (r.why # "resolve" \/ r.plan = <<>>) => r.wait = c

\* A call that is late goes by the credential of no former container.
Renewed(w, r, p) ==
  /\ HeldMounts(r) => Issued(w, r.row, r.key) /\ (Late(r) => r.row.gen >= Due(r))
  /\ r.pc = "waiting" /\ p.at = "kept" /\ Late(r) => p.row.gen >= Due(r)
  /\ r.pc = "waiting" /\ Late(r) /\ r.fresh => w[Home(r.key)].gen >= r.born + 1

\* What a call relied on or repaired is up; of the PTC container, what a second
\* resolution can bring up.
CanReach(w, r, p) ==
  LET health == w[Home(r.key)].health IN
  /\ r.why # "resolve" \/ r.pc = "use" \/ (r.plan = <<>> /\ r.key # "ptc") => health = "up"
  /\ r.plan = <<>> /\ (HeldMounts(r) \/ (r.pc = "waiting" /\ p.at = "kept")) => health \in {"up", "hung"}
  /\ r.why # "resolve" => ~(r.pc = "waiting" /\ p.at = "absent") /\ ~(r.pc = "resumed" /\ r.got = "absent")

Mends(w, r, p, c) ==
  r.pc \notin Ends \cup {"idle"} /\ ~r.hit => Planned(w, r, c) /\ Renewed(w, r, p) /\ CanReach(w, r, p)

Counted(w) ==
  \A h \in Homes : w[h].gen \in Nat /\ w[h].gen >= 1 /\ w[h].health \in {"up", "hung", "stopped", "absent"}

RepairInv ==
  /\ Counted(world)
  /\ \A k \in BindingKeys : slot[k].at = "kept" => Issued(world, slot[k].row, k)
  /\ \A c \in BindingCalls : resolution[c].at = "kept" => Issued(world, resolution[c].row, resolution[c].key)
  /\ \A c \in BindingCalls : Mends(world, call[c], resolution[c], c)

\* Containers are recreated, and come up.
Rises(w, v) ==
  \A h \in Homes : v[h].gen \in Nat /\ v[h].gen >= w[h].gen /\ v[h].health \in {w[h].health, "up"}

LEMMA KeysAre == BindingKeys \subseteq {"session", "named", "ptc"}
PROOF BY BindingAssumption

LEMMA MendsRises ==
  ASSUME Counted(world), Rises(world, world'), NEW r, NEW p, NEW c,
         r.pc \notin Ends \cup {"idle"} => r.key \in BindingKeys, Mends(world, r, p, c)
  PROVE  Mends(world', r, p, c)
PROOF
<1> SUFFICES ASSUME r.pc \notin Ends \cup {"idle"}, ~r.hit
             PROVE  Planned(world', r, c) /\ Renewed(world', r, p) /\ CanReach(world', r, p)
  BY DEF Mends
<1>1. Home(r.key) \in Homes BY KeysHaveHomes
<1>2. /\ world[Home(r.key)].gen \in Nat /\ world'[Home(r.key)].gen \in Nat /\ world'[Home(r.key)].gen >= world[Home(r.key)].gen
      /\ world'[Home(r.key)].health \in {world[Home(r.key)].health, "up"}
  BY <1>1 DEF Counted, Rises
<1>3. Planned(world, r, c) /\ Renewed(world, r, p) /\ CanReach(world, r, p) BY DEF Mends
<1>4. Planned(world', r, c) BY <1>2, <1>3 DEF Planned
<1>5. Renewed(world', r, p) BY <1>2, <1>3 DEF Renewed, Issued, Planned
<1>6. CanReach(world', r, p) BY <1>2, <1>3 DEF CanReach
<1> QED BY <1>4, <1>5, <1>6

LEMMA PromiseKeys ==
  ASSUME BindingInv, NEW c \in BindingCalls, resolution[c].at # "none"
  PROVE  /\ call[c].pc = "waiting" /\ call[c].wait = c /\ call[c].key = resolution[c].key
         /\ resolution[c].key \in BindingKeys
PROOF
<1>1. PromiseSound(c) /\ BindingPlaced(c) BY DEF BindingInv
<1> QED BY <1>1 DEF PromiseSound, BindingPlaced, Open, Ends

\* The step of one call, or of its promise.
LEMMA OneMends ==
  ASSUME BindingInv, RepairInv, NEW c \in BindingCalls, Rises(world, world'),
         \A d \in BindingCalls : d # c => call'[d] = call[d] /\ resolution'[d] = resolution[d],
         Mends(world', call'[c], resolution'[c], c),
         resolution'[c].at = "kept" => Issued(world', resolution'[c].row, resolution'[c].key),
         \A k \in BindingKeys : slot'[k].at = "kept" => slot'[k] = slot[k]
  PROVE  RepairInv'
PROOF
<1>1. Counted(world') BY DEF RepairInv, Counted, Rises
<1>2. ASSUME NEW k \in BindingKeys, NEW row, Issued(world, row, k) PROVE Issued(world', row, k)
  BY <1>2, KeysHaveHomes DEF Issued, Rises, RepairInv, Counted
<1>3. ASSUME NEW k \in BindingKeys, slot'[k].at = "kept" PROVE Issued(world', slot'[k].row, k)
  BY <1>2, <1>3 DEF RepairInv
<1>4. ASSUME NEW d \in BindingCalls, resolution'[d].at = "kept" PROVE Issued(world', resolution'[d].row, resolution'[d].key)
  <2>1. CASE d = c BY <2>1, <1>4
  <2>2. CASE d # c
    <3>1. resolution'[d] = resolution[d] BY <2>2
    <3>2. resolution[d].key \in BindingKeys BY <3>1, <1>4, PromiseKeys
    <3> QED BY <3>1, <3>2, <1>2, <1>4 DEF RepairInv
  <2> QED BY <2>1, <2>2
<1>5. ASSUME NEW d \in BindingCalls PROVE Mends(world', call'[d], resolution'[d], d)
  <2>1. CASE d = c BY <2>1
  <2>2. CASE d # c
    <3>1. Mends(world, call[d], resolution[d], d) /\ Counted(world) BY DEF RepairInv
    <3>2. call[d].pc \notin Ends \cup {"idle"} => call[d].key \in BindingKeys BY DEF BindingInv, BindingPlaced, Open
    <3>3. Mends(world', call[d], resolution[d], d) BY <3>1, <3>2, MendsRises
    <3> QED BY <2>2, <3>3
  <2> QED BY <2>1, <2>2
<1> QED BY <1>1, <1>3, <1>4, <1>5 DEF RepairInv

\* A call that may await or create a promise.  Its own one, unless it begins.
Seeks(r, why, entry) ==
  /\ IsBindingCall(r) /\ r.key \in BindingKeys
  /\ ~r.hit =>
       /\ r.born \in Nat /\ r.born <= world'[Home(r.key)].gen /\ r.plan \in PlansOf(r.key)
       /\ entry = Empty \/ (r.why = "resolve" /\ why = "resolve" /\ r.plan # <<>>)
       /\ (r.plan = <<>> \/ why = "reauth") /\ r.fresh => world'[Home(r.key)].gen >= r.born + 1
       /\ why # "resolve" \/ (r.plan = <<>> /\ r.key # "ptc") => world'[Home(r.key)].health = "up"

LEMMA AskMends ==
  ASSUME BindingInv, RepairInv, NEW c \in BindingCalls, call[c].pc # "waiting", Rises(world, world'),
         NEW r, NEW why, NEW slots, Emptied(slots), Seeks(r, why, slots[r.key]), Ask(c, r, why, slots)
  PROVE  RepairInv'
PROOF
<1> DEFINE cached == slots[r.key]
           w(of) == [r EXCEPT !.pc = "waiting", !.why = why, !.wait = of]
           p == [at |-> "asked", key |-> r.key, tidy |-> why = "resolve" \/ r.key = "session", row |-> NoRow]
           e == [at |-> "pending", of |-> c, row |-> NoRow]
           k == [r EXCEPT !.pc = "ping", !.row = cached.row]
<1>1. /\ r.key \in BindingKeys /\ IsBindingCall(r) /\ Empty.at = "none" /\ cached \in {slot[r.key], Empty}
      /\ DOMAIN slots = BindingKeys /\ \A j \in BindingKeys : slots[j].at = "kept" => slots[j] = slot[j]
  BY EmptyIsEntry DEF Emptied, Seeks
<1>2. resolution[c].at = "none" BY PromiseKeys
<1>3. DOMAIN call = BindingCalls /\ DOMAIN resolution = BindingCalls BY DEF BindingInv, BindingShape
<1>4. Home(r.key) \in Homes BY <1>1, KeysHaveHomes
<1>5. world'[Home(r.key)].gen \in Nat /\ world'[Home(r.key)].gen >= world[Home(r.key)].gen /\ world[Home(r.key)].gen \in Nat
  BY <1>4 DEF RepairInv, Counted, Rises
<1>6. ASSUME NEW of, NEW q, q.at \in {"none", "asked"}, of = c \/ cached # Empty
      PROVE  Mends(world', w(of), q, c)
  <2>1. /\ w(of).pc = "waiting" /\ w(of).why = why /\ w(of).wait = of /\ w(of).key = r.key /\ w(of).plan = r.plan
        /\ w(of).got = r.got /\ w(of).fresh = r.fresh /\ w(of).born = r.born /\ w(of).hit = r.hit
    BY <1>1 DEF IsBindingCall
  <2> HIDE DEF w, cached
  <2> SUFFICES ASSUME ~r.hit PROVE Planned(world', w(of), c) /\ Renewed(world', w(of), q) /\ CanReach(world', w(of), q)
    BY <2>1 DEF Mends
  <2>2. Planned(world', w(of), c) BY <1>6, <2>1 DEF Planned, Seeks, cached
  <2>3. Renewed(world', w(of), q) BY <1>6, <2>1 DEF Renewed, HeldMounts, Late, Seeks
  <2>4. CanReach(world', w(of), q) BY <1>6, <2>1 DEF CanReach, HeldMounts, Seeks
  <2> QED BY <2>2, <2>3, <2>4
<1>7. CASE cached.at = "none"
  <2>1. /\ call' = [call EXCEPT ![c] = w(c)] /\ resolution' = [resolution EXCEPT ![c] = p]
        /\ slot' = [slots EXCEPT ![r.key] = e]
    BY <1>7 DEF Ask
  <2>2. p.at = "asked" /\ e.at = "pending" OBVIOUS
  <2> HIDE DEF w, p, e
  <2>3. Mends(world', w(c), p, c) BY <2>2, <1>6
  <2>4. call'[c] = w(c) /\ resolution'[c] = p
        /\ \A d \in BindingCalls : d # c => call'[d] = call[d] /\ resolution'[d] = resolution[d]
    BY <2>1, <1>3
  <2>5. \A j \in BindingKeys : slot'[j].at = "kept" => slot'[j] = slot[j] BY <2>1, <2>2, <1>1
  <2> QED BY <2>2, <2>3, <2>4, <2>5, OneMends
<1>8. CASE cached.at = "pending"
  <2>1. call' = [call EXCEPT ![c] = w(cached.of)] /\ slot' = slots /\ UNCHANGED resolution BY <1>8 DEF Ask
  <2>2. Mends(world', w(cached.of), resolution[c], c)
    <3>1. cached # Empty BY <1>8, <1>1
    <3> HIDE DEF w, cached
    <3> QED BY <3>1, <1>2, <1>6
  <2> HIDE DEF w, cached
  <2>3. call'[c] = w(cached.of) /\ resolution'[c] = resolution[c]
        /\ \A d \in BindingCalls : d # c => call'[d] = call[d] /\ resolution'[d] = resolution[d]
    BY <2>1, <1>3
  <2> QED BY <2>1, <2>2, <2>3, <1>1, <1>2, OneMends
<1>9. CASE cached.at = "kept"
  <2>1. call' = [call EXCEPT ![c] = k] /\ slot' = slots /\ UNCHANGED resolution BY <1>9 DEF Ask
  <2>2. /\ k.pc = "ping" /\ k.row = cached.row /\ k.why = r.why /\ k.key = r.key /\ k.plan = r.plan
        /\ k.got = r.got /\ k.fresh = r.fresh /\ k.born = r.born /\ k.hit = r.hit
    BY <1>1 DEF IsBindingCall
  <2>3. cached # Empty /\ cached = slot[r.key] BY <1>1, <1>9
  <2>4. Issued(world', cached.row, r.key)
    <3> HIDE DEF cached
    <3>1. Issued(world, cached.row, r.key) BY <2>3, <1>1, <1>9 DEF RepairInv
    <3> QED BY <3>1, <1>5 DEF Issued
  <2> HIDE DEF k, cached
  <2>5. Mends(world', k, resolution[c], c)
    <3> SUFFICES ASSUME ~r.hit PROVE Planned(world', k, c) /\ Renewed(world', k, resolution[c]) /\ CanReach(world', k, resolution[c])
      BY <2>2 DEF Mends
    <3>1. Planned(world', k, c) BY <2>2 DEF Planned, Seeks
    <3>2. r.why = "resolve" /\ r.plan # <<>> BY <2>3 DEF Seeks, cached
    <3>3. Renewed(world', k, resolution[c]) BY <2>2, <2>4, <3>2 DEF Renewed, Late
    <3>4. CanReach(world', k, resolution[c]) BY <2>2, <3>2 DEF CanReach
    <3> QED BY <3>1, <3>3, <3>4
  <2>6. call'[c] = k /\ resolution'[c] = resolution[c]
        /\ \A d \in BindingCalls : d # c => call'[d] = call[d] /\ resolution'[d] = resolution[d]
    BY <2>1, <1>3
  <2> QED BY <2>1, <2>5, <2>6, <1>1, <1>2, OneMends
<1>10. CASE cached.at \notin {"none", "pending", "kept"}
  <2>1. End(c, r, "poisoned") /\ slot' = slots /\ UNCHANGED resolution BY <1>10 DEF Ask
  <2>2. call'[c].pc = "poisoned" BY <2>1, <1>3 DEF End, IdleCall
  <2>3. \A d \in BindingCalls : d # c => call'[d] = call[d] BY <2>1, <1>3 DEF End
  <2>4. Mends(world', call'[c], resolution'[c], c) BY <2>2 DEF Mends, Ends
  <2> QED BY <2>1, <2>3, <2>4, <1>1, <1>2, OneMends
<1> QED BY <1>7, <1>8, <1>9, <1>10

LEMMA Unmoved == ASSUME RepairInv PROVE Rises(world, world)
PROOF BY DEF RepairInv, Counted, Rises

\* What the call that moves has so far.
LEMMA UnderWay ==
  ASSUME BindingInv, RepairInv, NEW c \in BindingCalls, Open(c)
  PROVE  /\ IsBindingCall(call[c]) /\ call[c].key \in BindingKeys /\ Home(call[c].key) \in Homes
         /\ world[Home(call[c].key)].gen \in Nat /\ world[Home(call[c].key)].gen >= 1
         /\ world[Home(call[c].key)].health \in {"up", "hung", "stopped", "absent"}
         /\ ~call[c].hit => /\ Planned(world, call[c], c) /\ Renewed(world, call[c], resolution[c])
                            /\ CanReach(world, call[c], resolution[c])
PROOF
<1>1. IsBindingCall(call[c]) /\ call[c].key \in BindingKeys BY OpenCall
<1>2. Home(call[c].key) \in Homes BY <1>1, KeysHaveHomes
<1> QED BY <1>1, <1>2 DEF RepairInv, Counted, Mends, Open

LEMMA EndMends ==
  ASSUME BindingInv, RepairInv, NEW c \in BindingCalls, call[c].pc # "waiting", NEW r, NEW pc \in Ends, End(c, r, pc),
         UNCHANGED <<world, resolution, slot>>
  PROVE  RepairInv'
PROOF
<1>1. DOMAIN call = BindingCalls BY DEF BindingInv, BindingShape
<1>2. call'[c].pc = pc /\ \A d \in BindingCalls : d # c => call'[d] = call[d] BY <1>1 DEF End, IdleCall
<1>3. Mends(world', call'[c], resolution'[c], c) BY <1>2 DEF Mends
<1>4. resolution[c].at = "none" BY PromiseKeys
<1> QED BY <1>2, <1>3, <1>4, Unmoved, OneMends

\* The step of a call that neither waits nor ends.
LEMMA GoesOnMends ==
  ASSUME BindingInv, RepairInv, NEW c \in BindingCalls, call[c].pc # "waiting", NEW r,
         ~r.hit => Planned(world, r, c) /\ Renewed(world, r, resolution[c]) /\ CanReach(world, r, resolution[c]),
         call' = [call EXCEPT ![c] = r], UNCHANGED <<world, resolution>>, Emptied(slot')
  PROVE  RepairInv'
PROOF
<1>1. DOMAIN call = BindingCalls BY DEF BindingInv, BindingShape
<1>2. call'[c] = r /\ \A d \in BindingCalls : d # c => call'[d] = call[d] BY <1>1
<1>3. Mends(world', call'[c], resolution'[c], c) BY <1>2 DEF Mends
<1>4. resolution[c].at = "none" BY PromiseKeys
<1>5. \A k \in BindingKeys : slot'[k].at = "kept" => slot'[k] = slot[k] BY EmptyIsEntry DEF Emptied
<1> QED BY <1>2, <1>3, <1>4, <1>5, Unmoved, OneMends

LEMMA StartCallMends ==
  ASSUME BindingInv, RepairInv, NEW c \in BindingCalls, NEW key \in BindingKeys, StartCall(c, key)
  PROVE  RepairInv'
PROOF
<1> DEFINE hit == mutation.kind \in MutationKinds
           h == Home(key)
           r == [IdleCall EXCEPT !.key = key, !.plan = Repairs(key), !.hit = hit, !.born = world[h].gen]
<1>1. call[c].pc # "waiting" /\ Ask(c, r, "resolve", slot) /\ UNCHANGED world BY DEF StartCall
<1>2. h \in Homes /\ world[h].gen \in Nat /\ Rises(world, world') BY <1>1, KeysHaveHomes, Unmoved DEF RepairInv, Counted
<1>3. /\ IsBindingCall(r) /\ r.key = key /\ r.plan = Repairs(key) /\ r.born = world[h].gen
      /\ r.got = "none" /\ r.why = "resolve" /\ ~r.fresh
  <2>1. hit \in BOOLEAN OBVIOUS
  <2> HIDE DEF hit
  <2>2. PICK plan, b : plan = Repairs(key) /\ b = world[h].gen OBVIOUS
  <2> DEFINE x == [IdleCall EXCEPT !.key = key, !.plan = plan, !.hit = hit, !.born = b]
  <2>3. r = x BY <2>2
  <2>4. /\ IsBindingCall(x) /\ x.key = key /\ x.plan = plan /\ x.born = b
        /\ x.got = "none" /\ x.why = "resolve" /\ ~x.fresh
    BY <2>1 DEF IdleCall, IsBindingCall, IsContainerRow, NoRow
  <2> HIDE DEF x, r, h
  <2> QED BY <2>2, <2>3, <2>4
<1>4. Repairs(key) \in PlansOf(key) /\ Repairs(key) # <<>>
  <2>1. CASE key = "session" BY <2>1 DEF Repairs, PlansOf
  <2>2. CASE key = "named" BY <2>2 DEF Repairs, PlansOf
  <2>3. CASE key = "ptc" BY <2>3 DEF Repairs, PlansOf
  <2> QED BY <2>1, <2>2, <2>3, KeysAre
<1> HIDE DEF r
<1>5. Seeks(r, "resolve", slot[key])
  <2>1. r.born \in Nat /\ r.born <= world'[h].gen BY <1>1, <1>2, <1>3
  <2>2. r.plan \in PlansOf(key) /\ r.plan # <<>> BY <1>3, <1>4
  <2> HIDE DEF h
  <2> QED BY <2>1, <2>2, <1>3 DEF Seeks, h
<1> QED BY <1>1, <1>2, <1>3, <1>5, SlotKept, AskMends

LEMMA PlanLeft ==
  ASSUME NEW key \in BindingKeys, NEW plan \in PlansOf(key), plan # <<>>
  PROVE  IF Head(plan) = "recover" THEN plan = <<"recover">> /\ key # "ptc"
         ELSE Left(plan) \in PlansOf(key) /\ (Left(plan) = <<>> => key = "ptc")
PROOF
<1>1. /\ Head(<<"again", "recover">>) = "again" /\ Tail(<<"again", "recover">>) = <<"recover">>
      /\ Head(<<"recover">>) = "recover" /\ Head(<<"again">>) = "again" /\ Tail(<<"again">>) = <<>>
      /\ <<"recover">> # <<>>
  OBVIOUS
<1>2. CASE key = "session"
  <2>1. plan \in {<<"again", "recover">>, <<"recover">>} BY <1>2 DEF PlansOf
  <2>2. Left(<<"again", "recover">>) \in PlansOf(key) BY <1>1, <1>2 DEF PlansOf, Left
  <2>3. Left(<<"again", "recover">>) # <<>> BY <1>1 DEF Left
  <2>4. CASE plan = <<"again", "recover">> BY <2>2, <2>3, <2>4, <1>1, Zenon
  <2>5. CASE plan = <<"recover">> BY <2>5, <1>1, <1>2
  <2> QED BY <2>1, <2>4, <2>5
<1>3. CASE key = "named"
  <2>1. plan = <<"recover">> BY <1>3 DEF PlansOf
  <2> QED BY <2>1, <1>1, <1>3
<1>4. CASE key = "ptc"
  <2>1. plan = <<"again">> BY <1>4 DEF PlansOf
  <2>2. Left(<<"again">>) \in PlansOf(key) BY <1>1, <1>4 DEF PlansOf, Left
  <2> QED BY <2>1, <2>2, <1>1, <1>4
<1> QED BY <1>2, <1>3, <1>4, KeysAre

LEMMA WithoutFinds ==
  ASSUME BindingInv, NEW key \in BindingKeys PROVE Without(key)[key] = Empty
PROOF BY DEF BindingInv, BindingShape, Without

LEMMA NotReadyMends ==
  ASSUME BindingInv, RepairInv, NEW c \in BindingCalls, Open(c), call[c].pc # "waiting", NotReady(c), UNCHANGED world
  PROVE  RepairInv'
PROOF
<1> DEFINE k == call[c].key
<1>1. /\ IsBindingCall(call[c]) /\ k \in BindingKeys /\ world[Home(k)].gen \in Nat
      /\ ~call[c].hit => /\ Planned(world, call[c], c) /\ Renewed(world, call[c], resolution[c])
                         /\ CanReach(world, call[c], resolution[c])
  BY UnderWay
<1>2. CASE call[c].plan = <<>>
  BY <1>2, EndMends DEF NotReady, Ends
<1>3. CASE call[c].plan # <<>> /\ Head(call[c].plan) = "recover"
  <2> DEFINE s == [call[c] EXCEPT !.pc = "recover"]
  <2>1. call' = [call EXCEPT ![c] = s] /\ UNCHANGED resolution
        /\ slot' = IF call[c].key = "session" THEN slot ELSE Without(call[c].key)
    BY <1>3 DEF NotReady
  <2>2. Emptied(slot') BY <2>1, SlotKept, WithoutEmpties
  <2>3. /\ s.pc = "recover" /\ s.key = k /\ s.plan = call[c].plan /\ s.got = call[c].got /\ s.why = call[c].why
        /\ s.born = call[c].born /\ s.fresh = call[c].fresh /\ s.hit = call[c].hit
    BY <1>1 DEF IsBindingCall
  <2> HIDE DEF s, k
  <2>4. ASSUME ~s.hit
        PROVE  Planned(world, s, c) /\ Renewed(world, s, resolution[c]) /\ CanReach(world, s, resolution[c])
    <3>1. Planned(world, call[c], c) /\ CanReach(world, call[c], resolution[c]) BY <2>3, <2>4, <1>1
    <3>2. s.plan = <<"recover">> BY <3>1, <1>1, <1>3, <2>3, PlanLeft DEF Planned, k
    <3>3. Planned(world, s, c) BY <3>1, <3>2, <2>3 DEF Planned, k
    <3>4. Renewed(world, s, resolution[c]) BY <2>3 DEF Renewed, HeldMounts
    <3>5. CanReach(world, s, resolution[c]) BY <3>1, <3>2, <2>3 DEF CanReach, HeldMounts, k
    <3> QED BY <3>3, <3>4, <3>5
  <2> QED BY <2>1, <2>2, <2>4, GoesOnMends
<1>4. CASE call[c].plan # <<>> /\ Head(call[c].plan) # "recover"
  <2> DEFINE r == [call[c] EXCEPT !.plan = Left(@), !.fresh = FALSE]
  <2>1. Ask(c, r, "resolve", Without(k)) BY <1>4 DEF NotReady
  <2>2. /\ IsBindingCall(r) /\ r.key = k /\ r.plan = Left(call[c].plan) /\ ~r.fresh /\ r.hit = call[c].hit
        /\ r.born = call[c].born /\ r.got = call[c].got
    BY <1>1 DEF IsBindingCall
  <2>3. Emptied(Without(k)) /\ Without(k)[k] = Empty BY <1>1, WithoutEmpties, WithoutFinds
  <2> HIDE DEF r, k
  <2>4. Seeks(r, "resolve", Without(k)[k])
    <3> SUFFICES ASSUME ~r.hit
                 PROVE  /\ r.born \in Nat /\ r.born <= world'[Home(r.key)].gen /\ r.plan \in PlansOf(r.key)
                        /\ r.plan = <<>> => r.key = "ptc"
      BY <1>1, <2>2, <2>3 DEF Seeks
    <3>1. Planned(world, call[c], c) BY <1>1, <2>2
    <3>2. r.plan \in PlansOf(k) /\ (r.plan = <<>> => k = "ptc") BY <3>1, <1>1, <1>4, <2>2, PlanLeft DEF Planned, k
    <3> QED BY <3>1, <3>2, <2>2 DEF Planned, k
  <2> QED BY <2>1, <2>2, <2>3, <2>4, Unmoved, AskMends
<1> QED BY <1>2, <1>3, <1>4

\* A refresh is for a call whose credential was rejected: its container was recreated.
LEMMA RefreshMends ==
  ASSUME BindingInv, RepairInv, NEW c \in BindingCalls, Reach(call[c].row, Home(call[c].key)) = "rejected",
         NEW why, \/ call[c].pc = "ping" /\ why = "refresh"
                  \/ call[c].pc = "use" /\ why = "reauth",
         Refresh(c, why), UNCHANGED world
  PROVE  RepairInv'
PROOF
<1> DEFINE k == call[c].key
           r == [call[c] EXCEPT !.fresh = TRUE]
<1>1. Open(c) /\ call[c].pc # "waiting" BY DEF Open, Ends
<1>2. /\ IsBindingCall(call[c]) /\ k \in BindingKeys /\ world[Home(k)].gen \in Nat
      /\ ~call[c].hit => /\ Planned(world, call[c], c) /\ Renewed(world, call[c], resolution[c])
                         /\ CanReach(world, call[c], resolution[c])
  BY <1>1, UnderWay
<1>3. Ask(c, r, why, Without(k)) BY DEF Refresh
<1>4. /\ IsBindingCall(r) /\ r.key = k /\ r.plan = call[c].plan /\ r.fresh /\ r.hit = call[c].hit
      /\ r.born = call[c].born /\ r.got = call[c].got
  BY <1>2 DEF IsBindingCall
<1>5. Emptied(Without(k)) /\ Without(k)[k] = Empty BY <1>2, WithoutEmpties, WithoutFinds
<1>6. world[Home(k)].health = "up" /\ call[c].row.gen # world[Home(k)].gen BY DEF Reach
<1> HIDE DEF r, k
<1>7. Seeks(r, why, Without(k)[k])
  <2> SUFFICES ASSUME ~r.hit
               PROVE  /\ r.born \in Nat /\ r.born <= world'[Home(r.key)].gen /\ r.plan \in PlansOf(r.key)
                      /\ r.plan = <<>> \/ why = "reauth" => world'[Home(r.key)].gen >= r.born + 1
    BY <1>2, <1>4, <1>5, <1>6 DEF Seeks
  <2>1. Planned(world, call[c], c) /\ Renewed(world, call[c], resolution[c]) BY <1>2, <1>4
  <2>2. Issued(world, call[c].row, k) /\ (Late(call[c]) => call[c].row.gen >= Due(call[c])) BY <2>1 DEF Renewed, HeldMounts, k
  <2>3. call[c].row.gen \in Nat /\ call[c].row.gen < world[Home(k)].gen BY <2>2, <1>2, <1>6 DEF Issued
  <2>4. Late(call[c]) => world[Home(k)].gen >= call[c].born + 1 BY <2>1, <2>2, <2>3, <1>2 DEF Due, Planned
  <2>5. r.plan = <<>> \/ why = "reauth" => Late(call[c]) BY <1>4 DEF Late
  <2> QED BY <2>1, <2>4, <2>5, <1>4 DEF Planned, k
<1> QED BY <1>1, <1>3, <1>4, <1>5, <1>7, Unmoved, AskMends

LEMMA ResumeMends ==
  ASSUME BindingInv, RepairInv, NEW c \in BindingCalls, Resume(c) PROVE RepairInv'
PROOF
<1> DEFINE r == [call[c] EXCEPT !.got = "none"]
<1>1. call[c].pc = "resumed" /\ Open(c) /\ UNCHANGED world BY DEF Resume, Open, Ends
<1>2. /\ IsBindingCall(call[c]) /\ call[c].key \in BindingKeys
      /\ ~call[c].hit => /\ Planned(world, call[c], c) /\ Renewed(world, call[c], resolution[c])
                         /\ CanReach(world, call[c], resolution[c])
  BY <1>1, UnderWay
<1>3. CASE call[c].got = "kept"
  <2> DEFINE s == [r EXCEPT !.pc = IF r.why = "reauth" THEN "use" ELSE "ping"]
  <2>1. call' = [call EXCEPT ![c] = s] /\ UNCHANGED <<resolution, slot>> BY <1>3 DEF Resume
  <2>2. /\ s.pc = IF call[c].why = "reauth" THEN "use" ELSE "ping"
        /\ s.key = call[c].key /\ s.plan = call[c].plan /\ s.got = "none" /\ s.why = call[c].why
        /\ s.born = call[c].born /\ s.fresh = call[c].fresh /\ s.hit = call[c].hit /\ s.row = call[c].row
    BY <1>2 DEF IsBindingCall
  <2> HIDE DEF s
  <2>3. ASSUME ~s.hit
        PROVE  Planned(world, s, c) /\ Renewed(world, s, resolution[c]) /\ CanReach(world, s, resolution[c])
    <3>1. Planned(world, call[c], c) /\ Renewed(world, call[c], resolution[c]) /\ CanReach(world, call[c], resolution[c])
      BY <2>2, <2>3, <1>2
    <3>2. HeldMounts(call[c]) /\ HeldMounts(s) /\ (Late(s) => Late(call[c])) BY <1>1, <1>3, <2>2 DEF HeldMounts, Late
    <3>3. Planned(world, s, c) BY <3>1, <2>2 DEF Planned
    <3>4. Renewed(world, s, resolution[c]) BY <3>1, <3>2, <2>2 DEF Renewed, Due
    <3>5. CanReach(world, s, resolution[c]) BY <3>1, <3>2, <2>2 DEF CanReach
    <3> QED BY <3>3, <3>4, <3>5
  <2>4. Emptied(slot') BY <2>1, SlotKept
  <2> QED BY <2>1, <2>3, <2>4, <1>1, GoesOnMends
<1>4. CASE call[c].got # "kept" /\ r.why = "refresh"
  <2>1. NotReady(c) BY <1>4 DEF Resume
  <2> QED BY <2>1, <1>1, NotReadyMends
<1>5. CASE call[c].got # "kept" /\ r.why # "refresh"
  <2> DEFINE pc == IF call[c].got = "absent" THEN "missing" ELSE "failed"
  <2>1. End(c, r, pc) /\ UNCHANGED <<resolution, slot>> BY <1>5 DEF Resume
  <2>2. pc \in Ends BY DEF Ends
  <2> HIDE DEF r, pc
  <2> QED BY <2>1, <2>2, <1>1, EndMends
<1> QED BY <1>3, <1>4, <1>5

LEMMA PingMends ==
  ASSUME BindingInv, RepairInv, NEW c \in BindingCalls, Ping(c) PROVE RepairInv'
PROOF
<1> DEFINE reached == Reach(call[c].row, Home(call[c].key))
<1>1. call[c].pc = "ping" /\ Open(c) /\ UNCHANGED world BY DEF Ping, Open, Ends
<1>2. /\ IsBindingCall(call[c]) /\ call[c].key \in BindingKeys
      /\ ~call[c].hit => /\ Planned(world, call[c], c) /\ Renewed(world, call[c], resolution[c])
                         /\ CanReach(world, call[c], resolution[c])
  BY <1>1, UnderWay
<1>3. CASE reached = "accepted"
  <2> DEFINE s == [call[c] EXCEPT !.pc = "use", !.fresh = FALSE]
  <2>1. call' = [call EXCEPT ![c] = s] /\ UNCHANGED <<resolution, slot>>
    BY <1>3, <1>2, ZenonT(40) DEF Ping, IsBindingCall, BindingInv, BindingShape
  <2>2. /\ s.pc = "use" /\ s.key = call[c].key /\ s.plan = call[c].plan /\ s.got = call[c].got /\ s.why = call[c].why
        /\ s.born = call[c].born /\ ~s.fresh /\ s.hit = call[c].hit /\ s.row = call[c].row
    BY <1>2 DEF IsBindingCall
  <2>3. world[Home(call[c].key)].health = "up" /\ call[c].row.gen = world[Home(call[c].key)].gen BY <1>3 DEF Reach
  <2> HIDE DEF s
  <2>4. ASSUME ~s.hit
        PROVE  Planned(world, s, c) /\ Renewed(world, s, resolution[c]) /\ CanReach(world, s, resolution[c])
    <3>1. Planned(world, call[c], c) /\ Renewed(world, call[c], resolution[c]) BY <2>2, <2>4, <1>2
    <3>2. Planned(world, s, c) BY <3>1, <2>2 DEF Planned
    <3>3. Issued(world, s.row, s.key) /\ s.row.gen >= Due(s) BY <3>1, <2>2, <2>3, <1>1 DEF Renewed, HeldMounts, Due, Planned
    <3>4. Renewed(world, s, resolution[c]) BY <3>3, <2>2 DEF Renewed
    <3>5. CanReach(world, s, resolution[c]) BY <2>2, <2>3 DEF CanReach
    <3> QED BY <3>2, <3>4, <3>5
  <2>5. Emptied(slot') BY <2>1, SlotKept
  <2> QED BY <2>1, <2>4, <2>5, <1>1, GoesOnMends
<1>4. CASE reached = "rejected" /\ ~call[c].fresh
  <2>1. Refresh(c, "refresh") BY <1>4 DEF Ping
  <2> QED BY <2>1, <1>1, <1>4, RefreshMends
<1>5. CASE reached # "accepted" /\ ~(reached = "rejected" /\ ~call[c].fresh)
  <2>1. NotReady(c) BY <1>5 DEF Ping
  <2> QED BY <2>1, <1>1, NotReadyMends
<1> QED BY <1>3, <1>4, <1>5

LEMMA RecreatedRises ==
  ASSUME BindingInv, RepairInv, NEW h \in Homes, world' = [world EXCEPT ![h].gen = @ + 1, ![h].health = "up"]
  PROVE  Rises(world, world') /\ world'[h].gen = world[h].gen + 1 /\ world'[h].health = "up" /\ world[h].gen \in Nat
PROOF
<1> DEFINE one == [world[h] EXCEPT !.gen = @ + 1, !.health = "up"]
<1>1. IsContainer(world[h]) /\ DOMAIN world = Homes BY DEF BindingInv, BindingShape
<1>2. one.gen = world[h].gen + 1 /\ one.health = "up" BY <1>1 DEF IsContainer
<1>3. world' = [world EXCEPT ![h] = one] BY <1>1
<1> HIDE DEF one
<1>4. world'[h] = one /\ \A g \in Homes : g # h => world'[g] = world[g] BY <1>1, <1>3
<1>5. \A g \in Homes : world[g].gen \in Nat BY DEF RepairInv, Counted
<1>6. ASSUME NEW g \in Homes
      PROVE  world'[g].gen \in Nat /\ world'[g].gen >= world[g].gen /\ world'[g].health \in {world[g].health, "up"}
  <2>1. CASE g = h
    <3>1. world'[g].gen = world[g].gen + 1 /\ world'[g].health = "up" /\ world[g].gen \in Nat BY <2>1, <1>2, <1>4, <1>5
    <3> QED BY <3>1
  <2>2. CASE g # h
    <3>1. world'[g] = world[g] /\ world[g].gen \in Nat BY <2>2, <1>4, <1>5
    <3>2. world[g].gen >= world[g].gen BY <3>1
    <3> QED BY <3>1, <3>2
  <2> QED BY <2>1, <2>2
<1>7. Rises(world, world') BY <1>6 DEF Rises
<1> QED BY <1>2, <1>4, <1>5, <1>7

LEMMA RecoverMends ==
  ASSUME BindingInv, RepairInv, NEW c \in BindingCalls, Recover(c) PROVE RepairInv'
PROOF
<1> DEFINE k == call[c].key
           h == Home(k)
           rest == [call[c] EXCEPT !.plan = Left(@), !.fresh = FALSE]
           kept == IF k = "session" THEN Without("session") ELSE slot
           none == [key \in BindingKeys |-> IF key = "named" THEN Empty ELSE kept[key]]
           own(b) == [rest EXCEPT !.born = b]
           hurt == [rest EXCEPT !.hit = TRUE]
<1>1. call[c].pc = "recover" /\ Open(c) BY DEF Recover, Open, Ends
<1>2. /\ IsBindingCall(call[c]) /\ k \in BindingKeys /\ h \in Homes
      /\ ~call[c].hit => Planned(world, call[c], c)
  BY <1>1, UnderWay
<1>3. IsBindingCall(rest) /\ rest.key = k /\ rest.hit = call[c].hit /\ rest.plan = Left(call[c].plan)
      /\ rest.got = call[c].got /\ ~rest.fresh
  BY <1>2 DEF IsBindingCall
<1>4. \/ /\ world' = [world EXCEPT ![h].gen = @ + 1, ![h].health = "up"]
         /\ Ask(c, own(world[h].gen + 1), "resolve", none)
      \/ Ask(c, hurt, "resolve", kept) /\ UNCHANGED world
  BY <1>3 DEF Recover
<1>5. Emptied(kept) /\ Emptied(none)
  <2>1. Emptied(kept) BY SlotKept, WithoutEmpties
  <2> QED BY <2>1 DEF Emptied
<1>6. CASE /\ world' = [world EXCEPT ![h].gen = @ + 1, ![h].health = "up"]
           /\ Ask(c, own(world[h].gen + 1), "resolve", none)
  <2>1. Rises(world, world') /\ world'[h].gen = world[h].gen + 1 /\ world'[h].health = "up" /\ world[h].gen \in Nat
    <3> HIDE DEF h
    <3> QED BY <1>2, <1>6, RecreatedRises
  <2>2. PICK b : b = world[h].gen + 1 OBVIOUS
  <2>3. Ask(c, own(b), "resolve", none) BY <1>6, <2>2
  <2>4. /\ IsBindingCall(own(b)) /\ own(b).key = k /\ own(b).hit = call[c].hit /\ own(b).plan = Left(call[c].plan)
        /\ own(b).got = call[c].got /\ ~own(b).fresh /\ own(b).born = b
    <3> HIDE DEF rest
    <3> QED BY <1>3 DEF IsBindingCall
  <2>5. k \in {"session", "named"} => none[k] = Empty
    <3>1. CASE k = "session" BY <3>1, <1>2, WithoutFinds
    <3>2. CASE k = "named" BY <3>2, <1>2
    <3> QED BY <3>1, <3>2
  <2>6. ASSUME ~call[c].hit
        PROVE  k \in {"session", "named"} /\ Left(call[c].plan) = <<>>
    <3>1. /\ Planned(world, call[c], c) /\ call[c].plan = <<"recover">> /\ <<"recover">> \in PlansOf(k) /\ <<"recover">> # <<>>
          /\ Head(<<"recover">>) = "recover" /\ Tail(<<"recover">>) = <<>>
      BY <2>6, <1>1, <1>2 DEF Planned
    <3>2. k # "ptc" BY <3>1, <1>2, PlanLeft
    <3> QED BY <3>1, <3>2, <1>2, KeysAre DEF Left, Planned
  <2>7. <<>> \in PlansOf("session") /\ <<>> \in PlansOf("named") BY DEF PlansOf
  <2> HIDE DEF own, none, rest
  <2>8. Seeks(own(b), "resolve", none[own(b).key])
    <3>1. b \in Nat /\ b <= world'[h].gen BY <2>1, <2>2
    <3> HIDE DEF k
    <3> QED BY <3>1, <2>1, <2>4, <2>5, <2>6, <2>7, <1>2 DEF Seeks, h
  <2> QED BY <2>1, <2>3, <2>8, <1>1, <1>5, AskMends
<1>7. CASE Ask(c, hurt, "resolve", kept) /\ UNCHANGED world
  <2>1. IsBindingCall(hurt) /\ hurt.key = k /\ hurt.hit
    <3> HIDE DEF rest
    <3> QED BY <1>3 DEF IsBindingCall
  <2> HIDE DEF hurt, kept
  <2>2. Seeks(hurt, "resolve", kept[hurt.key]) BY <2>1, <1>2 DEF Seeks
  <2> QED BY <2>2, <1>1, <1>5, <1>7, Unmoved, AskMends
<1> QED BY <1>4, <1>6, <1>7

LEMMA UseMends ==
  ASSUME BindingInv, RepairInv, NEW c \in BindingCalls, Use(c) PROVE RepairInv'
PROOF
<1>1. call[c].pc = "use" /\ Open(c) /\ UNCHANGED world BY DEF Use, Open, Ends
<1>2. \/ \E r : \E pc \in Ends : End(c, r, pc) /\ UNCHANGED <<resolution, slot>>
      \/ Reach(call[c].row, Home(call[c].key)) = "rejected" /\ Refresh(c, "reauth")
  <2> DEFINE done == [call[c] EXCEPT !.effects = @ + 1]
             lost == [call[c] EXCEPT !.effects = @ + 1, !.hit = TRUE]
  <2>1. \/ End(c, done, "done") /\ UNCHANGED <<resolution, slot>>
        \/ End(c, lost, "failed") /\ UNCHANGED <<resolution, slot>>
        \/ Reach(call[c].row, Home(call[c].key)) = "rejected" /\ Refresh(c, "reauth")
        \/ End(c, call[c], "failed") /\ UNCHANGED <<resolution, slot>>
    BY DEF Use, LostReply
  <2>2. "done" \in Ends /\ "failed" \in Ends BY DEF Ends
  <2> HIDE DEF done, lost
  <2>3. ASSUME NEW r, NEW pc \in Ends, End(c, r, pc), UNCHANGED <<resolution, slot>>
        PROVE  \E x : \E y \in Ends : End(c, x, y) /\ UNCHANGED <<resolution, slot>>
    BY <2>3
  <2> QED BY <2>1, <2>2, <2>3
<1>3. CASE \E r : \E pc \in Ends : End(c, r, pc) /\ UNCHANGED <<resolution, slot>> BY <1>1, <1>3, EndMends
<1> QED BY <1>1, <1>2, <1>3, RefreshMends

LEMMA AnswerMends ==
  ASSUME BindingInv, RepairInv, NEW c \in BindingCalls, Answer(c) PROVE RepairInv'
PROOF
<1> DEFINE p == resolution[c]
           h == Home(p.key)
           r == call[c]
<1>1. p.at = "asked" /\ UNCHANGED <<slot, call>> BY DEF Answer
<1>2. r.pc = "waiting" /\ r.wait = c /\ r.key = p.key /\ p.key \in BindingKeys /\ h \in Homes
  BY <1>1, PromiseKeys, KeysHaveHomes
<1>3. /\ IsPromise(p) /\ DOMAIN resolution = BindingCalls
      /\ world[h].gen \in Nat /\ world[h].gen >= 1 /\ world[h].health \in {"up", "hung", "stopped", "absent"}
  BY <1>2 DEF BindingInv, BindingShape, RepairInv, Counted
<1>4. /\ Rises(world, world')
      /\ \E q : /\ resolution' = [resolution EXCEPT ![c] = q]
                /\ q.key = p.key /\ q.at \in {"kept", "absent"} /\ q.row.gen = world'[h].gen
                /\ q.at = "kept" => world'[h].health \in {"up", "hung"}
                /\ q.at = "absent" => world'[h].health = "absent"
  <2>1. CASE /\ world' = [world EXCEPT ![h].gen = @ + 1, ![h].health = "up"]
             /\ resolution' = [resolution EXCEPT ![c].at = "kept", ![c].row = [RowOf(h) EXCEPT !.gen = @ + 1]]
    <3> DEFINE row == [RowOf(h) EXCEPT !.gen = @ + 1]
               q == [p EXCEPT !.at = "kept", !.row = row]
    <3>1. Rises(world, world') /\ world'[h].gen = world[h].gen + 1 /\ world'[h].health = "up"
      <4> HIDE DEF h
      <4> QED BY <2>1, <1>2, RecreatedRises
    <3>2. row.gen = world'[h].gen BY <3>1 DEF RowOf
    <3>3. resolution' = [resolution EXCEPT ![c].at = "kept", ![c].row = row] BY <2>1
    <3> HIDE DEF row, h
    <3>4. resolution' = [resolution EXCEPT ![c] = q] BY <3>3, <1>3
    <3>5. q.at = "kept" /\ q.key = p.key /\ q.row = row BY <1>3 DEF IsPromise
    <3> HIDE DEF q, p
    <3> QED BY <3>1, <3>2, <3>4, <3>5
  <2>2. CASE /\ ~Creates(p)
             /\ resolution' = [resolution EXCEPT
                   ![c].at = IF world[h].health = "absent" THEN "absent" ELSE "kept", ![c].row = RowOf(h)]
             /\ UNCHANGED world
    <3> DEFINE row == RowOf(h)
               at == IF world[h].health = "absent" THEN "absent" ELSE "kept"
               q == [p EXCEPT !.at = at, !.row = row]
    <3>1. row.gen = world'[h].gen BY <2>2 DEF RowOf
    <3>2. /\ at \in {"kept", "absent"} /\ (at = "kept" => world'[h].health \in {"up", "hung"})
          /\ (at = "absent" => world'[h].health = "absent")
      BY <2>2, <1>3 DEF Creates
    <3>3. resolution' = [resolution EXCEPT ![c].at = at, ![c].row = row] /\ Rises(world, world') BY <2>2, Unmoved
    <3> HIDE DEF row, at
    <3>4. resolution' = [resolution EXCEPT ![c] = q] BY <3>3, <1>3
    <3>5. q.at = at /\ q.key = p.key /\ q.row = row BY <1>3 DEF IsPromise
    <3> HIDE DEF q, h, p
    <3> QED BY <3>1, <3>2, <3>3, <3>4, <3>5
  <2> QED BY <2>1, <2>2 DEF Answer
<1>5. PICK q : /\ resolution' = [resolution EXCEPT ![c] = q]
               /\ q.key = p.key /\ q.at \in {"kept", "absent"} /\ q.row.gen = world'[h].gen
               /\ q.at = "kept" => world'[h].health \in {"up", "hung"}
               /\ q.at = "absent" => world'[h].health = "absent"
  BY <1>4
<1>6. resolution'[c] = q /\ \A d \in BindingCalls : d # c => resolution'[d] = resolution[d] BY <1>3, <1>5
<1>7. /\ world'[h].gen \in Nat /\ world'[h].gen >= world[h].gen /\ world'[h].gen >= 1
      /\ world'[h].health \in {world[h].health, "up"}
  BY <1>2, <1>3, <1>4 DEF Rises
<1>8. Issued(world', q.row, q.key) BY <1>5, <1>7 DEF Issued
<1>9. Mends(world', r, q, c)
  <2> SUFFICES ASSUME ~r.hit, r.pc \notin Ends PROVE Planned(world', r, c) /\ Renewed(world', r, q) /\ CanReach(world', r, q)
    BY DEF Mends
  <2>1. Planned(world, r, c) /\ Renewed(world, r, p) /\ CanReach(world, r, p)
    BY <1>2 DEF RepairInv, Mends
  <2> HIDE DEF r, p
  <2>2. Planned(world', r, c) BY <2>1, <1>2, <1>3, <1>7 DEF Planned
  <2>3. Late(r) => world'[h].gen >= Due(r) BY <2>1, <1>2, <1>3, <1>7 DEF Renewed, Planned, Due
  <2>4. Renewed(world', r, q)
    <3>1. ~HeldMounts(r) BY <1>2 DEF HeldMounts
    <3>2. Late(r) /\ r.fresh => world'[h].gen >= r.born + 1 BY <2>3 DEF Due
    <3> QED BY <3>1, <3>2, <2>3, <1>2, <1>5 DEF Renewed
  <2>5. CanReach(world', r, q) BY <2>1, <1>2, <1>5, <1>7 DEF CanReach, HeldMounts
  <2> QED BY <2>2, <2>4, <2>5
<1> HIDE DEF h, p
<1> QED BY <1>1, <1>4, <1>6, <1>8, <1>9, OneMends

LEMMA DeliverMends ==
  ASSUME BindingInv, RepairInv, NEW c \in BindingCalls, resolution[c].at # "none",
         NEW outcome, outcome \in {"kept", "absent"} => resolution[c].at = outcome,
         NEW calls, Hurt(calls), outcome \notin {"kept", "absent"} => \A d \in BindingCalls : Open(d) => calls[d].hit,
         Deliver(c, outcome, calls), UNCHANGED world
  PROVE  RepairInv'
PROOF
<1> DEFINE p == resolution[c]
           cached == slot[p.key].at = "pending" /\ slot[p.key].of = c
           awaits(d) == call[d].pc = "waiting" /\ call[d].wait = c
           mounts(d) == IF calls[d].row.gen # Closed /\ calls[d].why # "resolve" THEN calls[d].row.mounts ELSE p.row.mounts
           row(d) == [gen |-> p.row.gen, mounts |-> mounts(d)]
           back(d) == [calls[d] EXCEPT !.pc = "resumed", !.wait = Nobody, !.got = outcome, !.row = row(d)]
           e == [at |-> outcome, of |-> Nobody, row |-> p.row]
<1>1. call[c].pc = "waiting" /\ call[c].wait = c /\ call[c].key = p.key /\ p.key \in BindingKeys BY PromiseKeys
<1>2. /\ call' = [d \in BindingCalls |-> IF awaits(d) THEN back(d) ELSE calls[d]]
      /\ slot' = IF ~cached THEN slot
                ELSE IF outcome # "kept" /\ p.tidy THEN Without(p.key)
                ELSE [slot EXCEPT ![p.key] = e]
      /\ resolution' = [resolution EXCEPT ![c] = Settled]
  BY DEF Deliver
<1>3. /\ resolution'[c].at = "none" /\ \A d \in BindingCalls : d # c => resolution'[d] = resolution[d]
  BY <1>2 DEF BindingInv, BindingShape, Settled
<1>4. outcome = "kept" => Issued(world, p.row, p.key) BY DEF RepairInv
<1>5. ASSUME NEW k \in BindingKeys, slot'[k].at = "kept" PROVE Issued(world, slot'[k].row, k)
  <2>1. slot'[k] \in {slot[k], Empty} \/ (k = p.key /\ slot'[k] = e)
    BY <1>2 DEF Without, BindingInv, BindingShape
  <2>2. Empty.at = "none" /\ e.at = outcome /\ e.row = p.row BY EmptyIsEntry
  <2> HIDE DEF e, p
  <2> QED BY <2>1, <2>2, <1>4, <1>5 DEF RepairInv
<1>6. ASSUME NEW d \in BindingCalls PROVE Mends(world, call'[d], resolution'[d], d)
  <2>1. /\ IsBindingCall(calls[d]) /\ (call[d].hit => calls[d].hit)
        /\ calls[d].pc = call[d].pc /\ calls[d].key = call[d].key /\ calls[d].plan = call[d].plan
        /\ calls[d].wait = call[d].wait /\ calls[d].got = call[d].got /\ calls[d].why = call[d].why
        /\ calls[d].row = call[d].row /\ calls[d].fresh = call[d].fresh /\ calls[d].born = call[d].born
    BY DEF Hurt
  <2>2. Mends(world, call[d], resolution[d], d) /\ BindingPlaced(d) BY DEF RepairInv, BindingInv
  <2>3. call'[d] = IF awaits(d) THEN back(d) ELSE calls[d] BY <1>2
  <2>4. CASE ~awaits(d)
    <3>1. d # c /\ call'[d] = calls[d] BY <2>3, <2>4, <1>1
    <3>2. Mends(world, calls[d], resolution[d], d)
      BY <2>1, <2>2 DEF Mends, Planned, Renewed, CanReach, HeldMounts, Late, Due
    <3> QED BY <3>1, <3>2, <1>3
  <2>5. CASE awaits(d)
    <3>1. /\ back(d).pc = "resumed" /\ back(d).wait = Nobody /\ back(d).got = outcome /\ back(d).row = row(d)
          /\ row(d).gen = p.row.gen /\ back(d).key = call[d].key /\ back(d).plan = call[d].plan
          /\ back(d).why = call[d].why /\ back(d).fresh = call[d].fresh /\ back(d).born = call[d].born
          /\ back(d).hit = calls[d].hit
      <4>1. row(d).gen = p.row.gen OBVIOUS
      <4> HIDE DEF row
      <4> QED BY <4>1, <2>1 DEF IsBindingCall
    <3>2. call[d].key = p.key /\ Open(d) BY <2>2, <2>5 DEF BindingPlaced, Open, Ends
    <3>3. call'[d] = back(d) /\ awaits(d) BY <2>3, <2>5
    <3> HIDE DEF back, row
    <3>4. PICK x : x = back(d) OBVIOUS
    <3>5. ASSUME ~x.hit PROVE Planned(world, x, d) /\ Renewed(world, x, resolution'[d]) /\ CanReach(world, x, resolution'[d])
      <4>1. outcome \in {"kept", "absent"} /\ p.at = outcome BY <3>1, <3>2, <3>4, <3>5
      <4>2. Planned(world, call[d], d) /\ Renewed(world, call[d], resolution[d]) /\ CanReach(world, call[d], resolution[d])
        BY <3>1, <3>2, <3>4, <3>5, <2>1, <2>2 DEF Mends, Open
      <4>3. call[d].why # "resolve" \/ call[d].plan = <<>> => d = c BY <4>2, <2>5 DEF Planned
      <4>4. Planned(world, x, d) BY <4>1, <4>2, <3>1, <3>4 DEF Planned
      <4>5. Late(x) => d = c /\ Late(call[d]) BY <4>3, <3>1, <3>4 DEF Late
      <4>6. HeldMounts(x) => Issued(world, x.row, x.key)
        BY <1>4, <3>1, <3>2, <3>4 DEF HeldMounts, Issued
      <4>7. HeldMounts(x) /\ Late(x) => x.row.gen >= Due(x)
        BY <4>1, <4>2, <4>5, <2>5, <3>1, <3>4 DEF HeldMounts, Renewed, Due
      <4>8. Renewed(world, x, resolution'[d]) BY <4>6, <4>7, <3>1, <3>4 DEF Renewed
      <4>9. CanReach(world, x, resolution'[d])
        BY <4>1, <4>2, <4>3, <2>5, <3>1, <3>4 DEF CanReach, HeldMounts
      <4> QED BY <4>4, <4>8, <4>9
    <3> QED BY <3>3, <3>4, <3>5 DEF Mends
  <2> QED BY <2>4, <2>5
<1>7. ASSUME NEW d \in BindingCalls, resolution'[d].at = "kept" PROVE Issued(world, resolution'[d].row, resolution'[d].key)
  BY <1>3, <1>7 DEF RepairInv
<1> QED BY <1>5, <1>6, <1>7 DEF RepairInv

LEMMA PromiseMends ==
  ASSUME BindingInv, RepairInv, NEW c \in BindingCalls, Settle(c) \/ ResolutionFails(c) PROVE RepairInv'
PROOF
<1>1. CASE Settle(c)
  <2>1. /\ resolution[c].at \in {"kept", "absent"} /\ Deliver(c, resolution[c].at, call) /\ UNCHANGED world BY <1>1 DEF Settle
  <2> QED BY <2>1, DisturbedHurts, DeliverMends
<1>2. CASE ResolutionFails(c)
  <2> DEFINE calls == Disturbed(call)
  <2>1. Hurt(calls) /\ \A d \in BindingCalls : Open(d) => calls[d].hit BY DisturbedHurts
  <2>2. resolution[c].at # "none" /\ Deliver(c, "failed", calls) /\ UNCHANGED world BY <1>2 DEF ResolutionFails
  <2> HIDE DEF calls
  <2> QED BY <2>1, <2>2, DeliverMends
<1> QED BY <1>1, <1>2

\* Whatever else happens is seen by every call under way.
LEMMA AllHurtMends ==
  ASSUME BindingInv, RepairInv, AllHurt, Emptied(slot'), UNCHANGED resolution,
         Counted(world'), \A h \in Homes : world'[h].gen >= world[h].gen
  PROVE  RepairInv'
PROOF
<1>1. ASSUME NEW k \in BindingKeys, NEW row, Issued(world, row, k) PROVE Issued(world', row, k)
  BY <1>1, KeysHaveHomes DEF Issued, RepairInv, Counted
<1>2. ASSUME NEW k \in BindingKeys, slot'[k].at = "kept" PROVE Issued(world', slot'[k].row, k)
  BY <1>1, <1>2, EmptyIsEntry DEF Emptied, RepairInv
<1>3. ASSUME NEW d \in BindingCalls, resolution'[d].at = "kept" PROVE Issued(world', resolution'[d].row, resolution'[d].key)
  <2>1. resolution[d].key \in BindingKeys BY <1>3, PromiseKeys
  <2> QED BY <2>1, <1>1, <1>3 DEF RepairInv
<1>4. ASSUME NEW d \in BindingCalls PROVE Mends(world', call'[d], resolution'[d], d)
  <2>1. call'[d].pc = call[d].pc /\ (Open(d) => call'[d].hit) BY DEF AllHurt
  <2> QED BY <2>1 DEF Mends, Open
<1> QED BY <1>2, <1>3, <1>4 DEF RepairInv

LEMMA DisturbancesMend ==
  ASSUME BindingInv, RepairInv,
         \/ \E h \in Homes, kind \in MutationKinds : Mutate(h, kind)
         \/ MutationReplied \/ MutationLost \/ DisposeBindings
         \/ \E h \in Homes, health \in {"stopped", "hung"} : Outage(h, health)
  PROVE  RepairInv'
PROOF
<1>1. DOMAIN world = Homes /\ \A h \in Homes : IsContainer(world[h]) /\ world[h].gen \in Nat
  BY DEF BindingInv, BindingShape, RepairInv, Counted
<1>2. ASSUME UNCHANGED world PROVE Counted(world') /\ \A h \in Homes : world'[h].gen >= world[h].gen
  BY <1>1, <1>2 DEF RepairInv
<1>3. ASSUME NEW h \in Homes, NEW w, world' = [world EXCEPT ![h] = w], w.gen \in Nat, w.gen >= world[h].gen,
             w.health \in {"up", "hung", "stopped", "absent"}
      PROVE  Counted(world') /\ \A g \in Homes : world'[g].gen >= world[g].gen
  <2>1. world'[h] = w /\ \A g \in Homes : g # h => world'[g] = world[g] BY <1>1, <1>3
  <2>2. \A g \in Homes : world'[g].gen >= world[g].gen BY <2>1, <1>1, <1>3
  <2>3. w.gen >= 1 BY <1>1, <1>3 DEF RepairInv, Counted
  <2> QED BY <2>1, <2>2, <2>3, <1>3 DEF RepairInv, Counted
<1>4. ASSUME NEW h \in Homes, NEW kind \in MutationKinds, Mutate(h, kind) PROVE RepairInv'
  <2> DEFINE gone == [world[h] EXCEPT !.health = "absent"]
             made == [gen |-> world[h].gen + 1, mounts |-> world[h].mounts + (IF kind = "mounts" THEN 1 ELSE 0), health |-> "up"]
  <2>1. AllHurt /\ Emptied(slot') /\ UNCHANGED resolution BY <1>4, DisturbedIsAllHurt, SlotKept DEF Mutate
  <2>2. world' = [world EXCEPT ![h] = gone] \/ world' = [world EXCEPT ![h] = made] BY <1>4 DEF Mutate
  <2>3. gone.gen = world[h].gen /\ gone.health = "absent" BY <1>1 DEF IsContainer
  <2>4. made.gen = world[h].gen + 1 /\ made.health = "up" OBVIOUS
  <2> HIDE DEF gone, made
  <2>5. /\ gone.gen \in Nat /\ gone.gen >= world[h].gen
        /\ made.gen \in Nat /\ made.gen >= world[h].gen
    BY <2>3, <2>4, <1>1
  <2>6. Counted(world') /\ \A g \in Homes : world'[g].gen >= world[g].gen BY <2>2, <2>3, <2>4, <2>5, <1>3
  <2> QED BY <2>1, <2>6, AllHurtMends
<1>5. CASE MutationReplied
  <2>1. AllHurt /\ UNCHANGED <<resolution, world>> BY <1>5, DisturbedIsAllHurt DEF MutationReplied
  <2>2. Emptied(slot') BY <1>5 DEF MutationReplied, Emptied
  <2> QED BY <2>1, <2>2, <1>2, AllHurtMends
<1>6. CASE MutationLost
  <2>1. AllHurt /\ Emptied(slot') /\ UNCHANGED <<resolution, world>>
    BY <1>6, DisturbedIsAllHurt, SlotKept DEF MutationLost
  <2> QED BY <2>1, <1>2, AllHurtMends
<1>7. CASE DisposeBindings
  <2>1. AllHurt /\ Emptied(slot') /\ UNCHANGED <<resolution, world>> BY <1>7, DisposedIsAllHurt
  <2> QED BY <2>1, <1>2, AllHurtMends
<1>8. ASSUME NEW h \in Homes, NEW health \in {"stopped", "hung"}, Outage(h, health) PROVE RepairInv'
  <2> DEFINE out == [world[h] EXCEPT !.health = health]
  <2>1. AllHurt /\ Emptied(slot') /\ UNCHANGED resolution BY <1>8, DisturbedIsAllHurt, SlotKept DEF Outage
  <2>2. world' = [world EXCEPT ![h] = out] BY <1>8 DEF Outage
  <2>3. out.gen = world[h].gen /\ out.health = health BY <1>1 DEF IsContainer
  <2> HIDE DEF out
  <2>4. out.gen \in Nat /\ out.gen >= world[h].gen /\ out.health \in {"up", "hung", "stopped", "absent"}
    BY <2>3, <1>1
  <2>5. Counted(world') /\ \A g \in Homes : world'[g].gen >= world[g].gen BY <2>2, <2>4, <1>3
  <2> QED BY <2>1, <2>5, AllHurtMends
<1> QED BY <1>4, <1>5, <1>6, <1>7, <1>8

LEMMA BindingInitMends == BindingInit => RepairInv
PROOF
<1> SUFFICES ASSUME BindingInit PROVE RepairInv OBVIOUS
<1>1. /\ \A h \in Homes : world[h] = [gen |-> 2, mounts |-> 0, health |-> "up"]
      /\ \A c \in BindingCalls : resolution[c].at = "none" /\ call[c].pc = "idle"
      /\ \A k \in BindingKeys : slot[k].at = "kept" => slot[k].row.gen = 1
  BY DEF BindingInit, IdleCall, Settled, Empty
<1>2. Counted(world) BY <1>1 DEF Counted
<1>3. ASSUME NEW k \in BindingKeys, slot[k].at = "kept" PROVE Issued(world, slot[k].row, k)
  <2>1. world[Home(k)].gen = 2 /\ slot[k].row.gen = 1 BY <1>1, <1>3, KeysHaveHomes
  <2> QED BY <2>1 DEF Issued
<1> QED BY <1>1, <1>2, <1>3 DEF RepairInv, Mends

LEMMA BindingNextMends == BindingInv /\ RepairInv /\ [BindingNext]_bindingVars => RepairInv'
PROOF
<1> SUFFICES ASSUME BindingInv, RepairInv, [BindingNext]_bindingVars PROVE RepairInv' OBVIOUS
<1>1. CASE UNCHANGED bindingVars
  BY <1>1 DEF bindingVars, RepairInv
<1>2. CASE \E c \in BindingCalls, key \in BindingKeys : StartCall(c, key) BY <1>2, StartCallMends
<1>3. ASSUME NEW c \in BindingCalls, BindingStep(c) PROVE RepairInv'
  BY <1>3, ResumeMends, PingMends, RecoverMends, UseMends DEF BindingStep
<1>4. ASSUME NEW c \in BindingCalls, PromiseStep(c) \/ ResolutionFails(c) PROVE RepairInv'
  BY <1>4, AnswerMends, PromiseMends DEF PromiseStep
<1>5. CASE \/ \E h \in Homes, kind \in MutationKinds : Mutate(h, kind)
           \/ MutationReplied \/ MutationLost \/ DisposeBindings
           \/ \E h \in Homes, health \in {"stopped", "hung"} : Outage(h, health)
  BY <1>5, DisturbancesMend
<1> QED BY <1>1, <1>2, <1>3, <1>4, <1>5 DEF BindingNext

LEMMA RepairInvHolds == BindingSpec => []RepairInv
PROOF BY BindingInitMends, BindingNextMends, BindingInvHolds, PTL DEF BindingSpec

-----------------------------------------------------------------------------
(* Which call a step fails. *)

LEMMA EndsOne ==
  ASSUME BindingInv, NEW c \in BindingCalls, NEW e \in BindingCalls, NEW r, NEW pc, End(e, r, pc)
  PROVE  IF c = e THEN call'[c].pc = pc /\ call'[c].hit = r.hit ELSE call'[c] = call[c]
PROOF BY DEF BindingInv, BindingShape, End, IdleCall

LEMMA AskFailsNone ==
  ASSUME BindingInv, NEW c \in BindingCalls, NEW e \in BindingCalls, NEW r, IsBindingCall(r),
         NEW why, NEW slots, Ask(e, r, why, slots), call[c].pc # "failed"
  PROVE  call'[c].pc # "failed"
PROOF
<1> DEFINE cached == slots[r.key]
           w(of) == [r EXCEPT !.pc = "waiting", !.why = why, !.wait = of]
           k == [r EXCEPT !.pc = "ping", !.row = cached.row]
<1>1. DOMAIN call = BindingCalls BY DEF BindingInv, BindingShape
<1>2. \A of : w(of).pc = "waiting" BY DEF IsBindingCall
<1>3. k.pc = "ping" BY DEF IsBindingCall
<1>4. \/ \E of : call' = [call EXCEPT ![e] = w(of)]
      \/ call' = [call EXCEPT ![e] = k]
      \/ End(e, r, "poisoned")
  BY DEF Ask
<1> HIDE DEF w, k
<1>5. CASE \E of : call' = [call EXCEPT ![e] = w(of)] BY <1>1, <1>2, <1>5
<1>6. CASE call' = [call EXCEPT ![e] = k] BY <1>1, <1>3, <1>6
<1>7. CASE End(e, r, "poisoned") BY <1>7, EndsOne
<1> QED BY <1>4, <1>5, <1>6, <1>7

\* A call whose repairs are spent.
LEMMA NotReadyFails ==
  ASSUME BindingInv, NEW c \in BindingCalls, NEW e \in BindingCalls, Open(e), NotReady(e),
         call[c].pc # "failed", call'[c].pc = "failed"
  PROVE  c = e /\ call[c].plan = <<>> /\ call'[c].hit = call[c].hit
PROOF
<1>1. IsBindingCall(call[e]) /\ DOMAIN call = BindingCalls BY DEF BindingInv, BindingShape
<1>2. CASE call[e].plan = <<>>
  <2>1. End(e, call[e], "failed") BY <1>2 DEF NotReady
  <2> QED BY <2>1, <1>2, EndsOne
<1>3. CASE call[e].plan # <<>> /\ Head(call[e].plan) = "recover"
  <2> DEFINE s == [call[e] EXCEPT !.pc = "recover"]
  <2>1. call' = [call EXCEPT ![e] = s] BY <1>3 DEF NotReady
  <2>2. s.pc = "recover" BY <1>1 DEF IsBindingCall
  <2> HIDE DEF s
  <2> QED BY <2>1, <2>2, <1>1
<1>4. CASE call[e].plan # <<>> /\ Head(call[e].plan) # "recover"
  <2> DEFINE r == [call[e] EXCEPT !.plan = Left(@), !.fresh = FALSE]
  <2>1. Ask(e, r, "resolve", Without(call[e].key)) BY <1>4 DEF NotReady
  <2>2. IsBindingCall(r) BY <1>1 DEF IsBindingCall
  <2> HIDE DEF r
  <2> QED BY <2>1, <2>2, AskFailsNone
<1> QED BY <1>2, <1>3, <1>4

LEMMA RefreshFailsNone ==
  ASSUME BindingInv, NEW c \in BindingCalls, NEW e \in BindingCalls, NEW why, Refresh(e, why), call[c].pc # "failed"
  PROVE  call'[c].pc # "failed"
PROOF
<1> DEFINE r == [call[e] EXCEPT !.fresh = TRUE]
<1>1. IsBindingCall(call[e]) BY DEF BindingInv, BindingShape
<1>2. Ask(e, r, why, Without(call[e].key)) /\ IsBindingCall(r) BY <1>1 DEF Refresh, IsBindingCall
<1> HIDE DEF r
<1> QED BY <1>2, AskFailsNone

\* What a failure may be blamed on.
Excused(c) ==
  \/ call'[c].hit
  \/ world[Home(call[c].key)].gen >= call[c].born + 2
  \/ call[c].key = "ptc" /\ world["ptc"].health = "hung"

\* A row that is due is rejected once more only by a container recreated again.
LEMMA RejectedLate ==
  ASSUME BindingInv, RepairInv, NEW c \in BindingCalls, call[c].pc \in {"ping", "use"}, ~call[c].hit, Late(call[c]),
         LET reached == Reach(call[c].row, Home(call[c].key))
         IN  reached # "accepted" /\ ~(reached = "rejected" /\ ~call[c].fresh)
  PROVE  \/ world[Home(call[c].key)].gen >= call[c].born + 2
         \/ call[c].key = "ptc" /\ world["ptc"].health = "hung"
PROOF
<1> DEFINE r == call[c]
           w == world[Home(r.key)]
<1>1. /\ w.gen \in Nat /\ Planned(world, r, c) /\ Renewed(world, r, resolution[c]) /\ CanReach(world, r, resolution[c])
      /\ r.key \in BindingKeys
  BY UnderWay DEF Open, Ends
<1>2. HeldMounts(r) BY DEF HeldMounts
<1>3. Issued(world, r.row, r.key) /\ r.row.gen >= Due(r) BY <1>1, <1>2 DEF Renewed
<1>4. w.health # "up" => r.key = "ptc" /\ w.health = "hung"
  <2>1. Late(r) => r.plan = <<>> \/ r.why # "resolve" \/ r.pc = "use" BY DEF Late
  <2> QED BY <2>1, <1>1, <1>2 DEF CanReach
<1>5. CASE w.health # "up" BY <1>4, <1>5 DEF Home
<1>6. CASE w.health = "up"
  <2>1. r.row.gen # 0 BY <1>3 DEF Issued
  <2>2. Reach(r.row, Home(r.key)) = IF r.row.gen # w.gen THEN "rejected" ELSE "accepted" BY <2>1, <1>6 DEF Reach, Closed
  <2>3. r.row.gen # w.gen /\ r.fresh BY <2>2
  <2>4. r.row.gen \in Nat /\ r.row.gen < w.gen BY <2>3, <1>1, <1>3 DEF Issued
  <2>5. r.born \in Nat /\ r.row.gen >= r.born + 1 BY <2>3, <1>1, <1>3 DEF Due, Planned
  <2> QED BY <2>4, <2>5, <1>1
<1> QED BY <1>5, <1>6

LEMMA StepFails ==
  ASSUME BindingInv, RepairInv, NEW c \in BindingCalls, NEW e \in BindingCalls, BindingStep(e),
         call[c].pc # "failed", call'[c].pc = "failed"
  PROVE  Excused(c)
PROOF
<1>1. IsBindingCall(call[e]) /\ DOMAIN call = BindingCalls BY DEF BindingInv, BindingShape
<1>2. CASE Resume(e)
  <2> DEFINE r == [call[e] EXCEPT !.got = "none"]
  <2>1. call[e].pc = "resumed" /\ Open(e) BY <1>2 DEF Resume, Open, Ends
  <2>2. call[e].hit \/ (Planned(world, call[e], e) /\ CanReach(world, call[e], resolution[e])) BY <2>1, UnderWay
  <2>3. r.why = call[e].why /\ r.hit = call[e].hit BY <1>1 DEF IsBindingCall
  <2>4. CASE call[e].got = "kept"
    <3> DEFINE s == [r EXCEPT !.pc = IF r.why = "reauth" THEN "use" ELSE "ping"]
    <3>1. call' = [call EXCEPT ![e] = s] BY <1>2, <2>4 DEF Resume
    <3>2. s.pc \in {"use", "ping"} BY <1>1 DEF IsBindingCall
    <3> HIDE DEF s
    <3> QED BY <3>1, <3>2, <1>1
  <2>5. CASE call[e].got # "kept" /\ r.why = "refresh"
    <3>1. NotReady(e) BY <1>2, <2>5 DEF Resume
    <3>2. c = e /\ call'[c].hit = call[c].hit BY <3>1, <2>1, NotReadyFails
    <3>3. call[e].hit BY <2>1, <2>2, <2>3, <2>5 DEF Planned, CanReach
    <3> QED BY <3>2, <3>3 DEF Excused
  <2>6. CASE call[e].got # "kept" /\ r.why # "refresh"
    <3> DEFINE pc == IF call[e].got = "absent" THEN "missing" ELSE "failed"
    <3>1. End(e, r, pc) BY <1>2, <2>6 DEF Resume
    <3> HIDE DEF r
    <3>2. c = e /\ pc = "failed" /\ call'[c].hit = call[c].hit BY <3>1, <2>3, EndsOne
    <3>3. call[e].hit BY <3>2, <2>1, <2>2, <2>6 DEF Planned
    <3> QED BY <3>2, <3>3 DEF Excused
  <2> QED BY <2>4, <2>5, <2>6
<1>3. CASE Ping(e)
  <2> DEFINE reached == Reach(call[e].row, Home(call[e].key))
  <2>1. call[e].pc = "ping" /\ Open(e) BY <1>3 DEF Ping, Open, Ends
  <2>2. CASE reached = "accepted"
    <3> DEFINE s == [call[e] EXCEPT !.pc = "use", !.fresh = FALSE]
    <3>1. call' = [call EXCEPT ![e] = s]
      BY <1>3, <2>2, <1>1, ZenonT(40) DEF Ping, IsBindingCall, BindingInv, BindingShape
    <3>2. s.pc = "use" BY <1>1 DEF IsBindingCall
    <3> HIDE DEF s
    <3> QED BY <3>1, <3>2, <1>1
  <2>3. CASE reached = "rejected" /\ ~call[e].fresh
    <3>1. Refresh(e, "refresh") BY <1>3, <2>3 DEF Ping
    <3> QED BY <3>1, RefreshFailsNone
  <2>4. CASE reached # "accepted" /\ ~(reached = "rejected" /\ ~call[e].fresh)
    <3>1. NotReady(e) BY <1>3, <2>4 DEF Ping
    <3>2. c = e /\ call[c].plan = <<>> /\ call'[c].hit = call[c].hit BY <3>1, <2>1, NotReadyFails
    <3> QED BY <3>2, <2>1, <2>4, RejectedLate DEF Excused, Late
  <2> QED BY <2>2, <2>3, <2>4
<1>4. CASE Recover(e)
  <2> DEFINE rest == [call[e] EXCEPT !.plan = Left(@), !.fresh = FALSE]
  <2>1. IsBindingCall(rest) BY <1>1 DEF IsBindingCall
  <2>2. \/ \E b, slots : Ask(e, [rest EXCEPT !.born = b], "resolve", slots)
        \/ \E slots : Ask(e, [rest EXCEPT !.hit = TRUE], "resolve", slots)
    BY <1>4 DEF Recover
  <2> HIDE DEF rest
  <2>3. IsBindingCall([rest EXCEPT !.hit = TRUE]) /\ \A b : IsBindingCall([rest EXCEPT !.born = b])
    BY <2>1 DEF IsBindingCall
  <2> QED BY <2>2, <2>3, AskFailsNone
<1>5. CASE Use(e)
  <2> DEFINE done == [call[e] EXCEPT !.effects = @ + 1]
             lost == [call[e] EXCEPT !.effects = @ + 1, !.hit = TRUE]
             reached == Reach(call[e].row, Home(call[e].key))
  <2>1. call[e].pc = "use" BY <1>5 DEF Use
  <2>2. \/ End(e, done, "done")
        \/ End(e, lost, "failed")
        \/ Refresh(e, "reauth")
        \/ /\ reached # "accepted" /\ ~(reached = "rejected" /\ ~call[e].fresh)
           /\ End(e, call[e], "failed")
    BY <1>5 DEF Use, LostReply
  <2>3. lost.hit BY <1>1 DEF IsBindingCall
  <2> HIDE DEF done, lost
  <2>4. CASE End(e, done, "done") BY <2>4, EndsOne
  <2>5. CASE End(e, lost, "failed") BY <2>3, <2>5, EndsOne DEF Excused
  <2>6. CASE Refresh(e, "reauth") BY <2>6, RefreshFailsNone
  <2>7. CASE /\ reached # "accepted" /\ ~(reached = "rejected" /\ ~call[e].fresh)
             /\ End(e, call[e], "failed")
    <3>1. c = e /\ call'[c].hit = call[c].hit BY <2>7, EndsOne
    <3> QED BY <3>1, <2>1, <2>7, RejectedLate DEF Excused, Late
  <2> QED BY <2>2, <2>4, <2>5, <2>6, <2>7
<1> QED BY <1>2, <1>3, <1>4, <1>5 DEF BindingStep

\* The steps of promises, disturbances and new calls fail no call.
LEMMA OthersFailNone ==
  ASSUME BindingInv, NEW c \in BindingCalls, call[c].pc # "failed",
         \/ \E d \in BindingCalls, key \in BindingKeys : StartCall(d, key)
         \/ \E d \in BindingCalls : PromiseStep(d) \/ ResolutionFails(d)
         \/ \E h \in Homes, kind \in MutationKinds : Mutate(h, kind)
         \/ MutationReplied \/ MutationLost \/ DisposeBindings
         \/ \E h \in Homes, health \in {"stopped", "hung"} : Outage(h, health)
  PROVE  call'[c].pc # "failed"
PROOF
<1>1. ASSUME NEW calls, Hurt(calls), NEW d, NEW outcome, Deliver(d, outcome, calls) PROVE call'[c].pc # "failed"
  <2> DEFINE row == [gen |-> resolution[d].row.gen,
                     mounts |-> IF calls[c].row.gen # Closed /\ calls[c].why # "resolve" THEN calls[c].row.mounts
                                ELSE resolution[d].row.mounts]
             back == [calls[c] EXCEPT !.pc = "resumed", !.wait = Nobody, !.got = outcome, !.row = row]
  <2>1. call'[c] = IF call[c].pc = "waiting" /\ call[c].wait = d THEN back ELSE calls[c] BY <1>1 DEF Deliver
  <2>2. IsBindingCall(calls[c]) /\ calls[c].pc = call[c].pc BY <1>1 DEF Hurt
  <2> HIDE DEF row
  <2>3. back.pc = "resumed" BY <2>2 DEF IsBindingCall
  <2> HIDE DEF back
  <2> QED BY <2>1, <2>2, <2>3
<1>2. ASSUME AllHurt PROVE call'[c].pc # "failed"
  <2>1. call'[c].pc = call[c].pc BY <1>2 DEF AllHurt
  <2> QED BY <2>1
<1>3. ASSUME NEW d \in BindingCalls, NEW key \in BindingKeys, StartCall(d, key) PROVE call'[c].pc # "failed"
  <2> DEFINE hit == mutation.kind \in MutationKinds
             r(plan, b) == [IdleCall EXCEPT !.key = key, !.plan = plan, !.hit = hit, !.born = b]
  <2>1. \E plan, b : Ask(d, r(plan, b), "resolve", slot) BY <1>3 DEF StartCall
  <2>2. ASSUME NEW plan, NEW b PROVE IsBindingCall(r(plan, b))
    <3>1. hit \in BOOLEAN OBVIOUS
    <3> HIDE DEF hit
    <3> DEFINE x == r(plan, b)
    <3>2. /\ x \in [pc : {x.pc}, key : {x.key}, plan : {x.plan}, wait : {x.wait}, got : {x.got}, why : {x.why},
                    row : {x.row}, fresh : {x.fresh}, hit : BOOLEAN, born : {x.born}, effects : {x.effects}]
          /\ x.row = NoRow
      BY <3>1 DEF IdleCall
    <3> HIDE DEF x, r
    <3>3. IsContainerRow(NoRow) BY DEF IsContainerRow, NoRow
    <3>4. IsBindingCall(x) BY <3>2, <3>3 DEF IsBindingCall
    <3> QED BY <3>4 DEF x
  <2> HIDE DEF r
  <2> QED BY <2>1, <2>2, AskFailsNone
<1>4. ASSUME NEW d \in BindingCalls, PromiseStep(d) \/ ResolutionFails(d) PROVE call'[c].pc # "failed"
  <2>1. CASE Answer(d) BY <2>1 DEF Answer
  <2>2. CASE Settle(d) BY <2>2, <1>1, DisturbedHurts DEF Settle
  <2>3. CASE ResolutionFails(d) BY <2>3, <1>1, DisturbedHurts DEF ResolutionFails
  <2> QED BY <1>4, <2>1, <2>2, <2>3 DEF PromiseStep
<1>5. CASE \E h \in Homes, kind \in MutationKinds : Mutate(h, kind) BY <1>5, <1>2, DisturbedIsAllHurt DEF Mutate
<1>6. CASE MutationReplied \/ MutationLost BY <1>6, <1>2, DisturbedIsAllHurt DEF MutationReplied, MutationLost
<1>7. CASE DisposeBindings BY <1>7, <1>2, DisposedIsAllHurt
<1>8. CASE \E h \in Homes, health \in {"stopped", "hung"} : Outage(h, health)
  BY <1>8, <1>2, DisturbedIsAllHurt DEF Outage
<1> QED BY <1>3, <1>4, <1>5, <1>6, <1>7, <1>8

\* A call fails only by what happened while it ran: around ensureAgentReady and
\* withGuestAuth a dead entry, a rotated credential, a stopped container and a hung
\* agent are repaired, whatever other calls repair meanwhile.  It takes a
\* disturbance of the call itself, two recreations by others, or a hung PTC
\* container, to fail it.
THEOREM FailuresAreExcused == BindingSpec => NoSpuriousFailure
PROOF
<1>1. BindingInv /\ RepairInv /\ [BindingNext]_bindingVars =>
        [\A c \in BindingCalls : call[c].pc # "failed" /\ call'[c].pc = "failed" => Excused(c)]_bindingVars
  <2> SUFFICES ASSUME BindingInv, RepairInv, BindingNext, NEW c \in BindingCalls,
                      call[c].pc # "failed", call'[c].pc = "failed"
               PROVE  Excused(c)
    OBVIOUS
  <2>1. CASE \E e \in BindingCalls : BindingStep(e) BY <2>1, StepFails
  <2>2. CASE ~\E e \in BindingCalls : BindingStep(e) BY <2>2, OthersFailNone DEF BindingNext
  <2> QED BY <2>1, <2>2
<1>2. BindingSpec => [][\A c \in BindingCalls : call[c].pc # "failed" /\ call'[c].pc = "failed" => Excused(c)]_bindingVars
  BY <1>1, BindingInvHolds, RepairInvHolds, PTL DEF BindingSpec
<1> QED BY <1>2 DEF NoSpuriousFailure, Excused

-----------------------------------------------------------------------------
(* Types.  The mounts of a container changed at most once per disturbance, *)
(* and a call that recovers has a repair left.                             *)

BindingReasons == {"resolve", "refresh", "reauth"}
BindingCallRecord ==
  [pc : BindingPCs, key : AllKeys, plan : Seq({"again", "recover"}), wait : BindingCalls \cup {Nobody},
   got : Outcomes \cup {"none"}, why : BindingReasons, row : Rows, fresh : BOOLEAN, hit : BOOLEAN,
   born : 0..MaxGeneration, effects : Nat]
PromiseRecord == [at : {"none", "asked", "kept", "absent"}, key : AllKeys, tidy : BOOLEAN, row : Rows]
EntryRecord == [at : {"none", "pending"} \cup Outcomes, of : BindingCalls \cup {Nobody}, row : Rows]
ContainerRecord ==
  [gen : 1..MaxGeneration, mounts : 0..MaxDisturbances, health : {"up", "hung", "stopped", "absent"}]

BindingTyped ==
  /\ BindingTypeOK
  /\ \A c \in BindingCalls : call[c].pc = "recover" => call[c].plan # <<>>
  /\ \A h \in Homes : world[h].mounts <= disturbances
  /\ mutation.kind \in MutationKinds => mutation.home \in Homes

\* The part of it about the calls and the cache.
CallsTyped ==
  /\ resolution \in [BindingCalls -> PromiseRecord]
  /\ slot \in [BindingKeys -> EntryRecord]
  /\ call \in [BindingCalls -> BindingCallRecord]
  /\ \A c \in BindingCalls : call[c].pc = "recover" => call[c].plan # <<>>

ContainersTyped ==
  /\ world \in [Homes -> ContainerRecord]
  /\ mutation \in [home : Homes \cup {"default"}, kind : MutationKinds \cup {"none"}, lost : SUBSET Homes]
  /\ disturbances \in 0..MaxDisturbances
  /\ \A h \in Homes : world[h].mounts <= disturbances
  /\ mutation.kind \in MutationKinds => mutation.home \in Homes

LEMMA BindingTypedParts ==
  /\ BindingTyped <=> CallsTyped /\ ContainersTyped
  /\ BindingTyped' <=> CallsTyped' /\ ContainersTyped'
PROOF
  BY DEF BindingTyped, CallsTyped, ContainersTyped, BindingTypeOK, BindingCallRecord, PromiseRecord, EntryRecord,
         ContainerRecord, BindingReasons

LEMMA ClosedRowTyped == NoRow \in Rows /\ \A row \in Rows : [row EXCEPT !.gen = Closed] \in Rows
PROOF BY BindingAssumption DEF NoRow, Rows, Closed

LEMMA ContainerRowTyped ==
  ASSUME ContainersTyped, NEW h \in Homes
  PROVE  /\ RowOf(h) \in Rows
         /\ world[h].gen < MaxGeneration => [RowOf(h) EXCEPT !.gen = @ + 1] \in Rows
PROOF BY BindingAssumption DEF ContainersTyped, ContainerRecord, RowOf, Rows

LEMMA CallFieldsTyped ==
  ASSUME NEW x \in BindingCallRecord
  PROVE  /\ \A pc \in BindingPCs : [x EXCEPT !.pc = pc] \in BindingCallRecord
         /\ \A row \in Rows : [x EXCEPT !.row = row] \in BindingCallRecord
         /\ [x EXCEPT !.hit = TRUE] \in BindingCallRecord
         /\ \A b \in BOOLEAN : [x EXCEPT !.fresh = b] \in BindingCallRecord
PROOF BY DEF BindingCallRecord

LEMMA IdleTyped == IdleCall \in BindingCallRecord /\ Empty \in EntryRecord /\ Settled \in PromiseRecord
PROOF
<1>1. <<>> \in Seq({"again", "recover"}) OBVIOUS
<1>2. 0 \in 0..MaxGeneration BY BindingAssumption
<1> QED BY <1>1, <1>2, ClosedRowTyped
       DEF IdleCall, Empty, Settled, BindingCallRecord, EntryRecord, PromiseRecord, BindingPCs, Ends, AllKeys, Outcomes, BindingReasons

LEMMA EndTyped ==
  ASSUME call \in [BindingCalls -> BindingCallRecord], \A d \in BindingCalls : call[d].pc = "recover" => call[d].plan # <<>>,
         NEW c \in BindingCalls, NEW r, r.key \in AllKeys, r.hit \in BOOLEAN, r.effects \in Nat,
         NEW pc \in Ends, End(c, r, pc)
  PROVE  /\ call' \in [BindingCalls -> BindingCallRecord]
         /\ \A d \in BindingCalls : call'[d].pc = "recover" => call'[d].plan # <<>>
PROOF
<1> DEFINE e == [IdleCall EXCEPT !.pc = pc, !.key = r.key, !.hit = r.hit, !.effects = r.effects]
<1>1. e \in BindingCallRecord /\ e.pc = pc
  BY IdleTyped DEF BindingCallRecord, BindingPCs
<1>2. pc # "recover" BY DEF Ends
<1>3. call' = [call EXCEPT ![c] = e] BY DEF End
<1> HIDE DEF e
<1> QED BY <1>1, <1>2, <1>3

LEMMA AskTyped ==
  ASSUME CallsTyped, NEW c \in BindingCalls, NEW r \in BindingCallRecord, r.key \in BindingKeys,
         NEW why \in BindingReasons, NEW slots \in [BindingKeys -> EntryRecord], Ask(c, r, why, slots)
  PROVE  CallsTyped'
PROOF
<1> DEFINE cached == slots[r.key]
<1>0. cached \in EntryRecord /\ r.key \in AllKeys BY DEF BindingCallRecord
<1>1. CASE cached.at = "none"
  <2>1. /\ resolution' = [resolution EXCEPT ![c] =
              [at |-> "asked", key |-> r.key, tidy |-> why = "resolve" \/ r.key = "session", row |-> NoRow]]
        /\ slot' = [slots EXCEPT ![r.key] = [at |-> "pending", of |-> c, row |-> NoRow]]
        /\ call' = [call EXCEPT ![c] = [r EXCEPT !.pc = "waiting", !.why = why, !.wait = c]]
    BY <1>1 DEF Ask
  <2>2. [at |-> "asked", key |-> r.key, tidy |-> why = "resolve" \/ r.key = "session", row |-> NoRow] \in PromiseRecord
    BY <1>0, ClosedRowTyped DEF PromiseRecord
  <2>3. [at |-> "pending", of |-> c, row |-> NoRow] \in EntryRecord BY ClosedRowTyped DEF EntryRecord
  <2>4. [r EXCEPT !.pc = "waiting", !.why = why, !.wait = c] \in BindingCallRecord
        /\ [r EXCEPT !.pc = "waiting", !.why = why, !.wait = c].pc = "waiting" BY DEF BindingCallRecord, BindingPCs
  <2> QED BY <2>1, <2>2, <2>3, <2>4 DEF CallsTyped
<1>2. CASE cached.at = "pending"
  <2>1. /\ call' = [call EXCEPT ![c] = [r EXCEPT !.pc = "waiting", !.why = why, !.wait = cached.of]]
        /\ slot' = slots /\ resolution' = resolution
    BY <1>2 DEF Ask
  <2>2. [r EXCEPT !.pc = "waiting", !.why = why, !.wait = cached.of] \in BindingCallRecord
        /\ [r EXCEPT !.pc = "waiting", !.why = why, !.wait = cached.of].pc = "waiting"
    BY <1>0 DEF BindingCallRecord, BindingPCs, EntryRecord
  <2> QED BY <2>1, <2>2 DEF CallsTyped
<1>3. CASE cached.at = "kept"
  <2>1. /\ call' = [call EXCEPT ![c] = [r EXCEPT !.pc = "ping", !.row = cached.row]]
        /\ slot' = slots /\ resolution' = resolution
    BY <1>3 DEF Ask
  <2>2. [r EXCEPT !.pc = "ping", !.row = cached.row] \in BindingCallRecord
        /\ [r EXCEPT !.pc = "ping", !.row = cached.row].pc = "ping"
    BY <1>0 DEF BindingCallRecord, BindingPCs, EntryRecord
  <2> QED BY <2>1, <2>2 DEF CallsTyped
<1>4. CASE cached.at \notin {"none", "pending", "kept"}
  <2>1. End(c, r, "poisoned") /\ slot' = slots /\ resolution' = resolution BY <1>4 DEF Ask
  <2>2. r.key \in AllKeys /\ r.hit \in BOOLEAN /\ r.effects \in Nat /\ "poisoned" \in Ends BY DEF BindingCallRecord, Ends
  <2> QED BY <2>1, <2>2, EndTyped DEF CallsTyped
<1> QED BY <1>1, <1>2, <1>3, <1>4

LEMMA EndCallTyped ==
  ASSUME CallsTyped, NEW c \in BindingCalls, NEW r \in BindingCallRecord, NEW pc \in Ends, End(c, r, pc),
         slot' = slot, resolution' = resolution
  PROVE  CallsTyped'
PROOF
<1>1. r.key \in AllKeys /\ r.hit \in BOOLEAN /\ r.effects \in Nat BY DEF BindingCallRecord
<1> QED BY <1>1, EndTyped DEF CallsTyped

LEMMA WithoutOneTyped ==
  ASSUME CallsTyped
  PROVE  /\ slot \in [BindingKeys -> EntryRecord]
         /\ \A key : Without(key) \in [BindingKeys -> EntryRecord]
PROOF BY IdleTyped DEF CallsTyped, Without

\* A call that is under way, as the invariant knows it.
LEMMA OpenCallTyped ==
  ASSUME CallsTyped, BindingInv, NEW c \in BindingCalls, Open(c)
  PROVE  call[c] \in BindingCallRecord /\ call[c].key \in BindingKeys
PROOF BY DEF CallsTyped, BindingInv, BindingPlaced

\* A repair less.
LEMMA LeftTyped ==
  ASSUME NEW r \in BindingCallRecord, r.plan # <<>>
  PROVE  [r EXCEPT !.plan = Left(@), !.fresh = FALSE] \in BindingCallRecord
PROOF
<1>1. Tail(r.plan) \in Seq({"again", "recover"})
  <2>1. r.plan \in Seq({"again", "recover"}) BY DEF BindingCallRecord
  <2> QED BY <2>1
<1> QED BY <1>1 DEF BindingCallRecord, Left

LEMMA EffectTyped ==
  ASSUME NEW x \in BindingCallRecord
  PROVE  /\ [x EXCEPT !.effects = @ + 1] \in BindingCallRecord
         /\ [x EXCEPT !.effects = @ + 1, !.hit = TRUE] \in BindingCallRecord
PROOF
<1>1. x.effects \in Nat BY DEF BindingCallRecord
<1>2. x.effects + 1 \in Nat BY <1>1
<1>3. \A n \in Nat : [x EXCEPT !.effects = n] \in BindingCallRecord /\ [x EXCEPT !.effects = n, !.hit = TRUE] \in BindingCallRecord
  BY DEF BindingCallRecord
<1> QED BY <1>2, <1>3

LEMMA StartedTyped ==
  ASSUME NEW key \in AllKeys, NEW plan \in Seq({"again", "recover"}), NEW b \in BOOLEAN, NEW n \in 0..MaxGeneration
  PROVE  /\ [IdleCall EXCEPT !.key = key, !.plan = plan, !.hit = b, !.born = n] \in BindingCallRecord
         /\ [IdleCall EXCEPT !.key = key, !.plan = plan, !.hit = b, !.born = n].key = key
PROOF BY IdleTyped DEF BindingCallRecord

LEMMA CreatedTyped ==
  ASSUME NEW x \in ContainerRecord, x.gen < MaxGeneration
  PROVE  LET up == [x EXCEPT !.gen = @ + 1, !.health = "up"] IN up \in ContainerRecord /\ up.mounts = x.mounts
PROOF
<1>1. x.gen + 1 \in 1..MaxGeneration BY BindingAssumption DEF ContainerRecord
<1>2. \A n \in 1..MaxGeneration :
        [x EXCEPT !.gen = n, !.health = "up"] \in ContainerRecord /\ [x EXCEPT !.gen = n, !.health = "up"].mounts = x.mounts
  BY DEF ContainerRecord
<1> QED BY <1>1, <1>2

LEMMA RepairsTyped == \A key \in AllKeys : Repairs(key) \in Seq({"again", "recover"})
PROOF
<1>1. /\ <<"again">> \in Seq({"again", "recover"}) /\ <<"recover">> \in Seq({"again", "recover"})
      /\ <<"again", "recover">> \in Seq({"again", "recover"})
  OBVIOUS
<1>2. \A key \in AllKeys : Repairs(key) \in {<<"again">>, <<"recover">>, <<"again", "recover">>}
  BY Zenon DEF Repairs, AllKeys
<1> QED BY <1>1, <1>2

\* The containers after a disturbance that leaves them, and after a creation.
LEMMA DisturbTyped ==
  ASSUME ContainersTyped, world' = world, mutation' = mutation, disturbances' = disturbances \/ Disturb
  PROVE  ContainersTyped'
PROOF
<1>1. disturbances' \in 0..MaxDisturbances /\ disturbances <= disturbances'
  BY BindingAssumption DEF ContainersTyped, Disturb
<1>2. \A h \in Homes : world[h].mounts \in Nat BY BindingAssumption DEF ContainersTyped, ContainerRecord
<1>3. \A h \in Homes : world'[h].mounts <= disturbances' BY <1>1, <1>2, BindingAssumption DEF ContainersTyped
<1> QED BY <1>1, <1>3 DEF ContainersTyped

LEMMA RaisedTyped ==
  ASSUME ContainersTyped, NEW h \in Homes, world[h].gen < MaxGeneration,
         world' = [world EXCEPT ![h].gen = @ + 1, ![h].health = "up"],
         mutation' = mutation, disturbances' = disturbances
  PROVE  ContainersTyped'
PROOF
<1>1. world[h] \in ContainerRecord BY DEF ContainersTyped
<1> DEFINE up == [world[h] EXCEPT !.gen = @ + 1, !.health = "up"]
<1>2. up \in ContainerRecord /\ up.mounts = world[h].mounts BY <1>1, CreatedTyped
<1>3. world' = [world EXCEPT ![h] = up] BY DEF ContainersTyped
<1> HIDE DEF up
<1> QED BY <1>2, <1>3 DEF ContainersTyped

LEMMA StartCallTyped ==
  ASSUME CallsTyped, ContainersTyped, NEW c \in BindingCalls, NEW key \in BindingKeys, StartCall(c, key)
  PROVE  CallsTyped' /\ ContainersTyped'
PROOF
<1> DEFINE r == [IdleCall EXCEPT !.key = key, !.plan = Repairs(key), !.hit = mutation.kind \in MutationKinds,
                                 !.born = world[Home(key)].gen]
<1>1. key \in AllKeys BY KeysAre DEF AllKeys
<1>2. Repairs(key) \in Seq({"again", "recover"}) BY <1>1, RepairsTyped
<1>3. world[Home(key)].gen \in 0..MaxGeneration
  <2>1. world[Home(key)] \in ContainerRecord BY DEF ContainersTyped, Homes
  <2>2. world[Home(key)].gen \in 1..MaxGeneration BY <2>1 DEF ContainerRecord
  <2> QED BY <2>2, BindingAssumption
<1>4. r \in BindingCallRecord /\ r.key = key 
  <2>1. (mutation.kind \in MutationKinds) \in BOOLEAN OBVIOUS
  <2>2. \A b \in BOOLEAN :
          /\ [IdleCall EXCEPT !.key = key, !.plan = Repairs(key), !.hit = b, !.born = world[Home(key)].gen] \in BindingCallRecord
          /\ [IdleCall EXCEPT !.key = key, !.plan = Repairs(key), !.hit = b, !.born = world[Home(key)].gen].key = key
    <3> SUFFICES ASSUME NEW b \in BOOLEAN,
                        NEW plan \in Seq({"again", "recover"}), NEW n \in 0..MaxGeneration
                 PROVE  /\ [IdleCall EXCEPT !.key = key, !.plan = plan, !.hit = b, !.born = n] \in BindingCallRecord
                        /\ [IdleCall EXCEPT !.key = key, !.plan = plan, !.hit = b, !.born = n].key = key
      BY <1>2, <1>3, Zenon
    <3> QED BY <1>1, StartedTyped, Zenon
  <2> QED BY <2>1, <2>2, Zenon
<1>5. Ask(c, r, "resolve", slot) /\ UNCHANGED <<world, mutation, disturbances>> BY DEF StartCall
<1>6. slot \in [BindingKeys -> EntryRecord] /\ "resolve" \in BindingReasons BY DEF CallsTyped, BindingReasons
<1> HIDE DEF r
<1>7. CallsTyped' BY <1>4, <1>5, <1>6, AskTyped
<1>8. ContainersTyped' BY <1>5 DEF ContainersTyped
<1> QED BY <1>7, <1>8

LEMMA NotReadyTyped ==
  ASSUME CallsTyped, NEW c \in BindingCalls, call[c].key \in BindingKeys, NotReady(c)
  PROVE  CallsTyped'
PROOF
<1> DEFINE r == call[c]
<1>1. r \in BindingCallRecord BY DEF CallsTyped
<1>2. CASE r.plan = <<>>
  BY <1>1, <1>2, EndCallTyped DEF NotReady, Ends
<1>3. CASE r.plan # <<>> /\ Head(r.plan) = "recover"
  <2>1. /\ call' = [call EXCEPT ![c] = [r EXCEPT !.pc = "recover"]]
        /\ slot' \in {slot, Without(r.key)} /\ resolution' = resolution
    BY <1>3 DEF NotReady
  <2>2. slot' \in [BindingKeys -> EntryRecord] BY <2>1, WithoutOneTyped
  <2>3. [r EXCEPT !.pc = "recover"] \in BindingCallRecord BY <1>1, CallFieldsTyped DEF BindingPCs
  <2>4. [r EXCEPT !.pc = "recover"].plan = r.plan BY <1>1 DEF BindingCallRecord
  <2> HIDE DEF r
  <2> QED BY <1>3, <2>1, <2>2, <2>3, <2>4 DEF CallsTyped
<1>4. CASE r.plan # <<>> /\ Head(r.plan) # "recover"
  <2> DEFINE s == [r EXCEPT !.plan = Left(@), !.fresh = FALSE]
  <2>1. s \in BindingCallRecord BY <1>1, <1>4, LeftTyped
  <2>2. s.key = r.key BY <1>1 DEF BindingCallRecord
  <2>3. Ask(c, s, "resolve", Without(r.key)) BY <1>4 DEF NotReady
  <2>4. "resolve" \in BindingReasons BY DEF BindingReasons
  <2> HIDE DEF s
  <2> QED BY <2>1, <2>2, <2>3, <2>4, AskTyped, WithoutOneTyped
<1> QED BY <1>2, <1>3, <1>4

LEMMA RefreshTyped ==
  ASSUME CallsTyped, NEW c \in BindingCalls, call[c].key \in BindingKeys, NEW why \in BindingReasons, Refresh(c, why)
  PROVE  CallsTyped'
PROOF
<1> DEFINE s == [call[c] EXCEPT !.fresh = TRUE]
<1>1. call[c] \in BindingCallRecord BY DEF CallsTyped
<1>2. s \in BindingCallRecord BY <1>1, CallFieldsTyped
<1>3. s.key = call[c].key BY <1>1 DEF BindingCallRecord
<1>4. Ask(c, s, why, Without(call[c].key)) BY DEF Refresh
<1> HIDE DEF s
<1> QED BY <1>2, <1>3, <1>4, AskTyped, WithoutOneTyped

LEMMA StepTyped ==
  ASSUME CallsTyped, ContainersTyped, BindingInv, NEW c \in BindingCalls, Resume(c) \/ Ping(c) \/ Use(c)
  PROVE  CallsTyped' /\ ContainersTyped'
PROOF
<1>0. Open(c) BY DEF Resume, Ping, Use, Open, Ends
<1>1. call[c] \in BindingCallRecord /\ call[c].key \in BindingKeys BY <1>0, OpenCallTyped
<1>2. CASE Resume(c)
  <2> DEFINE r == [call[c] EXCEPT !.got = "none"]
  <2>0. r \in BindingCallRecord BY <1>1 DEF BindingCallRecord
  <2>1. ContainersTyped' BY <1>2 DEF Resume, ContainersTyped
  <2>2. CASE call[c].got = "kept"
    <3>1. PICK pc \in {"use", "ping"} : call' = [call EXCEPT ![c] = [r EXCEPT !.pc = pc]]
      BY <1>2, <2>2 DEF Resume
    <3>2. [r EXCEPT !.pc = pc] \in BindingCallRecord /\ [r EXCEPT !.pc = pc].pc = pc
      BY <2>0 DEF BindingCallRecord, BindingPCs
    <3>3. slot' = slot /\ resolution' = resolution BY <1>2, <2>2 DEF Resume
    <3> HIDE DEF r
    <3> QED BY <2>1, <3>1, <3>2, <3>3 DEF CallsTyped
  <2>3. CASE call[c].got # "kept" /\ r.why = "refresh"
    <3>1. NotReady(c) BY <1>2, <2>3 DEF Resume
    <3> QED BY <1>1, <2>1, <3>1, NotReadyTyped
  <2>4. CASE call[c].got # "kept" /\ r.why # "refresh"
    <3>1. PICK pc \in {"missing", "failed"} : End(c, r, pc) BY <1>2, <2>4 DEF Resume
    <3>2. slot' = slot /\ resolution' = resolution BY <1>2, <2>4 DEF Resume
    <3>3. pc \in Ends BY DEF Ends
    <3> HIDE DEF r
    <3> QED BY <2>0, <2>1, <3>1, <3>2, <3>3, EndCallTyped
  <2> QED BY <2>2, <2>3, <2>4
<1>3. CASE Ping(c)
  <2>1. ContainersTyped' BY <1>3 DEF Ping, ContainersTyped
  <2>2. CASE Reach(call[c].row, Home(call[c].key)) = "accepted"
    <3>1. /\ call' = [call EXCEPT ![c] = [call[c] EXCEPT !.pc = "use", !.fresh = FALSE]]
          /\ slot' = slot /\ resolution' = resolution
      BY <1>3, <2>2 DEF Ping, CallsTyped
    <3>2. [call[c] EXCEPT !.pc = "use", !.fresh = FALSE] \in BindingCallRecord
          /\ [call[c] EXCEPT !.pc = "use", !.fresh = FALSE].pc = "use"
      BY <1>1 DEF BindingCallRecord, BindingPCs
    <3> QED BY <2>1, <3>1, <3>2 DEF CallsTyped
  <2>3. CASE Reach(call[c].row, Home(call[c].key)) # "accepted"
    <3>1. Refresh(c, "refresh") \/ NotReady(c) BY <1>3, <2>3 DEF Ping
    <3>2. "refresh" \in BindingReasons BY DEF BindingReasons
    <3> QED BY <1>1, <2>1, <3>1, <3>2, RefreshTyped, NotReadyTyped
  <2> QED BY <2>2, <2>3
<1>4. CASE Use(c)
  <2> DEFINE r == call[c]
  <2>1. ContainersTyped'
    <3>1. world' = world /\ mutation' = mutation BY <1>4 DEF Use
    <3>2. disturbances' = disturbances \/ Disturb BY <1>4 DEF Use
    <3> QED BY <3>1, <3>2, DisturbTyped
  <2>2. CASE Refresh(c, "reauth")
    BY <1>1, <2>1, <2>2, RefreshTyped DEF BindingReasons
  <2>3. CASE ~Refresh(c, "reauth")
    <3>1. /\ slot' = slot /\ resolution' = resolution
          /\ \/ End(c, [r EXCEPT !.effects = @ + 1], "done")
             \/ End(c, [r EXCEPT !.effects = @ + 1, !.hit = TRUE], "failed")
             \/ End(c, r, "failed")
      BY <1>4, <2>3 DEF Use, LostReply
    <3>2. /\ [r EXCEPT !.effects = @ + 1] \in BindingCallRecord
          /\ [r EXCEPT !.effects = @ + 1, !.hit = TRUE] \in BindingCallRecord
      BY <1>1, EffectTyped
    <3>3. "done" \in Ends /\ "failed" \in Ends BY DEF Ends
    <3> HIDE DEF r
    <3> QED BY <1>1, <2>1, <3>1, <3>2, <3>3, EndCallTyped DEF r
  <2> QED BY <2>2, <2>3
<1> QED BY <1>2, <1>3, <1>4

LEMMA RecoverTyped ==
  ASSUME CallsTyped, ContainersTyped, BindingInv, NEW c \in BindingCalls, Recover(c)
  PROVE  CallsTyped' /\ ContainersTyped'
PROOF
<1> DEFINE rest == [call[c] EXCEPT !.plan = Left(@), !.fresh = FALSE]
           h == Home(rest.key)
           kept == IF rest.key = "session" THEN Without("session") ELSE slot
           fewer == [key \in BindingKeys |-> IF key = "named" THEN Empty ELSE kept[key]]
           own == [rest EXCEPT !.born = world[h].gen + 1]
           hurt == [rest EXCEPT !.hit = TRUE]
<1>0. Open(c) BY DEF Recover, Open, Ends
<1>1. call[c] \in BindingCallRecord /\ call[c].key \in BindingKeys BY <1>0, OpenCallTyped
<1>2. call[c].plan # <<>> BY DEF Recover, CallsTyped
<1>3. rest \in BindingCallRecord BY <1>1, <1>2, LeftTyped
<1>4. rest.key = call[c].key BY <1>1 DEF BindingCallRecord
<1>5. h \in Homes BY <1>1, <1>4 DEF Homes
<1>6. kept \in [BindingKeys -> EntryRecord] BY WithoutOneTyped
<1>7. fewer \in [BindingKeys -> EntryRecord] BY <1>6, IdleTyped
<1>8. \/ /\ world[h].gen < MaxGeneration
         /\ world' = [world EXCEPT ![h].gen = @ + 1, ![h].health = "up"]
         /\ Ask(c, own, "resolve", fewer) /\ disturbances' = disturbances
      \/ /\ disturbances' = disturbances \/ Disturb
         /\ Ask(c, hurt, "resolve", kept) /\ world' = world
  BY DEF Recover
<1>9. mutation' = mutation BY DEF Recover
<1>10. "resolve" \in BindingReasons BY DEF BindingReasons
<1>11. CASE /\ world[h].gen < MaxGeneration
            /\ world' = [world EXCEPT ![h].gen = @ + 1, ![h].health = "up"]
            /\ Ask(c, own, "resolve", fewer) /\ disturbances' = disturbances
  <2> HIDE DEF fewer, kept, rest, h
  <2>1. world[h] \in ContainerRecord BY <1>5 DEF ContainersTyped
  <2>2. world[h].gen + 1 \in 0..MaxGeneration BY <1>11, <2>1, BindingAssumption DEF ContainerRecord
  <2>3. own \in BindingCallRecord /\ own.key \in BindingKeys BY <1>1, <1>3, <1>4, <2>2 DEF BindingCallRecord
  <2> HIDE DEF own
  <2>4. CallsTyped' BY <1>7, <1>10, <1>11, <2>3, AskTyped
  <2>5. ContainersTyped' BY <1>5, <1>9, <1>11, RaisedTyped
  <2> QED BY <2>4, <2>5
<1>12. CASE /\ disturbances' = disturbances \/ Disturb
            /\ Ask(c, hurt, "resolve", kept) /\ world' = world
  <2> HIDE DEF fewer, kept, rest, h
  <2>1. hurt \in BindingCallRecord /\ hurt.key \in BindingKeys BY <1>1, <1>3, <1>4 DEF BindingCallRecord
  <2> HIDE DEF hurt
  <2>2. CallsTyped' BY <1>6, <1>10, <1>12, <2>1, AskTyped
  <2>3. ContainersTyped' BY <1>9, <1>12, DisturbTyped
  <2> QED BY <2>2, <2>3
<1> QED BY <1>8, <1>11, <1>12

LEMMA PromiseFieldsTyped ==
  ASSUME NEW x \in PromiseRecord, NEW row \in Rows, NEW at \in {"kept", "absent"}
  PROVE  [x EXCEPT !.at = at, !.row = row] \in PromiseRecord
PROOF BY DEF PromiseRecord

LEMMA AnswerTyped ==
  ASSUME CallsTyped, ContainersTyped, BindingInv, NEW c \in BindingCalls, Answer(c)
  PROVE  CallsTyped' /\ ContainersTyped'
PROOF
<1> DEFINE p == resolution[c]
           h == Home(p.key)
<1>1. p \in PromiseRecord BY DEF CallsTyped
<1>2. p.key \in BindingKeys
  <2>1. p.at # "none" BY DEF Answer
  <2>2. Open(c) /\ call[c].key = p.key BY <2>1 DEF BindingInv, PromiseSound, Open, Ends
  <2> QED BY <2>2, OpenCallTyped
<1>3. h \in Homes BY <1>2 DEF Homes
<1>4. RowOf(h) \in Rows /\ (world[h].gen < MaxGeneration => [RowOf(h) EXCEPT !.gen = @ + 1] \in Rows) BY <1>3, ContainerRowTyped
<1>5. slot' = slot /\ call' = call /\ mutation' = mutation /\ disturbances' = disturbances BY DEF Answer
<1>6. CASE /\ Creates(p) /\ world[h].gen < MaxGeneration
           /\ world' = [world EXCEPT ![h].gen = @ + 1, ![h].health = "up"]
           /\ resolution' = [resolution EXCEPT ![c].at = "kept", ![c].row = [RowOf(h) EXCEPT !.gen = @ + 1]]
  <2>1. [p EXCEPT !.at = "kept", !.row = [RowOf(h) EXCEPT !.gen = @ + 1]] \in PromiseRecord
    BY <1>1, <1>4, <1>6, PromiseFieldsTyped
  <2>2. resolution' = [resolution EXCEPT ![c] = [p EXCEPT !.at = "kept", !.row = [RowOf(h) EXCEPT !.gen = @ + 1]]]
    BY <1>6 DEF CallsTyped
  <2> HIDE DEF p, h
  <2>3. CallsTyped' BY <1>5, <2>1, <2>2 DEF CallsTyped
  <2> QED BY <1>3, <1>5, <1>6, <2>3, RaisedTyped
<1>7. CASE /\ ~Creates(p)
           /\ resolution' = [resolution EXCEPT
                ![c].at = IF world[h].health = "absent" THEN "absent" ELSE "kept", ![c].row = RowOf(h)]
           /\ world' = world
  <2>1. PICK at \in {"absent", "kept"} : at = IF world[h].health = "absent" THEN "absent" ELSE "kept" OBVIOUS
  <2>2. [p EXCEPT !.at = at, !.row = RowOf(h)] \in PromiseRecord BY <1>1, <1>4, PromiseFieldsTyped
  <2>3. resolution' = [resolution EXCEPT ![c] = [p EXCEPT !.at = at, !.row = RowOf(h)]] BY <1>7, <2>1 DEF CallsTyped
  <2> HIDE DEF p, h
  <2>4. CallsTyped' BY <1>5, <2>2, <2>3 DEF CallsTyped
  <2> QED BY <1>5, <1>7, <2>4 DEF ContainersTyped
<1> QED BY <1>6, <1>7 DEF Answer

LEMMA DeliverTyped ==
  ASSUME CallsTyped, BindingInv, NEW c \in BindingCalls, resolution[c].at # "none",
         NEW outcome \in Outcomes, NEW calls \in [BindingCalls -> BindingCallRecord],
         \A d \in BindingCalls : calls[d].pc = "recover" => calls[d].plan # <<>>, Deliver(c, outcome, calls)
  PROVE  CallsTyped'
PROOF
<1> DEFINE p == resolution[c]
           mounts(d) == IF calls[d].row.gen # Closed /\ calls[d].why # "resolve" THEN calls[d].row.mounts ELSE p.row.mounts
           told(d) == [calls[d] EXCEPT !.pc = "resumed", !.wait = Nobody, !.got = outcome,
                                       !.row = [gen |-> p.row.gen, mounts |-> mounts(d)]]
<1>1. p \in PromiseRecord BY DEF CallsTyped
<1>2. p.key \in BindingKeys
  <2>1. Open(c) /\ call[c].key = p.key BY DEF BindingInv, PromiseSound, Open, Ends
  <2> QED BY <2>1, OpenCallTyped
<1>3. ASSUME NEW d \in BindingCalls PROVE told(d) \in BindingCallRecord /\ told(d).pc # "recover"
  <2>1. calls[d] \in BindingCallRecord /\ p.row \in Rows /\ calls[d].row \in Rows BY <1>1 DEF PromiseRecord, BindingCallRecord
  <2>2. [gen |-> p.row.gen, mounts |-> mounts(d)] \in Rows BY <2>1 DEF Rows
  <2> HIDE DEF mounts, p
  <2> QED BY <2>1, <2>2 DEF BindingCallRecord, BindingPCs
<1>4. call' = [d \in BindingCalls |-> IF call[d].pc = "waiting" /\ call[d].wait = c THEN told(d) ELSE calls[d]]
  BY DEF Deliver
<1>5. call' \in [BindingCalls -> BindingCallRecord] BY <1>3, <1>4
<1>6. [at |-> outcome, of |-> Nobody, row |-> p.row] \in EntryRecord BY <1>1 DEF EntryRecord, PromiseRecord
<1>7. slot' \in {slot, Without(p.key), [slot EXCEPT ![p.key] = [at |-> outcome, of |-> Nobody, row |-> p.row]]} BY DEF Deliver
<1>8. slot' \in [BindingKeys -> EntryRecord] BY <1>6, <1>7, WithoutOneTyped
<1>9. resolution' \in [BindingCalls -> PromiseRecord] BY IdleTyped DEF Deliver, CallsTyped
<1>10. \A d \in BindingCalls : call'[d].pc = "recover" => call'[d].plan # <<>>
  <2> SUFFICES ASSUME NEW d \in BindingCalls, call'[d].pc = "recover" PROVE call'[d].plan # <<>> OBVIOUS
  <2>1. call'[d] = calls[d] BY <1>3, <1>4
  <2> QED BY <2>1
<1> QED BY <1>5, <1>8, <1>9, <1>10 DEF CallsTyped

LEMMA DisturbedTyped ==
  ASSUME CallsTyped
  PROVE  /\ Disturbed(call) \in [BindingCalls -> BindingCallRecord]
         /\ \A d \in BindingCalls : /\ Disturbed(call)[d].why = call[d].why /\ Disturbed(call)[d].pc = call[d].pc
                                    /\ Disturbed(call)[d].plan = call[d].plan /\ Disturbed(call)[d].row = call[d].row
PROOF
<1>1. \A d \in BindingCalls : call[d] \in BindingCallRecord /\ [call[d] EXCEPT !.hit = TRUE] \in BindingCallRecord
  BY CallFieldsTyped DEF CallsTyped
<1>2. \A d \in BindingCalls : Disturbed(call)[d] \in {call[d], [call[d] EXCEPT !.hit = TRUE]} BY DEF Disturbed
<1>3. \A x \in BindingCallRecord : LET y == [x EXCEPT !.hit = TRUE] IN
        y.why = x.why /\ y.pc = x.pc /\ y.plan = x.plan /\ y.row = x.row
  BY DEF BindingCallRecord
<1>4. Disturbed(call) = [d \in BindingCalls |-> Disturbed(call)[d]] BY DEF Disturbed
<1>5. \A d \in BindingCalls : Disturbed(call)[d] \in BindingCallRecord BY <1>1, <1>2
<1>6. Disturbed(call) \in [BindingCalls -> BindingCallRecord] BY <1>4, <1>5
<1> QED BY <1>1, <1>2, <1>3, <1>6

LEMMA PromiseTyped ==
  ASSUME CallsTyped, ContainersTyped, BindingInv, NEW c \in BindingCalls, Settle(c) \/ ResolutionFails(c)
  PROVE  CallsTyped' /\ ContainersTyped'
PROOF
<1>1. CASE Settle(c)
  <2>1. resolution[c].at \in Outcomes /\ resolution[c].at # "none" /\ Deliver(c, resolution[c].at, call)
    BY <1>1 DEF Settle, Outcomes
  <2>2. call \in [BindingCalls -> BindingCallRecord] BY DEF CallsTyped
  <2>3. CallsTyped' BY <2>1, <2>2, DeliverTyped DEF CallsTyped
  <2>4. ContainersTyped' BY <1>1 DEF Settle, ContainersTyped
  <2> QED BY <2>3, <2>4
<1>2. CASE ResolutionFails(c)
  <2>1. "failed" \in Outcomes /\ resolution[c].at # "none" /\ Deliver(c, "failed", Disturbed(call))
    BY <1>2 DEF ResolutionFails, Outcomes
  <2>2. \A d \in BindingCalls : Disturbed(call)[d].pc = "recover" => Disturbed(call)[d].plan # <<>>
    BY DisturbedTyped DEF CallsTyped
  <2>3. CallsTyped' BY <2>1, <2>2, DisturbedTyped, DeliverTyped
  <2>4. ContainersTyped' BY <1>2, DisturbTyped DEF ResolutionFails
  <2> QED BY <2>3, <2>4
<1> QED BY <1>1, <1>2

LEMMA DisturbCounts ==
  ASSUME ContainersTyped, Disturb
  PROVE  disturbances < MaxDisturbances /\ disturbances \in Nat /\ disturbances' = disturbances + 1
PROOF BY BindingAssumption DEF ContainersTyped, Disturb

LEMMA MeanwhileTyped ==
  ASSUME CallsTyped, ContainersTyped,
         \/ \E h \in Homes, kind \in MutationKinds : Mutate(h, kind)
         \/ MutationReplied \/ MutationLost \/ DisposeBindings
         \/ \E h \in Homes, health \in {"stopped", "hung"} : Outage(h, health)
  PROVE  CallsTyped' /\ ContainersTyped'
PROOF
<1> DEFINE D == Disturbed(call)
<1>0. /\ D \in [BindingCalls -> BindingCallRecord]
      /\ \A d \in BindingCalls : D[d].pc = call[d].pc /\ D[d].plan = call[d].plan
  BY DisturbedTyped
<1> HIDE DEF D
<1>1. ASSUME call' = D, slot' \in [BindingKeys -> EntryRecord], resolution' = resolution PROVE CallsTyped'
  BY <1>0, <1>1 DEF CallsTyped
<1>2. slot \in [BindingKeys -> EntryRecord] BY DEF CallsTyped
<1>3. ASSUME NEW h \in Homes, NEW kind \in MutationKinds, Mutate(h, kind) PROVE CallsTyped' /\ ContainersTyped'
  <2> DEFINE new == IF kind = "remove" THEN [world[h] EXCEPT !.health = "absent"]
                    ELSE [gen |-> world[h].gen + 1,
                          mounts |-> world[h].mounts + IF kind = "mounts" THEN 1 ELSE 0, health |-> "up"]
  <2>1. CallsTyped' BY <1>1, <1>2, <1>3 DEF Mutate, D
  <2>2. world[h] \in ContainerRecord /\ world[h].mounts <= disturbances BY DEF ContainersTyped
  <2>3. disturbances < MaxDisturbances /\ disturbances \in Nat /\ disturbances' = disturbances + 1
    <3>1. Disturb BY <1>3 DEF Mutate
    <3> QED BY <3>1, DisturbCounts
  <2>4. kind # "remove" => world[h].gen < MaxGeneration BY <1>3 DEF Mutate
  <2>5. new \in ContainerRecord /\ new.mounts <= disturbances'
    <3>1. CASE kind = "remove" BY <2>2, <2>3, <3>1, BindingAssumption DEF ContainerRecord
    <3>2. CASE kind # "remove" BY <2>2, <2>3, <2>4, <3>2, BindingAssumption DEF ContainerRecord
    <3> QED BY <3>1, <3>2
  <2>6. world' = [world EXCEPT ![h] = new] BY <1>3 DEF Mutate
  <2>7. mutation' \in [home : Homes \cup {"default"}, kind : MutationKinds \cup {"none"}, lost : SUBSET Homes]
    BY <1>3 DEF Mutate, ContainersTyped
  <2>12. mutation'.kind \in MutationKinds => mutation'.home \in Homes BY <1>3 DEF Mutate, ContainersTyped
  <2> HIDE DEF new
  <2>8. \A g \in Homes : world[g].mounts \in Nat BY BindingAssumption DEF ContainersTyped, ContainerRecord
  <2>9. \A g \in Homes : world'[g].mounts <= disturbances'
    BY <2>3, <2>5, <2>6, <2>8 DEF ContainersTyped
  <2>10. world' \in [Homes -> ContainerRecord] BY <2>5, <2>6 DEF ContainersTyped
  <2>11. disturbances' \in 0..MaxDisturbances BY <2>3, BindingAssumption
  <2> QED BY <2>1, <2>7, <2>9, <2>10, <2>11, <2>12 DEF ContainersTyped
<1>4. CASE MutationReplied
  <2>1. slot' \in [BindingKeys -> EntryRecord] BY <1>2, <1>4, IdleTyped DEF MutationReplied
  <2>2. CallsTyped' BY <1>1, <1>4, <2>1 DEF MutationReplied, D
  <2>3. ContainersTyped' BY <1>4 DEF MutationReplied, ContainersTyped
  <2> QED BY <2>2, <2>3
<1>5. CASE MutationLost
  <2>1. CallsTyped' BY <1>1, <1>2, <1>5 DEF MutationLost, D
  <2>2. mutation.kind = "mounts" => mutation.home \in Homes
    BY DEF ContainersTyped, MutationKinds
  <2>3. ContainersTyped' BY <1>5, <2>2 DEF MutationLost, ContainersTyped
  <2> QED BY <2>1, <2>3
<1>6. CASE DisposeBindings
  <2>1. slot' \in [BindingKeys -> EntryRecord] BY <1>6, IdleTyped DEF DisposeBindings
  <2> DEFINE shut(d) == [D[d] EXCEPT !.row.gen = Closed]
  <2>2. ASSUME NEW d \in BindingCalls PROVE shut(d) \in BindingCallRecord /\ shut(d).pc = D[d].pc /\ shut(d).plan = D[d].plan
    <3>1. D[d] \in BindingCallRecord BY <1>0
    <3>2. [D[d].row EXCEPT !.gen = Closed] \in Rows BY <3>1, ClosedRowTyped DEF BindingCallRecord
    <3>3. shut(d) = [D[d] EXCEPT !.row = [D[d].row EXCEPT !.gen = Closed]] OBVIOUS
    <3> QED BY <3>1, <3>2, <3>3 DEF BindingCallRecord
  <2>3. call' = [d \in BindingCalls |-> shut(d)] BY <1>6 DEF DisposeBindings, D
  <2>4. resolution' = resolution BY <1>6 DEF DisposeBindings
  <2> HIDE DEF shut
  <2>5. CallsTyped' BY <1>0, <2>1, <2>2, <2>3, <2>4 DEF CallsTyped
  <2>6. ContainersTyped' BY <1>6, DisturbTyped DEF DisposeBindings
  <2> QED BY <2>5, <2>6
<1>7. ASSUME NEW h \in Homes, NEW health \in {"stopped", "hung"}, Outage(h, health) PROVE CallsTyped' /\ ContainersTyped'
  <2>1. CallsTyped' BY <1>1, <1>2, <1>7 DEF Outage, D
  <2> DEFINE out == [world[h] EXCEPT !.health = health]
  <2>2. out \in ContainerRecord /\ out.mounts = world[h].mounts BY DEF ContainersTyped, ContainerRecord
  <2>3. world' = [world EXCEPT ![h] = out] /\ mutation' = mutation BY <1>7 DEF Outage, ContainersTyped
  <2>4. disturbances < MaxDisturbances /\ disturbances \in Nat /\ disturbances' = disturbances + 1
    BY <1>7, DisturbCounts DEF Outage
  <2> HIDE DEF out
  <2>5. \A g \in Homes : world'[g].mounts = world[g].mounts BY <2>2, <2>3 DEF ContainersTyped
  <2>6. \A g \in Homes : world[g].mounts \in Nat BY BindingAssumption DEF ContainersTyped, ContainerRecord
  <2>7. \A g \in Homes : world'[g].mounts <= disturbances' BY <2>4, <2>5, <2>6 DEF ContainersTyped
  <2>8. world' \in [Homes -> ContainerRecord] BY <2>2, <2>3 DEF ContainersTyped
  <2>9. disturbances' \in 0..MaxDisturbances BY <2>4, BindingAssumption
  <2> QED BY <2>1, <2>3, <2>7, <2>8, <2>9 DEF ContainersTyped
<1> QED BY <1>3, <1>4, <1>5, <1>6, <1>7

\* Shapes of the plugin's and the orchestrator's state (workspace-binding.ts),
\* for any number of calls, generations and disturbances: a row is of a
\* generation there was, and mounts changed once per disturbance at most.
THEOREM BindingTypes == BindingSpec => []BindingTypeOK
PROOF
<1>1. BindingInit => BindingTyped
  <2> SUFFICES ASSUME BindingInit PROVE BindingTyped OBVIOUS
  <2>1. [gen |-> 1, mounts |-> 0] \in Rows /\ 2 \in 1..MaxGeneration /\ 0 \in 0..MaxDisturbances
    BY BindingAssumption DEF Rows
  <2>2. [at |-> "kept", of |-> Nobody, row |-> [gen |-> 1, mounts |-> 0]] \in EntryRecord
    BY <2>1 DEF EntryRecord, Outcomes
  <2>3. CallsTyped BY <2>2, IdleTyped DEF BindingInit, CallsTyped, IdleCall
  <2>4. ContainersTyped
    <3>1. [gen |-> 2, mounts |-> 0, health |-> "up"] \in ContainerRecord BY <2>1 DEF ContainerRecord
    <3>2. world \in [Homes -> ContainerRecord] /\ \A h \in Homes : world[h].mounts = 0 BY <3>1 DEF BindingInit
    <3>3. mutation = [home |-> "default", kind |-> "none", lost |-> {}] /\ disturbances = 0 BY DEF BindingInit
    <3>4. "none" \notin MutationKinds BY DEF MutationKinds
    <3> QED BY <2>1, <3>2, <3>3, <3>4 DEF ContainersTyped
  <2> QED BY <2>3, <2>4, BindingTypedParts
<1>2. BindingInv /\ BindingTyped /\ [BindingNext]_bindingVars => BindingTyped'
  <2> SUFFICES ASSUME BindingInv, CallsTyped, ContainersTyped, [BindingNext]_bindingVars
               PROVE  CallsTyped' /\ ContainersTyped'
    BY BindingTypedParts
  <2>1. CASE UNCHANGED bindingVars BY <2>1 DEF bindingVars, CallsTyped, ContainersTyped
  <2>2. CASE \E c \in BindingCalls, key \in BindingKeys : StartCall(c, key) BY <2>2, StartCallTyped
  <2>3. ASSUME NEW c \in BindingCalls, BindingStep(c) \/ PromiseStep(c) \/ ResolutionFails(c)
        PROVE  CallsTyped' /\ ContainersTyped'
    BY <2>3, StepTyped, RecoverTyped, AnswerTyped, PromiseTyped DEF BindingStep, PromiseStep
  <2>4. CASE \/ \E h \in Homes, kind \in MutationKinds : Mutate(h, kind)
             \/ MutationReplied \/ MutationLost \/ DisposeBindings
             \/ \E h \in Homes, health \in {"stopped", "hung"} : Outage(h, health)
    BY <2>4, MeanwhileTyped
  <2> QED BY <2>1, <2>2, <2>3, <2>4 DEF BindingNext
<1>3. BindingTyped => BindingTypeOK BY DEF BindingTyped
<1> QED BY <1>1, <1>2, <1>3, BindingInvHolds, PTL DEF BindingSpec
=============================================================================
