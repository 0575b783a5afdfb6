-------------------------- MODULE AiTrigger_proofs --------------------------
(***************************************************************************)
(* A key places at most one call, whatever the pacers, handlers, touches,  *)
(* refusals, faults and bounds.  The argument is the reservation's: a key  *)
(* is in the hands of one handler at a time, and a handler that takes it   *)
(* over finds the call an earlier one left, by its link or by its date.    *)
(* The same reservation keeps the book of KeyedCalls, and with one tick at *)
(* a time the call a touch is sent with is the one placed for it.          *)
(***************************************************************************)
EXTENDS AiTrigger, SequenceTheorems, TLAPS

Holding == {"link", "place", "record", "failRow"}

\* What a handler has in hand.
HandlerInv(h) ==
  /\ hpc[h] # "idle" => Key(h) \in KeyIds
  /\ hmem[h].call \in 0 .. Len(calls)
  /\ hpc[h] \in Owning => Req(h).st = "open" /\ ~Req(h).old
  /\ hpc[h] \in {"check", "insert"} => \A i \in DOMAIN calls : calls[i].key # Key(h)
  /\ hpc[h] \in Holding => hmem[h].call \in DOMAIN calls /\ calls[hmem[h].call].key = Key(h)
  /\ hpc[h] \in {"link", "place"} => calls[hmem[h].call].rings = 0
  /\ hpc[h] = "link" => hmem[h].answer = calls[hmem[h].call].why
  /\ hpc[h] \in {"record", "failRow", "complete"} => hmem[h].answer \in Stored
OneOwner ==
  \A h, g \in Handlers : hpc[h] \in Owning /\ hpc[g] \in Owning /\ Key(h) = Key(g) => h = g
\* A key that placed a call is reserved, since before the call.
RequestsInv ==
  /\ \A k \in KeyIds : request[k].call \in 0 .. Len(calls) /\ request[k].since \in 0 .. Len(calls)
  /\ \A i \in DOMAIN calls : request[calls[i].key].st # "none" /\ request[calls[i].key].since < i
PacersInv == \A p \in Pacers : pc[p] \in {"send", "wait", "resolve"} => mem[p].key \in KeyIds
StoreInv == (\A h \in Handlers : HandlerInv(h)) /\ OneOwner /\ RequestsInv /\ OneCallPerKey

Inv == TypeOK /\ PacersInv /\ StoreInv

-----------------------------------------------------------------------------
(* The pieces steps are made of.                                           *)

LEMMA Bounds ==
  ASSUME TriggerAssumption
  PROVE  /\ MaxAttempts \in Nat /\ MaxKeys \in Nat /\ MaxChanges \in Nat /\ MaxFaults \in Nat
         /\ AnyTouch \in Touches /\ AnyHandler \in Handlers
BY DEF TriggerAssumption, AnyTouch, AnyHandler

LEMMA NoMemType ==
  ASSUME TriggerAssumption
  PROVE  NoMem \in PacerMem /\ NoTrigger \in Trigger
BY Bounds DEF NoMem, PacerMem, NoTrigger, Trigger, Answers, Stored, Refusals

LEMMA GotoFacts ==
  ASSUME TypePacers, PacersInv, NEW p \in Pacers, NEW s \in PacerSteps, NEW m \in PacerMem, Goto(p, s, m),
         s \in {"send", "wait", "resolve"} => m.key \in KeyIds
  PROVE  TypePacers' /\ PacersInv'
<1>1. /\ pc' \in [Pacers -> PacerSteps] /\ mem' \in [Pacers -> PacerMem]
      /\ \A q \in Pacers : /\ pc'[q] = IF q = p THEN s ELSE pc[q]
                           /\ mem'[q] = IF q = p THEN m ELSE mem[q]
  BY DEF TypePacers, Goto
<1>2. KeyIds' = KeyIds
  BY DEF KeyIds
<1> QED
  BY <1>1, <1>2 DEF TypePacers, PacersInv

LEMMA PacerTypes ==
  ASSUME TypeBoard, TypePacers, NEW p \in Pacers
  PROVE  /\ pc[p] \in PacerSteps /\ mem[p] \in PacerMem /\ mem[p].touch \in Touches /\ T(p) \in Touch
         /\ mem[p].key \in 0 .. MaxKeys /\ mem[p].answer \in Answers /\ mem[p].call \in Nat /\ mem[p].tries \in Nat
BY DEF TypeBoard, TypePacers, PacerMem, T

LEMMA FaultType ==
  ASSUME TriggerAssumption, faults \in 0 .. MaxFaults, NEW f, Fault(f) \/ UNCHANGED faults
  PROVE  faults' \in 0 .. MaxFaults
BY Bounds DEF Fault

LEMMA CallTypes ==
  ASSUME TypeStore, NEW i \in DOMAIN calls
  PROVE  /\ calls[i] \in Call /\ calls[i].key \in KeyIds /\ calls[i].why \in Refusals \cup {"none"}
         /\ calls[i].rings \in Nat /\ i \in 1 .. Len(calls)
<1>1. calls[i] \in Call /\ i \in 1 .. Len(calls)
  BY DEF TypeStore
<1> QED
  BY <1>1 DEF Call

LEMMA RequestTypes ==
  ASSUME TypeStore, NEW k \in KeyIds
  PROVE  /\ request[k] \in Request /\ request[k].since \in Nat /\ request[k].call \in Nat
         /\ request[k].answer \in Stored /\ request[k].st \in {"none", "open", "answered"} /\ request[k].old \in BOOLEAN
BY DEF TypeStore, Request

LEMMA RebuiltType ==
  ASSUME TypeStore, NEW i \in DOMAIN calls
  PROVE  Rebuilt(i) \in Stored
BY CallTypes DEF Rebuilt, Stored, Refusals

\* The search by date finds something whenever there is something to find.
LEMMA FoundFacts ==
  ASSUME TypeStore, NEW k \in KeyIds
  PROVE  /\ Found(k) \in 0 .. Len(calls)
         /\ Found(k) = 0 => CallsSince(k) = {}
         /\ Found(k) # 0 => Found(k) \in DOMAIN calls
<1>1. DOMAIN calls = 1 .. Len(calls) /\ Len(calls) \in Nat /\ request[k].since \in Nat
  BY RequestTypes DEF TypeStore
<1>2. CASE CallsSince(k) = {}
  BY <1>1, <1>2 DEF Found
<1>3. CASE CallsSince(k) # {}
  <2>1. PICK i \in CallsSince(k) : TRUE
    BY <1>3
  <2>2. Len(calls) \in CallsSince(k) /\ \A j \in CallsSince(k) : j <= Len(calls)
    BY <1>1, <2>1 DEF CallsSince
  <2>3. Found(k) = CHOOSE x \in CallsSince(k) : \A j \in CallsSince(k) : j <= x
    BY <1>3 DEF Found
  <2>4. Found(k) \in CallsSince(k)
    BY <2>2, <2>3
  <2> QED
    BY <1>1, <2>4 DEF CallsSince
<1> QED
  BY <1>2, <1>3

LEMMA ResolvedType ==
  ASSUME TypeStore, NEW k \in KeyIds
  PROVE  Resolved(k) \in Answers /\ ResolvedCall(k) \in Nat
<1>1. Found(k) \in 0 .. Len(calls) /\ (Found(k) # 0 => Rebuilt(Found(k)) \in Stored)
  BY FoundFacts, RebuiltType
<1>2. Len(calls) \in Nat
  BY DEF TypeStore
<1>3. request[k].answer \in Stored /\ request[k].call \in Nat
  BY RequestTypes
<1>4. Resolved(k) \in Answers
  BY <1>1, <1>3 DEF Resolved, Answers
<1>5. ResolvedCall(k) \in Nat
  BY <1>1, <1>2, <1>3 DEF ResolvedCall
<1> QED
  BY <1>4, <1>5

-----------------------------------------------------------------------------
(* The board: touches and the lead.                                        *)

LEMMA TouchTypes ==
  ASSUME TypeBoard, NEW t \in Touches
  PROVE  /\ touch[t] \in Touch /\ touch[t].key \in 0 .. MaxKeys /\ touch[t].tries \in Nat /\ touch[t].plan \in Nat
         /\ touch[t].key # 0 => touch[t].key \in KeyIds
<1>1. touch[t] \in Touch
  BY DEF TypeBoard
<1> QED
  BY <1>1 DEF Touch, KeyIds

LEMMA DroppedType ==
  ASSUME TypeBoard, \A h \in Handlers : HandlerInv(h), NEW Ts \in SUBSET Touches, Dropped(Ts)
  PROVE  overtaken' \subseteq KeyIds
<1>1. ASSUME NEW t \in Ts, OnItsWay(touch[t].key) PROVE touch[t].key \in KeyIds
  BY <1>1 DEF OnItsWay, HandlerInv, Key
<1> QED
  BY <1>1 DEF Dropped, TypeBoard

LEMMA SetType ==
  ASSUME TypeBoard, NEW t \in Touches, NEW x \in Touch, Set(t, x)
  PROVE  touch' \in [Touches -> Touch]
BY DEF TypeBoard, Set

LEMMA SentType ==
  ASSUME TypeBoard, NEW t \in Touches, NEW i \in Nat, MaxKeys \in Nat
  PROVE  Sent(t, i) \in Touch
<1>1. touch[t] \in Touch /\ 0 \in 0 .. MaxKeys
  BY TouchTypes
<1> QED
  BY <1>1 DEF Sent, Touch, TouchStatus

LEMMA SkippedType ==
  ASSUME TypeBoard, NEW t \in Touches
  PROVE  Skipped(t) \in Touch
BY TouchTypes DEF Skipped, Touch, TouchStatus

\* What the board may become in one step; the keys are left to the claim.
BoardNext == touch' \in [Touches -> Touch] /\ lead' \in Lead /\ overtaken' \subseteq KeyIds

LEMMA LinkPlacedType ==
  ASSUME TriggerAssumption, TypeBoard, TypeStore, NEW t \in Touches, Placed(t), LinkPlaced(t)
  PROVE  BoardNext
<1>1. touch[t].key \in KeyIds
  BY TouchTypes DEF Placed
<1>2. Sent(t, ResolvedCall(touch[t].key)) \in Touch
  BY <1>1, ResolvedType, SentType, Bounds
<1>3. touch' \in [Touches -> Touch]
  BY <1>2, SetType DEF LinkPlaced
<1>4. lead' \in Lead
  BY DEF LinkPlaced, TypeBoard, Lead
<1> QED
  BY <1>3, <1>4 DEF BoardNext, LinkPlaced, TypeBoard

LEMMA LaterType ==
  ASSUME TypeBoard, NEW t \in Touches, Later(t)
  PROVE  BoardNext
<1>1. [touch[t] EXCEPT !.due = FALSE] \in Touch
  BY TouchTypes DEF Touch
<1> QED
  BY <1>1, SetType DEF Later, BoardNext, TypeBoard

LEMMA SkipUnlessPlacedType ==
  ASSUME TriggerAssumption, TypeBoard, TypeStore, \A h \in Handlers : HandlerInv(h),
         NEW t \in Touches, NEW l \in Lead, SkipUnlessPlaced(t, l)
  PROVE  BoardNext
<1>1. CASE Free(t) /\ Set(t, Skipped(t)) /\ Dropped({t}) /\ lead' = l
  BY <1>1, SkippedType, SetType, DroppedType DEF BoardNext
<1> QED
  BY <1>1, LinkPlacedType, LaterType DEF SkipUnlessPlaced

LEMMA FinishedType ==
  ASSUME TypeBoard, Finished
  PROVE  touch' \in [Touches -> Touch] /\ lead' \in Lead
<1>1. \A t \in Touches : Skipped(t) \in Touch /\ touch[t] \in Touch
  BY SkippedType, TouchTypes
<1> QED
  BY <1>1 DEF Finished, TypeBoard, Lead

LEMMA ToBoardType ==
  ASSUME TypeBoard, NEW n \in Nat, ToBoard(n)
  PROVE  lead' \in Lead
BY DEF ToBoard, TypeBoard, Lead

LEMMA PlanType ==
  ASSUME TypeBoard
  PROVE  lead.plan \in Nat /\ lead.plan + 1 \in Nat
BY DEF TypeBoard, Lead

LEMMA ParkedType ==
  ASSUME TriggerAssumption, TypeBoard, \A h \in Handlers : HandlerInv(h), NEW t \in Touches, Parked(t)
  PROVE  BoardNext
<1>1. /\ touch[t] \in Touch
      /\ [touch[t] EXCEPT !.st = "failed", !.key = 0, !.young = FALSE] \in Touch
  <2>1. touch[t] \in Touch /\ 0 \in 0 .. MaxKeys
    BY TouchTypes, Bounds
  <2> QED
    BY <2>1 DEF Touch, TouchStatus
<1>2. touch' \in [Touches -> Touch]
  BY <1>1, SetType DEF Parked
<1> QED
  BY <1>2, PlanType, ToBoardType, DroppedType DEF Parked, BoardNext

LEMMA ResearchedType ==
  ASSUME TypeBoard, \A h \in Handlers : HandlerInv(h), NEW t \in Touches, Researched(t)
  PROVE  BoardNext
BY SkippedType, SetType, PlanType, ToBoardType, DroppedType DEF Researched, BoardNext

-----------------------------------------------------------------------------
(* The steps of a pacer.                                                   *)

\* A step that leaves the requests, the calls and their handlers alone.
Local == UNCHANGED <<request, calls, hpc, hmem>>

LEMMA LocalInv ==
  ASSUME Inv, Local
  PROVE  TypeStore' /\ TypeHandlers' /\ StoreInv'
<1>1. \A h \in Handlers : HandlerInv(h)' <=> HandlerInv(h)
  BY DEF Local, HandlerInv, Key, Req, KeyIds, Owning, Holding, Stored, Refusals
<1>2. OneOwner' <=> OneOwner
  BY DEF Local, OneOwner, Key, Owning
<1>3. RequestsInv' <=> RequestsInv
  BY DEF Local, RequestsInv, KeyIds
<1>4. OneCallPerKey' <=> OneCallPerKey
  BY DEF Local, OneCallPerKey
<1>5. TypeStore' /\ TypeHandlers'
  BY DEF Inv, TypeOK, TypeStore, TypeHandlers, Local, KeyIds, Request, Call, Trigger, HandlerSteps, Owning, Stored, Refusals
<1> QED
  BY <1>1, <1>2, <1>3, <1>4, <1>5 DEF Inv, StoreInv

\* The types of the parts are the type of the whole.
LEMMA TypesTogether ==
  ASSUME BoardNext, keys' \in Seq(Touches) /\ Len(keys') <= MaxKeys, TypeStore', TypePacers', TypeHandlers',
         changes' \in 0 .. MaxChanges, faults' \in 0 .. MaxFaults
  PROVE  TypeOK'
<1>1. TypeBoard'
  BY DEF TypeBoard, BoardNext, Touch, Lead, KeyIds, TouchStatus
<1> QED
  BY <1>1 DEF TypeOK

\* A step that changes no key and not the store keeps the whole invariant, if it
\* keeps the types of what it changes.
LEMMA BoardStep ==
  ASSUME Inv, Local, BoardNext, UNCHANGED keys, TypePacers', PacersInv',
         changes' \in 0 .. MaxChanges, faults' \in 0 .. MaxFaults
  PROVE  Inv'
<1>1. TypeStore' /\ TypeHandlers' /\ StoreInv'
  BY LocalInv
<1>2. keys' \in Seq(Touches) /\ Len(keys') <= MaxKeys
  BY DEF Inv, TypeOK, TypeBoard
<1> QED
  BY <1>1, <1>2, TypesTogether DEF Inv

LEMMA Parts ==
  ASSUME Inv
  PROVE  /\ TypeBoard /\ TypeStore /\ TypePacers /\ TypeHandlers /\ PacersInv
         /\ (\A h \in Handlers : HandlerInv(h)) /\ changes \in 0 .. MaxChanges /\ faults \in 0 .. MaxFaults
BY DEF Inv, TypeOK, StoreInv

\* A pacer that goes on or ends its candidate, changing the board in one of its ways.
LEMMA PacerGoes ==
  ASSUME TriggerAssumption, Inv, NEW p \in Pacers, BoardNext, UNCHANGED keys, Local, UNCHANGED <<changes, faults>>,
         NEW s \in PacerSteps, NEW m \in PacerMem, Goto(p, s, m),
         s \in {"send", "wait", "resolve"} => m.key \in KeyIds
  PROVE  Inv'
<1>1. TypePacers' /\ PacersInv'
  BY Parts, GotoFacts
<1>2. changes' \in 0 .. MaxChanges /\ faults' \in 0 .. MaxFaults
  BY Parts
<1> QED
  BY <1>1, <1>2, BoardStep

LEMMA SameBoard ==
  ASSUME TypeBoard, UNCHANGED <<touch, lead, overtaken>>
  PROVE  BoardNext
BY DEF TypeBoard, BoardNext

LEMMA PickInv ==
  ASSUME TriggerAssumption, Inv, NEW p \in Pacers, Pick(p)
  PROVE  Inv'
<1>1. PICK t \in Touches : Goto(p, "settle", [NoMem EXCEPT !.touch = t, !.key = touch[t].key, !.approved = PlanApproved(t)])
  BY DEF Pick
<1>2. PlanApproved(t) \in BOOLEAN
  BY DEF PlanApproved
<1>3. [NoMem EXCEPT !.touch = t, !.key = touch[t].key, !.approved = PlanApproved(t)] \in PacerMem
  BY <1>2, NoMemType, TouchTypes, Parts DEF PacerMem
<1>4. BoardNext /\ UNCHANGED keys /\ Local
  BY Parts, SameBoard DEF Pick, board, Local, handler, store
<1> QED
  BY <1>1, <1>3, <1>4, PacerGoes DEF Pick, NoFault, PacerSteps

LEMMA SettleKeyInv ==
  ASSUME TriggerAssumption, Inv, NEW p \in Pacers, SettleKey(p)
  PROVE  Inv'
<1>1. mem[p].touch \in Touches /\ mem[p] \in PacerMem /\ NoMem \in PacerMem
  BY Parts, PacerTypes, NoMemType
<1>2. BoardNext
  BY <1>1, Parts, LinkPlacedType, LaterType, SameBoard DEF SettleKey
<1>3. PICK s \in {"idle", "gate"}, m \in PacerMem : Goto(p, s, m)
  BY <1>1 DEF SettleKey
<1>4. UNCHANGED keys /\ Local /\ UNCHANGED <<changes, faults>>
  BY DEF SettleKey, Local, handler, store, NoFault
<1> QED
  BY <1>2, <1>3, <1>4, PacerGoes DEF PacerSteps

LEMMA GateInv ==
  ASSUME TriggerAssumption, Inv, NEW p \in Pacers, Gate(p)
  PROVE  Inv'
<1>1. mem[p].touch \in Touches /\ mem[p] \in PacerMem /\ NoMem \in PacerMem /\ lead \in Lead
  BY Parts, PacerTypes, NoMemType DEF TypeBoard
<1>2. ASSUME NotNow(mem[p].touch) PROVE BoardNext
  BY <1>1, <1>2, Parts, ParkedType, ResearchedType, LaterType DEF NotNow
<1>3. ASSUME Finished, UNCHANGED overtaken PROVE BoardNext
  BY <1>3, Parts, FinishedType DEF BoardNext, TypeBoard
<1>4. BoardNext
  BY <1>1, <1>2, <1>3, Parts, SkipUnlessPlacedType, SameBoard DEF Gate
<1>5. PICK s \in {"idle", "claim"}, m \in PacerMem : Goto(p, s, m)
  BY <1>1 DEF Gate
<1>6. UNCHANGED keys /\ Local /\ UNCHANGED <<changes, faults>>
  BY DEF Gate, Local, handler, store, NoFault
<1> QED
  BY <1>4, <1>5, <1>6, PacerGoes DEF PacerSteps

LEMMA ClaimInv ==
  ASSUME TriggerAssumption, Inv, NEW p \in Pacers, Claim(p)
  PROVE  Inv'
<1> DEFINE t == mem[p].touch
           mint == T(p).key = 0
           key == IF mint THEN Len(keys) + 1 ELSE T(p).key
<1>1. /\ t \in Touches /\ mem[p] \in PacerMem /\ NoMem \in PacerMem /\ T(p) \in Touch
      /\ T(p).tries + 1 \in Nat /\ T(p).key \in 0 .. MaxKeys
  BY Parts, PacerTypes, NoMemType DEF Touch
<1>2. keys \in Seq(Touches) /\ Len(keys) \in Nat /\ Len(keys) <= MaxKeys /\ MaxKeys \in Nat
  BY Parts, Bounds DEF TypeBoard
<1>3. Local /\ UNCHANGED <<lead, overtaken, changes, faults>>
  BY DEF Claim, Local, handler, store, NoFault
<1>4. ASSUME touch' \in [Touches -> Touch] PROVE BoardNext
  BY <1>3, <1>4, Parts DEF BoardNext, TypeBoard
<1>5. changes' \in 0 .. MaxChanges /\ faults' \in 0 .. MaxFaults
  BY <1>3, Parts
<1>6. CASE /\ Claimable(t) /\ (mint => Len(keys) < MaxKeys)
           /\ keys' = IF mint THEN Append(keys, t) ELSE keys
           /\ Set(t, [T(p) EXCEPT !.st = "dialing", !.key = key, !.tries = @ + 1, !.young = TRUE])
           /\ Goto(p, "send", [mem[p] EXCEPT !.key = key, !.tries = T(p).tries + 1])
  <2>1. key \in KeyIds /\ key \in 0 .. MaxKeys
    BY <1>1, <1>2, <1>6 DEF KeyIds
  <2>2. [T(p) EXCEPT !.st = "dialing", !.key = key, !.tries = @ + 1, !.young = TRUE] \in Touch
    BY <1>1, <2>1 DEF Touch, TouchStatus
  <2>3. touch' \in [Touches -> Touch]
    BY <1>1, <1>6, <2>2, Parts, SetType
  <2>4. /\ [mem[p] EXCEPT !.key = key, !.tries = T(p).tries + 1] \in PacerMem
        /\ [mem[p] EXCEPT !.key = key, !.tries = T(p).tries + 1].key = key
    BY <1>1, <2>1 DEF PacerMem
  <2>5. TypePacers' /\ PacersInv'
    BY <1>6, <2>1, <2>4, Parts, GotoFacts DEF PacerSteps
  <2>6. keys' \in Seq(Touches) /\ Len(keys') <= MaxKeys
    BY <1>1, <1>2, <1>6
  <2>7. TypeStore' /\ TypeHandlers' /\ StoreInv'
    BY <1>3, LocalInv
  <2> QED
    BY <1>4, <1>5, <2>3, <2>5, <2>6, <2>7, TypesTogether DEF Inv
<1>7. CASE /\ ~Claimable(t) \/ "stop" \in May
           /\ Goto(p, "refused", mem[p]) /\ UNCHANGED <<touch, keys>>
  <2>1. BoardNext
    BY <1>3, <1>7, Parts, SameBoard
  <2> QED
    BY <1>1, <1>3, <1>7, <2>1, PacerGoes DEF PacerSteps
<1>8. CASE /\ Claimable(t) /\ mint /\ Len(keys) = MaxKeys
           /\ Set(t, [T(p) EXCEPT !.due = FALSE]) /\ keys' = keys /\ Goto(p, "idle", NoMem)
  <2>1. [T(p) EXCEPT !.due = FALSE] \in Touch
    BY <1>1 DEF Touch
  <2>2. BoardNext
    BY <1>1, <1>4, <1>8, <2>1, Parts, SetType
  <2> QED
    BY <1>1, <1>3, <1>8, <2>2, PacerGoes DEF PacerSteps
<1> QED
  BY <1>6, <1>7, <1>8 DEF Claim

LEMMA RefusedInv ==
  ASSUME TriggerAssumption, Inv, NEW p \in Pacers, Refused(p)
  PROVE  Inv'
<1>1. mem[p].touch \in Touches /\ NoMem \in PacerMem /\ lead \in Lead
  BY Parts, PacerTypes, NoMemType DEF TypeBoard
<1>2. Reopened(mem[p].touch) \in Lead
  BY <1>1 DEF Reopened, Lead
<1>3. BoardNext
  BY <1>1, <1>2, Parts, SkipUnlessPlacedType, LaterType, SameBoard DEF Refused
<1>4. Goto(p, "idle", NoMem) /\ UNCHANGED keys /\ Local /\ UNCHANGED <<changes, faults>>
  BY DEF Refused, Local, handler, store, NoFault
<1> QED
  BY <1>1, <1>3, <1>4, PacerGoes DEF PacerSteps

LEMMA ResolveInv ==
  ASSUME TriggerAssumption, Inv, NEW p \in Pacers, Resolve(p)
  PROVE  Inv'
<1> DEFINE m == [mem[p] EXCEPT !.answer = Resolved(mem[p].key), !.call = ResolvedCall(mem[p].key)]
<1>1. mem[p] \in PacerMem /\ mem[p].key \in KeyIds
  BY Parts, PacerTypes DEF PacersInv, Resolve
<1>2. m \in PacerMem
  BY <1>1, Parts, ResolvedType DEF PacerMem
<1>3. BoardNext /\ UNCHANGED keys /\ Local /\ Goto(p, "apply", m) /\ UNCHANGED <<changes, faults>>
  BY Parts, SameBoard DEF Resolve, board, Local, handler, store, NoFault
<1> QED
  BY <1>2, <1>3, PacerGoes DEF PacerSteps

LEMMA SettledType ==
  ASSUME TriggerAssumption, TypeBoard, TypePacers, NEW p \in Pacers
  PROVE  Settled(p) \in Touch
<1>1. mem[p].touch \in Touches /\ mem[p].call \in Nat /\ T(p) \in Touch /\ MaxKeys \in Nat /\ 0 \in 0 .. MaxKeys
  BY PacerTypes, Bounds
<1>2. T(p).key \in 0 .. MaxKeys /\ T(p).tries \in Nat
  BY <1>1 DEF Touch
<1>3. ASSUME NEW k \in 0 .. MaxKeys, NEW n \in Nat
      PROVE  [T(p) EXCEPT !.st = "planned", !.key = k, !.tries = n, !.due = FALSE] \in Touch
  BY <1>1 DEF Touch, TouchStatus
<1>4. [T(p) EXCEPT !.st = "failed", !.key = 0, !.young = FALSE] \in Touch
  BY <1>1 DEF Touch, TouchStatus
<1>5. Sent(mem[p].touch, mem[p].call) \in Touch
  BY <1>1, SentType
<1> DEFINE k == IF mem[p].answer \in KeepsKey THEN T(p).key ELSE 0
           n == IF mem[p].answer \in Refunded /\ T(p).tries > 0 THEN T(p).tries - 1 ELSE T(p).tries
<1>6. k \in 0 .. MaxKeys /\ n \in Nat
  BY <1>1, <1>2
<1>7. [T(p) EXCEPT !.st = "planned", !.key = k, !.tries = n, !.due = FALSE] \in Touch
  BY <1>3, <1>6
<1> QED
  BY <1>4, <1>5, <1>7 DEF Settled

LEMMA ApplyInv ==
  ASSUME TriggerAssumption, Inv, NEW p \in Pacers, Apply(p)
  PROVE  Inv'
<1>1. mem[p].touch \in Touches /\ mem[p] \in PacerMem /\ NoMem \in PacerMem /\ T(p) \in Touch
  BY Parts, PacerTypes, NoMemType
<1>2. UNCHANGED keys /\ Local /\ UNCHANGED <<changes, faults>>
  BY DEF Apply, Local, handler, store, NoFault
<1>3. PICK s \in {"idle", "finish"}, m \in PacerMem : Goto(p, s, m)
  BY <1>1 DEF Apply
<1>4. CASE mem[p].answer = "park"
  <2>1. BoardNext
    BY <1>1, <1>4, Parts, ParkedType DEF Apply
  <2> QED
    BY <1>2, <1>3, <2>1, PacerGoes DEF PacerSteps
<1>5. CASE mem[p].answer # "park"
  <2>1. touch' \in [Touches -> Touch]
    BY <1>1, <1>5, Parts, SettledType, SetType DEF Apply
  <2>2. overtaken' \subseteq KeyIds
    BY <1>1, <1>5, Parts, DroppedType DEF Apply, TypeBoard
  <2>3. BoardNext
    BY <1>5, <2>1, <2>2, Parts DEF Apply, BoardNext, TypeBoard
  <2> QED
    BY <1>2, <1>3, <2>3, PacerGoes DEF PacerSteps
<1> QED
  BY <1>4, <1>5

LEMMA FinishInv ==
  ASSUME TriggerAssumption, Inv, NEW p \in Pacers, Finish(p)
  PROVE  Inv'
<1>1. BoardNext
  BY Parts, FinishedType DEF Finish, BoardNext, TypeBoard
<1>2. Goto(p, "idle", NoMem) /\ UNCHANGED keys /\ Local /\ UNCHANGED <<changes, faults>>
  BY DEF Finish, Local, handler, store, NoFault
<1> QED
  BY <1>1, <1>2, NoMemType, PacerGoes DEF PacerSteps

LEMMA ReapInv ==
  ASSUME TriggerAssumption, Inv, NEW p \in Pacers, NEW t \in Touches, Reap(p, t)
  PROVE  Inv'
<1>1. [touch[t] EXCEPT !.st = "planned", !.due = FALSE, !.young = FALSE] \in Touch /\ Skipped(t) \in Touch
  <2>1. touch[t] \in Touch /\ Skipped(t) \in Touch
    BY Parts, TouchTypes, SkippedType
  <2> QED
    BY <2>1 DEF Touch, TouchStatus
<1>2. touch' \in [Touches -> Touch]
  BY <1>1, Parts, SetType DEF Reap
<1>3. BoardNext
  BY <1>2, Parts DEF Reap, BoardNext, TypeBoard
<1>4. UNCHANGED keys /\ Local /\ UNCHANGED <<changes, faults, pc, mem>>
  BY DEF Reap, Local, handler, store, pacer, NoFault
<1>5. TypePacers' /\ PacersInv' /\ changes' \in 0 .. MaxChanges /\ faults' \in 0 .. MaxFaults
  BY <1>4, Parts DEF TypePacers, PacersInv, KeyIds
<1> QED
  BY <1>3, <1>4, <1>5, BoardStep

-----------------------------------------------------------------------------
(* What a step makes of the store.                                         *)

\* The record of one key changes, and the calls of that key, of which there is a new
\* one only when there was none.
RequestStep(k) ==
  /\ \A q \in KeyIds : q # k => request'[q] = request[q]
  /\ request'[k].st # "none" /\ request'[k].call \in 0 .. Len(calls')
  /\ \/ request'[k].since = request[k].since
     \/ request[k].st = "none" /\ request'[k].since = Len(calls)
LengthStep(k) ==
  \/ Len(calls') = Len(calls)
  \/ /\ Len(calls') = Len(calls) + 1 /\ calls'[Len(calls) + 1].key = k
     /\ \A i \in DOMAIN calls : calls[i].key # k
CallsStep(k) ==
  /\ \A i \in DOMAIN calls : calls'[i].key = calls[i].key /\ (calls[i].key # k => calls'[i] = calls[i])
  /\ \A i \in DOMAIN calls' : calls'[i].rings <= 1
StoreStep(k) == RequestStep(k) /\ LengthStep(k) /\ CallsStep(k)

LEMMA Lengths ==
  ASSUME TypeStore, TypeStore', NEW k \in KeyIds, StoreStep(k)
  PROVE  /\ DOMAIN calls = 1 .. Len(calls) /\ Len(calls) \in Nat
         /\ DOMAIN calls' = 1 .. Len(calls') /\ Len(calls') \in Nat
         /\ Len(calls) <= Len(calls') /\ DOMAIN calls \subseteq DOMAIN calls'
         /\ \A i \in DOMAIN calls' : i \in DOMAIN calls \/ (i = Len(calls) + 1 /\ Len(calls') = Len(calls) + 1)
<1>1. DOMAIN calls = 1 .. Len(calls) /\ DOMAIN calls' = 1 .. Len(calls')
  BY DEF TypeStore
<1>2. Len(calls) \in Nat /\ Len(calls') \in Nat
  BY DEF TypeStore
<1>3. Len(calls') = Len(calls) \/ Len(calls') = Len(calls) + 1
  BY DEF StoreStep, LengthStep
<1>4. ASSUME NEW m \in Nat, NEW n \in Nat, n = m \/ n = m + 1
      PROVE  m <= n /\ 1 .. m \subseteq 1 .. n /\ \A i \in 1 .. n : i \in 1 .. m \/ (i = m + 1 /\ n = m + 1)
  BY <1>4
<1> QED
  BY <1>1, <1>2, <1>3, <1>4

LEMMA NewCall ==
  ASSUME Len(calls) \in Nat, NEW k \in KeyIds, StoreStep(k), Len(calls') = Len(calls) + 1
  PROVE  calls'[Len(calls) + 1].key = k /\ \A i \in DOMAIN calls : calls[i].key # k
<1>1. Len(calls') # Len(calls)
  OBVIOUS
<1> QED
  BY <1>1 DEF StoreStep, LengthStep

LEMMA StoreStepFacts ==
  ASSUME TypeStore, RequestsInv, OneCallPerKey, NEW k \in KeyIds, StoreStep(k), TypeStore'
  PROVE  RequestsInv' /\ OneCallPerKey'
<1>1. /\ \A q \in KeyIds : request[q].since \in Nat /\ request[q].call \in Nat
      /\ \A i \in DOMAIN calls : calls[i].key \in KeyIds
  BY RequestTypes, CallTypes
<1>2. /\ DOMAIN calls = 1 .. Len(calls) /\ Len(calls) \in Nat /\ Len(calls') \in Nat /\ Len(calls) <= Len(calls')
      /\ \A i \in DOMAIN calls' : i \in DOMAIN calls \/ (i = Len(calls) + 1 /\ Len(calls') = Len(calls) + 1)
  BY Lengths
<1>3. ASSUME NEW q \in KeyIds PROVE request'[q].call \in 0 .. Len(calls') /\ request'[q].since \in 0 .. Len(calls')
  <2>1. request[q].call \in 0 .. Len(calls) /\ request[q].since \in 0 .. Len(calls)
    BY DEF RequestsInv
  <2>2. CASE q = k
    BY <1>2, <2>1, <2>2 DEF StoreStep, RequestStep
  <2>3. CASE q # k
    BY <1>2, <2>1, <2>3 DEF StoreStep, RequestStep
  <2> QED
    BY <2>2, <2>3
<1>4. ASSUME NEW i \in DOMAIN calls
      PROVE  request'[calls'[i].key].st # "none" /\ request'[calls'[i].key].since < i
  <2>1. request[calls[i].key].st # "none" /\ request[calls[i].key].since < i /\ calls'[i].key = calls[i].key
    BY DEF StoreStep, CallsStep, RequestsInv
  <2>2. CASE calls[i].key = k
    BY <2>1, <2>2 DEF StoreStep, RequestStep
  <2>3. CASE calls[i].key # k
    BY <1>1, <2>1, <2>3 DEF StoreStep, RequestStep
  <2> QED
    BY <2>2, <2>3
<1>5. ASSUME NEW i \in DOMAIN calls', i \notin DOMAIN calls
      PROVE  request'[calls'[i].key].st # "none" /\ request'[calls'[i].key].since < i
  <2>1. i = Len(calls) + 1 /\ Len(calls') = Len(calls) + 1
    BY <1>2, <1>5
  <2>2. calls'[i].key = k
    BY <1>2, <2>1, NewCall
  <2>3. request[k].since \in 0 .. Len(calls)
    BY DEF RequestsInv
  <2>4. request'[k].st # "none" /\ request'[k].since \in 0 .. Len(calls)
    BY <1>2, <2>3 DEF StoreStep, RequestStep
  <2> QED
    BY <1>2, <2>1, <2>2, <2>4
<1>6. RequestsInv'
  BY <1>3, <1>4, <1>5 DEF RequestsInv, KeyIds
<1>7. ASSUME NEW i \in DOMAIN calls', NEW j \in DOMAIN calls', calls'[i].key = calls'[j].key PROVE i = j
  <2>1. CASE i \in DOMAIN calls /\ j \in DOMAIN calls
    BY <1>7, <2>1 DEF StoreStep, CallsStep, OneCallPerKey
  <2>2. CASE i \notin DOMAIN calls \/ j \notin DOMAIN calls
    <3>1. Len(calls') = Len(calls) + 1
      BY <1>2, <2>2
    <3>2. calls'[Len(calls) + 1].key = k /\ \A n \in DOMAIN calls : calls[n].key # k
      BY <1>2, <3>1, NewCall
    <3>3. \A n \in DOMAIN calls : calls'[n].key # k
      BY <3>2 DEF StoreStep, CallsStep
    <3> QED
      BY <1>2, <1>7, <2>2, <3>2, <3>3
  <2> QED
    BY <2>1, <2>2
<1>8. OneCallPerKey'
  BY <1>7 DEF StoreStep, CallsStep, OneCallPerKey
<1> QED
  BY <1>6, <1>8

\* A handler that does not move keeps what it has in hand, when the key that changes
\* is not its own.
LEMMA BystanderKeeps ==
  ASSUME TypeStore, TypeStore', TypeHandlers, NEW k \in KeyIds, StoreStep(k), NEW g \in Handlers, HandlerInv(g),
         hpc'[g] = hpc[g], hmem'[g] = hmem[g], hpc[g] \in Owning => Key(g) # k
  PROVE  HandlerInv(g)'
<1>1. Len(calls) \in Nat /\ Len(calls') \in Nat
  BY Lengths
<1>2. /\ Len(calls) <= Len(calls') /\ DOMAIN calls \subseteq DOMAIN calls'
      /\ \A i \in DOMAIN calls' : i \in DOMAIN calls \/ (i = Len(calls) + 1 /\ Len(calls') = Len(calls) + 1)
  BY Lengths
<1>3. Key(g)' = Key(g) /\ (hpc[g] \in Owning => Req(g)' = Req(g))
  BY DEF Key, Req, StoreStep, RequestStep, HandlerInv, Owning
<1>4. Holding \subseteq Owning /\ {"check", "insert"} \subseteq Owning /\ {"record", "failRow", "complete"} \subseteq Owning
  BY DEF Holding, Owning
<1>5. (hpc[g] # "idle" => Key(g) \in KeyIds) /\ hmem[g].call \in 0 .. Len(calls')
  BY <1>1, <1>2 DEF HandlerInv
<1>6. ASSUME hpc[g] \in {"check", "insert"}, NEW i \in DOMAIN calls' PROVE calls'[i].key # Key(g)
  <2>1. Key(g) # k /\ \A n \in DOMAIN calls : calls[n].key # Key(g)
    BY <1>4, <1>6 DEF HandlerInv
  <2>2. CASE i \in DOMAIN calls
    BY <2>1, <2>2 DEF StoreStep, CallsStep
  <2>3. CASE i \notin DOMAIN calls
    BY <1>1, <1>2, <2>1, <2>3 DEF StoreStep, LengthStep
  <2> QED
    BY <2>2, <2>3
<1>7. ASSUME hpc[g] \in Holding
      PROVE  hmem[g].call \in DOMAIN calls' /\ calls'[hmem[g].call] = calls[hmem[g].call]
  <2>1. Key(g) # k /\ hmem[g].call \in DOMAIN calls /\ calls[hmem[g].call].key = Key(g)
    BY <1>4, <1>7 DEF HandlerInv
  <2> QED
    BY <1>2, <2>1 DEF StoreStep, CallsStep
<1>8. {"link", "place"} \subseteq Holding /\ "link" \in Holding
  BY DEF Holding
<1> QED
  BY <1>3, <1>5, <1>6, <1>7, <1>8 DEF HandlerInv, KeyIds, Owning, Holding, Stored, Refusals

LEMMA GoFacts ==
  ASSUME TypeHandlers, NEW h \in Handlers, NEW s \in HandlerSteps, NEW m \in Trigger, Go(h, s, m)
  PROVE  /\ TypeHandlers' /\ hpc'[h] = s /\ hmem'[h] = m
         /\ \A g \in Handlers : g # h => hpc'[g] = hpc[g] /\ hmem'[g] = hmem[g]
<1>1. /\ hpc' \in [Handlers -> HandlerSteps] /\ hmem' \in [Handlers -> Trigger]
      /\ hpc'[h] = s /\ hmem'[h] = m
      /\ \A g \in Handlers : g # h => hpc'[g] = hpc[g] /\ hmem'[g] = hmem[g]
  BY DEF TypeHandlers, Go
<1> QED
  BY <1>1 DEF TypeHandlers

LEMMA HandlerTypes ==
  ASSUME TypeHandlers, NEW h \in Handlers
  PROVE  /\ hpc[h] \in HandlerSteps /\ hmem[h] \in Trigger /\ hmem[h].call \in Nat
         /\ Key(h) \in 0 .. MaxKeys /\ hmem[h].answer \in Stored \cup {"none"}
BY DEF TypeHandlers, Trigger, Key

\* Nobody else has the key of a handler that may write the store.
Mine(h) == hpc[h] \in Owning \/ Req(h).st = "none" \/ Req(h).old

LEMMA AloneWithKey ==
  ASSUME \A g \in Handlers : HandlerInv(g), OneOwner, NEW h \in Handlers, Mine(h),
         NEW g \in Handlers, g # h, hpc[g] \in Owning
  PROVE  Key(g) # Key(h)
<1>1. Req(g).st = "open" /\ ~Req(g).old
  BY DEF HandlerInv
<1>2. ASSUME Key(g) = Key(h) PROVE FALSE
  BY <1>1, <1>2 DEF Mine, OneOwner, Req
<1> QED
  BY <1>2

\* What is left to show of a handler that changes the store: what it has in hand then.
LEMMA WritingStep ==
  ASSUME Inv, NEW h \in Handlers, Key(h) \in KeyIds, Mine(h), TypeStore', StoreStep(Key(h)),
         NEW s \in HandlerSteps, NEW m \in Trigger, Go(h, s, m), s \in Owning => m.key = Key(h), HandlerInv(h)'
  PROVE  TypeHandlers' /\ StoreInv'
<1>1. /\ TypeHandlers' /\ hpc'[h] = s /\ hmem'[h] = m
      /\ \A g \in Handlers : g # h => hpc'[g] = hpc[g] /\ hmem'[g] = hmem[g]
  BY Parts, GoFacts
<1>2. \A g \in Handlers : g # h /\ hpc[g] \in Owning => Key(g) # Key(h)
  BY AloneWithKey DEF Inv, StoreInv
<1>3. \A g \in Handlers : HandlerInv(g)'
  BY <1>1, <1>2, Parts, BystanderKeeps
<1>4. RequestsInv' /\ OneCallPerKey'
  BY Parts, StoreStepFacts DEF Inv, StoreInv
<1>5. ASSUME NEW a \in Handlers, NEW b \in Handlers, hpc'[a] \in Owning, hpc'[b] \in Owning, hmem'[a].key = hmem'[b].key
      PROVE  a = b
  <2>1. \A g \in Handlers : hpc'[g] \in Owning => hmem'[g].key = Key(g)
    BY <1>1 DEF Key
  <2>2. CASE a # h /\ b # h
    BY <1>1, <1>5, <2>1, <2>2 DEF Inv, StoreInv, OneOwner
  <2>3. CASE a = h \/ b = h
    BY <1>1, <1>2, <1>5, <2>1, <2>3
  <2> QED
    BY <2>2, <2>3
<1>6. OneOwner'
  BY <1>5 DEF OneOwner, Key, Owning
<1> QED
  BY <1>1, <1>3, <1>4, <1>6 DEF StoreInv

\* A handler that only moves: nothing changes for the others.
LEMMA QuietStep ==
  ASSUME Inv, NEW h \in Handlers, UNCHANGED store,
         NEW s \in HandlerSteps, NEW m \in Trigger, Go(h, s, m),
         s \in Owning => hpc[h] \in Owning /\ m.key = Key(h), HandlerInv(h)'
  PROVE  TypeStore' /\ TypeHandlers' /\ StoreInv'
<1>1. /\ TypeHandlers' /\ hpc'[h] = s /\ hmem'[h] = m
      /\ \A g \in Handlers : g # h => hpc'[g] = hpc[g] /\ hmem'[g] = hmem[g]
  BY Parts, GoFacts
<1>2. request' = request /\ calls' = calls
  BY DEF store
<1>3. ASSUME NEW g \in Handlers, g # h PROVE HandlerInv(g)'
  <2>1. HandlerInv(g) /\ hpc'[g] = hpc[g] /\ hmem'[g] = hmem[g]
    BY <1>1, <1>3, Parts
  <2> QED
    BY <1>2, <2>1 DEF HandlerInv, Key, Req, KeyIds, Owning, Holding, Stored, Refusals
<1>4. \A g \in Handlers : HandlerInv(g)'
  BY <1>3
<1>5. TypeStore' /\ RequestsInv' /\ OneCallPerKey'
  BY <1>2, Parts DEF Inv, StoreInv, TypeStore, RequestsInv, OneCallPerKey, KeyIds, Request, Call, Stored, Refusals
<1>6. \A g \in Handlers : hpc'[g] \in Owning => hpc[g] \in Owning /\ hmem'[g].key = Key(g)
  BY <1>1 DEF Key
<1>7. OneOwner'
  BY <1>6 DEF Inv, StoreInv, OneOwner, Key, Owning
<1> QED
  BY <1>1, <1>4, <1>5, <1>7 DEF StoreInv

\* The other parts of the invariant: the board stays, and the pacers keep theirs.
LEMMA HandlerStep ==
  ASSUME TriggerAssumption, Inv, UNCHANGED <<board, changes>>, TypeStore', TypeHandlers', StoreInv',
         TypePacers', PacersInv', faults' \in 0 .. MaxFaults
  PROVE  Inv'
<1>1. BoardNext /\ keys' \in Seq(Touches) /\ Len(keys') <= MaxKeys /\ changes' \in 0 .. MaxChanges
  BY Parts, SameBoard DEF board, TypeBoard
<1> QED
  BY <1>1, TypesTogether DEF Inv

LEMMA RequestWrite ==
  ASSUME Inv, NEW k \in KeyIds, NEW r \in Request, request' = [request EXCEPT ![k] = r], calls' = calls,
         r.st # "none", r.call \in 0 .. Len(calls),
         r.since = request[k].since \/ (request[k].st = "none" /\ r.since = Len(calls))
  PROVE  TypeStore' /\ StoreStep(k) /\ request'[k] = r
<1>1. request \in [KeyIds -> Request] /\ calls \in Seq(Call)
  BY Parts DEF TypeStore
<1>2. request' \in [KeyIds -> Request] /\ request'[k] = r /\ \A q \in KeyIds : q # k => request'[q] = request[q]
  BY <1>1
<1>3. TypeStore'
  BY <1>1, <1>2 DEF TypeStore, KeyIds, Request, Call, Stored, Refusals
<1>4. RequestStep(k) /\ LengthStep(k)
  BY <1>2 DEF RequestStep, LengthStep
<1>5. CallsStep(k)
  BY DEF CallsStep, Inv, StoreInv, OneCallPerKey
<1> QED
  BY <1>2, <1>3, <1>4, <1>5 DEF StoreStep

LEMMA CallWrite ==
  ASSUME Inv, NEW i \in DOMAIN calls, NEW c \in Call, calls' = [calls EXCEPT ![i] = c], request' = request,
         c.key = calls[i].key, c.rings <= 1
  PROVE  /\ TypeStore' /\ StoreStep(calls[i].key) /\ Len(calls') = Len(calls) /\ calls'[i] = c
         /\ \A j \in DOMAIN calls : j # i => calls'[j] = calls[j]
<1> DEFINE k == calls[i].key
<1>1. request \in [KeyIds -> Request] /\ calls \in Seq(Call) /\ k \in KeyIds
  BY Parts, CallTypes DEF TypeStore
<1>2. /\ calls' \in Seq(Call) /\ Len(calls') = Len(calls) /\ DOMAIN calls' = DOMAIN calls
      /\ calls'[i] = c /\ \A j \in DOMAIN calls : j # i => calls'[j] = calls[j]
  BY <1>1
<1>3. TypeStore'
  BY <1>1, <1>2 DEF TypeStore, KeyIds, Request, Call, Stored, Refusals
<1>4. request[k].st # "none" /\ request[k].call \in 0 .. Len(calls)
  BY <1>1 DEF Inv, StoreInv, RequestsInv
<1>5. RequestStep(k) /\ LengthStep(k)
  BY <1>2, <1>4 DEF RequestStep, LengthStep
<1>6. \A j \in DOMAIN calls : calls[j].rings <= 1
  BY DEF Inv, StoreInv, OneCallPerKey
<1>7. CallsStep(k)
  BY <1>2, <1>6 DEF CallsStep
<1> QED
  BY <1>2, <1>3, <1>5, <1>7 DEF StoreStep

LEMMA CallAppend ==
  ASSUME Inv, NEW k \in KeyIds, NEW why \in Refusals \cup {"none"}, calls' = Append(calls, Row(k, why)), request' = request,
         request[k].st # "none", \A i \in DOMAIN calls : calls[i].key # k
  PROVE  TypeStore' /\ StoreStep(k) /\ Len(calls') = Len(calls) + 1 /\ calls'[Len(calls) + 1] = Row(k, why)
<1>1. request \in [KeyIds -> Request] /\ calls \in Seq(Call)
  BY Parts DEF TypeStore
<1>2. Row(k, why) \in Call /\ Row(k, why).key = k /\ Row(k, why).rings <= 1
  BY DEF Row, Call
<1>3. /\ calls' \in Seq(Call) /\ Len(calls') = Len(calls) + 1
      /\ calls'[Len(calls) + 1] = Row(k, why) /\ \A j \in DOMAIN calls : calls'[j] = calls[j]
      /\ \A j \in DOMAIN calls' : j \in DOMAIN calls \/ j = Len(calls) + 1
  BY <1>1, <1>2
<1>4. TypeStore'
  BY <1>1, <1>3 DEF TypeStore, KeyIds, Request, Call, Stored, Refusals
<1>5. request[k].call \in 0 .. Len(calls')
  <2>1. request[k].call \in 0 .. Len(calls) /\ Len(calls) \in Nat
    BY <1>1 DEF Inv, StoreInv, RequestsInv
  <2>2. ASSUME NEW n \in Nat, NEW x \in 0 .. n PROVE x \in 0 .. (n + 1)
    OBVIOUS
  <2> QED
    BY <1>3, <2>1, <2>2
<1>6. RequestStep(k) /\ LengthStep(k)
  BY <1>2, <1>3, <1>5 DEF RequestStep, LengthStep
<1>7. \A j \in DOMAIN calls : calls[j].rings <= 1
  BY DEF Inv, StoreInv, OneCallPerKey
<1>8. CallsStep(k)
  BY <1>2, <1>3, <1>7 DEF CallsStep
<1> QED
  BY <1>3, <1>4, <1>6, <1>8 DEF StoreStep

-----------------------------------------------------------------------------
(* How a handler goes on or ends.                                          *)

LEMMA ReplyFacts ==
  ASSUME TriggerAssumption, Inv, NEW h \in Handlers, NEW a \in Answers, NEW c \in Nat, Reply(h, a, c)
  PROVE  TypePacers' /\ PacersInv' /\ Go(h, "idle", NoTrigger) /\ HandlerInv(h)'
<1>1. Go(h, "idle", NoTrigger) /\ "idle" \in HandlerSteps /\ NoTrigger \in Trigger /\ NoTrigger.call = 0
  BY NoMemType DEF Reply, HandlerSteps, NoTrigger
<1>2. hpc'[h] = "idle" /\ hmem'[h] = NoTrigger
  BY <1>1, Parts, GoFacts
<1>3. HandlerInv(h)'
  BY <1>1, <1>2 DEF HandlerInv, Owning, Holding
<1>4. pc \in [Pacers -> PacerSteps] /\ mem \in [Pacers -> PacerMem] /\ PacersInv
  BY Parts DEF TypePacers
<1> DEFINE w == {p \in Pacers : pc[p] = "wait" /\ mem[p].h = h}
<1>5. /\ pc' = [p \in Pacers |-> IF p \notin w THEN pc[p] ELSE IF a = "conflict" THEN "resolve" ELSE "apply"]
      /\ mem' = [p \in Pacers |-> IF p \in w THEN [mem[p] EXCEPT !.h = AnyHandler, !.answer = a, !.call = c] ELSE mem[p]]
  BY DEF Reply
<1>6. \A p \in Pacers : [mem[p] EXCEPT !.h = AnyHandler, !.answer = a, !.call = c] \in PacerMem
  BY <1>4, Bounds DEF PacerMem
<1>7. pc' \in [Pacers -> PacerSteps] /\ mem' \in [Pacers -> PacerMem]
  BY <1>4, <1>5, <1>6 DEF PacerSteps
<1>8. TypePacers'
  BY <1>7 DEF TypePacers, PacerSteps, PacerMem, Answers, Stored, Refusals
<1>9. ASSUME NEW p \in Pacers, pc'[p] \in {"send", "wait", "resolve"} PROVE mem'[p].key \in KeyIds
  <2>1. mem'[p].key = mem[p].key
    BY <1>4, <1>5 DEF PacerMem
  <2>2. pc[p] \in {"send", "wait", "resolve"}
    BY <1>5, <1>9
  <2> QED
    BY <1>4, <2>1, <2>2 DEF PacersInv
<1>10. PacersInv'
  BY <1>9 DEF PacersInv, KeyIds
<1> QED
  BY <1>1, <1>3, <1>8, <1>10

LEMMA PacersStay ==
  ASSUME Inv, UNCHANGED pacer
  PROVE  TypePacers' /\ PacersInv'
BY Parts DEF pacer, TypePacers, PacersInv, PacerSteps, PacerMem, Answers, Stored, Refusals, KeyIds

\* A handler ends with an answer and writes nothing.
LEMMA QuietReply ==
  ASSUME TriggerAssumption, Inv, NEW h \in Handlers, NEW a \in Answers, NEW c \in Nat, Reply(h, a, c),
         UNCHANGED store, UNCHANGED <<board, changes>>, faults' \in 0 .. MaxFaults
  PROVE  Inv'
<1>1. TypePacers' /\ PacersInv' /\ Go(h, "idle", NoTrigger) /\ HandlerInv(h)'
  BY ReplyFacts
<1>2. TypeStore' /\ TypeHandlers' /\ StoreInv'
  BY <1>1, NoMemType, QuietStep DEF HandlerSteps, Owning
<1> QED
  BY <1>1, <1>2, HandlerStep

\* A handler goes on to a step and writes nothing.
LEMMA QuietGo ==
  ASSUME TriggerAssumption, Inv, NEW h \in Handlers, NEW s \in HandlerSteps, NEW m \in Trigger, Go(h, s, m),
         UNCHANGED store, UNCHANGED pacer, UNCHANGED <<board, changes>>, faults' \in 0 .. MaxFaults,
         s \in Owning => hpc[h] \in Owning /\ m.key = Key(h), HandlerInv(h)'
  PROVE  Inv'
<1>1. TypeStore' /\ TypeHandlers' /\ StoreInv'
  BY QuietStep
<1> QED
  BY <1>1, PacersStay, HandlerStep

\* A handler goes on to a step and writes.
LEMMA WritingGo ==
  ASSUME TriggerAssumption, Inv, NEW h \in Handlers, NEW s \in HandlerSteps, NEW m \in Trigger, Go(h, s, m),
         Key(h) \in KeyIds, Mine(h), TypeStore', StoreStep(Key(h)), UNCHANGED pacer,
         UNCHANGED <<board, changes>>, faults' \in 0 .. MaxFaults, m.key = Key(h), HandlerInv(h)'
  PROVE  Inv'
<1>1. TypeHandlers' /\ StoreInv'
  BY WritingStep
<1> QED
  BY <1>1, PacersStay, HandlerStep

LEMMA Handled ==
  ASSUME Inv, NEW h \in Handlers, hpc[h] # "idle"
  PROVE  /\ Key(h) \in KeyIds /\ Req(h) \in Request /\ hmem[h] \in Trigger /\ hmem[h].key = Key(h)
         /\ hmem[h].call \in 0 .. Len(calls) /\ Req(h).call \in 0 .. Len(calls) /\ Len(calls) \in Nat
<1>1. Key(h) \in KeyIds /\ hmem[h].call \in 0 .. Len(calls) /\ hmem[h] \in Trigger
  BY Parts, HandlerTypes DEF HandlerInv
<1>2. Req(h) \in Request /\ Req(h).call \in 0 .. Len(calls)
  BY <1>1, Parts, RequestTypes DEF Req, Inv, StoreInv, RequestsInv
<1> QED
  BY <1>1, <1>2, Parts DEF Key, TypeStore

-----------------------------------------------------------------------------
(* The steps of a handler.                                                 *)

LEMMA HandleFacts ==
  ASSUME Inv, NEW h \in Handlers, NEW s \in HandlerSteps, NEW A, Handle(h, s, A)
  PROVE  hpc[h] = s /\ A /\ UNCHANGED <<board, changes>>
BY DEF Handle

LEMMA FaultsStay ==
  ASSUME Inv, NoLoss
  PROVE  faults' \in 0 .. MaxFaults
BY Parts DEF NoLoss

LEMMA NewRequest ==
  ASSUME NEW n \in Nat, NEW r, r = [NoRequest EXCEPT !.st = "open", !.since = n]
  PROVE  r \in Request /\ r.st = "open" /\ ~r.old /\ r.since = n /\ r.call \in 0 .. n
<1>1. r \in Request /\ r.st = "open" /\ ~r.old /\ r.since = n /\ r.call = 0
  BY DEF NoRequest, Request, Stored, Refusals
<1> QED
  BY <1>1

LEMMA ReserveInv ==
  ASSUME TriggerAssumption, Inv, NEW h \in Handlers, hpc[h] = "arrive", Reserve(h), UNCHANGED <<board, changes>>, NoLoss
  PROVE  Inv'
<1>1. faults' \in 0 .. MaxFaults
  BY FaultsStay
<1>2. /\ Key(h) \in KeyIds /\ Req(h) \in Request /\ hmem[h] \in Trigger /\ hmem[h].key = Key(h)
      /\ hmem[h].call \in 0 .. Len(calls) /\ Req(h).call \in 0 .. Len(calls) /\ Len(calls) \in Nat
  BY Handled
<1>3. Req(h).call \in Nat /\ Req(h).answer \in Stored
  BY <1>2 DEF Request
<1>4. CASE /\ Req(h).st = "none" /\ UNCHANGED <<pacer, calls>>
           /\ SetRequest(h, [NoRequest EXCEPT !.st = "open", !.since = Len(calls)]) /\ Go(h, "check", hmem[h])
  <2> DEFINE r == [NoRequest EXCEPT !.st = "open", !.since = Len(calls)]
  <2>1. r \in Request /\ r.st = "open" /\ ~r.old /\ r.since = Len(calls) /\ r.call \in 0 .. Len(calls)
    BY <1>2, NewRequest
  <2>2. request[Key(h)].st = "none" /\ request' = [request EXCEPT ![Key(h)] = r] /\ calls' = calls
    BY <1>4 DEF Req, SetRequest
  <2>3. TypeStore' /\ StoreStep(Key(h)) /\ request'[Key(h)] = r
    BY <1>2, <2>1, <2>2, RequestWrite
  <2>4. hpc'[h] = "check" /\ hmem'[h] = hmem[h]
    BY <1>2, <1>4, Parts, GoFacts DEF HandlerSteps, Owning
  <2>5. \A i \in DOMAIN calls : calls[i].key # Key(h)
    BY <2>2 DEF Inv, StoreInv, RequestsInv
  <2>6. HandlerInv(h)'
    BY <1>2, <2>1, <2>2, <2>3, <2>4, <2>5 DEF HandlerInv, Key, Req, KeyIds, Owning, Holding
  <2> QED
    BY <1>1, <1>2, <1>4, <2>3, <2>6, WritingGo DEF HandlerSteps, Owning, Mine
<1>5. CASE UNCHANGED store /\ Req(h).st # "none" /\ Reply(h, "conflict", 0)
  BY <1>1, <1>5, QuietReply DEF Answers
<1>6. CASE UNCHANGED store /\ Req(h).st = "answered" /\ Reply(h, Req(h).answer, Req(h).call)
  BY <1>1, <1>3, <1>6, QuietReply DEF Answers
<1>7. CASE UNCHANGED store /\ Req(h).st = "open" /\ ~Req(h).old /\ Reply(h, "in_flight", 0)
  BY <1>1, <1>7, QuietReply DEF Answers
<1>8. CASE UNCHANGED store /\ Req(h).st = "open" /\ Req(h).old /\ Go(h, "takeOver", hmem[h]) /\ UNCHANGED pacer
  <2>1. hpc'[h] = "takeOver" /\ hmem'[h] = hmem[h]
    BY <1>2, <1>8, Parts, GoFacts DEF HandlerSteps
  <2>2. HandlerInv(h)'
    BY <1>2, <1>8, <2>1 DEF HandlerInv, Key, KeyIds, Owning, Holding, store
  <2> QED
    BY <1>1, <1>2, <1>8, <2>2, QuietGo DEF HandlerSteps, Owning
<1> QED
  BY <1>4, <1>5, <1>6, <1>7, <1>8 DEF Reserve

LEMMA ArriveInv ==
  ASSUME TriggerAssumption, Inv, NEW h \in Handlers, Arrive(h)
  PROVE  Inv'
<1>1. hpc[h] = "arrive" /\ UNCHANGED <<board, changes>> /\ NoLoss
  BY DEF Arrive, Handle
<1>2. CASE Reserve(h)
  BY <1>1, <1>2, ReserveInv
<1>3. CASE Reply(h, "park", 0) /\ UNCHANGED store
  BY <1>1, <1>3, FaultsStay, QuietReply DEF Answers
<1> QED
  BY <1>2, <1>3 DEF Arrive, Handle

LEMMA TakeOverInv ==
  ASSUME TriggerAssumption, Inv, NEW h \in Handlers, TakeOver(h)
  PROVE  Inv'
<1>1. hpc[h] = "takeOver" /\ UNCHANGED <<board, changes>> /\ faults' \in 0 .. MaxFaults
  BY FaultsStay DEF TakeOver, Handle
<1>2. /\ Key(h) \in KeyIds /\ Req(h) \in Request /\ hmem[h] \in Trigger /\ hmem[h].key = Key(h)
      /\ hmem[h].call \in 0 .. Len(calls) /\ Req(h).call \in 0 .. Len(calls)
  BY <1>1, Handled
<1>3. CASE Req(h).st = "open" /\ Req(h).old
  <2> DEFINE r == [Req(h) EXCEPT !.old = FALSE]
  <2>1. r \in Request /\ r.st = "open" /\ ~r.old /\ r.since = Req(h).since /\ r.call = Req(h).call
    BY <1>2, <1>3 DEF Request
  <2>2. request' = [request EXCEPT ![Key(h)] = r] /\ calls' = calls /\ Go(h, "find", hmem[h]) /\ UNCHANGED pacer
    BY <1>3 DEF TakeOver, Handle, SetRequest
  <2>3. TypeStore' /\ StoreStep(Key(h)) /\ request'[Key(h)] = r
    BY <1>2, <2>1, <2>2, RequestWrite DEF Req
  <2>4. hpc'[h] = "find" /\ hmem'[h] = hmem[h]
    BY <1>2, <2>2, Parts, GoFacts DEF HandlerSteps, Owning
  <2>5. HandlerInv(h)'
    BY <1>2, <2>1, <2>2, <2>3, <2>4 DEF HandlerInv, Key, Req, KeyIds, Owning, Holding
  <2> QED
    BY <1>1, <1>2, <1>3, <2>2, <2>3, <2>5, WritingGo DEF HandlerSteps, Owning, Mine
<1>4. CASE ~(Req(h).st = "open" /\ Req(h).old)
  <2>1. Reply(h, "in_flight", 0) /\ UNCHANGED store
    BY <1>4 DEF TakeOver, Handle
  <2> QED
    BY <1>1, <2>1, QuietReply DEF Answers
<1> QED
  BY <1>3, <1>4

\* Nothing linked to the key and nothing newer than its reservation: it placed no call.
LEMMA FindInv ==
  ASSUME TriggerAssumption, Inv, NEW h \in Handlers, Find(h)
  PROVE  Inv'
<1> DEFINE i == IF Req(h).call # 0 THEN Req(h).call ELSE Found(Key(h))
<1>0. /\ i # 0 => Go(h, "complete", [hmem[h] EXCEPT !.answer = Rebuilt(i), !.call = i])
      /\ i = 0 => Found(Key(h)) = 0 /\ Go(h, "check", hmem[h])
  BY DEF Find, Handle, Then
<1>1. hpc[h] = "find" /\ UNCHANGED <<board, changes>> /\ faults' \in 0 .. MaxFaults /\ UNCHANGED pacer /\ UNCHANGED store
  BY FaultsStay DEF Find, Handle
<1>2. /\ Key(h) \in KeyIds /\ Req(h) \in Request /\ hmem[h] \in Trigger /\ hmem[h].key = Key(h)
      /\ hmem[h].call \in 0 .. Len(calls) /\ Req(h).call \in 0 .. Len(calls) /\ Len(calls) \in Nat
  BY <1>1, Handled
<1>3. Req(h).st = "open" /\ ~Req(h).old
  BY <1>1, Parts DEF HandlerInv, Owning
<1>4. i \in 0 .. Len(calls) /\ DOMAIN calls = 1 .. Len(calls)
  BY <1>2, Parts, FoundFacts DEF TypeStore
<1> HIDE DEF i
<1>5. CASE i # 0
  <2> DEFINE m == [hmem[h] EXCEPT !.answer = Rebuilt(i), !.call = i]
  <2>1. Rebuilt(i) \in Stored
    <3>1. i \in DOMAIN calls
      BY <1>2, <1>4, <1>5
    <3> QED
      BY <3>1, Parts, RebuiltType
  <2>2. m \in Trigger /\ m.key = Key(h) /\ m.call = i /\ m.answer = Rebuilt(i)
    <3>1. i \in Nat
      BY <1>2, <1>4
    <3>2. m = [hmem[h] EXCEPT !.answer = Rebuilt(i), !.call = i]
      OBVIOUS
    <3> HIDE DEF m
    <3> QED
      BY <1>2, <2>1, <3>1, <3>2 DEF Trigger
  <2>3. Go(h, "complete", m)
    BY <1>0, <1>5
  <2>4. hpc'[h] = "complete" /\ hmem'[h] = m
    BY <2>2, <2>3, Parts, GoFacts DEF HandlerSteps, Owning
  <2>5. HandlerInv(h)'
    BY <1>1, <1>2, <1>3, <1>4, <2>1, <2>2, <2>4 DEF HandlerInv, Key, Req, KeyIds, Owning, Holding, Stored, Refusals, store
  <2> QED
    BY <1>1, <2>2, <2>3, <2>5, QuietGo DEF HandlerSteps, Owning
<1>6. CASE i = 0
  <2>1. Go(h, "check", hmem[h])
    BY <1>0, <1>6
  <2>2. Found(Key(h)) = 0
    BY <1>0, <1>6
  <2>3. CallsSince(Key(h)) = {}
    BY <1>2, <2>2, Parts, FoundFacts
  <2>4. \A j \in DOMAIN calls : calls[j].key # Key(h)
    BY <2>3 DEF CallsSince, Inv, StoreInv, RequestsInv
  <2>5. hpc'[h] = "check" /\ hmem'[h] = hmem[h]
    BY <1>2, <2>1, Parts, GoFacts DEF HandlerSteps, Owning
  <2>6. HandlerInv(h)'
    BY <1>1, <1>2, <1>3, <2>4, <2>5 DEF HandlerInv, Key, Req, KeyIds, Owning, Holding, store
  <2> QED
    BY <1>1, <1>2, <2>1, <2>6, QuietGo DEF HandlerSteps, Owning
<1> QED
  BY <1>5, <1>6

\* The row of the one call of the key.
LEMMA InsertInv ==
  ASSUME TriggerAssumption, Inv, NEW h \in Handlers, hpc[h] \in {"check", "insert"}, NEW why \in Refusals \cup {"none"},
         Insert(h, why), UNCHANGED <<board, changes>>, NoLoss
  PROVE  Inv'
<1> DEFINE n == Len(calls) + 1
           m == [hmem[h] EXCEPT !.answer = why, !.call = n]
<1>1. faults' \in 0 .. MaxFaults
  BY FaultsStay
<1>2. /\ Key(h) \in KeyIds /\ Req(h) \in Request /\ hmem[h] \in Trigger /\ hmem[h].key = Key(h) /\ Len(calls) \in Nat
  BY Handled
<1>3. Req(h).st = "open" /\ ~Req(h).old /\ \A i \in DOMAIN calls : calls[i].key # Key(h)
  BY Parts DEF HandlerInv, Owning
<1>4. calls' = Append(calls, Row(Key(h), why)) /\ Go(h, "link", m) /\ UNCHANGED pacer /\ request' = request
  BY DEF Insert, Then
<1>5. /\ TypeStore' /\ StoreStep(Key(h)) /\ Len(calls') = Len(calls) + 1
      /\ calls'[Len(calls) + 1] = Row(Key(h), why)
  BY <1>2, <1>3, <1>4, CallAppend DEF Req
<1>6. m \in Trigger /\ m.key = Key(h) /\ m.answer = why /\ m.call = Len(calls) + 1
  <2>1. n \in Nat /\ why \in Stored \cup {"none"}
    BY <1>2 DEF Stored
  <2>2. m = [hmem[h] EXCEPT !.answer = why, !.call = n]
    OBVIOUS
  <2> HIDE DEF m, n
  <2>3. m \in Trigger /\ m.key = hmem[h].key /\ m.answer = why /\ m.call = n
    BY <1>2, <2>1, <2>2 DEF Trigger
  <2> QED
    BY <1>2, <2>3 DEF n
<1>7. hpc'[h] = "link" /\ hmem'[h] = m
  BY <1>4, <1>6, Parts, GoFacts DEF HandlerSteps, Owning
<1>8. Len(calls) + 1 \in DOMAIN calls' /\ m.call \in 0 .. Len(calls')
  <2>1. DOMAIN calls' = 1 .. Len(calls')
    BY <1>5 DEF TypeStore
  <2>2. ASSUME NEW x \in Nat PROVE x + 1 \in 1 .. (x + 1) /\ x + 1 \in 0 .. (x + 1)
    OBVIOUS
  <2> QED
    BY <1>2, <1>5, <1>6, <2>1, <2>2
<1>9. Row(Key(h), why).key = Key(h) /\ Row(Key(h), why).rings = 0 /\ Row(Key(h), why).why = why
  BY DEF Row
<1>10. HandlerInv(h)'
  BY <1>2, <1>3, <1>4, <1>5, <1>6, <1>7, <1>8, <1>9 DEF HandlerInv, Key, Req, KeyIds, Owning, Holding
<1> QED
  BY <1>1, <1>2, <1>4, <1>5, <1>6, <1>10, WritingGo DEF HandlerSteps, Owning, Mine

LEMMA CheckInv ==
  ASSUME TriggerAssumption, Inv, NEW h \in Handlers, Check(h)
  PROVE  Inv'
<1>1. hpc[h] = "check" /\ UNCHANGED <<board, changes>> /\ NoLoss /\ faults' \in 0 .. MaxFaults
  BY FaultsStay DEF Check, Handle
<1>2. /\ Key(h) \in KeyIds /\ hmem[h] \in Trigger /\ hmem[h].key = Key(h) /\ hmem[h].call \in 0 .. Len(calls)
      /\ Len(calls) \in Nat
  BY <1>1, Handled
<1>3. Req(h).st = "open" /\ ~Req(h).old /\ \A i \in DOMAIN calls : calls[i].key # Key(h)
  BY <1>1, Parts DEF HandlerInv, Owning
<1>4. ASSUME NEW why \in Refusals, Then(h, "complete", why, 0), UNCHANGED pacer, UNCHANGED store PROVE Inv'
  <2> DEFINE m == [hmem[h] EXCEPT !.answer = why, !.call = 0]
  <2>1. m \in Trigger /\ m.key = Key(h) /\ m.answer = why /\ m.call = 0 /\ Go(h, "complete", m)
    BY <1>2, <1>4 DEF Trigger, Stored, Then
  <2>2. hpc'[h] = "complete" /\ hmem'[h] = m
    BY <2>1, Parts, GoFacts DEF HandlerSteps, Owning
  <2>3. HandlerInv(h)'
    BY <1>2, <1>3, <1>4, <2>1, <2>2 DEF HandlerInv, Key, Req, KeyIds, Owning, Holding, Stored, Refusals, store
  <2> QED
    BY <1>1, <1>4, <2>1, <2>3, QuietGo DEF HandlerSteps, Owning
<1>5. CASE Refuse(h)
  BY <1>4, <1>5 DEF Refuse, Refusals
<1>6. ASSUME NEW why \in Refusals, Insert(h, why) PROVE Inv'
  BY <1>1, <1>6, InsertInv
<1>7. CASE Go(h, "insert", hmem[h]) /\ UNCHANGED <<pacer, store>>
  <2>1. hpc'[h] = "insert" /\ hmem'[h] = hmem[h]
    BY <1>2, <1>7, Parts, GoFacts DEF HandlerSteps, Owning
  <2>2. HandlerInv(h)'
    BY <1>2, <1>3, <1>7, <2>1 DEF HandlerInv, Key, Req, KeyIds, Owning, Holding, store
  <2> QED
    BY <1>1, <1>2, <1>7, <2>2, QuietGo DEF HandlerSteps, Owning
<1> QED
  BY <1>5, <1>6, <1>7 DEF Check, Handle

LEMMA InsertCallInv ==
  ASSUME TriggerAssumption, Inv, NEW h \in Handlers, InsertCall(h)
  PROVE  Inv'
BY InsertInv DEF InsertCall, Handle

\* A handler has the call of its key in hand from the insert to the stored answer.
LEMMA InHand ==
  ASSUME Inv, NEW h \in Handlers, hpc[h] \in Holding
  PROVE  /\ hmem[h].call \in DOMAIN calls /\ calls[hmem[h].call].key = Key(h) /\ calls[hmem[h].call] \in Call
         /\ Req(h).st = "open" /\ ~Req(h).old /\ Mine(h) /\ hpc[h] # "idle"
BY Parts, CallTypes DEF HandlerInv, Holding, Owning, Mine

LEMMA LinkInv ==
  ASSUME TriggerAssumption, Inv, NEW h \in Handlers, Link(h)
  PROVE  Inv'
<1> DEFINE s == IF calls[hmem[h].call].why = "none" THEN "place" ELSE "complete"
<1>1. /\ hpc[h] = "link" /\ UNCHANGED <<board, changes>> /\ UNCHANGED pacer /\ calls' = calls /\ Go(h, s, hmem[h])
  BY DEF Link, Handle
<1>2. /\ Key(h) \in KeyIds /\ Req(h) \in Request /\ hmem[h] \in Trigger /\ hmem[h].key = Key(h)
      /\ hmem[h].call \in 0 .. Len(calls) /\ Req(h).call \in 0 .. Len(calls)
  BY <1>1, Handled
<1>3. /\ hmem[h].call \in DOMAIN calls /\ calls[hmem[h].call].key = Key(h) /\ calls[hmem[h].call] \in Call
      /\ Req(h).st = "open" /\ ~Req(h).old /\ Mine(h)
  BY <1>1, InHand DEF Holding
<1>4. calls[hmem[h].call].rings = 0 /\ hmem[h].answer = calls[hmem[h].call].why
  BY <1>1, Parts DEF HandlerInv
<1>5. s \in {"place", "complete"} /\ (s = "complete" => hmem[h].answer \in Stored)
  BY <1>3, <1>4 DEF Call, Stored
<1>6. s \in HandlerSteps /\ hpc'[h] = s /\ hmem'[h] = hmem[h]
  <2>1. s \in HandlerSteps
    BY <1>5 DEF HandlerSteps, Owning
  <2> QED
    BY <1>1, <1>2, <2>1, Parts, GoFacts
<1> HIDE DEF s
<1>7. ASSUME request'[Key(h)].st = "open", ~request'[Key(h)].old PROVE HandlerInv(h)'
  BY <1>1, <1>2, <1>3, <1>4, <1>5, <1>6, <1>7 DEF HandlerInv, Key, Req, KeyIds, Owning, Holding, Stored, Refusals
<1>8. CASE SetRequest(h, IF Req(h).st = "open" /\ Req(h).call = 0 THEN [Req(h) EXCEPT !.call = hmem[h].call] ELSE Req(h)) /\ NoLoss
  <2> DEFINE r == IF Req(h).st = "open" /\ Req(h).call = 0 THEN [Req(h) EXCEPT !.call = hmem[h].call] ELSE Req(h)
  <2>1. r \in Request /\ r.st = "open" /\ ~r.old /\ r.since = Req(h).since /\ r.call \in 0 .. Len(calls)
    <3>1. hmem[h].call \in Nat
      BY Parts, HandlerTypes
    <3> QED
      BY <1>2, <1>3, <3>1 DEF Request
  <2>2. request' = [request EXCEPT ![Key(h)] = r]
    BY <1>8 DEF SetRequest
  <2>3. TypeStore' /\ StoreStep(Key(h)) /\ request'[Key(h)] = r
    BY <1>1, <1>2, <2>1, <2>2, RequestWrite DEF Req
  <2>4. HandlerInv(h)'
    BY <1>7, <2>1, <2>3
  <2> QED
    BY <1>1, <1>2, <1>3, <1>6, <1>8, <2>3, <2>4, WritingGo, FaultsStay
<1>9. CASE Fault("db") /\ UNCHANGED request
  <2>1. faults' \in 0 .. MaxFaults
    BY <1>9, Parts, FaultType
  <2>2. UNCHANGED store
    BY <1>1, <1>9 DEF store
  <2>3. HandlerInv(h)'
    BY <1>3, <1>7, <1>9 DEF Req
  <2> QED
    BY <1>1, <1>2, <1>6, <2>1, <2>2, <2>3, QuietGo DEF Owning
<1> QED
  BY <1>8, <1>9 DEF Link, Handle

LEMMA PlaceInv ==
  ASSUME TriggerAssumption, Inv, NEW h \in Handlers, Place(h)
  PROVE  Inv'
<1> DEFINE i == hmem[h].call
           rung == [calls[i] EXCEPT !.rings = @ + 1]
<1>1. hpc[h] = "place" /\ UNCHANGED <<board, changes>> /\ UNCHANGED pacer /\ request' = request
  BY DEF Place, Handle
<1>2. /\ Key(h) \in KeyIds /\ hmem[h] \in Trigger /\ hmem[h].key = Key(h) /\ i \in 0 .. Len(calls) /\ i \in Nat
  BY <1>1, Handled, Parts, HandlerTypes
<1>3. i \in DOMAIN calls /\ calls[i].key = Key(h) /\ calls[i] \in Call /\ Req(h).st = "open" /\ ~Req(h).old /\ Mine(h)
  BY <1>1, InHand DEF Holding
<1>4. calls[i].rings = 0
  BY <1>1, Parts DEF HandlerInv
<1>5. rung \in Call /\ rung.key = Key(h) /\ rung.rings <= 1
  BY <1>3, <1>4 DEF Call
<1>6. [rung EXCEPT !.errored = TRUE] \in Call /\ [rung EXCEPT !.errored = TRUE].key = Key(h) /\ [rung EXCEPT !.errored = TRUE].rings <= 1
  BY <1>5 DEF Call
<1>7. ASSUME NEW s \in {"record", "failRow"}, NEW a \in Stored, Then(h, s, a, i),
             Len(calls') = Len(calls), DOMAIN calls' = DOMAIN calls, calls'[i].key = Key(h)
      PROVE  /\ [hmem[h] EXCEPT !.answer = a, !.call = i] \in Trigger
             /\ [hmem[h] EXCEPT !.answer = a, !.call = i].key = Key(h)
             /\ s \in HandlerSteps /\ s \in Owning /\ HandlerInv(h)'
  <2> DEFINE m == [hmem[h] EXCEPT !.answer = a, !.call = i]
  <2>1. m \in Trigger /\ m.key = Key(h) /\ m.answer = a /\ m.call = i
    BY <1>2 DEF Trigger
  <2>2. s \in HandlerSteps /\ s \in Owning
    BY DEF HandlerSteps, Owning
  <2>3. hpc'[h] = s /\ hmem'[h] = m
    BY <1>7, <2>1, <2>2, Parts, GoFacts DEF Then
  <2>4. HandlerInv(h)'
    BY <1>1, <1>2, <1>3, <1>7, <2>1, <2>3 DEF HandlerInv, Key, Req, KeyIds, Owning, Holding, Stored, Refusals
  <2> QED
    BY <2>1, <2>2, <2>4
<1>8. ASSUME NEW c \in Call, c.key = Key(h), c.rings <= 1, SetCall(i, c),
             NEW s \in {"record", "failRow"}, NEW a \in Stored, Then(h, s, a, i), faults' \in 0 .. MaxFaults
      PROVE  Inv'
  <2>1. calls' = [calls EXCEPT ![i] = c]
    BY <1>8 DEF SetCall
  <2>2. TypeStore' /\ StoreStep(Key(h)) /\ Len(calls') = Len(calls) /\ calls'[i] = c
    BY <1>1, <1>3, <1>8, <2>1, CallWrite
  <2>3. DOMAIN calls' = DOMAIN calls
    BY <2>1
  <2> QED
    BY <1>1, <1>2, <1>3, <1>7, <1>8, <2>2, <2>3, WritingGo DEF Then
<1>9. CASE SetCall(i, rung) /\ Then(h, "record", "placed", i) /\ NoLoss
  BY <1>5, <1>8, <1>9, FaultsStay DEF Stored
<1>10. CASE Fault("twilio") /\ SetCall(i, [rung EXCEPT !.errored = TRUE]) /\ Then(h, "failRow", "later", i)
  <2>1. faults' \in 0 .. MaxFaults
    BY <1>10, Parts, FaultType
  <2> QED
    BY <1>6, <1>8, <1>10, <2>1 DEF Stored, Refusals
<1>11. CASE UNCHANGED calls /\ Then(h, "failRow", "later", i) /\ NoLoss
  <2>1. "later" \in Stored /\ UNCHANGED store
    BY <1>1, <1>11 DEF Stored, Refusals, store
  <2> QED
    BY <1>1, <1>3, <1>7, <1>11, <2>1, QuietGo, FaultsStay DEF Then, Owning
<1> QED
  BY <1>9, <1>10, <1>11 DEF Place, Handle

\* The writes that only mark the row of a call.
LEMMA WrittenInv ==
  ASSUME TriggerAssumption, Inv, NEW h \in Handlers, NEW s \in {"record", "failRow"}, NEW c,
         calls[hmem[h].call] \in Call => c \in Call /\ c.key = calls[hmem[h].call].key /\ c.rings = calls[hmem[h].call].rings,
         Written(h, s, c)
  PROVE  Inv'
<1> DEFINE i == hmem[h].call
<1>1. /\ hpc[h] = s /\ UNCHANGED <<board, changes>> /\ UNCHANGED pacer /\ request' = request
      /\ Go(h, "complete", hmem[h])
  BY DEF Written, Handle
<1>2. /\ Key(h) \in KeyIds /\ hmem[h] \in Trigger /\ hmem[h].key = Key(h) /\ i \in 0 .. Len(calls)
  BY <1>1, Handled
<1>3. i \in DOMAIN calls /\ calls[i].key = Key(h) /\ calls[i] \in Call /\ Req(h).st = "open" /\ ~Req(h).old /\ Mine(h)
  BY <1>1, InHand DEF Holding
<1>4. hmem[h].answer \in Stored
  BY <1>1, Parts DEF HandlerInv
<1>5. "complete" \in HandlerSteps /\ hpc'[h] = "complete" /\ hmem'[h] = hmem[h]
  BY <1>1, <1>2, Parts, GoFacts DEF HandlerSteps, Owning
<1>6. ASSUME Len(calls') = Len(calls) PROVE HandlerInv(h)'
  BY <1>1, <1>2, <1>3, <1>4, <1>5, <1>6 DEF HandlerInv, Key, Req, KeyIds, Owning, Holding, Stored, Refusals
<1>7. CASE SetCall(i, c) /\ NoLoss
  <2>1. calls' = [calls EXCEPT ![i] = c]
    BY <1>7 DEF SetCall
  <2>2. c \in Call /\ c.key = calls[i].key /\ c.rings <= 1
    BY <1>3 DEF Inv, StoreInv, OneCallPerKey
  <2>3. TypeStore' /\ StoreStep(Key(h)) /\ Len(calls') = Len(calls)
    BY <1>1, <1>3, <2>1, <2>2, CallWrite
  <2> QED
    BY <1>1, <1>2, <1>3, <1>5, <1>6, <1>7, <2>3, WritingGo, FaultsStay
<1>8. CASE Fault("db") /\ UNCHANGED calls
  <2>1. faults' \in 0 .. MaxFaults /\ UNCHANGED store
    BY <1>1, <1>8, Parts, FaultType DEF store
  <2> QED
    BY <1>1, <1>2, <1>5, <1>6, <1>8, <2>1, QuietGo DEF Owning
<1> QED
  BY <1>7, <1>8 DEF Written, Handle

LEMMA RecordPlacedInv ==
  ASSUME TriggerAssumption, Inv, NEW h \in Handlers, RecordPlaced(h)
  PROVE  Inv'
<1> DEFINE c == [calls[hmem[h].call] EXCEPT !.sid = TRUE]
<1>1. calls[hmem[h].call] \in Call => c \in Call /\ c.key = calls[hmem[h].call].key /\ c.rings = calls[hmem[h].call].rings
  BY DEF Call
<1>2. Written(h, "record", c)
  BY DEF RecordPlaced
<1> HIDE DEF c
<1> QED
  BY <1>1, <1>2, WrittenInv

LEMMA RecordFailedInv ==
  ASSUME TriggerAssumption, Inv, NEW h \in Handlers, RecordFailed(h)
  PROVE  Inv'
<1> DEFINE c == [calls[hmem[h].call] EXCEPT !.failed = TRUE, !.live = FALSE]
<1>1. calls[hmem[h].call] \in Call => c \in Call /\ c.key = calls[hmem[h].call].key /\ c.rings = calls[hmem[h].call].rings
  BY DEF Call
<1>2. Written(h, "failRow", c)
  BY DEF RecordFailed
<1> HIDE DEF c
<1> QED
  BY <1>1, <1>2, WrittenInv

LEMMA CompleteInv ==
  ASSUME TriggerAssumption, Inv, NEW h \in Handlers, Complete(h)
  PROVE  Inv'
<1> DEFINE r == [Req(h) EXCEPT !.st = "answered", !.answer = hmem[h].answer, !.call = hmem[h].call]
<1>1. /\ hpc[h] = "complete" /\ UNCHANGED <<board, changes>> /\ calls' = calls /\ NoLoss
      /\ Reply(h, hmem[h].answer, hmem[h].call)
  BY DEF Complete, Handle
<1>2. /\ Key(h) \in KeyIds /\ Req(h) \in Request /\ hmem[h].call \in 0 .. Len(calls) /\ hmem[h].call \in Nat
  BY <1>1, Handled, Parts, HandlerTypes
<1>3. hmem[h].answer \in Stored /\ Req(h).st = "open" /\ Mine(h)
  BY <1>1, Parts DEF HandlerInv, Owning, Mine
<1>4. TypePacers' /\ PacersInv' /\ Go(h, "idle", NoTrigger) /\ HandlerInv(h)'
  BY <1>1, <1>2, <1>3, ReplyFacts DEF Answers
<1>5. request' = [request EXCEPT ![Key(h)] = r]
  BY <1>3 DEF Complete, Handle, SetRequest
<1>6. r \in Request /\ r.st # "none" /\ r.since = Req(h).since /\ r.call \in 0 .. Len(calls)
  BY <1>2, <1>3 DEF Request
<1>7. TypeStore' /\ StoreStep(Key(h))
  BY <1>1, <1>2, <1>5, <1>6, RequestWrite DEF Req
<1>8. TypeHandlers' /\ StoreInv'
  BY <1>2, <1>3, <1>4, <1>7, NoMemType, WritingStep DEF HandlerSteps, Owning
<1> QED
  BY <1>1, <1>4, <1>7, <1>8, HandlerStep, FaultsStay

LEMMA CrashInv ==
  ASSUME TriggerAssumption, Inv, NEW h \in Handlers, Crash(h)
  PROVE  Inv'
<1>1. Reply(h, "transport", 0) /\ UNCHANGED store /\ UNCHANGED <<board, changes>> /\ Fault("crash")
  BY DEF Crash
<1>2. faults' \in 0 .. MaxFaults
  BY <1>1, Parts, FaultType
<1> QED
  BY <1>1, <1>2, QuietReply DEF Answers

-----------------------------------------------------------------------------
(* The pacer and its requests.                                             *)

LEMMA SendInv ==
  ASSUME TriggerAssumption, Inv, NEW p \in Pacers, Send(p)
  PROVE  Inv'
<1>1. /\ UNCHANGED <<board, changes>> /\ UNCHANGED store
      /\ mem[p] \in PacerMem /\ mem[p].key \in KeyIds
  BY Parts, PacerTypes DEF Send, PacersInv
<1>2. CASE Fault("lost") /\ Goto(p, "apply", mem[p]) /\ UNCHANGED handler
  <2>1. faults' \in 0 .. MaxFaults
    BY <1>2, Parts, FaultType
  <2>2. TypePacers' /\ PacersInv'
    BY <1>1, <1>2, Parts, GotoFacts DEF PacerSteps
  <2>3. Local
    BY <1>1, <1>2 DEF Local, handler, store
  <2>4. TypeStore' /\ TypeHandlers' /\ StoreInv'
    BY <2>3, LocalInv
  <2> QED
    BY <1>1, <2>1, <2>2, <2>4, HandlerStep
<1>3. ASSUME NEW h \in IdleHandlers, Go(h, "arrive", [NoTrigger EXCEPT !.key = mem[p].key]),
             Goto(p, "wait", [mem[p] EXCEPT !.h = h]), faults' = faults
      PROVE  Inv'
  <2> DEFINE m == [NoTrigger EXCEPT !.key = mem[p].key]
  <2>1. h \in Handlers /\ [mem[p] EXCEPT !.h = h] \in PacerMem /\ [mem[p] EXCEPT !.h = h].key \in KeyIds
    BY <1>1 DEF IdleHandlers, PacerMem
  <2>2. TypePacers' /\ PacersInv'
    BY <1>3, <2>1, Parts, GotoFacts DEF PacerSteps
  <2>3. mem[p].key \in 0 .. MaxKeys
    BY <1>1 DEF PacerMem
  <2>4. m \in Trigger /\ m.key = mem[p].key /\ m.call = 0
    BY <2>3, NoMemType DEF NoTrigger, Trigger
  <2>5. "arrive" \in HandlerSteps /\ "arrive" \notin Owning
    BY DEF HandlerSteps, Owning
  <2>6. hpc'[h] = "arrive" /\ hmem'[h] = m
    BY <1>3, <2>1, <2>4, <2>5, Parts, GoFacts
  <2>7. HandlerInv(h)'
    BY <1>1, <2>4, <2>6, Parts DEF HandlerInv, Key, KeyIds, Owning, Holding, store, TypeStore
  <2>8. TypeStore' /\ TypeHandlers' /\ StoreInv'
    BY <1>1, <1>3, <2>1, <2>4, <2>5, <2>7, QuietStep
  <2>9. faults' \in 0 .. MaxFaults
    BY <1>3, Parts
  <2> QED
    BY <1>1, <2>2, <2>8, <2>9, HandlerStep
<1>4. CASE /\ IdleHandlers # {}
           /\ LET h == CHOOSE h \in IdleHandlers : TRUE IN
                /\ Go(h, "arrive", [NoTrigger EXCEPT !.key = mem[p].key])
                /\ Goto(p, "wait", [mem[p] EXCEPT !.h = h])
           /\ faults' = faults
  <2>1. PICK h \in IdleHandlers : /\ Go(h, "arrive", [NoTrigger EXCEPT !.key = mem[p].key])
                                  /\ Goto(p, "wait", [mem[p] EXCEPT !.h = h])
    BY <1>4
  <2> QED
    BY <1>3, <1>4, <2>1
<1> QED
  BY <1>2, <1>4 DEF Send

LEMMA LostInv ==
  ASSUME TriggerAssumption, Inv, NEW p \in Pacers, NEW s \in {"apply", "idle"}, NEW m \in PacerMem, Goto(p, s, m),
         UNCHANGED <<board, handler, store, changes>>, faults' \in 0 .. MaxFaults
  PROVE  Inv'
<1>1. TypePacers' /\ PacersInv'
  BY Parts, GotoFacts DEF PacerSteps
<1>2. Local
  BY DEF Local, handler, store
<1>3. TypeStore' /\ TypeHandlers' /\ StoreInv'
  BY <1>2, LocalInv
<1> QED
  BY <1>1, <1>3, HandlerStep

LEMMA GiveUpInv ==
  ASSUME TriggerAssumption, Inv, NEW p \in Pacers, GiveUp(p)
  PROVE  Inv'
<1>1. [mem[p] EXCEPT !.h = AnyHandler] \in PacerMem
  BY Parts, PacerTypes, Bounds DEF PacerMem
<1>2. faults' \in 0 .. MaxFaults
  BY Parts, FaultType DEF GiveUp
<1> QED
  BY <1>1, <1>2, LostInv DEF GiveUp

LEMMA PacerCrashInv ==
  ASSUME TriggerAssumption, Inv, NEW p \in Pacers, PacerCrash(p)
  PROVE  Inv'
<1>1. faults' \in 0 .. MaxFaults
  BY Parts, FaultType DEF PacerCrash
<1> QED
  BY <1>1, NoMemType, LostInv DEF PacerCrash

-----------------------------------------------------------------------------
(* People, time and Twilio.                                                *)

LEMMA HeldTouchType ==
  ASSUME TriggerAssumption, TypeBoard, TypeStore, NEW t \in Touches
  PROVE  HeldTouch(t) \in Touch
<1>1. CASE Placed(t)
  <2>1. touch[t].key \in KeyIds
    BY <1>1, TouchTypes DEF Placed
  <2>2. Sent(t, ResolvedCall(touch[t].key)) \in Touch
    BY <2>1, ResolvedType, SentType, Bounds
  <2> QED
    BY <1>1, <2>2, TouchTypes DEF HeldTouch
<1>2. CASE ~Placed(t)
  BY <1>2, TouchTypes, SkippedType DEF HeldTouch
<1> QED
  BY <1>1, <1>2

LEMMA DecisionInv ==
  ASSUME TriggerAssumption, Inv, BoardNext, NEW n \in {0, 1}, changes + n <= MaxChanges, changes' = changes + n,
         UNCHANGED <<keys, pacer, handler, store, faults>>
  PROVE  Inv'
<1>1. changes' \in 0 .. MaxChanges
  BY Parts, Bounds
<1>2. Local /\ UNCHANGED keys /\ UNCHANGED pacer /\ faults' \in 0 .. MaxFaults
  BY Parts DEF Local, handler, store
<1> QED
  BY <1>1, <1>2, PacersStay, BoardStep

LEMMA DecideInv ==
  ASSUME TriggerAssumption, Inv, Decide
  PROVE  Inv'
<1>1. lead \in Lead /\ lead.plan \in Nat /\ lead.plan + 1 \in Nat
  BY Parts, PlanType DEF TypeBoard
<1>2. ASSUME Hold PROVE BoardNext
  <2>1. touch' \in [Touches -> Touch]
    BY <1>2, Parts, HeldTouchType DEF Hold
  <2>2. lead' \in Lead
    BY <1>1, <1>2 DEF Hold, Lead
  <2>3. overtaken' \subseteq KeyIds
    BY <1>2, Parts, DroppedType DEF Hold
  <2> QED
    BY <2>1, <2>2, <2>3 DEF BoardNext
<1>3. ASSUME Dismiss \/ Edit \/ Approve PROVE BoardNext
  <2>1. lead' \in Lead
    BY <1>1, <1>3 DEF Dismiss, Edit, Approve, Lead
  <2> QED
    BY <1>3, <2>1, Parts DEF Dismiss, Edit, Approve, BoardNext, TypeBoard
<1>4. ASSUME Exit PROVE BoardNext
  BY <1>4, Parts, FinishedType DEF Exit, BoardNext, TypeBoard
<1>5. ASSUME NEW t \in Touches, Release(t) PROVE BoardNext
  <2>1. Released(lead.plan) \in Touch
    <3>1. 0 \in 0 .. MaxKeys
      BY Bounds
    <3> QED
      BY <1>1, <3>1 DEF Released, NoTouch, Touch, TouchStatus
  <2>2. touch' \in [Touches -> Touch] /\ lead' \in Lead
    BY <1>1, <1>5, <2>1, Parts, SetType DEF Release, Lead
  <2> QED
    BY <1>5, <2>2, Parts DEF Release, BoardNext, TypeBoard
<1>6. CASE Decision(Hold \/ Dismiss \/ Edit \/ Approve \/ Exit, 1)
  <2>1. BoardNext
    BY <1>2, <1>3, <1>4, <1>6 DEF Decision
  <2> QED
    BY <1>6, <2>1, DecisionInv DEF Decision
<1>7. CASE Decision(\E t \in Touches : Release(t), 0)
  <2>1. BoardNext
    BY <1>5, <1>7 DEF Decision
  <2> QED
    BY <1>7, <2>1, DecisionInv DEF Decision
<1> QED
  BY <1>6, <1>7 DEF Decide

LEMMA TouchTimeInv ==
  ASSUME TriggerAssumption, Inv, NEW t \in Touches, Aged(t) \/ Due(t)
  PROVE  Inv'
<1>1. [touch[t] EXCEPT !.young = FALSE] \in Touch /\ [touch[t] EXCEPT !.due = TRUE] \in Touch
  BY Parts, TouchTypes DEF Touch
<1>2. touch' \in [Touches -> Touch]
  BY <1>1, Parts, SetType DEF Aged, Due, TouchTime
<1>3. UNCHANGED <<lead, keys, overtaken, pacer, handler, store>> /\ NoFault
  BY DEF Aged, Due, TouchTime
<1>4. BoardNext /\ Local
  BY <1>2, <1>3, Parts DEF BoardNext, TypeBoard, Local, handler, store
<1>5. changes' \in 0 .. MaxChanges /\ faults' \in 0 .. MaxFaults
  BY <1>3, Parts DEF NoFault
<1> QED
  BY <1>3, <1>4, <1>5, PacersStay, BoardStep

LEMMA OldInv ==
  ASSUME TriggerAssumption, Inv, NEW k \in KeyIds, Old(k)
  PROVE  Inv'
<1> DEFINE r == [request[k] EXCEPT !.old = TRUE]
<1>1. /\ request' = [request EXCEPT ![k] = r] /\ calls' = calls /\ UNCHANGED <<board, pacer, handler>> /\ NoFault
      /\ request[k].st = "open"
  BY DEF Old
<1>2. request[k] \in Request /\ request[k].call \in 0 .. Len(calls)
  BY Parts, RequestTypes DEF Inv, StoreInv, RequestsInv
<1>3. r \in Request /\ r.st # "none" /\ r.since = request[k].since /\ r.call \in 0 .. Len(calls)
  BY <1>1, <1>2 DEF Request
<1>4. TypeStore' /\ StoreStep(k)
  BY <1>1, <1>3, RequestWrite
<1>5. hpc' = hpc /\ hmem' = hmem
  BY <1>1 DEF handler
<1>6. \A g \in Handlers : hpc[g] \in Owning => Key(g) # k
  BY DEF Old, Working
<1>7. \A g \in Handlers : HandlerInv(g)'
  BY <1>4, <1>5, <1>6, Parts, BystanderKeeps
<1>8. RequestsInv' /\ OneCallPerKey'
  BY <1>4, Parts, StoreStepFacts DEF Inv, StoreInv
<1>9. OneOwner' /\ TypeHandlers'
  BY <1>5, Parts DEF Inv, StoreInv, OneOwner, Key, Owning, TypeHandlers, HandlerSteps, Trigger, Stored, Refusals
<1>10. changes' = changes /\ faults' \in 0 .. MaxFaults
  BY <1>1, Parts DEF NoFault
<1> QED
  BY <1>1, <1>4, <1>7, <1>8, <1>9, <1>10, PacersStay, HandlerStep DEF StoreInv

\* A status callback or the sweeper marks the row of a call, whoever has it in hand.
LEMMA CallMarked ==
  ASSUME TriggerAssumption, Inv, NEW i \in DOMAIN calls, NEW c \in Call, SetCall(i, c),
         c.key = calls[i].key, c.rings = calls[i].rings, c.why = calls[i].why,
         UNCHANGED <<board, pacer, handler, request>>, NoFault
  PROVE  Inv'
<1>1. calls' = [calls EXCEPT ![i] = c] /\ request' = request /\ hpc' = hpc /\ hmem' = hmem
  BY DEF SetCall, handler
<1>2. c.rings <= 1
  BY DEF Inv, StoreInv, OneCallPerKey
<1>3. /\ TypeStore' /\ StoreStep(calls[i].key) /\ Len(calls') = Len(calls) /\ calls'[i] = c
      /\ \A j \in DOMAIN calls : j # i => calls'[j] = calls[j]
  BY <1>1, <1>2, CallWrite
<1>4. calls[i].key \in KeyIds
  BY Parts, CallTypes
<1>5. RequestsInv' /\ OneCallPerKey'
  BY <1>3, <1>4, Parts, StoreStepFacts DEF Inv, StoreInv
<1>6. DOMAIN calls' = DOMAIN calls
  BY <1>1
<1>7. \A j \in DOMAIN calls : calls'[j].key = calls[j].key /\ calls'[j].rings = calls[j].rings /\ calls'[j].why = calls[j].why
  BY <1>3
<1>8. ASSUME NEW g \in Handlers PROVE HandlerInv(g)'
  <2>1. HandlerInv(g)
    BY Parts
  <2> QED
    BY <1>1, <1>3, <1>6, <1>7, <2>1 DEF HandlerInv, Key, Req, KeyIds, Owning, Holding, Stored, Refusals
<1>9. OneOwner' /\ TypeHandlers'
  BY <1>1, Parts DEF Inv, StoreInv, OneOwner, Key, Owning, TypeHandlers, HandlerSteps, Trigger, Stored, Refusals
<1>10. changes' = changes /\ faults' \in 0 .. MaxFaults
  BY Parts DEF NoFault
<1>11. StoreInv'
  BY <1>5, <1>8, <1>9 DEF StoreInv
<1> QED
  BY <1>3, <1>9, <1>10, <1>11, PacersStay, HandlerStep

LEMMA CallTimeInv ==
  ASSUME TriggerAssumption, Inv, NEW i \in DOMAIN calls, CallEnds(i) \/ Sweep(i)
  PROVE  Inv'
<1>1. calls[i] \in Call
  BY Parts, CallTypes
<1>2. CASE CallEnds(i)
  <2> DEFINE c == [calls[i] EXCEPT !.live = FALSE, !.sid = TRUE]
  <2>1. c \in Call /\ c.key = calls[i].key /\ c.rings = calls[i].rings /\ c.why = calls[i].why
    BY <1>1 DEF Call
  <2>2. SetCall(i, c) /\ UNCHANGED <<board, pacer, handler, request>> /\ NoFault
    BY <1>2 DEF CallEnds
  <2> HIDE DEF c
  <2> QED
    BY <2>1, <2>2, CallMarked
<1>3. CASE Sweep(i)
  <2> DEFINE c == [calls[i] EXCEPT !.failed = TRUE, !.live = FALSE]
  <2>1. c \in Call /\ c.key = calls[i].key /\ c.rings = calls[i].rings /\ c.why = calls[i].why
    BY <1>1 DEF Call
  <2>2. SetCall(i, c) /\ UNCHANGED <<board, pacer, handler, request>> /\ NoFault
    BY <1>3 DEF Sweep
  <2> HIDE DEF c
  <2> QED
    BY <2>1, <2>2, CallMarked
<1> QED
  BY <1>2, <1>3

-----------------------------------------------------------------------------
(* The theorems.                                                           *)

LEMMA InitInv ==
  ASSUME TriggerAssumption, Init
  PROVE  Inv
<1>1. TypeBoard
  <2>1. Released(1) \in Touch /\ NoTouch \in Touch
    <3>1. 0 \in 0 .. MaxKeys
      BY Bounds
    <3> QED
      BY <3>1 DEF Released, NoTouch, Touch, TouchStatus
  <2>2. touch \in [Touches -> Touch]
    BY <2>1 DEF Init
  <2>3. keys \in Seq(Touches) /\ Len(keys) <= MaxKeys
    BY Bounds DEF Init
  <2> QED
    BY <2>2, <2>3 DEF Init, TypeBoard, Lead
<1>2. TypeStore
  <2>1. NoRequest \in Request
    BY DEF NoRequest, Request, Stored, Refusals
  <2> QED
    BY <2>1 DEF Init, TypeStore
<1>3. TypePacers /\ TypeHandlers
  BY NoMemType DEF Init, TypePacers, TypeHandlers, PacerSteps, HandlerSteps
<1>4. changes \in 0 .. MaxChanges /\ faults \in 0 .. MaxFaults
  BY Bounds DEF Init
<1>5. PacersInv
  BY DEF Init, PacersInv
<1>6. ASSUME NEW h \in Handlers PROVE HandlerInv(h)
  <2>1. hpc[h] = "idle" /\ hmem[h].call = 0 /\ Len(calls) = 0
    BY DEF Init, NoTrigger
  <2> QED
    BY <2>1 DEF HandlerInv, Owning, Holding
<1>7. OneOwner
  BY DEF Init, OneOwner, Owning
<1>8. RequestsInv /\ OneCallPerKey
  BY DEF Init, RequestsInv, OneCallPerKey, NoRequest
<1> QED
  BY <1>1, <1>2, <1>3, <1>4, <1>5, <1>6, <1>7, <1>8 DEF Inv, TypeOK, StoreInv

LEMMA StutterInv ==
  ASSUME TriggerAssumption, Inv, UNCHANGED vars
  PROVE  Inv'
<1>1. UNCHANGED <<board, changes>> /\ UNCHANGED pacer /\ Local /\ faults' = faults
  BY DEF vars, board, pacer, Local
<1>2. TypeStore' /\ TypeHandlers' /\ StoreInv' /\ TypePacers' /\ PacersInv' /\ faults' \in 0 .. MaxFaults
  BY <1>1, Parts, LocalInv, PacersStay
<1> QED
  BY <1>1, <1>2, HandlerStep

LEMMA StepInv ==
  ASSUME TriggerAssumption, Inv, [Next]_vars
  PROVE  Inv'
<1>1. ASSUME NEW p \in Pacers, Pace(p) PROVE Inv'
  BY <1>1, PickInv, SettleKeyInv, GateInv, ClaimInv, RefusedInv, SendInv, GiveUpInv, ResolveInv, ApplyInv, FinishInv, ReapInv
     DEF Pace
<1>2. ASSUME NEW p \in Pacers, PacerCrash(p) PROVE Inv'
  BY <1>2, PacerCrashInv
<1>3. ASSUME NEW h \in Handlers, Answer(h) PROVE Inv'
  BY <1>3, ArriveInv, TakeOverInv, FindInv, CheckInv, InsertCallInv, LinkInv, PlaceInv, RecordPlacedInv, RecordFailedInv, CompleteInv
     DEF Answer
<1>4. ASSUME NEW h \in Handlers, Crash(h) PROVE Inv'
  BY <1>4, CrashInv
<1>5. ASSUME NEW k \in KeyIds, Old(k) PROVE Inv'
  BY <1>5, OldInv
<1>6. ASSUME NEW t \in Touches, Aged(t) \/ Due(t) PROVE Inv'
  BY <1>6, TouchTimeInv
<1>7. ASSUME NEW i \in DOMAIN calls, CallEnds(i) \/ Sweep(i) PROVE Inv'
  BY <1>7, CallTimeInv
<1>8. ASSUME Decide PROVE Inv'
  BY <1>8, DecideInv
<1>9. ASSUME UNCHANGED vars PROVE Inv'
  BY <1>9, StutterInv
<1> QED
  BY <1>1, <1>2, <1>3, <1>4, <1>5, <1>6, <1>7, <1>8, <1>9 DEF Next

LEMMA InvHolds ==
  ASSUME TriggerAssumption
  PROVE  Spec => []Inv
<1>1. Init => Inv
  BY InitInv
<1>2. Inv /\ [Next]_vars => Inv'
  BY StepInv
<1> QED
  BY <1>1, <1>2, PTL DEF Spec

\* Every variable of the pacer, the board, the request store and the calls keeps its
\* type (pace.ts, request-store.ts, service.ts).
THEOREM TypeCorrect ==
  ASSUME TriggerAssumption
  PROVE  Spec => []TypeOK
<1>1. Inv => TypeOK
  BY DEF Inv
<1> QED
  BY <1>1, InvHolds, PTL

\* A key places at most one call, whatever is lost, crashes, is taken over or is sent
\* again (request-store.ts:1-6, routes-internal.ts:242-265).
THEOREM OneCallPerKeyHolds ==
  ASSUME TriggerAssumption
  PROVE  Spec => []OneCallPerKey
<1>1. Inv => OneCallPerKey
  BY DEF Inv, StoreInv
<1> QED
  BY <1>1, InvHolds, PTL

-----------------------------------------------------------------------------
(* What became of the keys is a book of keyed calls.                       *)

BookVars == <<Said, Named, Asked, Entries>>

LEMMA ShapeType ==
  ASSUME NEW s \in Seq(Call), NEW e, e = [i \in DOMAIN s |-> [key |-> s[i].key, rings |-> s[i].rings]]
  PROVE  /\ e \in Seq([key : KeyIds, rings : Nat]) /\ Len(e) = Len(s) /\ Len(s) \in Nat
         /\ DOMAIN e = DOMAIN s /\ DOMAIN s = 1 .. Len(s)
<1> DEFINE n == Len(s)
           S == [key : KeyIds, rings : Nat]
<1>1. DOMAIN s = 1 .. n /\ n \in Nat
  OBVIOUS
<1>2. \A i \in 1 .. n : s[i].key \in KeyIds /\ s[i].rings \in Nat
  <2>1. \A i \in 1 .. n : s[i] \in Call
    BY ElementOfSeq
  <2>2. \A c \in Call : c.key \in KeyIds /\ c.rings \in Nat
    BY DEF Call
  <2> QED
    BY <2>1, <2>2
<1>3. e \in [1 .. n -> S]
  BY <1>1, <1>2
<1> HIDE DEF n, S
<1>4. e \in Seq(S)
  <2>1. [1 .. n -> S] \in {[1 .. m -> S] : m \in Nat}
    BY <1>1
  <2> QED
    BY <1>3, <2>1, SeqDef, Zenon
<1>5. DOMAIN e = 1 .. n
  BY <1>3
<1>6. Len(e) = n
  <2>1. Len(e) \in Nat /\ DOMAIN e = 1 .. Len(e)
    BY <1>4, LenProperties
  <2>2. ASSUME NEW m \in Nat, NEW l \in Nat, 1 .. m = 1 .. l PROVE m = l
    BY <2>2
  <2> QED
    BY <1>1, <1>5, <2>1, <2>2
<1> QED
  BY <1>1, <1>4, <1>5, <1>6 DEF n, S

LEMMA EntriesType ==
  ASSUME Inv
  PROVE  /\ Entries \in Seq([key : KeyIds, rings : Nat]) /\ Len(Entries) = Len(calls) /\ Len(calls) \in Nat
         /\ DOMAIN Entries = DOMAIN calls /\ DOMAIN calls = 1 .. Len(calls)
         /\ \A i \in DOMAIN calls : Entries[i] = [key |-> calls[i].key, rings |-> calls[i].rings]
<1>1. calls \in Seq(Call)
  BY Parts DEF TypeStore
<1> QED
  BY <1>1, ShapeType DEF Entries

\* A write to the record of one key.
LEMMA RecordWritten ==
  ASSUME Inv, NEW k \in KeyIds, NEW r, request' = [request EXCEPT ![k] = r], calls' = calls
  PROVE  /\ Said' = [Said EXCEPT ![k] = IF r.st = "answered" THEN r.answer ELSE r.st]
         /\ Named' = [Named EXCEPT ![k] = IF r.st = "answered" THEN r.call ELSE 0]
         /\ Asked' = [Asked EXCEPT ![k] = r.since]
         /\ Entries' = Entries
<1>1. request' = [q \in KeyIds |-> IF q = k THEN r ELSE request[q]]
  BY Parts DEF TypeStore
<1>2. Said' = [Said EXCEPT ![k] = IF r.st = "answered" THEN r.answer ELSE r.st]
  BY <1>1 DEF Said, Answered, KeyIds
<1>3. Named' = [Named EXCEPT ![k] = IF r.st = "answered" THEN r.call ELSE 0]
  BY <1>1 DEF Named, Answered, KeyIds
<1>4. Asked' = [Asked EXCEPT ![k] = r.since]
  BY <1>1 DEF Asked, KeyIds
<1> QED
  BY <1>2, <1>3, <1>4 DEF Entries

\* A write that leaves the key open, or as it was.
LEMMA RecordKept ==
  ASSUME Inv, NEW k \in KeyIds, NEW r, request' = [request EXCEPT ![k] = r], calls' = calls,
         r.st = "open", request[k].st = "open", r.since = request[k].since
  PROVE  UNCHANGED BookVars
<1>1. Said' = Said /\ Named' = Named /\ Asked' = Asked
  <2>1. Said[k] = "open" /\ Named[k] = 0 /\ Asked[k] = r.since
    BY DEF Said, Named, Asked, Answered
  <2>2. Said = [Said EXCEPT ![k] = "open"] /\ Named = [Named EXCEPT ![k] = 0] /\ Asked = [Asked EXCEPT ![k] = r.since]
    BY <2>1 DEF Said, Named, Asked
  <2>3. /\ Said' = [Said EXCEPT ![k] = IF r.st = "answered" THEN r.answer ELSE r.st]
        /\ Named' = [Named EXCEPT ![k] = IF r.st = "answered" THEN r.call ELSE 0]
        /\ Asked' = [Asked EXCEPT ![k] = r.since]
    BY RecordWritten
  <2>4. (IF r.st = "answered" THEN r.answer ELSE r.st) = "open" /\ (IF r.st = "answered" THEN r.call ELSE 0) = 0
    OBVIOUS
  <2> QED
    BY <2>2, <2>3, <2>4
<1> QED
  BY <1>1, RecordWritten DEF BookVars

\* A write to the row of one call.
LEMMA RowWritten ==
  ASSUME Inv, NEW i \in DOMAIN calls, NEW c, SetCall(i, c), request' = request, c.key = calls[i].key
  PROVE  /\ Said' = Said /\ Named' = Named /\ Asked' = Asked
         /\ Entries' = [Entries EXCEPT ![i].rings = c.rings]
         /\ c.rings = calls[i].rings => Entries' = Entries
<1>1. calls' = [j \in DOMAIN calls |-> IF j = i THEN c ELSE calls[j]]
  BY DEF SetCall
<1>2. Entries' = [j \in DOMAIN calls |-> IF j = i THEN [key |-> c.key, rings |-> c.rings] ELSE Entries[j]]
  BY <1>1 DEF Entries
<1>3. Entries[i] = [key |-> c.key, rings |-> calls[i].rings] /\ DOMAIN Entries = DOMAIN calls
  BY DEF Entries
<1>4. [Entries EXCEPT ![i].rings = c.rings]
        = [j \in DOMAIN calls |-> IF j = i THEN [Entries[i] EXCEPT !.rings = c.rings] ELSE Entries[j]]
  BY <1>3
<1>5. [Entries[i] EXCEPT !.rings = c.rings] = [key |-> c.key, rings |-> c.rings]
  BY <1>3
<1>6. c.rings = calls[i].rings => Entries' = Entries
  BY <1>2, <1>3 DEF Entries
<1> QED
  BY <1>2, <1>4, <1>5, <1>6 DEF Said, Named, Asked, Answered, KeyIds

\* A new row.
LEMMA RowAppended ==
  ASSUME Inv, NEW k \in KeyIds, NEW why \in Refusals \cup {"none"}, calls' = Append(calls, Row(k, why)), request' = request
  PROVE  /\ Said' = Said /\ Named' = Named /\ Asked' = Asked
         /\ Entries' = Append(Entries, [key |-> k, rings |-> 0])
<1> DEFINE e == [key |-> k, rings |-> 0]
           S == [key : KeyIds, rings : Nat]
<1>1. Row(k, why) \in Call /\ Row(k, why).key = k /\ Row(k, why).rings = 0
  BY DEF Row, Call
<1>2. /\ Entries \in Seq(S) /\ Len(Entries) = Len(calls) /\ Len(calls) \in Nat
      /\ DOMAIN calls = 1 .. Len(calls)
      /\ \A i \in DOMAIN calls : Entries[i] = [key |-> calls[i].key, rings |-> calls[i].rings]
  BY EntriesType
<1>3. Entries' \in Seq(S) /\ Len(Entries') = Len(calls') /\ DOMAIN calls' = 1 .. Len(calls')
      /\ \A i \in DOMAIN calls' : Entries'[i] = [key |-> calls'[i].key, rings |-> calls'[i].rings]
  <2>1. calls' \in Seq(Call)
    BY <1>1, Parts DEF TypeStore
  <2>2. Entries' = [i \in DOMAIN calls' |-> [key |-> calls'[i].key, rings |-> calls'[i].rings]]
    BY DEF Entries
  <2> QED
    BY <2>1, <2>2, ShapeType
<1>4. /\ Len(calls') = Len(calls) + 1 /\ calls'[Len(calls) + 1] = Row(k, why)
      /\ \A i \in 1 .. Len(calls) : calls'[i] = calls[i]
  BY <1>1, <1>2, Parts DEF TypeStore
<1>5. e \in S
  OBVIOUS
<1>6. /\ Append(Entries, e) \in Seq(S) /\ Len(Append(Entries, e)) = Len(Entries) + 1
      /\ Append(Entries, e)[Len(Entries) + 1] = e
      /\ \A i \in 1 .. Len(Entries) : Append(Entries, e)[i] = Entries[i]
  <2> HIDE DEF e, S
  <2> QED
    BY <1>2, <1>5
<1>7. \A i \in 1 .. Len(Entries') : Entries'[i] = Append(Entries, e)[i]
  <2> TAKE i \in 1 .. Len(Entries')
  <2>1. CASE i = Len(calls) + 1
    <3>1. i \in DOMAIN calls' /\ calls'[i] = Row(k, why)
      BY <1>3, <1>4, <2>1
    <3>2. calls'[i].key = k /\ calls'[i].rings = 0
      BY <3>1 DEF Row
    <3>3. Entries'[i] = e
      BY <1>3, <3>1, <3>2
    <3> QED
      BY <1>2, <1>6, <2>1, <3>3
  <2>2. CASE i # Len(calls) + 1
    <3>1. i \in 1 .. Len(calls)
      BY <1>2, <1>3, <1>4, <2>2
    <3> QED
      BY <1>2, <1>3, <1>4, <1>6, <3>1
  <2> QED
    BY <2>1, <2>2
<1>8. Entries' = Append(Entries, e)
  <2> HIDE DEF e, S
  <2> QED
    BY <1>2, <1>3, <1>4, <1>6, <1>7, SeqEqual
<1> QED
  BY <1>8 DEF Said, Named, Asked, Answered, KeyIds

-----------------------------------------------------------------------------
(* An answer that says placed names a call newer than the reservation.     *)

\* Steps at which a handler has an answer.
Answering == {"record", "failRow", "complete"}
NamedByHandler(h) == hpc[h] \in Answering /\ hmem[h].answer = "placed" => hmem[h].call > Req(h).since
NamedByKey(k) == request[k].st = "open" /\ request[k].call # 0 => request[k].call > request[k].since
NamedInv == (\A h \in Handlers : NamedByHandler(h)) /\ (\A k \in KeyIds : NamedByKey(k))

\* What a step of one handler owes when it writes a request.
LEMMA NamedStep ==
  ASSUME Inv, NamedInv, NEW h \in Handlers, NEW s \in HandlerSteps, NEW m \in Trigger, Go(h, s, m),
         Key(h) \in KeyIds, NEW r, request' = [request EXCEPT ![Key(h)] = r],
         r.since = Req(h).since \/ Req(h).st = "none",
         r.st = "open" /\ r.call # 0 => r.call > r.since,
         s \in Answering /\ m.answer = "placed" => m.key = Key(h) /\ m.call > r.since
  PROVE  NamedInv'
<1>1. /\ hpc'[h] = s /\ hmem'[h] = m
      /\ \A g \in Handlers : g # h => hpc'[g] = hpc[g] /\ hmem'[g] = hmem[g]
  BY Parts, GoFacts
<1>2. /\ request'[Key(h)] = r
      /\ \A q \in KeyIds : q # Key(h) => request'[q] = request[q]
  BY Parts DEF TypeStore
<1>3. ASSUME NEW g \in Handlers PROVE NamedByHandler(g)'
  <2>1. CASE g = h
    BY <1>1, <1>2, <2>1 DEF NamedByHandler, Key, Req
  <2>2. ASSUME g # h, hpc[g] \in Answering, hmem[g].answer = "placed"
        PROVE  hmem[g].call > request'[Key(g)].since
    <3>1. Key(g) \in KeyIds /\ Req(g).st = "open" /\ hmem[g].call > Req(g).since
      BY <2>2, Parts DEF HandlerInv, Owning, NamedInv, NamedByHandler, Answering
    <3>2. request'[Key(g)].since = Req(g).since
      BY <1>2, <3>1 DEF Req
    <3> QED
      BY <3>1, <3>2
  <2> QED
    BY <1>1, <2>1, <2>2 DEF NamedByHandler, Key, Req
<1>4. ASSUME NEW k \in KeyIds PROVE NamedByKey(k)'
  BY <1>2 DEF NamedByKey, NamedInv
<1> QED
  BY <1>3, <1>4 DEF NamedInv, KeyIds

\* And when it writes none.
LEMMA NamedStays ==
  ASSUME Inv, NamedInv, NEW h \in Handlers, NEW s \in HandlerSteps, NEW m \in Trigger, Go(h, s, m),
         request' = request,
         s \in Answering /\ m.answer = "placed" => m.call > request[m.key].since
  PROVE  NamedInv'
<1>1. /\ hpc'[h] = s /\ hmem'[h] = m
      /\ \A g \in Handlers : g # h => hpc'[g] = hpc[g] /\ hmem'[g] = hmem[g]
  BY Parts, GoFacts
<1>2. ASSUME NEW g \in Handlers PROVE NamedByHandler(g)'
  BY <1>1 DEF NamedInv, NamedByHandler, Key, Req
<1> QED
  BY <1>2 DEF NamedInv, NamedByKey, KeyIds

\* A step that writes nothing is no step of the book.
LEMMA QuietBook ==
  ASSUME UNCHANGED store
  PROVE  UNCHANGED BookVars
BY DEF store, BookVars, Said, Named, Asked, Entries, Answered, KeyIds

LEMMA QuietRefines ==
  ASSUME Inv, NamedInv, UNCHANGED store, UNCHANGED handler
  PROVE  NamedInv' /\ [Book!KNext]_BookVars
BY QuietBook DEF store, handler, NamedInv, NamedByHandler, NamedByKey, Key, Req, KeyIds

-----------------------------------------------------------------------------
(* The steps of a handler.                                                 *)

LEMMA ReplyRefines ==
  ASSUME TriggerAssumption, Inv, NamedInv, NEW h \in Handlers, NEW a, NEW c, Reply(h, a, c), UNCHANGED store
  PROVE  NamedInv' /\ [Book!KNext]_BookVars
<1>1. Go(h, "idle", NoTrigger)
  BY Zenon DEF Reply
<1>2. NoTrigger \in Trigger /\ "idle" \in HandlerSteps /\ request' = request
  BY NoMemType DEF HandlerSteps, store
<1> QED
  BY <1>1, <1>2, NamedStays, QuietBook DEF Answering

LEMMA GoRefines ==
  ASSUME Inv, NamedInv, NEW h \in Handlers, hpc[h] # "idle", NEW s \in HandlerSteps \ Answering,
         Go(h, s, hmem[h]), UNCHANGED store
  PROVE  NamedInv' /\ [Book!KNext]_BookVars
<1>1. hmem[h] \in Trigger /\ request' = request
  BY Handled DEF store
<1> QED
  BY <1>1, NamedStays, QuietBook

LEMMA ArriveRefines ==
  ASSUME TriggerAssumption, Inv, NamedInv, NEW h \in Handlers, Arrive(h)
  PROVE  NamedInv' /\ [Book!KNext]_BookVars
<1> DEFINE r == [NoRequest EXCEPT !.st = "open", !.since = Len(calls)]
           k == Key(h)
<1>1. hpc[h] = "arrive"
  BY DEF Arrive, Handle
<1>2. k \in KeyIds /\ hmem[h] \in Trigger /\ Len(calls) \in Nat
  BY <1>1, Handled
<1>3. CASE Req(h).st = "none" /\ UNCHANGED calls /\ SetRequest(h, r) /\ Go(h, "check", hmem[h])
  <2>1. request' = [request EXCEPT ![k] = r]
    BY <1>3 DEF SetRequest
  <2>2. r.st = "open" /\ r.since = Len(calls) /\ r.call = 0
    BY DEF NoRequest
  <2>3. NamedInv'
    <3>1. "check" \in HandlerSteps
      BY DEF HandlerSteps, Owning
    <3> HIDE DEF r
    <3> QED
      BY <1>2, <1>3, <2>1, <2>2, <3>1, NamedStep DEF Answering
  <2>4. /\ Said' = [Said EXCEPT ![k] = IF r.st = "answered" THEN r.answer ELSE r.st]
        /\ Named' = [Named EXCEPT ![k] = IF r.st = "answered" THEN r.call ELSE 0]
        /\ Asked' = [Asked EXCEPT ![k] = r.since]
        /\ Entries' = Entries
    BY <1>2, <1>3, <2>1, RecordWritten
  <2>5. Said[k] = "none" /\ Named = [Named EXCEPT ![k] = 0]
    BY <1>2, <1>3 DEF Said, Named, Answered, Req
  <2>6. Len(Entries) = Len(calls)
    BY EntriesType
  <2>7. Said' = [Said EXCEPT ![k] = "open"] /\ Named' = Named /\ Asked' = [Asked EXCEPT ![k] = Len(Entries)]
    BY <2>2, <2>4, <2>5, <2>6
  <2>8. Book!Ask(k)
    BY <2>4, <2>5, <2>7 DEF Book!Ask
  <2> QED
    BY <1>2, <2>3, <2>8 DEF Book!KNext
<1>5. CASE UNCHANGED store /\ Go(h, "takeOver", hmem[h])
  BY <1>1, <1>5, GoRefines DEF HandlerSteps, Answering
<1>6. Req(h).answer \in Stored /\ Req(h).call \in Nat
  BY <1>1, Handled DEF Request
<1>7. \/ Req(h).st = "none" /\ UNCHANGED calls /\ SetRequest(h, r) /\ Go(h, "check", hmem[h])
      \/ UNCHANGED store /\ (Reply(h, "conflict", 0) \/ Reply(h, Req(h).answer, Req(h).call)
                             \/ Reply(h, "in_flight", 0) \/ Reply(h, "park", 0))
      \/ UNCHANGED store /\ Go(h, "takeOver", hmem[h])
  BY Zenon DEF Arrive, Reserve, Handle
<1> HIDE DEF r, k
<1>8. ASSUME UNCHANGED store, Reply(h, "conflict", 0) \/ Reply(h, Req(h).answer, Req(h).call)
                             \/ Reply(h, "in_flight", 0) \/ Reply(h, "park", 0)
      PROVE  NamedInv' /\ [Book!KNext]_BookVars
  BY <1>6, <1>8, ReplyRefines
<1> QED
  BY <1>3, <1>5, <1>7, <1>8

LEMMA TakeOverRefines ==
  ASSUME TriggerAssumption, Inv, NamedInv, NEW h \in Handlers, TakeOver(h)
  PROVE  NamedInv' /\ [Book!KNext]_BookVars
<1>1. hpc[h] = "takeOver"
  BY DEF TakeOver, Handle
<1>2. Key(h) \in KeyIds /\ hmem[h] \in Trigger /\ Req(h) \in Request
  BY <1>1, Handled
<1>3. CASE Req(h).st = "open" /\ Req(h).old
  <2> DEFINE r == [Req(h) EXCEPT !.old = FALSE]
  <2>1. r.st = "open" /\ r.since = Req(h).since /\ r.call = Req(h).call
    BY <1>2, <1>3 DEF Request
  <2>2. request' = [request EXCEPT ![Key(h)] = r] /\ calls' = calls /\ Go(h, "find", hmem[h])
    BY <1>3 DEF TakeOver, Handle, SetRequest
  <2>3. r.call # 0 => r.call > r.since
    BY <1>2, <1>3, <2>1 DEF NamedInv, NamedByKey, Req
  <2> HIDE DEF r
  <2>4. NamedInv'
    <3>1. "find" \in HandlerSteps
      BY DEF HandlerSteps, Owning
    <3> QED
      BY <1>2, <2>1, <2>2, <2>3, <3>1, NamedStep DEF Answering
  <2>5. UNCHANGED BookVars
    BY <1>2, <1>3, <2>1, <2>2, RecordKept DEF Req
  <2> QED
    BY <2>4, <2>5
<1>4. CASE ~(Req(h).st = "open" /\ Req(h).old)
  <2>1. Reply(h, "in_flight", 0) /\ UNCHANGED store
    BY <1>4 DEF TakeOver, Handle
  <2> QED
    BY <2>1, ReplyRefines
<1> QED
  BY <1>3, <1>4

LEMMA NewestFound ==
  ASSUME TypeStore, NEW k \in KeyIds, CallsSince(k) # {}
  PROVE  Found(k) \in CallsSince(k)
<1>1. DOMAIN calls = 1 .. Len(calls) /\ Len(calls) \in Nat /\ request[k].since \in Nat
  BY RequestTypes DEF TypeStore
<1>2. PICK i \in CallsSince(k) : TRUE
  OBVIOUS
<1>3. Len(calls) \in CallsSince(k) /\ \A j \in CallsSince(k) : j <= Len(calls)
  BY <1>1, <1>2 DEF CallsSince
<1>4. Found(k) = CHOOSE x \in CallsSince(k) : \A j \in CallsSince(k) : j <= x
  BY DEF Found
<1> QED
  BY <1>3, <1>4

LEMMA FindRefines ==
  ASSUME Inv, NamedInv, NEW h \in Handlers, Find(h)
  PROVE  NamedInv' /\ [Book!KNext]_BookVars
<1> DEFINE i == IF Req(h).call # 0 THEN Req(h).call ELSE Found(Key(h))
<1>1. hpc[h] = "find" /\ UNCHANGED store
  BY DEF Find, Handle
<1>2. /\ i # 0 => Go(h, "complete", [hmem[h] EXCEPT !.answer = Rebuilt(i), !.call = i])
      /\ i = 0 => Go(h, "check", hmem[h])
  BY DEF Find, Handle, Then
<1>3. /\ Key(h) \in KeyIds /\ Req(h) \in Request /\ hmem[h] \in Trigger /\ hmem[h].key = Key(h)
      /\ Req(h).call \in 0 .. Len(calls) /\ Len(calls) \in Nat
  BY <1>1, Handled
<1>4. Req(h).st = "open"
  BY <1>1, Parts DEF HandlerInv, Owning
<1>5. ASSUME i # 0 PROVE i \in DOMAIN calls /\ i > Req(h).since
  <2>1. CASE Req(h).call # 0
    <3>1. i = Req(h).call /\ DOMAIN calls = 1 .. Len(calls)
      BY <2>1, EntriesType
    <3>2. i > Req(h).since
      BY <1>3, <1>4, <2>1, <3>1 DEF NamedInv, NamedByKey, Req
    <3> QED
      BY <1>3, <1>5, <3>1, <3>2
  <2>2. CASE Req(h).call = 0
    <3>1. i = Found(Key(h)) /\ CallsSince(Key(h)) # {}
      BY <1>3, <1>5, <2>2, Parts DEF Found
    <3>2. Found(Key(h)) \in CallsSince(Key(h))
      BY <1>3, <3>1, Parts, NewestFound
    <3> QED
      BY <3>1, <3>2 DEF CallsSince, Req
  <2> QED
    BY <2>1, <2>2
<1> HIDE DEF i
<1>6. CASE i # 0
  <2> DEFINE m == [hmem[h] EXCEPT !.answer = Rebuilt(i), !.call = i]
  <2>1. Rebuilt(i) \in Stored /\ i \in Nat
    BY <1>3, <1>5, <1>6, Parts, RebuiltType, EntriesType
  <2>2. m = [hmem[h] EXCEPT !.answer = Rebuilt(i), !.call = i]
    OBVIOUS
  <2>3. Go(h, "complete", m)
    BY <1>2, <1>6
  <2> HIDE DEF m
  <2>4. m \in Trigger /\ m.key = Key(h) /\ m.call = i
    BY <1>3, <2>1, <2>2 DEF Trigger
  <2>5. request' = request /\ m.call > request[m.key].since
    BY <1>1, <1>5, <1>6, <2>4 DEF store, Req
  <2> QED
    BY <1>1, <2>3, <2>4, <2>5, NamedStays, QuietBook DEF HandlerSteps, Owning
<1>7. CASE i = 0
  BY <1>1, <1>2, <1>7, GoRefines DEF HandlerSteps, Owning, Answering
<1> QED
  BY <1>6, <1>7

LEMMA InsertRefines ==
  ASSUME Inv, NamedInv, NEW h \in Handlers, hpc[h] \in {"check", "insert"}, NEW why \in Refusals \cup {"none"}, Insert(h, why)
  PROVE  NamedInv' /\ [Book!KNext]_BookVars
<1> DEFINE n == Len(calls) + 1
           m == [hmem[h] EXCEPT !.answer = why, !.call = n]
           k == Key(h)
<1>1. k \in KeyIds /\ hmem[h] \in Trigger /\ Len(calls) \in Nat
  BY Handled
<1>2. Req(h).st = "open" /\ \A i \in DOMAIN calls : calls[i].key # k
  BY Parts DEF HandlerInv, Owning
<1>3. calls' = Append(calls, Row(k, why)) /\ Go(h, "link", m) /\ request' = request
  BY DEF Insert, Then
<1>4. m \in Trigger
  <2>1. n \in Nat /\ why \in Stored \cup {"none"}
    BY <1>1 DEF Stored
  <2>2. m = [hmem[h] EXCEPT !.answer = why, !.call = n]
    OBVIOUS
  <2> HIDE DEF m, n
  <2> QED
    BY <1>1, <2>1, <2>2 DEF Trigger
<1>5. NamedInv'
  <2>1. "link" \in HandlerSteps
    BY DEF HandlerSteps, Owning
  <2> HIDE DEF m
  <2> QED
    BY <1>3, <1>4, <2>1, NamedStays DEF Answering
<1>6. Said' = Said /\ Named' = Named /\ Asked' = Asked /\ Entries' = Append(Entries, [key |-> k, rings |-> 0])
  BY <1>1, <1>3, RowAppended
<1>7. Said[k] = "open"
  BY <1>1, <1>2 DEF Said, Answered, Req
<1>8. \A i \in DOMAIN Entries : Entries[i].key # k
  BY <1>2, EntriesType
<1>9. Book!Enter(k)
  BY <1>6, <1>7, <1>8 DEF Book!Enter
<1> QED
  BY <1>1, <1>5, <1>9 DEF Book!KNext

LEMMA CheckRefines ==
  ASSUME Inv, NamedInv, NEW h \in Handlers, Check(h) \/ InsertCall(h)
  PROVE  NamedInv' /\ [Book!KNext]_BookVars
<1>1. hpc[h] \in {"check", "insert"}
  BY DEF Check, InsertCall, Handle
<1>2. hmem[h] \in Trigger
  BY <1>1, Handled
<1>3. ASSUME NEW why \in Refusals, Then(h, "complete", why, 0), UNCHANGED store
      PROVE  NamedInv' /\ [Book!KNext]_BookVars
  <2> DEFINE m == [hmem[h] EXCEPT !.answer = why, !.call = 0]
  <2>1. m \in Trigger /\ m.answer # "placed" /\ Go(h, "complete", m)
    BY <1>2, <1>3 DEF Trigger, Stored, Refusals, Then
  <2>2. "complete" \in HandlerSteps /\ request' = request
    BY <1>3 DEF HandlerSteps, Owning, store
  <2> HIDE DEF m
  <2> QED
    BY <1>3, <2>1, <2>2, NamedStays, QuietBook
<1>4. CASE Refuse(h)
  BY <1>3, <1>4 DEF Refuse, Refusals
<1>5. CASE Go(h, "insert", hmem[h]) /\ UNCHANGED store
  BY <1>1, <1>5, GoRefines DEF HandlerSteps, Owning, Answering
<1>6. ASSUME NEW why \in Refusals \cup {"none"}, Insert(h, why) PROVE NamedInv' /\ [Book!KNext]_BookVars
  BY <1>1, <1>6, InsertRefines
<1> QED
  BY <1>4, <1>5, <1>6 DEF Check, InsertCall, Handle

LEMMA LinkRefines ==
  ASSUME Inv, NamedInv, NEW h \in Handlers, Link(h)
  PROVE  NamedInv' /\ [Book!KNext]_BookVars
<1> DEFINE s == IF calls[hmem[h].call].why = "none" THEN "place" ELSE "complete"
           i == hmem[h].call
           k == Key(h)
<1>1. hpc[h] = "link" /\ calls' = calls /\ Go(h, s, hmem[h])
  BY DEF Link, Handle
<1>2. k \in KeyIds /\ Req(h) \in Request /\ hmem[h] \in Trigger
  BY <1>1, Handled
<1>3. i \in DOMAIN calls /\ calls[i].key = k /\ Req(h).st = "open"
  BY <1>1, InHand DEF Holding
<1>4. hmem[h].answer = calls[i].why /\ calls[i].why \in Refusals \cup {"none"}
  <2>1. calls[i] \in Call
    BY <1>3, Parts, CallTypes
  <2> QED
    BY <1>1, <2>1, Parts DEF HandlerInv, Call
<1>5. hmem[h].answer # "placed"
  BY <1>4 DEF Refusals
<1>6. i > Req(h).since /\ i \in Nat
  <2>1. request[calls[i].key].since < i
    BY <1>3 DEF Inv, StoreInv, RequestsInv
  <2>2. i \in Nat /\ request[k].since \in Nat
    BY <1>2, <1>3, Parts, EntriesType, RequestTypes
  <2> QED
    BY <1>3, <2>1, <2>2 DEF Req
<1>7. s \in HandlerSteps
  BY DEF HandlerSteps, Owning
<1>8. CASE SetRequest(h, IF Req(h).st = "open" /\ Req(h).call = 0 THEN [Req(h) EXCEPT !.call = hmem[h].call] ELSE Req(h))
  <2> DEFINE r == IF Req(h).call = 0 THEN [Req(h) EXCEPT !.call = i] ELSE Req(h)
  <2>1. r.st = "open" /\ r.since = Req(h).since /\ (r.call # 0 => r.call > r.since)
    <3>1. CASE Req(h).call = 0
      BY <1>2, <1>3, <1>6, <3>1 DEF Request
    <3>2. CASE Req(h).call # 0
      BY <1>2, <1>3, <3>2 DEF NamedInv, NamedByKey, Req
    <3> QED
      BY <3>1, <3>2
  <2>2. request' = [request EXCEPT ![k] = r]
    BY <1>3, <1>8 DEF SetRequest
  <2> HIDE DEF r, s
  <2>3. NamedInv'
    BY <1>1, <1>2, <1>5, <1>7, <2>1, <2>2, NamedStep
  <2>4. UNCHANGED BookVars
    BY <1>1, <1>2, <1>3, <2>1, <2>2, RecordKept DEF Req
  <2> QED
    BY <2>3, <2>4
<1>9. CASE UNCHANGED request
  <2>1. UNCHANGED store
    BY <1>1, <1>9 DEF store
  <2> HIDE DEF s
  <2> QED
    BY <1>1, <1>2, <1>5, <1>7, <1>9, <2>1, NamedStays, QuietBook
<1> QED
  BY <1>8, <1>9 DEF Link, Handle

\* A call that rings is one of an open key, entered with no ring yet.
LEMMA RingRefines ==
  ASSUME Inv, NEW i \in DOMAIN calls, NEW c, SetCall(i, c), request' = request,
         c.key = calls[i].key, calls[i].rings = 0, c.rings = 1, request[c.key].st = "open"
  PROVE  [Book!KNext]_BookVars
<1>1. /\ Said' = Said /\ Named' = Named /\ Asked' = Asked
      /\ Entries' = [Entries EXCEPT ![i].rings = 1]
  <2>1. Said' = Said /\ Named' = Named /\ Asked' = Asked /\ Entries' = [Entries EXCEPT ![i].rings = c.rings]
    BY RowWritten
  <2>2. c.rings = 1
    OBVIOUS
  <2> QED
    BY <2>1, <2>2
<1>2. i \in DOMAIN Entries /\ Entries[i].key = c.key /\ Entries[i].rings = 0
  BY EntriesType
<1>3. Said[c.key] = "open"
  <2>1. c.key \in KeyIds
    BY Parts, CallTypes
  <2> QED
    BY <2>1 DEF Said, Answered
<1>4. Book!Ring(i)
  BY <1>1, <1>2, <1>3 DEF Book!Ring
<1> QED
  BY <1>2, <1>4 DEF Book!KNext

LEMMA PlaceRefines ==
  ASSUME Inv, NamedInv, NEW h \in Handlers, Place(h)
  PROVE  NamedInv' /\ [Book!KNext]_BookVars
<1> DEFINE i == hmem[h].call
           rung == [calls[i] EXCEPT !.rings = @ + 1]
<1>1. hpc[h] = "place" /\ request' = request
  BY DEF Place, Handle
<1>2. Key(h) \in KeyIds /\ hmem[h] \in Trigger /\ hmem[h].key = Key(h) /\ i \in Nat
  BY <1>1, Handled, Parts, HandlerTypes
<1>3. i \in DOMAIN calls /\ calls[i].key = Key(h) /\ calls[i] \in Call /\ Req(h).st = "open"
  BY <1>1, InHand DEF Holding
<1>4. calls[i].rings = 0
  BY <1>1, Parts DEF HandlerInv
<1>5. rung.key = calls[i].key /\ rung.rings = 1
  BY <1>3, <1>4 DEF Call
<1>6. [rung EXCEPT !.errored = TRUE].key = calls[i].key /\ [rung EXCEPT !.errored = TRUE].rings = 1
  BY <1>3, <1>4 DEF Call
<1>7. i > request[Key(h)].since
  <2>1. request[calls[i].key].since < i
    BY <1>3 DEF Inv, StoreInv, RequestsInv
  <2>2. request[Key(h)].since \in Nat
    BY <1>2, Parts, RequestTypes
  <2> QED
    BY <1>2, <1>3, <2>1, <2>2
<1>8. ASSUME NEW s \in {"record", "failRow"}, NEW a \in Stored, Then(h, s, a, i) PROVE NamedInv'
  <2> DEFINE m == [hmem[h] EXCEPT !.answer = a, !.call = i]
  <2>1. m \in Trigger /\ m.key = Key(h) /\ m.call = i
    BY <1>2 DEF Trigger
  <2>2. s \in HandlerSteps /\ Go(h, s, m)
    BY <1>8 DEF HandlerSteps, Owning, Then
  <2> HIDE DEF m, i
  <2> QED
    BY <1>1, <1>7, <2>1, <2>2, NamedStays
<1>9. ASSUME NEW c, c.key = calls[i].key, c.rings = 1, SetCall(i, c) PROVE [Book!KNext]_BookVars
  BY <1>1, <1>3, <1>4, <1>9, RingRefines DEF Req
<1>10. CASE SetCall(i, rung) /\ Then(h, "record", "placed", i)
  <2>1. "placed" \in Stored
    BY DEF Stored
  <2> HIDE DEF rung, i
  <2> QED
    BY <1>5, <1>8, <1>9, <1>10, <2>1
<1>11. CASE SetCall(i, [rung EXCEPT !.errored = TRUE]) /\ Then(h, "failRow", "later", i)
  <2>1. "later" \in Stored
    BY DEF Stored, Refusals
  <2> DEFINE c == [rung EXCEPT !.errored = TRUE]
  <2>2. SetCall(i, c) /\ c.key = calls[i].key /\ c.rings = 1
    BY <1>6, <1>11
  <2> HIDE DEF c, rung, i
  <2> QED
    BY <1>8, <1>9, <1>11, <2>1, <2>2
<1>12. CASE UNCHANGED calls /\ Then(h, "failRow", "later", i)
  <2>1. "later" \in Stored /\ UNCHANGED store
    BY <1>1, <1>12 DEF Stored, Refusals, store
  <2> QED
    BY <1>8, <1>12, <2>1, QuietBook
<1> QED
  BY <1>10, <1>11, <1>12 DEF Place, Handle

\* A mark on the row of a call is no step of the book.
LEMMA MarkRefines ==
  ASSUME Inv, NEW i \in DOMAIN calls, NEW c, SetCall(i, c), request' = request,
         c.key = calls[i].key, c.rings = calls[i].rings
  PROVE  UNCHANGED BookVars
BY RowWritten DEF BookVars

LEMMA WrittenRefines ==
  ASSUME Inv, NamedInv, NEW h \in Handlers, NEW s \in {"record", "failRow"}, NEW c,
         calls[hmem[h].call] \in Call => c.key = calls[hmem[h].call].key /\ c.rings = calls[hmem[h].call].rings,
         Written(h, s, c)
  PROVE  NamedInv' /\ [Book!KNext]_BookVars
<1> DEFINE i == hmem[h].call
<1>1. hpc[h] = s /\ request' = request /\ Go(h, "complete", hmem[h]) /\ (SetCall(i, c) \/ UNCHANGED calls)
  BY DEF Written, Handle
<1>2. hmem[h] \in Trigger /\ hmem[h].key = Key(h)
  BY <1>1, Handled
<1>3. i \in DOMAIN calls /\ calls[i] \in Call
  BY <1>1, InHand DEF Holding
<1>4. hmem[h].answer = "placed" => hmem[h].call > request[hmem[h].key].since
  BY <1>1, <1>2 DEF NamedInv, NamedByHandler, Req, Answering
<1>5. NamedInv'
  <2>1. "complete" \in HandlerSteps
    BY DEF HandlerSteps, Owning
  <2> QED
    BY <1>1, <1>2, <1>4, <2>1, NamedStays
<1>6. UNCHANGED BookVars
  <2>1. UNCHANGED calls => UNCHANGED store
    BY <1>1 DEF store
  <2> QED
    BY <1>1, <1>3, <2>1, MarkRefines, QuietBook
<1> QED
  BY <1>5, <1>6

LEMMA RecordsRefine ==
  ASSUME Inv, NamedInv, NEW h \in Handlers, RecordPlaced(h) \/ RecordFailed(h)
  PROVE  NamedInv' /\ [Book!KNext]_BookVars
<1>1. CASE RecordPlaced(h)
  <2> DEFINE c == [calls[hmem[h].call] EXCEPT !.sid = TRUE]
  <2>1. calls[hmem[h].call] \in Call => c.key = calls[hmem[h].call].key /\ c.rings = calls[hmem[h].call].rings
    BY DEF Call
  <2>2. Written(h, "record", c)
    BY <1>1 DEF RecordPlaced
  <2> HIDE DEF c
  <2> QED
    BY <2>1, <2>2, WrittenRefines
<1>2. CASE RecordFailed(h)
  <2> DEFINE c == [calls[hmem[h].call] EXCEPT !.failed = TRUE, !.live = FALSE]
  <2>1. calls[hmem[h].call] \in Call => c.key = calls[hmem[h].call].key /\ c.rings = calls[hmem[h].call].rings
    BY DEF Call
  <2>2. Written(h, "failRow", c)
    BY <1>2 DEF RecordFailed
  <2> HIDE DEF c
  <2> QED
    BY <2>1, <2>2, WrittenRefines
<1> QED
  BY <1>1, <1>2

LEMMA CompleteRefines ==
  ASSUME TriggerAssumption, Inv, NamedInv, NEW h \in Handlers, Complete(h)
  PROVE  NamedInv' /\ [Book!KNext]_BookVars
<1> DEFINE r == [Req(h) EXCEPT !.st = "answered", !.answer = hmem[h].answer, !.call = hmem[h].call]
           k == Key(h)
           a == hmem[h].answer
           i == hmem[h].call
<1>1. hpc[h] = "complete" /\ calls' = calls
  BY DEF Complete, Handle
<1>2. k \in KeyIds /\ Req(h) \in Request /\ i \in 0 .. Len(calls) /\ a \in Stored
  BY <1>1, Handled, Parts DEF HandlerInv
<1>3. Req(h).st = "open"
  BY <1>1, Parts DEF HandlerInv, Owning
<1>4. request' = [request EXCEPT ![k] = r]
  BY <1>3 DEF Complete, Handle, SetRequest
<1>5. Go(h, "idle", NoTrigger)
  BY Zenon DEF Complete, Handle, Reply
<1>6. r.st = "answered" /\ r.answer = a /\ r.call = i /\ r.since = Req(h).since
  BY <1>2 DEF Request
<1>7. NamedInv'
  <2>1. "idle" \in HandlerSteps /\ "idle" \notin Answering /\ NoTrigger \in Trigger
    BY NoMemType DEF HandlerSteps, Answering
  <2> HIDE DEF r
  <2> QED
    BY <1>2, <1>4, <1>5, <1>6, <2>1, NamedStep
<1>8. /\ Said' = [Said EXCEPT ![k] = IF r.st = "answered" THEN r.answer ELSE r.st]
      /\ Named' = [Named EXCEPT ![k] = IF r.st = "answered" THEN r.call ELSE 0]
      /\ Asked' = [Asked EXCEPT ![k] = r.since] /\ Entries' = Entries
  <2> HIDE DEF r
  <2> QED
    BY <1>1, <1>2, <1>4, RecordWritten
<1>9. Said' = [Said EXCEPT ![k] = a] /\ Named' = [Named EXCEPT ![k] = i] /\ Asked' = Asked
  <2>1. Asked = [Asked EXCEPT ![k] = Req(h).since]
    BY <1>2 DEF Asked, Req
  <2> HIDE DEF r, a, i
  <2> QED
    BY <1>6, <1>8, <2>1
<1>10. Said[k] = "open" /\ Asked[k] = Req(h).since
  BY <1>2, <1>3 DEF Said, Asked, Answered, Req
<1>11. a = "placed" => i > Asked[k]
  BY <1>1, <1>10 DEF NamedInv, NamedByHandler, Answering
<1>12. Book!Tell(k, a, i)
  BY <1>8, <1>9, <1>10, <1>11 DEF Book!Tell
<1>13. i \in 0 .. Len(Entries)
  BY <1>2, EntriesType
<1> QED
  BY <1>2, <1>7, <1>12, <1>13 DEF Book!KNext

-----------------------------------------------------------------------------
(* Time, and every step.                                                   *)

LEMMA OldRefines ==
  ASSUME Inv, NamedInv, NEW k \in KeyIds, Old(k)
  PROVE  NamedInv' /\ [Book!KNext]_BookVars
<1> DEFINE r == [request[k] EXCEPT !.old = TRUE]
<1>1. request' = [request EXCEPT ![k] = r] /\ calls' = calls /\ hpc' = hpc /\ hmem' = hmem /\ request[k].st = "open"
  BY DEF Old, handler
<1>2. r.st = "open" /\ r.since = request[k].since /\ r.call = request[k].call
  BY <1>1, Parts, RequestTypes DEF Request
<1> HIDE DEF r
<1>3. \A q \in KeyIds : request'[q] = IF q = k THEN r ELSE request[q]
  BY <1>1, Parts DEF TypeStore
<1>4. ASSUME NEW q \in KeyIds PROVE NamedByKey(q)'
  BY <1>1, <1>2, <1>3 DEF NamedByKey, NamedInv
<1>5. ASSUME NEW h \in Handlers PROVE NamedByHandler(h)'
  <2>1. CASE hpc[h] \in Answering
    <3>1. Key(h) \in KeyIds
      BY <2>1, Parts DEF HandlerInv, Answering
    <3>2. request'[Key(h)].since = request[Key(h)].since
      BY <1>2, <1>3, <3>1
    <3> QED
      BY <1>1, <3>2 DEF NamedInv, NamedByHandler, Key, Req
  <2>2. CASE hpc[h] \notin Answering
    BY <1>1, <2>2 DEF NamedByHandler, Answering
  <2> QED
    BY <2>1, <2>2
<1>6. NamedInv'
  BY <1>4, <1>5 DEF NamedInv, KeyIds
<1>7. UNCHANGED BookVars
  BY <1>1, <1>2, RecordKept
<1> QED
  BY <1>6, <1>7

LEMMA CallTimeRefines ==
  ASSUME Inv, NamedInv, NEW i \in DOMAIN calls, CallEnds(i) \/ Sweep(i)
  PROVE  NamedInv' /\ [Book!KNext]_BookVars
<1>1. calls[i] \in Call
  BY Parts, CallTypes
<1>2. UNCHANGED request /\ UNCHANGED handler
  BY DEF CallEnds, Sweep
<1>3. \E c : SetCall(i, c) /\ c.key = calls[i].key /\ c.rings = calls[i].rings
  <2>1. CASE CallEnds(i)
    <3> DEFINE c == [calls[i] EXCEPT !.live = FALSE, !.sid = TRUE]
    <3>1. SetCall(i, c)
      BY <2>1 DEF CallEnds
    <3>2. c.key = calls[i].key /\ c.rings = calls[i].rings
      BY <1>1 DEF Call
    <3> HIDE DEF c
    <3> QED
      BY <3>1, <3>2
  <2>2. CASE Sweep(i)
    <3> DEFINE c == [calls[i] EXCEPT !.failed = TRUE, !.live = FALSE]
    <3>1. SetCall(i, c)
      BY <2>2 DEF Sweep
    <3>2. c.key = calls[i].key /\ c.rings = calls[i].rings
      BY <1>1 DEF Call
    <3> HIDE DEF c
    <3> QED
      BY <3>1, <3>2
  <2> QED
    BY <2>1, <2>2
<1>4. NamedInv'
  BY <1>2 DEF handler, NamedInv, NamedByHandler, NamedByKey, Key, Req, KeyIds, Answering
<1> QED
  BY <1>2, <1>3, <1>4, MarkRefines

LEMMA SendRefines ==
  ASSUME TriggerAssumption, Inv, NamedInv, NEW p \in Pacers, Send(p)
  PROVE  NamedInv' /\ [Book!KNext]_BookVars
<1>1. UNCHANGED store /\ mem[p].key \in KeyIds
  BY Parts DEF Send, PacersInv
<1>2. CASE UNCHANGED handler
  BY <1>1, <1>2, QuietRefines
<1>3. ASSUME NEW h \in IdleHandlers, Go(h, "arrive", [NoTrigger EXCEPT !.key = mem[p].key])
      PROVE  NamedInv' /\ [Book!KNext]_BookVars
  <2> DEFINE m == [NoTrigger EXCEPT !.key = mem[p].key]
  <2>1. mem[p].key \in 0 .. MaxKeys
    BY Parts, PacerTypes DEF PacerMem
  <2>2. m \in Trigger
    BY <2>1, NoMemType DEF NoTrigger, Trigger
  <2>3. "arrive" \in HandlerSteps /\ "arrive" \notin Answering /\ h \in Handlers /\ request' = request
    BY <1>1 DEF HandlerSteps, Answering, IdleHandlers, store
  <2> HIDE DEF m
  <2> QED
    BY <1>1, <1>3, <2>2, <2>3, NamedStays, QuietBook DEF m
<1>4. \/ UNCHANGED handler
      \/ \E h \in IdleHandlers : Go(h, "arrive", [NoTrigger EXCEPT !.key = mem[p].key])
  BY DEF Send
<1> QED
  BY <1>2, <1>3, <1>4

LEMMA PaceRefines ==
  ASSUME TriggerAssumption, Inv, NamedInv, NEW p \in Pacers, Pace(p) \/ PacerCrash(p)
  PROVE  NamedInv' /\ [Book!KNext]_BookVars
<1>1. CASE Send(p)
  BY <1>1, SendRefines
<1>2. CASE UNCHANGED store /\ UNCHANGED handler
  BY <1>2, QuietRefines
<1>3. CASE Pick(p) \/ SettleKey(p) \/ Gate(p) \/ Claim(p) \/ Refused(p) \/ GiveUp(p)
  <2>1. UNCHANGED store /\ UNCHANGED handler
    BY <1>3, Zenon DEF Pick, SettleKey, Gate, Claim, Refused, GiveUp
  <2> QED
    BY <1>2, <2>1
<1>4. CASE Resolve(p) \/ Apply(p) \/ Finish(p) \/ (\E t \in Touches : Reap(p, t)) \/ PacerCrash(p)
  <2>1. UNCHANGED store /\ UNCHANGED handler
    BY <1>4, Zenon DEF Resolve, Apply, Finish, Reap, PacerCrash
  <2> QED
    BY <1>2, <2>1
<1> QED
  BY <1>1, <1>3, <1>4 DEF Pace

LEMMA AnswerRefines ==
  ASSUME TriggerAssumption, Inv, NamedInv, NEW h \in Handlers, Answer(h) \/ Crash(h)
  PROVE  NamedInv' /\ [Book!KNext]_BookVars
<1>1. CASE Crash(h)
  <2>1. Reply(h, "transport", 0) /\ UNCHANGED store
    BY <1>1 DEF Crash
  <2> QED
    BY <2>1, ReplyRefines
<1>2. CASE Answer(h)
  BY <1>2, ArriveRefines, TakeOverRefines, FindRefines, CheckRefines, LinkRefines, PlaceRefines, RecordsRefine, CompleteRefines
     DEF Answer
<1> QED
  BY <1>1, <1>2

LEMMA StepRefines ==
  ASSUME TriggerAssumption, Inv, NamedInv, [Next]_vars
  PROVE  NamedInv' /\ [Book!KNext]_BookVars
<1>1. CASE Decide \/ (\E t \in Touches : Aged(t) \/ Due(t)) \/ UNCHANGED vars
  <2>1. UNCHANGED store /\ UNCHANGED handler
    BY <1>1, Zenon DEF Decide, Decision, Aged, Due, TouchTime, vars, store, handler
  <2> QED
    BY <2>1, QuietRefines
<1>2. ASSUME NEW p \in Pacers, Pace(p) \/ PacerCrash(p) PROVE NamedInv' /\ [Book!KNext]_BookVars
  BY <1>2, PaceRefines
<1>3. ASSUME NEW h \in Handlers, Answer(h) \/ Crash(h) PROVE NamedInv' /\ [Book!KNext]_BookVars
  BY <1>3, AnswerRefines
<1>4. ASSUME NEW k \in KeyIds, Old(k) PROVE NamedInv' /\ [Book!KNext]_BookVars
  BY <1>4, OldRefines
<1>5. ASSUME NEW i \in DOMAIN calls, CallEnds(i) \/ Sweep(i) PROVE NamedInv' /\ [Book!KNext]_BookVars
  BY <1>5, CallTimeRefines
<1> QED
  BY <1>1, <1>2, <1>3, <1>4, <1>5 DEF Next

LEMMA StartRefines ==
  ASSUME TriggerAssumption, Init
  PROVE  NamedInv /\ Book!KInit
<1>1. request = [k \in KeyIds |-> NoRequest] /\ calls = <<>> /\ \A h \in Handlers : hpc[h] = "idle"
  BY DEF Init
<1>2. NamedInv
  BY <1>1 DEF NamedInv, NamedByHandler, NamedByKey, NoRequest, Answering
<1>3. Said = [k \in KeyIds |-> "none"] /\ Named = [k \in KeyIds |-> 0] /\ Asked = [k \in KeyIds |-> 0]
  BY <1>1 DEF Said, Named, Asked, Answered, NoRequest
<1>4. Entries = <<>>
  BY <1>1 DEF Entries
<1> QED
  BY <1>2, <1>3, <1>4 DEF Book!KInit

\* cti-api keeps a book of keyed calls, for every number of pacers, handlers and keys:
\* a key rings only while it is reserved and unanswered, and once; its answer is final
\* and, when it says placed, names a call entered since the reservation.
THEOREM KeepsKeysHolds ==
  ASSUME TriggerAssumption
  PROVE  Spec => KeepsKeys
<1>1. Init => NamedInv /\ Book!KInit
  BY StartRefines
<1>2. Inv /\ NamedInv /\ [Next]_vars => NamedInv' /\ [Book!KNext]_(Book!keyed)
  BY StepRefines DEF BookVars, Book!keyed
<1> QED
  BY <1>1, <1>2, InvHolds, PTL DEF Spec, KeepsKeys, Book!KSpec
-----------------------------------------------------------------------------
(* With one tick at a time, the call a touch is sent with is its own.  A   *)
(* key under which a call may still come is held by its touch, unless it   *)
(* was overtaken, and two touches that may still have a call are of two    *)
(* plans: so the newest call since the reservation of a key that is held   *)
(* was placed for its touch, or under another plan.  Nobody is at work on  *)
(* a key the one tick drops, and a touch is sent while its key is held.    *)

\* No two ai_call.place ticks overlap.
OneTick == \A p, q \in Pacers : p = q

\* A touch that waits or is being dialed, and the key it keeps.
Live(t) == touch[t].st \in {"planned", "dialing"}
Holds(t, k) == Live(t) /\ touch[t].key = k
\* What OwnCall says of a call.
Good(t, i) == keys[calls[i].key] = t \/ calls[i].key \in overtaken \/ Plan(i) # touch[t].plan
GoodFor(k, i) == i \in DOMAIN calls /\ \A t \in Touches : Holds(t, k) => Good(t, i)

\* Who is at work on a key.
AtWork(h, k) == hpc[h] # "idle" /\ Key(h) = k
Nobody(k) == \A h \in Handlers : ~AtWork(h, k)
\* A request that has no call yet, and a search by date that finds none.
Blank(k) == request[k].st # "answered" /\ (request[k].st = "open" => request[k].call = 0 /\ CallsSince(k) = {})
Inserting == {"check", "insert"}
Searching == {"arrive", "takeOver", "find"}
\* A call of this key may still be inserted.
Coming(k) ==
  \/ \E h \in Handlers : hpc[h] \in Inserting /\ Key(h) = k
  \/ Blank(k) /\ \E h \in Handlers : hpc[h] \in Searching /\ Key(h) = k
\* A touch that has a call to come, or may ask for one.
Open(t) == Live(t) \/ \E k \in DOMAIN keys : k \notin overtaken /\ keys[k] = t /\ Coming(k)

\* Every key belongs to the touch it was minted for.
KeysInv ==
  /\ \A t \in Touches : touch[t].key # 0 => touch[t].key \in DOMAIN keys /\ keys[touch[t].key] = t
  /\ \A k \in DOMAIN keys : touch[keys[k]].st # "none"
  /\ \A h \in Handlers : hpc[h] # "idle" => Key(h) \in DOMAIN keys
  /\ \A i \in DOMAIN calls : calls[i].key \in DOMAIN keys
  /\ \A k \in KeyIds : request[k].st # "none" => k \in DOMAIN keys
\* A key with a call to come is still held by its touch, unless it was overtaken.
HeldInv == lead.st # "ended" => \A k \in DOMAIN keys : Coming(k) /\ k \notin overtaken => Holds(keys[k], k)
\* Two touches that may still have a call are of two plans.
PlansInv == \A t, u \in Touches : t # u /\ Open(t) /\ Open(u) => touch[t].plan # touch[u].plan
\* What a search by date finds under a key that is held.
SearchInv ==
  \A k \in KeyIds : request[k].st # "none" => \A i \in CallsSince(k) : GoodFor(k, i)
SentInv == \A t \in Touches : touch[t].st = "sent" => touch[t].call \in DOMAIN calls /\ Good(t, touch[t].call)
\* A request is late by the time its touch is due again.
DueInv == \A t \in Touches : touch[t].st = "planned" /\ touch[t].due => ~OnItsWay(touch[t].key)
BoardInv == KeysInv /\ HeldInv /\ PlansInv /\ SearchInv /\ SentInv /\ DueInv

\* What answers name.
ToldBy(h) == hpc[h] \in Answering /\ hmem[h].answer = "placed" => GoodFor(Key(h), hmem[h].call)
Naming(k) ==
  \/ request[k].st = "answered" /\ request[k].answer = "placed"
  \/ request[k].st = "open" /\ request[k].call # 0
ToldUnder(k) == Naming(k) => GoodFor(k, request[k].call)
ToldInv == (\A h \in Handlers : ToldBy(h)) /\ (\A k \in KeyIds : ToldUnder(k))

\* A tick and the touch it has in hand.
TickTouch(p) ==
  /\ pc[p] \in {"settle", "gate", "claim", "refused"} =>
       /\ T(p).st \notin {"none", "dialing"}
       /\ T(p).st = "planned" => T(p).key = mem[p].key
  /\ pc[p] \in {"send", "wait", "resolve", "apply"} => T(p).st = "dialing" /\ T(p).key = mem[p].key /\ mem[p].key # 0
TickKey(p) ==
  /\ pc[p] = "settle" /\ T(p).st = "planned" => ~OnItsWay(mem[p].key)
  /\ pc[p] \in {"gate", "claim", "refused"} /\ T(p).st = "planned" => Nobody(mem[p].key)
  /\ pc[p] \in {"send", "resolve"} \/ (pc[p] = "apply" /\ mem[p].answer # "transport") => Nobody(mem[p].key)
  /\ pc[p] = "wait" => \A h \in Handlers : AtWork(h, mem[p].key) <=> h = mem[p].h
TickAnswer(p) ==
  /\ pc[p] \in {"settle", "gate", "claim", "refused", "send", "wait"} => mem[p].answer = "transport"
  /\ pc[p] = "apply" /\ mem[p].answer = "placed" => GoodFor(mem[p].key, mem[p].call)
TickInv(p) == TickTouch(p) /\ TickKey(p) /\ TickAnswer(p)
TicksInv == \A p \in Pacers : TickInv(p)

OwnInv == BoardInv /\ ToldInv /\ TicksInv

-----------------------------------------------------------------------------
(* What a step may do to a touch, to the keys and to the store.            *)

\* A touch keeps its key and plan; one that is over stays as it is.
Keeps(t) ==
  /\ touch'[t].key = touch[t].key /\ touch'[t].plan = touch[t].plan
  /\ IF Live(t) THEN touch'[t].st \in {"planned", "dialing"} ELSE touch'[t] = touch[t]
  /\ touch'[t].st = "planned" /\ touch'[t].due => (touch[t].st = "planned" /\ touch[t].due) \/ ~OnItsWay(touch[t].key)
\* It is claimed under a new key.
Mints(t) ==
  /\ Live(t) /\ touch[t].key = 0 /\ touch'[t].st = "dialing" /\ touch'[t].plan = touch[t].plan
  /\ keys' = Append(keys, t) /\ touch'[t].key = Len(keys) + 1
\* It is over, or planned again without its key, which no call comes under.
Leaves(t) ==
  /\ Live(t) /\ touch'[t].plan = touch[t].plan /\ touch'[t].key \in {0, touch[t].key}
  /\ touch'[t].st \in {"sent", "failed", "skipped"} \/ (touch'[t].st = "planned" /\ touch'[t].key = 0)
  /\ touch[t].key = 0 \/ lead'.st = "ended" \/ ~Coming(touch[t].key) \/ touch[t].key \in overtaken'
  /\ touch'[t].st = "sent" => touch'[t].call \in DOMAIN calls /\ Good(t, touch'[t].call)
\* It is released, when no other touch of the plan is waiting.
Starts(t) ==
  /\ touch[t].st = "none" /\ touch' = [touch EXCEPT ![t] = Released(lead.plan)]
  /\ lead.st = "active" /\ \A u \in Touches : ~Blocks(u)
TouchMoves == \A t \in Touches : Keeps(t) \/ Mints(t) \/ Leaves(t) \/ Starts(t)
BoardMoves ==
  /\ TouchMoves /\ overtaken \subseteq overtaken' /\ (lead.st = "ended" => lead'.st = "ended")
  /\ keys' = keys \/ \E t \in Touches : Mints(t)

\* A request is sent under this key.
Dialed(k) == touch' = touch /\ touch[keys[k]].st = "dialing" /\ touch[keys[k]].key = k
\* Calls are added under keys that had one to come, reservations keep their date,
\* and only a request that is sent lets a call come.
StoreMoves ==
  /\ \A i \in DOMAIN calls : i \in DOMAIN calls' /\ calls'[i].key = calls[i].key
  /\ \A i \in DOMAIN calls' : i \in DOMAIN calls \/ Coming(calls'[i].key)
  /\ \A k \in KeyIds : request[k].st # "none" => request'[k].st # "none" /\ request'[k].since = request[k].since
  /\ \A k \in KeyIds : request[k].st = "none" /\ request'[k].st # "none" => k \in DOMAIN keys /\ CallsSince(k)' = {}
  /\ \A h \in Handlers : hpc'[h] # "idle" => hmem'[h].key \in DOMAIN keys
  /\ \A k \in DOMAIN keys : (Coming(k)' => Coming(k) \/ Dialed(k)) /\ (OnItsWay(k)' => OnItsWay(k) \/ Dialed(k))

LEMMA KeysType ==
  ASSUME TriggerAssumption, Inv
  PROVE  /\ keys \in Seq(Touches) /\ DOMAIN keys = 1 .. Len(keys) /\ Len(keys) \in Nat /\ Len(keys) <= MaxKeys
         /\ 0 \notin DOMAIN keys /\ Len(keys) + 1 \notin DOMAIN keys /\ DOMAIN keys \subseteq KeyIds
         /\ \A k \in DOMAIN keys : keys[k] \in Touches
<1>1. keys \in Seq(Touches) /\ Len(keys) <= MaxKeys
  BY Parts DEF TypeBoard
<1>2. DOMAIN keys = 1 .. Len(keys) /\ Len(keys) \in Nat /\ \A k \in DOMAIN keys : keys[k] \in Touches
  BY <1>1
<1>3. MaxKeys \in Nat
  BY DEF TriggerAssumption
<1>4. ASSUME NEW n \in Nat, n <= MaxKeys PROVE 0 \notin 1 .. n /\ n + 1 \notin 1 .. n
  OBVIOUS
<1>5. DOMAIN keys \subseteq KeyIds
  BY <1>1, <1>2, <1>3 DEF KeyIds
<1> QED
  BY <1>1, <1>2, <1>4, <1>5

LEMMA KeysGrow ==
  ASSUME TriggerAssumption, Inv, BoardMoves
  PROVE  /\ \A k \in DOMAIN keys : k \in DOMAIN keys' /\ keys'[k] = keys[k]
         /\ \A k \in DOMAIN keys' : k \in DOMAIN keys \/ (k = Len(keys) + 1 /\ Mints(keys'[k]))
         /\ \A t \in Touches : Mints(t) => Len(keys) + 1 \in DOMAIN keys' /\ keys'[Len(keys) + 1] = t
<1>1. keys \in Seq(Touches) /\ DOMAIN keys = 1 .. Len(keys) /\ Len(keys) \in Nat
  BY KeysType
<1>2. ASSUME NEW t \in Touches, Mints(t)
      PROVE  /\ Len(keys') = Len(keys) + 1 /\ DOMAIN keys' = 1 .. Len(keys) + 1 /\ keys'[Len(keys) + 1] = t
             /\ \A k \in 1 .. Len(keys) : keys'[k] = keys[k]
  <2>1. keys' = Append(keys, t)
    BY <1>2 DEF Mints
  <2> QED
    BY <1>1, <2>1
<1>3. ASSUME keys' = keys
      PROVE  /\ \A k \in DOMAIN keys : k \in DOMAIN keys' /\ keys'[k] = keys[k]
             /\ \A k \in DOMAIN keys' : k \in DOMAIN keys \/ (k = Len(keys) + 1 /\ Mints(keys'[k]))
  BY <1>3
<1>4. ASSUME NEW t \in Touches, Mints(t)
      PROVE  /\ \A k \in DOMAIN keys : k \in DOMAIN keys' /\ keys'[k] = keys[k]
             /\ \A k \in DOMAIN keys' : k \in DOMAIN keys \/ (k = Len(keys) + 1 /\ Mints(keys'[k]))
  <2>1. /\ DOMAIN keys' = 1 .. Len(keys) + 1 /\ keys'[Len(keys) + 1] = t
        /\ \A k \in 1 .. Len(keys) : keys'[k] = keys[k]
    BY <1>2, <1>4
  <2>2. \A k \in 1 .. Len(keys) + 1 : k \in 1 .. Len(keys) \/ k = Len(keys) + 1
    BY <1>1
  <2>3. 1 .. Len(keys) \subseteq 1 .. Len(keys) + 1
    BY <1>1
  <2> QED
    BY <1>1, <1>4, <2>1, <2>2, <2>3
<1>5. ASSUME NEW t \in Touches, Mints(t) PROVE Len(keys) + 1 \in DOMAIN keys' /\ keys'[Len(keys) + 1] = t
  BY <1>1, <1>2, <1>5
<1> QED
  BY <1>3, <1>4, <1>5 DEF BoardMoves

\* A touch once released keeps its plan, and a key its touch.
LEMMA PlansStay ==
  ASSUME TriggerAssumption, Inv, BoardMoves, NEW t \in Touches
  PROVE  /\ touch[t].st # "none" => touch'[t].st # "none" /\ touch'[t].plan = touch[t].plan
         /\ \A k \in DOMAIN keys : Holds(t, k)' => Holds(t, k)
<1>1. touch[t] \in Touch /\ touch \in [Touches -> Touch]
  BY Parts DEF TypeBoard
<1>2. 0 \notin DOMAIN keys /\ Len(keys) + 1 \notin DOMAIN keys
  BY KeysType
<1>3. CASE Keeps(t)
  BY <1>3 DEF Keeps, Live, Holds
<1>4. CASE Mints(t)
  BY <1>2, <1>4 DEF Mints, Live, Holds
<1>5. CASE Leaves(t)
  BY <1>2, <1>5 DEF Leaves, Live, Holds
<1>6. CASE Starts(t)
  <2>1. touch'[t].key = 0
    BY <1>1, <1>6 DEF Starts, Released, NoTouch
  <2> QED
    BY <1>2, <1>6, <2>1 DEF Starts, Holds
<1> QED
  BY <1>3, <1>4, <1>5, <1>6 DEF BoardMoves, TouchMoves

\* A good call stays good.
LEMMA GoodStays ==
  ASSUME TriggerAssumption, Inv, KeysInv, BoardMoves, StoreMoves
  PROVE  /\ \A t \in Touches : \A i \in DOMAIN calls : touch[t].st # "none" /\ Good(t, i) => Good(t, i)'
         /\ \A k \in DOMAIN keys : \A i : GoodFor(k, i) => GoodFor(k, i)'
<1>1. ASSUME NEW t \in Touches, NEW i \in DOMAIN calls, touch[t].st # "none", Good(t, i) PROVE Good(t, i)'
  <2> DEFINE k == calls[i].key
             u == keys[k]
  <2>1. k \in DOMAIN keys /\ u \in Touches /\ touch[u].st # "none"
    BY KeysType DEF KeysInv
  <2>2. calls'[i].key = k /\ keys'[k] = u
    BY <2>1, KeysGrow DEF StoreMoves
  <2>3. touch'[u].plan = touch[u].plan /\ touch'[t].plan = touch[t].plan
    BY <1>1, <2>1, PlansStay
  <2>4. overtaken \subseteq overtaken'
    BY DEF BoardMoves
  <2>5. u = t \/ k \in overtaken \/ touch[u].plan # touch[t].plan
    BY <1>1 DEF Good, Plan
  <2>6. Good(t, i)' <=> (u = t \/ k \in overtaken' \/ touch'[u].plan # touch'[t].plan)
    BY <2>2 DEF Good, Plan
  <2> QED
    BY <2>3, <2>4, <2>5, <2>6
<1>2. ASSUME NEW k \in DOMAIN keys, NEW i, GoodFor(k, i) PROVE GoodFor(k, i)'
  <2>1. i \in DOMAIN calls /\ i \in DOMAIN calls'
    BY <1>2 DEF GoodFor, StoreMoves
  <2>2. ASSUME NEW t \in Touches, Holds(t, k)' PROVE Good(t, i)'
    <3>1. Holds(t, k)
      BY <2>2, PlansStay
    <3>2. Good(t, i) /\ touch[t].st # "none"
      BY <1>2, <3>1 DEF GoodFor, Holds, Live
    <3> QED
      BY <1>1, <2>1, <3>2
  <2> QED
    BY <2>1, <2>2 DEF GoodFor
<1> QED
  BY <1>1, <1>2

LEMMA ComingKeys ==
  ASSUME KeysInv
  PROVE  \A k : Coming(k) => k \in DOMAIN keys
BY DEF Coming, Inserting, Searching, KeysInv

LEMMA ComingKeysNext ==
  ASSUME StoreMoves
  PROVE  \A k : Coming(k)' => k \in DOMAIN keys
BY DEF Coming, Inserting, Searching, StoreMoves, Key

LEMMA KeysInvStays ==
  ASSUME TriggerAssumption, Inv, KeysInv, BoardMoves, StoreMoves
  PROVE  KeysInv'
<1>1. \A k \in DOMAIN keys : k \in DOMAIN keys' /\ keys'[k] = keys[k] /\ keys[k] \in Touches
  BY KeysGrow, KeysType
<1>2. ASSUME NEW t \in Touches, touch'[t].key # 0 PROVE touch'[t].key \in DOMAIN keys' /\ keys'[touch'[t].key] = t
  <2>1. CASE Keeps(t) \/ Leaves(t)
    <3>1. touch'[t].key = touch[t].key
      BY <1>2, <2>1 DEF Keeps, Leaves
    <3>2. touch[t].key \in DOMAIN keys /\ keys[touch[t].key] = t
      BY <1>2, <3>1 DEF KeysInv
    <3> QED
      BY <1>1, <3>1, <3>2
  <2>2. CASE Mints(t)
    BY <2>2, KeysGrow DEF Mints
  <2>3. CASE Starts(t)
    <3>1. touch'[t].key = 0
      BY <2>3, Parts DEF Starts, Released, NoTouch, TypeBoard
    <3> QED
      BY <1>2, <3>1
  <2> QED
    BY <2>1, <2>2, <2>3 DEF BoardMoves, TouchMoves
<1>3. ASSUME NEW k \in DOMAIN keys' PROVE touch'[keys'[k]].st # "none"
  <2>1. CASE k \in DOMAIN keys
    BY <1>1, <2>1, PlansStay DEF KeysInv
  <2>2. CASE Mints(keys'[k])
    BY <2>2 DEF Mints
  <2> QED
    BY <2>1, <2>2, KeysGrow
<1>4. \A h \in Handlers : hpc'[h] # "idle" => Key(h)' \in DOMAIN keys'
  BY <1>1 DEF StoreMoves, Key
<1>5. ASSUME NEW i \in DOMAIN calls' PROVE calls'[i].key \in DOMAIN keys'
  BY <1>1, ComingKeys DEF StoreMoves, KeysInv
<1>6. ASSUME NEW k \in KeyIds, request'[k].st # "none" PROVE k \in DOMAIN keys'
  BY <1>1, <1>6 DEF StoreMoves, KeysInv
<1> QED
  BY <1>2, <1>3, <1>4, <1>5, <1>6 DEF KeysInv, KeyIds

LEMMA HeldInvStays ==
  ASSUME TriggerAssumption, Inv, KeysInv, HeldInv, BoardMoves, StoreMoves
  PROVE  HeldInv'
<1> SUFFICES ASSUME lead'.st # "ended", NEW k \in DOMAIN keys', Coming(k)', k \notin overtaken'
             PROVE  touch'[keys'[k]].st \in {"planned", "dialing"} /\ touch'[keys'[k]].key = k
  BY DEF HeldInv, Holds, Live
<1>1. k \in DOMAIN keys
  BY ComingKeysNext
<1> DEFINE u == keys[k]
<1>2. k # 0 /\ u \in Touches /\ keys'[k] = u
  BY <1>1, KeysGrow, KeysType
<1>3. CASE Coming(k)
  <2>1. lead.st # "ended" /\ k \notin overtaken
    BY DEF BoardMoves
  <2>2. Live(u) /\ touch[u].key = k
    BY <1>1, <1>3, <2>1 DEF HeldInv, Holds
  <2>3. Keeps(u)
    <3>1. ~Mints(u)
      BY <1>2, <2>2 DEF Mints
    <3>2. ~Leaves(u)
      BY <1>2, <1>3, <2>2 DEF Leaves
    <3>3. ~Starts(u)
      BY <2>2 DEF Starts, Live
    <3> QED
      BY <1>2, <3>1, <3>2, <3>3 DEF BoardMoves, TouchMoves
  <2> QED
    BY <1>2, <2>2, <2>3 DEF Keeps, Holds, Live
<1>4. CASE Dialed(k)
  BY <1>2, <1>4 DEF Dialed
<1> QED
  BY <1>1, <1>3, <1>4 DEF StoreMoves

\* Only a release opens a touch.
LEMMA OpenBefore ==
  ASSUME TriggerAssumption, Inv, KeysInv, BoardMoves, StoreMoves, NEW t \in Touches, Open(t)'
  PROVE  Open(t) \/ Starts(t)
<1>1. CASE Live(t)'
  <2>1. Keeps(t) \/ Mints(t) \/ Leaves(t) => Live(t)
    BY <1>1 DEF Keeps, Mints, Leaves, Live
  <2> QED
    BY <2>1 DEF BoardMoves, TouchMoves, Open
<1>2. ASSUME NEW k \in DOMAIN keys', k \notin overtaken', keys'[k] = t, Coming(k)' PROVE Open(t)
  <2>1. k \in DOMAIN keys
    BY <1>2, ComingKeysNext
  <2>2. keys[k] = t /\ k \notin overtaken
    BY <1>2, <2>1, KeysGrow DEF BoardMoves
  <2>3. CASE Coming(k)
    BY <2>1, <2>2, <2>3 DEF Open
  <2>4. CASE Dialed(k)
    BY <2>2, <2>4 DEF Dialed, Live, Open
  <2> QED
    BY <1>2, <2>1, <2>2, <2>3, <2>4 DEF StoreMoves
<1> QED
  BY <1>1, <1>2 DEF Open

\* An open touch of an active lead waits or is being dialed.
LEMMA OpenIsLive ==
  ASSUME KeysInv, HeldInv, NEW t \in Touches, Open(t)
  PROVE  touch[t].st # "none" /\ (lead.st = "active" => Live(t))
BY DEF Open, HeldInv, Holds, KeysInv, Live

\* A release finds no open touch of its plan.
LEMMA StartsApart ==
  ASSUME TriggerAssumption, Inv, KeysInv, HeldInv, BoardMoves, NEW t \in Touches, Starts(t), NEW u \in Touches, u # t, Open(u)
  PROVE  touch'[t].plan # touch'[u].plan
<1>1. touch'[t].plan = lead.plan /\ touch'[u] = touch[u]
  BY Parts DEF Starts, Released, NoTouch, TypeBoard
<1>2. Live(u) /\ ~Blocks(u)
  BY OpenIsLive DEF Starts
<1> QED
  BY <1>1, <1>2 DEF Live, Blocks

LEMMA PlansInvStays ==
  ASSUME TriggerAssumption, Inv, KeysInv, HeldInv, PlansInv, BoardMoves, StoreMoves
  PROVE  PlansInv'
<1> SUFFICES ASSUME NEW t \in Touches, NEW u \in Touches, t # u, Open(t)', Open(u)'
             PROVE  touch'[t].plan # touch'[u].plan
  BY DEF PlansInv
<1>1. (Open(t) \/ Starts(t)) /\ (Open(u) \/ Starts(u))
  BY OpenBefore
<1>2. CASE Open(t) /\ Open(u)
  BY <1>2, OpenIsLive, PlansStay DEF PlansInv
<1>3. CASE Starts(t) /\ Open(u)
  BY <1>3, StartsApart
<1>4. CASE Open(t) /\ Starts(u)
  BY <1>4, StartsApart
<1>5. CASE Starts(t) /\ Starts(u)
  <2>1. touch'[u] = touch[u] /\ touch[u].st = "none" /\ touch'[u].st = "planned"
    BY <1>5, Parts DEF Starts, Released, NoTouch, TypeBoard
  <2> QED
    BY <2>1
<1> QED
  BY <1>1, <1>2, <1>3, <1>4, <1>5

\* A call that is added is good for every key that is held.
LEMMA AddedIsGood ==
  ASSUME TriggerAssumption, Inv, KeysInv, HeldInv, PlansInv, BoardMoves, StoreMoves,
         NEW i \in DOMAIN calls', i \notin DOMAIN calls, NEW k \in DOMAIN keys
  PROVE  GoodFor(k, i)'
<1> DEFINE q == calls'[i].key
           u == keys[q]
<1>1. Coming(q) /\ q \in DOMAIN keys /\ u \in Touches /\ keys'[q] = u
  BY ComingKeys, KeysGrow, KeysType DEF StoreMoves
<1> SUFFICES ASSUME NEW t \in Touches, Holds(t, k)', u # t, q \notin overtaken'
             PROVE  touch'[u].plan # touch'[t].plan
  BY <1>1 DEF GoodFor, Good, Plan
<1>2. Open(u)
  BY <1>1 DEF Open, BoardMoves
<1>3. Open(t)
  BY PlansStay DEF Holds, Open
<1>4. touch[u].plan # touch[t].plan
  BY <1>1, <1>2, <1>3 DEF PlansInv
<1> QED
  BY <1>1, <1>2, <1>3, <1>4, OpenIsLive, PlansStay

LEMMA SearchInvStays ==
  ASSUME TriggerAssumption, Inv, KeysInv, HeldInv, PlansInv, SearchInv, BoardMoves, StoreMoves
  PROVE  SearchInv'
<1> SUFFICES ASSUME NEW k \in KeyIds, request'[k].st # "none", NEW i \in CallsSince(k)'
             PROVE  GoodFor(k, i)'
  BY DEF SearchInv, KeyIds
<1>1. k \in DOMAIN keys /\ i \in DOMAIN calls'
  BY DEF StoreMoves, KeysInv, CallsSince
<1>2. CASE i \notin DOMAIN calls
  BY <1>1, <1>2, AddedIsGood
<1>3. CASE i \in DOMAIN calls
  <2>1. request[k].st # "none" /\ request'[k].since = request[k].since
    BY <1>1, <1>3 DEF StoreMoves, CallsSince
  <2>2. i \in CallsSince(k)
    BY <1>3, <2>1 DEF CallsSince
  <2> QED
    BY <1>1, <2>1, <2>2, GoodStays DEF SearchInv
<1> QED
  BY <1>2, <1>3

LEMMA SentInvStays ==
  ASSUME TriggerAssumption, Inv, KeysInv, SentInv, BoardMoves, StoreMoves
  PROVE  SentInv'
<1> SUFFICES ASSUME NEW t \in Touches, touch'[t].st = "sent"
             PROVE  \E i \in DOMAIN calls' : i = touch'[t].call /\ Good(t, i)'
  BY DEF SentInv, Good, Plan
<1>1. touch[t].st # "none" /\ touch'[t].call \in DOMAIN calls /\ Good(t, touch'[t].call)
  <2>1. CASE Keeps(t)
    BY <2>1 DEF Keeps, Live, SentInv
  <2>2. CASE Leaves(t)
    BY <2>2 DEF Leaves, Live
  <2>3. ~Mints(t)
    BY DEF Mints
  <2>4. ~Starts(t)
    BY Parts DEF Starts, Released, NoTouch, TypeBoard
  <2> QED
    BY <2>1, <2>2, <2>3, <2>4 DEF BoardMoves, TouchMoves
<1>2. \A i \in DOMAIN calls : Good(t, i) => i \in DOMAIN calls' /\ Good(t, i)'
  BY <1>1, GoodStays DEF StoreMoves
<1> QED
  BY <1>1, <1>2

LEMMA DueInvStays ==
  ASSUME TriggerAssumption, Inv, KeysInv, DueInv, BoardMoves, StoreMoves
  PROVE  DueInv'
<1> SUFFICES ASSUME NEW t \in Touches, NEW k, touch'[t].st = "planned", touch'[t].due, touch'[t].key = k, OnItsWay(k)'
             PROVE  FALSE
  BY DEF DueInv, OnItsWay
<1>1. k \in DOMAIN keys /\ k # 0 /\ k # Len(keys) + 1
  BY KeysType DEF OnItsWay, StoreMoves
<1>2. Keeps(t)
  <2>1. ~Starts(t)
    BY <1>1, Parts DEF Starts, Released, NoTouch, TypeBoard
  <2> QED
    BY <1>1, <2>1 DEF BoardMoves, TouchMoves, Mints, Leaves
<1>3. touch[t].key = k /\ ~OnItsWay(k)
  BY <1>2 DEF Keeps, DueInv
<1>4. Dialed(k) /\ keys[k] = t
  BY <1>1, <1>3 DEF StoreMoves, KeysInv
<1> QED
  BY <1>4 DEF Dialed

LEMMA BoardInvStays ==
  ASSUME TriggerAssumption, Inv, BoardInv, BoardMoves, StoreMoves
  PROVE  BoardInv'
BY KeysInvStays, HeldInvStays, PlansInvStays, SearchInvStays, SentInvStays, DueInvStays DEF BoardInv

-----------------------------------------------------------------------------
(* What the answers under a key say of it.                                 *)

\* A key with a call to come is reserved and not old, or has a request on its way.
LEMMA ComingFacts ==
  ASSUME Inv, NEW k, Coming(k)
  PROVE  \/ request[k].st = "open" /\ ~request[k].old
         \/ Blank(k) /\ OnItsWay(k)
<1>1. ASSUME NEW h \in Handlers, hpc[h] \in Owning, Key(h) = k PROVE request[k].st = "open" /\ ~request[k].old
  BY <1>1, Parts DEF HandlerInv, Req
<1>2. Inserting \subseteq Owning /\ \A h \in Handlers : hpc[h] \in Searching => hpc[h] \in Owning \/ hpc[h] \in {"arrive", "takeOver"}
  BY DEF Inserting, Searching, Owning
<1> QED
  BY <1>1, <1>2 DEF Coming, OnItsWay, Key

LEMMA NobodyComes ==
  ASSUME NEW k, Nobody(k)
  PROVE  ~Coming(k) /\ ~OnItsWay(k)
BY DEF Nobody, AtWork, Coming, OnItsWay, Inserting, Searching, Key

LEMMA ResolvedComing ==
  ASSUME Inv, NEW k \in KeyIds, Coming(k)
  PROVE  Resolved(k) = "in_flight" \/ (Resolved(k) = "conflict" /\ OnItsWay(k))
<1>1. CASE request[k].st = "open" /\ ~request[k].old
  BY <1>1 DEF Resolved
<1>2. CASE Blank(k) /\ OnItsWay(k)
  <2>1. request[k].st # "answered" /\ (request[k].st = "open" => Found(k) = 0)
    BY <1>2 DEF Blank, Found
  <2> QED
    BY <1>2, <2>1 DEF Resolved
<1> QED
  BY <1>1, <1>2, ComingFacts

\* A key that is free of calls and requests, or whose request is late.
LEMMA FreeKey ==
  ASSUME Inv, NEW t \in Touches, touch[t].key # 0, Free(t)
  PROVE  ~Coming(touch[t].key) \/ (OnItsWay(touch[t].key) /\ ~touch[t].young)
<1>1. touch[t].key \in KeyIds
  BY Parts, TouchTypes
<1> QED
  BY <1>1, ResolvedComing DEF Free, Pending

\* Nobody has a free key that is on no way.
LEMMA FreeIsNobodys ==
  ASSUME Inv, NEW t \in Touches, touch[t].key # 0, Free(t), ~OnItsWay(touch[t].key)
  PROVE  Nobody(touch[t].key)
<1> DEFINE k == touch[t].key
<1> SUFFICES ASSUME NEW h \in Handlers, hpc[h] # "idle", Key(h) = k PROVE FALSE
  BY DEF Nobody, AtWork
<1>1. hpc[h] \in Owning
  BY Parts, HandlerTypes DEF OnItsWay, HandlerSteps, Key
<1>2. request[k].st = "open" /\ ~request[k].old
  BY <1>1, Parts DEF HandlerInv, Req
<1>3. Resolved(k) = "in_flight"
  BY <1>2 DEF Resolved
<1> QED
  BY <1>3 DEF Free, Pending

\* The call a held key resolves to is a good one.
LEMMA PlacedKey ==
  ASSUME Inv, SearchInv, ToldInv, NEW k \in KeyIds, Resolved(k) = "placed"
  PROVE  GoodFor(k, ResolvedCall(k)) /\ ~Coming(k)
<1>1. ~Coming(k)
  BY ResolvedComing
<1>2. CASE request[k].st = "answered"
  <2>1. request[k].answer = "placed" /\ ResolvedCall(k) = request[k].call
    BY <1>2 DEF Resolved, ResolvedCall
  <2>2. ToldUnder(k) /\ Naming(k)
    BY <1>2, <2>1 DEF ToldInv, Naming
  <2> QED
    BY <1>1, <2>1, <2>2 DEF ToldUnder
<1>3. CASE request[k].st # "answered"
  <2>1. request[k].st = "open" /\ Found(k) # 0
    BY <1>3 DEF Resolved
  <2>2. CallsSince(k) # {}
    BY <2>1 DEF Found
  <2>3. Found(k) \in CallsSince(k)
    BY <2>2, Parts, NewestFound
  <2> QED
    BY <1>1, <1>3, <2>1, <2>3 DEF ResolvedCall, SearchInv
<1> QED
  BY <1>2, <1>3

-----------------------------------------------------------------------------
(* Steps of the board.                                                     *)

LEMMA NoTouchMoves ==
  ASSUME touch' = touch
  PROVE  TouchMoves
BY DEF TouchMoves, Keeps, Live

LEMMA OneTouchMoves ==
  ASSUME Inv, NEW t \in Touches, NEW new, Set(t, new), Keeps(t) \/ Mints(t) \/ Leaves(t)
  PROVE  TouchMoves
<1>1. \A u \in Touches : u # t => touch'[u] = touch[u]
  BY Parts DEF Set, TypeBoard
<1> QED
  BY <1>1 DEF TouchMoves, Keeps, Live

LEMMA SetTouch ==
  ASSUME Inv, NEW t \in Touches, NEW new, Set(t, new)
  PROVE  touch'[t] = new /\ touch[t] \in Touch
BY Parts DEF Set, TypeBoard

LEMMA LaterMoves ==
  ASSUME Inv, NEW t \in Touches, Live(t), Later(t)
  PROVE  TouchMoves /\ overtaken' = overtaken /\ lead' = lead
<1>1. touch'[t] = [touch[t] EXCEPT !.due = FALSE] /\ touch[t] \in Touch
  BY SetTouch DEF Later
<1>2. Keeps(t)
  BY <1>1 DEF Keeps, Live, Touch
<1> QED
  BY <1>2, OneTouchMoves DEF Later

LEMMA SentMoves ==
  ASSUME Inv, NEW t \in Touches, Live(t), NEW i, touch'[t] = Sent(t, i),
         touch[t].key # 0, GoodFor(touch[t].key, i), ~Coming(touch[t].key)
  PROVE  Leaves(t)
<1>1. touch[t] \in Touch
  BY Parts DEF TypeBoard
<1>2. touch'[t].st = "sent" /\ touch'[t].key = 0 /\ touch'[t].call = i /\ touch'[t].plan = touch[t].plan
  BY <1>1 DEF Sent, Touch
<1>3. i \in DOMAIN calls /\ Good(t, i)
  BY DEF GoodFor, Holds
<1> QED
  BY <1>2, <1>3 DEF Leaves

LEMMA LinkPlacedMoves ==
  ASSUME Inv, SearchInv, ToldInv, NEW t \in Touches, Live(t), Placed(t), LinkPlaced(t)
  PROVE  TouchMoves /\ overtaken' = overtaken /\ (lead.st = "ended" => lead'.st = "ended")
<1>1. touch[t].key \in KeyIds /\ touch[t].key # 0 /\ Resolved(touch[t].key) = "placed"
  BY Parts, TouchTypes DEF Placed
<1>2. touch'[t] = Sent(t, ResolvedCall(touch[t].key))
  BY SetTouch DEF LinkPlaced
<1>3. Leaves(t)
  BY <1>1, <1>2, PlacedKey, SentMoves
<1>4. lead.st = "ended" => lead'.st = "ended"
  BY Parts DEF LinkPlaced, TypeBoard, Lead
<1> QED
  BY <1>3, <1>4, OneTouchMoves DEF LinkPlaced

\* A touch whose key is free is skipped.
LEMMA SkipMoves ==
  ASSUME Inv, NEW t \in Touches, Live(t), touch'[t] = Skipped(t),
         touch[t].key = 0 \/ lead'.st = "ended" \/ ~Coming(touch[t].key) \/ touch[t].key \in overtaken'
  PROVE  Leaves(t)
<1>1. touch[t] \in Touch
  BY Parts DEF TypeBoard
<1>2. touch'[t].st = "skipped" /\ touch'[t].key = touch[t].key /\ touch'[t].plan = touch[t].plan
  BY <1>1 DEF Skipped, Touch
<1> QED
  BY <1>2 DEF Leaves

LEMMA DroppedMoves ==
  ASSUME NEW Ts \in SUBSET Touches, Dropped(Ts)
  PROVE  /\ overtaken \subseteq overtaken'
         /\ \A t \in Ts : ~touch[t].young /\ OnItsWay(touch[t].key) => touch[t].key \in overtaken'
BY DEF Dropped

LEMMA SkipUnlessPlacedMoves ==
  ASSUME Inv, SearchInv, ToldInv, NEW t \in Touches, Live(t), NEW l, SkipUnlessPlaced(t, l), lead.st = "ended" => l.st = "ended"
  PROVE  TouchMoves /\ overtaken \subseteq overtaken' /\ (lead.st = "ended" => lead'.st = "ended")
<1>1. CASE Placed(t) /\ LinkPlaced(t)
  BY <1>1, LinkPlacedMoves
<1>2. CASE Pending(t) /\ Later(t)
  BY <1>2, LaterMoves
<1>3. CASE Free(t) /\ Set(t, Skipped(t)) /\ Dropped({t}) /\ lead' = l
  <2>1. touch[t].key = 0 \/ ~Coming(touch[t].key) \/ touch[t].key \in overtaken'
    BY <1>3, FreeKey, DroppedMoves
  <2>2. Leaves(t)
    BY <1>3, <2>1, SetTouch, SkipMoves
  <2> QED
    BY <1>3, <2>2, OneTouchMoves, DroppedMoves
<1> QED
  BY <1>1, <1>2, <1>3 DEF SkipUnlessPlaced

LEMMA FinishedMoves ==
  ASSUME Inv, Finished
  PROVE  TouchMoves /\ (lead.st = "ended" => lead'.st = "ended")
<1>1. CASE lead.st = "active"
  <2>1. lead'.st = "ended" /\ \A t \in Touches : touch'[t] = IF touch[t].st = "planned" THEN Skipped(t) ELSE touch[t]
    BY <1>1, Parts DEF Finished, TypeBoard, Lead
  <2>2. ASSUME NEW t \in Touches PROVE Keeps(t) \/ Leaves(t)
    BY <2>1, SkipMoves DEF Keeps, Live
  <2> QED
    BY <1>1, <2>2 DEF TouchMoves
<1>2. CASE lead.st # "active"
  BY <1>2, NoTouchMoves DEF Finished
<1> QED
  BY <1>1, <1>2

LEMMA ToBoardMoves ==
  ASSUME Inv, NEW n, ToBoard(n)
  PROVE  lead.st = "ended" => lead'.st = "ended"
BY Parts DEF ToBoard, Called, TypeBoard, Lead

\* A key nobody has may be dropped.
LEMMA ParkedMoves ==
  ASSUME Inv, NEW t \in Touches, Parked(t), Live(t) /\ touch[t].key # 0 => Nobody(touch[t].key)
  PROVE  TouchMoves /\ overtaken \subseteq overtaken' /\ (lead.st = "ended" => lead'.st = "ended")
<1>1. touch[t] \in Touch /\ touch'[t] = IF touch[t].st \in {"planned", "dialing"} THEN [touch[t] EXCEPT !.st = "failed", !.key = 0, !.young = FALSE] ELSE touch[t]
  BY Parts, SetTouch DEF Parked, TypeBoard
<1>2. ASSUME Live(t) PROVE Leaves(t)
  <2>1. touch'[t] = [touch[t] EXCEPT !.st = "failed", !.key = 0, !.young = FALSE]
    BY <1>1, <1>2 DEF Live
  <2>2. touch'[t].st = "failed" /\ touch'[t].key = 0 /\ touch'[t].plan = touch[t].plan
    BY <1>1, <2>1 DEF Touch
  <2> QED
    BY <1>2, <2>2, NobodyComes DEF Leaves
<1>3. ASSUME ~Live(t) PROVE Keeps(t)
  <2>1. touch'[t] = touch[t]
    BY <1>1, <1>3 DEF Live
  <2> QED
    BY <1>3, <2>1 DEF Keeps
<1>4. Keeps(t) \/ Leaves(t)
  BY <1>2, <1>3
<1> QED
  BY <1>4, OneTouchMoves, DroppedMoves, ToBoardMoves DEF Parked

LEMMA ResearchedMoves ==
  ASSUME Inv, NEW t \in Touches, Researched(t), touch[t].key # 0 => Nobody(touch[t].key)
  PROVE  TouchMoves /\ overtaken \subseteq overtaken' /\ (lead.st = "ended" => lead'.st = "ended")
<1>1. Leaves(t)
  BY SetTouch, SkipMoves, NobodyComes DEF Researched, Live
<1> QED
  BY <1>1, OneTouchMoves, DroppedMoves, ToBoardMoves DEF Researched

\* What a step of the board leaves alone.
LEMMA QuietStore ==
  ASSUME TriggerAssumption, Inv, KeysInv, UNCHANGED <<handler, store>>
  PROVE  StoreMoves
<1>1. request' = request /\ calls' = calls /\ hpc' = hpc /\ hmem' = hmem
  BY DEF handler, store
<1>2. \A k : (Coming(k)' <=> Coming(k)) /\ (OnItsWay(k)' <=> OnItsWay(k)) /\ CallsSince(k)' = CallsSince(k)
  BY <1>1 DEF Coming, OnItsWay, Blank, CallsSince, Inserting, Searching, Key
<1>3. \A h \in Handlers : hpc[h] # "idle" => hmem[h].key \in DOMAIN keys
  BY DEF KeysInv, Key
<1> QED
  BY <1>1, <1>2, <1>3 DEF StoreMoves

LEMMA ToldStays ==
  ASSUME TriggerAssumption, Inv, KeysInv, ToldInv, BoardMoves, UNCHANGED <<handler, store>>
  PROVE  ToldInv'
<1>1. request' = request /\ calls' = calls /\ hpc' = hpc /\ hmem' = hmem
  BY DEF handler, store
<1>2. \A k \in DOMAIN keys : \A i : GoodFor(k, i) => GoodFor(k, i)'
  BY QuietStore, GoodStays
<1>3. ASSUME NEW h \in Handlers, hpc[h] \in Answering, hmem[h].answer = "placed"
      PROVE  GoodFor(hmem[h].key, hmem[h].call)'
  <2>1. Key(h) \in DOMAIN keys /\ GoodFor(Key(h), hmem[h].call)
    BY <1>3 DEF KeysInv, ToldInv, ToldBy, Answering
  <2>2. \A k, i : hmem'[h].key = k /\ hmem'[h].call = i => (GoodFor(hmem[h].key, hmem[h].call)' <=> GoodFor(k, i)')
    BY <1>1 DEF GoodFor, Good, Plan, Holds, Live
  <2> QED
    BY <1>1, <1>2, <2>1, <2>2 DEF Key
<1>4. ASSUME NEW k \in KeyIds, Naming(k) PROVE GoodFor(k, request[k].call)'
  <2>1. k \in DOMAIN keys /\ GoodFor(k, request[k].call)
    BY <1>4 DEF KeysInv, ToldInv, ToldUnder, Naming
  <2>2. \A i : request'[k].call = i => (GoodFor(k, request[k].call)' <=> GoodFor(k, i)')
    BY <1>1 DEF GoodFor, Good, Plan, Holds, Live
  <2> QED
    BY <1>1, <1>2, <2>1, <2>2
<1> QED
  BY <1>1, <1>3, <1>4 DEF ToldInv, ToldBy, ToldUnder, Naming, Key, KeyIds, Answering

LEMMA BoardStepOwn ==
  ASSUME TriggerAssumption, Inv, OwnInv, BoardMoves, UNCHANGED <<handler, store>>, TicksInv'
  PROVE  OwnInv'
<1>1. BoardInv /\ KeysInv /\ ToldInv
  BY DEF OwnInv, BoardInv
<1> QED
  BY <1>1, QuietStore, ToldStays, BoardInvStays DEF OwnInv

\* The one tick is over.
LEMMA TickRests ==
  ASSUME OneTick, NEW p \in Pacers, pc'[p] \in {"idle", "finish"}
  PROVE  TicksInv'
<1>1. \A q \in Pacers : q = p
  BY DEF OneTick
<1>2. TickInv(p)'
  BY DEF TickInv, TickTouch, TickKey, TickAnswer
<1> QED
  BY <1>1, <1>2 DEF TicksInv

LEMMA TickEnds ==
  ASSUME TriggerAssumption, OneTick, Inv, OwnInv, NEW p \in Pacers, NEW s \in {"idle", "finish"}, NEW m, Goto(p, s, m),
         BoardMoves, UNCHANGED <<handler, store>>
  PROVE  OwnInv'
<1>1. pc'[p] = s
  BY Parts DEF Goto, TypePacers
<1> QED
  BY <1>1, TickRests, BoardStepOwn

\* What is done besides a tick: the touch it has in hand stays in hand.
Waits(t) ==
  /\ touch[t].st = "dialing" => touch'[t].st = "dialing" /\ touch'[t].key = touch[t].key
  /\ touch[t].st \notin {"none", "dialing"} => touch'[t].st \notin {"none", "dialing"}
  /\ touch[t].st \notin {"none", "dialing"} /\ touch'[t].st = "planned" => touch[t].st = "planned" /\ touch'[t].key = touch[t].key

LEMMA TickStays ==
  ASSUME TriggerAssumption, Inv, OwnInv, BoardMoves, UNCHANGED <<pacer, handler, store>>, \A t \in Touches : Waits(t)
  PROVE  OwnInv'
<1>1. pc' = pc /\ mem' = mem /\ hpc' = hpc /\ hmem' = hmem
  BY DEF pacer, handler
<1>2. ASSUME NEW p \in Pacers PROVE TickInv(p)'
  <2>1. TickInv(p) /\ mem[p].touch \in Touches
    BY Parts, PacerTypes DEF OwnInv, TicksInv
  <2>2. /\ T(p).st = "dialing" => T(p)'.st = "dialing" /\ T(p)'.key = T(p).key
        /\ T(p).st \notin {"none", "dialing"} => T(p)'.st \notin {"none", "dialing"}
        /\ T(p).st \notin {"none", "dialing"} /\ T(p)'.st = "planned" => T(p).st = "planned" /\ T(p)'.key = T(p).key
    BY <1>1, <2>1 DEF Waits, T
  <2>3. \A k, h : (Nobody(k)' <=> Nobody(k)) /\ (OnItsWay(k)' <=> OnItsWay(k)) /\ (AtWork(h, k)' <=> AtWork(h, k))
    BY <1>1 DEF Nobody, AtWork, OnItsWay, Key
  <2>4. ASSUME pc[p] = "apply", mem[p].answer = "placed" PROVE GoodFor(mem[p].key, mem[p].call)'
    <3>1. T(p).key = mem[p].key /\ mem[p].key # 0 /\ GoodFor(mem[p].key, mem[p].call)
      BY <2>1, <2>4 DEF TickInv, TickTouch, TickKey, TickAnswer
    <3>2. KeysInv /\ mem[p].key \in DOMAIN keys
      BY <2>1, <3>1 DEF OwnInv, BoardInv, KeysInv, T
    <3>3. \A i : GoodFor(mem[p].key, i) => GoodFor(mem[p].key, i)'
      <4>1. \A k \in DOMAIN keys : \A i : GoodFor(k, i) => GoodFor(k, i)'
        BY <3>2, QuietStore, GoodStays
      <4>2. \A k, i : mem'[p].key = k => (GoodFor(mem[p].key, i)' <=> GoodFor(k, i)')
        BY DEF GoodFor, Good, Plan, Holds, Live
      <4> QED
        BY <1>1, <3>2, <4>1, <4>2
    <3>4. \A i : mem'[p].call = i => (GoodFor(mem[p].key, mem[p].call)' <=> GoodFor(mem[p].key, i)')
      BY DEF GoodFor, Good, Plan, Holds, Live
    <3> QED
      BY <1>1, <3>1, <3>3, <3>4
  <2>5. ASSUME pc[p] \in {"settle", "gate", "claim", "refused"}
        PROVE  T(p)'.st \notin {"none", "dialing"} /\ (T(p)'.st = "planned" => T(p).st = "planned" /\ T(p)'.key = mem[p].key)
    BY <2>1, <2>2, <2>5 DEF TickInv, TickTouch
  <2>6. pc[p] \in {"send", "wait", "resolve", "apply"} => T(p)'.st = "dialing" /\ T(p)'.key = mem[p].key
    BY <2>1, <2>2 DEF TickInv, TickTouch
  <2>7. TickTouch(p)'
    BY <1>1, <2>1, <2>5, <2>6 DEF TickInv, TickTouch
  <2>8. TickKey(p)'
    BY <1>1, <2>1, <2>3, <2>5 DEF TickInv, TickKey
  <2>9. TickAnswer(p)'
    BY <1>1, <2>1, <2>4 DEF TickInv, TickAnswer
  <2> QED
    BY <2>7, <2>8, <2>9 DEF TickInv
<1>3. TicksInv'
  BY <1>2 DEF TicksInv
<1> QED
  BY <1>3, BoardStepOwn

-----------------------------------------------------------------------------
(* The steps of the tick.                                                  *)

LEMMA SameBoardMoves ==
  ASSUME UNCHANGED board
  PROVE  BoardMoves
BY NoTouchMoves DEF board, BoardMoves

LEMMA NobodyAtZero ==
  ASSUME TriggerAssumption, Inv, KeysInv
  PROVE  Nobody(0) /\ Nobody(Len(keys) + 1)
BY KeysType DEF Nobody, AtWork, KeysInv

\* The one tick goes on.
LEMMA TickGoes ==
  ASSUME TriggerAssumption, OneTick, Inv, OwnInv, NEW p \in Pacers, BoardMoves, UNCHANGED <<handler, store>>, TickInv(p)'
  PROVE  OwnInv'
<1>1. \A q \in Pacers : q = p
  BY DEF OneTick
<1>2. TicksInv'
  BY <1>1 DEF TicksInv
<1> QED
  BY <1>2, BoardStepOwn

LEMMA Steps ==
  ASSUME Inv, NEW p \in Pacers
  PROVE  mem[p].touch \in Touches /\ mem[p] \in PacerMem /\ T(p) = touch[mem[p].touch] /\ T(p) \in Touch
BY Parts, PacerTypes DEF T

LEMMA GotoStep ==
  ASSUME Inv, NEW p \in Pacers, NEW s, NEW m, Goto(p, s, m)
  PROVE  pc'[p] = s /\ mem'[p] = m
BY Parts DEF TypePacers, Goto

LEMMA SameHandlers ==
  ASSUME UNCHANGED <<handler, store>>
  PROVE  /\ request' = request /\ calls' = calls /\ hpc' = hpc /\ hmem' = hmem
         /\ \A k, h : (Nobody(k)' <=> Nobody(k)) /\ (OnItsWay(k)' <=> OnItsWay(k)) /\ (AtWork(h, k)' <=> AtWork(h, k))
<1>1. request' = request /\ calls' = calls /\ hpc' = hpc /\ hmem' = hmem
  BY DEF handler, store
<1> QED
  BY <1>1 DEF Nobody, AtWork, OnItsWay, Key

LEMMA PickOwn ==
  ASSUME TriggerAssumption, OneTick, Inv, OwnInv, NEW p \in Pacers, Pick(p)
  PROVE  OwnInv'
<1>1. PICK t \in Touches : /\ touch[t].st = "planned" /\ touch[t].due
                           /\ Goto(p, "settle", [NoMem EXCEPT !.touch = t, !.key = touch[t].key, !.approved = PlanApproved(t)])
  BY DEF Pick
<1>2. UNCHANGED board /\ UNCHANGED <<handler, store>> /\ touch' = touch
  BY DEF Pick, board
<1>3. pc'[p] = "settle" /\ mem'[p].touch = t /\ mem'[p].key = touch[t].key /\ mem'[p].answer = "transport"
  <2>1. pc'[p] = "settle" /\ mem'[p] = [NoMem EXCEPT !.touch = t, !.key = touch[t].key, !.approved = PlanApproved(t)]
    BY <1>1, GotoStep
  <2> QED
    BY <2>1 DEF NoMem
<1>4. ~OnItsWay(touch[t].key)
  BY <1>1 DEF OwnInv, BoardInv, DueInv
<1>5. \A k : mem'[p].key = k => (OnItsWay(mem[p].key)' <=> OnItsWay(k))
  BY <1>2, SameHandlers DEF OnItsWay
<1>6. TickInv(p)'
  BY <1>1, <1>2, <1>3, <1>4, <1>5 DEF TickInv, TickTouch, TickKey, TickAnswer, T
<1> QED
  BY <1>2, <1>6, SameBoardMoves, TickGoes

LEMMA SettleKeyOwn ==
  ASSUME TriggerAssumption, OneTick, Inv, OwnInv, NEW p \in Pacers, SettleKey(p)
  PROVE  OwnInv'
<1> DEFINE t == mem[p].touch
           kept == mem[p].key # 0 /\ T(p).st = "planned"
<1>1. UNCHANGED keys /\ UNCHANGED <<handler, store>> /\ t \in Touches /\ TickInv(p) /\ SearchInv /\ ToldInv /\ KeysInv
  BY Steps DEF SettleKey, OwnInv, BoardInv, TicksInv
<1>2. CASE kept /\ Placed(t) /\ LinkPlaced(t) /\ Goto(p, "idle", NoMem)
  BY <1>1, <1>2, LinkPlacedMoves, TickEnds DEF BoardMoves, T, Live
<1>3. CASE kept /\ Pending(t) /\ Later(t) /\ Goto(p, "idle", NoMem)
  BY <1>1, <1>3, LaterMoves, TickEnds DEF BoardMoves, T, Live
<1>4. CASE (kept => Free(t)) /\ Goto(p, "gate", mem[p]) /\ UNCHANGED <<touch, lead, overtaken>>
  <2>1. UNCHANGED board /\ touch' = touch
    BY <1>1, <1>4 DEF board
  <2>2. pc'[p] = "gate" /\ mem'[p] = mem[p] /\ pc[p] = "settle"
    BY <1>4, GotoStep DEF SettleKey
  <2>3. ASSUME T(p).st = "planned" PROVE Nobody(mem[p].key)
    <3>1. T(p).key = mem[p].key /\ ~OnItsWay(mem[p].key)
      BY <1>1, <2>2, <2>3 DEF TickInv, TickTouch, TickKey
    <3>2. CASE mem[p].key = 0
      BY <1>1, <3>2, NobodyAtZero
    <3>3. CASE mem[p].key # 0
      BY <1>1, <1>4, <2>3, <3>1, <3>3, FreeIsNobodys DEF T
    <3> QED
      BY <3>2, <3>3
  <2>4. Nobody(mem[p].key)' <=> Nobody(mem[p].key)
    BY <1>1, <2>2, SameHandlers DEF Nobody, AtWork, Key
  <2>5. TickInv(p)'
    BY <1>1, <2>1, <2>2, <2>3, <2>4 DEF TickInv, TickTouch, TickKey, TickAnswer, T
  <2> QED
    BY <1>1, <2>1, <2>5, SameBoardMoves, TickGoes
<1> QED
  BY <1>2, <1>3, <1>4 DEF SettleKey

\* A step at which the tick keeps what it has in hand.
LEMMA TickKeepsOn ==
  ASSUME TriggerAssumption, OneTick, Inv, OwnInv, NEW p \in Pacers, pc[p] \in {"gate", "claim"}, NEW s \in {"claim", "refused"},
         Goto(p, s, mem[p]), UNCHANGED board, UNCHANGED <<handler, store>>
  PROVE  OwnInv'
<1>1. TickInv(p) /\ touch' = touch
  BY DEF OwnInv, TicksInv, board
<1>2. pc'[p] = s /\ mem'[p] = mem[p]
  BY GotoStep
<1>3. Nobody(mem[p].key)' <=> Nobody(mem[p].key)
  BY <1>2, SameHandlers DEF Nobody, AtWork, Key
<1>4. TickInv(p)'
  BY <1>1, <1>2, <1>3 DEF TickInv, TickTouch, TickKey, TickAnswer, T
<1> QED
  BY <1>4, SameBoardMoves, TickGoes

LEMMA GateOwn ==
  ASSUME TriggerAssumption, OneTick, Inv, OwnInv, NEW p \in Pacers, Gate(p)
  PROVE  OwnInv'
<1> DEFINE t == mem[p].touch
           planned == T(p).st = "planned"
<1>1. /\ UNCHANGED keys /\ UNCHANGED <<handler, store>> /\ t \in Touches /\ T(p) = touch[t]
      /\ TickInv(p) /\ SearchInv /\ ToldInv /\ pc[p] = "gate"
  BY Steps DEF Gate, OwnInv, BoardInv, TicksInv
<1>2. T(p).st # "dialing" /\ (planned => Nobody(T(p).key))
  BY <1>1 DEF TickInv, TickTouch, TickKey
<1>3. ASSUME UNCHANGED <<touch, lead, overtaken>>, Goto(p, "idle", NoMem) PROVE OwnInv'
  <2>1. UNCHANGED board
    BY <1>1, <1>3 DEF board
  <2> QED
    BY <1>1, <1>3, <2>1, SameBoardMoves, TickEnds
<1>4. CASE Finished /\ UNCHANGED overtaken /\ Goto(p, "idle", NoMem)
  BY <1>1, <1>4, FinishedMoves, TickEnds DEF BoardMoves
<1>5. CASE planned /\ SkipUnlessPlaced(t, lead) /\ Goto(p, "idle", NoMem)
  BY <1>1, <1>5, SkipUnlessPlacedMoves, TickEnds DEF BoardMoves, Live
<1>6. CASE NotNow(t) /\ Goto(p, "idle", NoMem)
  <2>1. BoardMoves
    <3>1. CASE Parked(t)
      BY <1>1, <1>2, <3>1, ParkedMoves DEF BoardMoves, Live
    <3>2. CASE Researched(t)
      BY <1>1, <1>2, <3>2, ResearchedMoves DEF BoardMoves, Researched
    <3>3. CASE touch[t].st = "planned" /\ Later(t)
      BY <1>1, <3>3, LaterMoves DEF BoardMoves, Live
    <3> QED
      BY <1>6, <3>1, <3>2, <3>3 DEF NotNow
  <2> QED
    BY <1>1, <1>6, <2>1, TickEnds
<1>7. CASE UNCHANGED <<touch, lead, overtaken>> /\ Goto(p, "claim", mem[p])
  <2>1. UNCHANGED board
    BY <1>1, <1>7 DEF board
  <2> QED
    BY <1>1, <1>7, <2>1, TickKeepsOn
<1> QED
  BY <1>3, <1>4, <1>5, <1>6, <1>7 DEF Gate

LEMMA ClaimOwn ==
  ASSUME TriggerAssumption, OneTick, Inv, OwnInv, NEW p \in Pacers, Claim(p)
  PROVE  OwnInv'
<1> DEFINE t == mem[p].touch
           mint == T(p).key = 0
           key == IF mint THEN Len(keys) + 1 ELSE T(p).key
<1>1. /\ UNCHANGED <<lead, overtaken>> /\ UNCHANGED <<handler, store>> /\ t \in Touches /\ T(p) = touch[t] /\ T(p) \in Touch
      /\ TickInv(p) /\ KeysInv /\ pc[p] = "claim" /\ mem[p] \in PacerMem
  BY Steps DEF Claim, OwnInv, BoardInv, TicksInv
<1>2. CASE /\ Claimable(t)
           /\ keys' = IF mint THEN Append(keys, t) ELSE keys
           /\ Set(t, [T(p) EXCEPT !.st = "dialing", !.key = key, !.tries = @ + 1, !.young = TRUE])
           /\ Goto(p, "send", [mem[p] EXCEPT !.key = key, !.tries = T(p).tries + 1])
  <2>1. /\ touch'[t].st = "dialing" /\ touch'[t].key = key /\ touch'[t].plan = touch[t].plan
        /\ T(p).st = "planned" /\ T(p).key = mem[p].key /\ Live(t)
    <3>1. touch'[t] = [T(p) EXCEPT !.st = "dialing", !.key = key, !.tries = @ + 1, !.young = TRUE]
      BY <1>1, <1>2, SetTouch
    <3>2. T(p).st = "planned"
      BY <1>1, <1>2 DEF Claimable
    <3>3. T(p).key = mem[p].key
      BY <1>1, <3>2 DEF TickInv, TickTouch
    <3>4. touch'[t].st = "dialing" /\ touch'[t].key = key /\ touch'[t].plan = touch[t].plan
      BY <1>1, <3>1 DEF Touch
    <3> QED
      BY <1>1, <3>2, <3>3, <3>4 DEF Live
  <2>2. /\ pc'[p] = "send" /\ mem'[p].key = key /\ mem'[p].touch = t /\ mem'[p].answer = mem[p].answer
    <3>1. pc'[p] = "send" /\ mem'[p] = [mem[p] EXCEPT !.key = key, !.tries = T(p).tries + 1]
      BY <1>2, GotoStep
    <3> QED
      BY <1>1, <3>1 DEF PacerMem
  <2>3. key # 0 /\ Nobody(key)
    <3>1. CASE mint
      BY <1>1, <3>1, KeysType, NobodyAtZero
    <3>2. CASE ~mint
      BY <1>1, <2>1, <3>2 DEF TickInv, TickKey
    <3> QED
      BY <3>1, <3>2
  <2>4. Nobody(mem[p].key)'
    <3>1. \A k : mem'[p].key = k => (Nobody(mem[p].key)' <=> Nobody(k))
      BY <1>1, SameHandlers DEF Nobody, AtWork, Key
    <3> QED
      BY <2>2, <2>3, <3>1
  <2>5. TickInv(p)'
    BY <1>1, <2>1, <2>2, <2>3, <2>4 DEF TickInv, TickTouch, TickKey, TickAnswer, T
  <2>6. Keeps(t) \/ Mints(t)
    BY <1>1, <1>2, <2>1 DEF Keeps, Mints
  <2>7. BoardMoves
    <3>1. TouchMoves
      BY <1>1, <1>2, <2>6, OneTouchMoves
    <3>2. mint => Mints(t)
      BY <1>1, <1>2, <2>1 DEF Mints
    <3> QED
      BY <1>1, <1>2, <3>1, <3>2 DEF BoardMoves
  <2> QED
    BY <1>1, <2>5, <2>7, TickGoes
<1>3. CASE Goto(p, "refused", mem[p]) /\ UNCHANGED <<touch, keys>>
  <2>1. UNCHANGED board
    BY <1>1, <1>3 DEF board
  <2> QED
    BY <1>1, <1>3, <2>1, TickKeepsOn
<1>4. CASE Claimable(t) /\ Set(t, [T(p) EXCEPT !.due = FALSE]) /\ keys' = keys /\ Goto(p, "idle", NoMem)
  <2>1. Later(t) /\ Live(t)
    BY <1>1, <1>4 DEF Later, Claimable, Live
  <2> QED
    BY <1>1, <1>4, <2>1, LaterMoves, TickEnds DEF BoardMoves
<1> QED
  BY <1>2, <1>3, <1>4 DEF Claim

LEMMA RefusedOwn ==
  ASSUME TriggerAssumption, OneTick, Inv, OwnInv, NEW p \in Pacers, Refused(p)
  PROVE  OwnInv'
<1> DEFINE t == mem[p].touch
           planned == T(p).st = "planned"
<1>1. /\ UNCHANGED keys /\ UNCHANGED <<handler, store>> /\ t \in Touches /\ T(p) = touch[t]
      /\ SearchInv /\ ToldInv /\ Goto(p, "idle", NoMem) /\ lead \in Lead
  BY Steps, Parts DEF Refused, OwnInv, BoardInv, TypeBoard
<1>2. BoardMoves
  <2>1. CASE UNCHANGED <<touch, lead, overtaken>>
    BY <1>1, <2>1, NoTouchMoves DEF BoardMoves
  <2>2. ASSUME planned, NEW l \in {lead, Reopened(t)}, SkipUnlessPlaced(t, l) PROVE BoardMoves
    <3>1. lead.st = "ended" => l.st = "ended"
      BY <1>1 DEF Reopened, Called, Lead
    <3> QED
      BY <1>1, <2>2, <3>1, SkipUnlessPlacedMoves DEF BoardMoves, Live
  <2>3. CASE Claimable(t) /\ Later(t)
    BY <1>1, <2>3, LaterMoves DEF BoardMoves, Claimable, Live
  <2> QED
    BY <2>1, <2>2, <2>3 DEF Refused
<1> QED
  BY <1>1, <1>2, TickEnds

LEMMA GiveUpOwn ==
  ASSUME TriggerAssumption, OneTick, Inv, OwnInv, NEW p \in Pacers, GiveUp(p)
  PROVE  OwnInv'
<1>1. UNCHANGED board /\ UNCHANGED <<handler, store>> /\ touch' = touch /\ TickInv(p) /\ pc[p] = "wait"
  BY DEF GiveUp, board, OwnInv, TicksInv
<1>2. pc'[p] = "apply" /\ mem'[p].touch = mem[p].touch /\ mem'[p].key = mem[p].key /\ mem'[p].answer = mem[p].answer
  <2>1. pc'[p] = "apply" /\ mem'[p] = [mem[p] EXCEPT !.h = AnyHandler]
    BY GotoStep DEF GiveUp
  <2> QED
    BY <2>1, Steps DEF PacerMem
<1>3. TickInv(p)'
  BY <1>1, <1>2 DEF TickInv, TickTouch, TickKey, TickAnswer, T
<1> QED
  BY <1>1, <1>3, SameBoardMoves, TickGoes

LEMMA ResolveOwn ==
  ASSUME TriggerAssumption, OneTick, Inv, OwnInv, NEW p \in Pacers, Resolve(p)
  PROVE  OwnInv'
<1> DEFINE k == mem[p].key
<1>1. /\ UNCHANGED board /\ UNCHANGED <<handler, store>> /\ touch' = touch /\ keys' = keys /\ overtaken' = overtaken
      /\ TickInv(p) /\ pc[p] = "resolve" /\ SearchInv /\ ToldInv /\ k \in KeyIds
  BY Parts DEF Resolve, board, OwnInv, BoardInv, TicksInv, PacersInv
<1>2. pc'[p] = "apply" /\ mem'[p].touch = mem[p].touch /\ mem'[p].key = k /\ mem'[p].answer = Resolved(k) /\ mem'[p].call = ResolvedCall(k)
  <2>1. pc'[p] = "apply" /\ mem'[p] = [mem[p] EXCEPT !.answer = Resolved(k), !.call = ResolvedCall(k)]
    BY GotoStep DEF Resolve
  <2> QED
    BY <2>1, Steps DEF PacerMem
<1>3. Nobody(mem[p].key)'
  <2>1. Nobody(k)
    BY <1>1 DEF TickInv, TickKey
  <2> QED
    BY <1>1, <1>2, <2>1, SameHandlers DEF Nobody, AtWork, Key
<1>4. ASSUME mem'[p].answer = "placed" PROVE GoodFor(mem[p].key, mem[p].call)'
  <2>1. GoodFor(k, ResolvedCall(k))
    BY <1>1, <1>2, <1>4, PlacedKey
  <2> QED
    BY <1>1, <1>2, <2>1, SameHandlers DEF GoodFor, Good, Plan, Holds, Live
<1>5. TickInv(p)'
  BY <1>1, <1>2, <1>3, <1>4 DEF TickInv, TickTouch, TickKey, TickAnswer, T
<1> QED
  BY <1>1, <1>5, SameBoardMoves, TickGoes

LEMMA PacerCrashOwn ==
  ASSUME TriggerAssumption, OneTick, Inv, OwnInv, NEW p \in Pacers, PacerCrash(p)
  PROVE  OwnInv'
<1>1. UNCHANGED board /\ UNCHANGED <<handler, store>> /\ Goto(p, "idle", NoMem)
  BY DEF PacerCrash
<1> QED
  BY <1>1, SameBoardMoves, TickEnds

\* What an answer makes of the touch that waits for it.
LEMMA SettledMoves ==
  ASSUME Inv, NEW p \in Pacers, TickInv(p), pc[p] = "apply", touch'[mem[p].touch] = Settled(p)
  PROVE  Keeps(mem[p].touch) \/ Leaves(mem[p].touch)
<1> DEFINE m == mem[p]
           t == m.touch
           kept == IF m.answer \in KeepsKey THEN T(p).key ELSE 0
           tries == IF m.answer \in Refunded /\ T(p).tries > 0 THEN T(p).tries - 1 ELSE T(p).tries
<1>1. t \in Touches /\ T(p) = touch[t] /\ T(p) \in Touch
  BY Steps
<1>2. T(p).st = "dialing" /\ T(p).key = m.key /\ m.key # 0 /\ Live(t)
  BY <1>1 DEF TickInv, TickTouch, Live
<1>3. m.answer # "transport" => ~Coming(touch[t].key)
  BY <1>1, <1>2, NobodyComes DEF TickInv, TickKey
<1>4. CASE m.answer = "placed"
  <2>1. touch'[t] = Sent(t, m.call)
    BY <1>4 DEF Settled, GaveUp
  <2>2. GoodFor(touch[t].key, m.call)
    BY <1>1, <1>2, <1>4 DEF TickInv, TickAnswer
  <2>3. Leaves(t)
    BY <1>1, <1>2, <1>3, <1>4, <2>1, <2>2, SentMoves
  <2> QED
    BY <2>3
<1>5. CASE m.answer # "placed" /\ (m.answer = "final" \/ GaveUp(p))
  <2>1. touch'[t] = [T(p) EXCEPT !.st = "failed", !.key = 0, !.young = FALSE]
    BY <1>5 DEF Settled
  <2>2. touch'[t].st = "failed" /\ touch'[t].key = 0 /\ touch'[t].plan = touch[t].plan
    BY <1>1, <2>1 DEF Touch
  <2>3. m.answer # "transport"
    BY <1>5 DEF GaveUp, Refunded
  <2> QED
    BY <1>2, <1>3, <2>2, <2>3 DEF Leaves
<1>6. CASE m.answer # "placed" /\ ~(m.answer = "final" \/ GaveUp(p))
  <2>1. touch'[t] = [T(p) EXCEPT !.st = "planned", !.key = kept, !.tries = tries, !.due = FALSE]
    BY <1>6 DEF Settled
  <2>2. touch'[t].st = "planned" /\ touch'[t].key = kept /\ touch'[t].plan = touch[t].plan /\ ~touch'[t].due
    BY <1>1, <2>1 DEF Touch
  <2>3. CASE m.answer \in KeepsKey
    BY <1>1, <1>2, <2>2, <2>3 DEF Keeps
  <2>4. CASE m.answer \notin KeepsKey
    <3>1. m.answer # "transport"
      BY <2>4 DEF KeepsKey
    <3> QED
      BY <1>2, <1>3, <2>2, <2>4, <3>1 DEF Leaves
  <2> QED
    BY <2>3, <2>4
<1> QED
  BY <1>4, <1>5, <1>6

LEMMA ApplyOwn ==
  ASSUME TriggerAssumption, OneTick, Inv, OwnInv, NEW p \in Pacers, Apply(p)
  PROVE  OwnInv'
<1> DEFINE t == mem[p].touch
<1>1. /\ UNCHANGED keys /\ UNCHANGED <<handler, store>> /\ t \in Touches /\ T(p) = touch[t] /\ TickInv(p) /\ pc[p] = "apply"
      /\ T(p).st = "dialing"
  BY Steps DEF Apply, OwnInv, TicksInv, TickInv, TickTouch
<1>2. CASE mem[p].answer = "park"
  <2>1. Parked(t) /\ Goto(p, "idle", NoMem)
    BY <1>2 DEF Apply
  <2>2. Nobody(touch[t].key)
    BY <1>1, <1>2 DEF TickInv, TickTouch, TickKey
  <2>3. BoardMoves
    BY <1>1, <2>1, <2>2, ParkedMoves DEF BoardMoves
  <2> QED
    BY <1>1, <2>1, <2>3, TickEnds
<1>3. CASE mem[p].answer # "park"
  <2>1. Set(t, Settled(p)) /\ UNCHANGED lead
    BY <1>1, <1>3 DEF Apply
  <2>2. touch'[t] = Settled(p)
    BY <1>1, <2>1, SetTouch
  <2>3. TouchMoves
    BY <1>1, <2>1, <2>2, SettledMoves, OneTouchMoves
  <2>4. overtaken \subseteq overtaken'
    BY <1>1, <1>3, DroppedMoves DEF Apply
  <2>5. BoardMoves
    BY <1>1, <2>1, <2>3, <2>4 DEF BoardMoves
  <2>6. Goto(p, "finish", mem[p]) \/ Goto(p, "idle", NoMem)
    BY <1>3 DEF Apply
  <2> QED
    BY <1>1, <2>5, <2>6, TickEnds
<1> QED
  BY <1>2, <1>3

LEMMA FinishOwn ==
  ASSUME TriggerAssumption, OneTick, Inv, OwnInv, NEW p \in Pacers, Finish(p)
  PROVE  OwnInv'
<1>1. BoardMoves /\ UNCHANGED <<handler, store>> /\ Goto(p, "idle", NoMem)
  BY FinishedMoves DEF Finish, BoardMoves
<1> QED
  BY <1>1, TickEnds

LEMMA ReapOwn ==
  ASSUME TriggerAssumption, OneTick, Inv, OwnInv, NEW p \in Pacers, NEW t \in Touches, Reap(p, t)
  PROVE  OwnInv'
<1>1. /\ UNCHANGED <<lead, keys, overtaken, pacer>> /\ UNCHANGED <<handler, store>> /\ pc'[p] = "idle" /\ Live(t)
      /\ touch[t] \in Touch /\ touch[t].st = "dialing"
  BY Parts DEF Reap, pacer, Live, TypeBoard
<1>2. CASE lead.st = "ended"
  <2>1. Set(t, Skipped(t)) /\ lead'.st = "ended"
    BY <1>1, <1>2 DEF Reap
  <2>2. Leaves(t)
    BY <1>1, <2>1, SetTouch, SkipMoves
  <2>3. BoardMoves
    BY <1>1, <2>1, <2>2, OneTouchMoves DEF BoardMoves
  <2> QED
    BY <1>1, <2>3, TickRests, BoardStepOwn
<1>3. CASE lead.st # "ended"
  <2>1. Set(t, [touch[t] EXCEPT !.st = "planned", !.due = FALSE, !.young = FALSE])
    BY <1>3 DEF Reap
  <2>2. touch'[t] = [touch[t] EXCEPT !.st = "planned", !.due = FALSE, !.young = FALSE]
    BY <2>1, SetTouch
  <2>3. Keeps(t)
    BY <1>1, <2>2 DEF Keeps, Touch
  <2>4. BoardMoves
    BY <1>1, <2>1, <2>3, OneTouchMoves DEF BoardMoves
  <2> QED
    BY <1>1, <2>4, TickRests, BoardStepOwn
<1> QED
  BY <1>2, <1>3

-----------------------------------------------------------------------------
(* People and time.                                                        *)

LEMMA SameTouchWaits ==
  ASSUME touch' = touch
  PROVE  TouchMoves /\ \A t \in Touches : Waits(t)
BY NoTouchMoves DEF Waits

LEMMA HoldMoves ==
  ASSUME Inv, SearchInv, ToldInv, Hold, NEW t \in Touches
  PROVE  (Keeps(t) \/ Leaves(t)) /\ Waits(t)
<1>1. touch'[t] = HeldTouch(t) /\ touch[t] \in Touch
  BY Parts DEF Hold, TypeBoard
<1>2. CASE touch[t].st # "planned" \/ Pending(t)
  <2>1. touch'[t] = touch[t]
    BY <1>1, <1>2 DEF HeldTouch
  <2> QED
    BY <2>1 DEF Keeps, Waits, Live
<1>3. CASE touch[t].st = "planned" /\ ~Pending(t) /\ Placed(t)
  <2>1. touch'[t] = Sent(t, ResolvedCall(touch[t].key))
    BY <1>1, <1>3 DEF HeldTouch
  <2>2. touch[t].key \in KeyIds /\ touch[t].key # 0 /\ Resolved(touch[t].key) = "placed"
    BY <1>3, Parts, TouchTypes DEF Placed
  <2>3. Leaves(t)
    BY <1>3, <2>1, <2>2, PlacedKey, SentMoves DEF Live
  <2>4. touch'[t].st = "sent"
    BY <1>1, <2>1 DEF Sent, Touch
  <2> QED
    BY <1>3, <2>3, <2>4 DEF Waits
<1>4. CASE touch[t].st = "planned" /\ ~Pending(t) /\ ~Placed(t)
  <2>1. touch'[t] = Skipped(t) /\ HeldTouch(t) = Skipped(t)
    BY <1>1, <1>4 DEF HeldTouch
  <2>2. touch'[t].st = "skipped" /\ HeldTouch(t).st = "skipped"
    BY <1>1, <2>1 DEF Skipped, Touch
  <2>3. touch[t].key = 0 \/ ~Coming(touch[t].key) \/ touch[t].key \in overtaken'
    <3>1. ~touch[t].young /\ OnItsWay(touch[t].key) => touch[t].key \in overtaken'
      BY <1>4, <2>2 DEF Hold, Dropped
    <3> QED
      BY <1>4, <3>1, FreeKey DEF Free
  <2>4. Leaves(t)
    BY <1>4, <2>1, <2>3, SkipMoves DEF Live
  <2> QED
    BY <1>4, <2>2, <2>4 DEF Waits
<1> QED
  BY <1>2, <1>3, <1>4

LEMMA DecideOwn ==
  ASSUME TriggerAssumption, Inv, OwnInv, Decide
  PROVE  OwnInv'
<1>1. UNCHANGED <<keys, pacer, handler, store>> /\ SearchInv /\ ToldInv /\ lead \in Lead
  BY Parts DEF Decide, Decision, OwnInv, BoardInv, TypeBoard
<1>2. CASE Hold
  <2>1. lead'.st = lead.st \/ lead.st # "ended"
    BY <1>2 DEF Hold
  <2>2. overtaken \subseteq overtaken'
    BY <1>2 DEF Hold, Dropped
  <2>3. BoardMoves
    BY <1>1, <1>2, <2>1, <2>2, HoldMoves DEF BoardMoves, TouchMoves
  <2> QED
    BY <1>1, <1>2, <2>3, HoldMoves, TickStays
<1>3. CASE Dismiss \/ Edit \/ Approve
  <2>1. touch' = touch /\ overtaken' = overtaken /\ (lead.st = "ended" => lead'.st = "ended")
    BY <1>1, <1>3 DEF Dismiss, Edit, Approve, Called
  <2> QED
    BY <1>1, <2>1, SameTouchWaits, TickStays DEF BoardMoves
<1>4. CASE Exit
  <2>1. BoardMoves
    BY <1>1, <1>4, FinishedMoves DEF BoardMoves, Exit
  <2>2. ASSUME NEW t \in Touches PROVE Waits(t)
    <3>1. touch'[t] = IF touch[t].st = "planned" THEN Skipped(t) ELSE touch[t]
      BY <1>4, Parts DEF Exit, Finished, TypeBoard
    <3>2. Skipped(t).st = "skipped"
      BY Parts DEF Skipped, TypeBoard, Touch
    <3> QED
      BY <3>1, <3>2 DEF Waits
  <2> QED
    BY <1>1, <2>1, <2>2, TickStays
<1>5. ASSUME NEW t \in Touches, Release(t) PROVE OwnInv'
  <2>1. Starts(t) /\ overtaken' = overtaken /\ lead.st = "active"
    BY <1>5 DEF Release, Starts, Called, Set
  <2>2. ASSUME NEW u \in Touches PROVE (Keeps(u) \/ Starts(u)) /\ Waits(u)
    <3>1. CASE u = t
      BY <2>1, <3>1 DEF Waits, Starts
    <3>2. CASE u # t
      <4>1. touch'[u] = touch[u]
        BY <2>1, <3>2, Parts DEF Starts, TypeBoard
      <4> QED
        BY <4>1 DEF Waits, Keeps, Live
    <3> QED
      BY <3>1, <3>2
  <2>3. BoardMoves
    BY <1>1, <2>1, <2>2 DEF BoardMoves, TouchMoves
  <2> QED
    BY <1>1, <2>2, <2>3, TickStays
<1> QED
  BY <1>2, <1>3, <1>4, <1>5 DEF Decide, Decision

LEMMA TouchTimeOwn ==
  ASSUME TriggerAssumption, Inv, OwnInv, NEW t \in Touches, Aged(t) \/ Due(t)
  PROVE  OwnInv'
<1>1. UNCHANGED <<lead, keys, overtaken>> /\ UNCHANGED <<pacer, handler, store>> /\ ~OnItsWay(touch[t].key)
  BY DEF Aged, Due, TouchTime
<1>2. PICK new \in {[touch[t] EXCEPT !.young = FALSE], [touch[t] EXCEPT !.due = TRUE]} : Set(t, new) /\ touch[t].st \in {"planned", "dialing"}
  BY DEF Aged, Due, TouchTime
<1>3. touch'[t] = new /\ touch[t] \in Touch
  BY <1>2, SetTouch
<1>4. touch'[t].st = touch[t].st /\ touch'[t].key = touch[t].key /\ touch'[t].plan = touch[t].plan
  BY <1>2, <1>3 DEF Touch
<1>5. Keeps(t)
  BY <1>1, <1>2, <1>4 DEF Keeps, Live
<1>6. BoardMoves
  BY <1>1, <1>2, <1>5, OneTouchMoves DEF BoardMoves
<1>7. ASSUME NEW u \in Touches PROVE Waits(u)
  <2>1. CASE u = t
    BY <1>4, <2>1 DEF Waits
  <2>2. CASE u # t
    <3>1. touch'[u] = touch[u]
      BY <1>2, <2>2, Parts DEF Set, TypeBoard
    <3> QED
      BY <3>1 DEF Waits
  <2> QED
    BY <2>1, <2>2
<1> QED
  BY <1>1, <1>6, <1>7, TickStays

-----------------------------------------------------------------------------
(* What a handler may write, and tell the tick that waits for it.          *)

\* What it may write under its key.
Writes(h, k) ==
  /\ \A q \in KeyIds : q # k => request'[q] = request[q]
  /\ request[k].st # "none" => request'[k].st # "none" /\ request'[k].since = request[k].since
  /\ request[k].st = "none" => request'[k] = request[k] \/ CallsSince(k)' = {}
  /\ \A i \in DOMAIN calls : i \in DOMAIN calls' /\ calls'[i].key = calls[i].key
  /\ \A i \in DOMAIN calls' : i \in DOMAIN calls \/ (calls'[i].key = k /\ hpc[h] \in Inserting)
  /\ Blank(k)' => Blank(k)
  /\ Naming(k)' => GoodFor(k, request'[k].call)
\* What it knows of its key when it goes on.
GoesOn(h, s, m) ==
  /\ Go(h, s, m) /\ (s # "idle" => m.key = Key(h))
  /\ s \in {"arrive", "takeOver"} => hpc[h] \in {"arrive", "takeOver"}
  /\ s = "find" => hpc[h] \in Searching
  /\ s \in Inserting => hpc[h] \in Inserting \/ (hpc[h] \in Searching /\ Blank(Key(h)))
  /\ s \in Answering /\ m.answer = "placed" => GoodFor(Key(h), m.call)

LEMMA GoStep ==
  ASSUME Inv, NEW h \in Handlers, NEW s, NEW m, Go(h, s, m)
  PROVE  hpc'[h] = s /\ hmem'[h] = m /\ \A g \in Handlers : g # h => hpc'[g] = hpc[g] /\ hmem'[g] = hmem[g]
BY Parts DEF TypeHandlers, Go

LEMMA BlankBefore ==
  ASSUME Inv, NEW h, NEW k \in KeyIds, Writes(h, k), NEW q \in KeyIds, Blank(q)'
  PROVE  Blank(q)
<1>1. CASE q = k
  BY <1>1 DEF Writes
<1>2. CASE q # k
  <2>1. request'[q] = request[q]
    BY <1>2 DEF Writes
  <2>2. CallsSince(q) \subseteq CallsSince(q)'
    BY <2>1 DEF Writes, CallsSince
  <2> QED
    BY <2>1, <2>2 DEF Blank
<1> QED
  BY <1>1, <1>2

LEMMA HandlerStores ==
  ASSUME TriggerAssumption, Inv, KeysInv, UNCHANGED board, NEW h \in Handlers, hpc[h] # "idle",
         NEW k, Key(h) = k, Writes(h, k), NEW s, NEW m, GoesOn(h, s, m)
  PROVE  StoreMoves
<1>1. /\ hpc'[h] = s /\ hmem'[h] = m /\ (s # "idle" => m.key = k)
      /\ \A g \in Handlers : g # h => hpc'[g] = hpc[g] /\ hmem'[g] = hmem[g]
  BY GoStep DEF GoesOn
<1>2. k \in DOMAIN keys /\ k \in KeyIds /\ DOMAIN keys \subseteq KeyIds
  BY KeysType DEF KeysInv
<1>3. ASSUME NEW i \in DOMAIN calls', i \notin DOMAIN calls PROVE Coming(calls'[i].key)
  BY <1>3 DEF Writes, Coming
<1>4. ASSUME NEW q \in DOMAIN keys, Coming(q)' PROVE Coming(q)
  <2>1. CASE q = k /\ s \in Inserting
    BY <2>1 DEF GoesOn, Coming
  <2>2. ASSUME NEW g \in Handlers, g # h, hpc'[g] \in Inserting, hmem'[g].key = q PROVE Coming(q)
    BY <1>1, <2>2 DEF Coming, Key
  <2>3. ASSUME Blank(q)', NEW g \in Handlers, hpc'[g] \in Searching, hmem'[g].key = q PROVE Coming(q)
    <3>1. Blank(q)
      BY <1>2, <2>3, BlankBefore
    <3>2. CASE g # h
      BY <1>1, <2>3, <3>1, <3>2 DEF Coming, Key
    <3>3. CASE g = h
      <4>1. hpc[h] \in Searching /\ q = k
        BY <1>1, <2>3, <3>3 DEF GoesOn, Searching
      <4> QED
        BY <3>1, <4>1 DEF Coming
    <3> QED
      BY <3>2, <3>3
  <2>4. ASSUME hpc'[h] \in Inserting, hmem'[h].key = q PROVE q = k /\ s \in Inserting
    BY <1>1, <2>4 DEF Inserting
  <2> QED
    BY <1>4, <2>1, <2>2, <2>3, <2>4 DEF Coming, Key
<1>5. ASSUME NEW q \in DOMAIN keys, OnItsWay(q)' PROVE OnItsWay(q)
  <2>1. PICK g \in Handlers : hpc'[g] \in {"arrive", "takeOver"} /\ hmem'[g].key = q
    BY <1>5 DEF OnItsWay
  <2>2. hpc[g] \in {"arrive", "takeOver"} /\ hmem[g].key = q
    BY <1>1, <2>1 DEF GoesOn, Key
  <2> QED
    BY <2>2 DEF OnItsWay
<1>6. ASSUME NEW q \in KeyIds, request[q].st # "none"
      PROVE  request'[q].st # "none" /\ request'[q].since = request[q].since
  BY <1>6 DEF Writes
<1>7. ASSUME NEW q \in KeyIds, request[q].st = "none", request'[q].st # "none" PROVE q \in DOMAIN keys /\ CallsSince(q)' = {}
  <2>1. q = k
    BY <1>7 DEF Writes
  <2> QED
    BY <1>2, <1>7, <2>1 DEF Writes
<1>8. ASSUME NEW g \in Handlers, hpc'[g] # "idle" PROVE hmem'[g].key \in DOMAIN keys
  <2>1. CASE g = h
    BY <1>1, <1>2, <1>8, <2>1
  <2>2. CASE g # h
    BY <1>1, <1>8, <2>2 DEF KeysInv, Key
  <2> QED
    BY <2>1, <2>2
<1> QED
  BY <1>3, <1>4, <1>5, <1>6, <1>7, <1>8 DEF StoreMoves, Writes

LEMMA HandlerTells ==
  ASSUME TriggerAssumption, Inv, KeysInv, ToldInv, UNCHANGED board, NEW h \in Handlers, hpc[h] # "idle",
         NEW k, Key(h) = k, Writes(h, k), NEW s, NEW m, GoesOn(h, s, m)
  PROVE  ToldInv'
<1>1. /\ hpc'[h] = s /\ hmem'[h] = m /\ (s # "idle" => m.key = k)
      /\ \A g \in Handlers : g # h => hpc'[g] = hpc[g] /\ hmem'[g] = hmem[g]
  BY GoStep DEF GoesOn
<1>2. k \in DOMAIN keys
  BY DEF KeysInv
<1>3. \A q \in DOMAIN keys : \A i : GoodFor(q, i) => GoodFor(q, i)'
  BY HandlerStores, SameBoardMoves, GoodStays
<1>4. ASSUME NEW g \in Handlers, hpc'[g] \in Answering, hmem'[g].answer = "placed" PROVE GoodFor(hmem[g].key, hmem[g].call)'
  <2>1. CASE g = h
    <3>1. m.key = k /\ GoodFor(k, m.call)
      BY <1>1, <1>4, <2>1 DEF GoesOn, Answering
    <3>2. \A q, i : hmem'[g].key = q /\ hmem'[g].call = i => (GoodFor(hmem[g].key, hmem[g].call)' <=> GoodFor(q, i)')
      BY DEF GoodFor, Good, Plan, Holds, Live
    <3> QED
      BY <1>1, <1>2, <1>3, <2>1, <3>1, <3>2
  <2>2. CASE g # h
    <3>1. Key(g) \in DOMAIN keys /\ GoodFor(Key(g), hmem[g].call) /\ hmem'[g] = hmem[g]
      BY <1>1, <1>4, <2>2 DEF KeysInv, ToldInv, ToldBy, Answering
    <3>2. \A q, i : hmem'[g].key = q /\ hmem'[g].call = i => (GoodFor(hmem[g].key, hmem[g].call)' <=> GoodFor(q, i)')
      BY DEF GoodFor, Good, Plan, Holds, Live
    <3> QED
      BY <1>3, <3>1, <3>2 DEF Key
  <2> QED
    BY <2>1, <2>2
<1>5. ASSUME NEW q \in KeyIds, Naming(q)' PROVE GoodFor(q, request[q].call)'
  <2>1. GoodFor(q, request'[q].call) /\ q \in DOMAIN keys
    <3>1. CASE q = k
      BY <1>2, <1>5, <3>1 DEF Writes
    <3>2. CASE q # k
      <4>1. request'[q] = request[q]
        BY <3>2 DEF Writes
      <4> QED
        BY <1>5, <4>1 DEF Naming, ToldInv, ToldUnder, KeysInv
    <3> QED
      BY <3>1, <3>2
  <2>2. \A i : request'[q].call = i => (GoodFor(q, request[q].call)' <=> GoodFor(q, i)')
    BY DEF GoodFor, Good, Plan, Holds, Live
  <2> QED
    BY <1>3, <2>1, <2>2
<1> QED
  BY <1>4, <1>5 DEF ToldInv, ToldBy, ToldUnder, Key, KeyIds, Answering

\* The tick while a handler works.
LEMMA AtWorkStays ==
  ASSUME Inv, NEW h \in Handlers, hpc[h] # "idle", NEW s, NEW m, GoesOn(h, s, m), NEW k
  PROVE  /\ \A g \in Handlers : g # h => (AtWork(g, k)' <=> AtWork(g, k))
         /\ s # "idle" => (AtWork(h, k)' <=> AtWork(h, k))
         /\ s = "idle" => ~AtWork(h, k)'
         /\ Nobody(k) => Nobody(k)'
         /\ OnItsWay(k)' => OnItsWay(k)
<1>1. /\ hpc'[h] = s /\ hmem'[h] = m /\ (s # "idle" => m.key = Key(h))
      /\ \A g \in Handlers : g # h => hpc'[g] = hpc[g] /\ hmem'[g] = hmem[g]
  BY GoStep DEF GoesOn
<1>2. \A g \in Handlers : g # h => (AtWork(g, k)' <=> AtWork(g, k))
  BY <1>1 DEF AtWork, Key
<1>3. s # "idle" => (AtWork(h, k)' <=> AtWork(h, k))
  BY <1>1 DEF AtWork, Key
<1>4. s = "idle" => ~AtWork(h, k)'
  BY <1>1 DEF AtWork
<1>5. Nobody(k) => Nobody(k)'
  BY <1>2, <1>3, <1>4 DEF Nobody
<1>6. ASSUME OnItsWay(k)' PROVE OnItsWay(k)
  <2>1. PICK g \in Handlers : hpc'[g] \in {"arrive", "takeOver"} /\ hmem'[g].key = k
    BY <1>6 DEF OnItsWay
  <2>2. hpc[g] \in {"arrive", "takeOver"} /\ hmem[g].key = k
    BY <1>1, <2>1 DEF GoesOn, Key
  <2> QED
    BY <2>2 DEF OnItsWay
<1> QED
  BY <1>2, <1>3, <1>4, <1>5, <1>6

LEMMA TickAside ==
  ASSUME TriggerAssumption, Inv, OwnInv, UNCHANGED board, NEW h \in Handlers, hpc[h] # "idle",
         NEW k, Key(h) = k, Writes(h, k), NEW s, NEW m, GoesOn(h, s, m),
         NEW p \in Pacers, pc'[p] = pc[p], mem'[p] = mem[p], s = "idle" => pc[p] # "wait" \/ mem[p].h # h
  PROVE  TickInv(p)'
<1> SUFFICES ASSUME NEW q, mem[p].key = q, NEW c, mem[p].call = c
             PROVE  TickInv(p)'
  OBVIOUS
<1>1. TickInv(p) /\ KeysInv /\ mem'[p].key = q /\ mem'[p].call = c
  BY DEF OwnInv, BoardInv, TicksInv
<1>2. touch' = touch /\ T(p)' = T(p)
  BY DEF board, T
<1>3. /\ Nobody(q) => Nobody(q)'
      /\ OnItsWay(q)' => OnItsWay(q)
      /\ \A g \in Handlers : g # h => (AtWork(g, q)' <=> AtWork(g, q))
      /\ s # "idle" => (AtWork(h, q)' <=> AtWork(h, q))
      /\ s = "idle" => ~AtWork(h, q)'
  BY AtWorkStays
<1>4. /\ Nobody(mem[p].key)' <=> Nobody(q)'
      /\ OnItsWay(mem[p].key)' <=> OnItsWay(q)'
      /\ GoodFor(mem[p].key, mem[p].call)' <=> GoodFor(q, c)'
      /\ \A g : AtWork(g, mem[p].key)' <=> AtWork(g, q)'
  BY <1>1 DEF Nobody, OnItsWay, AtWork, GoodFor, Good, Plan, Holds, Live
<1>5. TickTouch(p)'
  BY <1>1, <1>2 DEF TickInv, TickTouch
<1>6. TickKey(p)'
  <2>1. pc[p] = "wait" => \A g \in Handlers : AtWork(g, q)' <=> g = mem[p].h
    BY <1>1, <1>3 DEF TickInv, TickKey
  <2> QED
    BY <1>1, <1>2, <1>3, <1>4, <2>1 DEF TickInv, TickKey
<1>7. TickAnswer(p)'
  <2>1. ASSUME pc[p] = "apply", mem[p].answer = "placed" PROVE GoodFor(q, c)'
    <3>1. GoodFor(q, c) /\ T(p).key = q /\ q # 0
      BY <1>1, <2>1 DEF TickInv, TickAnswer, TickTouch
    <3>2. q \in DOMAIN keys
      BY <1>1, <3>1, Steps DEF KeysInv
    <3> QED
      BY <1>1, <3>1, <3>2, HandlerStores, SameBoardMoves, GoodStays
  <2> QED
    BY <1>1, <1>4, <2>1 DEF TickInv, TickAnswer
<1> QED
  BY <1>5, <1>6, <1>7 DEF TickInv

LEMMA HandlerOwn ==
  ASSUME TriggerAssumption, Inv, OwnInv, UNCHANGED board, NEW h \in Handlers, hpc[h] # "idle",
         NEW k, Key(h) = k, Writes(h, k), NEW s, NEW m, GoesOn(h, s, m), TicksInv'
  PROVE  OwnInv'
<1>1. BoardInv /\ KeysInv /\ ToldInv
  BY DEF OwnInv, BoardInv
<1> QED
  BY <1>1, SameBoardMoves, HandlerStores, HandlerTells, BoardInvStays DEF OwnInv

\* A handler goes on.
LEMMA HandlerGoesOwn ==
  ASSUME TriggerAssumption, Inv, OwnInv, UNCHANGED board, UNCHANGED pacer, NEW h \in Handlers, hpc[h] # "idle",
         NEW k, Key(h) = k, Writes(h, k), NEW s, NEW m, GoesOn(h, s, m), s # "idle"
  PROVE  OwnInv'
<1>1. pc' = pc /\ mem' = mem
  BY DEF pacer
<1>2. \A p \in Pacers : TickInv(p)'
  BY <1>1, TickAside
<1>3. TicksInv'
  BY <1>2 DEF TicksInv
<1> QED
  BY <1>3, HandlerOwn

\* A handler ends with an answer that names a good call or none.
LEMMA ReplyGoes ==
  ASSUME Inv, NEW h \in Handlers, NEW a, NEW c, Reply(h, a, c), NEW p \in Pacers
  PROVE  IF pc[p] = "wait" /\ mem[p].h = h
         THEN /\ pc'[p] = IF a = "conflict" THEN "resolve" ELSE "apply"
              /\ mem'[p].touch = mem[p].touch /\ mem'[p].key = mem[p].key /\ mem'[p].answer = a /\ mem'[p].call = c
         ELSE pc'[p] = pc[p] /\ mem'[p] = mem[p]
<1>1. mem[p] \in PacerMem
  BY Parts, PacerTypes
<1>2. pc[p] = "wait" /\ mem[p].h = h => mem'[p] = [mem[p] EXCEPT !.h = AnyHandler, !.answer = a, !.call = c]
  BY DEF Reply
<1> QED
  BY <1>1, <1>2 DEF Reply, PacerMem

LEMMA HandlerEndsOwn ==
  ASSUME TriggerAssumption, Inv, OwnInv, UNCHANGED board, NEW h \in Handlers, hpc[h] # "idle",
         NEW k, Key(h) = k, Writes(h, k), NEW a, NEW c, Reply(h, a, c), a = "placed" => GoodFor(k, c)
  PROVE  OwnInv'
<1>1. Go(h, "idle", NoTrigger)
  BY DEF Reply
<1>2. GoesOn(h, "idle", NoTrigger)
  BY <1>1 DEF GoesOn, Inserting, Answering
<1>3. ASSUME NEW p \in Pacers PROVE TickInv(p)'
  <2>1. CASE ~(pc[p] = "wait" /\ mem[p].h = h)
    BY <1>2, <2>1, ReplyGoes, TickAside
  <2>2. CASE pc[p] = "wait" /\ mem[p].h = h
    <3>1. pc'[p] \in {"resolve", "apply"} /\ mem'[p].touch = mem[p].touch /\ mem'[p].key = mem[p].key /\ mem'[p].answer = a /\ mem'[p].call = c
      BY <2>2, ReplyGoes
    <3>2. TickInv(p) /\ KeysInv /\ touch' = touch
      BY DEF OwnInv, BoardInv, TicksInv, board
    <3>3. mem[p].key = k /\ \A g \in Handlers : AtWork(g, k) <=> g = h
      BY <2>2, <3>2 DEF TickInv, TickKey, AtWork
    <3>4. Nobody(k)'
      BY <1>2, <3>3, AtWorkStays DEF Nobody
    <3>5. a = "placed" => GoodFor(k, c)'
      BY <1>2, <3>2, HandlerStores, SameBoardMoves, GoodStays DEF KeysInv
    <3>6. (Nobody(mem[p].key)' <=> Nobody(k)') /\ (GoodFor(mem[p].key, mem[p].call)' <=> GoodFor(k, c)')
      BY <3>1, <3>3 DEF Nobody, AtWork, GoodFor, Good, Plan, Holds, Live
    <3>7. T(p)'.st = "dialing" /\ T(p)'.key = mem[p].key /\ mem[p].key # 0
      BY <2>2, <3>1, <3>2 DEF TickInv, TickTouch, T
    <3> QED
      BY <3>1, <3>4, <3>5, <3>6, <3>7 DEF TickInv, TickTouch, TickKey, TickAnswer
  <2> QED
    BY <2>1, <2>2
<1>4. TicksInv'
  BY <1>3 DEF TicksInv
<1> QED
  BY <1>2, <1>4, HandlerOwn

\* What a handler writes, if anything.
LEMMA MarksWrite ==
  ASSUME Inv, OwnInv, NEW h, NEW k \in KeyIds, request' = request,
         \A i \in DOMAIN calls : i \in DOMAIN calls' /\ calls'[i].key = calls[i].key,
         \A i \in DOMAIN calls' : i \in DOMAIN calls \/ (calls'[i].key = k /\ hpc[h] \in Inserting)
  PROVE  Writes(h, k)
<1>1. CallsSince(k) \subseteq CallsSince(k)'
  BY DEF CallsSince
<1>2. Blank(k)' => Blank(k)
  BY <1>1 DEF Blank
<1>3. Naming(k)' => GoodFor(k, request'[k].call)
  BY DEF OwnInv, ToldInv, ToldUnder, Naming
<1> QED
  BY <1>2, <1>3 DEF Writes

LEMMA QuietWrites ==
  ASSUME Inv, OwnInv, UNCHANGED store, NEW h, NEW k \in KeyIds
  PROVE  Writes(h, k)
BY MarksWrite DEF store

LEMMA RequestWrites ==
  ASSUME Inv, OwnInv, NEW h, NEW k \in KeyIds, NEW r, request' = [request EXCEPT ![k] = r], calls' = calls,
         r.st \in {"open", "answered"}, request[k].st # "none" => r.since = request[k].since,
         request[k].st = "none" => r.since = Len(calls),
         r.st = "open" /\ r.call = 0 => request[k].st # "answered" /\ (request[k].st = "open" => request[k].call = 0),
         (r.st = "answered" /\ r.answer = "placed") \/ (r.st = "open" /\ r.call # 0) => GoodFor(k, r.call)
  PROVE  Writes(h, k)
<1>1. request'[k] = r /\ \A q \in KeyIds : q # k => request'[q] = request[q]
  BY Parts DEF TypeStore
<1>2. request[k].st = "none" => CallsSince(k)' = {}
  <2>1. DOMAIN calls = 1 .. Len(calls) /\ Len(calls) \in Nat
    BY Parts DEF TypeStore
  <2> QED
    BY <1>1, <2>1 DEF CallsSince
<1>3. Blank(k)' => Blank(k)
  <2>1. request[k].st = "open" => CallsSince(k)' = CallsSince(k)
    BY <1>1 DEF CallsSince
  <2>2. request[k].st \in {"none", "open", "answered"}
    BY Parts, RequestTypes
  <2> QED
    BY <1>1, <2>1, <2>2 DEF Blank
<1>4. Naming(k)' => GoodFor(k, request'[k].call)
  BY <1>1 DEF Naming
<1> QED
  BY <1>1, <1>2, <1>3, <1>4 DEF Writes

LEMMA CallAdds ==
  ASSUME Inv, OwnInv, NEW h, hpc[h] \in Inserting, NEW k \in KeyIds, NEW why, request' = request, calls' = Append(calls, Row(k, why))
  PROVE  Writes(h, k)
<1>1. calls \in Seq(Call) /\ Row(k, why).key = k
  BY Parts DEF TypeStore, Row
<1>2. /\ \A i \in DOMAIN calls : i \in DOMAIN calls' /\ calls'[i] = calls[i]
      /\ \A i \in DOMAIN calls' : i \in DOMAIN calls \/ calls'[i] = Row(k, why)
  <2>1. DOMAIN calls = 1 .. Len(calls) /\ Len(calls) \in Nat
    BY <1>1
  <2>2. DOMAIN calls' = 1 .. Len(calls) + 1 /\ calls'[Len(calls) + 1] = Row(k, why) /\ \A i \in 1 .. Len(calls) : calls'[i] = calls[i]
    BY <1>1
  <2>3. 1 .. Len(calls) \subseteq 1 .. Len(calls) + 1 /\ \A i \in 1 .. Len(calls) + 1 : i \in 1 .. Len(calls) \/ i = Len(calls) + 1
    BY <2>1
  <2> QED
    BY <2>1, <2>2, <2>3
<1> QED
  BY <1>1, <1>2, MarksWrite

LEMMA CallMarks ==
  ASSUME Inv, OwnInv, NEW h, NEW k \in KeyIds, request' = request, NEW i \in DOMAIN calls, NEW c, calls' = [calls EXCEPT ![i] = c],
         c.key = calls[i].key
  PROVE  Writes(h, k)
<1>1. DOMAIN calls' = DOMAIN calls /\ \A j \in DOMAIN calls : calls'[j].key = calls[j].key
  BY Parts DEF TypeStore
<1> QED
  BY <1>1, MarksWrite

\* The call of the key itself is a good one.
LEMMA OwnIsGood ==
  ASSUME TriggerAssumption, Inv, KeysInv, NEW i \in DOMAIN calls, NEW k, calls[i].key = k
  PROVE  GoodFor(k, i)
<1>1. k \in DOMAIN keys /\ 0 \notin DOMAIN keys
  BY KeysType DEF KeysInv
<1>2. ASSUME NEW t \in Touches, touch[t].key = k PROVE keys[k] = t
  BY <1>1, <1>2 DEF KeysInv
<1> QED
  BY <1>2 DEF GoodFor, Good, Holds

-----------------------------------------------------------------------------
(* Each step of a handler.                                                 *)

LEMMA ArriveOwn ==
  ASSUME TriggerAssumption, Inv, OwnInv, NEW h \in Handlers, Arrive(h)
  PROVE  OwnInv'
<1> SUFFICES ASSUME NEW k, Key(h) = k PROVE OwnInv'
  OBVIOUS
<1>1. hpc[h] = "arrive" /\ UNCHANGED board /\ k \in KeyIds /\ Req(h) = request[k]
  BY Handled DEF Arrive, Handle, Req
<1>2. CASE /\ Req(h).st = "none" /\ UNCHANGED <<pacer, calls>>
           /\ SetRequest(h, [NoRequest EXCEPT !.st = "open", !.since = Len(calls)]) /\ Go(h, "check", hmem[h])
  <2> DEFINE r == [NoRequest EXCEPT !.st = "open", !.since = Len(calls)]
  <2>1. request' = [request EXCEPT ![k] = r] /\ calls' = calls /\ request[k].st = "none"
    BY <1>1, <1>2 DEF SetRequest
  <2>2. r.st = "open" /\ r.since = Len(calls) /\ r.call = 0
    BY DEF NoRequest
  <2> HIDE DEF r
  <2>3. Writes(h, k)
    BY <1>1, <2>1, <2>2, RequestWrites
  <2>4. Blank(k)
    BY <2>1 DEF Blank
  <2>5. GoesOn(h, "check", hmem[h])
    BY <1>1, <1>2, <2>4 DEF GoesOn, Inserting, Searching, Answering, Key
  <2> QED
    BY <1>1, <1>2, <2>3, <2>5, HandlerGoesOwn
<1>3. ASSUME UNCHANGED store, NEW a, NEW c, Reply(h, a, c), a = "placed" => GoodFor(k, c) PROVE OwnInv'
  BY <1>1, <1>3, QuietWrites, HandlerEndsOwn
<1>4. CASE UNCHANGED store /\ Req(h).st = "answered" /\ Reply(h, Req(h).answer, Req(h).call)
  <2>1. request[k].answer = "placed" => GoodFor(k, request[k].call)
    BY <1>1, <1>4 DEF OwnInv, ToldInv, ToldUnder, Naming
  <2> QED
    BY <1>1, <1>3, <1>4, <2>1
<1>5. CASE UNCHANGED store /\ Req(h).st = "open" /\ Req(h).old /\ Go(h, "takeOver", hmem[h]) /\ UNCHANGED pacer
  <2>1. GoesOn(h, "takeOver", hmem[h])
    BY <1>1, <1>5 DEF GoesOn, Inserting, Answering, Key
  <2> QED
    BY <1>1, <1>5, <2>1, QuietWrites, HandlerGoesOwn
<1>6. CASE UNCHANGED store /\ (Reply(h, "conflict", 0) \/ Reply(h, "in_flight", 0) \/ Reply(h, "park", 0))
  BY <1>3, <1>6
<1> QED
  BY <1>2, <1>4, <1>5, <1>6 DEF Arrive, Handle, Reserve

LEMMA TakeOverOwn ==
  ASSUME TriggerAssumption, Inv, OwnInv, NEW h \in Handlers, TakeOver(h)
  PROVE  OwnInv'
<1> SUFFICES ASSUME NEW k, Key(h) = k PROVE OwnInv'
  OBVIOUS
<1>1. hpc[h] = "takeOver" /\ UNCHANGED board /\ k \in KeyIds /\ Req(h) = request[k] /\ request[k] \in Request
  BY Handled DEF TakeOver, Handle, Req
<1>2. CASE Req(h).st = "open" /\ Req(h).old
  <2> DEFINE r == [request[k] EXCEPT !.old = FALSE]
  <2>1. request' = [request EXCEPT ![k] = r] /\ calls' = calls /\ Go(h, "find", hmem[h]) /\ UNCHANGED pacer
    BY <1>1, <1>2 DEF TakeOver, Handle, SetRequest
  <2>2. r.st = "open" /\ request[k].st = "open" /\ r.since = request[k].since /\ r.call = request[k].call
    BY <1>1, <1>2 DEF Request
  <2>3. r.call # 0 => GoodFor(k, r.call)
    BY <1>1, <2>2 DEF OwnInv, ToldInv, ToldUnder, Naming
  <2> HIDE DEF r
  <2>4. Writes(h, k)
    BY <1>1, <2>1, <2>2, <2>3, RequestWrites
  <2>5. GoesOn(h, "find", hmem[h])
    BY <1>1, <2>1 DEF GoesOn, Inserting, Searching, Answering, Key
  <2> QED
    BY <1>1, <2>1, <2>4, <2>5, HandlerGoesOwn
<1>3. CASE ~(Req(h).st = "open" /\ Req(h).old)
  <2>1. Reply(h, "in_flight", 0) /\ UNCHANGED store
    BY <1>3 DEF TakeOver, Handle
  <2> QED
    BY <1>1, <2>1, QuietWrites, HandlerEndsOwn
<1> QED
  BY <1>2, <1>3

LEMMA FindOwn ==
  ASSUME TriggerAssumption, Inv, OwnInv, NEW h \in Handlers, Find(h)
  PROVE  OwnInv'
<1> SUFFICES ASSUME NEW k, Key(h) = k PROVE OwnInv'
  OBVIOUS
<1> DEFINE i == IF Req(h).call # 0 THEN Req(h).call ELSE Found(Key(h))
<1>1. /\ i # 0 => Go(h, "complete", [hmem[h] EXCEPT !.answer = Rebuilt(i), !.call = i])
      /\ i = 0 => Go(h, "check", hmem[h])
  BY DEF Find, Handle, Then
<1>2. /\ hpc[h] = "find" /\ UNCHANGED board /\ UNCHANGED store /\ UNCHANGED pacer /\ k \in KeyIds /\ hmem[h] \in Trigger
      /\ Req(h) = request[k]
  BY Handled DEF Find, Handle, Req
<1>3. request[k].st = "open"
  BY <1>2, Parts DEF HandlerInv, Owning
<1>4. ASSUME NEW s, NEW m, GoesOn(h, s, m), s # "idle" PROVE OwnInv'
  BY <1>2, <1>4, QuietWrites, HandlerGoesOwn
<1>5. i = IF request[k].call # 0 THEN request[k].call ELSE Found(k)
  BY <1>2
<1> HIDE DEF i
<1>6. CASE i # 0
  <2> DEFINE m == [hmem[h] EXCEPT !.answer = Rebuilt(i), !.call = i]
  <2>1. m.key = k /\ m.call = i
    BY <1>2 DEF Trigger, Key
  <2>2. GoodFor(k, i)
    <3>1. CASE request[k].call # 0
      BY <1>2, <1>3, <1>5, <3>1 DEF OwnInv, ToldInv, ToldUnder, Naming
    <3>2. CASE request[k].call = 0
      <4>1. i = Found(k) /\ CallsSince(k) # {}
        BY <1>5, <1>6, <3>2 DEF Found
      <4>2. i \in CallsSince(k)
        BY <1>2, <4>1, Parts, NewestFound
      <4> QED
        BY <1>2, <1>3, <4>2 DEF OwnInv, BoardInv, SearchInv
    <3> QED
      BY <3>1, <3>2
  <2>3. Go(h, "complete", m)
    BY <1>1, <1>6
  <2> HIDE DEF m
  <2>4. GoesOn(h, "complete", m)
    BY <2>1, <2>2, <2>3 DEF GoesOn, Inserting
  <2> QED
    BY <1>4, <2>4
<1>7. CASE i = 0
  <2>1. request[k].call = 0 /\ Found(k) = 0
    BY <1>5, <1>7
  <2>2. CallsSince(k) = {}
    BY <1>2, <2>1, Parts, FoundFacts
  <2>3. Blank(k)
    BY <1>3, <2>1, <2>2 DEF Blank
  <2>4. GoesOn(h, "check", hmem[h])
    BY <1>1, <1>2, <1>7, <2>3 DEF GoesOn, Inserting, Searching, Answering, Key
  <2> QED
    BY <1>4, <2>4
<1> QED
  BY <1>6, <1>7

LEMMA InsertOwn ==
  ASSUME TriggerAssumption, Inv, OwnInv, UNCHANGED board, NEW h \in Handlers, hpc[h] \in Inserting, NEW k \in KeyIds, Key(h) = k,
         NEW why \in Refusals \cup {"none"}, Insert(h, why)
  PROVE  OwnInv'
<1> DEFINE m == [hmem[h] EXCEPT !.answer = why, !.call = Len(calls) + 1]
<1>1. calls' = Append(calls, Row(k, why)) /\ request' = request /\ Go(h, "link", m) /\ UNCHANGED pacer /\ hpc[h] # "idle"
  BY DEF Insert, Then, Inserting
<1>2. m.key = k
  BY Parts, HandlerTypes DEF Trigger, Key
<1> HIDE DEF m
<1>3. GoesOn(h, "link", m)
  BY <1>1, <1>2 DEF GoesOn, Inserting, Answering
<1>4. Writes(h, k)
  BY <1>1, CallAdds
<1> QED
  BY <1>1, <1>3, <1>4, HandlerGoesOwn

LEMMA CheckOwn ==
  ASSUME TriggerAssumption, Inv, OwnInv, NEW h \in Handlers, Check(h)
  PROVE  OwnInv'
<1> SUFFICES ASSUME NEW k, Key(h) = k PROVE OwnInv'
  OBVIOUS
<1>1. hpc[h] = "check" /\ UNCHANGED board /\ k \in KeyIds /\ hmem[h] \in Trigger /\ hpc[h] \in Inserting
  BY Handled DEF Check, Handle, Inserting
<1>2. ASSUME NEW s, NEW m, GoesOn(h, s, m), s # "idle", UNCHANGED pacer, UNCHANGED store PROVE OwnInv'
  BY <1>1, <1>2, QuietWrites, HandlerGoesOwn
<1>3. ASSUME NEW why \in {"system", "final"}, Then(h, "complete", why, 0), UNCHANGED pacer, UNCHANGED store PROVE OwnInv'
  <2> DEFINE m == [hmem[h] EXCEPT !.answer = why, !.call = 0]
  <2>1. m.key = k /\ m.answer = why /\ Go(h, "complete", m)
    BY <1>1, <1>3 DEF Trigger, Key, Then
  <2> HIDE DEF m
  <2>2. GoesOn(h, "complete", m)
    BY <1>3, <2>1 DEF GoesOn, Inserting
  <2> QED
    BY <1>2, <1>3, <2>2
<1>4. CASE Go(h, "insert", hmem[h]) /\ UNCHANGED <<pacer, store>>
  <2>1. GoesOn(h, "insert", hmem[h])
    BY <1>1, <1>4 DEF GoesOn, Searching, Answering, Key
  <2> QED
    BY <1>2, <1>4, <2>1
<1>5. ASSUME NEW why \in Refusals, Insert(h, why) PROVE OwnInv'
  BY <1>1, <1>5, InsertOwn
<1> QED
  BY <1>3, <1>4, <1>5 DEF Check, Handle, Refuse

LEMMA InsertCallOwn ==
  ASSUME TriggerAssumption, Inv, OwnInv, NEW h \in Handlers, InsertCall(h)
  PROVE  OwnInv'
<1> SUFFICES ASSUME NEW k, Key(h) = k PROVE OwnInv'
  OBVIOUS
<1>1. hpc[h] = "insert" /\ UNCHANGED board /\ k \in KeyIds /\ Insert(h, "none")
  BY Handled DEF InsertCall, Handle
<1> QED
  BY <1>1, InsertOwn DEF Inserting

\* A handler that has a call in hand has a good one.
LEMMA InHandGood ==
  ASSUME TriggerAssumption, Inv, OwnInv, NEW h \in Handlers, hpc[h] \in Holding, NEW k, Key(h) = k
  PROVE  /\ hmem[h].call \in DOMAIN calls /\ calls[hmem[h].call].key = k /\ calls[hmem[h].call] \in Call /\ GoodFor(k, hmem[h].call)
         /\ k \in KeyIds /\ Req(h) = request[k] /\ request[k] \in Request /\ request[k].st = "open"
         /\ hpc[h] # "idle" /\ hmem[h] \in Trigger /\ hmem[h].key = k
<1>1. hpc[h] # "idle" /\ hmem[h].call \in DOMAIN calls /\ calls[hmem[h].call].key = k /\ calls[hmem[h].call] \in Call /\ Req(h).st = "open"
  BY InHand
<1>2. GoodFor(k, hmem[h].call)
  BY <1>1, OwnIsGood DEF OwnInv, BoardInv
<1>3. Req(h) = request[k] /\ hmem[h].key = k
  BY DEF Req, Key
<1> QED
  BY <1>1, <1>2, <1>3, Handled

LEMMA LinkOwn ==
  ASSUME TriggerAssumption, Inv, OwnInv, NEW h \in Handlers, Link(h)
  PROVE  OwnInv'
<1> SUFFICES ASSUME NEW k, Key(h) = k PROVE OwnInv'
  OBVIOUS
<1> DEFINE s == IF calls[hmem[h].call].why = "none" THEN "place" ELSE "complete"
           r == IF Req(h).st = "open" /\ Req(h).call = 0 THEN [Req(h) EXCEPT !.call = hmem[h].call] ELSE Req(h)
<1>1. hpc[h] = "link" /\ UNCHANGED board /\ UNCHANGED pacer /\ calls' = calls /\ Go(h, s, hmem[h])
  BY DEF Link, Handle
<1>2. /\ hmem[h].call \in DOMAIN calls /\ calls[hmem[h].call] \in Call /\ GoodFor(k, hmem[h].call)
      /\ k \in KeyIds /\ Req(h) = request[k] /\ request[k] \in Request /\ request[k].st = "open"
      /\ hpc[h] # "idle" /\ hmem[h].key = k
  BY <1>1, InHandGood DEF Holding
<1>3. hmem[h].answer = calls[hmem[h].call].why /\ calls[hmem[h].call].why \in Refusals \cup {"none"}
  BY <1>1, <1>2, Parts DEF HandlerInv, Call
<1>4. s \in {"place", "complete"} /\ hmem[h].answer # "placed"
  BY <1>3 DEF Refusals
<1> HIDE DEF s
<1>5. GoesOn(h, s, hmem[h]) /\ s # "idle"
  BY <1>1, <1>2, <1>4 DEF GoesOn, Inserting, Key
<1>6. Writes(h, k)
  <2>1. CASE UNCHANGED request
    BY <1>1, <1>2, <2>1, QuietWrites DEF store
  <2>2. CASE SetRequest(h, r)
    <3>1. request' = [request EXCEPT ![k] = r]
      BY <2>2 DEF SetRequest
    <3>2. r.st = "open" /\ r.since = request[k].since /\ (r.call = 0 => request[k].call = 0) /\ (r.call # 0 => GoodFor(k, r.call))
      <4>1. CASE request[k].call = 0
        <5>1. r = [request[k] EXCEPT !.call = hmem[h].call]
          BY <1>2, <4>1
        <5> HIDE DEF r
        <5>2. r.st = "open" /\ r.since = request[k].since /\ r.call = hmem[h].call
          BY <1>2, <5>1 DEF Request
        <5> QED
          BY <1>2, <4>1, <5>2
      <4>2. CASE request[k].call # 0
        <5>1. r = request[k]
          BY <1>2, <4>2
        <5>2. GoodFor(k, request[k].call)
          BY <1>2, <4>2 DEF OwnInv, ToldInv, ToldUnder, Naming
        <5> QED
          BY <1>2, <4>2, <5>1, <5>2
      <4> QED
        BY <4>1, <4>2
    <3> HIDE DEF r
    <3> QED
      BY <1>1, <1>2, <3>1, <3>2, RequestWrites
  <2> QED
    BY <2>1, <2>2 DEF Link, Handle
<1> QED
  BY <1>1, <1>2, <1>5, <1>6, HandlerGoesOwn

LEMMA PlaceOwn ==
  ASSUME TriggerAssumption, Inv, OwnInv, NEW h \in Handlers, Place(h)
  PROVE  OwnInv'
<1> SUFFICES ASSUME NEW k, Key(h) = k PROVE OwnInv'
  OBVIOUS
<1> DEFINE i == hmem[h].call
           rung == [calls[i] EXCEPT !.rings = @ + 1]
<1>1. hpc[h] = "place" /\ UNCHANGED board /\ UNCHANGED pacer /\ request' = request
  BY DEF Place, Handle
<1>2. /\ i \in DOMAIN calls /\ calls[i] \in Call /\ GoodFor(k, i)
      /\ k \in KeyIds /\ hpc[h] # "idle" /\ hmem[h] \in Trigger /\ hmem[h].key = k
  BY <1>1, InHandGood DEF Holding
<1>3. PICK s \in {"record", "failRow"}, a \in Stored : Then(h, s, a, i)
  BY DEF Place, Handle, Stored, Refusals
<1> DEFINE m == [hmem[h] EXCEPT !.answer = a, !.call = i]
<1>4. m.key = k /\ m.call = i /\ Go(h, s, m)
  BY <1>2, <1>3 DEF Trigger, Then
<1> HIDE DEF m
<1>5. GoesOn(h, s, m)
  BY <1>1, <1>2, <1>4 DEF GoesOn, Inserting
<1>6. Writes(h, k)
  <2>1. rung.key = calls[i].key /\ [rung EXCEPT !.errored = TRUE].key = calls[i].key
    BY <1>2 DEF Call
  <2>2. CASE calls' = calls
    BY <1>1, <1>2, <2>2, QuietWrites DEF store
  <2>3. ASSUME NEW c \in {rung, [rung EXCEPT !.errored = TRUE]}, SetCall(i, c) PROVE Writes(h, k)
    <3>1. calls' = [calls EXCEPT ![i] = c] /\ c.key = calls[i].key
      BY <2>1, <2>3 DEF SetCall
    <3> QED
      BY <1>1, <1>2, <3>1, CallMarks
  <2> QED
    BY <2>2, <2>3 DEF Place, Handle
<1> QED
  BY <1>1, <1>2, <1>3, <1>5, <1>6, HandlerGoesOwn

LEMMA WrittenOwn ==
  ASSUME TriggerAssumption, Inv, OwnInv, NEW h \in Handlers, NEW s \in {"record", "failRow"}, NEW c,
         calls[hmem[h].call] \in Call => c.key = calls[hmem[h].call].key, Written(h, s, c)
  PROVE  OwnInv'
<1> SUFFICES ASSUME NEW k, Key(h) = k PROVE OwnInv'
  OBVIOUS
<1>1. hpc[h] = s /\ UNCHANGED board /\ UNCHANGED pacer /\ request' = request /\ Go(h, "complete", hmem[h])
  BY DEF Written, Handle
<1>2. /\ hmem[h].call \in DOMAIN calls /\ calls[hmem[h].call] \in Call /\ GoodFor(k, hmem[h].call)
      /\ k \in KeyIds /\ hpc[h] # "idle" /\ hmem[h].key = k
  BY <1>1, InHandGood DEF Holding
<1>3. GoesOn(h, "complete", hmem[h])
  BY <1>1, <1>2 DEF GoesOn, Inserting, Key
<1>4. Writes(h, k)
  <2>1. CASE calls' = calls
    BY <1>1, <1>2, <2>1, QuietWrites DEF store
  <2>2. CASE SetCall(hmem[h].call, c)
    BY <1>1, <1>2, <2>2, CallMarks DEF SetCall
  <2> QED
    BY <2>1, <2>2 DEF Written, Handle
<1> QED
  BY <1>1, <1>2, <1>3, <1>4, HandlerGoesOwn

LEMMA RecordOwn ==
  ASSUME TriggerAssumption, Inv, OwnInv, NEW h \in Handlers, RecordPlaced(h) \/ RecordFailed(h)
  PROVE  OwnInv'
<1>1. ASSUME NEW c \in {[calls[hmem[h].call] EXCEPT !.sid = TRUE], [calls[hmem[h].call] EXCEPT !.failed = TRUE, !.live = FALSE]},
             calls[hmem[h].call] \in Call
      PROVE  c.key = calls[hmem[h].call].key
  BY <1>1 DEF Call
<1>2. CASE RecordPlaced(h)
  BY <1>1, <1>2, WrittenOwn DEF RecordPlaced
<1>3. CASE RecordFailed(h)
  BY <1>1, <1>3, WrittenOwn DEF RecordFailed
<1> QED
  BY <1>2, <1>3

LEMMA CompleteOwn ==
  ASSUME TriggerAssumption, Inv, OwnInv, NEW h \in Handlers, Complete(h)
  PROVE  OwnInv'
<1> SUFFICES ASSUME NEW k, Key(h) = k PROVE OwnInv'
  OBVIOUS
<1> DEFINE r == [request[k] EXCEPT !.st = "answered", !.answer = hmem[h].answer, !.call = hmem[h].call]
<1>1. hpc[h] = "complete" /\ UNCHANGED board /\ calls' = calls /\ Reply(h, hmem[h].answer, hmem[h].call)
  BY DEF Complete, Handle
<1>2. k \in KeyIds /\ Req(h) = request[k] /\ request[k] \in Request /\ request[k].st = "open"
  BY <1>1, Handled, Parts DEF HandlerInv, Owning, Req
<1>3. hmem[h].answer = "placed" => GoodFor(k, hmem[h].call)
  BY <1>1 DEF OwnInv, ToldInv, ToldBy, Answering
<1>4. request' = [request EXCEPT ![k] = r]
  BY <1>2 DEF Complete, Handle, SetRequest
<1>5. r.st = "answered" /\ r.since = request[k].since /\ r.answer = hmem[h].answer /\ r.call = hmem[h].call
  BY <1>2 DEF Request
<1> HIDE DEF r
<1>6. Writes(h, k)
  BY <1>1, <1>2, <1>3, <1>4, <1>5, RequestWrites
<1> QED
  BY <1>1, <1>3, <1>6, HandlerEndsOwn

LEMMA CrashOwn ==
  ASSUME TriggerAssumption, Inv, OwnInv, NEW h \in Handlers, Crash(h)
  PROVE  OwnInv'
<1> SUFFICES ASSUME NEW k, Key(h) = k PROVE OwnInv'
  OBVIOUS
<1>1. hpc[h] # "idle" /\ UNCHANGED board /\ UNCHANGED store /\ Reply(h, "transport", 0) /\ k \in KeyIds
  BY Handled DEF Crash
<1> QED
  BY <1>1, QuietWrites, HandlerEndsOwn

-----------------------------------------------------------------------------
(* The request, and the marks of time.                                     *)

LEMMA SentRequest ==
  ASSUME TriggerAssumption, OneTick, Inv, OwnInv, NEW p \in Pacers, pc[p] = "send", UNCHANGED board, UNCHANGED store,
         NEW h \in IdleHandlers, Go(h, "arrive", [NoTrigger EXCEPT !.key = mem[p].key]), Goto(p, "wait", [mem[p] EXCEPT !.h = h])
  PROVE  OwnInv'
<1> SUFFICES ASSUME NEW k, mem[p].key = k PROVE OwnInv'
  OBVIOUS
<1> DEFINE t == mem[p].touch
<1>1. /\ h \in Handlers /\ hpc[h] = "idle" /\ touch' = touch /\ request' = request /\ calls' = calls
      /\ TickInv(p) /\ BoardInv /\ KeysInv /\ ToldInv /\ t \in Touches /\ T(p) = touch[t]
  BY Steps DEF IdleHandlers, board, store, OwnInv, BoardInv, TicksInv
<1>2. touch[t].st = "dialing" /\ touch[t].key = k /\ k # 0 /\ Nobody(k) /\ mem[p].answer = "transport"
  BY <1>1 DEF TickInv, TickTouch, TickKey, TickAnswer
<1>3. k \in DOMAIN keys /\ keys[k] = t
  BY <1>1, <1>2 DEF KeysInv
<1>4. /\ hpc'[h] = "arrive" /\ hmem'[h].key = k
      /\ \A g \in Handlers : g # h => hpc'[g] = hpc[g] /\ hmem'[g] = hmem[g]
  <2>1. /\ hpc'[h] = "arrive" /\ hmem'[h] = [NoTrigger EXCEPT !.key = mem[p].key]
        /\ \A g \in Handlers : g # h => hpc'[g] = hpc[g] /\ hmem'[g] = hmem[g]
    BY <1>1, GoStep
  <2> QED
    BY <2>1 DEF NoTrigger
<1>5. pc'[p] = "wait" /\ mem'[p].touch = t /\ mem'[p].key = k /\ mem'[p].h = h /\ mem'[p].answer = "transport"
  <2>1. pc'[p] = "wait" /\ mem'[p] = [mem[p] EXCEPT !.h = h]
    BY GotoStep
  <2> QED
    BY <1>2, <2>1, Steps DEF PacerMem
<1>6. Dialed(k)
  BY <1>1, <1>2, <1>3 DEF Dialed
<1>7. ASSUME NEW q \in DOMAIN keys PROVE (Coming(q)' => Coming(q) \/ Dialed(q)) /\ (OnItsWay(q)' => OnItsWay(q) \/ Dialed(q))
  <2>1. CASE q = k
    BY <1>6, <2>1
  <2>2. CASE q # k
    <3>1. Blank(q)' <=> Blank(q)
      BY <1>1 DEF Blank, CallsSince
    <3>2. Coming(q)' => Coming(q)
      BY <1>4, <2>2, <3>1 DEF Coming, Key, Inserting, Searching
    <3>3. OnItsWay(q)' => OnItsWay(q)
      BY <1>4, <2>2 DEF OnItsWay
    <3> QED
      BY <3>2, <3>3
  <2> QED
    BY <2>1, <2>2
<1>8. StoreMoves
  <2>1. \A g \in Handlers : hpc'[g] # "idle" => hmem'[g].key \in DOMAIN keys
    BY <1>1, <1>3, <1>4 DEF KeysInv, Key
  <2> QED
    BY <1>1, <1>7, <2>1 DEF StoreMoves
<1>9. \A q \in DOMAIN keys : \A i : GoodFor(q, i) => GoodFor(q, i)'
  BY <1>1, <1>8, SameBoardMoves, GoodStays
<1>10. ToldInv'
  <2>1. ASSUME NEW g \in Handlers, NEW q, NEW i, hpc'[g] \in Answering, hmem'[g].answer = "placed", hmem'[g].key = q, hmem'[g].call = i
        PROVE  GoodFor(q, i)'
    <3>1. g # h
      BY <1>4, <2>1 DEF Answering
    <3>2. hmem'[g] = hmem[g] /\ hpc'[g] = hpc[g]
      BY <1>4, <3>1
    <3>3. GoodFor(q, i) /\ q \in DOMAIN keys
      BY <1>1, <2>1, <3>2 DEF KeysInv, ToldInv, ToldBy, Key, Answering
    <3> QED
      BY <1>9, <3>3
  <2>2. ASSUME NEW q \in KeyIds, NEW i, Naming(q), request[q].call = i PROVE GoodFor(q, i)'
    BY <1>1, <1>9, <2>2 DEF KeysInv, ToldInv, ToldUnder, Naming
  <2>3. \A g \in Handlers : ToldBy(g)'
    <3> SUFFICES ASSUME NEW g \in Handlers, hpc'[g] \in Answering, hmem'[g].answer = "placed", NEW q, NEW i,
                        hmem'[g].key = q, hmem'[g].call = i
                 PROVE  GoodFor(q, i)'
      BY DEF ToldBy, Answering, Key, GoodFor, Good, Plan, Holds, Live
    <3> QED
      BY <2>1
  <2>4. \A q \in KeyIds : ToldUnder(q)'
    <3> SUFFICES ASSUME NEW q \in KeyIds, Naming(q), NEW i, request[q].call = i PROVE GoodFor(q, i)'
      BY <1>1 DEF ToldUnder, Naming, GoodFor, Good, Plan, Holds, Live
    <3> QED
      BY <2>2
  <2> QED
    BY <2>3, <2>4 DEF ToldInv, KeyIds
<1>11. TickInv(p)'
  <2>1. \A g \in Handlers : AtWork(g, k)' <=> g = h
    BY <1>2, <1>4 DEF AtWork, Nobody, Key
  <2>2. \A g \in Handlers : AtWork(g, mem[p].key)' <=> g = mem'[p].h
    BY <1>5, <2>1 DEF AtWork
  <2> QED
    BY <1>1, <1>2, <1>5, <2>2 DEF TickInv, TickTouch, TickKey, TickAnswer, T
<1>12. TicksInv'
  BY <1>11 DEF TicksInv, OneTick
<1> QED
  BY <1>1, <1>8, <1>10, <1>12, SameBoardMoves, BoardInvStays DEF OwnInv

LEMMA SendOwn ==
  ASSUME TriggerAssumption, OneTick, Inv, OwnInv, NEW p \in Pacers, Send(p)
  PROVE  OwnInv'
<1>1. pc[p] = "send" /\ UNCHANGED board /\ UNCHANGED store /\ TickInv(p) /\ touch' = touch
  BY DEF Send, board, OwnInv, TicksInv
<1>2. CASE Goto(p, "apply", mem[p]) /\ UNCHANGED handler
  <2>1. pc'[p] = "apply" /\ mem'[p] = mem[p]
    BY <1>2, GotoStep
  <2>2. TickInv(p)'
    BY <1>1, <2>1 DEF TickInv, TickTouch, TickKey, TickAnswer, T
  <2> QED
    BY <1>1, <1>2, <2>2, SameBoardMoves, TickGoes
<1>3. ASSUME NEW h \in IdleHandlers, Go(h, "arrive", [NoTrigger EXCEPT !.key = mem[p].key]), Goto(p, "wait", [mem[p] EXCEPT !.h = h])
      PROVE  OwnInv'
  BY <1>1, <1>3, SentRequest
<1>4. CASE /\ IdleHandlers # {}
           /\ LET h == CHOOSE h \in IdleHandlers : TRUE IN
                /\ Go(h, "arrive", [NoTrigger EXCEPT !.key = mem[p].key])
                /\ Goto(p, "wait", [mem[p] EXCEPT !.h = h])
  <2>1. PICK h \in IdleHandlers : /\ Go(h, "arrive", [NoTrigger EXCEPT !.key = mem[p].key])
                                  /\ Goto(p, "wait", [mem[p] EXCEPT !.h = h])
    BY <1>4
  <2> QED
    BY <1>3, <2>1
<1> QED
  BY <1>2, <1>4 DEF Send

\* A mark on a request or a call tells nothing.
LEMMA MarksOwn ==
  ASSUME TriggerAssumption, Inv, OwnInv, UNCHANGED <<board, pacer, handler>>, DOMAIN calls' = DOMAIN calls,
         \A i \in DOMAIN calls : calls'[i].key = calls[i].key,
         \A k \in KeyIds : /\ request'[k].st = request[k].st /\ request'[k].since = request[k].since
                           /\ request'[k].call = request[k].call /\ request'[k].answer = request[k].answer
  PROVE  OwnInv'
<1>1. /\ touch' = touch /\ keys' = keys /\ overtaken' = overtaken /\ pc' = pc /\ mem' = mem /\ hpc' = hpc /\ hmem' = hmem
      /\ BoardInv /\ KeysInv /\ ToldInv
  BY DEF board, pacer, handler, OwnInv, BoardInv
<1>2. DOMAIN keys \subseteq KeyIds
  BY KeysType
<1>3. \A k, h : (Nobody(k)' <=> Nobody(k)) /\ (AtWork(h, k)' <=> AtWork(h, k)) /\ (OnItsWay(k)' <=> OnItsWay(k))
  BY <1>1 DEF Nobody, AtWork, OnItsWay, Key
<1>4. ASSUME NEW k \in KeyIds PROVE CallsSince(k)' = CallsSince(k) /\ (Blank(k)' <=> Blank(k)) /\ (Naming(k)' <=> Naming(k)) /\ (Coming(k)' <=> Coming(k))
  <2>1. CallsSince(k)' = CallsSince(k)
    BY DEF CallsSince
  <2>2. (Blank(k)' <=> Blank(k)) /\ (Naming(k)' <=> Naming(k))
    BY <2>1 DEF Blank, Naming
  <2>3. Coming(k)' <=> Coming(k)
    BY <1>1, <2>2 DEF Coming, Key, Inserting, Searching
  <2> QED
    BY <2>1, <2>2, <2>3
<1>5. StoreMoves
  BY <1>1, <1>2, <1>3, <1>4 DEF StoreMoves, KeysInv, Key
<1>6. ASSUME NEW k \in KeyIds, NEW i, k \in DOMAIN keys, GoodFor(k, i) PROVE GoodFor(k, i)'
  BY <1>1, <1>5, <1>6, SameBoardMoves, GoodStays
<1>7. ToldInv'
  <2>1. ASSUME NEW h \in Handlers, hpc[h] \in Answering, hmem[h].answer = "placed", NEW k, NEW i, hmem[h].key = k, hmem[h].call = i
        PROVE  GoodFor(k, i)'
    <3>1. k \in DOMAIN keys /\ GoodFor(k, i)
      BY <1>1, <2>1 DEF ToldInv, ToldBy, KeysInv, Key, Answering
    <3> QED
      BY <1>2, <1>6, <3>1
  <2>2. \A h \in Handlers : ToldBy(h)'
    <3> SUFFICES ASSUME NEW h \in Handlers, hpc[h] \in Answering, hmem[h].answer = "placed", NEW k, NEW i, hmem[h].key = k, hmem[h].call = i
                 PROVE  GoodFor(k, i)'
      BY <1>1 DEF ToldBy, Answering, Key, GoodFor, Good, Plan, Holds, Live
    <3> QED
      BY <2>1
  <2>3. ASSUME NEW k \in KeyIds PROVE ToldUnder(k)'
    <3> SUFFICES ASSUME Naming(k), NEW i, request[k].call = i PROVE GoodFor(k, i)'
      BY <1>4 DEF ToldUnder, GoodFor, Good, Plan, Holds, Live
    <3>1. k \in DOMAIN keys /\ GoodFor(k, i)
      BY <1>1 DEF ToldInv, ToldUnder, KeysInv, Naming
    <3> QED
      BY <1>6, <3>1
  <2> QED
    BY <2>2, <2>3 DEF ToldInv, KeyIds
<1>8. ASSUME NEW p \in Pacers PROVE TickInv(p)'
  <2>1. TickInv(p)
    BY DEF OwnInv, TicksInv
  <2> SUFFICES ASSUME NEW q, mem[p].key = q, NEW c, mem[p].call = c PROVE TickInv(p)'
    OBVIOUS
  <2>2. pc[p] = "apply" /\ mem[p].answer = "placed" => GoodFor(q, c)'
    <3>1. pc[p] = "apply" => T(p).key = q /\ q # 0 /\ mem[p].touch \in Touches
      BY <2>1, Steps DEF TickInv, TickTouch
    <3>2. pc[p] = "apply" => q \in DOMAIN keys
      BY <1>1, <3>1 DEF KeysInv, T
    <3> QED
      BY <1>2, <1>6, <2>1, <3>2 DEF TickInv, TickAnswer
  <2>3. /\ Nobody(mem[p].key)' <=> Nobody(q)
        /\ OnItsWay(mem[p].key)' <=> OnItsWay(q)
        /\ GoodFor(mem[p].key, mem[p].call)' <=> GoodFor(q, c)'
        /\ \A g : AtWork(g, mem[p].key)' <=> AtWork(g, q)
    BY <1>1 DEF Nobody, AtWork, OnItsWay, Key, GoodFor, Good, Plan, Holds, Live
  <2> QED
    BY <1>1, <2>1, <2>2, <2>3 DEF TickInv, TickTouch, TickKey, TickAnswer, T
<1>9. TicksInv'
  BY <1>8 DEF TicksInv
<1> QED
  BY <1>1, <1>5, <1>7, <1>9, SameBoardMoves, BoardInvStays DEF OwnInv

LEMMA OldOwn ==
  ASSUME TriggerAssumption, Inv, OwnInv, NEW k \in KeyIds, Old(k)
  PROVE  OwnInv'
<1>1. /\ UNCHANGED <<board, pacer, handler>> /\ calls' = calls
      /\ request' = [request EXCEPT ![k] = [request[k] EXCEPT !.old = TRUE]] /\ request \in [KeyIds -> Request]
  BY Parts DEF Old, TypeStore
<1>2. ASSUME NEW q \in KeyIds
      PROVE  /\ request'[q].st = request[q].st /\ request'[q].since = request[q].since
             /\ request'[q].call = request[q].call /\ request'[q].answer = request[q].answer
  <2>1. request'[q] = IF q = k THEN [request[q] EXCEPT !.old = TRUE] ELSE request[q]
    BY <1>1
  <2>2. request[q] \in Request
    BY <1>1
  <2> QED
    BY <2>1, <2>2 DEF Request
<1> QED
  BY <1>1, <1>2, MarksOwn

LEMMA CallTimeOwn ==
  ASSUME TriggerAssumption, Inv, OwnInv, NEW i \in DOMAIN calls, CallEnds(i) \/ Sweep(i)
  PROVE  OwnInv'
<1>1. PICK c \in {[calls[i] EXCEPT !.live = FALSE, !.sid = TRUE], [calls[i] EXCEPT !.failed = TRUE, !.live = FALSE]} : SetCall(i, c)
  BY DEF CallEnds, Sweep
<1>2. UNCHANGED <<board, pacer, handler>> /\ request' = request /\ calls[i] \in Call /\ calls \in Seq(Call)
  BY Parts, CallTypes DEF CallEnds, Sweep, TypeStore
<1>3. c.key = calls[i].key
  BY <1>2 DEF Call
<1>4. calls' = [calls EXCEPT ![i] = c]
  BY <1>1 DEF SetCall
<1> HIDE DEF SetCall
<1>5. DOMAIN calls' = DOMAIN calls /\ \A j \in DOMAIN calls : calls'[j].key = calls[j].key
  BY <1>2, <1>3, <1>4
<1> QED
  BY <1>2, <1>5, MarksOwn

-----------------------------------------------------------------------------
(* The start, every step, and the theorem.                                 *)

LEMMA InitOwn ==
  ASSUME TriggerAssumption, Init
  PROVE  OwnInv
<1>1. DOMAIN keys = {} /\ DOMAIN calls = {}
  BY DEF Init
<1>2. /\ \A k : request[k].st = "none" \/ k \notin KeyIds
      /\ \A h \in Handlers : hpc[h] = "idle"
      /\ \A p \in Pacers : pc[p] = "idle"
  BY DEF Init, NoRequest
<1>3. \A t \in Touches : touch[t].key = 0 /\ touch[t].st \in {"none", "planned"} /\ (touch[t].st = "planned" => t = AnyTouch)
  BY DEF Init, Released, NoTouch
<1>4. KeysInv /\ HeldInv /\ SearchInv /\ SentInv
  BY <1>1, <1>2, <1>3 DEF KeysInv, HeldInv, SearchInv, SentInv
<1>5. PlansInv
  BY <1>1, <1>3 DEF PlansInv, Open, Live
<1>6. DueInv
  BY <1>2 DEF DueInv, OnItsWay
<1>7. ToldInv
  BY <1>2 DEF ToldInv, ToldBy, ToldUnder, Naming, Answering
<1>8. TicksInv
  BY <1>2 DEF TicksInv, TickInv, TickTouch, TickKey, TickAnswer
<1> QED
  BY <1>4, <1>5, <1>6, <1>7, <1>8 DEF OwnInv, BoardInv

LEMMA StepOwn ==
  ASSUME TriggerAssumption, OneTick, Inv, OwnInv, [Next]_vars
  PROVE  OwnInv'
<1>1. ASSUME NEW p \in Pacers, Pace(p) PROVE OwnInv'
  BY <1>1, PickOwn, SettleKeyOwn, GateOwn, ClaimOwn, RefusedOwn, SendOwn, GiveUpOwn, ResolveOwn, ApplyOwn, FinishOwn, ReapOwn
     DEF Pace
<1>2. ASSUME NEW p \in Pacers, PacerCrash(p) PROVE OwnInv'
  BY <1>2, PacerCrashOwn
<1>3. ASSUME NEW h \in Handlers, Answer(h) PROVE OwnInv'
  BY <1>3, ArriveOwn, TakeOverOwn, FindOwn, CheckOwn, InsertCallOwn, LinkOwn, PlaceOwn, RecordOwn, CompleteOwn DEF Answer
<1>4. ASSUME NEW h \in Handlers, Crash(h) PROVE OwnInv'
  BY <1>4, CrashOwn
<1>5. ASSUME NEW k \in KeyIds, Old(k) PROVE OwnInv'
  BY <1>5, OldOwn
<1>6. ASSUME NEW t \in Touches, Aged(t) \/ Due(t) PROVE OwnInv'
  BY <1>6, TouchTimeOwn
<1>7. ASSUME NEW i \in DOMAIN calls, CallEnds(i) \/ Sweep(i) PROVE OwnInv'
  BY <1>7, CallTimeOwn
<1>8. ASSUME Decide PROVE OwnInv'
  BY <1>8, DecideOwn
<1>9. ASSUME UNCHANGED vars PROVE OwnInv'
  <2>1. UNCHANGED <<board, pacer, handler>> /\ calls' = calls /\ request' = request
    BY <1>9 DEF vars, board, pacer, handler
  <2> QED
    BY <2>1, MarksOwn
<1> QED
  BY <1>1, <1>2, <1>3, <1>4, <1>5, <1>6, <1>7, <1>8, <1>9 DEF Next

\* With one tick at a time, the call a touch is sent with was placed for it, however
\* it was found and whatever was lost, crashed, taken over or decided meanwhile
\* (key-resolution.ts:10-13).
THEOREM OwnCallHolds ==
  ASSUME TriggerAssumption, OneTick
  PROVE  Spec => []OwnCall
<1>1. Init => Inv /\ OwnInv
  BY InitInv, InitOwn
<1>2. (Inv /\ OwnInv) /\ [Next]_vars => (Inv /\ OwnInv)'
  BY StepInv, StepOwn
<1>3. OwnInv => OwnCall
  BY DEF OwnInv, BoardInv, SentInv, Good, OwnCall
<1> QED
  BY <1>1, <1>2, <1>3, PTL DEF Spec
=============================================================================
